------------------------------- MODULE EpexMC -------------------------------
(***************************************************************************)
(* Instances of Epex for TLC.                                              *)
(***************************************************************************)
EXTENDS EpexProps

CONSTANTS ReadSizes, WriteSizes, Timed

MCRequests ==
    [op : {"READ"}, size : ReadSizes, all : BOOLEAN, timed : Timed]
    \cup [op : {"WRITE"}, size : WriteSizes, all : {FALSE}, timed : Timed]

Symmetry == Permutations(Tasks) \cup Permutations(Stubs)
=============================================================================
