-------------------------------- MODULE HashMC --------------------------------
(* An instance of the hash table for TLC. *)
EXTENDS HashProps, TLC

CONSTANTS k1, k2, k3

(* Two keys share a bucket. *)
MCHashFun == (k1 :> 0) @@ (k2 :> 1) @@ (k3 :> 2)

Interchangeable == Permutations(Pages) \cup Permutations(Values)
=============================================================================
