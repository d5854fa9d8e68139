------------------------------- MODULE TimerMC -------------------------------
(* Instances of the timer wheel for TLC. *)
EXTENDS TimerProps, TLC

CONSTANTS u1, u2

Interchangeable == Permutations(Units)

(* 2 milliseconds in a second, 3 seconds in a minute, 3 minutes in an hour. *)
Minutes(n) == n * MsPerSec * SecPerMin
AtStart == {0}
AroundMinute == {Minutes(1) - 1, Minutes(1), Minutes(1) + 3}
=============================================================================
