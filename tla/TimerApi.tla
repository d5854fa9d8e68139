------------------------------ MODULE TimerApi ------------------------------
(***************************************************************************)
(* What exnet.c takes the timer for: a set of units with their times.      *)
(* timer_next hands out the units whose time has passed, earliest first,   *)
(* and says NULL only when there is none left.                             *)
(***************************************************************************)
EXTENDS Integers

CONSTANTS Units, Times

VARIABLES
    pending, \* the units that are in the timer
    tv,      \* their times; 0 for the other units
    now,     \* the time of the last timer_timeout
    phase    \* "idle", "busy" in timer_next, or "handed" out a unit

vars == <<pending, tv, now, phase>>

Init ==
    /\ pending = {} /\ tv = [u \in Units |-> 0]
    /\ now \in Times /\ phase = "idle"

Remove(u) ==
    /\ pending' = pending \ {u}
    /\ tv' = [tv EXCEPT ![u] = 0]

(* timer_add, timer_add2. *)
Add(u, t) ==
    /\ phase # "busy" /\ u \notin pending
    /\ pending' = pending \cup {u}
    /\ tv' = [tv EXCEPT ![u] = t]
    /\ UNCHANGED <<now, phase>>

(* timer_del. *)
Del(u) ==
    /\ phase # "busy"
    /\ Remove(u)
    /\ UNCHANGED <<now, phase>>

(* timer_timeout, and the first timer_next after it. *)
Timeout(t) ==
    /\ phase = "idle"
    /\ now' = t /\ phase' = "busy"
    /\ UNCHANGED <<pending, tv>>

(* timer_next again, after a unit was handled. *)
Again ==
    /\ phase = "handed" /\ phase' = "busy"
    /\ UNCHANGED <<pending, tv, now>>

(* timer_next returns a unit. *)
HandOut(u) ==
    /\ phase = "busy" /\ u \in pending
    /\ tv[u] < now
    /\ \A v \in pending : tv[u] <= tv[v]
    /\ Remove(u)
    /\ phase' = "handed"
    /\ UNCHANGED now

(* timer_next returns NULL. *)
Finish ==
    /\ phase = "busy"
    /\ \A u \in pending : tv[u] >= now
    /\ phase' = "idle"
    /\ UNCHANGED <<pending, tv, now>>

Next ==
    \/ \E u \in Units, t \in Times : Add(u, t)
    \/ \E u \in Units : Del(u) \/ HandOut(u)
    \/ \E t \in Times : Timeout(t)
    \/ Again \/ Finish

Spec == Init /\ [][Next]_vars
=============================================================================
