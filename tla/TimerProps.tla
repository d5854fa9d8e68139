----------------------------- MODULE TimerProps -----------------------------
(***************************************************************************)
(* What is expected of the timer wheel of timer.c, by any program and by   *)
(* one that calls timer_timeout at least once a second.                    *)
(***************************************************************************)
EXTENDS Timer, FiniteSets

(* The shape of the wheel of timer.c: a list of units for every slot. *)
TypeOK ==
    /\ last \in Nat /\ now \in Nat
    /\ count \in 0..(CountRange - 1)
    /\ ms \in [SlotsMs -> SUBSET Units] /\ sec \in [SlotsSec -> SUBSET Units]
    /\ minute \in [SlotsMin -> SUBSET Units] /\ other \subseteq Units
    /\ tv \in [Units -> Nat]
    /\ pc \in {"idle", "handed", "walk", "second"}

Slots == ({"ms"} \X SlotsMs) \cup ({"sec"} \X SlotsSec)
            \cup ({"min"} \X SlotsMin) \cup {<<"other", 0>>}
ListAt(slot) ==
    CASE slot[1] = "ms" -> ms[slot[2]]
      [] slot[1] = "sec" -> sec[slot[2]]
      [] slot[1] = "min" -> minute[slot[2]]
      [] slot[1] = "other" -> other

(* A unit that timer_adjust_min and timer_adjust_sec pass on from list to  *)
(* list is never in two of them.                                           *)
LinkedOnce ==
    \A a, b \in Slots : a # b => ListAt(a) \cap ListAt(b) = {}

(* The checks of TIMER_CHECK, "should be empty, error": when a second      *)
(* begins the units of the one before are gone, and when a minute begins   *)
(* those of the seconds of the one before.                                 *)
EmptyBelow ==
    pc = "second" =>
        /\ \A i \in SlotsMs : ms[i] = {}
        /\ Second(last) % SecPerMin = 0 => \A i \in SlotsSec : sec[i] = {}

(* timer_next does not return a unit whose time has not passed, however    *)
(* long the program was away and however late the unit is.                 *)
NeverEarly ==
    [][\A u \in Units :
        pc = "walk" /\ Linked(u) /\ ~Linked(u)' => tv[u] < now]_vars

(* _count, which timer_tester.c waits for to become 0, is the number of    *)
(* units in the timer, if none is deleted that timer_next has returned.    *)
CountIsUnits ==
    ~DelExpired => count = Cardinality({u \in Units : Linked(u)})

-----------------------------------------------------------------------------
(* The millisecond up to which the lists have been adjusted. *)
Adjusted == IF pc = "second" THEN last - 1 ELSE last

(* Every unit is where timer_next comes across it at its millisecond: the  *)
(* list of a unit and its place in the array always agree with its time.   *)
Placed ==
    /\ \A i \in SlotsMs : \A u \in ms[i] :
        /\ Second(tv[u]) = Second(Adjusted) /\ tv[u] % MsPerSec = i
        /\ tv[u] >= last
    /\ \A i \in SlotsSec : \A u \in sec[i] :
        /\ Minute(tv[u]) = Minute(Adjusted) /\ Second(tv[u]) % SecPerMin = i
        /\ Second(tv[u]) > Second(Adjusted)
    /\ \A i \in SlotsMin : \A u \in minute[i] :
        Minute(tv[u]) - Minute(Adjusted) = i
    /\ \A u \in other : Minute(tv[u]) - Minute(Adjusted) >= MinPerHour

(* timer_next says NULL when what is left is "not timed out yet" (comment  *)
(* in timer_next_int).                                                     *)
NothingOverdue == pc = "idle" => \A u \in Units : Linked(u) => tv[u] >= now

(* The wheel is a set of units with times (TimerApi): timer_next returns   *)
(* them earliest first, none too early and none too late.                  *)
Api == INSTANCE TimerApi WITH
    pending <- {u \in Units : Linked(u)},
    phase <- IF AtUser THEN pc ELSE "busy"

ImplementsApi == Api!Spec

-----------------------------------------------------------------------------
(* timer_next is sequential code: once called, it goes on.                 *)
FairSpec == Spec /\ WF_vars(TimerNext)

(* The recursion of timer_next_int and the loops it runs come to an end.   *)
NextReturns == ~AtUser ~> AtUser
=============================================================================
