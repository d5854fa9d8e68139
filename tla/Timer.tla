-------------------------------- MODULE Timer --------------------------------
(***************************************************************************)
(* The timer wheel of timer.c.  A unit is in the list of its millisecond   *)
(* if its time is in the second of _last, in the list of its second if it  *)
(* is in that minute, in the list of a minute if it is in that hour, else  *)
(* in _other; it moves down as _last moves on.  The user is epex_poll (and *)
(* timer_tester.c): timer_timeout, then timer_next until it says NULL.     *)
(* A list is the set of its units: its order only decides which of those   *)
(* of one millisecond comes first, and is left open.                       *)
(***************************************************************************)
EXTENDS Integers

CONSTANTS
    Units,
    MsPerSec, SecPerMin, MinPerHour, \* 1000, 60 and 60 in the code
    CountRange,  \* 2^32, the range of _count
    StartTimes,  \* what the clock may say when the timer is made
    MaxTime,     \* bound of the clock and of the times of units
    MaxGap,      \* how far the clock may have moved on at a timer_timeout
    MaxBack,     \* how far it may then be behind _last, if it was set back
    DelExpired   \* whether the user deletes a unit that was handed out

TimerAssumption ==
    /\ MsPerSec \in Nat \ {0, 1} /\ SecPerMin \in Nat \ {0, 1}
    /\ MinPerHour \in Nat \ {0, 1} /\ CountRange \in Nat \ {0}
    /\ MaxTime \in Nat /\ MaxGap \in Nat /\ MaxBack \in Nat
    /\ StartTimes \subseteq 0..MaxTime
    /\ DelExpired \in BOOLEAN
ASSUME TimerAssumption

VARIABLES
    last, now, count,      \* _last, _now, _count
    ms, sec, minute, other, \* _ms, _sec, _min, _other
    tv,  \* _tv of the units that are in a list, in milliseconds; else 0
    pc   \* "idle" after NULL, "handed" after a unit was returned; inside
         \* timer_next: "walk" over _ms, "second" in timer_adjust_sec

lists == <<ms, sec, minute, other>>
vars == <<last, now, count, lists, tv, pc>>

Times == 0..MaxTime
Second(t) == t \div MsPerSec
Minute(t) == Second(t) \div SecPerMin

SlotsMs == 0..(MsPerSec - 1)
SlotsSec == 0..(SecPerMin - 1)
SlotsMin == 1..(MinPerHour - 1)  \* _min[0] is never used

AllLists ==
    {ms[i] : i \in SlotsMs} \cup {sec[i] : i \in SlotsSec}
        \cup {minute[i] : i \in SlotsMin} \cup {other}
Linked(u) == \E list \in AllLists : u \in list

(* timer_new. *)
Init ==
    /\ last \in StartTimes /\ now = last
    /\ count = 0
    /\ ms = [i \in SlotsMs |-> {}] /\ sec = [i \in SlotsSec |-> {}]
    /\ minute = [i \in SlotsMin |-> {}] /\ other = {}
    /\ tv = [u \in Units |-> 0]
    /\ pc = "idle"

AtUser == pc \in {"idle", "handed"}

(* _count is a uint32_t; slip: it is not. *)
CountedSigned(n) == n
Counted(n) == n % CountRange

-----------------------------------------------------------------------------
(* timer_add refuses a time before _last; slip: it does not. *)
AcceptsAny(t) == TRUE
Accepts(t) == last <= t

(* Inserts the unit into one of an array of lists. *)
Link(array, i, u) == [array EXCEPT ![i] = @ \cup {u}]

(* The list for time t, by how far it is from _last. *)
Place(u, t) ==
    LET away == Minute(t) - Minute(last) IN
    \/ /\ Second(t) = Second(last)
       /\ ms' = Link(ms, t % MsPerSec, u)
       /\ UNCHANGED <<sec, minute, other>>
    \/ /\ Second(t) # Second(last) /\ away = 0
       /\ sec' = Link(sec, Second(t) % SecPerMin, u)
       /\ UNCHANGED <<ms, minute, other>>
    \/ /\ away \in SlotsMin
       /\ minute' = Link(minute, away, u)
       /\ UNCHANGED <<ms, sec, other>>
    \/ /\ away >= MinPerHour
       /\ other' = other \cup {u}
       /\ UNCHANGED <<ms, sec, minute>>

(* timer_add and timer_add2, of a unit that is in no list. *)
Add(u, t) ==
    /\ AtUser /\ ~Linked(u) /\ Accepts(t)
    /\ count' = Counted(count + 1)
    /\ Place(u, t)
    /\ tv' = [tv EXCEPT ![u] = t]
    /\ UNCHANGED <<last, now, pc>>

(* timer_del does not look whether the unit is in a list. *)
Del(u) ==
    /\ AtUser /\ (Linked(u) \/ DelExpired)
    /\ count' = Counted(count - 1)
    /\ ms' = [i \in SlotsMs |-> ms[i] \ {u}]
    /\ sec' = [i \in SlotsSec |-> sec[i] \ {u}]
    /\ minute' = [i \in SlotsMin |-> minute[i] \ {u}]
    /\ other' = other \ {u}
    /\ tv' = [tv EXCEPT ![u] = 0]
    /\ UNCHANGED <<last, now, pc>>

(* timer_timeout, and the call of timer_next that follows. *)
Timeout(t) ==
    /\ pc = "idle"
    /\ t <= now + MaxGap /\ t >= last - MaxBack
    /\ now' = t
    /\ pc' = "walk"
    /\ UNCHANGED <<last, count, lists, tv>>

(* The next call, when the unit that was returned has been handled. *)
NextCall ==
    /\ pc = "handed" /\ pc' = "walk"
    /\ UNCHANGED <<last, now, count, lists, tv>>

-----------------------------------------------------------------------------
(* timer_next_int: the loop over _ms, from the millisecond of _last; slip: *)
(* a unit of this millisecond has expired.                                 *)
PassedOrNow == last <= now
Passed == last < now
Slot == last % MsPerSec

(* It has caught up with the clock: NULL. *)
CaughtUp ==
    /\ pc = "walk" /\ ~Passed
    /\ pc' = "idle"
    /\ UNCHANGED <<last, now, count, lists, tv>>

(* The list of the millisecond is empty: on to the next one, or to         *)
(* timer_adjust_sec after the last one of the second; slip: _last does not *)
(* move with the loop.                                                     *)
TickInPlace ==
    /\ pc = "walk" /\ Passed /\ ms[Slot] = {}
    /\ pc' = IF Slot = MsPerSec - 1 THEN "second" ELSE "walk"
    /\ UNCHANGED <<last, now, count, lists, tv>>
Tick ==
    /\ pc = "walk" /\ Passed /\ ms[Slot] = {}
    /\ last' = last + 1
    /\ pc' = IF Slot = MsPerSec - 1 THEN "second" ELSE "walk"
    /\ UNCHANGED <<now, count, lists, tv>>

(* It is not: its first unit is returned; slip: and not counted. *)
PopUncounted ==
    /\ pc = "walk" /\ Passed
    /\ \E u \in ms[Slot] :
        /\ ms' = [ms EXCEPT ![Slot] = @ \ {u}]
        /\ tv' = [tv EXCEPT ![u] = 0]
    /\ pc' = "handed"
    /\ UNCHANGED <<last, now, count, sec, minute, other>>
Pop ==
    /\ pc = "walk" /\ Passed
    /\ \E u \in ms[Slot] :
        /\ ms' = [ms EXCEPT ![Slot] = @ \ {u}]
        /\ tv' = [tv EXCEPT ![u] = 0]
    /\ count' = Counted(count - 1)
    /\ pc' = "handed"
    /\ UNCHANGED <<last, now, sec, minute, other>>

(* The units of a list, moved to the lists of an array. *)
Scatter(list, array, SlotOf(_)) ==
    [i \in DOMAIN array |-> array[i] \cup {u \in list : SlotOf(u) = i}]

(* timer_adjust_min, when a minute begins: the units of the first minute   *)
(* list go to their seconds, the other minute lists move up, and those of  *)
(* _other that have come near enough go to the last one; slips: a minute   *)
(* too late, or without leaving _other.                                    *)
NewMinute == Second(last) % SecPerMin = 0
NearLate(u) == Minute(last) + MinPerHour - 2 >= Minute(tv[u])
Near(u) == Minute(last) + MinPerHour - 1 >= Minute(tv[u])

AdjustedSec ==
    IF NewMinute
    THEN Scatter(minute[1], sec, LAMBDA u : Second(tv[u]) % SecPerMin)
    ELSE sec
AdjustedMin ==
    IF NewMinute
    THEN [i \in SlotsMin |-> IF i < MinPerHour - 1 THEN minute[i + 1]
                             ELSE {u \in other : Near(u)}]
    ELSE minute
AdjustedOtherKept == other
AdjustedOther ==
    IF NewMinute THEN {u \in other : ~Near(u)} ELSE other

(* The loop of timer_adjust_sec starts from second Off; At(i) is _last when *)
(* it comes to second i, which it skips if it has no units and is over.    *)
Off == Second(last) % SecPerMin
At(i) == last + (i - Off) * MsPerSec
Over(i) == At(i) + MsPerSec <= now

(* The end of the minute was reached: _last is there, but the minute is    *)
(* not adjusted.                                                           *)
LeaveMinute(i) ==
    /\ i = SecPerMin
    /\ last' = At(i)
    /\ sec' = AdjustedSec /\ UNCHANGED ms

(* A second has units: they go to their milliseconds. *)
EnterSecond(i) ==
    /\ i < SecPerMin /\ AdjustedSec[i] # {}
    /\ last' = At(i)
    /\ sec' = [AdjustedSec EXCEPT ![i] = {}]
    /\ ms' = Scatter(AdjustedSec[i], ms, LAMBDA u : tv[u] % MsPerSec)

(* A second has none and is not over yet. *)
StayInSecond(i) ==
    /\ i < SecPerMin /\ AdjustedSec[i] = {} /\ ~Over(i)
    /\ last' = now
    /\ sec' = AdjustedSec /\ UNCHANGED ms

(* timer_adjust_sec. *)
AdjustSec ==
    /\ pc = "second" /\ pc' = "walk"
    /\ minute' = AdjustedMin /\ other' = AdjustedOther
    /\ \E i \in Off..SecPerMin :
        /\ \A j \in Off..(i - 1) : AdjustedSec[j] = {} /\ Over(j)
        /\ LeaveMinute(i) \/ EnterSecond(i) \/ StayInSecond(i)
    /\ UNCHANGED <<now, count, tv>>

-----------------------------------------------------------------------------
TimerNext == CaughtUp \/ Tick \/ Pop \/ AdjustSec

Next ==
    \/ \E u \in Units, t \in Times : Add(u, t)
    \/ \E u \in Units : Del(u)
    \/ \E t \in Times : Timeout(t)
    \/ NextCall
    \/ TimerNext

Spec == Init /\ [][Next]_vars
=============================================================================
