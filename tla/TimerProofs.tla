---------------------------- MODULE TimerProofs -----------------------------
(***************************************************************************)
(* Theorems about Timer, whatever the sizes of the wheel, the times of     *)
(* units and the gaps between polls: no unit expires early, no unit is in  *)
(* two lists, the lists that time has passed are empty, and _count counts  *)
(* what is in them.  With polls at most a second apart every unit is where *)
(* its time belongs, and the wheel is the set of units of TimerApi.        *)
(***************************************************************************)
EXTENDS TimerProps, FiniteSetTheorems, TLAPS

USE TimerAssumption

-----------------------------------------------------------------------------
(* No unit early.  The invariant says of each list that its units are not  *)
(* later than what it stands for.  It is one-sided: a wheel that was left  *)
(* behind keeps it, as what the lists stand for only moves ahead with last.*)

(* Between the end of a minute and timer_adjust_min the minute lists stand *)
(* for what they did before.                                               *)
MinuteDone ==
    IF pc = "second" /\ NewMinute THEN Minute(last) - 1 ELSE Minute(last)

MsBound ==
    \A i \in SlotsMs : \A u \in ms[i] : tv[u] <= Second(last) * MsPerSec + i
SecBound ==
    \A i \in SlotsSec : \A u \in sec[i] :
        Second(tv[u]) <= Minute(last) * SecPerMin + i
MinBound ==
    \A i \in SlotsMin : \A u \in minute[i] : Minute(tv[u]) <= MinuteDone + i

(* timer_adjust_sec runs at the first millisecond of a second that the     *)
(* clock has reached.                                                      *)
AtSecond == pc = "second" => last % MsPerSec = 0 /\ last <= now

TInv == TypeOK /\ AtSecond /\ MsBound /\ SecBound /\ MinBound

-----------------------------------------------------------------------------
(* Division of times. *)
LEMMA DivMod ==
    ASSUME NEW n \in Nat \ {0}, NEW t \in Nat
    PROVE  /\ t \div n \in Nat /\ t % n \in 0..(n - 1)
           /\ t = (t \div n) * n + (t % n)
OBVIOUS

LEMMA DivFloor ==
    ASSUME NEW n \in Nat \ {0}, NEW t \in Nat
    PROVE  (t \div n) * n <= t
OBVIOUS

LEMMA DivMono ==
    ASSUME NEW n \in Nat \ {0}, NEW s \in Nat, NEW t \in Nat, s <= t
    PROVE  s \div n <= t \div n
OBVIOUS

LEMMA DivUnique ==
    ASSUME NEW n \in Nat \ {0}, NEW q \in Nat, NEW r \in 0..(n - 1)
    PROVE  (q * n + r) \div n = q /\ (q * n + r) % n = r
OBVIOUS

LEMMA TimesMono ==
    ASSUME NEW n \in Nat, NEW s \in Nat, NEW t \in Nat, s <= t
    PROVE  s * n <= t * n
OBVIOUS

(* A time is a minute, a second of it and a millisecond of that. *)
LEMMA TimeParts ==
    ASSUME NEW t \in Nat
    PROVE  /\ Second(t) \in Nat /\ Minute(t) \in Nat
           /\ t % MsPerSec \in SlotsMs /\ Second(t) % SecPerMin \in SlotsSec
           /\ t = Second(t) * MsPerSec + (t % MsPerSec)
           /\ Second(t) = Minute(t) * SecPerMin + (Second(t) % SecPerMin)
<1>1. /\ Second(t) \in Nat /\ t % MsPerSec \in SlotsMs
      /\ t = Second(t) * MsPerSec + (t % MsPerSec)
  BY DivMod DEF Second, SlotsMs, TimerAssumption
<1>2. /\ Minute(t) \in Nat /\ Second(t) % SecPerMin \in SlotsSec
      /\ Second(t) = Minute(t) * SecPerMin + (Second(t) % SecPerMin)
  BY <1>1, DivMod DEF Minute, SlotsSec, TimerAssumption
<1> QED
  BY <1>1, <1>2

LEMMA TimeMono ==
    ASSUME NEW s \in Nat, NEW t \in Nat, s <= t
    PROVE  Second(s) <= Second(t) /\ Minute(s) <= Minute(t)
<1>1. Second(s) \in Nat /\ Second(t) \in Nat
  BY TimeParts
<1>2. Second(s) <= Second(t)
  BY DivMono DEF Second, TimerAssumption
<1> QED
  BY <1>1, <1>2, DivMono DEF Minute, TimerAssumption

(* The last millisecond of a minute is not of the next minute. *)
LEMMA MinuteEnds ==
    ASSUME NEW t \in Nat, NEW next \in Nat, next = t + 1,
           next % MsPerSec = 0, Second(next) % SecPerMin = 0
    PROVE  Minute(t) <= Minute(next) - 1
<1>1. /\ Minute(t) \in Nat /\ Minute(next) \in Nat
      /\ Second(t) \in Nat /\ Second(next) \in Nat
      /\ MsPerSec \in Nat /\ SecPerMin \in Nat
  BY TimeParts DEF TimerAssumption
<1>2. next = Second(next) * MsPerSec /\ Second(next) = Minute(next) * SecPerMin
  <2>1. /\ next = Second(next) * MsPerSec + (next % MsPerSec)
        /\ Second(next) = Minute(next) * SecPerMin + (Second(next) % SecPerMin)
    BY TimeParts
  <2> QED
    BY <2>1, <1>1
<1>3. Second(t) * MsPerSec <= t /\ Minute(t) * SecPerMin <= Second(t)
  BY <1>1, DivFloor DEF Second, Minute, TimerAssumption
<1>4. Second(t) < Second(next)
  <2>1. ASSUME Second(t) >= Second(next) PROVE FALSE
    <3>1. Second(next) * MsPerSec <= Second(t) * MsPerSec
      BY <2>1, <1>1, TimesMono
    <3> QED
      BY <3>1, <1>1, <1>2, <1>3
  <2> QED
    BY <2>1, <1>1
<1>5. ASSUME Minute(t) >= Minute(next) PROVE FALSE
  <2>1. Minute(next) * SecPerMin <= Minute(t) * SecPerMin
    BY <1>5, <1>1, TimesMono
  <2> QED
    BY <2>1, <1>1, <1>2, <1>3, <1>4
<1> QED
  BY <1>5, <1>1

-----------------------------------------------------------------------------
(* Types. *)
LEMMA CountedType ==
    ASSUME NEW n \in Int
    PROVE  Counted(n) \in 0..(CountRange - 1)
BY DEF Counted, TimerAssumption

LEMMA InitType == Init => TypeOK
<1> SUFFICES ASSUME Init PROVE TypeOK
  OBVIOUS
<1> QED
  BY DEF Init, TypeOK, TimerAssumption

LEMMA PlaceType ==
    ASSUME TypeOK, NEW u \in Units, NEW t \in Nat, Place(u, t)
    PROVE  /\ ms' \in [SlotsMs -> SUBSET Units]
           /\ sec' \in [SlotsSec -> SUBSET Units]
           /\ minute' \in [SlotsMin -> SUBSET Units]
           /\ other' \subseteq Units
BY DEF TypeOK, Place, Link

LEMMA AdjustedType ==
    ASSUME TypeOK
    PROVE  /\ AdjustedSec \in [SlotsSec -> SUBSET Units]
           /\ AdjustedMin \in [SlotsMin -> SUBSET Units]
           /\ AdjustedOther \subseteq Units
<1>1. 1 \in SlotsMin
  BY DEF SlotsMin, TimerAssumption
<1>2. AdjustedSec \in [SlotsSec -> SUBSET Units]
  BY <1>1 DEF TypeOK, AdjustedSec, Scatter
<1>3. ASSUME NEW i \in SlotsMin, i < MinPerHour - 1 PROVE i + 1 \in SlotsMin
  BY <1>3 DEF SlotsMin, TimerAssumption
<1>4. AdjustedMin \in [SlotsMin -> SUBSET Units]
  BY <1>3 DEF TypeOK, AdjustedMin
<1> QED
  BY <1>2, <1>4 DEF TypeOK, AdjustedOther

LEMMA SlotTypes ==
    ASSUME TypeOK
    PROVE  /\ Slot \in SlotsMs /\ Off \in SlotsSec /\ Off \in Nat
           /\ \A i \in Off..SecPerMin :
                i \in Nat /\ (i < SecPerMin => i \in SlotsSec)
<1>1. Slot \in SlotsMs /\ Off \in SlotsSec
  BY TimeParts DEF TypeOK, Slot, Off
<1>2. Off \in Nat /\ SecPerMin \in Nat
  BY <1>1 DEF SlotsSec, TimerAssumption
<1> QED
  BY <1>1, <1>2 DEF SlotsSec

LEMMA AtType ==
    ASSUME TypeOK, NEW i \in Off..SecPerMin
    PROVE  At(i) \in Nat /\ At(i) >= last
<1>1. Off \in Nat /\ SecPerMin \in Nat /\ MsPerSec \in Nat
  BY SlotTypes DEF TimerAssumption
<1>2. i - Off \in Nat
  BY <1>1
<1>3. (i - Off) * MsPerSec \in Nat
  BY <1>1, <1>2
<1> QED
  BY <1>3 DEF At, TypeOK

LEMMA NextType ==
    ASSUME TypeOK, [Next]_vars
    PROVE  TypeOK'
<1> USE DEF TypeOK
<1>1. ASSUME NEW u \in Units, NEW t \in Times, Add(u, t) PROVE TypeOK'
  <2>1. t \in Nat
    BY DEF Times, TimerAssumption
  <2> QED
    BY <1>1, <2>1, PlaceType, CountedType DEF Add
<1>2. ASSUME NEW u \in Units, Del(u) PROVE TypeOK'
  BY <1>2, CountedType DEF Del
<1>3. ASSUME NEW t \in Times, Timeout(t) PROVE TypeOK'
  BY <1>3 DEF Timeout, lists, Times, TimerAssumption
<1>4. CASE NextCall \/ CaughtUp
  BY <1>4 DEF NextCall, CaughtUp, lists
<1>5. CASE Tick
  BY <1>5 DEF Tick, lists
<1>6. CASE Pop
  <2>1. Slot \in SlotsMs
    BY SlotTypes
  <2>2. PICK u \in ms[Slot] :
            /\ ms' = [ms EXCEPT ![Slot] = @ \ {u}]
            /\ tv' = [tv EXCEPT ![u] = 0]
    BY <1>6 DEF Pop
  <2>3. ms' \in [SlotsMs -> SUBSET Units] /\ tv' \in [Units -> Nat]
    BY <2>1, <2>2
  <2> QED
    BY <1>6, <2>3, CountedType DEF Pop
<1>7. CASE AdjustSec
  <2>1. /\ minute' \in [SlotsMin -> SUBSET Units] /\ other' \subseteq Units
        /\ now' = now /\ count' = count /\ tv' = tv /\ pc' = "walk"
    BY <1>7, AdjustedType DEF AdjustSec
  <2>2. PICK i \in Off..SecPerMin :
            LeaveMinute(i) \/ EnterSecond(i) \/ StayInSecond(i)
    BY <1>7 DEF AdjustSec
  <2>3. last' \in Nat
    BY <2>2, AtType DEF LeaveMinute, EnterSecond, StayInSecond
  <2>4. sec' \in [SlotsSec -> SUBSET Units]
    BY <2>2, AdjustedType DEF LeaveMinute, EnterSecond, StayInSecond
  <2>5. ms' \in [SlotsMs -> SUBSET Units]
    <3>1. CASE EnterSecond(i)
      <4>1. i \in SlotsSec
        BY <3>1, SlotTypes DEF EnterSecond
      <4> QED
        BY <3>1, <4>1, AdjustedType DEF EnterSecond, Scatter
    <3> QED
      BY <2>2, <3>1 DEF LeaveMinute, StayInSecond
  <2> QED
    BY <2>1, <2>3, <2>4, <2>5
<1>8. CASE UNCHANGED vars
  BY <1>8 DEF vars, lists
<1> QED
  BY <1>1, <1>2, <1>3, <1>4, <1>5, <1>6, <1>7, <1>8 DEF Next, TimerNext

(* The wheel keeps its shape: each slot has a list of units and _count     *)
(* stays in its range, whatever timer.c is asked to do.                    *)
THEOREM TypeCorrect == Spec => []TypeOK
<1>1. Init => TypeOK
  BY InitType
<1>2. TypeOK /\ [Next]_vars => TypeOK'
  BY NextType
<1> QED
  BY <1>1, <1>2, PTL DEF Spec


-----------------------------------------------------------------------------
(* What the lists stand for only moves ahead with last. *)
LEMMA BoundsKept ==
    ASSUME TypeOK, TypeOK', MsBound, SecBound, MinBound,
           \A i \in SlotsMs : ms'[i] \subseteq ms[i],
           \A i \in SlotsSec : sec'[i] \subseteq sec[i],
           \A i \in SlotsMin : minute'[i] \subseteq minute[i],
           \A u \in Units : tv'[u] = tv[u] \/ tv'[u] = 0,
           last <= last', MinuteDone \in Int, MinuteDone' \in Int,
           0 <= MinuteDone' + 1, MinuteDone <= MinuteDone'
    PROVE  MsBound' /\ SecBound' /\ MinBound'
<1>1. /\ last \in Nat /\ last' \in Nat /\ MsPerSec \in Nat /\ SecPerMin \in Nat
      /\ \A u \in Units : tv[u] \in Nat /\ tv'[u] \in Nat
  BY DEF TypeOK, TimerAssumption
<1>2. /\ Second(last) \in Nat /\ Second(last') \in Nat
      /\ Minute(last) \in Nat /\ Minute(last') \in Nat
      /\ Second(last) <= Second(last') /\ Minute(last) <= Minute(last')
  BY <1>1, TimeParts, TimeMono
<1>3. /\ Second(last) * MsPerSec <= Second(last') * MsPerSec
      /\ Minute(last) * SecPerMin <= Minute(last') * SecPerMin
  BY <1>1, <1>2, TimesMono
<1>4. \A n \in Nat, k \in Nat : n * k \in Nat
  OBVIOUS
<1>5. /\ Second(last) * MsPerSec \in Nat /\ Second(last') * MsPerSec \in Nat
      /\ Minute(last) * SecPerMin \in Nat /\ Minute(last') * SecPerMin \in Nat
  BY <1>1, <1>2, <1>4
<1>6. /\ Second(0) = 0 /\ Minute(0) = 0
  <2>1. \A n \in Nat \ {0} : 0 \div n = 0
    OBVIOUS
  <2> QED
    BY <2>1 DEF Second, Minute, TimerAssumption
<1>7. \A u \in Units : Second(tv[u]) \in Nat /\ Minute(tv[u]) \in Nat
  BY <1>1, TimeParts
<1>8. MsBound'
  <2> SUFFICES ASSUME NEW i \in SlotsMs, NEW u \in ms'[i]
               PROVE  tv'[u] <= Second(last') * MsPerSec + i
    BY DEF MsBound, Second
  <2>1. u \in ms[i] /\ u \in Units /\ i \in Nat
    BY DEF TypeOK, SlotsMs, TimerAssumption
  <2>2. tv[u] <= Second(last) * MsPerSec + i
    BY <2>1 DEF MsBound
  <2> QED
    BY <1>1, <1>3, <1>5, <2>1, <2>2
<1>9. SecBound'
  <2> SUFFICES ASSUME NEW i \in SlotsSec, NEW u \in sec'[i]
               PROVE  Second(tv'[u]) <= Minute(last') * SecPerMin + i
    BY DEF SecBound, Minute, Second
  <2>1. u \in sec[i] /\ u \in Units /\ i \in Nat
    BY DEF TypeOK, SlotsSec, TimerAssumption
  <2>2. Second(tv[u]) <= Minute(last) * SecPerMin + i
    BY <2>1 DEF SecBound
  <2>3. Second(tv'[u]) = Second(tv[u]) \/ Second(tv'[u]) = 0
    BY <1>6, <2>1
  <2> QED
    BY <1>3, <1>5, <1>7, <2>1, <2>2, <2>3
<1>10. MinBound'
  <2> SUFFICES ASSUME NEW i \in SlotsMin, NEW u \in minute'[i]
               PROVE  Minute(tv'[u]) <= MinuteDone' + i
    BY DEF MinBound, Minute, Second
  <2>1. u \in minute[i] /\ u \in Units /\ i \in Nat /\ 1 <= i
    BY DEF TypeOK, SlotsMin, TimerAssumption
  <2>2. Minute(tv[u]) <= MinuteDone + i
    BY <2>1 DEF MinBound
  <2>3. Minute(tv'[u]) = Minute(tv[u]) \/ Minute(tv'[u]) = 0
    BY <1>6, <2>1
  <2> QED
    BY <1>7, <2>1, <2>2, <2>3
<1> QED
  BY <1>8, <1>9, <1>10

LEMMA MinuteDoneType ==
    ASSUME TypeOK
    PROVE  /\ MinuteDone \in Int /\ 0 <= MinuteDone + 1
           /\ MinuteDone <= Minute(last)
           /\ pc # "second" => MinuteDone = Minute(last)
<1>1. Minute(last) \in Nat
  BY TimeParts DEF TypeOK
<1> QED
  BY <1>1 DEF MinuteDone

(* Steps that change no list but to take a unit out. *)
LEMMA TickBounds ==
    ASSUME TInv, TypeOK', Tick
    PROVE  AtSecond' /\ MsBound' /\ SecBound' /\ MinBound'
<1>1. /\ last \in Nat /\ now \in Nat /\ last' = last + 1 /\ last' \in Nat
      /\ now' = now /\ last < now /\ pc = "walk"
      /\ ms' = ms /\ sec' = sec /\ minute' = minute /\ tv' = tv
      /\ pc' = "second" => last % MsPerSec = MsPerSec - 1
  BY DEF TInv, TypeOK, Tick, Passed, Slot, lists
<1>2. pc' = "second" => last' % MsPerSec = 0
  <2>1. ASSUME NEW n \in Nat \ {0}, NEW t \in Nat, t % n = n - 1
        PROVE  (t + 1) % n = 0
    <3>1. PICK q \in Nat : q = t \div n
      BY DivMod
    <3>2. t = q * n + (n - 1) /\ q * n \in Nat
      BY <3>1, <2>1, DivMod
    <3>3. (q + 1) * n = q * n + n
      OBVIOUS
    <3>4. t + 1 = (q + 1) * n + 0 /\ q + 1 \in Nat /\ 0 \in 0..(n - 1)
      BY <3>2, <3>3
    <3> QED
      BY <3>4, DivUnique
  <2> QED
    BY <1>1, <2>1 DEF TimerAssumption
<1>3. MinuteDone <= MinuteDone'
  <2>1. MinuteDone = Minute(last)
    BY <1>1, MinuteDoneType DEF TInv
  <2>2. Minute(last) \in Nat /\ Minute(last') \in Nat /\ Minute(last) <= Minute(last')
    BY <1>1, TimeParts, TimeMono
  <2>3. ASSUME pc' = "second", NewMinute' PROVE Minute(last) <= Minute(last') - 1
    <3>1. Second(last') % SecPerMin = 0
      BY <2>3 DEF NewMinute, Second
    <3> QED
      BY <1>1, <1>2, <2>3, <3>1, MinuteEnds
  <2>4. MinuteDone' = IF pc' = "second" /\ NewMinute' THEN Minute(last') - 1
                      ELSE Minute(last')
    BY DEF MinuteDone, Minute, Second
  <2> QED
    BY <2>1, <2>2, <2>3, <2>4
<1>4. MinuteDone \in Int /\ MinuteDone' \in Int /\ 0 <= MinuteDone' + 1
  <2>1. Minute(last') \in Nat
    BY <1>1, TimeParts
  <2>2. MinuteDone' \in Int /\ 0 <= MinuteDone' + 1
    BY <2>1 DEF MinuteDone, Minute, Second
  <2> QED
    BY <2>2, MinuteDoneType DEF TInv
<1>5. AtSecond'
  BY <1>1, <1>2 DEF AtSecond
<1> QED
  BY <1>1, <1>3, <1>4, <1>5, BoundsKept DEF TInv

LEMMA OtherBounds ==
    ASSUME TInv, TypeOK', last' = last, pc' # "second",
           \A i \in SlotsMs : ms'[i] \subseteq ms[i],
           \A i \in SlotsSec : sec'[i] \subseteq sec[i],
           \A i \in SlotsMin : minute'[i] \subseteq minute[i],
           \A u \in Units : tv'[u] = tv[u] \/ tv'[u] = 0
    PROVE  AtSecond' /\ MsBound' /\ SecBound' /\ MinBound'
<1>1. last \in Nat /\ Minute(last) \in Nat /\ Minute(last') = Minute(last)
  BY TimeParts DEF TInv, TypeOK
<1>2. MinuteDone' = Minute(last)
  BY <1>1 DEF MinuteDone, Minute, Second
<1>3. MinuteDone \in Int /\ MinuteDone <= Minute(last)
  BY MinuteDoneType DEF TInv
<1>4. AtSecond'
  BY DEF AtSecond
<1> QED
  BY <1>1, <1>2, <1>3, <1>4, BoundsKept DEF TInv

LEMMA PopBounds ==
    ASSUME TInv, TypeOK', Pop
    PROVE  AtSecond' /\ MsBound' /\ SecBound' /\ MinBound'
<1>1. PICK u \in ms[Slot] :
        /\ ms' = [ms EXCEPT ![Slot] = @ \ {u}]
        /\ tv' = [tv EXCEPT ![u] = 0]
  BY DEF Pop
<1>2. /\ last' = last /\ pc' # "second"
      /\ sec' = sec /\ minute' = minute
  BY DEF Pop
<1>3. \A i \in SlotsMs : ms'[i] \subseteq ms[i]
  BY <1>1 DEF TInv, TypeOK
<1>4. \A v \in Units : tv'[v] = tv[v] \/ tv'[v] = 0
  BY <1>1 DEF TInv, TypeOK
<1> QED
  BY <1>2, <1>3, <1>4, OtherBounds

LEMMA DelBounds ==
    ASSUME TInv, TypeOK', NEW u \in Units, Del(u)
    PROVE  AtSecond' /\ MsBound' /\ SecBound' /\ MinBound'
<1>1. last' = last /\ pc' # "second"
  BY DEF Del, AtUser
<1>2. /\ \A i \in SlotsMs : ms'[i] \subseteq ms[i]
      /\ \A i \in SlotsSec : sec'[i] \subseteq sec[i]
      /\ \A i \in SlotsMin : minute'[i] \subseteq minute[i]
  BY DEF Del
<1>3. \A v \in Units : tv'[v] = tv[v] \/ tv'[v] = 0
  BY DEF Del, TInv, TypeOK
<1> QED
  BY <1>1, <1>2, <1>3, OtherBounds

(* timer_add puts a unit into a list that stands for its time, and a unit  *)
(* that is in no list has no other place that its new time could spoil.    *)
LEMMA AddBounds ==
    ASSUME TInv, TypeOK', NEW u \in Units, NEW t \in Times, Add(u, t)
    PROVE  AtSecond' /\ MsBound' /\ SecBound' /\ MinBound'
<1>1. /\ t \in Nat /\ last \in Nat /\ last <= t /\ last' = last
      /\ pc # "second" /\ pc' # "second"
      /\ tv' = [tv EXCEPT ![u] = t] /\ ~Linked(u) /\ Place(u, t)
  BY DEF Add, AtUser, Accepts, Times, TInv, TypeOK, TimerAssumption
<1>2. /\ Second(t) \in Nat /\ Minute(t) \in Nat
      /\ Second(last) \in Nat /\ Minute(last) \in Nat
      /\ t = Second(t) * MsPerSec + (t % MsPerSec)
      /\ Second(t) = Minute(t) * SecPerMin + (Second(t) % SecPerMin)
  BY <1>1, TimeParts
<1>3. MinuteDone = Minute(last) /\ MinuteDone' = Minute(last)
  BY <1>1 DEF MinuteDone, Minute, Second
<1>4. /\ \A i \in SlotsMs : u \notin ms[i]
      /\ \A i \in SlotsSec : u \notin sec[i]
      /\ \A i \in SlotsMin : u \notin minute[i]
  BY <1>1 DEF Linked, AllLists
<1>5. /\ tv'[u] = t
      /\ \A v \in Units \ {u} : tv'[v] = tv[v]
  BY <1>1 DEF TInv, TypeOK
<1>6. ASSUME NEW i \in SlotsMs, NEW v \in ms'[i]
      PROVE  tv'[v] <= Second(last) * MsPerSec + i
  <2>1. v \in Units
    BY DEF TypeOK
  <2>2. CASE v \in ms[i]
    BY <1>4, <1>5, <2>1, <2>2 DEF TInv, MsBound
  <2>3. CASE v \notin ms[i]
    <3>1. v = u /\ Second(t) = Second(last) /\ i = t % MsPerSec
      BY <1>1, <2>3 DEF Place, Link, TInv, TypeOK
    <3> QED
      BY <1>1, <1>2, <1>5, <3>1
  <2> QED
    BY <2>2, <2>3
<1>7. ASSUME NEW i \in SlotsSec, NEW v \in sec'[i]
      PROVE  Second(tv'[v]) <= Minute(last) * SecPerMin + i
  <2>1. v \in Units
    BY DEF TypeOK
  <2>2. CASE v \in sec[i]
    BY <1>4, <1>5, <2>1, <2>2 DEF TInv, SecBound
  <2>3. CASE v \notin sec[i]
    <3>1. v = u /\ Minute(t) - Minute(last) = 0 /\ i = Second(t) % SecPerMin
      BY <1>1, <2>3 DEF Place, Link, TInv, TypeOK
    <3>2. Minute(t) = Minute(last)
      BY <1>2, <3>1
    <3> QED
      BY <1>2, <1>5, <3>1, <3>2
  <2> QED
    BY <2>2, <2>3
<1>8. ASSUME NEW i \in SlotsMin, NEW v \in minute'[i]
      PROVE  Minute(tv'[v]) <= Minute(last) + i
  <2>1. v \in Units
    BY DEF TypeOK
  <2>2. CASE v \in minute[i]
    BY <1>3, <1>4, <1>5, <2>1, <2>2 DEF TInv, MinBound
  <2>3. CASE v \notin minute[i]
    <3>1. v = u /\ i = Minute(t) - Minute(last)
      BY <1>1, <2>3 DEF Place, Link, TInv, TypeOK
    <3> QED
      BY <1>2, <1>5, <3>1
  <2> QED
    BY <2>2, <2>3
<1> QED
  BY <1>1, <1>3, <1>6, <1>7, <1>8
     DEF AtSecond, MsBound, SecBound, MinBound, Second, Minute

(* timer_adjust_min moves the units of a minute list to the list of one    *)
(* minute less just when that minute has passed.                           *)
LEMMA AdjustedBounds ==
    ASSUME TInv, pc = "second"
    PROVE  /\ \A i \in SlotsSec : \A u \in AdjustedSec[i] :
                Second(tv[u]) <= Minute(last) * SecPerMin + i
           /\ \A i \in SlotsMin : \A u \in AdjustedMin[i] :
                Minute(tv[u]) <= Minute(last) + i
<1>1. /\ last \in Nat /\ Minute(last) \in Nat
      /\ MinPerHour \in Nat /\ SecPerMin \in Nat /\ 1 \in SlotsMin
      /\ \A i \in SlotsMin : i \in Nat
  <2>1. last \in Nat
    BY DEF TInv, TypeOK
  <2>2. Minute(last) \in Nat
    BY <2>1, TimeParts
  <2> QED
    BY <2>1, <2>2 DEF SlotsMin, TimerAssumption
<1>2. \A u \in Units : tv[u] \in Nat /\ Minute(tv[u]) \in Nat
  BY TimeParts DEF TInv, TypeOK
<1>3. CASE ~NewMinute
  <2>1. AdjustedSec = sec /\ AdjustedMin = minute /\ MinuteDone = Minute(last)
    BY <1>3 DEF AdjustedSec, AdjustedMin, MinuteDone
  <2> QED
    BY <2>1 DEF TInv, SecBound, MinBound
<1>4. CASE NewMinute
  <2>1. \A i \in SlotsMin : \A u \in minute[i] :
            u \in Units /\ Minute(tv[u]) <= Minute(last) - 1 + i
    BY <1>4 DEF TInv, TypeOK, MinBound, MinuteDone
  <2>2. ASSUME NEW i \in SlotsSec, NEW u \in AdjustedSec[i]
        PROVE  Second(tv[u]) <= Minute(last) * SecPerMin + i
    <3>1. CASE u \in sec[i]
      BY <3>1 DEF TInv, SecBound
    <3>2. CASE u \notin sec[i]
      <4>1. u \in minute[1] /\ Second(tv[u]) % SecPerMin = i
        BY <1>4, <2>2, <3>2 DEF AdjustedSec, Scatter, TInv, TypeOK
      <4>2. u \in Units /\ Minute(tv[u]) <= Minute(last)
        BY <1>1, <1>2, <2>1, <4>1
      <4>3. Minute(tv[u]) * SecPerMin <= Minute(last) * SecPerMin
        BY <1>1, <1>2, <4>2, TimesMono
      <4>4. /\ Second(tv[u]) = Minute(tv[u]) * SecPerMin + i
            /\ Second(tv[u]) \in Nat /\ i \in Nat
        <5>1. PICK t \in Nat : t = tv[u]
          BY <1>2, <4>2
        <5>2. /\ Second(t) = Minute(t) * SecPerMin + (Second(t) % SecPerMin)
              /\ Second(t) \in Nat
          BY TimeParts
        <5>3. i \in Nat
          BY DEF SlotsSec, TimerAssumption
        <5> QED
          BY <4>1, <5>1, <5>2, <5>3
      <4>5. Minute(tv[u]) * SecPerMin \in Nat /\ Minute(last) * SecPerMin \in Nat
        BY <1>1, <1>2, <4>2
      <4> QED
        BY <4>3, <4>4, <4>5
    <3> QED
      BY <3>1, <3>2
  <2>3. ASSUME NEW i \in SlotsMin, NEW u \in AdjustedMin[i]
        PROVE  Minute(tv[u]) <= Minute(last) + i
    <3>1. CASE i < MinPerHour - 1
      <4>1. i + 1 \in SlotsMin /\ u \in minute[i + 1]
        BY <1>4, <2>3, <3>1 DEF AdjustedMin, SlotsMin, TimerAssumption
      <4>2. u \in Units /\ Minute(tv[u]) <= Minute(last) - 1 + (i + 1)
        BY <2>1, <4>1
      <4> QED
        BY <1>1, <1>2, <4>2
    <3>2. CASE ~(i < MinPerHour - 1)
      <4>1. i = MinPerHour - 1
        BY <3>2 DEF SlotsMin, TimerAssumption
      <4>2. u \in other /\ Near(u) /\ u \in Units
        BY <1>4, <2>3, <3>2 DEF AdjustedMin, TInv, TypeOK
      <4> QED
        BY <1>1, <1>2, <4>1, <4>2 DEF Near
    <3> QED
      BY <3>1, <3>2
  <2> QED
    BY <2>2, <2>3
<1> QED
  BY <1>3, <1>4

(* The loop of timer_adjust_sec comes to second i of the minute of last.   *)
LEMMA AtSecondOf ==
    ASSUME TInv, pc = "second", NEW i \in Off..SecPerMin
    PROVE  /\ At(i) \in Nat /\ last <= At(i)
           /\ Second(At(i)) = Minute(last) * SecPerMin + i
<1>1. /\ last \in Nat /\ Off \in Nat /\ i \in Nat /\ MsPerSec \in Nat
      /\ SecPerMin \in Nat /\ i - Off \in Nat
  BY SlotTypes DEF TInv, TypeOK, TimerAssumption
<1>2. At(i) \in Nat /\ last <= At(i)
  BY AtType DEF TInv
<1>3. /\ Second(last) \in Nat /\ Minute(last) \in Nat
      /\ last = Second(last) * MsPerSec
      /\ Second(last) = Minute(last) * SecPerMin + Off
  <2>1. /\ Second(last) \in Nat /\ Minute(last) \in Nat
        /\ last = Second(last) * MsPerSec + (last % MsPerSec)
        /\ Second(last) = Minute(last) * SecPerMin + (Second(last) % SecPerMin)
    BY <1>1, TimeParts
  <2>2. last % MsPerSec = 0
    BY DEF TInv, AtSecond
  <2> QED
    BY <1>1, <2>1, <2>2 DEF Off
<1>4. PICK q \in Nat : q = Second(last) + (i - Off)
  BY <1>1, <1>3
<1>5. At(i) = q * MsPerSec + 0
  <2>1. At(i) = Second(last) * MsPerSec + (i - Off) * MsPerSec
    BY <1>3 DEF At
  <2>2. \A a \in Nat, b \in Nat, n \in Nat : (a + b) * n = a * n + b * n
    OBVIOUS
  <2>3. q * MsPerSec = Second(last) * MsPerSec + (i - Off) * MsPerSec
    BY <1>1, <1>3, <1>4, <2>2
  <2>4. q * MsPerSec \in Nat
    BY <1>1
  <2> QED
    BY <2>1, <2>3, <2>4
<1>6. Second(At(i)) = q
  <2>1. 0 \in 0..(MsPerSec - 1) /\ MsPerSec \in Nat \ {0}
    BY DEF TimerAssumption
  <2> QED
    BY <1>5, <2>1, DivUnique DEF Second
<1>7. q = Minute(last) * SecPerMin + i
  <2>1. Minute(last) * SecPerMin \in Nat
    BY <1>1, <1>3
  <2> QED
    BY <1>1, <1>3, <1>4, <2>1
<1> QED
  BY <1>2, <1>6, <1>7

LEMMA AdjustSecBounds ==
    ASSUME TInv, TypeOK', AdjustSec
    PROVE  AtSecond' /\ MsBound' /\ SecBound' /\ MinBound'
<1>1. /\ pc = "second" /\ pc' = "walk" /\ tv' = tv /\ minute' = AdjustedMin
      /\ last \in Nat /\ now \in Nat /\ last <= now /\ last' \in Nat
      /\ MsPerSec \in Nat /\ SecPerMin \in Nat
  BY DEF AdjustSec, TInv, TypeOK, AtSecond, TimerAssumption
<1>2. PICK i \in Off..SecPerMin :
        LeaveMinute(i) \/ EnterSecond(i) \/ StayInSecond(i)
  BY DEF AdjustSec
<1>3. i \in Nat /\ (i < SecPerMin => i \in SlotsSec)
  BY SlotTypes DEF TInv
<1>4. /\ At(i) \in Nat /\ last <= At(i)
      /\ Second(At(i)) = Minute(last) * SecPerMin + i
  BY <1>1, AtSecondOf
<1>5. last <= last'
  BY <1>1, <1>2, <1>4 DEF LeaveMinute, EnterSecond, StayInSecond
<1>6. /\ Second(last) \in Nat /\ Minute(last) \in Nat
      /\ Second(last') \in Nat /\ Minute(last') \in Nat
      /\ Second(last) <= Second(last') /\ Minute(last) <= Minute(last')
  BY <1>1, <1>5, TimeParts, TimeMono
<1>7. /\ Second(last) * MsPerSec <= Second(last') * MsPerSec
      /\ Minute(last) * SecPerMin <= Minute(last') * SecPerMin
      /\ Second(last) * MsPerSec \in Nat /\ Second(last') * MsPerSec \in Nat
      /\ Minute(last) * SecPerMin \in Nat /\ Minute(last') * SecPerMin \in Nat
  <2>1. \A n \in Nat, k \in Nat : n * k \in Nat
    OBVIOUS
  <2> QED
    BY <1>1, <1>6, <2>1, TimesMono
<1>8. /\ MinuteDone' = Minute(last')
      /\ \A u \in Units : tv[u] \in Nat /\ Second(tv[u]) \in Nat
                             /\ Minute(tv[u]) \in Nat
  BY <1>1, TimeParts DEF MinuteDone, Minute, Second, TInv, TypeOK
<1>9. AtSecond'
  BY <1>1 DEF AtSecond
<1>10. ASSUME NEW k \in SlotsMin, NEW u \in minute'[k]
       PROVE  Minute(tv[u]) <= Minute(last') + k
  <2>1. Minute(tv[u]) <= Minute(last) + k /\ u \in Units /\ k \in Nat
    BY <1>1, AdjustedBounds DEF TypeOK, SlotsMin, TimerAssumption
  <2> QED
    BY <1>6, <1>8, <2>1
<1>11. ASSUME NEW k \in SlotsSec, NEW u \in sec'[k]
       PROVE  Second(tv[u]) <= Minute(last') * SecPerMin + k
  <2>1. u \in AdjustedSec[k] /\ u \in Units /\ k \in Nat
    <3>1. AdjustedSec \in [SlotsSec -> SUBSET Units]
      BY AdjustedType DEF TInv
    <3>2. u \in AdjustedSec[k]
      BY <1>2, <3>1 DEF LeaveMinute, EnterSecond, StayInSecond
    <3> QED
      BY <3>1, <3>2 DEF SlotsSec, TimerAssumption
  <2>2. Second(tv[u]) <= Minute(last) * SecPerMin + k
    BY <1>1, <2>1, AdjustedBounds
  <2> QED
    BY <1>7, <1>8, <2>1, <2>2
<1>12. ASSUME NEW k \in SlotsMs, NEW u \in ms'[k]
       PROVE  tv[u] <= Second(last') * MsPerSec + k
  <2>1. u \in Units /\ k \in Nat
    BY DEF TypeOK, SlotsMs, TimerAssumption
  <2>2. CASE u \in ms[k]
    <3>1. tv[u] <= Second(last) * MsPerSec + k
      BY <2>2 DEF TInv, MsBound
    <3> QED
      BY <1>7, <1>8, <2>1, <3>1
  <2>3. CASE u \notin ms[k]
    <3>1. EnterSecond(i)
      BY <1>2, <2>3 DEF LeaveMinute, StayInSecond
    <3>2. u \in AdjustedSec[i] /\ tv[u] % MsPerSec = k
      BY <2>3, <3>1 DEF EnterSecond, Scatter, TInv, TypeOK
    <3>3. i \in SlotsSec /\ last' = At(i)
      BY <1>3, <3>1 DEF EnterSecond
    <3>4. Second(tv[u]) <= Second(last')
      BY <1>1, <1>4, <3>2, <3>3, AdjustedBounds
    <3>5. Second(tv[u]) * MsPerSec <= Second(last') * MsPerSec
      BY <1>1, <1>6, <1>8, <2>1, <3>4, TimesMono
    <3>6. tv[u] = Second(tv[u]) * MsPerSec + k
      <4>1. PICK t \in Nat : t = tv[u]
        BY <1>8, <2>1
      <4>2. t = Second(t) * MsPerSec + (t % MsPerSec)
        BY TimeParts
      <4> QED
        BY <3>2, <4>1, <4>2
    <3>7. Second(tv[u]) * MsPerSec \in Nat
      BY <1>1, <1>8, <2>1
    <3> QED
      BY <1>7, <2>1, <3>5, <3>6, <3>7
  <2> QED
    BY <2>2, <2>3
<1> QED
  BY <1>1, <1>8, <1>9, <1>10, <1>11, <1>12
     DEF MsBound, SecBound, MinBound, Second, Minute

-----------------------------------------------------------------------------
LEMMA InitTInv == Init => TInv
<1> SUFFICES ASSUME Init PROVE TInv
  OBVIOUS
<1> QED
  BY InitType DEF Init, TInv, AtSecond, MsBound, SecBound, MinBound

LEMMA NextTInv ==
    ASSUME TInv, [Next]_vars
    PROVE  TInv'
<1>1. TypeOK'
  BY NextType DEF TInv
<1>2. ASSUME NEW u \in Units, NEW t \in Times, Add(u, t) PROVE TInv'
  BY <1>1, <1>2, AddBounds DEF TInv
<1>3. ASSUME NEW u \in Units, Del(u) PROVE TInv'
  BY <1>1, <1>3, DelBounds DEF TInv
<1>4. CASE (\E t \in Times : Timeout(t)) \/ NextCall \/ CaughtUp
  <2>1. /\ last' = last /\ pc' # "second" /\ tv' = tv
        /\ ms' = ms /\ sec' = sec /\ minute' = minute
    BY <1>4 DEF Timeout, NextCall, CaughtUp, lists
  <2> QED
    BY <1>1, <2>1, OtherBounds DEF TInv
<1>5. CASE Tick
  BY <1>1, <1>5, TickBounds DEF TInv
<1>6. CASE Pop
  BY <1>1, <1>6, PopBounds DEF TInv
<1>7. CASE AdjustSec
  BY <1>1, <1>7, AdjustSecBounds DEF TInv
<1>8. CASE UNCHANGED vars
  BY <1>1, <1>8
     DEF vars, lists, TInv, AtSecond, MsBound, SecBound, MinBound, MinuteDone,
         NewMinute, Second, Minute
<1> QED
  BY <1>2, <1>3, <1>4, <1>5, <1>6, <1>7, <1>8 DEF Next, TimerNext

(* A unit that leaves the wheel inside timer_next was in the list of this  *)
(* millisecond, which has passed.                                          *)
LEMMA PopNotEarly ==
    ASSUME TInv, [Next]_vars, NEW u \in Units,
           pc = "walk", Linked(u), ~Linked(u)'
    PROVE  tv[u] < now
<1>1. CASE Pop
  <2>1. /\ sec' = sec /\ minute' = minute /\ other' = other
        /\ last < now /\ last \in Nat /\ now \in Nat /\ Slot \in SlotsMs
        /\ tv[u] \in Nat
    BY <1>1, SlotTypes DEF Pop, Passed, TInv, TypeOK
  <2>2. \A i \in SlotsMs \ {Slot} : ms'[i] = ms[i]
    BY <1>1 DEF Pop, TInv, TypeOK
  <2>3. u \in ms[Slot]
    BY <2>1, <2>2 DEF Linked, AllLists
  <2>4. tv[u] <= Second(last) * MsPerSec + Slot
    BY <2>1, <2>3 DEF TInv, MsBound
  <2>5. last = Second(last) * MsPerSec + Slot
    BY <2>1, TimeParts DEF Slot
  <2> QED
    BY <2>1, <2>4, <2>5
<1>2. CASE ~Pop
  <2>1. ms' = ms /\ sec' = sec /\ minute' = minute /\ other' = other
    BY <1>2
       DEF Next, TimerNext, Add, Del, Timeout, NextCall, CaughtUp, Tick, AdjustSec,
           AtUser, vars, lists
  <2> QED
    BY <2>1 DEF Linked, AllLists
<1> QED
  BY <1>1, <1>2

(* timer_next never returns a unit before its time, however the wheel is   *)
(* sized, polled and filled: not even after it has passed a minute without *)
(* timer_adjust_min.                                                       *)
THEOREM NoUnitEarly == Spec => NeverEarly
<1>1. Init => TInv
  BY InitTInv
<1>2. TInv /\ [Next]_vars => TInv'
  BY NextTInv
<1>3. TInv /\ [Next]_vars
        => [\A u \in Units :
                pc = "walk" /\ Linked(u) /\ ~Linked(u)' => tv[u] < now]_vars
  BY PopNotEarly
<1> QED
  BY <1>1, <1>2, <1>3, PTL DEF Spec, NeverEarly

-----------------------------------------------------------------------------
(* No two of these lists share a unit. *)
Apart(m, s, n, o) ==
    /\ \A i, j \in SlotsMs : i # j => m[i] \cap m[j] = {}
    /\ \A i, j \in SlotsSec : i # j => s[i] \cap s[j] = {}
    /\ \A i, j \in SlotsMin : i # j => n[i] \cap n[j] = {}
    /\ \A i \in SlotsMs : \A j \in SlotsSec : m[i] \cap s[j] = {}
    /\ \A i \in SlotsMs : \A j \in SlotsMin : m[i] \cap n[j] = {}
    /\ \A i \in SlotsSec : \A j \in SlotsMin : s[i] \cap n[j] = {}
    /\ \A i \in SlotsMs : m[i] \cap o = {}
    /\ \A i \in SlotsSec : s[i] \cap o = {}
    /\ \A i \in SlotsMin : n[i] \cap o = {}

Disjoint == Apart(ms, sec, minute, other)

LEMMA DisjointIsLinkedOnce ==
    ASSUME Disjoint PROVE LinkedOnce
<1> SUFFICES ASSUME NEW a \in Slots, NEW b \in Slots, a # b
             PROVE  ListAt(a) \cap ListAt(b) = {}
  BY DEF LinkedOnce
<1>1. \A c \in Slots :
        \/ \E i \in SlotsMs : c = <<"ms", i>> /\ ListAt(c) = ms[i]
        \/ \E i \in SlotsSec : c = <<"sec", i>> /\ ListAt(c) = sec[i]
        \/ \E i \in SlotsMin : c = <<"min", i>> /\ ListAt(c) = minute[i]
        \/ c = <<"other", 0>> /\ ListAt(c) = other
  BY DEF Slots, ListAt
<1>2. CASE \E i \in SlotsMs : a = <<"ms", i>> /\ ListAt(a) = ms[i]
  BY <1>1, <1>2 DEF Disjoint, Apart
<1>3. CASE \E i \in SlotsSec : a = <<"sec", i>> /\ ListAt(a) = sec[i]
  BY <1>1, <1>3 DEF Disjoint, Apart
<1>4. CASE \E i \in SlotsMin : a = <<"min", i>> /\ ListAt(a) = minute[i]
  BY <1>1, <1>4 DEF Disjoint, Apart
<1>5. CASE a = <<"other", 0>> /\ ListAt(a) = other
  BY <1>1, <1>5 DEF Disjoint, Apart
<1> QED
  BY <1>1, <1>2, <1>3, <1>4, <1>5

LEMMA SublistsApart ==
    ASSUME NEW m, NEW s, NEW n, NEW o, NEW m2, NEW s2, NEW n2, NEW o2,
           Apart(m, s, n, o),
           \A i \in SlotsMs : m2[i] \subseteq m[i],
           \A i \in SlotsSec : s2[i] \subseteq s[i],
           \A i \in SlotsMin : n2[i] \subseteq n[i],
           o2 \subseteq o
    PROVE  Apart(m2, s2, n2, o2)
BY DEF Apart

LEMMA AddApart ==
    ASSUME TypeOK, Disjoint, NEW u \in Units, NEW t \in Times, Add(u, t)
    PROVE  Disjoint'
<1>1. /\ \A i \in SlotsMs : u \notin ms[i]
      /\ \A i \in SlotsSec : u \notin sec[i]
      /\ \A i \in SlotsMin : u \notin minute[i]
      /\ u \notin other
  BY DEF Add, Linked, AllLists
<1>2. CASE UNCHANGED <<sec, minute, other>> /\ ms' = Link(ms, t % MsPerSec, u)
  BY <1>1, <1>2 DEF Link, TypeOK, Disjoint, Apart
<1>3. CASE UNCHANGED <<ms, minute, other>> /\ sec' = Link(sec, Second(t) % SecPerMin, u)
  BY <1>1, <1>3 DEF Link, TypeOK, Disjoint, Apart
<1>4. CASE UNCHANGED <<ms, sec, other>> /\ minute' = Link(minute, Minute(t) - Minute(last), u)
  BY <1>1, <1>4 DEF Link, TypeOK, Disjoint, Apart
<1>5. CASE UNCHANGED <<ms, sec, minute>> /\ other' = other \cup {u}
  BY <1>1, <1>5 DEF Link, TypeOK, Disjoint, Apart
<1> QED
  BY <1>2, <1>3, <1>4, <1>5 DEF Add, Place

(* timer_adjust_min moves each list to where the one before it was. *)
LEMMA AdjustedApart ==
    ASSUME TypeOK, Disjoint
    PROVE  Apart(ms, AdjustedSec, AdjustedMin, AdjustedOther)
<1>1. CASE ~NewMinute
  BY <1>1 DEF Disjoint, AdjustedSec, AdjustedMin, AdjustedOther
<1>2. CASE NewMinute
  <2>1. 1 \in SlotsMin
    BY DEF SlotsMin, TimerAssumption
  <2>2. \A i \in SlotsSec : \A u \in AdjustedSec[i] :
            u \in sec[i] \/ (u \in minute[1] /\ Second(tv[u]) % SecPerMin = i)
    BY <1>2 DEF AdjustedSec, Scatter, TypeOK
  <2>3. \A i \in SlotsMin : \A u \in AdjustedMin[i] :
            \/ i + 1 \in SlotsMin /\ u \in minute[i + 1]
            \/ i = MinPerHour - 1 /\ u \in other /\ Near(u)
    BY <1>2 DEF AdjustedMin, SlotsMin, TimerAssumption
  <2>4. \A u \in AdjustedOther : u \in other /\ ~Near(u)
    BY <1>2 DEF AdjustedOther
  <2>5. \A i \in SlotsMin : i + 1 # 1 /\ \A j \in SlotsMin : i # j => i + 1 # j + 1
    BY DEF SlotsMin, TimerAssumption
  <2>6. \A i, j \in SlotsSec : i # j => AdjustedSec[i] \cap AdjustedSec[j] = {}
    BY <2>1, <2>2 DEF Disjoint, Apart
  <2>7. \A i, j \in SlotsMin : i # j => AdjustedMin[i] \cap AdjustedMin[j] = {}
    <3> SUFFICES ASSUME NEW i \in SlotsMin, NEW j \in SlotsMin, i # j,
                        NEW u \in AdjustedMin[i], u \in AdjustedMin[j]
                 PROVE  FALSE
      OBVIOUS
    <3>1. i + 1 # j + 1
      BY <2>5
    <3>2. ~(i = MinPerHour - 1 /\ j = MinPerHour - 1)
      OBVIOUS
    <3> QED
      BY <2>3, <3>1, <3>2 DEF Disjoint, Apart
  <2>8. \A i \in SlotsMs : \A j \in SlotsSec : ms[i] \cap AdjustedSec[j] = {}
    BY <2>1, <2>2 DEF Disjoint, Apart
  <2>9. \A i \in SlotsMs : \A j \in SlotsMin : ms[i] \cap AdjustedMin[j] = {}
    BY <2>3 DEF Disjoint, Apart
  <2>10. \A i \in SlotsSec : \A j \in SlotsMin : AdjustedSec[i] \cap AdjustedMin[j] = {}
    <3> SUFFICES ASSUME NEW i \in SlotsSec, NEW j \in SlotsMin,
                        NEW u \in AdjustedSec[i], u \in AdjustedMin[j]
                 PROVE  FALSE
      OBVIOUS
    <3>1. CASE u \in sec[i]
      BY <2>3, <3>1 DEF Disjoint, Apart
    <3>2. CASE u \in minute[1]
      BY <2>1, <2>3, <2>5, <3>2 DEF Disjoint, Apart
    <3> QED
      BY <2>2, <3>1, <3>2
  <2>11. /\ \A i \in SlotsMs : ms[i] \cap AdjustedOther = {}
         /\ \A i \in SlotsSec : AdjustedSec[i] \cap AdjustedOther = {}
    BY <2>1, <2>2, <2>4 DEF Disjoint, Apart
  <2>12. \A i \in SlotsMin : AdjustedMin[i] \cap AdjustedOther = {}
    BY <2>3, <2>4 DEF Disjoint, Apart
  <2>13. \A i, j \in SlotsMs : i # j => ms[i] \cap ms[j] = {}
    BY DEF Disjoint, Apart
  <2> QED
    BY <2>6, <2>7, <2>8, <2>9, <2>10, <2>11, <2>12, <2>13 DEF Apart
<1> QED
  BY <1>1, <1>2

LEMMA AdjustSecApart ==
    ASSUME TypeOK, Disjoint, AdjustSec
    PROVE  Disjoint'
<1>1. /\ Apart(ms, AdjustedSec, AdjustedMin, AdjustedOther)
      /\ AdjustedSec \in [SlotsSec -> SUBSET Units]
      /\ minute' = AdjustedMin /\ other' = AdjustedOther
  BY AdjustedApart, AdjustedType DEF AdjustSec
<1>2. PICK i \in Off..SecPerMin :
        LeaveMinute(i) \/ EnterSecond(i) \/ StayInSecond(i)
  BY DEF AdjustSec
<1>3. CASE LeaveMinute(i) \/ StayInSecond(i)
  BY <1>1, <1>3 DEF LeaveMinute, StayInSecond, Disjoint
<1>4. CASE EnterSecond(i)
  <2>1. i \in SlotsSec
    BY <1>4, SlotTypes DEF EnterSecond
  <2>2. /\ sec' = [AdjustedSec EXCEPT ![i] = {}]
        /\ \A k \in SlotsMs : ms'[k] = ms[k] \cup {u \in AdjustedSec[i] : tv[u] % MsPerSec = k}
    BY <1>4 DEF EnterSecond, Scatter, TypeOK
  <2>3. /\ sec'[i] = {}
        /\ \A j \in SlotsSec : j # i => sec'[j] = AdjustedSec[j]
    BY <1>1, <2>1, <2>2
  <2>4. /\ \A k, l \in SlotsMs : k # l => ms'[k] \cap ms'[l] = {}
        /\ \A k \in SlotsMs : ms'[k] \cap other' = {}
    BY <1>1, <2>1, <2>2 DEF Apart
  <2>5. \A k \in SlotsMs : \A j \in SlotsMin : ms'[k] \cap minute'[j] = {}
    BY <1>1, <2>1, <2>2 DEF Apart
  <2>6. \A k \in SlotsMs : \A j \in SlotsSec : ms'[k] \cap sec'[j] = {}
    BY <1>1, <2>1, <2>2, <2>3 DEF Apart
  <2>7. /\ \A j, k \in SlotsSec : j # k => sec'[j] \cap sec'[k] = {}
        /\ \A j \in SlotsSec : \A k \in SlotsMin : sec'[j] \cap minute'[k] = {}
        /\ \A j \in SlotsSec : sec'[j] \cap other' = {}
    BY <1>1, <2>1, <2>3 DEF Apart
  <2>8. /\ \A j, k \in SlotsMin : j # k => minute'[j] \cap minute'[k] = {}
        /\ \A k \in SlotsMin : minute'[k] \cap other' = {}
    BY <1>1 DEF Apart
  <2> QED
    BY <2>4, <2>5, <2>6, <2>7, <2>8 DEF Disjoint, Apart
<1> QED
  BY <1>2, <1>3, <1>4

LEMMA NextApart ==
    ASSUME TypeOK, Disjoint, [Next]_vars
    PROVE  Disjoint'
<1>1. ASSUME NEW u \in Units, Del(u) PROVE Disjoint'
  BY <1>1, SublistsApart DEF Del, Disjoint
<1>2. CASE Pop
  <2>1. \A i \in SlotsMs : ms'[i] \subseteq ms[i]
    BY <1>2 DEF Pop, TypeOK
  <2> QED
    BY <1>2, <2>1, SublistsApart DEF Pop, Disjoint
<1>3. CASE ms' = ms /\ sec' = sec /\ minute' = minute /\ other' = other
  BY <1>3 DEF Disjoint
<1>4. CASE NextCall \/ CaughtUp \/ Tick \/ (\E t \in Times : Timeout(t)) \/ UNCHANGED vars
  BY <1>3, <1>4 DEF NextCall, CaughtUp, Tick, Timeout, lists, vars
<1> QED
  BY <1>1, <1>2, <1>4, AddApart, AdjustSecApart DEF Next, TimerNext

(* A unit is never in two lists: timer_adjust_min and timer_adjust_sec     *)
(* leave none behind, and timer_add finds it in none.                      *)
THEOREM UnitsLinkedOnce == Spec => []LinkedOnce
<1>1. Init => TypeOK /\ Disjoint
  BY InitType DEF Init, Disjoint, Apart
<1>2. TypeOK /\ Disjoint /\ [Next]_vars => TypeOK' /\ Disjoint'
  BY NextType, NextApart
<1>3. Disjoint => LinkedOnce
  BY DisjointIsLinkedOnce
<1> QED
  BY <1>1, <1>2, <1>3, PTL DEF Spec
-----------------------------------------------------------------------------
(* What is over has no units: the milliseconds of this second, and the     *)
(* seconds of this minute, up to last.                                     *)
MsPassed == \A i \in SlotsMs : (i < Slot \/ pc = "second") => ms[i] = {}
SecPassed ==
    /\ \A i \in SlotsSec : i < Off => sec[i] = {}
    /\ pc # "second" => sec[Off] = {}
    /\ pc = "second" /\ NewMinute => \A i \in SlotsSec : sec[i] = {}

Passing == TInv /\ MsPassed /\ SecPassed

LEMMA SlotNumbers ==
    /\ MsPerSec \in Nat /\ SecPerMin \in Nat
    /\ \A i \in SlotsMs : i \in Nat /\ i <= MsPerSec - 1
    /\ \A i \in SlotsSec : i \in Nat /\ i <= SecPerMin - 1
BY DEF SlotsMs, SlotsSec, TimerAssumption

(* A second of the same minute, and a millisecond of the same second.      *)
LEMMA LaterSlots ==
    ASSUME NEW s \in Nat, NEW t \in Nat, s <= t
    PROVE  /\ Second(s) = Second(t) => s % MsPerSec <= t % MsPerSec
           /\ Minute(s) = Minute(t) /\ Second(s) # Second(t)
                => Second(s) % SecPerMin < Second(t) % SecPerMin
<1>1. /\ Second(s) \in Nat /\ Minute(s) \in Nat
      /\ Second(t) \in Nat /\ Minute(t) \in Nat
      /\ s = Second(s) * MsPerSec + (s % MsPerSec)
      /\ t = Second(t) * MsPerSec + (t % MsPerSec)
      /\ Second(s) = Minute(s) * SecPerMin + (Second(s) % SecPerMin)
      /\ Second(t) = Minute(t) * SecPerMin + (Second(t) % SecPerMin)
      /\ s % MsPerSec \in Nat /\ t % MsPerSec \in Nat
      /\ Second(s) % SecPerMin \in Nat /\ Second(t) % SecPerMin \in Nat
  BY TimeParts DEF SlotsMs, SlotsSec, TimerAssumption
<1>2. Second(s) <= Second(t)
  BY TimeMono
<1>3. /\ Second(s) * MsPerSec \in Nat /\ Minute(s) * SecPerMin \in Nat
  BY <1>1 DEF TimerAssumption
<1>4. Second(s) = Second(t) => s % MsPerSec <= t % MsPerSec
  BY <1>1, <1>3
<1>5. Minute(s) = Minute(t) /\ Second(s) # Second(t)
        => Second(s) % SecPerMin < Second(t) % SecPerMin
  BY <1>1, <1>2, <1>3
<1> QED
  BY <1>4, <1>5

(* The next millisecond is of the same second or the first of the next     *)
(* one, and that is of the same minute or the first of the next one.       *)
LEMMA NextSlots ==
    ASSUME NEW s \in Nat
    PROVE  /\ s % MsPerSec # MsPerSec - 1
                => /\ (s + 1) % MsPerSec = (s % MsPerSec) + 1
                   /\ Second(s + 1) = Second(s)
           /\ s % MsPerSec = MsPerSec - 1
                => /\ (s + 1) % MsPerSec = 0
                   /\ Second(s + 1) = Second(s) + 1
           /\ \A x \in Nat :
                /\ x % SecPerMin # SecPerMin - 1
                     => (x + 1) % SecPerMin = (x % SecPerMin) + 1
                /\ x % SecPerMin = SecPerMin - 1 => (x + 1) % SecPerMin = 0
<1>1. ASSUME NEW n \in Nat \ {0}, NEW x \in Nat
      PROVE  /\ x % n # n - 1
                  => (x + 1) % n = (x % n) + 1 /\ (x + 1) \div n = x \div n
             /\ x % n = n - 1
                  => (x + 1) % n = 0 /\ (x + 1) \div n = (x \div n) + 1
  <2>1. PICK q \in Nat, r \in 0..(n - 1) : q = x \div n /\ r = x % n /\ x = q * n + r
    BY DivMod
  <2>2. CASE r # n - 1
    <3>1. r + 1 \in 0..(n - 1)
      BY <2>2
    <3>2. x + 1 = q * n + (r + 1)
      BY <2>1
    <3>3. (q * n + (r + 1)) \div n = q /\ (q * n + (r + 1)) % n = r + 1
      BY <3>1, DivUnique
    <3> QED
      BY <2>1, <2>2, <3>2, <3>3
  <2>3. CASE r = n - 1
    <3>1. q + 1 \in Nat /\ 0 \in 0..(n - 1)
      OBVIOUS
    <3>2. x + 1 = (q + 1) * n + 0
      BY <2>1, <2>3
    <3>3. ((q + 1) * n + 0) \div n = q + 1 /\ ((q + 1) * n + 0) % n = 0
      BY <3>1, DivUnique
    <3> QED
      BY <2>1, <2>3, <3>2, <3>3
  <2> QED
    BY <2>2, <2>3
<1> QED
  BY <1>1 DEF Second, TimerAssumption

LEMMA AddPassing ==
    ASSUME Passing, TInv', NEW u \in Units, NEW t \in Times, Add(u, t)
    PROVE  Passing'
<1>1. /\ t \in Nat /\ last \in Nat /\ last <= t /\ last' = last
      /\ pc # "second" /\ pc' = pc /\ Place(u, t)
  BY DEF Add, AtUser, Accepts, Times, Passing, TInv, TypeOK, TimerAssumption
<1>2. /\ Second(last) = Second(t) => Slot <= t % MsPerSec
      /\ Minute(last) = Minute(t) /\ Second(last) # Second(t)
           => Off < Second(t) % SecPerMin
  BY <1>1, LaterSlots DEF Slot, Off
<1>3. /\ Slot \in SlotsMs /\ Off \in SlotsSec
      /\ \A i \in SlotsMs : i \in Nat
      /\ \A i \in SlotsSec : i \in Nat
      /\ t % MsPerSec \in SlotsMs /\ Second(t) % SecPerMin \in SlotsSec
      /\ Minute(t) \in Nat /\ Minute(last) \in Nat
  <2>1. Slot \in SlotsMs /\ Off \in SlotsSec
    BY SlotTypes DEF Passing, TInv
  <2> QED
    BY <1>1, <2>1, SlotNumbers, TimeParts
<1>4. Slot' = Slot /\ Off' = Off
  BY <1>1 DEF Slot, Off, Second
<1>5. MsPassed'
  <2>1. CASE ms' = ms
    BY <1>1, <1>4, <2>1 DEF Passing, MsPassed
  <2>2. CASE Second(t) = Second(last) /\ ms' = Link(ms, t % MsPerSec, u)
    <3>1. \A i \in SlotsMs : i < Slot => i # t % MsPerSec
      BY <1>2, <1>3, <2>2
    <3>2. \A i \in SlotsMs : i < Slot => ms'[i] = ms[i]
      BY <2>2, <3>1 DEF Link, Passing, TInv, TypeOK
    <3> QED
      BY <1>1, <1>4, <3>2 DEF Passing, MsPassed
  <2> QED
    BY <1>1, <2>1, <2>2 DEF Place
<1>6. SecPassed'
  <2>1. CASE sec' = sec
    BY <1>1, <1>4, <2>1 DEF Passing, SecPassed
  <2>2. CASE /\ Second(t) # Second(last) /\ Minute(t) - Minute(last) = 0
             /\ sec' = Link(sec, Second(t) % SecPerMin, u)
    <3>1. Minute(t) = Minute(last)
      BY <1>3, <2>2
    <3>2. \A i \in SlotsSec : i <= Off => i # Second(t) % SecPerMin
      BY <1>2, <1>3, <2>2, <3>1
    <3>3. \A i \in SlotsSec : i <= Off => sec'[i] = sec[i]
      BY <2>2, <3>2 DEF Link, Passing, TInv, TypeOK
    <3>4. \A i \in SlotsSec : i < Off => i <= Off
      BY <1>3
    <3>5. Off <= Off
      BY <1>3
    <3> QED
      BY <1>1, <1>3, <1>4, <3>3, <3>4, <3>5 DEF Passing, SecPassed
  <2> QED
    BY <1>1, <2>1, <2>2 DEF Place
<1> QED
  BY <1>4, <1>5, <1>6 DEF Passing

LEMMA TickPassing ==
    ASSUME Passing, TInv', Tick
    PROVE  Passing'
<1>1. /\ last \in Nat /\ now \in Nat /\ last < now /\ last' = last + 1 /\ now' = now
      /\ pc = "walk" /\ ms[Slot] = {} /\ ms' = ms /\ sec' = sec
      /\ pc' = IF Slot = MsPerSec - 1 THEN "second" ELSE "walk"
  BY DEF Tick, Passed, lists, Passing, TInv, TypeOK
<1>2. /\ Slot \in SlotsMs /\ Off \in SlotsSec
      /\ \A i \in SlotsMs : i \in Nat /\ i <= MsPerSec - 1
      /\ \A i \in SlotsSec : i \in Nat /\ i <= SecPerMin - 1
      /\ Second(last) \in Nat /\ MsPerSec \in Nat /\ SecPerMin \in Nat
  <2>1. Slot \in SlotsMs /\ Off \in SlotsSec
    BY SlotTypes DEF Passing, TInv
  <2> QED
    BY <1>1, <2>1, SlotNumbers, TimeParts
<1>3. /\ \A i \in SlotsMs : i <= Slot => ms[i] = {}
      /\ \A i \in SlotsSec : i <= Off => sec[i] = {}
  <2>1. /\ \A i \in SlotsMs : i <= Slot => i < Slot \/ i = Slot
        /\ \A i \in SlotsSec : i <= Off => i < Off \/ i = Off
    BY <1>2
  <2> QED
    BY <1>1, <2>1 DEF Passing, MsPassed, SecPassed
<1>4. /\ Slot # MsPerSec - 1 => Slot' = Slot + 1 /\ Off' = Off
      /\ Slot = MsPerSec - 1 => Slot' = 0 /\ Second(last') = Second(last) + 1
  BY <1>1, NextSlots DEF Slot, Off, Second
<1>5. Off' = Second(last') % SecPerMin /\ (NewMinute' <=> Off' = 0)
  BY DEF Off, NewMinute, Second
<1>6. CASE Slot # MsPerSec - 1
  <2>1. /\ pc' = "walk" /\ Slot' = Slot + 1 /\ Off' = Off
    BY <1>1, <1>4, <1>6
  <2>2. \A i \in SlotsMs : i < Slot + 1 => i <= Slot
    BY <1>2
  <2> QED
    BY <1>1, <1>2, <1>3, <2>1, <2>2 DEF Passing, MsPassed, SecPassed
<1>7. CASE Slot = MsPerSec - 1
  <2>1. pc' = "second" /\ Slot' = 0 /\ last' % MsPerSec = 0 /\ last' <= now'
    BY <1>1, <1>4, <1>7 DEF Slot
  <2>2. \A i \in SlotsMs : ms'[i] = {}
    BY <1>1, <1>2, <1>3, <1>7
  <2>3. CASE Off # SecPerMin - 1
    <3>1. Off' = Off + 1 /\ ~NewMinute'
      <4>1. Off' = (Second(last) + 1) % SecPerMin
        BY <1>4, <1>5, <1>7
      <4>2. (Second(last) + 1) % SecPerMin = Off + 1
        BY <1>1, <1>2, <2>3, NextSlots DEF Off
      <4> QED
        BY <1>2, <1>5, <4>1, <4>2
    <3>2. \A i \in SlotsSec : i < Off + 1 => i <= Off
      BY <1>2
    <3> QED
      BY <1>1, <1>3, <2>1, <2>2, <3>1, <3>2
         DEF Passing, MsPassed, SecPassed
  <2>4. CASE Off = SecPerMin - 1
    <3>1. \A i \in SlotsSec : sec'[i] = {}
      BY <1>1, <1>2, <1>3, <2>4
    <3> QED
      BY <2>1, <2>2, <3>1 DEF Passing, MsPassed, SecPassed
  <2> QED
    BY <2>3, <2>4
<1> QED
  BY <1>6, <1>7

(* Where the loop of timer_adjust_sec stops, in seconds of a minute. *)
LEMMA AdjustSecSlots ==
    ASSUME TInv, pc = "second", NEW i \in Off..SecPerMin
    PROVE  /\ At(i) \in Nat /\ At(i) % MsPerSec = 0
           /\ i < SecPerMin => Second(At(i)) % SecPerMin = i
           /\ i = SecPerMin => Second(At(i)) % SecPerMin = 0
<1>1. /\ At(i) \in Nat /\ Second(At(i)) = Minute(last) * SecPerMin + i
      /\ Minute(last) \in Nat /\ i \in Nat /\ SecPerMin \in Nat \ {0}
  BY AtSecondOf, SlotTypes, TimeParts DEF TInv, TypeOK, TimerAssumption
<1>2. ASSUME i < SecPerMin PROVE Second(At(i)) % SecPerMin = i
  <2>1. i \in 0..(SecPerMin - 1)
    BY <1>1, <1>2
  <2>2. (Minute(last) * SecPerMin + i) % SecPerMin = i
    BY <1>1, <2>1, DivUnique
  <2> QED
    BY <1>1, <2>2
<1>3. ASSUME i = SecPerMin PROVE Second(At(i)) % SecPerMin = 0
  <2>1. Minute(last) * SecPerMin + i = (Minute(last) + 1) * SecPerMin + 0
    BY <1>1, <1>3
  <2>2. Minute(last) + 1 \in Nat /\ 0 \in 0..(SecPerMin - 1)
    BY <1>1
  <2>3. ((Minute(last) + 1) * SecPerMin + 0) % SecPerMin = 0
    BY <1>1, <2>2, DivUnique
  <2> QED
    BY <1>1, <2>1, <2>3
<1>4. At(i) % MsPerSec = 0
  <2>1. PICK k \in Nat : last = k * MsPerSec
    <3>1. /\ last = Second(last) * MsPerSec + (last % MsPerSec)
          /\ last % MsPerSec = 0 /\ Second(last) \in Nat
      BY TimeParts DEF TInv, TypeOK, AtSecond
    <3> QED
      BY <3>1 DEF TimerAssumption
  <2>2. PICK d \in Nat : d = i - Off
    BY <1>1, SlotTypes DEF TInv
  <2>3. MsPerSec \in Nat \ {0}
    BY DEF TimerAssumption
  <2>4. At(i) = (k + d) * MsPerSec + 0
    BY <2>1, <2>2, <2>3 DEF At
  <2>5. k + d \in Nat /\ 0 \in 0..(MsPerSec - 1)
    BY <2>1, <2>2, <2>3
  <2>6. ((k + d) * MsPerSec + 0) % MsPerSec = 0
    BY <2>3, <2>5, DivUnique
  <2> QED
    BY <2>4, <2>6
<1> QED
  BY <1>1, <1>2, <1>3, <1>4

(* The clock is in the second at which the loop stops. *)
LEMMA StaySlots ==
    ASSUME TInv, pc = "second", NEW i \in Off..SecPerMin, i < SecPerMin, ~Over(i),
           \A j \in Off..(i - 1) : Over(j)
    PROVE  Second(now) = Second(At(i))
<1>1. /\ last \in Nat /\ now \in Nat /\ last <= now /\ Off \in Nat /\ i \in Nat
      /\ MsPerSec \in Nat \ {0} /\ At(i) \in Nat /\ At(i) % MsPerSec = 0
  BY SlotTypes, AdjustSecSlots DEF TInv, TypeOK, AtSecond, TimerAssumption
<1>2. At(i) <= now
  <2>1. CASE i = Off
    <3>1. At(i) = last
      BY <1>1, <2>1 DEF At
    <3> QED
      BY <1>1, <3>1
  <2>2. CASE i # Off
    <3>1. PICK d \in Nat : d = i - 1 - Off
      BY <1>1, <2>2
    <3>2. i - 1 \in Off..(i - 1)
      BY <1>1, <2>2
    <3>3. At(i - 1) + MsPerSec <= now
      BY <3>2 DEF Over
    <3>4. At(i - 1) = last + d * MsPerSec /\ At(i) = last + (d + 1) * MsPerSec
      BY <1>1, <3>1 DEF At
    <3>5. (d + 1) * MsPerSec = d * MsPerSec + MsPerSec /\ d * MsPerSec \in Nat
      BY <1>1, <3>1
    <3> QED
      BY <1>1, <3>3, <3>4, <3>5
  <2> QED
    BY <2>1, <2>2
<1>3. now < At(i) + MsPerSec
  BY <1>1 DEF Over
<1>4. PICK r \in 0..(MsPerSec - 1) : now = At(i) + r
  <2>1. now - At(i) \in 0..(MsPerSec - 1)
    BY <1>1, <1>2, <1>3
  <2>2. now = At(i) + (now - At(i))
    BY <1>1
  <2> QED
    BY <2>1, <2>2
<1>5. /\ Second(At(i)) \in Nat
      /\ At(i) = Second(At(i)) * MsPerSec
  BY <1>1, TimeParts
<1>6. (Second(At(i)) * MsPerSec + r) \div MsPerSec = Second(At(i))
  BY <1>1, <1>5, DivUnique
<1> QED
  BY <1>4, <1>5, <1>6 DEF Second

LEMMA AdjustSecPassing ==
    ASSUME Passing, TInv', AdjustSec
    PROVE  Passing'
<1>1. /\ TInv /\ TypeOK /\ pc = "second" /\ pc' = "walk"
      /\ \A k \in SlotsMs : ms[k] = {}
      /\ AdjustedSec \in [SlotsSec -> SUBSET Units]
      /\ MsPerSec \in Nat /\ SecPerMin \in Nat /\ 0 \in SlotsSec
      /\ \A j \in SlotsSec : j \in 0..(SecPerMin - 1)
      /\ \A k \in SlotsMs : k \in Nat
  BY AdjustedType
     DEF AdjustSec, Passing, TInv, MsPassed, SlotsMs, SlotsSec, TimerAssumption
<1>2. PICK i \in Off..SecPerMin :
        /\ \A j \in Off..(i - 1) : AdjustedSec[j] = {} /\ Over(j)
        /\ LeaveMinute(i) \/ EnterSecond(i) \/ StayInSecond(i)
  BY DEF AdjustSec
<1>3. i \in Nat /\ Off \in Nat
  BY <1>1, SlotTypes
<1>4. \A j \in SlotsSec : j < i => AdjustedSec[j] = {}
  <2> SUFFICES ASSUME NEW j \in SlotsSec, j < i PROVE AdjustedSec[j] = {}
    OBVIOUS
  <2>1. CASE j >= Off
    BY <1>1, <1>2, <1>3, <2>1
  <2>2. CASE j < Off
    <3>1. ~NewMinute
      BY <1>1, <2>2 DEF NewMinute, Off
    <3> QED
      BY <2>2, <3>1 DEF AdjustedSec, Passing, SecPassed
  <2> QED
    BY <1>1, <1>3, <2>1, <2>2
<1>5. /\ At(i) % MsPerSec = 0
      /\ i < SecPerMin => Second(At(i)) % SecPerMin = i
      /\ i = SecPerMin => Second(At(i)) % SecPerMin = 0
  BY <1>1, <1>2, AdjustSecSlots
<1>6. Slot' = last' % MsPerSec /\ Off' = Second(last') % SecPerMin
  BY DEF Slot, Off, Second
<1>7. CASE LeaveMinute(i)
  <2>1. /\ i = SecPerMin /\ Off' = 0 /\ sec' = AdjustedSec /\ ms' = ms
    BY <1>5, <1>6, <1>7 DEF LeaveMinute
  <2>2. \A j \in SlotsSec : sec'[j] = {}
    BY <1>1, <1>4, <2>1
  <2> QED
    BY <1>1, <2>1, <2>2 DEF Passing, MsPassed, SecPassed
<1>8. CASE EnterSecond(i)
  <2>1. /\ i \in SlotsSec /\ Off' = i /\ Slot' = 0
        /\ sec' = [AdjustedSec EXCEPT ![i] = {}]
    BY <1>1, <1>2, <1>3, <1>5, <1>6, <1>8, SlotTypes DEF EnterSecond
  <2>2. sec'[i] = {} /\ \A j \in SlotsSec : j < i => sec'[j] = {}
    BY <1>1, <1>4, <2>1
  <2>3. \A k \in SlotsMs : ~(k < 0)
    BY <1>1
  <2> QED
    BY <1>1, <2>1, <2>2, <2>3 DEF Passing, MsPassed, SecPassed
<1>9. CASE StayInSecond(i)
  <2>1. /\ i < SecPerMin /\ ~Over(i) /\ last' = now /\ sec' = AdjustedSec /\ ms' = ms
        /\ AdjustedSec[i] = {}
    BY <1>9 DEF StayInSecond
  <2>2. Second(last') = Second(At(i))
    BY <1>1, <1>2, <2>1, StaySlots
  <2>3. Off' = i
    BY <1>5, <1>6, <2>1, <2>2
  <2> QED
    BY <1>1, <1>4, <2>1, <2>3 DEF Passing, MsPassed, SecPassed
<1> QED
  BY <1>2, <1>7, <1>8, <1>9

LEMMA NextPassing ==
    ASSUME Passing, [Next]_vars
    PROVE  Passing'
<1>1. TInv'
  BY NextTInv DEF Passing
<1>2. ASSUME last' = last, pc # "second", pc' # "second",
             \A i \in SlotsMs : ms'[i] \subseteq ms[i],
             \A i \in SlotsSec : sec'[i] \subseteq sec[i]
      PROVE  Passing'
  <2>1. Slot' = Slot /\ Off' = Off /\ Off \in SlotsSec
    BY <1>2, SlotTypes DEF Slot, Off, Second, Passing, TInv
  <2> QED
    BY <1>1, <1>2, <2>1 DEF Passing, MsPassed, SecPassed
<1>3. ASSUME NEW u \in Units, Del(u) PROVE Passing'
  BY <1>2, <1>3 DEF Del, AtUser
<1>4. CASE (\E t \in Times : Timeout(t)) \/ NextCall \/ CaughtUp
  BY <1>2, <1>4 DEF Timeout, NextCall, CaughtUp, lists
<1>5. CASE Pop
  <2>1. \A i \in SlotsMs : ms'[i] \subseteq ms[i]
    BY <1>5 DEF Pop, Passing, TInv, TypeOK
  <2> QED
    BY <1>2, <1>5, <2>1 DEF Pop
<1>6. CASE UNCHANGED vars
  BY <1>1, <1>6
     DEF vars, lists, Passing, MsPassed, SecPassed, Slot, Off, NewMinute, Second
<1> QED
  BY <1>1, <1>3, <1>4, <1>5, <1>6, AddPassing, TickPassing, AdjustSecPassing
     DEF Next, TimerNext

LEMMA PassingHolds == Spec => []Passing
<1>1. Init => Passing
  BY InitTInv, SlotTypes DEF Init, Passing, MsPassed, SecPassed, TInv
<1>2. Passing /\ [Next]_vars => Passing'
  BY NextPassing
<1> QED
  BY <1>1, <1>2, PTL DEF Spec

(* What TIMER_CHECK checks: when a second begins no unit is left of the    *)
(* one before, and when a minute begins none of its seconds, whatever the  *)
(* gaps between polls.                                                     *)
THEOREM NothingLeftBelow == Spec => []EmptyBelow
<1>1. Passing => EmptyBelow
  BY DEF Passing, MsPassed, SecPassed, EmptyBelow, NewMinute
<1> QED
  BY <1>1, PassingHolds, PTL
-----------------------------------------------------------------------------
(* The units in the timer. *)
Pending == {u \in Units : Linked(u)}

LEMMA LinkedWhere ==
    ASSUME NEW u
    PROVE  Linked(u) <=> \/ \E i \in SlotsMs : u \in ms[i]
                         \/ \E i \in SlotsSec : u \in sec[i]
                         \/ \E i \in SlotsMin : u \in minute[i]
                         \/ u \in other
BY DEF Linked, AllLists

LEMMA LinkedWhereNext ==
    ASSUME NEW u
    PROVE  Linked(u)' <=> \/ \E i \in SlotsMs : u \in ms'[i]
                          \/ \E i \in SlotsSec : u \in sec'[i]
                          \/ \E i \in SlotsMin : u \in minute'[i]
                          \/ u \in other'
BY DEF Linked, AllLists

LEMMA AddPending ==
    ASSUME TypeOK, NEW u \in Units, NEW t \in Times, Add(u, t)
    PROVE  u \notin Pending /\ Pending' = Pending \cup {u}
<1>1. /\ t % MsPerSec \in SlotsMs /\ Second(t) % SecPerMin \in SlotsSec
      /\ ~Linked(u)
  BY TimeParts DEF Add, Times, TimerAssumption
<1>2. ASSUME NEW v PROVE Linked(v)' <=> Linked(v) \/ v = u
  <2>1. CASE UNCHANGED <<sec, minute, other>> /\ ms' = Link(ms, t % MsPerSec, u)
    BY <1>1, <2>1, LinkedWhere, LinkedWhereNext DEF Link, TypeOK
  <2>2. CASE UNCHANGED <<ms, minute, other>> /\ sec' = Link(sec, Second(t) % SecPerMin, u)
    BY <1>1, <2>2, LinkedWhere, LinkedWhereNext DEF Link, TypeOK
  <2>3. CASE /\ Minute(t) - Minute(last) \in SlotsMin /\ UNCHANGED <<ms, sec, other>>
             /\ minute' = Link(minute, Minute(t) - Minute(last), u)
    BY <1>1, <2>3, LinkedWhere, LinkedWhereNext DEF Link, TypeOK
  <2>4. CASE UNCHANGED <<ms, sec, minute>> /\ other' = other \cup {u}
    BY <1>1, <2>4, LinkedWhere, LinkedWhereNext
  <2> QED
    BY <2>1, <2>2, <2>3, <2>4 DEF Add, Place
<1> QED
  BY <1>1, <1>2 DEF Pending

LEMMA DelPending ==
    ASSUME NEW u \in Units, Del(u)
    PROVE  Pending' = Pending \ {u}
<1>1. ASSUME NEW v PROVE Linked(v)' <=> Linked(v) /\ v # u
  BY LinkedWhere, LinkedWhereNext DEF Del
<1> QED
  BY <1>1 DEF Pending

LEMMA PopPending ==
    ASSUME TypeOK, Disjoint, Pop
    PROVE  \E u \in Units : /\ u \in Pending /\ u \in ms[Slot]
                            /\ Pending' = Pending \ {u}
                            /\ tv' = [tv EXCEPT ![u] = 0]
<1>1. Slot \in SlotsMs
  BY SlotTypes
<1>2. PICK u \in ms[Slot] : /\ ms' = [ms EXCEPT ![Slot] = @ \ {u}]
                            /\ tv' = [tv EXCEPT ![u] = 0]
  BY DEF Pop
<1>3. u \in Units /\ Linked(u)
  BY <1>1, LinkedWhere DEF TypeOK
<1>4. /\ \A i \in SlotsMs : i # Slot => u \notin ms[i]
      /\ \A i \in SlotsSec : u \notin sec[i]
      /\ \A i \in SlotsMin : u \notin minute[i]
      /\ u \notin other
  BY <1>1 DEF Disjoint, Apart
<1>5. \A i \in SlotsMs : ms'[i] = ms[i] \ {u}
  BY <1>1, <1>2, <1>4 DEF TypeOK
<1>6. sec' = sec /\ minute' = minute /\ other' = other
  BY DEF Pop
<1>7. ASSUME NEW v PROVE Linked(v)' <=> Linked(v) /\ v # u
  BY <1>4, <1>5, <1>6, LinkedWhere, LinkedWhereNext
<1> QED
  BY <1>2, <1>3, <1>7 DEF Pending

LEMMA AdjustedPending ==
    ASSUME TypeOK, NEW u \in Units
    PROVE  (\/ \E i \in SlotsSec : u \in AdjustedSec[i]
            \/ \E i \in SlotsMin : u \in AdjustedMin[i]
            \/ u \in AdjustedOther)
           <=> (\/ \E i \in SlotsSec : u \in sec[i]
                \/ \E i \in SlotsMin : u \in minute[i]
                \/ u \in other)
<1>1. CASE ~NewMinute
  BY <1>1 DEF AdjustedSec, AdjustedMin, AdjustedOther
<1>2. CASE NewMinute
  <2>1. Second(tv[u]) % SecPerMin \in SlotsSec
    BY TimeParts DEF TypeOK
  <2>2. \A i \in SlotsSec : u \in AdjustedSec[i] <=>
            u \in sec[i] \/ (u \in minute[1] /\ Second(tv[u]) % SecPerMin = i)
    BY <1>2 DEF AdjustedSec, Scatter, TypeOK
  <2>3. 1 \in SlotsMin /\ MinPerHour - 1 \in SlotsMin
    BY DEF SlotsMin, TimerAssumption
  <2>4. /\ \A i \in SlotsMin : i < MinPerHour - 1
              => i + 1 \in SlotsMin /\ AdjustedMin[i] = minute[i + 1]
        /\ AdjustedMin[MinPerHour - 1] = {v \in other : Near(v)}
    BY <1>2, <2>3 DEF AdjustedMin, SlotsMin, TimerAssumption
  <2>5. \A j \in SlotsMin : j # 1 => /\ j - 1 \in SlotsMin /\ j - 1 < MinPerHour - 1
                                     /\ (j - 1) + 1 = j
    BY DEF SlotsMin, TimerAssumption
  <2>6. \A i \in SlotsMin : i < MinPerHour - 1 \/ i = MinPerHour - 1
    BY DEF SlotsMin, TimerAssumption
  <2>7. (\E i \in SlotsMin : u \in AdjustedMin[i])
        <=> (\E j \in SlotsMin : j # 1 /\ u \in minute[j]) \/ (u \in other /\ Near(u))
    <3>1. ASSUME NEW i \in SlotsMin, u \in AdjustedMin[i]
          PROVE  (\E j \in SlotsMin : j # 1 /\ u \in minute[j]) \/ (u \in other /\ Near(u))
      <4>1. CASE i < MinPerHour - 1
        <5>1. i + 1 \in SlotsMin /\ i + 1 # 1 /\ u \in minute[i + 1]
          BY <2>4, <3>1, <4>1 DEF SlotsMin, TimerAssumption
        <5> QED
          BY <5>1
      <4>2. CASE i = MinPerHour - 1
        BY <2>4, <3>1, <4>2
      <4> QED
        BY <2>6, <4>1, <4>2
    <3>2. ASSUME NEW j \in SlotsMin, j # 1, u \in minute[j]
          PROVE  u \in AdjustedMin[j - 1] /\ j - 1 \in SlotsMin
      BY <2>4, <2>5, <3>2
    <3>3. ASSUME u \in other, Near(u) PROVE u \in AdjustedMin[MinPerHour - 1]
      BY <2>4, <3>3
    <3> QED
      BY <2>3, <3>1, <3>2, <3>3
  <2>8. u \in AdjustedOther <=> u \in other /\ ~Near(u)
    BY <1>2 DEF AdjustedOther
  <2>9. (\E i \in SlotsSec : u \in AdjustedSec[i])
        <=> (\E i \in SlotsSec : u \in sec[i]) \/ u \in minute[1]
    BY <2>1, <2>2
  <2> QED
    BY <2>3, <2>7, <2>8, <2>9
<1> QED
  BY <1>1, <1>2

(* timer_adjust_sec and timer_adjust_min lose no unit. *)
LEMMA AdjustSecPending ==
    ASSUME TypeOK, AdjustSec
    PROVE  Pending' = Pending
<1>1. /\ AdjustedSec \in [SlotsSec -> SUBSET Units]
      /\ minute' = AdjustedMin /\ other' = AdjustedOther
  BY AdjustedType DEF AdjustSec
<1>2. PICK i \in Off..SecPerMin :
        LeaveMinute(i) \/ EnterSecond(i) \/ StayInSecond(i)
  BY DEF AdjustSec
<1>3. ASSUME NEW u \in Units
      PROVE  (\/ \E k \in SlotsMs : u \in ms'[k]
              \/ \E j \in SlotsSec : u \in sec'[j])
             <=> (\/ \E k \in SlotsMs : u \in ms[k]
                  \/ \E j \in SlotsSec : u \in AdjustedSec[j])
  <2>1. CASE LeaveMinute(i) \/ StayInSecond(i)
    BY <2>1 DEF LeaveMinute, StayInSecond
  <2>2. CASE EnterSecond(i)
    <3>1. i \in SlotsSec
      BY <2>2, SlotTypes DEF EnterSecond
    <3>2. /\ sec'[i] = {}
          /\ \A j \in SlotsSec : j # i => sec'[j] = AdjustedSec[j]
      BY <1>1, <2>2, <3>1 DEF EnterSecond
    <3>3. \A k \in SlotsMs : u \in ms'[k] <=>
            u \in ms[k] \/ (u \in AdjustedSec[i] /\ tv[u] % MsPerSec = k)
      BY <2>2 DEF EnterSecond, Scatter, TypeOK
    <3>4. tv[u] % MsPerSec \in SlotsMs
      BY TimeParts DEF TypeOK
    <3> QED
      BY <3>1, <3>2, <3>3, <3>4
  <2> QED
    BY <1>2, <2>1, <2>2
<1>4. ASSUME NEW u \in Units PROVE Linked(u)' <=> Linked(u)
  BY <1>1, <1>3, AdjustedPending, LinkedWhere, LinkedWhereNext
<1> QED
  BY <1>4 DEF Pending

LEMMA OthersPending ==
    ASSUME NextCall \/ CaughtUp \/ Tick \/ (\E t \in Times : Timeout(t)) \/ UNCHANGED vars
    PROVE  Pending' = Pending
<1>1. ms' = ms /\ sec' = sec /\ minute' = minute /\ other' = other
  BY DEF NextCall, CaughtUp, Tick, Timeout, lists, vars
<1> QED
  BY <1>1, LinkedWhere, LinkedWhereNext DEF Pending

-----------------------------------------------------------------------------
CountIs == ~DelExpired => count = Cardinality(Pending)

LEMMA CountKept ==
    ASSUME IsFiniteSet(Units), Cardinality(Units) < CountRange,
           TypeOK, Disjoint, CountIs, [Next]_vars
    PROVE  CountIs'
<1> SUFFICES ASSUME ~DelExpired PROVE count' = Cardinality(Pending')
  BY DEF CountIs
<1>1. /\ count = Cardinality(Pending) /\ IsFiniteSet(Pending)
      /\ Cardinality(Pending) \in Nat /\ Cardinality(Units) \in Nat
      /\ CountRange \in Nat
  <2>1. Pending \in SUBSET Units
    BY DEF Pending
  <2>2. IsFiniteSet(Pending)
    BY <2>1, FS_Subset
  <2> QED
    BY <2>2, FS_CardinalityType DEF CountIs, TimerAssumption
<1>2. \A n \in 0..(CountRange - 1) : Counted(n) = n
  BY <1>1 DEF Counted
<1>3. ASSUME NEW u \in Units, NEW t \in Times, Add(u, t)
      PROVE  count' = Cardinality(Pending')
  <2>1. u \notin Pending /\ Pending' = Pending \cup {u}
    BY <1>3, AddPending
  <2>2. Cardinality(Pending') = Cardinality(Pending) + 1
    BY <1>1, <2>1, FS_AddElement
  <2>3. Cardinality(Pending') <= Cardinality(Units)
    <3>1. Pending \cup {u} \in SUBSET Units
      BY DEF Pending
    <3> QED
      BY <2>1, <3>1, FS_Subset
  <2>4. count + 1 \in 0..(CountRange - 1)
    BY <1>1, <2>2, <2>3
  <2>5. count' = Counted(count + 1)
    BY <1>3 DEF Add
  <2> QED
    BY <1>1, <1>2, <2>2, <2>4, <2>5
<1>4. ASSUME NEW u \in Pending, Pending' = Pending \ {u}, count' = Counted(count - 1)
      PROVE  count' = Cardinality(Pending')
  <2>1. Cardinality(Pending') = Cardinality(Pending) - 1
    BY <1>1, <1>4, FS_RemoveElement
  <2>2. IsFiniteSet(Pending') /\ Cardinality(Pending') \in Nat
    BY <1>1, <1>4, FS_RemoveElement, FS_CardinalityType
  <2>3. Cardinality(Pending) <= Cardinality(Units)
    BY FS_Subset DEF Pending
  <2>4. count - 1 \in 0..(CountRange - 1)
    BY <1>1, <2>1, <2>2, <2>3
  <2> QED
    BY <1>1, <1>2, <1>4, <2>1, <2>4
<1>5. ASSUME NEW u \in Units, Del(u) PROVE count' = Cardinality(Pending')
  <2>1. u \in Pending /\ count' = Counted(count - 1)
    BY <1>5 DEF Del, Pending
  <2> QED
    BY <1>4, <1>5, <2>1, DelPending
<1>6. CASE Pop
  <2>1. count' = Counted(count - 1)
    BY <1>6 DEF Pop
  <2> QED
    BY <1>4, <1>6, <2>1, PopPending
<1>7. CASE AdjustSec
  BY <1>1, <1>7, AdjustSecPending DEF AdjustSec
<1>8. CASE NextCall \/ CaughtUp \/ Tick \/ (\E t \in Times : Timeout(t)) \/ UNCHANGED vars
  <2>1. count' = count
    BY <1>8 DEF NextCall, CaughtUp, Tick, Timeout, vars
  <2> QED
    BY <1>1, <1>8, <2>1, OthersPending
<1> QED
  BY <1>3, <1>5, <1>6, <1>7, <1>8 DEF Next, TimerNext

(* _count is the number of units in the timer, as timer_tester.c takes it  *)
(* to be, if there are fewer of them than _count can count and none is     *)
(* deleted that is not in the timer.                                       *)
THEOREM CountRight ==
    ASSUME IsFiniteSet(Units), Cardinality(Units) < CountRange
    PROVE  Spec => []CountIsUnits
<1>1. Init => TypeOK /\ Disjoint /\ CountIs
  <2> SUFFICES ASSUME Init PROVE TypeOK /\ Disjoint /\ CountIs
    OBVIOUS
  <2>1. Pending = {}
    BY LinkedWhere DEF Init, Pending
  <2>2. count = 0
    BY DEF Init
  <2> QED
    BY <2>1, <2>2, InitType, FS_EmptySet DEF Init, Disjoint, Apart, CountIs
<1>2. TypeOK /\ Disjoint /\ CountIs /\ [Next]_vars => TypeOK' /\ Disjoint' /\ CountIs'
  BY NextType, NextApart, CountKept
<1>3. CountIs => CountIsUnits
  BY DEF CountIs, CountIsUnits, Pending
<1> QED
  BY <1>1, <1>2, <1>3, PTL DEF Spec
-----------------------------------------------------------------------------
(***************************************************************************)
(* With polls at most a second apart the wheel is never more than a second *)
(* behind, so timer_adjust_sec stops at the second it starts from and      *)
(* never runs to the end of the minute.                                    *)
(***************************************************************************)
Recent ==
    /\ pc = "idle" => now <= last
    /\ pc # "idle" => now <= last + MsPerSec
    /\ pc = "second" => last > 0 /\ now < last + MsPerSec

Exact == Passing /\ Recent /\ Placed

LEMMA RecentNext ==
    ASSUME MaxGap <= MsPerSec, Passing, TInv', Recent, [Next]_vars
    PROVE  Recent'
<1>1. /\ last \in Nat /\ now \in Nat /\ last' \in Nat /\ now' \in Nat
      /\ MsPerSec \in Nat \ {0} /\ MaxGap \in Nat
      /\ pc = "second" => last <= now
  BY DEF Passing, TInv, TypeOK, AtSecond, TimerAssumption
<1>2. CASE \E u \in Units : Del(u) \/ \E t \in Times : Add(u, t)
  BY <1>2 DEF Add, Del, Recent
<1>3. CASE \E t \in Times : Timeout(t)
  <2>1. PICK t \in Times : Timeout(t)
    BY <1>3
  <2> QED
    BY <1>1, <2>1 DEF Timeout, Recent, Times
<1>4. CASE NextCall \/ UNCHANGED vars
  BY <1>4 DEF NextCall, Recent, vars
<1>5. CASE CaughtUp
  BY <1>1, <1>5 DEF CaughtUp, Passed, Recent
<1>6. CASE Tick
  BY <1>1, <1>6 DEF Tick, Passed, Recent
<1>7. CASE Pop
  BY <1>1, <1>7 DEF Pop, Passed, Recent
<1>8. CASE AdjustSec
  <2>1. last <= last' /\ now' = now /\ pc = "second" /\ pc' = "walk"
    <3>1. PICK i \in Off..SecPerMin :
            LeaveMinute(i) \/ EnterSecond(i) \/ StayInSecond(i)
      BY <1>8 DEF AdjustSec
    <3>2. last <= At(i)
      BY AtType DEF Passing, TInv
    <3> QED
      BY <1>1, <1>8, <3>1, <3>2
         DEF AdjustSec, LeaveMinute, EnterSecond, StayInSecond
  <2>2. now < last + MsPerSec
    BY <2>1 DEF Recent
  <2>3. now' <= last' + MsPerSec
    <3>1. \A a, b, n, m \in Nat : a <= b /\ n < a + m => n <= b + m
      OBVIOUS
    <3>2. MsPerSec \in Nat
      BY <1>1
    <3> QED
      BY <1>1, <2>1, <2>2, <3>1, <3>2
  <2> QED
    BY <2>1, <2>3 DEF Recent
<1> QED
  BY <1>2, <1>3, <1>4, <1>5, <1>6, <1>7, <1>8 DEF Next, TimerNext

LEMMA AdjustSecHere ==
    ASSUME Passing, Recent, AdjustSec
    PROVE  /\ Off \in SlotsSec /\ minute' = AdjustedMin /\ other' = AdjustedOther
           /\ \/ last' = last /\ EnterSecond(Off)
              \/ last' = now /\ StayInSecond(Off)
           /\ Second(last') = Second(last)
<1>1. /\ TInv /\ TypeOK /\ pc = "second" /\ last \in Nat /\ now \in Nat /\ last <= now
      /\ now < last + MsPerSec /\ MsPerSec \in Nat \ {0} /\ SecPerMin \in Nat
      /\ Off \in SlotsSec /\ Off \in Nat /\ Off < SecPerMin
      /\ minute' = AdjustedMin /\ other' = AdjustedOther
  <2>1. TypeOK /\ pc = "second" /\ TInv /\ minute' = AdjustedMin /\ other' = AdjustedOther
    BY DEF AdjustSec, Passing, TInv
  <2>2. Off \in SlotsSec /\ Off \in Nat /\ Off < SecPerMin
    <3>1. Off \in SlotsSec
      BY <2>1, SlotTypes
    <3> QED
      BY <3>1, SlotNumbers
  <2> QED
    BY <2>1, <2>2 DEF TInv, TypeOK, AtSecond, Recent, TimerAssumption
<1>2. At(Off) = last
  BY <1>1 DEF At
<1>3. ~Over(Off)
  BY <1>1, <1>2 DEF Over
<1>4. PICK i \in Off..SecPerMin :
        /\ \A j \in Off..(i - 1) : Over(j)
        /\ LeaveMinute(i) \/ EnterSecond(i) \/ StayInSecond(i)
  BY DEF AdjustSec
<1>5. i = Off
  <2>1. CASE i # Off
    <3>1. Off \in Off..(i - 1)
      BY <1>1, <2>1
    <3> QED
      BY <1>3, <1>4, <3>1
  <2> QED
    BY <2>1
<1>6. ~LeaveMinute(Off)
  BY <1>1 DEF LeaveMinute
<1>7. \/ last' = last /\ EnterSecond(Off)
      \/ last' = now /\ StayInSecond(Off)
  BY <1>2, <1>4, <1>5, <1>6 DEF EnterSecond, StayInSecond
<1>8. Second(now) = Second(last)
  <2>1. \A j \in Off..(Off - 1) : Over(j)
    BY <1>1
  <2>2. Off \in Off..SecPerMin
    BY <1>1
  <2> QED
    BY <1>1, <1>2, <1>3, <2>1, <2>2, StaySlots
<1> QED
  BY <1>1, <1>7, <1>8

(* The last millisecond of a second, and of a minute. *)
LEMMA SecondEnds ==
    ASSUME NEW t \in Nat, t > 0, t % MsPerSec = 0
    PROVE  /\ Second(t - 1) \in Nat /\ Second(t) = Second(t - 1) + 1
           /\ Second(t) % SecPerMin # 0 => Minute(t - 1) = Minute(t)
           /\ Second(t) % SecPerMin = 0 => Minute(t - 1) = Minute(t) - 1
<1>1. PICK s \in Nat : s = t - 1
  OBVIOUS
<1>2. /\ Second(s) \in Nat /\ s % MsPerSec \in Nat /\ MsPerSec \in Nat \ {0, 1}
      /\ SecPerMin \in Nat \ {0, 1} /\ t = s + 1
  <2>1. s % MsPerSec \in SlotsMs /\ Second(s) \in Nat
    BY TimeParts
  <2>2. s % MsPerSec \in Nat
    BY <2>1, SlotNumbers
  <2>3. t = s + 1
    BY <1>1
  <2> QED
    BY <2>1, <2>2, <2>3 DEF TimerAssumption
<1>3. Second(t) = Second(s) + 1
  <2>1. s % MsPerSec = MsPerSec - 1
    <3>1. CASE s % MsPerSec # MsPerSec - 1
      <4>1. t % MsPerSec = (s % MsPerSec) + 1
        BY <1>2, <3>1, NextSlots
      <4> QED
        BY <1>2, <4>1
    <3> QED
      BY <3>1
  <2> QED
    BY <1>2, <2>1, NextSlots
<1>4. PICK x \in Nat : x = Second(s)
  BY <1>2
<1>5. PICK q \in Nat, r \in 0..(SecPerMin - 1) :
        q = x \div SecPerMin /\ r = x % SecPerMin /\ x = q * SecPerMin + r
  <2>1. SecPerMin \in Nat \ {0}
    BY <1>2
  <2>2. /\ x \div SecPerMin \in Nat /\ x % SecPerMin \in 0..(SecPerMin - 1)
        /\ x = (x \div SecPerMin) * SecPerMin + (x % SecPerMin)
    BY <2>1, DivMod
  <2> QED
    BY <2>2
<1>6. ASSUME r # SecPerMin - 1
      PROVE  (x + 1) % SecPerMin = r + 1 /\ (x + 1) \div SecPerMin = q
  <2>1. r + 1 \in 0..(SecPerMin - 1) /\ x + 1 = q * SecPerMin + (r + 1)
    BY <1>2, <1>5, <1>6
  <2>2. (q * SecPerMin + (r + 1)) \div SecPerMin = q
          /\ (q * SecPerMin + (r + 1)) % SecPerMin = r + 1
    BY <1>2, <2>1, DivUnique
  <2> QED
    BY <2>1, <2>2
<1>7. ASSUME r = SecPerMin - 1
      PROVE  (x + 1) % SecPerMin = 0 /\ (x + 1) \div SecPerMin = q + 1
  <2>1. 0 \in 0..(SecPerMin - 1) /\ q + 1 \in Nat /\ x + 1 = (q + 1) * SecPerMin + 0
    BY <1>2, <1>5, <1>7
  <2>2. ((q + 1) * SecPerMin + 0) \div SecPerMin = q + 1
          /\ ((q + 1) * SecPerMin + 0) % SecPerMin = 0
    BY <1>2, <2>1, DivUnique
  <2> QED
    BY <2>1, <2>2
<1>8. Minute(s) = q /\ Second(t) = x + 1 /\ Minute(t) = (x + 1) \div SecPerMin
  BY <1>3, <1>4, <1>5 DEF Minute
<1>9. r + 1 # 0
  BY <1>5
<1> QED
  BY <1>1, <1>3, <1>4, <1>5, <1>6, <1>7, <1>8, <1>9

-----------------------------------------------------------------------------
(* The conjuncts of Placed. *)
MsPlaced == \A i \in SlotsMs : \A u \in ms[i] :
    Second(tv[u]) = Second(Adjusted) /\ tv[u] % MsPerSec = i /\ tv[u] >= last
SecPlaced == \A i \in SlotsSec : \A u \in sec[i] :
    /\ Minute(tv[u]) = Minute(Adjusted) /\ Second(tv[u]) % SecPerMin = i
    /\ Second(tv[u]) > Second(Adjusted)
MinPlaced == \A i \in SlotsMin : \A u \in minute[i] :
    Minute(tv[u]) - Minute(Adjusted) = i
OtherPlaced == \A u \in other : Minute(tv[u]) - Minute(Adjusted) >= MinPerHour

LEMMA PlacedParts == Placed <=> MsPlaced /\ SecPlaced /\ MinPlaced /\ OtherPlaced
BY DEF Placed, MsPlaced, SecPlaced, MinPlaced, OtherPlaced

LEMMA PlacedPartsNext ==
    MsPlaced' /\ SecPlaced' /\ MinPlaced' /\ OtherPlaced' => Placed'
BY DEF Placed, MsPlaced, SecPlaced, MinPlaced, OtherPlaced

(* Steps that leave last alone and move no unit. *)
LEMMA PlacedKept ==
    ASSUME Placed, last' = last, (pc' = "second") <=> (pc = "second"),
           \A i \in SlotsMs : ms'[i] \subseteq ms[i],
           \A i \in SlotsSec : sec'[i] \subseteq sec[i],
           \A i \in SlotsMin : minute'[i] \subseteq minute[i],
           other' \subseteq other,
           \A u \in Units : Linked(u)' => tv'[u] = tv[u],
           TypeOK'
    PROVE  Placed'
<1>1. Adjusted' = Adjusted
  BY DEF Adjusted
<1>2. \A u : /\ \A i \in SlotsMs : u \in ms'[i] => tv'[u] = tv[u]
             /\ \A i \in SlotsSec : u \in sec'[i] => tv'[u] = tv[u]
             /\ \A i \in SlotsMin : u \in minute'[i] => tv'[u] = tv[u]
             /\ u \in other' => tv'[u] = tv[u]
  BY LinkedWhereNext DEF TypeOK
<1>3. MsPlaced /\ SecPlaced /\ MinPlaced /\ OtherPlaced
  BY PlacedParts
<1>4. MsPlaced' /\ SecPlaced'
  BY <1>1, <1>2, <1>3 DEF MsPlaced, SecPlaced, Second, Minute
<1>5. MinPlaced' /\ OtherPlaced'
  BY <1>1, <1>2, <1>3 DEF MinPlaced, OtherPlaced, Second, Minute
<1> QED
  BY <1>4, <1>5, PlacedPartsNext

LEMMA TimesOfUnits ==
    ASSUME TypeOK, NEW u \in Units
    PROVE  /\ tv[u] \in Nat /\ Second(tv[u]) \in Nat /\ Minute(tv[u]) \in Nat
           /\ tv[u] % MsPerSec \in SlotsMs /\ Second(tv[u]) % SecPerMin \in SlotsSec
           /\ tv[u] = Second(tv[u]) * MsPerSec + (tv[u] % MsPerSec)
           /\ Second(tv[u]) = Minute(tv[u]) * SecPerMin + (Second(tv[u]) % SecPerMin)
<1>1. PICK t \in Nat : t = tv[u]
  BY DEF TypeOK
<1> QED
  BY <1>1, TimeParts

LEMMA AddPlaced ==
    ASSUME Exact, TypeOK', NEW u \in Units, NEW t \in Times, Add(u, t)
    PROVE  Placed'
<1>1. /\ t \in Nat /\ last \in Nat /\ last <= t /\ last' = last /\ pc # "second" /\ pc' = pc
      /\ tv' = [tv EXCEPT ![u] = t] /\ tv \in [Units -> Nat] /\ Place(u, t)
  BY DEF Add, AtUser, Accepts, Times, Exact, Passing, TInv, TypeOK, TimerAssumption
<1>2. /\ Second(t) \in Nat /\ Minute(t) \in Nat /\ Second(last) \in Nat /\ Minute(last) \in Nat
      /\ Second(last) <= Second(t)
  BY <1>1, TimeParts, TimeMono
<1>3. Adjusted = last /\ Adjusted' = last
  BY <1>1 DEF Adjusted
<1>4. /\ \A i \in SlotsMs : u \notin ms[i]
      /\ \A i \in SlotsSec : u \notin sec[i]
      /\ \A i \in SlotsMin : u \notin minute[i]
      /\ u \notin other
  BY LinkedWhere DEF Add
<1>5. /\ ms \in [SlotsMs -> SUBSET Units] /\ sec \in [SlotsSec -> SUBSET Units]
      /\ minute \in [SlotsMin -> SUBSET Units] /\ other \subseteq Units
  BY DEF Exact, Passing, TInv, TypeOK
<1>6. tv'[u] = t /\ \A v \in Units : v # u => tv'[v] = tv[v]
  BY <1>1
<1>7. MsPlaced /\ SecPlaced /\ MinPlaced /\ OtherPlaced
  BY PlacedParts DEF Exact
<1>8. MsPlaced'
  <2> SUFFICES ASSUME NEW i \in SlotsMs, NEW v \in ms'[i]
               PROVE  /\ Second(tv'[v]) = Second(last) /\ tv'[v] % MsPerSec = i
                      /\ tv'[v] >= last
    BY <1>1, <1>3 DEF MsPlaced, Second
  <2>1. CASE v \in ms[i]
    BY <1>3, <1>4, <1>5, <1>6, <1>7, <2>1 DEF MsPlaced
  <2>2. CASE v \notin ms[i]
    <3>1. v = u /\ Second(t) = Second(last) /\ i = t % MsPerSec
      BY <1>1, <1>5, <2>2 DEF Place, Link
    <3> QED
      BY <1>1, <1>6, <3>1
  <2> QED
    BY <2>1, <2>2
<1>9. SecPlaced'
  <2> SUFFICES ASSUME NEW i \in SlotsSec, NEW v \in sec'[i]
               PROVE  /\ Minute(tv'[v]) = Minute(last) /\ Second(tv'[v]) % SecPerMin = i
                      /\ Second(tv'[v]) > Second(last)
    BY <1>1, <1>3 DEF SecPlaced, Second, Minute
  <2>1. CASE v \in sec[i]
    BY <1>3, <1>4, <1>5, <1>6, <1>7, <2>1 DEF SecPlaced
  <2>2. CASE v \notin sec[i]
    <3>1. /\ v = u /\ Second(t) # Second(last) /\ Minute(t) - Minute(last) = 0
          /\ i = Second(t) % SecPerMin
      BY <1>1, <1>5, <2>2 DEF Place, Link
    <3>2. Minute(t) = Minute(last) /\ Second(t) > Second(last)
      BY <1>2, <3>1
    <3> QED
      BY <1>6, <3>1, <3>2
  <2> QED
    BY <2>1, <2>2
<1>10. MinPlaced'
  <2> SUFFICES ASSUME NEW i \in SlotsMin, NEW v \in minute'[i]
               PROVE  Minute(tv'[v]) - Minute(last) = i
    BY <1>1, <1>3 DEF MinPlaced, Second, Minute
  <2>1. CASE v \in minute[i]
    BY <1>3, <1>4, <1>5, <1>6, <1>7, <2>1 DEF MinPlaced
  <2>2. CASE v \notin minute[i]
    <3>1. v = u /\ i = Minute(t) - Minute(last)
      BY <1>1, <1>5, <2>2 DEF Place, Link
    <3> QED
      BY <1>6, <3>1
  <2> QED
    BY <2>1, <2>2
<1>11. OtherPlaced'
  <2> SUFFICES ASSUME NEW v \in other'
               PROVE  Minute(tv'[v]) - Minute(last) >= MinPerHour
    BY <1>1, <1>3 DEF OtherPlaced, Second, Minute
  <2>1. CASE v \in other
    BY <1>3, <1>4, <1>5, <1>6, <1>7, <2>1 DEF OtherPlaced
  <2>2. CASE v \notin other
    <3>1. v = u /\ Minute(t) - Minute(last) >= MinPerHour
      BY <1>1, <2>2 DEF Place
    <3> QED
      BY <1>6, <3>1
  <2> QED
    BY <2>1, <2>2
<1> QED
  BY <1>8, <1>9, <1>10, <1>11, PlacedPartsNext

LEMMA TickPlaced ==
    ASSUME Exact, Passing', Tick
    PROVE  Placed'
<1>1. /\ last \in Nat /\ last' = last + 1 /\ pc = "walk" /\ TypeOK
      /\ ms[Slot] = {} /\ ms' = ms /\ sec' = sec /\ minute' = minute /\ other' = other
      /\ tv' = tv
      /\ pc' = IF Slot = MsPerSec - 1 THEN "second" ELSE "walk"
      /\ ms \in [SlotsMs -> SUBSET Units]
  BY DEF Tick, lists, Exact, Passing, TInv, TypeOK
<1>2. MsPlaced /\ SecPlaced /\ MinPlaced /\ OtherPlaced
  BY PlacedParts DEF Exact
<1>3. /\ Second(Adjusted') = Second(Adjusted) /\ Minute(Adjusted') = Minute(Adjusted)
  <2>1. CASE Slot = MsPerSec - 1
    BY <1>1, <2>1 DEF Adjusted
  <2>2. CASE Slot # MsPerSec - 1
    <3>1. Adjusted = last /\ Adjusted' = last + 1
      BY <1>1, <2>2 DEF Adjusted
    <3>2. Second(last + 1) = Second(last)
      BY <1>1, <2>2, NextSlots DEF Slot
    <3> QED
      BY <3>1, <3>2 DEF Minute
  <2> QED
    BY <2>1, <2>2
<1>4. MsPlaced'
  <2> SUFFICES ASSUME NEW i \in SlotsMs, NEW u \in ms[i]
               PROVE  /\ Second(tv[u]) = Second(Adjusted') /\ tv[u] % MsPerSec = i
                      /\ tv[u] >= last'
    BY <1>1 DEF MsPlaced, Second
  <2>1. Second(tv[u]) = Second(Adjusted) /\ tv[u] % MsPerSec = i /\ tv[u] >= last
    BY <1>2 DEF MsPlaced
  <2>2. tv[u] # last
    BY <1>1, <2>1 DEF Slot
  <2>3. tv[u] \in Nat
    BY <1>1 DEF TypeOK
  <2> QED
    BY <1>1, <1>3, <2>1, <2>2, <2>3
<1>5. SecPlaced' /\ MinPlaced' /\ OtherPlaced'
  BY <1>1, <1>2, <1>3 DEF SecPlaced, MinPlaced, OtherPlaced, Second, Minute
<1> QED
  BY <1>4, <1>5, PlacedPartsNext

(* timer_adjust_min runs in each minute, so the units it moves have come   *)
(* near by just one.                                                       *)
LEMMA AdjustedPlaced ==
    ASSUME Exact, pc = "second"
    PROVE  /\ \A i \in SlotsSec : \A u \in AdjustedSec[i] :
                /\ u \in Units
                /\ Minute(tv[u]) = Minute(last) /\ Second(tv[u]) % SecPerMin = i
                /\ Second(tv[u]) >= Second(last)
           /\ \A i \in SlotsMin : \A u \in AdjustedMin[i] :
                Minute(tv[u]) - Minute(last) = i
           /\ \A u \in AdjustedOther : Minute(tv[u]) - Minute(last) >= MinPerHour
<1>1. /\ TypeOK /\ last \in Nat /\ last > 0 /\ last % MsPerSec = 0 /\ Adjusted = last - 1
      /\ MinPerHour \in Nat /\ 1 \in SlotsMin
      /\ \A i \in SlotsMin : i \in Nat
  BY DEF Exact, Passing, TInv, TypeOK, AtSecond, Recent, Adjusted, SlotsMin, TimerAssumption
<1>2. /\ Second(last) \in Nat /\ Minute(last) \in Nat
      /\ Second(last) = Minute(last) * SecPerMin + (Second(last) % SecPerMin)
      /\ Second(Adjusted) = Second(last) - 1
      /\ ~NewMinute => Minute(Adjusted) = Minute(last)
      /\ NewMinute => Minute(Adjusted) = Minute(last) - 1
  <2>1. /\ Second(last) \in Nat /\ Minute(last) \in Nat
        /\ Second(last) = Minute(last) * SecPerMin + (Second(last) % SecPerMin)
    BY <1>1, TimeParts
  <2>2. Second(last - 1) \in Nat /\ Second(last) = Second(last - 1) + 1
    BY <1>1, SecondEnds
  <2>3. /\ ~NewMinute => Minute(last - 1) = Minute(last)
        /\ NewMinute => Minute(last - 1) = Minute(last) - 1
    BY <1>1, SecondEnds DEF NewMinute
  <2> QED
    BY <1>1, <2>1, <2>2, <2>3
<1>3. MsPlaced /\ SecPlaced /\ MinPlaced /\ OtherPlaced
  BY PlacedParts DEF Exact
<1>4. CASE ~NewMinute
  <2>1. AdjustedSec = sec /\ AdjustedMin = minute /\ AdjustedOther = other
    BY <1>4 DEF AdjustedSec, AdjustedMin, AdjustedOther
  <2>2. ASSUME NEW i \in SlotsSec, NEW u \in sec[i]
        PROVE  /\ u \in Units
               /\ Minute(tv[u]) = Minute(last) /\ Second(tv[u]) % SecPerMin = i
               /\ Second(tv[u]) >= Second(last)
    <3>1. u \in Units
      BY <1>1 DEF TypeOK
    <3>2. Second(tv[u]) \in Nat
      BY <1>1, <3>1, TimesOfUnits
    <3>3. /\ Minute(tv[u]) = Minute(Adjusted) /\ Second(tv[u]) % SecPerMin = i
          /\ Second(tv[u]) > Second(Adjusted)
      BY <1>3 DEF SecPlaced
    <3>4. Second(tv[u]) >= Second(last)
      BY <1>2, <3>2, <3>3
    <3> QED
      BY <1>2, <1>4, <3>1, <3>3, <3>4
  <2> QED
    BY <1>2, <1>3, <1>4, <2>1, <2>2 DEF MinPlaced, OtherPlaced
<1>5. CASE NewMinute
  <2>1. ASSUME NEW i \in SlotsSec, NEW u \in AdjustedSec[i]
        PROVE  /\ u \in Units
               /\ Minute(tv[u]) = Minute(last) /\ Second(tv[u]) % SecPerMin = i
               /\ Second(tv[u]) >= Second(last)
    <3>1. sec[i] = {}
      BY <1>5 DEF Exact, Passing, SecPassed
    <3>2. u \in minute[1] /\ Second(tv[u]) % SecPerMin = i /\ u \in Units
      BY <1>1, <1>5, <3>1 DEF AdjustedSec, Scatter, TypeOK
    <3>3. Minute(tv[u]) - Minute(Adjusted) = 1
      BY <1>1, <1>3, <3>2 DEF MinPlaced
    <3>4. /\ Second(tv[u]) = Minute(tv[u]) * SecPerMin + i /\ Second(tv[u]) \in Nat
          /\ Minute(tv[u]) \in Nat /\ i \in Nat
      BY <1>1, <3>2, TimesOfUnits, SlotNumbers
    <3>5. Minute(tv[u]) = Minute(last)
      BY <1>2, <1>5, <3>3, <3>4
    <3>6. Second(last) = Minute(last) * SecPerMin
      <4>1. Second(last) % SecPerMin = 0 /\ Minute(last) * SecPerMin \in Nat
        BY <1>2, <1>5, SlotNumbers DEF NewMinute
      <4> QED
        BY <1>2, <4>1
    <3>7. Second(tv[u]) = Second(last) + i
      BY <3>4, <3>5, <3>6
    <3>8. Second(tv[u]) >= Second(last)
      BY <1>2, <3>4, <3>7
    <3> QED
      BY <3>2, <3>5, <3>8
  <2>2. ASSUME NEW i \in SlotsMin, NEW u \in AdjustedMin[i]
        PROVE  Minute(tv[u]) - Minute(last) = i
    <3>1. CASE i < MinPerHour - 1
      <4>1. i + 1 \in SlotsMin /\ u \in minute[i + 1]
        BY <1>5, <2>2, <3>1 DEF AdjustedMin, SlotsMin, TimerAssumption
      <4>2. u \in Units
        BY <1>1, <4>1 DEF TypeOK
      <4>3. Minute(tv[u]) - Minute(Adjusted) = i + 1
        BY <1>3, <4>1 DEF MinPlaced
      <4>4. Minute(tv[u]) \in Nat
        BY <1>1, <4>2, TimesOfUnits
      <4> QED
        BY <1>1, <1>2, <1>5, <4>3, <4>4
    <3>2. CASE ~(i < MinPerHour - 1)
      <4>1. i = MinPerHour - 1
        BY <3>2 DEF SlotsMin, TimerAssumption
      <4>2. u \in other /\ Near(u) /\ u \in Units
        BY <1>1, <1>5, <2>2, <3>2 DEF AdjustedMin, TypeOK
      <4>3. Minute(tv[u]) - Minute(Adjusted) >= MinPerHour
        BY <1>3, <4>2 DEF OtherPlaced
      <4>4. Minute(tv[u]) \in Nat
        BY <1>1, <4>2, TimesOfUnits
      <4>5. Minute(last) + MinPerHour - 1 >= Minute(tv[u])
        BY <4>2 DEF Near
      <4> QED
        BY <1>1, <1>2, <1>5, <4>1, <4>3, <4>4, <4>5
    <3> QED
      BY <3>1, <3>2
  <2>3. ASSUME NEW u \in AdjustedOther
        PROVE  Minute(tv[u]) - Minute(last) >= MinPerHour
    <3>1. u \in other /\ ~Near(u) /\ u \in Units
      BY <1>1, <1>5 DEF AdjustedOther, TypeOK
    <3>2. Minute(tv[u]) \in Nat
      BY <1>1, <3>1, TimesOfUnits
    <3>3. ~(Minute(last) + MinPerHour - 1 >= Minute(tv[u]))
      BY <3>1 DEF Near
    <3> QED
      BY <1>1, <1>2, <3>2, <3>3
  <2> QED
    BY <2>1, <2>2, <2>3
<1> QED
  BY <1>4, <1>5

LEMMA AdjustSecPlaced ==
    ASSUME Exact, TypeOK', AdjustSec
    PROVE  Placed'
<1>1. /\ TypeOK /\ pc = "second" /\ pc' = "walk" /\ tv' = tv
      /\ last \in Nat /\ last' \in Nat /\ last % MsPerSec = 0
      /\ \A k \in SlotsMs : ms[k] = {}
      /\ Adjusted' = last'
  BY DEF AdjustSec, Exact, Passing, TInv, TypeOK, AtSecond, MsPassed, Adjusted
<1>2. /\ Off \in SlotsSec /\ minute' = AdjustedMin /\ other' = AdjustedOther
      /\ \/ last' = last /\ EnterSecond(Off)
         \/ last' = now /\ StayInSecond(Off)
      /\ Second(last') = Second(last) /\ Minute(last') = Minute(last)
  BY AdjustSecHere DEF Exact, Minute
<1>3. /\ \A i \in SlotsSec : \A u \in AdjustedSec[i] :
            /\ u \in Units
            /\ Minute(tv[u]) = Minute(last) /\ Second(tv[u]) % SecPerMin = i
            /\ Second(tv[u]) >= Second(last)
      /\ \A i \in SlotsMin : \A u \in AdjustedMin[i] :
            Minute(tv[u]) - Minute(last) = i
      /\ \A u \in AdjustedOther : Minute(tv[u]) - Minute(last) >= MinPerHour
  BY <1>1, AdjustedPlaced
<1>4. AdjustedSec \in [SlotsSec -> SUBSET Units]
  BY <1>1, AdjustedType
<1>5. /\ Second(last) \in Nat /\ Minute(last) \in Nat
      /\ last = Second(last) * MsPerSec
      /\ Second(last) = Minute(last) * SecPerMin + Off
  <2>1. /\ Second(last) \in Nat /\ Minute(last) \in Nat
        /\ last = Second(last) * MsPerSec + (last % MsPerSec)
        /\ Second(last) = Minute(last) * SecPerMin + (Second(last) % SecPerMin)
    BY <1>1, TimeParts
  <2>2. Second(last) * MsPerSec \in Nat
    BY <2>1, SlotNumbers
  <2> QED
    BY <1>1, <2>1, <2>2 DEF Off
<1>6. \A j \in SlotsSec : sec'[j] = IF j = Off THEN {} ELSE AdjustedSec[j]
  BY <1>2, <1>4 DEF EnterSecond, StayInSecond
<1>7. SecPlaced'
  <2> SUFFICES ASSUME NEW i \in SlotsSec, NEW u \in sec'[i]
               PROVE  /\ Minute(tv[u]) = Minute(last) /\ Second(tv[u]) % SecPerMin = i
                      /\ Second(tv[u]) > Second(last)
    BY <1>1, <1>2 DEF SecPlaced, Second, Minute
  <2>1. i # Off /\ u \in AdjustedSec[i]
    BY <1>6
  <2>2. /\ Minute(tv[u]) = Minute(last) /\ Second(tv[u]) % SecPerMin = i
        /\ Second(tv[u]) >= Second(last) /\ u \in Units
    BY <1>3, <2>1
  <2>3. Second(tv[u]) \in Nat
    BY <1>1, <2>2, TimesOfUnits
  <2>4. Second(tv[u]) # Second(last)
    BY <2>1, <2>2 DEF Off
  <2> QED
    BY <1>5, <2>2, <2>3, <2>4
<1>8. MsPlaced'
  <2> SUFFICES ASSUME NEW i \in SlotsMs, NEW u \in ms'[i]
               PROVE  /\ Second(tv[u]) = Second(last) /\ tv[u] % MsPerSec = i
                      /\ tv[u] >= last'
    BY <1>1, <1>2 DEF MsPlaced, Second
  <2>1. EnterSecond(Off) /\ last' = last
    BY <1>1, <1>2 DEF StayInSecond
  <2>2. u \in AdjustedSec[Off] /\ tv[u] % MsPerSec = i
    BY <1>1, <2>1 DEF EnterSecond, Scatter, TypeOK
  <2>3. u \in Units /\ Minute(tv[u]) = Minute(last) /\ Second(tv[u]) % SecPerMin = Off
    BY <1>2, <1>3, <2>2
  <2>4. /\ tv[u] = Second(tv[u]) * MsPerSec + i /\ tv[u] \in Nat /\ i \in Nat
        /\ Second(tv[u]) = Minute(tv[u]) * SecPerMin + Off
    BY <1>1, <2>2, <2>3, TimesOfUnits, SlotNumbers
  <2>5. Second(tv[u]) = Second(last)
    BY <1>5, <2>3, <2>4
  <2>6. tv[u] = last + i
    BY <1>5, <2>4, <2>5
  <2> QED
    BY <1>1, <2>1, <2>2, <2>4, <2>5, <2>6
<1>9. MinPlaced' /\ OtherPlaced'
  BY <1>1, <1>2, <1>3 DEF MinPlaced, OtherPlaced, Second, Minute
<1> QED
  BY <1>7, <1>8, <1>9, PlacedPartsNext

LEMMA NextExact ==
    ASSUME MaxGap <= MsPerSec, Exact, Disjoint, [Next]_vars
    PROVE  Exact'
<1>1. /\ Passing' /\ TInv' /\ TypeOK' /\ TypeOK /\ Recent' /\ Placed
  BY NextPassing, RecentNext DEF Exact, Passing, TInv
<1>2. ASSUME NEW u \in Units, NEW t \in Times, Add(u, t) PROVE Placed'
  BY <1>1, <1>2, AddPlaced
<1>3. ASSUME NEW u \in Units, Del(u) PROVE Placed'
  <2>1. /\ last' = last /\ pc # "second" /\ pc' # "second"
        /\ \A i \in SlotsMs : ms'[i] \subseteq ms[i]
        /\ \A i \in SlotsSec : sec'[i] \subseteq sec[i]
        /\ \A i \in SlotsMin : minute'[i] \subseteq minute[i]
        /\ other' \subseteq other
    BY <1>3 DEF Del, AtUser
  <2>2. \A v \in Units : Linked(v)' => v # u
    BY <1>3, LinkedWhereNext DEF Del
  <2>3. \A v \in Units : Linked(v)' => tv'[v] = tv[v]
    BY <1>1, <1>3, <2>2 DEF Del, TypeOK
  <2> QED
    BY <1>1, <2>1, <2>3, PlacedKept
<1>4. CASE (\E t \in Times : Timeout(t)) \/ NextCall \/ CaughtUp
  <2>1. /\ last' = last /\ pc # "second" /\ pc' # "second" /\ tv' = tv
        /\ ms' = ms /\ sec' = sec /\ minute' = minute /\ other' = other
    BY <1>4 DEF Timeout, NextCall, CaughtUp, lists
  <2> QED
    BY <1>1, <2>1, PlacedKept DEF Exact
<1>5. CASE Pop
  <2>1. PICK u \in Units : /\ Pending' = Pending \ {u}
                           /\ tv' = [tv EXCEPT ![u] = 0]
    BY <1>1, <1>5, PopPending
  <2>2. \A v \in Units : Linked(v)' => v # u
    BY <2>1 DEF Pending
  <2>3. \A v \in Units : Linked(v)' => tv'[v] = tv[v]
    BY <1>1, <2>1, <2>2 DEF TypeOK
  <2>4. /\ last' = last /\ pc # "second" /\ pc' # "second"
        /\ sec' = sec /\ minute' = minute /\ other' = other
        /\ \A i \in SlotsMs : ms'[i] \subseteq ms[i]
    BY <1>1, <1>5 DEF Pop, TypeOK
  <2> QED
    BY <1>1, <2>3, <2>4, PlacedKept DEF Exact
<1>6. CASE UNCHANGED vars
  <2>1. /\ last' = last /\ pc' = pc /\ tv' = tv
        /\ ms' = ms /\ sec' = sec /\ minute' = minute /\ other' = other
    BY <1>6 DEF vars, lists
  <2> QED
    BY <1>1, <2>1, PlacedKept DEF Exact
<1>7. CASE Tick \/ AdjustSec
  BY <1>1, <1>7, TickPlaced, AdjustSecPlaced DEF Exact
<1>8. CASE \E u \in Units : Del(u) \/ \E t \in Times : Add(u, t)
  BY <1>1, <1>2, <1>3, <1>8 DEF Exact
<1> QED
  BY <1>4, <1>5, <1>6, <1>7, <1>8 DEF Next, TimerNext

LEMMA ExactHolds ==
    ASSUME MaxGap <= MsPerSec
    PROVE  Spec => [](Exact /\ Disjoint)
<1>1. Init => Exact /\ Disjoint
  <2> SUFFICES ASSUME Init PROVE Exact /\ Disjoint
    OBVIOUS
  <2>1. Passing
    BY InitTInv, SlotTypes DEF Init, Passing, MsPassed, SecPassed, TInv
  <2>2. Recent
    BY <2>1 DEF Init, Recent, Passing, TInv, TypeOK
  <2>3. Placed
    BY DEF Init, Placed
  <2>4. Disjoint
    BY DEF Init, Disjoint, Apart
  <2> QED
    BY <2>1, <2>2, <2>3, <2>4 DEF Exact
<1>2. Exact /\ Disjoint /\ [Next]_vars => Exact' /\ Disjoint'
  BY NextExact, NextApart DEF Exact, Passing, TInv
<1> QED
  BY <1>1, <1>2, PTL DEF Spec

(* With polls at most a second apart the list of a unit always agrees with *)
(* its time: timer_next comes across it at its millisecond, for any sizes  *)
(* of the wheel.                                                           *)
THEOREM UnitsPlaced ==
    ASSUME MaxGap <= MsPerSec
    PROVE  Spec => []Placed
<1>1. Exact => Placed
  BY DEF Exact
<1> QED
  BY <1>1, ExactHolds, PTL

-----------------------------------------------------------------------------
(* Inside timer_next nothing is overdue: all that is left is of last or    *)
(* later.                                                                  *)
LEMMA NoneBefore ==
    ASSUME Exact, pc = "walk", NEW u \in Units, Linked(u)
    PROVE  tv[u] >= last
<1>1. TypeOK /\ last \in Nat /\ Adjusted = last
  BY DEF Exact, Passing, TInv, TypeOK, Adjusted
<1>2. PICK t \in Nat : t = tv[u]
  BY <1>1 DEF TypeOK
<1>3. /\ Second(t) \in Nat /\ Minute(t) \in Nat
      /\ Second(last) \in Nat /\ Minute(last) \in Nat
      /\ MinPerHour \in Nat \ {0} /\ \A i \in SlotsMin : i \in Nat \ {0}
  BY <1>1, TimeParts DEF SlotsMin, TimerAssumption
<1>4. MsPlaced /\ SecPlaced /\ MinPlaced /\ OtherPlaced
  BY PlacedParts DEF Exact
<1>5. CASE \E i \in SlotsMs : u \in ms[i]
  BY <1>4, <1>5 DEF MsPlaced
<1>6. CASE Second(t) > Second(last) \/ Minute(t) > Minute(last)
  <2>1. ~(t <= last)
    BY <1>1, <1>3, <1>6, TimeMono
  <2> QED
    BY <1>1, <1>2, <2>1
<1>7. CASE \E i \in SlotsSec : u \in sec[i]
  <2>1. Second(t) > Second(last)
    BY <1>1, <1>2, <1>4, <1>7 DEF SecPlaced
  <2> QED
    BY <1>6, <2>1
<1>8. CASE \E i \in SlotsMin : u \in minute[i]
  <2>1. PICK i \in SlotsMin : u \in minute[i]
    BY <1>8
  <2>2. Minute(t) - Minute(last) = i
    BY <1>1, <1>2, <1>4, <2>1 DEF MinPlaced
  <2>3. Minute(t) > Minute(last)
    BY <1>3, <2>2
  <2> QED
    BY <1>6, <2>3
<1>9. CASE u \in other
  <2>1. Minute(t) - Minute(last) >= MinPerHour
    BY <1>1, <1>2, <1>4, <1>9 DEF OtherPlaced
  <2>2. Minute(t) > Minute(last)
    BY <1>3, <2>1
  <2> QED
    BY <1>6, <2>2
<1> QED
  BY <1>5, <1>7, <1>8, <1>9, LinkedWhere

Phase == IF AtUser THEN pc ELSE "busy"

LEMMA ApiInit == Init => Api!Init
<1> SUFFICES ASSUME Init PROVE Api!Init
  OBVIOUS
<1>1. Pending = {}
  BY LinkedWhere DEF Init, Pending
<1>2. now \in Times /\ pc = "idle" /\ tv = [u \in Units |-> 0]
  BY DEF Init, Times, TimerAssumption
<1> QED
  BY <1>1, <1>2 DEF Api!Init, Pending, AtUser

LEMMA ApiStep ==
    ASSUME Exact, Disjoint, TypeOK', [Next]_vars
    PROVE  [Api!Next]_(Api!vars)
<1>1. /\ TypeOK /\ last \in Nat /\ now \in Nat /\ tv \in [Units -> Nat]
      /\ pc \in {"idle", "handed", "walk", "second"}
      /\ pc' \in {"idle", "handed", "walk", "second"}
  BY DEF Exact, Passing, TInv, TypeOK
<1>2. ASSUME NEW u \in Units, NEW t \in Times, Add(u, t) PROVE Api!Add(u, t)
  <2>1. u \notin Pending /\ Pending' = Pending \cup {u}
    BY <1>1, <1>2, AddPending
  <2>2. Phase # "busy" /\ Phase' = Phase
    BY <1>2 DEF Add, Phase, AtUser
  <2>3. tv' = [tv EXCEPT ![u] = t] /\ now' = now
    BY <1>2 DEF Add
  <2> QED
    BY <2>1, <2>2, <2>3 DEF Api!Add, Pending, Phase
<1>3. ASSUME NEW u \in Units, Del(u) PROVE Api!Del(u)
  <2>1. Pending' = Pending \ {u}
    BY <1>3, DelPending
  <2>2. Phase # "busy" /\ Phase' = Phase
    BY <1>3 DEF Del, Phase, AtUser
  <2>3. tv' = [tv EXCEPT ![u] = 0] /\ now' = now
    BY <1>3 DEF Del
  <2> QED
    BY <2>1, <2>2, <2>3 DEF Api!Del, Api!Remove, Pending, Phase
<1>4. ASSUME NEW t \in Times, Timeout(t) PROVE Api!Timeout(t)
  <2>1. Pending' = Pending
    BY <1>4, OthersPending
  <2>2. Phase = "idle" /\ Phase' = "busy" /\ now' = t /\ tv' = tv
    BY <1>4 DEF Timeout, Phase, AtUser
  <2> QED
    BY <2>1, <2>2 DEF Api!Timeout, Pending, Phase
<1>5. ASSUME NextCall PROVE Api!Again
  <2>1. Pending' = Pending
    BY <1>5, OthersPending
  <2>2. Phase = "handed" /\ Phase' = "busy" /\ now' = now /\ tv' = tv
    BY <1>5 DEF NextCall, Phase, AtUser
  <2> QED
    BY <2>1, <2>2 DEF Api!Again, Pending, Phase
<1>6. ASSUME CaughtUp PROVE Api!Finish
  <2>1. Pending' = Pending
    BY <1>6, OthersPending
  <2>2. /\ Phase = "busy" /\ Phase' = "idle" /\ now' = now /\ tv' = tv
        /\ pc = "walk" /\ ~(last < now)
    BY <1>6 DEF CaughtUp, Passed, Phase, AtUser
  <2>3. ASSUME NEW u \in Pending PROVE tv[u] >= now
    <3>1. u \in Units /\ Linked(u)
      BY DEF Pending
    <3>2. tv[u] >= last /\ tv[u] \in Nat
      BY <1>1, <2>2, <3>1, NoneBefore
    <3> QED
      BY <1>1, <2>2, <3>2
  <2> QED
    BY <2>1, <2>2, <2>3 DEF Api!Finish, Pending, Phase
<1>7. ASSUME Pop PROVE \E u \in Units : Api!HandOut(u)
  <2>1. PICK u \in Units : /\ u \in Pending /\ u \in ms[Slot]
                           /\ Pending' = Pending \ {u}
                           /\ tv' = [tv EXCEPT ![u] = 0]
    BY <1>1, <1>7, PopPending
  <2>2. Phase = "busy" /\ Phase' = "handed" /\ now' = now /\ pc = "walk" /\ last < now
    BY <1>7 DEF Pop, Passed, Phase, AtUser
  <2>3. tv[u] = last
    <3>1. Second(tv[u]) = Second(last) /\ tv[u] % MsPerSec = last % MsPerSec
      <4>1. Slot \in SlotsMs /\ Adjusted = last
        BY <1>1, <2>2, SlotTypes DEF Adjusted
      <4> QED
        BY <2>1, <4>1, PlacedParts DEF Exact, MsPlaced, Slot
    <3>2. tv[u] = Second(tv[u]) * MsPerSec + (tv[u] % MsPerSec)
      BY <1>1, TimesOfUnits
    <3>3. last = Second(last) * MsPerSec + (last % MsPerSec)
      BY <1>1, TimeParts
    <3> QED
      BY <3>1, <3>2, <3>3
  <2>4. ASSUME NEW v \in Pending PROVE tv[u] <= tv[v]
    <3>1. v \in Units /\ Linked(v)
      BY DEF Pending
    <3>2. tv[v] >= last /\ tv[v] \in Nat
      BY <1>1, <2>2, <3>1, NoneBefore
    <3> QED
      BY <1>1, <2>3, <3>2
  <2>5. Api!HandOut(u)
    BY <2>1, <2>2, <2>3, <2>4 DEF Api!HandOut, Api!Remove, Pending, Phase
  <2> QED
    BY <2>5
<1>8. ASSUME Tick \/ AdjustSec \/ UNCHANGED vars PROVE UNCHANGED Api!vars
  <2>1. Pending' = Pending
    BY <1>1, <1>8, AdjustSecPending, OthersPending
  <2>2. Phase' = Phase /\ now' = now /\ tv' = tv
    BY <1>8 DEF Tick, AdjustSec, vars, Phase, AtUser
  <2> QED
    BY <2>1, <2>2 DEF Api!vars, Pending, Phase
<1> QED
  BY <1>2, <1>3, <1>4, <1>5, <1>6, <1>7, <1>8 DEF Next, TimerNext, Api!Next

(* With polls at most a second apart the wheel is the set of units that    *)
(* exnet.c takes it for: timer_next returns them earliest first, none too  *)
(* early and none too late, for any sizes of the wheel.                    *)
THEOREM WheelIsSet ==
    ASSUME MaxGap <= MsPerSec
    PROVE  Spec => ImplementsApi
<1>1. Init => Api!Init
  BY ApiInit
<1>2. Exact /\ Disjoint /\ TypeOK' /\ [Next]_vars => [Api!Next]_(Api!vars)
  BY ApiStep
<1>3. Spec => [](Exact /\ Disjoint) /\ []TypeOK
  BY ExactHolds, TypeCorrect, PTL
<1> QED
  BY <1>1, <1>2, <1>3, PTL DEF Spec, ImplementsApi, Api!Spec
=============================================================================
