-------------------------- MODULE EpexRequestProofs --------------------------
(***************************************************************************)
(* Theorems about the requests of Epex, their timer units, the stubs they  *)
(* belong to and their results, for any sockets, stubs, requests and sizes.*)
(***************************************************************************)
EXTENDS EpexProofs

-----------------------------------------------------------------------------
(* The inductive invariant.                                                *)

(* Every request is in one place: one that is not answered in a queue of   *)
(* its kind, an answered one in the queue of answers.                      *)
Owned ==
    /\ \A st \in Stubs :
        /\ NoDuplicates(rdq[st]) /\ NoDuplicates(wrq[st]) /\ NoDuplicates(doneq[st])
        /\ \A t \in Tasks :
            /\ t \in Range(rdq[st])
                <=> task[t].stub = st /\ task[t].status = "" /\ task[t].op = "READ"
            /\ t \in Range(wrq[st])
                <=> task[t].stub = st /\ task[t].status = "" /\ task[t].op # "READ"
            /\ t \in Range(doneq[st]) <=> task[t].stub = st /\ task[t].status # ""
    /\ \A t \in Tasks : InUse(t) => Live(task[t].stub)

(* The timer, request by request; a unit that was found expired is in it   *)
(* until epex_poll has dealt with it.                                      *)
TaskUnits ==
    /\ due \subseteq armed
    /\ due # {} => pc = "timer"
    /\ \A t \in Tasks : t \in armed <=> Pending(t) /\ task[t].timed

(* A broken stub whose requests this epex_poll has still to answer. *)
Unsettled(st) ==
    /\ "ERROR" \in stub[st].status
    /\ pc \in {"events", "read", "write"} \/ (pc = "error" /\ st \in Range(todo))

(* A stub's timer unit, its status once it is dying, and whether it is     *)
(* where epex_poll looks for results.                                      *)
StubOK(st) ==
    /\ st \in armed => /\ Live(st) /\ stub[st].timed
                       /\ Dying(st) => "ERROR" \in stub[st].status
    /\ Live(st) /\ ~Dying(st) /\ stub[st].timed /\ ~ClockStepsBack => st \in armed
    /\ Dying(st) => \E f \in Fatal : stub[st].status = {f}
    /\ Dying(st) => \/ Unsettled(st)
                    \/ rdq[st] = <<>> /\ wrq[st] = <<>> /\ st \in Range(avail)
    /\ doneq[st] # <<>> => st \in Range(avail)
    /\ st \in Range(avail) => Live(st)

(* The stubs a loop of epex_poll still visits are live and have the flag   *)
(* of the list the loop runs over: only the stub that is visited loses it. *)
LoopFlag == {f \in Flags : \/ f = "READABLE" /\ pc = "read"
                           \/ f = "WRITEABLE" /\ pc = "write"
                           \/ f = "ERROR" /\ pc = "error"}
Loops ==
    /\ NoDuplicates(todo)
    /\ pc \in {"app", "events", "timer"} => todo = <<>>
    /\ \A st \in Range(todo) : Live(st) /\ LoopFlag \subseteq stub[st].status

KInv ==
    /\ IInv /\ Owned /\ TaskUnits /\ Loops
    /\ \A st \in Stubs : StubOK(st)

-----------------------------------------------------------------------------
(* What a step may do to the requests.                                     *)

OtherQueues(st) == \A x \in Stubs \ {st} :
    rdq'[x] = rdq[x] /\ wrq'[x] = wrq[x] /\ doneq'[x] = doneq[x]
SameUnit(t) == t \in armed' <=> t \in armed
OtherTasks(T) == \A t \in Tasks \ T : task'[t] = task[t] /\ SameUnit(t)
SameRequest(t) ==
    /\ task'[t].stub = task[t].stub /\ task'[t].op = task[t].op
    /\ task'[t].size = task[t].size /\ task'[t].all = task[t].all
    /\ task'[t].timed = task[t].timed

Resting == UNCHANGED <<rdq, wrq, doneq, task>> /\ OtherTasks({})

(* Bytes move, and the request waits for more. *)
Progressing(st, t) ==
    /\ task[t].stub = st /\ task[t].status = ""
    /\ UNCHANGED <<rdq, wrq, doneq>>
    /\ OtherTasks({t}) /\ SameRequest(t) /\ SameUnit(t)
    /\ task'[t].status = task[t].status

(* A new request. *)
Requesting(st, t) ==
    /\ task[t].stub = NULL /\ ~Dying(st)
    /\ OtherQueues(st) /\ OtherTasks({t}) /\ doneq' = doneq
    /\ task'[t].stub = st /\ task'[t].status = ""
    /\ t \in armed' <=> task'[t].timed
    /\ \/ /\ task'[t].op = "READ"
          /\ rdq'[st] = Append(rdq[st], t) /\ wrq' = wrq
       \/ /\ task'[t].op # "READ"
          /\ wrq'[st] = Append(wrq[st], t) /\ rdq' = rdq

(* A result nobody asked for. *)
Announcing(st, t) ==
    /\ task[t].stub = NULL /\ ~Dying(st)
    /\ OtherQueues(st) /\ OtherTasks({t}) /\ UNCHANGED <<rdq, wrq>>
    /\ task'[t].stub = st /\ task'[t].status # ""
    /\ SameUnit(t)
    /\ doneq'[st] = Append(doneq[st], t)

(* Requests that wait get their results. *)
Answering(st, T, result) ==
    /\ \A t \in T : task[t].stub = st /\ task[t].status = ""
    /\ OtherQueues(st) /\ OtherTasks(T)
    /\ NoDuplicates(rdq'[st]) /\ NoDuplicates(wrq'[st]) /\ NoDuplicates(doneq'[st])
    /\ Range(rdq'[st]) = Range(rdq[st]) \ T
    /\ Range(wrq'[st]) = Range(wrq[st]) \ T
    /\ Range(doneq'[st]) = Range(doneq[st]) \cup T
    /\ \A t \in T : SameRequest(t) /\ task'[t].status = result /\ t \notin armed'

(* Results are handed out. *)
Delivering(st, T) ==
    /\ \A t \in T : task[t].stub = st /\ task[t].status # ""
    /\ OtherQueues(st) /\ OtherTasks(T) /\ UNCHANGED <<rdq, wrq>>
    /\ NoDuplicates(doneq'[st]) /\ Range(doneq'[st]) = Range(doneq[st]) \ T
    /\ \A t \in T : task'[t] = FreeTask /\ SameUnit(t)

EffectAt(st) ==
    \/ Resting
    \/ \E t \in Tasks : Progressing(st, t) \/ Requesting(st, t) \/ Announcing(st, t)
    \/ \E T \in SUBSET Tasks, result \in Results : Answering(st, T, result)
    \/ \E T \in SUBSET Tasks : Delivering(st, T)

LEMMA QueueRanges ==
    ASSUME TypeInv, NEW st \in Stubs
    PROVE  /\ rdq[st] \in Seq(Tasks) /\ wrq[st] \in Seq(Tasks) /\ doneq[st] \in Seq(Tasks)
           /\ Range(rdq[st]) \subseteq Tasks /\ Range(wrq[st]) \subseteq Tasks
           /\ Range(doneq[st]) \subseteq Tasks
<1>1. rdq[st] \in Seq(Tasks) /\ wrq[st] \in Seq(Tasks) /\ doneq[st] \in Seq(Tasks)
  BY DEF TypeInv, TypeOK, TaskTypeOK
<1> QED
  BY <1>1, RangeOfSeq

LEMMA OwnedStep ==
    ASSUME TypeInv, Owned, NEW st \in Stubs, EffectAt(st),
           \A t \in Tasks : InUse(t)' => Live(task[t].stub)'
    PROVE  Owned'
<1> DEFINE
      Queued(x) == NoDuplicates(rdq[x]) /\ NoDuplicates(wrq[x]) /\ NoDuplicates(doneq[x])
      Placed(x, t) ==
        /\ t \in Range(rdq[x])
            <=> task[t].stub = x /\ task[t].status = "" /\ task[t].op = "READ"
        /\ t \in Range(wrq[x])
            <=> task[t].stub = x /\ task[t].status = "" /\ task[t].op # "READ"
        /\ t \in Range(doneq[x]) <=> task[t].stub = x /\ task[t].status # ""
<1>1. \A x \in Stubs : Queued(x) /\ \A t \in Tasks : Placed(x, t)
  BY DEF Owned
<1>2. \A x \in Stubs : x # NULL
  BY KernelAssumption
<1>3. SUFFICES \A x \in Stubs : Queued(x)' /\ \A t \in Tasks : Placed(x, t)'
  BY DEF Owned
<1> HIDE DEF Queued, Placed
<1>4. ASSUME OtherQueues(st) PROVE \A x \in Stubs \ {st} : Queued(x)'
  BY <1>1, <1>4 DEF OtherQueues, Queued
<1>5. ASSUME NEW T \in SUBSET Tasks, OtherQueues(st), OtherTasks(T),
             \A t \in T : task[t].stub \in {st, NULL} /\ task'[t].stub \in {st, NULL}
      PROVE  \A x \in Stubs \ {st}, t \in Tasks : Placed(x, t)'
  <2> TAKE x \in Stubs \ {st}, t \in Tasks
  <2>1. rdq'[x] = rdq[x] /\ wrq'[x] = wrq[x] /\ doneq'[x] = doneq[x] /\ x # NULL /\ x # st
    BY <1>2, <1>5 DEF OtherQueues
  <2>2. Placed(x, t)
    BY <1>1
  <2>3. CASE t \in T
    BY <1>5, <2>1, <2>2, <2>3 DEF Placed
  <2>4. CASE t \notin T
    BY <1>5, <2>1, <2>2, <2>4 DEF Placed, OtherTasks
  <2> QED
    BY <2>3, <2>4
<1>6. CASE Resting
  BY <1>1, <1>6 DEF Resting, Queued, Placed
<1>7. ASSUME NEW t \in Tasks, Progressing(st, t)
      PROVE \A x \in Stubs : Queued(x)' /\ \A u \in Tasks : Placed(x, u)'
  <2>1. rdq' = rdq /\ wrq' = wrq /\ doneq' = doneq
    BY <1>7 DEF Progressing
  <2>2. \A u \in Tasks : /\ task'[u].stub = task[u].stub /\ task'[u].op = task[u].op
                         /\ task'[u].status = task[u].status
    BY <1>7 DEF Progressing, OtherTasks, SameRequest
  <2>3. \A x \in Stubs : Queued(x)'
    BY <1>1, <2>1 DEF Queued
  <2>4. ASSUME NEW x \in Stubs, NEW u \in Tasks PROVE Placed(x, u)'
    <3>1. Placed(x, u) /\ task'[u].stub = task[u].stub /\ task'[u].op = task[u].op
          /\ task'[u].status = task[u].status
      BY <1>1, <2>2
    <3> QED
      BY <2>1, <3>1 DEF Placed
  <2> QED
    BY <2>3, <2>4
<1>8. ASSUME NEW t \in Tasks, Requesting(st, t)
      PROVE \A x \in Stubs : Queued(x)' /\ \A u \in Tasks : Placed(x, u)'
  <2>1. OtherQueues(st) /\ OtherTasks({t}) /\ task[t].stub = NULL /\ task'[t].stub = st
    BY <1>8 DEF Requesting
  <2>2. \A x \in Stubs \ {st} : Queued(x)' /\ \A u \in Tasks : Placed(x, u)'
    BY <1>4, <1>5, <2>1
  <2>3. st # NULL /\ \A u \in Tasks : Placed(st, u)
    BY <1>1, <1>2
  <2>4. \A u \in Tasks \ {t} : task'[u] = task[u]
    BY <2>1 DEF OtherTasks
  <2>5. t \notin Range(rdq[st]) /\ t \notin Range(wrq[st]) /\ t \notin Range(doneq[st])
    BY <2>1, <2>3 DEF Placed
  <2>6. CASE task'[t].op = "READ"
    <3>1. /\ Range(rdq'[st]) = Range(rdq[st]) \cup {t} /\ NoDuplicates(rdq'[st])
          /\ wrq' = wrq /\ doneq' = doneq /\ task'[t].status = ""
      <4>1. /\ rdq'[st] = Append(rdq[st], t) /\ wrq' = wrq /\ doneq' = doneq
            /\ task'[t].status = ""
        BY <1>8, <2>6 DEF Requesting
      <4>2. /\ Range(Append(rdq[st], t)) = Range(rdq[st]) \cup {t}
            /\ NoDuplicates(Append(rdq[st], t))
        <5>1. rdq[st] \in Seq(Tasks) /\ NoDuplicates(rdq[st])
          BY <1>1, QueueRanges DEF Queued
        <5> QED
          BY <2>5, <5>1, AppendRange
      <4> QED
        BY <4>1, <4>2
    <3>2. Queued(st)'
      BY <1>1, <3>1 DEF Queued
    <3>3. \A u \in Tasks : Placed(st, u)'
      BY <2>1, <2>3, <2>4, <2>5, <2>6, <3>1 DEF Placed
    <3> QED
      BY <2>2, <3>2, <3>3
  <2>7. CASE task'[t].op # "READ"
    <3>1. /\ Range(wrq'[st]) = Range(wrq[st]) \cup {t} /\ NoDuplicates(wrq'[st])
          /\ rdq' = rdq /\ doneq' = doneq /\ task'[t].status = ""
      <4>1. /\ wrq'[st] = Append(wrq[st], t) /\ rdq' = rdq /\ doneq' = doneq
            /\ task'[t].status = ""
        BY <1>8, <2>7 DEF Requesting
      <4>2. /\ Range(Append(wrq[st], t)) = Range(wrq[st]) \cup {t}
            /\ NoDuplicates(Append(wrq[st], t))
        <5>1. wrq[st] \in Seq(Tasks) /\ NoDuplicates(wrq[st])
          BY <1>1, QueueRanges DEF Queued
        <5> QED
          BY <2>5, <5>1, AppendRange
      <4> QED
        BY <4>1, <4>2
    <3>2. Queued(st)'
      BY <1>1, <3>1 DEF Queued
    <3>3. \A u \in Tasks : Placed(st, u)'
      <4> TAKE u \in Tasks
      <4>1. CASE u = t
        BY <2>1, <2>3, <2>5, <2>7, <3>1, <4>1 DEF Placed
      <4>2. CASE u # t
        BY <2>3, <2>4, <3>1, <4>2 DEF Placed
      <4> QED
        BY <4>1, <4>2
    <3> QED
      BY <2>2, <3>2, <3>3
  <2> QED
    BY <2>6, <2>7
<1>9. ASSUME NEW t \in Tasks, Announcing(st, t)
      PROVE \A x \in Stubs : Queued(x)' /\ \A u \in Tasks : Placed(x, u)'
  <2>1. OtherQueues(st) /\ OtherTasks({t}) /\ task[t].stub = NULL /\ task'[t].stub = st
    BY <1>9 DEF Announcing
  <2>2. \A x \in Stubs \ {st} : Queued(x)' /\ \A u \in Tasks : Placed(x, u)'
    BY <1>4, <1>5, <2>1
  <2>3. st # NULL /\ \A u \in Tasks : Placed(st, u)
    BY <1>1, <1>2
  <2>4. \A u \in Tasks \ {t} : task'[u] = task[u]
    BY <2>1 DEF OtherTasks
  <2>5. t \notin Range(rdq[st]) /\ t \notin Range(wrq[st]) /\ t \notin Range(doneq[st])
    BY <2>1, <2>3 DEF Placed
  <2>6. /\ Range(doneq'[st]) = Range(doneq[st]) \cup {t} /\ NoDuplicates(doneq'[st])
        /\ wrq' = wrq /\ rdq' = rdq /\ task'[t].status # ""
    <3>1. /\ doneq'[st] = Append(doneq[st], t) /\ rdq' = rdq /\ wrq' = wrq
          /\ task'[t].status # ""
      BY <1>9 DEF Announcing
    <3>2. /\ Range(Append(doneq[st], t)) = Range(doneq[st]) \cup {t}
          /\ NoDuplicates(Append(doneq[st], t))
      <4>1. doneq[st] \in Seq(Tasks) /\ NoDuplicates(doneq[st])
        BY <1>1, QueueRanges DEF Queued
      <4> QED
        BY <2>5, <4>1, AppendRange
    <3> QED
      BY <3>1, <3>2
  <2>7. Queued(st)'
    BY <1>1, <2>6 DEF Queued
  <2>8. \A u \in Tasks : Placed(st, u)'
    BY <2>1, <2>3, <2>4, <2>5, <2>6 DEF Placed
  <2> QED
    BY <2>2, <2>7, <2>8
<1>10. ASSUME NEW T \in SUBSET Tasks, NEW result \in Results, Answering(st, T, result)
       PROVE \A x \in Stubs : Queued(x)' /\ \A u \in Tasks : Placed(x, u)'
  <2>1. /\ OtherQueues(st) /\ OtherTasks(T)
        /\ \A t \in T : /\ task[t].stub = st /\ task'[t].stub = st
                        /\ task'[t].op = task[t].op
                        /\ task[t].status = "" /\ task'[t].status # ""
    BY <1>10 DEF Answering, SameRequest, Results
  <2>2. \A x \in Stubs \ {st} : Queued(x)' /\ \A u \in Tasks : Placed(x, u)'
    BY <1>4, <1>5, <2>1
  <2>3. \A u \in Tasks : Placed(st, u)
    BY <1>1
  <2>4. \A u \in Tasks \ T : task'[u] = task[u]
    BY <2>1 DEF OtherTasks
  <2>5. /\ Range(rdq'[st]) = Range(rdq[st]) \ T /\ Range(wrq'[st]) = Range(wrq[st]) \ T
        /\ Range(doneq'[st]) = Range(doneq[st]) \cup T /\ Queued(st)'
    BY <1>10 DEF Answering, Queued
  <2>6. \A u \in Tasks : Placed(st, u)'
    BY <2>1, <2>3, <2>4, <2>5 DEF Placed
  <2> QED
    BY <2>2, <2>5, <2>6
<1>11. ASSUME NEW T \in SUBSET Tasks, Delivering(st, T)
       PROVE \A x \in Stubs : Queued(x)' /\ \A u \in Tasks : Placed(x, u)'
  <2>1. /\ OtherQueues(st) /\ OtherTasks(T) /\ UNCHANGED <<rdq, wrq>>
        /\ \A t \in T : task[t].stub = st /\ task[t].status # "" /\ task'[t].stub = NULL
    <3>1. FreeTask.stub = NULL
      BY DEF FreeTask
    <3> QED
      BY <1>11, <3>1 DEF Delivering
  <2>2. \A x \in Stubs \ {st} : Queued(x)' /\ \A u \in Tasks : Placed(x, u)'
    BY <1>4, <1>5, <2>1
  <2>3. st # NULL /\ \A u \in Tasks : Placed(st, u)
    BY <1>1, <1>2
  <2>4. \A u \in Tasks \ T : task'[u] = task[u]
    BY <2>1 DEF OtherTasks
  <2>5. Range(doneq'[st]) = Range(doneq[st]) \ T /\ Queued(st)'
    BY <1>1, <1>11 DEF Delivering, Queued
  <2>6. ASSUME NEW u \in Tasks PROVE Placed(st, u)'
    <3>1. CASE u \in T
      BY <2>1, <2>3, <2>5, <3>1 DEF Placed
    <3>2. CASE u \notin T
      BY <2>1, <2>3, <2>4, <2>5, <3>2 DEF Placed
    <3> QED
      BY <3>1, <3>2
  <2> QED
    BY <2>2, <2>5, <2>6
<1> QED
  BY <1>6, <1>7, <1>8, <1>9, <1>10, <1>11 DEF EffectAt

LEMMA TaskUnitsStep ==
    ASSUME Owned, TaskUnits, NEW st \in Stubs, EffectAt(st),
           due' \subseteq armed', due' # {} => pc' = "timer"
    PROVE  TaskUnits'
<1>1. st # NULL /\ \A t \in Tasks : t \in armed <=> Pending(t) /\ task[t].timed
  BY KernelAssumption DEF TaskUnits
<1>2. SUFFICES \A t \in Tasks : (t \in armed <=> Pending(t) /\ task[t].timed)'
  BY DEF TaskUnits
<1>3. ASSUME NEW T \in SUBSET Tasks, OtherTasks(T)
      PROVE  \A t \in Tasks \ T : (t \in armed <=> Pending(t) /\ task[t].timed)'
  BY <1>1, <1>3 DEF OtherTasks, SameUnit, Pending, InUse
<1>4. CASE Resting
  BY <1>3, <1>4 DEF Resting
<1>5. ASSUME NEW t \in Tasks, Progressing(st, t)
      PROVE (t \in armed <=> Pending(t) /\ task[t].timed)' /\ OtherTasks({t})
  BY <1>1, <1>5 DEF Progressing, SameUnit, SameRequest, Pending, InUse
<1>6. ASSUME NEW t \in Tasks, Requesting(st, t)
      PROVE (t \in armed <=> Pending(t) /\ task[t].timed)' /\ OtherTasks({t})
  BY <1>1, <1>6 DEF Requesting, Pending, InUse
<1>7. ASSUME NEW t \in Tasks, Announcing(st, t)
      PROVE (t \in armed <=> Pending(t) /\ task[t].timed)' /\ OtherTasks({t})
  BY <1>1, <1>7 DEF Announcing, SameUnit, Pending, InUse
<1>8. ASSUME NEW T \in SUBSET Tasks, NEW result \in Results, Answering(st, T, result)
      PROVE /\ \A t \in T : (t \in armed <=> Pending(t) /\ task[t].timed)'
            /\ OtherTasks(T)
  BY <1>8 DEF Answering, Pending, Results
<1>9. ASSUME NEW T \in SUBSET Tasks, Delivering(st, T)
      PROVE /\ \A t \in T : (t \in armed <=> Pending(t) /\ task[t].timed)'
            /\ OtherTasks(T)
  <2>1. FreeTask.stub = NULL
    BY DEF FreeTask
  <2>2. OtherTasks(T)
    BY <1>9 DEF Delivering
  <2>3. ASSUME NEW t \in T PROVE t \notin armed' /\ task'[t].stub = NULL
    BY <1>1, <1>9, <2>1 DEF Delivering, SameUnit, Pending
  <2> QED
    BY <2>2, <2>3 DEF Pending, InUse
<1> DEFINE Matched(t) == t \in armed <=> Pending(t) /\ task[t].timed
<1>10. ASSUME NEW T \in SUBSET Tasks, OtherTasks(T), \A t \in T : Matched(t)'
       PROVE  \A t \in Tasks : Matched(t)'
  BY <1>3, <1>10
<1> HIDE DEF Matched
<1>11. CASE \E t \in Tasks : Progressing(st, t) \/ Requesting(st, t) \/ Announcing(st, t)
  <2> PICK t \in Tasks : Progressing(st, t) \/ Requesting(st, t) \/ Announcing(st, t)
    BY <1>11
  <2>1. Matched(t)' /\ OtherTasks({t})
    BY <1>5, <1>6, <1>7 DEF Matched
  <2> QED
    BY <1>10, <2>1 DEF Matched
<1>12. CASE \E T \in SUBSET Tasks, result \in Results : Answering(st, T, result)
  BY <1>8, <1>10, <1>12 DEF Matched
<1>13. CASE \E T \in SUBSET Tasks : Delivering(st, T)
  BY <1>9, <1>10, <1>13 DEF Matched
<1> QED
  BY <1>4, <1>11, <1>12, <1>13 DEF EffectAt

-----------------------------------------------------------------------------
(* A step at one stub. *)

OthersStay(st) == \A x \in Stubs \ {st} :
    /\ stub'[x] = stub[x]
    /\ x \in armed' <=> x \in armed
    /\ x \in Range(avail') <=> x \in Range(avail)

(* The loop goes on with the stub it visits, or to the next one. *)
VisitStep(st) ==
    /\ pc' = pc
    /\ \/ todo' = todo /\ todo = <<>>
       \/ todo' = todo /\ Live(st)' /\ LoopFlag \cap stub[st].status \subseteq stub'[st].status
       \/ todo # <<>> /\ st = Head(todo) /\ todo' = Tail(todo)

UnitsStep == due' \subseteq armed' /\ (due' # {} => pc' = "timer")

TasksLive == \A t \in Tasks : InUse(t)' => Live(task[t].stub)'

StepAt(st) ==
    /\ OthersStay(st) /\ VisitStep(st) /\ UnitsStep
    /\ EffectAt(st) /\ StubOK(st)'
    /\ Live(st)' /\ (Dying(st) => Dying(st)')

(* What the action properties are about. *)
StepSafe ==
    /\ Resting \/ \E st \in Stubs : EffectAt(st)
    /\ \A st \in Stubs : Live(st) /\ ~Live(st)'
         => Dying(st) /\ rdq[st] = <<>> /\ wrq[st] = <<>> /\ doneq[st] = <<>>
    /\ \A st \in Stubs : Live(st)' /\ Dying(st) => Dying(st)'

LEMMA EffectElsewhere ==
    ASSUME NEW st \in Stubs, EffectAt(st)
    PROVE  OtherQueues(st)
<1>1. Resting => OtherQueues(st)
  BY DEF Resting, OtherQueues
<1>2. \A t \in Tasks : Progressing(st, t) => OtherQueues(st)
  BY DEF Progressing, OtherQueues
<1> QED
  BY <1>1, <1>2 DEF EffectAt, Requesting, Announcing, Answering, Delivering

LEMMA NextStub ==
    ASSUME TypeInv, Loops, todo # <<>>
    PROVE  /\ todo \in Seq(Stubs) /\ Head(todo) \in Stubs
           /\ Live(Head(todo)) /\ LoopFlag \subseteq stub[Head(todo)].status
           /\ NoDuplicates(Tail(todo)) /\ Head(todo) \notin Range(Tail(todo))
           /\ Range(todo) = {Head(todo)} \cup Range(Tail(todo))
<1>1. todo \in Seq(Stubs) /\ NoDuplicates(todo)
  BY TypeInvParts DEF PollTypeOK, Loops
<1>2. /\ Head(todo) \in Range(todo)
      /\ Range(todo) = {Head(todo)} \cup Range(Tail(todo))
      /\ NoDuplicates(Tail(todo)) /\ Head(todo) \notin Range(Tail(todo))
  BY <1>1, TailRange, TailRangeExact
<1>3. Head(todo) \in Stubs
  BY <1>1, <1>2, RangeOfSeq
<1> QED
  BY <1>1, <1>2, <1>3 DEF Loops

LEMMA LoopsStep ==
    ASSUME TypeInv, Loops, NEW st \in Stubs, VisitStep(st), OthersStay(st)
    PROVE  /\ Loops'
           /\ \A x \in Stubs \ {st} : x \in Range(todo) => x \in Range(todo')
<1>1. todo \in Seq(Stubs) /\ LoopFlag' = LoopFlag /\ pc' = pc
  BY TypeInvParts DEF PollTypeOK, VisitStep, LoopFlag
<1>2. \A x \in Range(todo) : x \in Stubs /\ Live(x) /\ LoopFlag \subseteq stub[x].status
  BY <1>1, RangeOfSeq DEF Loops
<1>3. \A x \in Stubs \ {st} : stub'[x] = stub[x]
  BY DEF OthersStay
<1>4. CASE todo' = todo
  <2>1. ASSUME NEW x \in Range(todo)
        PROVE  Live(x)' /\ LoopFlag \subseteq stub'[x].status
    <3>1. CASE x # st
      BY <1>2, <1>3, <3>1 DEF Live
    <3>2. CASE x = st
      <4>1. todo # <<>>
        BY <3>2, EmptyRange, <1>1
      <4>2. todo # Tail(todo)
        BY <4>1, NextStub
      <4> QED
        BY <1>2, <1>4, <3>2, <4>1, <4>2 DEF VisitStep
    <3> QED
      BY <3>1, <3>2
  <2> QED
    BY <1>1, <1>4, <2>1 DEF Loops
<1>5. CASE todo # <<>> /\ st = Head(todo) /\ todo' = Tail(todo)
  <2>1. /\ NoDuplicates(todo') /\ st \notin Range(todo')
        /\ Range(todo) = {st} \cup Range(todo')
    BY <1>5, NextStub
  <2>2. \A x \in Range(todo') : Live(x)' /\ LoopFlag \subseteq stub'[x].status
    BY <1>2, <1>3, <2>1 DEF Live
  <2>3. pc \notin {"app", "events", "timer"}
    BY <1>5 DEF Loops
  <2>4. Loops'
    BY <1>1, <2>1, <2>2, <2>3 DEF Loops
  <2> QED
    BY <2>1, <2>4
<1> QED
  BY <1>4, <1>5 DEF VisitStep

LEMMA StubStays ==
    ASSUME NEW x \in Stubs, StubOK(x), pc' = pc,
           stub'[x] = stub[x], x \in armed' <=> x \in armed,
           x \in Range(avail') <=> x \in Range(avail),
           x \in Range(todo) => x \in Range(todo'),
           rdq'[x] = rdq[x], wrq'[x] = wrq[x], doneq'[x] = doneq[x]
    PROVE  StubOK(x)'
<1>1. (Live(x)' <=> Live(x)) /\ (Dying(x)' <=> Dying(x)) /\ (Unsettled(x) => Unsettled(x)')
  BY DEF Live, Dying, Unsettled
<1> QED
  BY <1>1 DEF StubOK

(* The stub stays attached, and so do the stubs of all requests. *)
LEMMA TasksStayLive ==
    ASSUME TypeInv, Owned, NEW st \in Stubs, EffectAt(st), OthersStay(st), Live(st)'
    PROVE  TasksLive
<1> SUFFICES ASSUME NEW t \in Tasks, task'[t].stub # NULL PROVE Live(task[t].stub)'
  BY DEF TasksLive, InUse
<1>1. task'[t].stub = task[t].stub \/ task'[t].stub = st
  <2>1. FreeTask.stub = NULL
    BY DEF FreeTask
  <2>2. Resting => task'[t] = task[t]
    BY DEF Resting
  <2>3. \A u \in Tasks : Progressing(st, u) => task'[t].stub = task[t].stub
    BY DEF Progressing, OtherTasks, SameRequest
  <2>4. \A u \in Tasks : Requesting(st, u) \/ Announcing(st, u)
          => task'[t] = task[t] \/ task'[t].stub = st
    BY DEF Requesting, Announcing, OtherTasks
  <2>5. \A T \in SUBSET Tasks, result \in Results : Answering(st, T, result)
          => task'[t].stub = task[t].stub
    BY DEF Answering, OtherTasks, SameRequest
  <2>6. \A T \in SUBSET Tasks : Delivering(st, T) => task'[t] = task[t]
    BY <2>1 DEF Delivering, OtherTasks
  <2> QED
    BY <2>2, <2>3, <2>4, <2>5, <2>6 DEF EffectAt
<1>2. CASE task'[t].stub = st
  BY <1>2
<1>3. CASE task'[t].stub # st
  <2>1. /\ task'[t].stub = task[t].stub /\ InUse(t)
        /\ task[t].stub \in Stubs \ {st}
    BY <1>1, <1>3 DEF InUse, TypeInv, TypeOK, TaskTypeOK, TaskState
  <2>2. Live(task[t].stub) /\ stub'[task[t].stub] = stub[task[t].stub]
    BY <2>1 DEF Owned, OthersStay
  <2> QED
    BY <2>1, <2>2 DEF Live
<1> QED
  BY <1>2, <1>3

LEMMA StepKeeps ==
    ASSUME KInv, IInv', NEW st \in Stubs, StepAt(st)
    PROVE  KInv' /\ StepSafe
<1>1. TypeInv /\ Owned /\ TaskUnits /\ Loops /\ \A x \in Stubs : StubOK(x)
  BY DEF KInv, IInv
<1>2. /\ OthersStay(st) /\ VisitStep(st) /\ UnitsStep
      /\ EffectAt(st) /\ StubOK(st)' /\ Live(st)' /\ (Dying(st) => Dying(st)')
  BY DEF StepAt
<1>3. Owned'
  BY <1>1, <1>2, TasksStayLive, OwnedStep DEF TasksLive
<1>4. TaskUnits'
  BY <1>1, <1>2, TaskUnitsStep DEF UnitsStep
<1>5. Loops' /\ \A x \in Stubs \ {st} : x \in Range(todo) => x \in Range(todo')
  BY <1>1, <1>2, LoopsStep
<1>6. \A x \in Stubs \ {st} : rdq'[x] = rdq[x] /\ wrq'[x] = wrq[x] /\ doneq'[x] = doneq[x]
  BY <1>2, EffectElsewhere DEF OtherQueues
<1>7. ASSUME NEW x \in Stubs PROVE StubOK(x)'
  <2>1. CASE x = st
    BY <1>2, <2>1
  <2>2. CASE x # st
    BY <1>1, <1>2, <1>5, <1>6, <2>2, StubStays DEF OthersStay, VisitStep
  <2> QED
    BY <2>1, <2>2
<1>8. StepSafe
  BY <1>2 DEF StepSafe, OthersStay, Live, Dying
<1> QED
  BY <1>3, <1>4, <1>5, <1>7, <1>8 DEF KInv

-----------------------------------------------------------------------------
(* Answers: the queues. *)

LEMMA Answerable ==
    ASSUME TypeInv, Owned, NEW st \in Stubs
    PROVE  /\ Range(rdq[st]) \cap Range(doneq[st]) = {}
           /\ Range(wrq[st]) \cap Range(doneq[st]) = {}
           /\ Range(rdq[st]) \cap Range(wrq[st]) = {}
           /\ NoDuplicates(rdq[st]) /\ NoDuplicates(wrq[st]) /\ NoDuplicates(doneq[st])
           /\ \A t \in Range(rdq[st]) \cup Range(wrq[st]) :
                t \in Tasks /\ task[t].stub = st /\ task[t].status = ""
<1>1. /\ Range(rdq[st]) \subseteq Tasks /\ Range(wrq[st]) \subseteq Tasks
      /\ Range(doneq[st]) \subseteq Tasks
  BY QueueRanges
<1>2. /\ \A t \in Range(rdq[st]) :
           task[t].stub = st /\ task[t].status = "" /\ task[t].op = "READ"
      /\ \A t \in Range(wrq[st]) :
           task[t].stub = st /\ task[t].status = "" /\ task[t].op # "READ"
      /\ \A t \in Range(doneq[st]) : task[t].status # ""
  BY <1>1 DEF Owned
<1> QED
  BY <1>1, <1>2 DEF Owned

LEMMA FirstAnswered ==
    ASSUME NEW q \in Seq(Tasks), NEW d \in Seq(Tasks), q # <<>>,
           NoDuplicates(q), NoDuplicates(d), Range(q) \cap Range(d) = {}
    PROVE  /\ Head(q) \in Tasks /\ Head(q) \in Range(q)
           /\ NoDuplicates(Tail(q)) /\ Range(Tail(q)) = Range(q) \ {Head(q)}
           /\ \A e \in {Append(d, Head(q)), d \o <<Head(q)>>} :
                NoDuplicates(e) /\ Range(e) = Range(d) \cup {Head(q)}
<1> DEFINE t == Head(q)
<1>1. t \in Range(q) /\ t \in Tasks
  BY TailRange, RangeOfSeq
<1>2. NoDuplicates(Tail(q)) /\ Range(Tail(q)) = Range(q) \ {t}
  <2>1. NoDuplicates(Tail(q)) /\ t \notin Range(Tail(q)) /\ Range(q) = {t} \cup Range(Tail(q))
    BY TailRange, TailRangeExact
  <2> QED
    BY <2>1
<1>3. t \notin Range(d)
  BY <1>1
<1> HIDE DEF t
<1>4. NoDuplicates(Append(d, t)) /\ Range(Append(d, t)) = Range(d) \cup {t}
  BY <1>1, <1>3, AppendRange
<1>5. NoDuplicates(d \o <<t>>) /\ Range(d \o <<t>>) = Range(d) \cup {t}
  <2>1. <<t>> \in Seq(Tasks) /\ Range(<<t>>) = {t} /\ NoDuplicates(<<t>>)
    BY <1>1, SingleRange
  <2> DEFINE one == <<t>>
  <2> HIDE DEF one
  <2>2. one \in Seq(Tasks) /\ Range(one) = {t} /\ NoDuplicates(one)
    BY <2>1 DEF one
  <2>3. NoDuplicates(d \o one) /\ Range(d \o one) = Range(d) \cup Range(one)
    BY <1>3, <2>2, ConcatNoDuplicates, RangeConcatenation
  <2> QED
    BY <2>2, <2>3 DEF one
<1> QED
  BY <1>1, <1>2, <1>4, <1>5 DEF t

LEMMA AllAnswered ==
    ASSUME NEW q \in Seq(Tasks), NEW d \in Seq(Tasks),
           NoDuplicates(q), NoDuplicates(d), Range(d) \cap Range(q) = {}
    PROVE  NoDuplicates(d \o q) /\ Range(d \o q) = Range(d) \cup Range(q)
  BY ConcatNoDuplicates, RangeConcatenation

(* What the timer loses is what is answered. *)
UnitsAfter(st, T) ==
    /\ \A t \in T : t \notin armed'
    /\ \A t \in Tasks \ T : SameUnit(t)
    /\ \A x \in Stubs \ {st} : SameUnit(x)

LEMMA UnitsTaken ==
    ASSUME NEW st \in Stubs, NEW T \in SUBSET Tasks
    PROVE  /\ armed' = armed \ T => UnitsAfter(st, T) /\ SameUnit(st)
           /\ armed' = armed \ ({st} \cup T) => UnitsAfter(st, T) /\ st \notin armed'
           /\ \A after \in ActiveStub(st) : armed' = after \ T
                => /\ UnitsAfter(st, T)
                   /\ st \in armed' => st \in armed \/ stub[st].timed
                   /\ st \in armed /\ ~ClockStepsBack => st \in armed'
<1>1. \A x \in Stubs, t \in Tasks : x # t
  BY EpexAssumption
<1>2. \A after \in ActiveStub(st) :
        /\ \A u : u # st => (u \in after <=> u \in armed)
        /\ st \in after => st \in armed \/ stub[st].timed
        /\ st \in armed /\ ~ClockStepsBack => st \in after
  BY DEF ActiveStub
<1> QED
  BY <1>1, <1>2 DEF UnitsAfter, SameUnit

(* The first request of a queue, or all of both, are answered. *)
FirstOf(q, others, st, result) ==
    LET t == Head(q[st]) IN
    /\ q[st] # <<>>
    /\ q' = [q EXCEPT ![st] = Tail(@)] /\ others' = others
    /\ \/ doneq' = [doneq EXCEPT ![st] = Append(@, t)]
       \/ doneq' = [doneq EXCEPT ![st] = @ \o <<t>>]
    /\ SameRequest(t) /\ task'[t].status = result
    /\ \A u \in Tasks \ {t} : task'[u] = task[u]
    /\ UnitsAfter(st, {t})

LEMMA FirstAnswers ==
    ASSUME TypeInv, Owned, NEW st \in Stubs, NEW result \in Results,
           FirstOf(rdq, wrq, st, result) \/ FirstOf(wrq, rdq, st, result)
    PROVE  EffectAt(st)
<1>1. /\ rdq[st] \in Seq(Tasks) /\ wrq[st] \in Seq(Tasks) /\ doneq[st] \in Seq(Tasks)
      /\ DOMAIN rdq = Stubs /\ DOMAIN wrq = Stubs /\ DOMAIN doneq = Stubs
  BY DEF TypeInv, TypeOK, TaskTypeOK
<1>2. /\ Range(rdq[st]) \cap Range(doneq[st]) = {}
      /\ Range(wrq[st]) \cap Range(doneq[st]) = {}
      /\ Range(rdq[st]) \cap Range(wrq[st]) = {}
      /\ NoDuplicates(rdq[st]) /\ NoDuplicates(wrq[st]) /\ NoDuplicates(doneq[st])
      /\ \A t \in Range(rdq[st]) \cup Range(wrq[st]) :
           t \in Tasks /\ task[t].stub = st /\ task[t].status = ""
  BY Answerable
<1>3. CASE FirstOf(rdq, wrq, st, result)
  <2> DEFINE t == Head(rdq[st])
  <2>1. /\ t \in Tasks /\ t \in Range(rdq[st])
        /\ NoDuplicates(Tail(rdq[st])) /\ Range(Tail(rdq[st])) = Range(rdq[st]) \ {t}
        /\ \A e \in {Append(doneq[st], t), doneq[st] \o <<t>>} :
             NoDuplicates(e) /\ Range(e) = Range(doneq[st]) \cup {t}
    BY <1>1, <1>2, <1>3, FirstAnswered DEF FirstOf
  <2>2. /\ rdq'[st] = Tail(rdq[st]) /\ wrq' = wrq
        /\ doneq'[st] \in {Append(doneq[st], t), doneq[st] \o <<t>>}
        /\ OtherQueues(st)
    BY <1>1, <1>3 DEF FirstOf, OtherQueues
  <2>3. /\ SameRequest(t) /\ task'[t].status = result /\ t \notin armed' /\ OtherTasks({t})
    BY <1>3 DEF FirstOf, OtherTasks, UnitsAfter
  <2> HIDE DEF t
  <2>4. Answering(st, {t}, result)
    BY <1>2, <2>1, <2>2, <2>3 DEF Answering
  <2> QED
    BY <2>1, <2>4 DEF EffectAt
<1>4. CASE FirstOf(wrq, rdq, st, result)
  <2> DEFINE t == Head(wrq[st])
  <2>1. /\ t \in Tasks /\ t \in Range(wrq[st])
        /\ NoDuplicates(Tail(wrq[st])) /\ Range(Tail(wrq[st])) = Range(wrq[st]) \ {t}
        /\ \A e \in {Append(doneq[st], t), doneq[st] \o <<t>>} :
             NoDuplicates(e) /\ Range(e) = Range(doneq[st]) \cup {t}
    BY <1>1, <1>2, <1>4, FirstAnswered DEF FirstOf
  <2>2. /\ wrq'[st] = Tail(wrq[st]) /\ rdq' = rdq
        /\ doneq'[st] \in {Append(doneq[st], t), doneq[st] \o <<t>>}
        /\ OtherQueues(st)
    BY <1>1, <1>4 DEF FirstOf, OtherQueues
  <2>3. /\ SameRequest(t) /\ task'[t].status = result /\ t \notin armed' /\ OtherTasks({t})
    BY <1>4 DEF FirstOf, OtherTasks, UnitsAfter
  <2> HIDE DEF t
  <2>4. Answering(st, {t}, result)
    BY <1>2, <2>1, <2>2, <2>3 DEF Answering
  <2> QED
    BY <2>1, <2>4 DEF EffectAt
<1> QED
  BY <1>3, <1>4

(* The requests ts, all of rdq[st] and maybe all of wrq[st], are answered. *)
AllOf(ts, st, result) ==
    /\ rdq' = [rdq EXCEPT ![st] = <<>>]
    /\ \/ ts = rdq[st] /\ wrq' = wrq
       \/ ts = rdq[st] \o wrq[st] /\ wrq' = [wrq EXCEPT ![st] = <<>>]
    /\ doneq' = [doneq EXCEPT ![st] = @ \o ts]
    /\ task' = [t \in Tasks |-> IF t \in Range(ts)
                                THEN [task[t] EXCEPT !.status = result]
                                ELSE task[t]]
    /\ UnitsAfter(st, Range(ts))

LEMMA AllAnswers ==
    ASSUME TypeInv, Owned, NEW st \in Stubs, NEW ts, NEW result \in Results,
           AllOf(ts, st, result)
    PROVE  EffectAt(st)
<1>1. /\ rdq[st] \in Seq(Tasks) /\ wrq[st] \in Seq(Tasks) /\ doneq[st] \in Seq(Tasks)
      /\ DOMAIN rdq = Stubs /\ DOMAIN wrq = Stubs /\ DOMAIN doneq = Stubs
  BY DEF TypeInv, TypeOK, TaskTypeOK
<1>2. /\ Range(rdq[st]) \cap Range(doneq[st]) = {}
      /\ Range(wrq[st]) \cap Range(doneq[st]) = {}
      /\ Range(rdq[st]) \cap Range(wrq[st]) = {}
      /\ NoDuplicates(rdq[st]) /\ NoDuplicates(wrq[st]) /\ NoDuplicates(doneq[st])
      /\ \A t \in Range(rdq[st]) \cup Range(wrq[st]) :
           t \in Tasks /\ task[t].stub = st /\ task[t].status = ""
  BY Answerable
<1>3. /\ rdq[st] \o wrq[st] \in Seq(Tasks)
      /\ NoDuplicates(rdq[st] \o wrq[st])
      /\ Range(rdq[st] \o wrq[st]) = Range(rdq[st]) \cup Range(wrq[st])
  BY <1>1, <1>2, ConcatProperties, AllAnswered
<1>4. /\ ts \in Seq(Tasks) /\ NoDuplicates(ts)
      /\ Range(ts) \subseteq Range(rdq[st]) \cup Range(wrq[st])
  BY <1>1, <1>2, <1>3 DEF AllOf
<1>5. /\ NoDuplicates(doneq[st] \o ts)
      /\ Range(doneq[st] \o ts) = Range(doneq[st]) \cup Range(ts)
  BY <1>1, <1>2, <1>4, AllAnswered
<1>6. /\ rdq'[st] = <<>> /\ doneq'[st] = doneq[st] \o ts /\ OtherQueues(st)
  BY <1>1 DEF AllOf, OtherQueues
<1>7. Range(<<>>) = {} /\ NoDuplicates(<<>>)
  BY <1>1, EmptyRange
<1>8. /\ NoDuplicates(rdq'[st]) /\ Range(rdq'[st]) = Range(rdq[st]) \ Range(ts)
      /\ NoDuplicates(wrq'[st]) /\ Range(wrq'[st]) = Range(wrq[st]) \ Range(ts)
  <2>1. CASE ts = rdq[st] /\ wrq' = wrq
    BY <1>2, <1>6, <1>7, <2>1
  <2>2. CASE ts = rdq[st] \o wrq[st] /\ wrq' = [wrq EXCEPT ![st] = <<>>]
    <3>1. wrq'[st] = <<>>
      BY <1>1, <2>2
    <3> QED
      BY <1>3, <1>6, <1>7, <2>2, <3>1
  <2> QED
    BY <2>1, <2>2 DEF AllOf
<1> DEFINE T == Range(ts)
<1>9. T \in SUBSET Tasks /\ \A t \in T : task[t].stub = st /\ task[t].status = ""
  BY <1>2, <1>4
<1>10. /\ \A t \in T : task'[t] = [task[t] EXCEPT !.status = result] /\ t \notin armed'
       /\ OtherTasks(T)
  BY <1>9 DEF AllOf, UnitsAfter, OtherTasks
<1>11. \A t \in T : SameRequest(t) /\ task'[t].status = result
  <2> SUFFICES ASSUME NEW t \in T PROVE SameRequest(t) /\ task'[t].status = result
    OBVIOUS
  <2>1. task[t] \in TaskState /\ task'[t] = [task[t] EXCEPT !.status = result]
    BY <1>9, <1>10 DEF TypeInv, TypeOK, TaskTypeOK
  <2> QED
    BY <2>1 DEF TaskState, SameRequest
<1> HIDE DEF T
<1>12. Answering(st, T, result)
  BY <1>5, <1>6, <1>8, <1>9, <1>10, <1>11 DEF Answering, T
<1> QED
  BY <1>9, <1>12 DEF EffectAt

-----------------------------------------------------------------------------
(* epex_poll serves a stub. *)

LEMMA AvailAfter ==
    ASSUME TypeInv, NEW st \in Stubs
    PROVE  /\ \A x \in Stubs \ {st} :
                /\ x \in Range(AppendNew(avail, st)) <=> x \in Range(avail)
                /\ x \in Range(Unlink(avail, st)) <=> x \in Range(avail)
           /\ st \in Range(AppendNew(avail, st))
<1>1. avail \in Seq(Stubs)
  BY TypeInvParts DEF ListTypeOK
<1>2. Range(AppendNew(avail, st)) = Range(avail) \cup {st}
  BY <1>1, AppendNewProperties
<1>3. /\ Range(Unlink(avail, st)) \subseteq Range(avail)
      /\ Range(avail) \subseteq Range(Unlink(avail, st)) \cup {st}
  BY <1>1, UnlinkRange
<1> QED
  BY <1>2, <1>3

(* A dying stub has none of the flags of the read and write loops. *)
LEMMA ServedStub ==
    ASSUME TypeInv, Loops, \A x \in Stubs : StubOK(x),
           pc \in {"read", "write"}, todo # <<>>
    PROVE  /\ Head(todo) \in Stubs /\ Live(Head(todo)) /\ ~Dying(Head(todo))
           /\ stub[Head(todo)] \in StubState
<1>1. /\ Head(todo) \in Stubs /\ Live(Head(todo))
      /\ LoopFlag \subseteq stub[Head(todo)].status
  BY NextStub
<1>2. "READABLE" \in LoopFlag \/ "WRITEABLE" \in LoopFlag
  BY DEF LoopFlag, Flags
<1>3. ASSUME Dying(Head(todo)) PROVE FALSE
  <2>1. PICK f \in Fatal : stub[Head(todo)].status = {f}
    BY <1>1, <1>3 DEF StubOK
  <2> QED
    BY <1>1, <1>2, <2>1 DEF Fatal
<1> QED
  BY <1>1, <1>3 DEF TypeInv, TypeOK, StubTypeOK

LEMMA ServeStep ==
    ASSUME KInv, IInv', NEW st \in Stubs,
           pc \in {"read", "write"}, todo # <<>>, st = Head(todo), pc' = pc,
           todo' = todo \/ todo' = Tail(todo),
           todo' = todo => stub'[st].status = stub[st].status,
           \A x \in Stubs \ {st} : stub'[x] = stub[x],
           stub'[st].fd = stub[st].fd, stub'[st].timed = stub[st].timed,
           stub'[st].status \subseteq stub[st].status \cup {"CLOSED"},
           \A x \in Stubs \ {st} : SameUnit(x),
           st \in armed' => st \in armed \/ stub[st].timed,
           st \in armed /\ ~ClockStepsBack => st \in armed',
           \/ avail' = avail /\ doneq' = doneq
           \/ avail' = AppendNew(avail, st),
           due' \subseteq due, EffectAt(st)
    PROVE  KInv' /\ StepSafe
<1>1. TypeInv /\ Owned /\ TaskUnits /\ Loops /\ \A x \in Stubs : StubOK(x)
  BY DEF KInv, IInv
<1>2. Live(st) /\ ~Dying(st)
  BY <1>1, ServedStub
<1>3. Live(st)' /\ ~Dying(st)'
  BY <1>2 DEF Live, Dying, Fatal
<1>4. OthersStay(st)
  BY <1>1, AvailAfter DEF OthersStay, SameUnit
<1>5. VisitStep(st)
  BY <1>3 DEF VisitStep
<1>6. UnitsStep
  BY <1>1 DEF UnitsStep, TaskUnits
<1>7. StubOK(st)'
  <2>1. StubOK(st)
    BY <1>1
  <2>2. doneq'[st] # <<>> => st \in Range(avail')
    BY <1>1, <2>1, AvailAfter DEF StubOK
  <2>3. st \in armed' => stub'[st].timed
    BY <2>1 DEF StubOK
  <2>4. stub'[st].timed /\ ~ClockStepsBack => st \in armed'
    BY <1>2, <2>1 DEF StubOK
  <2> QED
    BY <1>3, <2>2, <2>3, <2>4 DEF StubOK
<1> QED
  BY <1>2, <1>3, <1>4, <1>5, <1>6, <1>7, StepKeeps DEF StepAt

LEMMA DropsFlag ==
    ASSUME NEW st \in Stubs, stub \in [Stubs -> StubState], NEW status,
           stub' = [stub EXCEPT ![st].status = status]
    PROVE  /\ \A x \in Stubs \ {st} : stub'[x] = stub[x]
           /\ stub'[st].fd = stub[st].fd /\ stub'[st].timed = stub[st].timed
           /\ stub'[st].listen = stub[st].listen /\ stub'[st].silent = stub[st].silent
           /\ stub'[st].status = status
<1>1. stub[st] \in StubState /\ stub'[st] = [stub[st] EXCEPT !.status = status]
  OBVIOUS
<1> QED
  BY <1>1 DEF StubState

(* One request is done with. *)
LEMMA OneDone ==
    ASSUME TypeInv, NEW st \in Stubs, NEW result \in Results, NEW t \in Tasks,
           TasksDone(st, <<t>>, result)
    PROVE  /\ doneq' = [doneq EXCEPT ![st] = @ \o <<t>>]
           /\ SameRequest(t) /\ task'[t].status = result
           /\ \A u \in Tasks \ {t} : task'[u] = task[u]
           /\ avail' = AppendNew(avail, st)
<1>1. task[t] \in TaskState /\ Range(<<t>>) = {t}
  BY SingleRange DEF TypeInv, TypeOK, TaskTypeOK
<1>2. /\ task' = [u \in Tasks |-> IF u \in {t} THEN [task[u] EXCEPT !.status = result]
                                  ELSE task[u]]
      /\ doneq' = [doneq EXCEPT ![st] = @ \o <<t>>]
      /\ avail' = AppendNew(avail, st)
  BY <1>1 DEF TasksDone
<1>3. /\ SameRequest(t) /\ task'[t].status = result
      /\ \A u \in Tasks \ {t} : task'[u] = task[u]
  BY <1>1, <1>2 DEF SameRequest, TaskState
<1> QED
  BY <1>2, <1>3

(* Requests without bytes. *)
LEMMA NothingSteps ==
    ASSUME KInv, IInv', NEW st \in Stubs, ReadNothing(st) \/ WriteNothing(st)
    PROVE  KInv' /\ StepSafe
<1>1. TypeInv /\ Owned /\ "DONE" \in Results /\ rdq[st] \in Seq(Tasks) /\ wrq[st] \in Seq(Tasks)
  BY QueueRanges DEF KInv, IInv, Results
<1>2. /\ pc \in {"read", "write"} /\ todo # <<>> /\ st = Head(todo)
      /\ pc' = pc /\ todo' = todo /\ stub' = stub
  BY DEF ReadNothing, WriteNothing, Reading, Writing, pollVars
<1>3. ASSUME NEW t \in Tasks, TimerDel({t})
      PROVE  UnitsAfter(st, {t}) /\ SameUnit(st) /\ due' \subseteq due
  BY <1>3, UnitsTaken DEF TimerDel
<1>4. CASE ReadNothing(st)
  <2> DEFINE t == Head(rdq[st])
  <2>1. /\ rdq[st] # <<>> /\ rdq' = [rdq EXCEPT ![st] = Tail(@)] /\ wrq' = wrq
        /\ TasksDone(st, <<t>>, "DONE") /\ TimerDel({t})
    BY <1>4 DEF ReadNothing
  <2>0. t \in Tasks
    BY <1>1, <2>1, TailRange, RangeOfSeq
  <2> HIDE DEF t
  <2>2. /\ doneq' = [doneq EXCEPT ![st] = @ \o <<t>>]
        /\ SameRequest(t) /\ task'[t].status = "DONE"
        /\ \A u \in Tasks \ {t} : task'[u] = task[u]
        /\ avail' = AppendNew(avail, st)
    BY <1>1, <2>0, <2>1, OneDone
  <2>3. UnitsAfter(st, {t}) /\ SameUnit(st) /\ due' \subseteq due
    BY <1>3, <2>0, <2>1
  <2>4. EffectAt(st)
    <3>1. FirstOf(rdq, wrq, st, "DONE")
      BY <2>1, <2>2, <2>3 DEF FirstOf, t
    <3> QED
      BY <1>1, <3>1, FirstAnswers
  <2> QED
    BY <1>2, <2>2, <2>3, <2>4, ServeStep DEF UnitsAfter, SameUnit
<1>5. CASE WriteNothing(st)
  <2> DEFINE t == Head(wrq[st])
  <2>1. /\ wrq[st] # <<>> /\ wrq' = [wrq EXCEPT ![st] = Tail(@)] /\ rdq' = rdq
        /\ TasksDone(st, <<t>>, "DONE") /\ TimerDel({t})
    BY <1>5 DEF WriteNothing
  <2>0. t \in Tasks
    BY <1>1, <2>1, TailRange, RangeOfSeq
  <2> HIDE DEF t
  <2>2. /\ doneq' = [doneq EXCEPT ![st] = @ \o <<t>>]
        /\ SameRequest(t) /\ task'[t].status = "DONE"
        /\ \A u \in Tasks \ {t} : task'[u] = task[u]
        /\ avail' = AppendNew(avail, st)
    BY <1>1, <2>0, <2>1, OneDone
  <2>3. UnitsAfter(st, {t}) /\ SameUnit(st) /\ due' \subseteq due
    BY <1>3, <2>0, <2>1
  <2>4. EffectAt(st)
    <3>1. FirstOf(wrq, rdq, st, "DONE")
      BY <2>1, <2>2, <2>3 DEF FirstOf, t
    <3> QED
      BY <1>1, <3>1, FirstAnswers
  <2> QED
    BY <1>2, <2>2, <2>3, <2>4, ServeStep DEF UnitsAfter, SameUnit
<1> QED
  BY <1>4, <1>5

(* Bytes move. *)
LEMMA DataSteps ==
    ASSUME KInv, IInv', NEW st \in Stubs, ReadData(st) \/ WriteData(st)
    PROVE  KInv' /\ StepSafe
<1>1. TypeInv /\ Owned /\ "DONE" \in Results /\ rdq[st] \in Seq(Tasks) /\ wrq[st] \in Seq(Tasks)
  BY QueueRanges DEF KInv, IInv, Results
<1>2. /\ pc \in {"read", "write"} /\ todo # <<>> /\ st = Head(todo)
      /\ pc' = pc /\ todo' = todo /\ stub' = stub
  BY DEF ReadData, WriteData, CallsRead, CallsWrite, Reading, Writing, pollVars
<1>3. ASSUME NEW t \in Tasks, TimerDel({t})
      PROVE  UnitsAfter(st, {t}) /\ SameUnit(st) /\ due' \subseteq due
  BY <1>3, UnitsTaken DEF TimerDel
<1>4. \A t \in Tasks : task[t] \in TaskState
  BY <1>1 DEF TypeInv, TypeOK, TaskTypeOK
<1>5. ASSUME NEW t \in Tasks, NEW n, NEW full \in BOOLEAN,
             task' = [task EXCEPT ![t] =
                       IF full THEN [[task[t] EXCEPT !.cur = @ + n] EXCEPT !.status = "DONE"]
                       ELSE [task[t] EXCEPT !.cur = @ + n]]
      PROVE  /\ SameRequest(t) /\ \A u \in Tasks \ {t} : task'[u] = task[u]
             /\ full => task'[t].status = "DONE"
             /\ ~full => task'[t].status = task[t].status
  <2>1. task[t] \in TaskState /\ DOMAIN task = Tasks
    BY <1>1 DEF TypeInv, TypeOK, TaskTypeOK
  <2>2. /\ \A u \in Tasks \ {t} : task'[u] = task[u]
        /\ task'[t] = IF full THEN [[task[t] EXCEPT !.cur = @ + n] EXCEPT !.status = "DONE"]
                      ELSE [task[t] EXCEPT !.cur = @ + n]
    BY <1>5, <2>1
  <2> QED
    BY <2>1, <2>2 DEF SameRequest, TaskState
<1>6. ASSUME NEW t \in Range(rdq[st]) \cup Range(wrq[st]),
             UNCHANGED <<rdq, wrq, doneq, timerVars, avail>>, SameRequest(t),
             \A u \in Tasks \ {t} : task'[u] = task[u], task'[t].status = task[t].status
      PROVE  KInv' /\ StepSafe
  <2>1. t \in Tasks /\ task[t].stub = st /\ task[t].status = ""
    BY <1>1, Answerable
  <2>2. Progressing(st, t)
    BY <1>6, <2>1 DEF Progressing, OtherTasks, SameUnit, timerVars
  <2>3. EffectAt(st)
    BY <2>1, <2>2 DEF EffectAt
  <2> QED
    BY <1>2, <1>6, <2>3, ServeStep DEF SameUnit, timerVars
<1>7. CASE ReadData(st)
  <2> DEFINE t == Head(rdq[st])
             want == task[t].size - task[t].cur
             n == IF sock[stub[st].fd].rx < want THEN sock[stub[st].fd].rx ELSE want
             full == Completes(t, n)
  <2>1. /\ rdq[st] # <<>> /\ wrq' = wrq
        /\ task' = [task EXCEPT ![t] =
                     IF full THEN [[task[t] EXCEPT !.cur = @ + n] EXCEPT !.status = "DONE"]
                     ELSE [task[t] EXCEPT !.cur = @ + n]]
        /\ full => /\ rdq' = [rdq EXCEPT ![st] = Tail(@)]
                   /\ doneq' = [doneq EXCEPT ![st] = Append(@, t)]
                   /\ avail' = AppendNew(avail, st) /\ TimerDel({t})
        /\ ~full => UNCHANGED <<rdq, doneq, avail, timerVars>>
    BY <1>7 DEF ReadData, CallsRead, MakeAvail
  <2>2. t \in Range(rdq[st]) /\ t \in Tasks
    BY <1>1, <2>1, TailRange, RangeOfSeq
  <2>3. full \in BOOLEAN
    BY DEF Completes
  <2> HIDE DEF t, n, full
  <2>4. /\ SameRequest(t) /\ \A u \in Tasks \ {t} : task'[u] = task[u]
        /\ full => task'[t].status = "DONE"
        /\ ~full => task'[t].status = task[t].status
    BY <1>5, <2>1, <2>2, <2>3
  <2>5. CASE full
    <3>1. UnitsAfter(st, {t}) /\ SameUnit(st) /\ due' \subseteq due
      BY <1>3, <2>1, <2>2, <2>5
    <3>2. FirstOf(rdq, wrq, st, "DONE")
      BY <2>1, <2>4, <2>5, <3>1 DEF FirstOf, t
    <3>3. EffectAt(st)
      BY <1>1, <3>2, FirstAnswers
    <3> QED
      BY <1>2, <2>1, <2>5, <3>1, <3>3, ServeStep DEF UnitsAfter, SameUnit
  <2>6. CASE ~full
    BY <1>6, <2>1, <2>2, <2>4, <2>6
  <2> QED
    BY <2>5, <2>6
<1>8. CASE WriteData(st)
  <2> DEFINE t == Head(wrq[st])
             s == stub[st].fd
             want == task[t].size - task[t].cur
             n == IF sock[s].room < want THEN sock[s].room ELSE want
             full == Completes(t, n)
  <2>1. /\ wrq[st] # <<>> /\ rdq' = rdq
        /\ task' = [task EXCEPT ![t] =
                     IF full THEN [[task[t] EXCEPT !.cur = @ + n] EXCEPT !.status = "DONE"]
                     ELSE [task[t] EXCEPT !.cur = @ + n]]
        /\ full => /\ wrq' = [wrq EXCEPT ![st] = Tail(@)]
                   /\ doneq' = [doneq EXCEPT ![st] = Append(@, t)]
                   /\ avail' = AppendNew(avail, st) /\ TimerDel({t})
        /\ ~full => UNCHANGED <<wrq, doneq, avail, timerVars>>
    BY <1>8 DEF WriteData, CallsWrite, MakeAvail
  <2>2. t \in Range(wrq[st]) /\ t \in Tasks
    BY <1>1, <2>1, TailRange, RangeOfSeq
  <2>3. full \in BOOLEAN
    BY DEF Completes
  <2> HIDE DEF t, n, full
  <2>4. /\ SameRequest(t) /\ \A u \in Tasks \ {t} : task'[u] = task[u]
        /\ full => task'[t].status = "DONE"
        /\ ~full => task'[t].status = task[t].status
    BY <1>5, <2>1, <2>2, <2>3
  <2>5. CASE full
    <3>1. UnitsAfter(st, {t}) /\ SameUnit(st) /\ due' \subseteq due
      BY <1>3, <2>1, <2>2, <2>5
    <3>2. FirstOf(wrq, rdq, st, "DONE")
      BY <2>1, <2>4, <2>5, <3>1 DEF FirstOf, t
    <3>3. EffectAt(st)
      BY <1>1, <3>2, FirstAnswers
    <3> QED
      BY <1>2, <2>1, <2>5, <3>1, <3>3, ServeStep DEF UnitsAfter, SameUnit
  <2>6. CASE ~full
    BY <1>6, <2>1, <2>2, <2>4, <2>6
  <2> QED
    BY <2>5, <2>6
<1> QED
  BY <1>7, <1>8

(* read() and write() have nothing more to do. *)
LEMMA NothingLeft ==
    ASSUME KInv, IInv', NEW st \in Stubs, ReadLeave(st) \/ WriteLeave(st) \/ WriteEagain(st)
    PROVE  KInv' /\ StepSafe
<1>1. TypeInv /\ stub \in [Stubs -> StubState]
  BY DEF KInv, IInv, TypeInv, TypeOK, StubTypeOK
<1>2. /\ pc \in {"read", "write"} /\ todo # <<>> /\ st = Head(todo)
      /\ pc' = pc /\ todo' = Tail(todo)
      /\ UNCHANGED <<rdq, wrq, doneq, task, avail, due>>
  BY DEF ReadLeave, WriteLeave, WriteEagain, CallsWrite, Reading, Writing,
         NextReadable, NextWriteable, queueVars, listVars, timerVars
<1>3. stub' = stub \/ stub' = [stub EXCEPT ![st].status = @ \ {"WRITEABLE"}]
  BY DEF ReadLeave, WriteLeave, WriteEagain
<1>4. /\ \A x \in Stubs \ {st} : stub'[x] = stub[x]
      /\ stub'[st].fd = stub[st].fd /\ stub'[st].timed = stub[st].timed
      /\ stub'[st].status \subseteq stub[st].status
  BY <1>1, <1>3, DropsFlag
<1>5. /\ UnitsAfter(st, {})
      /\ st \in armed' => st \in armed \/ stub[st].timed
      /\ st \in armed /\ ~ClockStepsBack => st \in armed'
  <2>1. armed' = armed \ {} \/ \E after \in ActiveStub(st) : armed' = after \ {}
    BY DEF ReadLeave, WriteLeave, WriteEagain, timerVars
  <2> QED
    BY <2>1, UnitsTaken DEF SameUnit
<1>6. EffectAt(st)
  BY <1>2, <1>5 DEF EffectAt, Resting, OtherTasks, UnitsAfter
<1>7. todo' # todo
  BY <1>1, <1>2, NextStub DEF KInv
<1> QED
  BY <1>2, <1>4, <1>5, <1>6, <1>7, ServeStep DEF UnitsAfter

(* All read requests are answered as the connection is closed. *)
LEMMA ClosedSteps ==
    ASSUME KInv, IInv', NEW st \in Stubs, ReadEof(st) \/ ReadClosed(st)
    PROVE  KInv' /\ StepSafe
<1>1. /\ TypeInv /\ Owned /\ stub \in [Stubs -> StubState] /\ "ECLOSED" \in Results
      /\ rdq[st] \in Seq(Tasks) /\ Range(rdq[st]) \subseteq Tasks
  BY QueueRanges DEF KInv, IInv, TypeInv, TypeOK, StubTypeOK, Results
<1>2. /\ pc = "read" /\ todo # <<>> /\ st = Head(todo)
      /\ pc' = pc /\ todo' = Tail(todo) /\ rdq[st] # <<>>
      /\ TasksDone(st, rdq[st], "ECLOSED")
      /\ rdq' = [rdq EXCEPT ![st] = <<>>] /\ wrq' = wrq
  BY DEF ReadEof, ReadClosed, CallsRead, Reading, NextReadable
<1>3. \/ stub' = stub
      \/ stub' = [stub EXCEPT ![st].status = (@ \ {"READABLE"}) \cup {"CLOSED"}]
  BY DEF ReadEof, ReadClosed
<1>4. /\ \A x \in Stubs \ {st} : stub'[x] = stub[x]
      /\ stub'[st].fd = stub[st].fd /\ stub'[st].timed = stub[st].timed
      /\ stub'[st].status \subseteq stub[st].status \cup {"CLOSED"}
  <2>1. CASE stub' = stub
    BY <2>1
  <2>2. CASE stub' = [stub EXCEPT ![st].status = (@ \ {"READABLE"}) \cup {"CLOSED"}]
    BY <1>1, <2>2, DropsFlag
  <2> QED
    BY <1>3, <2>1, <2>2
<1>5. /\ UnitsAfter(st, Range(rdq[st])) /\ due' \subseteq due
      /\ st \in armed' => st \in armed \/ stub[st].timed
      /\ st \in armed /\ ~ClockStepsBack => st \in armed'
  <2>1. /\ due' \subseteq due
        /\ \/ armed' = armed \ Range(rdq[st])
           \/ \E after \in ActiveStub(st) : armed' = after \ Range(rdq[st])
    BY DEF ReadEof, ReadClosed, TimerDel
  <2> QED
    BY <1>1, <2>1, UnitsTaken DEF SameUnit
<1>6. /\ doneq' = [doneq EXCEPT ![st] = @ \o rdq[st]]
      /\ task' = [t \in Tasks |-> IF t \in Range(rdq[st])
                                  THEN [task[t] EXCEPT !.status = "ECLOSED"]
                                  ELSE task[t]]
      /\ avail' = AppendNew(avail, st)
  BY <1>2 DEF TasksDone
<1>7. EffectAt(st)
  <2>1. AllOf(rdq[st], st, "ECLOSED")
    BY <1>2, <1>5, <1>6 DEF AllOf
  <2> QED
    BY <1>1, <2>1, AllAnswers
<1>8. todo' # todo
  BY <1>1, <1>2, NextStub DEF KInv
<1> QED
  BY <1>2, <1>4, <1>5, <1>6, <1>7, <1>8, ServeStep DEF UnitsAfter

LEMMA ReadEagainStep ==
    ASSUME KInv, IInv', NEW st \in Stubs, ReadEagain(st)
    PROVE  KInv' /\ StepSafe
<1> DEFINE t == Head(rdq[st])
           part == ~task[t].all /\ task[t].cur > 0
           ts == IF part THEN <<t>> ELSE <<>>
<1>1. /\ TypeInv /\ Owned /\ stub \in [Stubs -> StubState] /\ "PART_DONE" \in Results
      /\ rdq[st] \in Seq(Tasks) /\ DOMAIN rdq = Stubs /\ DOMAIN doneq = Stubs
      /\ task \in [Tasks -> TaskState]
  BY QueueRanges DEF KInv, IInv, TypeInv, TypeOK, StubTypeOK, TaskTypeOK, Results
<1>2. /\ pc = "read" /\ todo # <<>> /\ st = Head(todo)
      /\ pc' = pc /\ todo' = Tail(todo) /\ rdq[st] # <<>> /\ wrq' = wrq /\ due' = due
      /\ stub' = [stub EXCEPT ![st].status = @ \ {"READABLE"}]
  BY DEF ReadEagain, CallsRead, Reading, NextReadable
<1>3. /\ TasksDone(st, ts, "PART_DONE")
      /\ rdq' = [rdq EXCEPT ![st] = IF part THEN Tail(@) ELSE @]
      /\ \E after \in ActiveStub(st) : armed' = after \ Range(ts)
  BY DEF ReadEagain
<1>4. t \in Tasks
  BY <1>1, <1>2, TailRange, RangeOfSeq
<1>5. /\ \A x \in Stubs \ {st} : stub'[x] = stub[x]
      /\ stub'[st].fd = stub[st].fd /\ stub'[st].timed = stub[st].timed
      /\ stub'[st].status \subseteq stub[st].status
  BY <1>1, <1>2, DropsFlag
<1>6. todo' # todo
  BY <1>1, <1>2, NextStub DEF KInv
<1>7. part \in BOOLEAN
  OBVIOUS
<1> HIDE DEF t, part
<1>8. CASE part
  <2>1. /\ TasksDone(st, <<t>>, "PART_DONE") /\ Range(<<t>>) = {t}
        /\ rdq' = [rdq EXCEPT ![st] = Tail(@)]
    BY <1>3, <1>4, <1>8, SingleRange
  <2>2. \E after \in ActiveStub(st) : armed' = after \ {t}
    BY <1>3, <1>8, <2>1
  <2>3. /\ doneq' = [doneq EXCEPT ![st] = @ \o <<t>>]
        /\ SameRequest(t) /\ task'[t].status = "PART_DONE"
        /\ \A u \in Tasks \ {t} : task'[u] = task[u]
        /\ avail' = AppendNew(avail, st)
    BY <1>1, <1>4, <2>1, OneDone
  <2>4. /\ UnitsAfter(st, {t})
        /\ st \in armed' => st \in armed \/ stub[st].timed
        /\ st \in armed /\ ~ClockStepsBack => st \in armed'
    BY <1>4, <2>2, UnitsTaken
  <2>5. EffectAt(st)
    <3>1. FirstOf(rdq, wrq, st, "PART_DONE")
      BY <1>2, <2>1, <2>3, <2>4 DEF FirstOf, t
    <3> QED
      BY <1>1, <3>1, FirstAnswers
  <2> QED
    BY <1>2, <1>5, <1>6, <2>3, <2>4, <2>5, ServeStep DEF UnitsAfter
<1>9. CASE ~part
  <2>1. TasksDone(st, <<>>, "PART_DONE") /\ rdq' = [rdq EXCEPT ![st] = @]
    BY <1>3, <1>9
  <2>2. Range(<<>>) = {}
    BY <1>1, EmptyRange
  <2>3. \E after \in ActiveStub(st) : armed' = after \ {}
    BY <1>3, <1>9, <2>2
  <2>4. /\ doneq' = [doneq EXCEPT ![st] = @ \o <<>>] /\ avail' = avail
        /\ task' = [u \in Tasks |-> task[u]]
    BY <2>1, <2>2 DEF TasksDone
  <2>5. rdq' = rdq /\ doneq' = doneq /\ task' = task
    <3>1. doneq[st] \o <<>> = doneq[st]
      BY QueueRanges, <1>1, ConcatEmptySeq
    <3>2. rdq \in [Stubs -> Seq(Tasks)] /\ doneq \in [Stubs -> Seq(Tasks)]
      BY <1>1 DEF TypeInv, TypeOK, TaskTypeOK
    <3>3. rdq' = rdq
      BY <2>1, <3>2
    <3>4. doneq' = doneq
      BY <2>4, <3>1, <3>2
    <3>5. task' = task
      BY <1>1, <2>4
    <3> QED
      BY <3>3, <3>4, <3>5
  <2>6. /\ UnitsAfter(st, {})
        /\ st \in armed' => st \in armed \/ stub[st].timed
        /\ st \in armed /\ ~ClockStepsBack => st \in armed'
    BY <2>3, UnitsTaken
  <2>7. EffectAt(st)
    BY <1>2, <2>5, <2>6 DEF EffectAt, Resting, OtherTasks, UnitsAfter
  <2> QED
    BY <1>2, <1>5, <1>6, <2>4, <2>5, <2>6, <2>7, ServeStep DEF UnitsAfter
<1> QED
  BY <1>7, <1>8, <1>9

(* A connection waits to be accepted. *)
LEMMA ReadListenStep ==
    ASSUME KInv, IInv', NEW st \in Stubs, ReadListen(st)
    PROVE  KInv' /\ StepSafe
<1>1. /\ TypeInv /\ Owned /\ Loops /\ \A x \in Stubs : StubOK(x)
      /\ stub \in [Stubs -> StubState] /\ DOMAIN doneq = Stubs /\ DOMAIN task = Tasks
  BY DEF KInv, IInv, TypeInv, TypeOK, StubTypeOK, TaskTypeOK
<1>2. /\ pc = "read" /\ todo # <<>> /\ st = Head(todo)
      /\ pc' = pc /\ todo' = Tail(todo) /\ UNCHANGED <<rdq, wrq, armed, due>>
      /\ stub' = [stub EXCEPT ![st].status = @ \ {"READABLE"}]
  BY DEF ReadListen, timerVars
<1>3. ~Dying(st)
  BY <1>1, <1>2, ServedStub
<1>4. /\ \A x \in Stubs \ {st} : stub'[x] = stub[x]
      /\ stub'[st].fd = stub[st].fd /\ stub'[st].timed = stub[st].timed
      /\ stub'[st].status \subseteq stub[st].status
  BY <1>1, <1>2, DropsFlag
<1>5. todo' # todo
  BY <1>1, <1>2, NextStub DEF KInv
<1>6. CASE UNCHANGED <<task, doneq, avail>>
  <2>1. EffectAt(st)
    BY <1>2, <1>6 DEF EffectAt, Resting, OtherTasks, SameUnit
  <2> QED
    BY <1>2, <1>4, <1>5, <1>6, <2>1, ServeStep DEF SameUnit
<1>7. ASSUME NEW t \in FreeTasks,
             task' = [task EXCEPT ![t] =
               [NewTask(st, "ACCEPT", 0, FALSE, FALSE) EXCEPT !.status = "DONE"]],
             doneq' = [doneq EXCEPT ![st] = Append(@, t)],
             MakeAvail(st)
      PROVE  KInv' /\ StepSafe
  <2>1. t \in Tasks /\ task[t].stub = NULL
    BY DEF FreeTasks
  <2>2. Announcing(st, t)
    BY <1>1, <1>2, <1>3, <1>7, <2>1
       DEF Announcing, OtherQueues, OtherTasks, SameUnit, NewTask
  <2>3. EffectAt(st)
    BY <2>1, <2>2 DEF EffectAt
  <2>4. avail' = AppendNew(avail, st)
    BY <1>7 DEF MakeAvail
  <2> QED
    BY <1>2, <1>4, <1>5, <2>3, <2>4, ServeStep DEF SameUnit
<1> QED
  BY <1>6, <1>7 DEF ReadListen

-----------------------------------------------------------------------------
(* A stub dies. *)

LEMMA DyingLive ==
    ASSUME KInv, NEW st \in Stubs, Dying(st)
    PROVE  Live(st)
<1>1. StubOK(st) /\ PollListsAlive /\ ListsMatchStatus
  BY DEF KInv, IInv
<1>2. CASE Unsettled(st)
  BY <1>1, <1>2 DEF Unsettled, PollListsAlive, ListsMatchStatus, LiveStubs
<1>3. CASE st \in Range(avail)
  BY <1>1, <1>3 DEF StubOK
<1> QED
  BY <1>1, <1>2, <1>3 DEF StubOK

(* DO_WITH_ERROR.  While the timer loop has not run, the requests that a   *)
(* broken stub leaves unanswered are those of a stub in elist.             *)
LEMMA BreakSteps ==
    ASSUME KInv, IInv', NEW st \in Stubs,
           \/ ReadError(st) \/ WriteError(st)
           \/ \E e \in evts : e.st = st /\ EventError(e)
    PROVE  KInv' /\ StepSafe
<1>1. /\ TypeInv /\ Owned /\ Loops /\ TaskUnits /\ \A x \in Stubs : StubOK(x)
      /\ stub \in [Stubs -> StubState]
  BY DEF KInv, IInv, TypeInv, TypeOK, StubTypeOK
<1>2. /\ pc' = pc /\ DoWithError(st) /\ UNCHANGED <<rdq, wrq, doneq, task, avail>>
      /\ \/ pc = "events" /\ todo' = todo
         \/ /\ pc \in {"read", "write"}
            /\ todo # <<>> /\ st = Head(todo) /\ todo' = Tail(todo)
      /\ due' \subseteq due
  BY DEF ReadError, WriteError, EventError, CallsRead, CallsWrite, Reading, Writing,
         NextReadable, NextWriteable, queueVars, TimerDel
<1>3. Live(st)
  <2>1. CASE pc = "events"
    <3>1. \E e \in evts : e.st = st
      BY <2>1 DEF ReadError, WriteError, CallsRead, CallsWrite, Reading, Writing
    <3> QED
      BY <3>1 DEF KInv, IInv, EventInv, FetchedAlive
  <2>2. CASE pc \in {"read", "write"}
    BY <1>1, <1>2, <2>2, ServedStub
  <2> QED
    BY <1>2, <2>1, <2>2
<1>4. /\ \A x \in Stubs \ {st} : stub'[x] = stub[x]
      /\ stub'[st].fd = stub[st].fd /\ stub'[st].timed = stub[st].timed
      /\ stub'[st].status = {"ERROR"}
  BY <1>1, <1>2, DropsFlag DEF DoWithError
<1>5. Live(st)' /\ Dying(st)' /\ \E f \in Fatal : stub'[st].status = {f}
  BY <1>3, <1>4 DEF Live, Dying, Fatal
<1>6. UnitsAfter(st, {}) /\ (st \in armed' => st \in armed \/ stub[st].timed)
  <2>1. CASE ReadError(st)
    <3>1. \E after \in ActiveStub(st) : armed' = after \ {}
      BY <2>1 DEF ReadError
    <3> QED
      BY <3>1, UnitsTaken
  <2>2. CASE ~ReadError(st)
    <3>1. armed' = armed \ ({st} \cup {})
      BY <2>2 DEF WriteError, EventError, TimerDel
    <3> QED
      BY <3>1, UnitsTaken
  <2> QED
    BY <2>1, <2>2
<1>7. OthersStay(st)
  BY <1>2, <1>4, <1>6 DEF OthersStay, UnitsAfter, SameUnit
<1>8. VisitStep(st)
  <2>1. CASE pc = "events" /\ todo' = todo
    <3>1. pc' = pc /\ todo' = todo /\ todo = <<>>
      BY <1>1, <1>2, <2>1 DEF Loops
    <3> QED
      BY <3>1 DEF VisitStep
  <2>2. CASE todo # <<>> /\ st = Head(todo) /\ todo' = Tail(todo)
    BY <1>2, <2>2 DEF VisitStep
  <2> QED
    BY <1>2, <2>1, <2>2
<1>9. UnitsStep
  BY <1>1, <1>2 DEF UnitsStep, TaskUnits
<1>10. EffectAt(st)
  BY <1>2, <1>6 DEF EffectAt, Resting, OtherTasks, UnitsAfter
<1>11. StubOK(st)'
  <2>1. StubOK(st)
    BY <1>1
  <2>2. Unsettled(st)'
    BY <1>2, <1>4 DEF Unsettled
  <2>3. doneq'[st] # <<>> => st \in Range(avail')
    BY <1>2, <2>1 DEF StubOK
  <2>4. st \in armed' => stub'[st].timed
    BY <1>4, <1>6, <2>1 DEF StubOK
  <2> QED
    BY <1>4, <1>5, <2>2, <2>3, <2>4 DEF StubOK
<1> QED
  BY <1>5, <1>7, <1>8, <1>9, <1>10, <1>11, StepKeeps DEF StepAt

(* A stub that was live or free is cleaned, and all its requests answered. *)
LEMMA AbandonSteps ==
    ASSUME KInv, IInv', NEW st \in Stubs, NEW s, NEW f \in Fatal, NEW result \in Results,
           Abandon(st, s, result), UNCHANGED pollVars, todo = <<>>,
           \A x \in Stubs \ {st} : stub'[x] = stub[x],
           Live(st)', stub'[st].status = {f}
    PROVE  KInv' /\ StepSafe
<1> DEFINE pending == rdq[st] \o wrq[st]
<1>1. /\ TypeInv /\ Owned /\ Loops /\ TaskUnits /\ \A x \in Stubs : StubOK(x)
      /\ rdq[st] \in Seq(Tasks) /\ wrq[st] \in Seq(Tasks) /\ DOMAIN rdq = Stubs
      /\ DOMAIN wrq = Stubs
  BY QueueRanges DEF KInv, IInv, TypeInv, TypeOK, TaskTypeOK
<1>2. Range(pending) \in SUBSET Tasks
  BY <1>1, ConcatProperties, RangeOfSeq
<1>3. /\ rdq' = [rdq EXCEPT ![st] = <<>>] /\ wrq' = [wrq EXCEPT ![st] = <<>>]
      /\ doneq' = [doneq EXCEPT ![st] = @ \o pending]
      /\ task' = [t \in Tasks |-> IF t \in Range(pending)
                                  THEN [task[t] EXCEPT !.status = result]
                                  ELSE task[t]]
      /\ avail' = AppendNew(avail, st)
      /\ armed' = armed \ ({st} \cup Range(pending))
      /\ due' = due \ ({st} \cup Range(pending))
      /\ pc' = pc /\ todo' = todo
  BY DEF Abandon, MakeAvail, TimerDel, pollVars
<1>4. UnitsAfter(st, Range(pending)) /\ st \notin armed'
  <2> HIDE DEF pending
  <2> QED
    BY <1>2, <1>3, UnitsTaken
<1>5. EffectAt(st)
  <2>1. AllOf(pending, st, result)
    BY <1>3, <1>4 DEF AllOf
  <2> QED
    BY <1>1, <2>1, AllAnswers
<1> HIDE DEF pending
<1>6. OthersStay(st)
  BY <1>1, <1>3, <1>4, AvailAfter DEF OthersStay, UnitsAfter, SameUnit
<1>7. VisitStep(st)
  <2>1. pc' = pc /\ todo' = todo /\ todo = <<>>
    BY <1>3
  <2> QED
    BY <2>1 DEF VisitStep
<1>8. UnitsStep
  BY <1>1, <1>3 DEF UnitsStep, TaskUnits
<1>9. Dying(st)'
  BY DEF Dying
<1>10. StubOK(st)'
  <2>1. rdq'[st] = <<>> /\ wrq'[st] = <<>> /\ st \in Range(avail')
    BY <1>1, <1>3, AvailAfter
  <2> QED
    BY <1>4, <1>9, <2>1 DEF StubOK
<1> QED
  BY <1>5, <1>6, <1>7, <1>8, <1>9, <1>10, StepKeeps DEF StepAt

(* An idle timeout. *)
LEMMA TimerSockStep ==
    ASSUME KInv, IInv', NEW st \in Stubs, TimerSock(st)
    PROVE  KInv' /\ StepSafe
<1>1. /\ TypeInv /\ Loops /\ TaskUnits /\ StubOK(st) /\ stub \in [Stubs -> StubState]
  BY DEF KInv, IInv, TypeInv, TypeOK, StubTypeOK
<1>2. /\ pc = "timer" /\ st \in due
      /\ stub' = [stub EXCEPT ![st].status = {"IDLE"}]
      /\ Abandon(st, stub[st].fd, "EIDLE") /\ UNCHANGED pollVars
  BY DEF TimerSock
<1>3. todo = <<>> /\ Live(st)
  BY <1>1, <1>2 DEF Loops, TaskUnits, StubOK
<1>4. /\ \A x \in Stubs \ {st} : stub'[x] = stub[x]
      /\ stub'[st].fd = stub[st].fd /\ stub'[st].status = {"IDLE"}
  BY <1>1, <1>2, DropsFlag
<1>5. Live(st)' /\ "EIDLE" \in Results /\ "IDLE" \in Fatal
  BY <1>3, <1>4 DEF Live, Results, Fatal
<1> QED
  BY <1>2, <1>3, <1>4, <1>5, AbandonSteps

(* epex_detach, and a connect that fails. *)
LEMMA DetachSteps ==
    ASSUME KInv, IInv', NEW s \in Socks,
           \/ Detach(s)
           \/ \E link \in {"none", "connecting", "up"} : ConnectFail(s, link)
    PROVE  KInv' /\ StepSafe
<1>1. /\ TypeInv /\ Loops /\ HashAgrees /\ stub \in [Stubs -> StubState]
      /\ hash \in [Socks -> Stubs \cup {NULL}]
      /\ pc = "app" /\ todo = <<>> /\ s # NULL
  BY KernelAssumption DEF KInv, IInv, TypeInv, TypeOK, StubTypeOK, Detach, ConnectFail, Loops
<1>2. "EDETACHED" \in Results /\ "DETACHED" \in Fatal
  BY DEF Results, Fatal
<1>3. CASE DetachStub(s)
  <2> PICK st \in Stubs : st = hash[s]
    BY <1>1, <1>3 DEF DetachStub, Open
  <2>1. /\ stub' = [stub EXCEPT ![st].status = {"DETACHED"}]
        /\ Abandon(st, s, "EDETACHED") /\ UNCHANGED pollVars
    BY <1>3 DEF DetachStub
  <2>2. /\ \A x \in Stubs \ {st} : stub'[x] = stub[x]
        /\ stub'[st].fd = stub[st].fd /\ stub'[st].status = {"DETACHED"}
    BY <1>1, <2>1, DropsFlag
  <2>3. Live(st)'
    BY <1>1, <1>3, <2>2 DEF DetachStub, Open, HashAgrees, Live
  <2> QED
    BY <1>1, <1>2, <2>1, <2>2, <2>3, AbandonSteps
<1>4. CASE ~DetachStub(s)
  <2> PICK st \in FreeStubs :
        /\ stub' = [stub EXCEPT ![st] = [NewStub(s, FALSE, FALSE) EXCEPT !.status = {"DETACHED"}]]
        /\ Abandon(st, s, "EDETACHED")
    BY <1>4 DEF Detach, ConnectFail
  <2>1. st \in Stubs /\ UNCHANGED pollVars
    BY <1>4 DEF FreeStubs, Detach, ConnectFail
  <2>2. /\ \A x \in Stubs \ {st} : stub'[x] = stub[x]
        /\ stub'[st].fd = s /\ stub'[st].status = {"DETACHED"}
    BY <1>1, <2>1 DEF NewStub, FreeStub
  <2>3. Live(st)'
    BY <1>1, <2>2 DEF Live
  <2> QED
    BY <1>1, <1>2, <2>1, <2>2, <2>3, AbandonSteps
<1> QED
  BY <1>3, <1>4

(* The requests of a broken stub. *)
LEMMA ErrorFlushStep ==
    ASSUME KInv, IInv', NEW st \in Stubs, ErrorFlush(st)
    PROVE  KInv' /\ StepSafe
<1> DEFINE pending == rdq[st] \o wrq[st]
<1>1. /\ TypeInv /\ Owned /\ Loops /\ TaskUnits /\ \A x \in Stubs : StubOK(x)
      /\ rdq[st] \in Seq(Tasks) /\ wrq[st] \in Seq(Tasks) /\ DOMAIN rdq = Stubs
      /\ DOMAIN wrq = Stubs
  BY QueueRanges DEF KInv, IInv, TypeInv, TypeOK, TaskTypeOK
<1>2. Range(pending) \in SUBSET Tasks
  BY <1>1, ConcatProperties, RangeOfSeq
<1>3. /\ rdq' = [rdq EXCEPT ![st] = <<>>] /\ wrq' = [wrq EXCEPT ![st] = <<>>]
      /\ doneq' = [doneq EXCEPT ![st] = @ \o pending]
      /\ task' = [t \in Tasks |-> IF t \in Range(pending)
                                  THEN [task[t] EXCEPT !.status = "ERROR"]
                                  ELSE task[t]]
      /\ avail' = AppendNew(avail, st)
      /\ armed' = armed \ Range(pending) /\ due' = due \ Range(pending)
      /\ pc = "error" /\ todo # <<>> /\ st = Head(todo)
      /\ pc' = pc /\ todo' = Tail(todo) /\ stub' = stub
  BY DEF ErrorFlush, MakeAvail, TimerDel
<1>4. UnitsAfter(st, Range(pending)) /\ SameUnit(st)
  <2> HIDE DEF pending
  <2> QED
    BY <1>2, <1>3, UnitsTaken
<1>5. EffectAt(st)
  <2>1. AllOf(pending, st, "ERROR") /\ "ERROR" \in Results
    BY <1>3, <1>4 DEF AllOf, Results
  <2> QED
    BY <1>1, <2>1, AllAnswers
<1> HIDE DEF pending
<1>6. OthersStay(st)
  BY <1>1, <1>3, <1>4, AvailAfter DEF OthersStay, UnitsAfter, SameUnit
<1>7. VisitStep(st)
  BY <1>3 DEF VisitStep
<1>8. UnitsStep
  BY <1>1, <1>3 DEF UnitsStep, TaskUnits
<1>9. Live(st) /\ Live(st)' /\ (Dying(st) => Dying(st)')
  BY <1>1, <1>3, NextStub DEF Live, Dying
<1>10. StubOK(st)'
  <2>1. rdq'[st] = <<>> /\ wrq'[st] = <<>> /\ st \in Range(avail')
    BY <1>1, <1>3, AvailAfter
  <2>2. StubOK(st)
    BY <1>1
  <2> QED
    BY <1>3, <1>4, <1>9, <2>1, <2>2 DEF StubOK, SameUnit, Dying, Live
<1> QED
  BY <1>5, <1>6, <1>7, <1>8, <1>9, <1>10, StepKeeps DEF StepAt

-----------------------------------------------------------------------------
(* Timers and results. *)

LEMMA TimerTaskStep ==
    ASSUME KInv, IInv', NEW st \in Stubs, NEW t \in Tasks, TimerTask(st, t)
    PROVE  KInv' /\ StepSafe
<1>1. /\ TypeInv /\ Owned /\ Loops /\ TaskUnits /\ \A x \in Stubs : StubOK(x)
      /\ rdq[st] \in Seq(Tasks) /\ wrq[st] \in Seq(Tasks) /\ doneq[st] \in Seq(Tasks)
      /\ DOMAIN rdq = Stubs /\ DOMAIN wrq = Stubs /\ DOMAIN doneq = Stubs
      /\ task \in [Tasks -> TaskState]
  BY QueueRanges DEF KInv, IInv, TypeInv, TypeOK, TaskTypeOK
<1>2. /\ pc = "timer" /\ t \in due /\ task[t].stub = st
      /\ rdq' = [rdq EXCEPT ![st] = Unlink(@, t)]
      /\ wrq' = [wrq EXCEPT ![st] = Unlink(@, t)]
      /\ doneq' = [doneq EXCEPT ![st] = Append(@, t)]
      /\ task' = [task EXCEPT ![t].status = "ETIMEOUT"]
      /\ avail' = AppendNew(avail, st)
      /\ armed' = armed \ {t} /\ due' = due \ {t}
      /\ pc' = pc /\ todo' = todo /\ stub' = stub
  BY DEF TimerTask, MakeAvail, TimerDel, pollVars
<1>3. task[t].status = "" /\ t \in armed
  BY <1>1, <1>2 DEF TaskUnits, Pending
<1>4. /\ t \in Range(rdq[st]) \/ t \in Range(wrq[st])
      /\ t \notin Range(doneq[st])
      /\ NoDuplicates(rdq[st]) /\ NoDuplicates(wrq[st]) /\ NoDuplicates(doneq[st])
  BY <1>1, <1>2, <1>3 DEF Owned
<1>5. Live(st) /\ ~Dying(st)
  <2>1. rdq[st] # <<>> \/ wrq[st] # <<>>
    BY <1>1, <1>4, EmptyRange
  <2>2. ~Unsettled(st)
    BY <1>2 DEF Unsettled
  <2>3. Live(st)
    <3>1. InUse(t) /\ task[t].stub = st
      BY <1>2, KernelAssumption DEF InUse
    <3> QED
      BY <1>1, <3>1 DEF Owned
  <2>4. StubOK(st)
    BY <1>1
  <2> QED
    BY <2>1, <2>2, <2>3, <2>4 DEF StubOK
<1>6. UnitsAfter(st, {t}) /\ SameUnit(st)
  BY <1>2, UnitsTaken
<1>7. EffectAt(st)
  <2>1. /\ NoDuplicates(Unlink(rdq[st], t)) /\ Range(Unlink(rdq[st], t)) = Range(rdq[st]) \ {t}
        /\ NoDuplicates(Unlink(wrq[st], t)) /\ Range(Unlink(wrq[st], t)) = Range(wrq[st]) \ {t}
    BY <1>1, <1>4, UnlinkRange, UnlinkNoDuplicates
  <2>2. /\ NoDuplicates(Append(doneq[st], t))
        /\ Range(Append(doneq[st], t)) = Range(doneq[st]) \cup {t}
    BY <1>1, <1>4, AppendRange
  <2>3. /\ rdq'[st] = Unlink(rdq[st], t) /\ wrq'[st] = Unlink(wrq[st], t)
        /\ doneq'[st] = Append(doneq[st], t) /\ OtherQueues(st)
    BY <1>1, <1>2 DEF OtherQueues
  <2>4. /\ SameRequest(t) /\ task'[t].status = "ETIMEOUT" /\ t \notin armed'
        /\ OtherTasks({t})
    <3>1. task[t] \in TaskState /\ task'[t] = [task[t] EXCEPT !.status = "ETIMEOUT"]
      BY <1>1, <1>2
    <3>2. SameRequest(t) /\ task'[t].status = "ETIMEOUT"
      BY <3>1 DEF SameRequest, TaskState
    <3> QED
      BY <1>1, <1>2, <1>6, <3>2 DEF OtherTasks, UnitsAfter
  <2>5. Answering(st, {t}, "ETIMEOUT") /\ "ETIMEOUT" \in Results
    BY <1>2, <1>3, <2>1, <2>2, <2>3, <2>4 DEF Answering, Results
  <2> QED
    BY <2>5 DEF EffectAt
<1>8. OthersStay(st)
  BY <1>1, <1>2, <1>6, AvailAfter DEF OthersStay, UnitsAfter, SameUnit
<1>9. VisitStep(st)
  <2>1. pc' = pc /\ todo' = todo /\ todo = <<>>
    BY <1>1, <1>2 DEF Loops
  <2> QED
    BY <2>1 DEF VisitStep
<1>10. UnitsStep
  BY <1>1, <1>2 DEF UnitsStep, TaskUnits
<1>11. Live(st)' /\ ~Dying(st)'
  BY <1>2, <1>5 DEF Live, Dying
<1>12. StubOK(st)'
  <2>1. StubOK(st) /\ st \in Range(avail')
    BY <1>1, <1>2, AvailAfter
  <2> QED
    BY <1>2, <1>5, <1>6, <1>11, <2>1 DEF StubOK, SameUnit
<1> QED
  BY <1>5, <1>7, <1>8, <1>9, <1>10, <1>11, <1>12, StepKeeps DEF StepAt

(* Results are handed out, or the stub is passed over. *)
LEMMA FillSteps ==
    ASSUME KInv, IInv', NEW st \in Stubs, FillSilent(st) \/ FillResults(st)
    PROVE  KInv' /\ StepSafe
<1>1. /\ TypeInv /\ Owned /\ Loops /\ TaskUnits /\ \A x \in Stubs : StubOK(x)
      /\ doneq[st] \in Seq(Tasks) /\ NoDuplicates(doneq[st]) /\ NoDuplicates(avail)
      /\ Range(doneq[st]) \subseteq Tasks
      /\ DOMAIN doneq = Stubs /\ avail \in Seq(Stubs) /\ left \in Nat
  BY QueueRanges, TypeInvParts DEF KInv, IInv, TypeInv, TypeOK, TaskTypeOK, ListTypeOK,
     PollTypeOK, Owned, ListsMatchStatus
<1>2. /\ pc = "fill" /\ todo # <<>> /\ st = Head(todo)
      /\ pc' = pc /\ todo' = Tail(todo) /\ UNCHANGED <<stub, rdq, wrq, armed, due>>
  BY DEF FillSilent, FillResults, Filling, queueVars, timerVars
<1>3. Live(st) /\ Live(st)' /\ (Dying(st)' <=> Dying(st)) /\ ~Unsettled(st)
  BY <1>1, <1>2, NextStub DEF Live, Dying, Unsettled
<1>4. VisitStep(st)
  BY <1>2 DEF VisitStep
<1>5. UnitsStep
  BY <1>1, <1>2 DEF UnitsStep, TaskUnits
<1>6. CASE FillSilent(st)
  <2>1. UNCHANGED <<doneq, task, avail>>
    BY <1>6 DEF FillSilent, queueVars, listVars
  <2>2. EffectAt(st) /\ OthersStay(st)
    BY <1>2, <2>1 DEF EffectAt, Resting, OtherTasks, SameUnit, OthersStay
  <2>3. StubOK(st)'
    <3>1. StubOK(st)
      BY <1>1
    <3> QED
      BY <1>2, <1>3, <2>1, <3>1 DEF StubOK
  <2> QED
    BY <1>3, <1>4, <1>5, <2>2, <2>3, StepKeeps DEF StepAt
<1>7. CASE FillResults(st)
  <2> DEFINE n == IF left < Len(doneq[st]) THEN left ELSE Len(doneq[st])
             front == SubSeq(doneq[st], 1, n)
             back == SubSeq(doneq[st], n + 1, Len(doneq[st]))
  <2>1. /\ doneq' = [doneq EXCEPT ![st] = back]
        /\ task' = [t \in Tasks |-> IF t \in Range(front) THEN FreeTask ELSE task[t]]
        /\ avail' = IF n = Len(doneq[st]) /\ ~Dying(st) THEN Unlink(avail, st) ELSE avail
    BY <1>7 DEF FillResults, Deliver
  <2>2. n \in 0..Len(doneq[st])
    BY <1>1, LenProperties
  <2>3. /\ front \in Seq(Tasks)
        /\ Range(doneq[st]) = Range(front) \cup Range(back)
        /\ NoDuplicates(back) /\ Range(back) = Range(doneq[st]) \ Range(front)
        /\ back = <<>> <=> n = Len(doneq[st])
    <3> HIDE DEF n
    <3> QED
      BY <1>1, <2>2, CutRange
  <2> HIDE DEF n, front, back
  <2>4. Range(front) \in SUBSET Tasks
    BY <1>1, <2>3
  <2>5. Delivering(st, Range(front))
    <3>1. \A t \in Range(front) : task[t].stub = st /\ task[t].status # ""
      BY <1>1, <2>3, <2>4 DEF Owned
    <3>2. doneq'[st] = back /\ OtherQueues(st)
      BY <1>1, <1>2, <2>1 DEF OtherQueues
    <3>3. /\ \A t \in Range(front) : task'[t] = FreeTask
          /\ OtherTasks(Range(front)) /\ \A t : SameUnit(t)
      BY <1>2, <2>1, <2>4 DEF OtherTasks, SameUnit
    <3> QED
      BY <1>2, <2>3, <3>1, <3>2, <3>3 DEF Delivering
  <2>6. EffectAt(st)
    BY <2>4, <2>5 DEF EffectAt
  <2>7. OthersStay(st)
    BY <1>1, <1>2, <2>1, AvailAfter DEF OthersStay
  <2>8. StubOK(st)'
    <3>1. StubOK(st) /\ doneq'[st] = back
      BY <1>1, <2>1
    <3>2. doneq'[st] # <<>> => st \in Range(avail')
      <4>1. ASSUME back # <<>> PROVE doneq[st] # <<>> /\ avail' = avail
        <5>1. n # Len(doneq[st]) /\ Len(doneq[st]) # 0
          BY <1>1, <2>2, <2>3, <4>1, LenProperties
        <5> QED
          BY <2>1, <5>1, EmptySeq
      <4> QED
        BY <3>1, <4>1 DEF StubOK
    <3>3. Dying(st) => st \in Range(avail') /\ rdq'[st] = <<>> /\ wrq'[st] = <<>>
      BY <1>2, <1>3, <2>1, <3>1 DEF StubOK
    <3> QED
      BY <1>2, <1>3, <3>1, <3>2, <3>3 DEF StubOK
  <2> QED
    BY <1>3, <1>4, <1>5, <2>6, <2>7, <2>8, StepKeeps DEF StepAt
<1> QED
  BY <1>6, <1>7

(* NOTIFY, and the stub is freed: nothing is owed. *)
LEMMA FillNotifyStep ==
    ASSUME KInv, IInv', NEW st \in Stubs, FillNotify(st)
    PROVE  KInv' /\ StepSafe
<1>1. /\ TypeInv /\ Owned /\ Loops /\ TaskUnits /\ \A x \in Stubs : StubOK(x)
      /\ NoDuplicates(avail) /\ avail \in Seq(Stubs) /\ stub \in [Stubs -> StubState]
      /\ rdq \in [Stubs -> Seq(Tasks)] /\ wrq \in [Stubs -> Seq(Tasks)]
      /\ doneq \in [Stubs -> Seq(Tasks)]
  BY TypeInvParts DEF KInv, IInv, TypeInv, TypeOK, StubTypeOK, TaskTypeOK, ListTypeOK,
     ListsMatchStatus
<1>2. /\ pc = "fill" /\ todo # <<>> /\ st = Head(todo) /\ Dying(st) /\ doneq[st] = <<>>
      /\ stub' = [stub EXCEPT ![st] = FreeStub]
      /\ rdq' = [rdq EXCEPT ![st] = <<>>] /\ wrq' = [wrq EXCEPT ![st] = <<>>]
      /\ doneq' = [doneq EXCEPT ![st] = <<>>]
      /\ avail' = Unlink(avail, st) /\ task' = task
      /\ armed' = armed \ {st} /\ due' = due \ {st}
      /\ pc' = pc /\ todo' = Tail(todo)
  BY DEF FillNotify, Filling, Finished, FreeUnit, TimerDel
<1>3. rdq[st] = <<>> /\ wrq[st] = <<>> /\ Live(st)
  <2>1. ~Unsettled(st)
    BY <1>2 DEF Unsettled
  <2> QED
    BY <1>1, <1>2, <2>1 DEF StubOK
<1>4. rdq' = rdq /\ wrq' = wrq /\ doneq' = doneq
  BY <1>1, <1>2, <1>3
<1>5. UnitsAfter(st, {}) /\ st \notin armed'
  <2>1. armed' = armed \ ({st} \cup {})
    BY <1>2
  <2> QED
    BY <2>1, UnitsTaken
<1>6. Resting /\ EffectAt(st)
  BY <1>2, <1>4, <1>5 DEF EffectAt, Resting, OtherTasks, UnitsAfter
<1>7. /\ \A x \in Stubs \ {st} : stub'[x] = stub[x]
      /\ stub'[st] = FreeStub /\ ~Live(st)' /\ ~Dying(st)'
  BY <1>1, <1>2 DEF FreeStub, Live, Dying
<1>8. OthersStay(st) /\ st \notin Range(avail')
  <2>1. st \notin Range(avail')
    BY <1>1, <1>2, UnlinkNoDuplicates
  <2> QED
    BY <1>1, <1>2, <1>5, <1>7, <2>1, AvailAfter DEF OthersStay, UnitsAfter, SameUnit
<1>9. VisitStep(st)
  BY <1>2 DEF VisitStep
<1>10. \A t \in Tasks : task[t].stub # st
  <2>1. Range(<<>>) = {}
    BY <1>1, EmptyRange
  <2> QED
    BY <1>1, <1>2, <1>3, <2>1 DEF Owned
<1>11. Owned'
  <2>1. ASSUME NEW t \in Tasks, InUse(t)' PROVE Live(task[t].stub)'
    <3>1. InUse(t) /\ task'[t] = task[t] /\ task[t].stub \in Stubs \ {st}
      BY <1>1, <1>2, <1>10, <2>1 DEF InUse, TypeInv, TypeOK, TaskTypeOK, TaskState
    <3>2. Live(task[t].stub) /\ stub'[task[t].stub] = stub[task[t].stub]
      BY <1>1, <1>7, <3>1 DEF Owned
    <3> QED
      BY <3>1, <3>2 DEF Live
  <2> QED
    BY <1>1, <1>6, <2>1, OwnedStep
<1>12. TaskUnits'
  <2>1. due = {}
    BY <1>1, <1>2 DEF TaskUnits
  <2> QED
    BY <1>1, <1>2, <1>6, <2>1, TaskUnitsStep
<1>13. Loops' /\ \A x \in Stubs \ {st} : x \in Range(todo) => x \in Range(todo')
  BY <1>1, <1>8, <1>9, LoopsStep
<1>14. ASSUME NEW x \in Stubs PROVE StubOK(x)'
  <2>1. CASE x = st
    BY <1>2, <1>3, <1>4, <1>5, <1>7, <1>8, <2>1 DEF StubOK
  <2>2. CASE x # st
    BY <1>1, <1>2, <1>4, <1>8, <1>13, <2>2, StubStays DEF OthersStay
  <2> QED
    BY <2>1, <2>2
<1>15. StepSafe
  BY <1>2, <1>3, <1>6, <1>7 DEF StepSafe, Live, Dying
<1> QED
  BY <1>11, <1>12, <1>13, <1>14, <1>15 DEF KInv

-----------------------------------------------------------------------------
(* The calls. *)

(* Outside epex_poll a stub that is open or new gets a request, an idle    *)
(* timer, or nothing.                                                      *)
LEMMA CallStep ==
    ASSUME KInv, IInv', NEW st \in Stubs,
           todo = <<>>, UNCHANGED <<doneq, avail, due, pc, todo>>,
           \A x \in Stubs \ {st} : stub'[x] = stub[x],
           \A x \in Stubs \ {st} : SameUnit(x),
           Live(st)', ~Dying(st), ~Dying(st)',
           st \in armed' => stub'[st].timed,
           stub'[st].timed /\ ~ClockStepsBack => st \in armed',
           armed \subseteq armed', EffectAt(st)
    PROVE  KInv' /\ StepSafe
<1>1. TypeInv /\ Owned /\ TaskUnits /\ StubOK(st)
  BY DEF KInv, IInv
<1>2. OthersStay(st)
  BY DEF OthersStay, SameUnit
<1>3. VisitStep(st)
  <2>1. pc' = pc /\ todo' = todo /\ todo = <<>>
    OBVIOUS
  <2> QED
    BY <2>1 DEF VisitStep
<1>4. UnitsStep
  BY <1>1 DEF UnitsStep, TaskUnits
<1>5. StubOK(st)'
  BY <1>1 DEF StubOK
<1> QED
  BY <1>2, <1>3, <1>4, <1>5, StepKeeps DEF StepAt

LEMMA FreeStubEmpty ==
    ASSUME KInv, NEW st \in FreeStubs
    PROVE  st \in Stubs /\ ~Live(st) /\ ~Dying(st) /\ st \notin armed
<1>1. st \in Stubs /\ ~Live(st) /\ StubOK(st)
  BY DEF FreeStubs, KInv
<1> QED
  BY <1>1, DyingLive DEF StubOK

(* epex_attach, epex_listen. *)
LEMMA AttachSteps ==
    ASSUME KInv, IInv', NEW s \in Socks, NEW timed \in BOOLEAN,
           Attach(s, timed) \/ Listen(s)
    PROVE  KInv' /\ StepSafe
<1>1. TypeInv /\ Loops /\ stub \in [Stubs -> StubState] /\ s # NULL
  BY KernelAssumption DEF KInv, IInv, TypeInv, TypeOK, StubTypeOK
<1> PICK st \in FreeStubs :
      \/ /\ stub' = [stub EXCEPT ![st] = NewStub(s, FALSE, timed)]
         /\ armed' = IF timed THEN armed \cup {st} ELSE armed
      \/ /\ stub' = [stub EXCEPT ![st] = NewStub(s, TRUE, FALSE)]
         /\ armed' = armed
  BY DEF Attach, Listen, timerVars
<1>2. st \in Stubs /\ ~Dying(st) /\ st \notin armed
  BY FreeStubEmpty
<1>3. /\ pc = "app" /\ UNCHANGED <<rdq, wrq, doneq, task, avail, due, pc, todo>>
      /\ todo = <<>>
  BY <1>1 DEF Attach, Listen, queueVars, listVars, timerVars, pollVars, Loops
<1>4. /\ \A x \in Stubs \ {st} : stub'[x] = stub[x]
      /\ stub'[st].fd = s /\ stub'[st].status = {}
      /\ st \in armed' <=> stub'[st].timed
  BY <1>1, <1>2 DEF NewStub, FreeStub
<1>5. Live(st)' /\ ~Dying(st)'
  BY <1>1, <1>4 DEF Live, Dying
<1>6. armed \subseteq armed' /\ \A u : u # st => SameUnit(u)
  BY DEF SameUnit
<1>7. EffectAt(st)
  <2>1. \A t \in Tasks : t # st
    BY <1>2, EpexAssumption
  <2> QED
    BY <1>3, <1>6, <2>1 DEF EffectAt, Resting, OtherTasks
<1> QED
  BY <1>2, <1>3, <1>4, <1>5, <1>6, <1>7, CallStep

(* The stub of an open socket. *)
LEMMA OpenStub ==
    ASSUME KInv, NEW s \in Socks, hash[s] # NULL
    PROVE  hash[s] \in Stubs /\ Live(hash[s]) /\ stub[hash[s]].fd = s
<1>1. hash[s] \in Stubs /\ s # NULL /\ HashAgrees
  BY KernelAssumption DEF KInv, IInv, TypeInv, TypeOK, StubTypeOK
<1> QED
  BY <1>1 DEF HashAgrees, Live

(* epex_read, epex_read_any, epex_write. *)
LEMMA SubmitStep ==
    ASSUME KInv, IInv', NEW s \in Socks, NEW r \in Requests, Submit(s, r)
    PROVE  KInv' /\ StepSafe
<1> PICK st \in Stubs : st = hash[s] /\ Live(st) /\ ~Dying(st)
  BY OpenStub DEF Submit, Open
<1>1. /\ TypeInv /\ Owned /\ Loops /\ StubOK(st)
      /\ pc = "app"
      /\ UNCHANGED <<stub, doneq, avail, due, pc, todo>>
  BY DEF KInv, IInv, Submit, listVars, pollVars
<1>2. PICK t \in FreeTasks :
        /\ task' = [task EXCEPT ![t] = NewTask(st, r.op, r.size, r.all, r.timed)]
        /\ armed' = IF r.timed THEN armed \cup {t} ELSE armed
        /\ IF r.op = "READ"
           THEN rdq' = [rdq EXCEPT ![st] = Append(@, t)] /\ UNCHANGED wrq
           ELSE wrq' = [wrq EXCEPT ![st] = Append(@, t)] /\ UNCHANGED rdq
  BY DEF Submit, Enqueue
<1>3. t \in Tasks /\ task[t].stub = NULL /\ \A x \in Stubs : x # t
  BY EpexAssumption DEF FreeTasks
<1>4. todo = <<>>
  BY <1>1 DEF Loops
<1>5. t \notin armed
  BY <1>3 DEF KInv, TaskUnits, Pending, InUse
<1>6. \A u : u # t => SameUnit(u)
  BY <1>2 DEF SameUnit
<1>7. EffectAt(st)
  <2>1. task \in [Tasks -> TaskState] /\ DOMAIN rdq = Stubs /\ DOMAIN wrq = Stubs
    BY <1>1 DEF TypeInv, TypeOK, TaskTypeOK
  <2>2. /\ task'[t].stub = st /\ task'[t].status = "" /\ task'[t].op = r.op
        /\ task'[t].timed = r.timed /\ OtherTasks({t})
    BY <1>2, <1>3, <1>6, <2>1 DEF OtherTasks, NewTask
  <2>3. OtherQueues(st)
    BY <1>1, <1>2, <2>1 DEF OtherQueues
  <2>4. t \in armed' <=> r.timed
    BY <1>2, <1>5
  <2>5. \/ r.op = "READ" /\ rdq'[st] = Append(rdq[st], t) /\ wrq' = wrq
        \/ r.op # "READ" /\ wrq'[st] = Append(wrq[st], t) /\ rdq' = rdq
    BY <1>1, <1>2, <2>1
  <2>6. Requesting(st, t)
    BY <1>1, <1>3, <2>2, <2>3, <2>4, <2>5 DEF Requesting
  <2> QED
    BY <1>3, <2>6 DEF EffectAt
<1>8. Live(st)' /\ ~Dying(st)'
  BY <1>1 DEF Live, Dying
<1>9. /\ \A x \in Stubs : SameUnit(x)
      /\ armed \subseteq armed'
  BY <1>2, <1>3, <1>6
<1>10. /\ st \in armed' => stub'[st].timed
       /\ stub'[st].timed /\ ~ClockStepsBack => st \in armed'
  BY <1>1, <1>9 DEF StubOK, SameUnit
<1> QED
  BY <1>1, <1>4, <1>7, <1>8, <1>9, <1>10, CallStep

(* epex_connect. *)
LEMMA ConnectStep ==
    ASSUME KInv, IInv', NEW s \in Socks, NEW timed \in IdleTimers,
           NEW link \in {"connecting", "up"}, Connect(s, timed, link)
    PROVE  KInv' /\ StepSafe
<1>1. PICK st \in (IF hash[s] = NULL THEN FreeStubs ELSE {hash[s]}),
           t \in FreeTasks, connectTimed \in BOOLEAN :
        /\ hash' = [hash EXCEPT ![s] = st]
        /\ LET attached == IF hash[s] = NULL THEN NewStub(s, FALSE, timed)
                                             ELSE stub[st]
           IN stub' = [stub EXCEPT ![st] =
                IF link = "up" THEN [attached EXCEPT !.status = @ \cup {"WRITEABLE"}]
                               ELSE attached]
        /\ wlist' = IF link = "up" THEN Append(wlist, st) ELSE wlist
        /\ task' = [task EXCEPT ![t] = NewTask(st, "CONNECT", 0, FALSE, connectTimed)]
        /\ wrq' = [wrq EXCEPT ![st] = Append(@, t)]
        /\ armed' = armed \cup (IF connectTimed THEN {t} ELSE {})
                          \cup (IF hash[s] = NULL /\ timed THEN {st} ELSE {})
        /\ sock' = [sock EXCEPT ![s].link = link]
        /\ reg' = [reg EXCEPT ![s] = st]
        /\ ready' = ready \cup {s}
  BY DEF Connect, Enqueue
<1>2. /\ TypeInv /\ Owned /\ Loops /\ s # NULL /\ pc = "app"
      /\ UNCHANGED <<rdq, doneq, avail, due, pc, todo>>
      /\ stub \in [Stubs -> StubState] /\ task \in [Tasks -> TaskState]
      /\ DOMAIN wrq = Stubs
      /\ hash[s] # NULL => Open(s)
      /\ timed \in BOOLEAN
  BY KernelAssumption, EpexAssumption
     DEF KInv, IInv, Connect, TypeInv, TypeOK, StubTypeOK, TaskTypeOK, pollVars
<1>3. st \in Stubs /\ ~Dying(st) /\ StubOK(st)
  <2>1. CASE hash[s] = NULL
    BY <2>1, FreeStubEmpty DEF KInv
  <2>2. CASE hash[s] # NULL
    BY <1>2, <2>2, OpenStub DEF Open, KInv
  <2> QED
    BY <2>1, <2>2
<1>4. t \in Tasks /\ task[t].stub = NULL /\ t \notin armed /\ \A x \in Stubs : x # t
  BY EpexAssumption DEF FreeTasks, KInv, TaskUnits, Pending, InUse
<1>5. \A x \in Stubs \ {st} : stub'[x] = stub[x]
  BY <1>1, <1>2, <1>3
<1>6. /\ stub'[st].fd = s
      /\ stub'[st].status \subseteq stub[st].status \cup {"WRITEABLE"}
      /\ stub'[st].timed = IF hash[s] = NULL THEN timed ELSE stub[st].timed
  <2>1. CASE hash[s] = NULL
    <3> DEFINE attached == NewStub(s, FALSE, timed)
               new == IF link = "up" THEN [attached EXCEPT !.status = @ \cup {"WRITEABLE"}]
                                     ELSE attached
    <3>1. stub' = [stub EXCEPT ![st] = new]
      BY <1>1, <2>1
    <3>2. new.fd = s /\ new.status \subseteq {"WRITEABLE"} /\ new.timed = timed
      BY DEF NewStub, FreeStub
    <3> HIDE DEF new
    <3> QED
      BY <1>2, <1>3, <2>1, <3>1, <3>2
  <2>2. CASE hash[s] # NULL
    <3>1. /\ stub[st] \in StubState /\ stub[st].fd = s
          /\ \/ stub'[st] = stub[st]
             \/ stub'[st] = [stub[st] EXCEPT !.status = stub[st].status \cup {"WRITEABLE"}]
      BY <1>1, <1>2, <1>3, <2>2, OpenStub
    <3> QED
      BY <2>2, <3>1 DEF StubState
  <2> QED
    BY <2>1, <2>2
<1>7. Live(st)' /\ ~Dying(st)'
  BY <1>2, <1>3, <1>6 DEF Live, Dying, Fatal
<1>8. todo = <<>>
  BY <1>2 DEF Loops
<1>9. \A u : u # t /\ u # st => SameUnit(u)
  BY <1>1 DEF SameUnit
<1>10. armed \subseteq armed' /\ \A x \in Stubs \ {st} : SameUnit(x)
  BY <1>1, <1>4, <1>9
<1>11. EffectAt(st)
  <2>1. /\ task'[t].stub = st /\ task'[t].status = "" /\ task'[t].op = "CONNECT"
        /\ task'[t].timed = connectTimed
        /\ \A u \in Tasks \ {t} : task'[u] = task[u]
    BY <1>1, <1>2, <1>4 DEF NewTask
  <2>2. OtherTasks({t})
    BY <1>3, <1>9, <2>1, EpexAssumption DEF OtherTasks
  <2>3. OtherQueues(st) /\ wrq'[st] = Append(wrq[st], t)
    BY <1>1, <1>2, <1>3 DEF OtherQueues
  <2>4. t \in armed' <=> connectTimed
    BY <1>1, <1>3, <1>4
  <2>5. Requesting(st, t)
    BY <1>2, <1>3, <1>4, <2>1, <2>2, <2>3, <2>4 DEF Requesting
  <2> QED
    BY <1>4, <2>5 DEF EffectAt
<1>12. /\ st \in armed' => stub'[st].timed
       /\ stub'[st].timed /\ ~ClockStepsBack => st \in armed'
  <2>1. CASE hash[s] = NULL
    <3>1. st \notin armed
      BY <2>1, FreeStubEmpty
    <3> QED
      BY <1>1, <1>3, <1>4, <1>6, <2>1, <3>1
  <2>2. CASE hash[s] # NULL
    <3>1. Live(st) /\ (st \in armed' <=> st \in armed)
      BY <1>1, <1>3, <1>4, <2>2, OpenStub
    <3> QED
      BY <1>3, <1>6, <2>2, <3>1 DEF StubOK
  <2> QED
    BY <2>1, <2>2
<1> QED
  BY <1>2, <1>3, <1>5, <1>7, <1>8, <1>10, <1>11, <1>12, CallStep

(* epex_enable_notify, epex_disable_notify; events that are not errors. *)
LEMMA MarkSteps ==
    ASSUME KInv, IInv', NEW st \in Stubs,
           \/ \E s \in Socks, silent \in BOOLEAN : st = hash[s] /\ SetSilence(s, silent)
           \/ \E e \in evts : e.st = st /\ EventReady(e)
    PROVE  KInv' /\ StepSafe
<1>1. /\ TypeInv /\ Owned /\ Loops /\ TaskUnits /\ StubOK(st)
      /\ stub \in [Stubs -> StubState]
  BY DEF KInv, IInv, TypeInv, TypeOK, StubTypeOK
<1>2. /\ pc \in {"app", "events"}
      /\ UNCHANGED <<rdq, wrq, doneq, task, avail, armed, due, pc, todo>>
  BY DEF SetSilence, EventReady, queueVars, listVars, timerVars, pollVars
<1>3. todo = <<>>
  BY <1>1, <1>2 DEF Loops
<1>4. /\ \A x \in Stubs \ {st} : stub'[x] = stub[x]
      /\ stub'[st].fd = stub[st].fd /\ stub'[st].timed = stub[st].timed
      /\ Live(st)
      /\ \/ stub'[st].status = stub[st].status
         \/ ~Dying(st) /\ stub'[st].status \subseteq stub[st].status \cup {"READABLE", "WRITEABLE"}
  <2>1. CASE \E s \in Socks, silent \in BOOLEAN : st = hash[s] /\ SetSilence(s, silent)
    <3> PICK s \in Socks, silent \in BOOLEAN : st = hash[s] /\ SetSilence(s, silent)
      BY <2>1
    <3>1. stub' = [stub EXCEPT ![st].silent = silent] /\ Live(st)
      BY OpenStub DEF SetSilence
    <3>2. stub[st] \in StubState /\ stub'[st] = [stub[st] EXCEPT !.silent = silent]
      BY <1>1, <3>1
    <3>3. /\ stub'[st].fd = stub[st].fd /\ stub'[st].timed = stub[st].timed
          /\ stub'[st].status = stub[st].status
      BY <3>2 DEF StubState
    <3> QED
      BY <1>1, <3>1, <3>3
  <2>2. CASE \E e \in evts : e.st = st /\ EventReady(e)
    <3> PICK e \in evts : e.st = st /\ EventReady(e)
      BY <2>2
    <3> DEFINE new == EventFlags(e.mask) \ stub[st].status
    <3>1. stub' = [stub EXCEPT ![st].status = stub[st].status \cup new]
      BY DEF EventReady
    <3>2. Live(st) /\ ~Dying(st) /\ new \subseteq {"READABLE", "WRITEABLE"}
      BY DEF KInv, IInv, EventInv, FetchedAlive, EventFlags
    <3> HIDE DEF new
    <3>3. /\ \A x \in Stubs \ {st} : stub'[x] = stub[x]
          /\ stub'[st].fd = stub[st].fd /\ stub'[st].timed = stub[st].timed
          /\ stub'[st].status = stub[st].status \cup new
      BY <1>1, <3>1, DropsFlag
    <3> QED
      BY <3>2, <3>3
  <2> QED
    BY <2>1, <2>2
<1>5. Live(st)' /\ (Dying(st)' <=> Dying(st)) /\ (Dying(st) => stub'[st].status = stub[st].status)
  BY <1>4 DEF Live, Dying, Fatal
<1>6. EffectAt(st) /\ OthersStay(st)
  BY <1>2, <1>4 DEF EffectAt, Resting, OtherTasks, SameUnit, OthersStay
<1>7. VisitStep(st)
  <2>1. pc' = pc /\ todo' = todo /\ todo = <<>>
    BY <1>2, <1>3
  <2> QED
    BY <2>1 DEF VisitStep
<1>8. UnitsStep
  BY <1>1, <1>2 DEF UnitsStep, TaskUnits
<1>9. StubOK(st)'
  <2>1. Dying(st) => (Unsettled(st)' <=> Unsettled(st))
    BY <1>2, <1>5 DEF Unsettled
  <2> QED
    BY <1>1, <1>2, <1>4, <1>5, <2>1 DEF StubOK
<1> QED
  BY <1>5, <1>6, <1>7, <1>8, <1>9, StepKeeps DEF StepAt

-----------------------------------------------------------------------------
(* The steps that leave stubs, requests and the timer alone.               *)
LEMMA StillStep ==
    ASSUME KInv, IInv', UNCHANGED <<stub, rdq, wrq, doneq, task, avail, armed>>,
           due' \subseteq armed, due' # {} => pc' = "timer", Loops',
           \A st \in Stubs : Unsettled(st) => Unsettled(st)'
    PROVE  KInv' /\ StepSafe
<1>1. Owned' /\ TaskUnits'
  BY DEF KInv, Owned, TaskUnits, InUse, Live, Pending
<1>2. \A st \in Stubs : StubOK(st)'
  BY DEF KInv, StubOK, Live, Dying
<1>3. StepSafe
  BY DEF StepSafe, Resting, OtherTasks, SameUnit, Live, Dying
<1> QED
  BY <1>1, <1>2, <1>3 DEF KInv

(* From one loop of epex_poll to the next. *)
LEMMA PhasesKeep ==
    ASSUME KInv, IInv',
           \/ EventsEnd \/ ReadEnd \/ WriteEnd \/ TimerEnd \/ PollEnd
           \/ \E expired \in SUBSET armed : TimerTimeout(expired)
    PROVE  KInv' /\ StepSafe
<1>1. /\ TaskUnits /\ Loops /\ ListsMatchStatus /\ PollListsAlive
      /\ \A st \in Stubs : StubOK(st)
      /\ Range(rlist) \subseteq Stubs /\ Range(wlist) \subseteq Stubs
      /\ Range(elist) \subseteq Stubs /\ Range(avail) \subseteq Stubs
  BY RangeOfSeq, TypeInvParts DEF KInv, IInv, ListTypeOK
<1>2. UNCHANGED <<stub, rdq, wrq, doneq, task, avail, armed>>
  BY DEF EventsEnd, ReadEnd, WriteEnd, TimerEnd, PollEnd, TimerTimeout, Phase,
         queueVars, listVars, timerVars
<1>3. /\ due' \subseteq armed
      /\ due' # {} => pc' = "timer"
  BY <1>1 DEF TaskUnits, EventsEnd, ReadEnd, WriteEnd, TimerEnd, PollEnd,
              TimerTimeout, Phase, timerVars
<1>4. /\ \A st \in Range(rlist) : Live(st) /\ "READABLE" \in stub[st].status
      /\ \A st \in Range(wlist) : Live(st) /\ "WRITEABLE" \in stub[st].status
      /\ \A st \in Range(elist) : Live(st) /\ "ERROR" \in stub[st].status
      /\ \A st \in Range(avail) : Live(st)
      /\ NoDuplicates(rlist) /\ NoDuplicates(wlist)
      /\ NoDuplicates(elist) /\ NoDuplicates(avail)
  BY <1>1 DEF ListsMatchStatus, PollListsAlive, LiveStubs, StubOK
<1>5. NoDuplicates(<<>>) /\ Range(<<>>) = {}
  BY DEF Range, NoDuplicates, IsInjective
<1>6. CASE EventsEnd
  <2>1. pc = "events" /\ pc' = "read" /\ todo' = rlist
    BY <1>6 DEF EventsEnd, Phase
  <2>2. Loops'
    BY <1>2, <1>4, <2>1 DEF Loops, LoopFlag, Live
  <2>3. \A st \in Stubs : Unsettled(st) => Unsettled(st)'
    BY <1>2, <2>1 DEF Unsettled
  <2> QED
    BY <1>2, <1>3, <2>2, <2>3, StillStep
<1>7. CASE ReadEnd
  <2>1. pc = "read" /\ pc' = "write" /\ todo' = wlist
    BY <1>7 DEF ReadEnd, Phase
  <2>2. Loops'
    BY <1>2, <1>4, <2>1 DEF Loops, LoopFlag, Live
  <2>3. \A st \in Stubs : Unsettled(st) => Unsettled(st)'
    BY <1>2, <2>1 DEF Unsettled
  <2> QED
    BY <1>2, <1>3, <2>2, <2>3, StillStep
<1>8. CASE WriteEnd
  <2>1. pc = "write" /\ pc' = "error" /\ todo' = elist
    BY <1>8 DEF WriteEnd, Phase
  <2>2. Loops'
    BY <1>2, <1>4, <2>1 DEF Loops, LoopFlag, Live
  <2>3. \A st \in Stubs : Unsettled(st) => Unsettled(st)'
    BY <1>1, <1>2, <2>1 DEF Unsettled, ListsMatchStatus
  <2> QED
    BY <1>2, <1>3, <2>2, <2>3, StillStep
<1>9. CASE \E expired \in SUBSET armed : TimerTimeout(expired)
  <2>1. pc = "error" /\ pc' = "timer" /\ todo = <<>> /\ todo' = <<>>
    BY <1>9 DEF TimerTimeout, Phase
  <2>2. Loops'
    BY <1>5, <2>1 DEF Loops
  <2>3. \A st \in Stubs : ~Unsettled(st)
    BY <1>5, <2>1 DEF Unsettled
  <2> QED
    BY <1>2, <1>3, <2>2, <2>3, StillStep
<1>10. CASE TimerEnd
  <2>1. pc = "timer" /\ pc' = "fill" /\ todo' = avail
    BY <1>10 DEF TimerEnd, Phase
  <2>2. Loops'
    BY <1>2, <1>4, <2>1 DEF Loops, LoopFlag, Live
  <2>3. \A st \in Stubs : ~Unsettled(st)
    BY <2>1 DEF Unsettled
  <2> QED
    BY <1>2, <1>3, <2>2, <2>3, StillStep
<1>11. CASE PollEnd
  <2>1. pc = "fill" /\ pc' = "app" /\ todo = <<>> /\ todo' = <<>>
    BY <1>11 DEF PollEnd
  <2>2. Loops'
    BY <1>5, <2>1 DEF Loops
  <2>3. \A st \in Stubs : ~Unsettled(st)
    BY <2>1 DEF Unsettled
  <2> QED
    BY <1>2, <1>3, <2>2, <2>3, StillStep
<1> QED
  BY <1>6, <1>7, <1>8, <1>9, <1>10, <1>11

(* The peers, the sockets of the application, epoll_wait, and no step.     *)
LEMMA OutsideKeep ==
    ASSUME KInv, IInv',
           \/ \E s \in Socks : Accept(s) \/ \E fresh \in {UpSock, NewSock} : Reopen(s, fresh)
           \/ Poll \/ PeerStep \/ UNCHANGED vars
    PROVE  KInv' /\ StepSafe
<1>1. TaskUnits /\ Loops
  BY DEF KInv
<1>2. /\ UNCHANGED <<stub, rdq, wrq, doneq, task, avail, armed, due, todo>>
      /\ pc' = pc \/ (pc = "app" /\ pc' = "events")
  BY DEF Accept, Reopen, Poll, PollStart, PeerStep, vars, queueVars, listVars,
         timerVars, pollVars
<1>3. due' \subseteq armed /\ (due' # {} => pc' = "timer")
  BY <1>1, <1>2 DEF TaskUnits
<1>4. Loops'
  <2>1. CASE pc' = pc
    BY <1>1, <1>2, <2>1 DEF Loops, LoopFlag, Live
  <2>2. CASE pc = "app" /\ pc' = "events"
    <3>1. todo' = <<>> /\ NoDuplicates(<<>>) /\ Range(<<>>) = {}
      BY <1>1, <1>2, <2>2 DEF Loops, Range, NoDuplicates, IsInjective
    <3> QED
      BY <3>1 DEF Loops
  <2> QED
    BY <1>2, <2>1, <2>2
<1>5. \A st \in Stubs : Unsettled(st) => Unsettled(st)'
  BY <1>2 DEF Unsettled
<1> QED
  BY <1>2, <1>3, <1>4, <1>5, StillStep

-----------------------------------------------------------------------------
LEMMA KInvInit == Init => KInv
<1> SUFFICES ASSUME Init PROVE KInv
  OBVIOUS
<1>1. NoDuplicates(<<>>) /\ Range(<<>>) = {}
  BY DEF Range, NoDuplicates, IsInjective
<1>2. /\ IInv /\ pc = "app" /\ todo = <<>> /\ armed = {} /\ due = {} /\ avail = <<>>
      /\ \A st \in Stubs : rdq[st] = <<>> /\ wrq[st] = <<>> /\ doneq[st] = <<>>
      /\ \A t \in Tasks : task[t].stub = NULL
      /\ \A st \in Stubs : ~Live(st) /\ ~Dying(st) /\ st # NULL
  BY IInvInit, KernelAssumption DEF Init, FreeStub, FreeTask, Live, Dying
<1>3. Owned
  BY <1>1, <1>2 DEF Owned, InUse
<1>4. TaskUnits /\ Loops
  BY <1>1, <1>2 DEF TaskUnits, Loops, Pending, InUse
<1>5. \A st \in Stubs : StubOK(st)
  BY <1>1, <1>2 DEF StubOK
<1> QED
  BY <1>2, <1>3, <1>4, <1>5 DEF KInv

LEMMA KInvNext == KInv /\ [Next]_vars => KInv' /\ StepSafe
<1> SUFFICES ASSUME KInv, [Next]_vars PROVE KInv' /\ StepSafe
  OBVIOUS
<1> IInv'
  BY IInvNext DEF KInv
<1>1. CASE Application
  <2> PICK s \in Socks :
        \/ \E timed \in IdleTimers :
            \/ Attach(s, timed)
            \/ \E link \in {"connecting", "up"} : Connect(s, timed, link)
        \/ Listen(s)
        \/ Detach(s)
        \/ \E r \in Requests : Submit(s, r)
        \/ \E link \in {"none", "connecting", "up"} : ConnectFail(s, link)
        \/ \E silent \in BOOLEAN : SetSilence(s, silent)
        \/ Accept(s)
        \/ \E fresh \in {UpSock, NewSock} : Reopen(s, fresh)
    BY <1>1 DEF Application
  <2>1. CASE \E timed \in IdleTimers : Attach(s, timed)
    BY <2>1, AttachSteps, EpexAssumption
  <2>2. CASE Listen(s)
    BY <2>2, AttachSteps
  <2>3. CASE \E timed \in IdleTimers, link \in {"connecting", "up"} : Connect(s, timed, link)
    BY <2>3, ConnectStep
  <2>4. CASE Detach(s) \/ \E link \in {"none", "connecting", "up"} : ConnectFail(s, link)
    BY <2>4, DetachSteps
  <2>5. CASE \E r \in Requests : Submit(s, r)
    BY <2>5, SubmitStep
  <2>6. CASE \E silent \in BOOLEAN : SetSilence(s, silent)
    <3>1. hash[s] \in Stubs
      BY <2>6, OpenStub DEF SetSilence
    <3> QED
      BY <2>6, <3>1, MarkSteps
  <2>7. CASE Accept(s) \/ \E fresh \in {UpSock, NewSock} : Reopen(s, fresh)
    BY <2>7, OutsideKeep
  <2> QED
    BY <2>1, <2>2, <2>3, <2>4, <2>5, <2>6, <2>7
<1>2. CASE PollStep
  <2>1. CASE \E e \in evts : EventError(e) \/ EventReady(e)
    <3> PICK e \in evts : EventError(e) \/ EventReady(e)
      BY <2>1
    <3>1. e.st \in Stubs
      BY DEF KInv, IInv, TypeInv, TypeOK, PollTypeOK
    <3> QED
      BY <3>1, BreakSteps, MarkSteps
  <2>2. CASE \E st \in Stubs : ReadListen(st)
    BY <2>2, ReadListenStep
  <2>3. CASE \E st \in Stubs : ReadData(st) \/ WriteData(st)
    BY <2>3, DataSteps
  <2>4. CASE \E st \in Stubs : ReadNothing(st) \/ WriteNothing(st)
    BY <2>4, NothingSteps
  <2>5. CASE \E st \in Stubs : ReadEagain(st)
    BY <2>5, ReadEagainStep
  <2>6. CASE \E st \in Stubs : ReadEof(st) \/ ReadClosed(st)
    BY <2>6, ClosedSteps
  <2>7. CASE \E st \in Stubs : ReadLeave(st) \/ WriteLeave(st) \/ WriteEagain(st)
    BY <2>7, NothingLeft
  <2>8. CASE \E st \in Stubs : ReadError(st) \/ WriteError(st)
    BY <2>8, BreakSteps
  <2>9. CASE \E st \in Stubs : ErrorFlush(st)
    BY <2>9, ErrorFlushStep
  <2>10. CASE \E st \in Stubs : TimerSock(st)
    BY <2>10, TimerSockStep
  <2>11. CASE \E st \in Stubs, t \in Tasks : TimerTask(st, t)
    BY <2>11, TimerTaskStep
  <2>12. CASE \E st \in Stubs : FillSilent(st) \/ FillResults(st)
    BY <2>12, FillSteps
  <2>13. CASE \E st \in Stubs : FillNotify(st)
    BY <2>13, FillNotifyStep
  <2>14. CASE \/ EventsEnd \/ ReadEnd \/ WriteEnd \/ TimerEnd \/ PollEnd
              \/ \E expired \in SUBSET armed : TimerTimeout(expired)
    BY <2>14, PhasesKeep
  <2> QED
    BY <1>2, <2>1, <2>2, <2>3, <2>4, <2>5, <2>6, <2>7, <2>8, <2>9, <2>10, <2>11,
       <2>12, <2>13, <2>14 DEF PollStep
<1>3. CASE Poll \/ PeerStep \/ UNCHANGED vars
  BY <1>3, OutsideKeep
<1> QED
  BY <1>1, <1>2, <1>3 DEF Next

LEMMA KInvAlways == Spec => []KInv
BY KInvInit, KInvNext, PTL DEF Spec

-----------------------------------------------------------------------------
(* Theorems.                                                               *)

LEMMA QueuesRange ==
    ASSUME TypeInv, NEW st \in Stubs
    PROVE  Range(Queues(st)) = Range(rdq[st]) \cup Range(wrq[st]) \cup Range(doneq[st])
<1>1. rdq[st] \in Seq(Tasks) /\ wrq[st] \in Seq(Tasks) /\ doneq[st] \in Seq(Tasks)
  BY QueueRanges
<1>2. /\ rdq[st] \o wrq[st] \in Seq(Tasks)
      /\ Range(rdq[st] \o wrq[st]) = Range(rdq[st]) \cup Range(wrq[st])
  BY <1>1, RangeConcatenation
<1> DEFINE waiting == rdq[st] \o wrq[st]
<1>3. waiting \in Seq(Tasks) /\ Range(waiting) = Range(rdq[st]) \cup Range(wrq[st])
  BY <1>2
<1>4. Queues(st) = waiting \o doneq[st]
  BY DEF Queues
<1> HIDE DEF waiting
<1>5. Range(waiting \o doneq[st]) = Range(waiting) \cup Range(doneq[st])
  BY <1>1, <1>3, RangeConcatenation
<1> QED
  BY <1>3, <1>4, <1>5

(* Every nettask_t is in exactly one queue, once, of the stub it points to *)
(* and a free one in none; it is in the done queue exactly when it has a   *)
(* result; the stub is not a freed one.                                    *)
THEOREM TasksOwned == Spec => []TaskOwnership
<1>1. ASSUME KInv PROVE TaskOwnership
  <2>1. TypeInv /\ Owned
    BY <1>1 DEF KInv, IInv
  <2>2. ASSUME NEW st \in Stubs PROVE NoDuplicates(Queues(st))
    <3>1. rdq[st] \in Seq(Tasks) /\ wrq[st] \in Seq(Tasks) /\ doneq[st] \in Seq(Tasks)
      BY <2>1, QueueRanges
    <3>2. /\ NoDuplicates(rdq[st]) /\ NoDuplicates(wrq[st]) /\ NoDuplicates(doneq[st])
          /\ Range(rdq[st]) \cap Range(wrq[st]) = {}
          /\ (Range(rdq[st]) \cup Range(wrq[st])) \cap Range(doneq[st]) = {}
      BY <2>1, QueueRanges DEF Owned
    <3>3. /\ rdq[st] \o wrq[st] \in Seq(Tasks) /\ NoDuplicates(rdq[st] \o wrq[st])
          /\ Range(rdq[st] \o wrq[st]) = Range(rdq[st]) \cup Range(wrq[st])
      BY <3>1, <3>2, ConcatNoDuplicates, RangeConcatenation
    <3> QED
      BY <3>1, <3>2, <3>3, ConcatNoDuplicates DEF Queues
  <2>3. ASSUME NEW st \in Stubs, NEW t \in Tasks
        PROVE  t \in Range(Queues(st)) <=> task[t].stub = st
    <3>1. Range(Queues(st)) = Range(rdq[st]) \cup Range(wrq[st]) \cup Range(doneq[st])
      BY <2>1, QueuesRange
    <3>2. task[t].status = "" \/ task[t].status # ""
      OBVIOUS
    <3> QED
      BY <2>1, <3>1, <3>2 DEF Owned
  <2>4. ASSUME NEW st \in Stubs
        PROVE  /\ \A t \in Range(rdq[st]) \cup Range(wrq[st]) : task[t].status = ""
               /\ \A t \in Range(doneq[st]) : task[t].status # ""
    BY <2>1, QueueRanges DEF Owned
  <2> QED
    BY <2>1, <2>2, <2>3, <2>4 DEF TaskOwnership, Owned
<1> QED
  BY <1>1, KInvAlways, PTL

(* The timer holds the units of the timed requests that are pending, of no *)
(* other request, and of the open stubs with an idle timeout; a dying stub *)
(* has one only after a failed read.                                       *)
THEOREM TimersAgree == Spec => []TimersMatch
<1>1. ASSUME KInv PROVE TimersMatch
  <2>1. TaskUnits /\ Units = armed /\ \A st \in Stubs : StubOK(st)
    BY <1>1 DEF KInv, TaskUnits, Units
  <2> QED
    BY <2>1 DEF TimersMatch, TaskUnits, StubOK, LiveStubs
<1> QED
  BY <1>1, KInvAlways, PTL

(* Nothing refers to a freed netstub_t: not the hash table, epoll, an      *)
(* event fetched from it, a list, the loop of epex_poll that is under way, *)
(* or the timer.                                                           *)
THEOREM NothingDangles == Spec => []NoDangling
<1>1. ASSUME KInv PROVE NoDangling
  <2>1. HashAgrees /\ Watched /\ FetchedAlive /\ PollListsAlive
    BY <1>1 DEF KInv, IInv, EventInv
  <2>2. Range(avail) \subseteq Stubs /\ Range(todo) \subseteq Stubs
    BY <1>1, RangeOfSeq DEF KInv, IInv, TypeInv, TypeOK, ListTypeOK, PollTypeOK
  <2>3. Range(avail) \subseteq LiveStubs
    BY <1>1, <2>2 DEF KInv, StubOK, LiveStubs
  <2>4. Range(todo) \subseteq LiveStubs
    BY <1>1, <2>2 DEF KInv, Loops, LiveStubs
  <2>5. Units \cap Stubs \subseteq LiveStubs
    BY <1>1 DEF KInv, TaskUnits, StubOK, LiveStubs, Units
  <2> QED
    BY <2>1, <2>3, <2>4, <2>5 DEF NoDangling
<1> QED
  BY <1>1, KInvAlways, PTL

(* Whatever killed a stub, when epex_poll returns all its requests have    *)
(* been answered, epoll and the lists of what can be read or written do    *)
(* not have it, the hash table still does, and it is where the next        *)
(* epex_poll looks for results; so is every stub that has results.         *)
THEOREM DeathIsSettled == Spec => []DyingSettled
<1>1. ASSUME KInv PROVE DyingSettled
  <2>1. SUFFICES ASSUME pc = "app", NEW st \in Stubs
                 PROVE  /\ Dying(st) \/ doneq[st] # <<>> => st \in Range(avail)
                        /\ Dying(st) =>
                            /\ rdq[st] = <<>> /\ wrq[st] = <<>>
                            /\ \A s \in Socks : reg[s] # st
                            /\ st \notin Range(rlist) \cup Range(wlist)
                            /\ hash[stub[st].fd] = st
    BY DEF DyingSettled
  <2>2. /\ Dying(st) => rdq[st] = <<>> /\ wrq[st] = <<>> /\ st \in Range(avail)
        /\ doneq[st] # <<>> => st \in Range(avail)
    BY <1>1, <2>1 DEF KInv, StubOK, Unsettled
  <2>3. ASSUME Dying(st), NEW s \in Socks PROVE reg[s] # st
    BY <1>1, <2>3, KernelAssumption DEF KInv, IInv, Watched, Open, KernelAssumption
  <2>4. Dying(st) => st \notin Range(rlist) \cup Range(wlist)
    BY <1>1 DEF KInv, StubOK, IInv, ListsMatchStatus, Fatal
  <2>5. Dying(st) => hash[stub[st].fd] = st
    <3>1. Dying(st) => Live(st)
      BY <1>1, <2>2 DEF KInv, StubOK
    <3> QED BY <1>1, <3>1 DEF KInv, IInv, HashAgrees, LiveStubs
  <2> QED BY <2>2, <2>3, <2>4, <2>5
<1> QED
  BY <1>1, KInvAlways, PTL

(* A request that has its result keeps it until it is handed out: no later *)
(* error, timeout or detach of the stub answers it again.                  *)
THEOREM RequestsAnsweredOnce == Spec => AnsweredOnce
<1>1. ASSUME KInv, [Next]_vars
      PROVE  \A t \in Tasks : InUse(t) /\ task[t].status # "" => task'[t] \in {task[t], FreeTask}
  <2>1. StepSafe
    BY <1>1, KInvNext
  <2> SUFFICES ASSUME NEW t \in Tasks, InUse(t), task[t].status # ""
               PROVE  task'[t] \in {task[t], FreeTask}
    OBVIOUS
  <2>2. CASE Resting
    BY <2>2 DEF Resting
  <2>3. CASE \E st \in Stubs : EffectAt(st)
    <3> PICK st \in Stubs : EffectAt(st)
      BY <2>3
    <3>1. ASSUME NEW u \in Tasks, Progressing(st, u) \/ Requesting(st, u) \/ Announcing(st, u)
          PROVE  task'[t] = task[t]
      BY <3>1 DEF Progressing, Requesting, Announcing, OtherTasks, InUse
    <3>2. ASSUME NEW T \in SUBSET Tasks, NEW result \in Results, Answering(st, T, result)
          PROVE  task'[t] = task[t]
      BY <3>2 DEF Answering, OtherTasks
    <3>3. ASSUME NEW T \in SUBSET Tasks, Delivering(st, T)
          PROVE  task'[t] \in {task[t], FreeTask}
      BY <3>3 DEF Delivering, OtherTasks
    <3> QED
      BY <2>2, <3>1, <3>2, <3>3 DEF EffectAt
  <2> QED
    BY <2>1, <2>2, <2>3 DEF StepSafe
<1> QED
  BY <1>1, KInvAlways, PTL DEF AnsweredOnce, Spec

(* A stub is freed only when it is dying and nothing is queued.            *)
THEOREM FreedWhenDone == Spec => NotifyIsLast
<1>1. ASSUME KInv, [Next]_vars, NEW st \in Stubs, Live(st), ~Live(st)'
      PROVE  Dying(st) /\ Queues(st) = <<>>
  <2>1. Dying(st) /\ rdq[st] = <<>> /\ wrq[st] = <<>> /\ doneq[st] = <<>>
    BY <1>1, KInvNext DEF StepSafe
  <2>2. <<>> \o <<>> \o <<>> = <<>>
    OBVIOUS
  <2> QED
    BY <2>1, <2>2 DEF Queues
<1>2. KInv /\ [Next]_vars => \A st \in Stubs : Live(st) /\ ~Live(st)'
                                  => Dying(st) /\ Queues(st) = <<>>
  BY <1>1
<1> QED
  BY <1>2, KInvAlways, PTL DEF NotifyIsLast, Spec

(* A dying stub stays so until it is freed, gets no new request, and its   *)
(* socket is not watched.                                                  *)
THEOREM DeathIsFinal == Spec => DyingIsFinal
<1>1. ASSUME KInv, [Next]_vars, NEW st \in Stubs, Live(st), Dying(st), Live(st)'
      PROVE  /\ Dying(st)'
             /\ Range(Queues(st))' \subseteq Range(Queues(st))
             /\ reg'[stub[st].fd] # st
  <2>1. KInv' /\ StepSafe
    BY <1>1, KInvNext
  <2>2. Dying(st)'
    BY <1>1, <2>1 DEF StepSafe
  <2>3. /\ Range(Queues(st)) = Range(rdq[st]) \cup Range(wrq[st]) \cup Range(doneq[st])
        /\ Range(Queues(st))' = Range(rdq'[st]) \cup Range(wrq'[st]) \cup Range(doneq'[st])
    <3>1. TypeInv /\ TypeInv'
      BY <1>1, <2>1 DEF KInv, IInv
    <3>2. Range(Queues(st)) = Range(rdq[st]) \cup Range(wrq[st]) \cup Range(doneq[st])
      BY <3>1, QueuesRange
    <3>3. (Range(Queues(st)) = Range(rdq[st]) \cup Range(wrq[st]) \cup Range(doneq[st]))'
      BY <3>1, QueuesRange, PTL
    <3> QED
      BY <3>2, <3>3
  <2>4. Range(Queues(st))' \subseteq Range(Queues(st))
    <3>1. CASE Resting
      BY <2>3, <3>1 DEF Resting
    <3>2. ASSUME NEW x \in Stubs, EffectAt(x), x # st
          PROVE  Range(Queues(st))' \subseteq Range(Queues(st))
      BY <2>3, <3>2, EffectElsewhere DEF OtherQueues
    <3>3. ASSUME NEW t \in Tasks, Progressing(st, t) \/ Requesting(st, t) \/ Announcing(st, t)
          PROVE  Range(Queues(st))' \subseteq Range(Queues(st))
      BY <1>1, <2>3, <3>3 DEF Progressing, Requesting, Announcing
    <3>4. ASSUME NEW T \in SUBSET Tasks, NEW result \in Results, Answering(st, T, result)
          PROVE  Range(Queues(st))' \subseteq Range(Queues(st))
      <4>1. T \subseteq Range(rdq[st]) \cup Range(wrq[st])
        BY <1>1, <3>4 DEF KInv, Owned, Answering
      <4> QED
        BY <2>3, <3>4, <4>1 DEF Answering
    <3>5. ASSUME NEW T \in SUBSET Tasks, Delivering(st, T)
          PROVE  Range(Queues(st))' \subseteq Range(Queues(st))
      BY <2>3, <3>5 DEF Delivering
    <3> QED
      BY <2>1, <3>1, <3>2, <3>3, <3>4, <3>5 DEF StepSafe, EffectAt
  <2>5. reg'[stub[st].fd] # st
    <3>1. stub[st].fd \in Socks
      BY <1>1 DEF KInv, IInv, Live, TypeInv, TypeOK, StubTypeOK, StubState
    <3> PICK s \in Socks : s = stub[st].fd
      BY <3>1
    <3>2. reg'[s] # NULL => reg'[s] = hash'[s] /\ ~Dying(hash[s])'
      BY <2>1 DEF KInv, IInv, Watched, Open
    <3>3. st # NULL
      BY KernelAssumption
    <3> QED
      BY <2>2, <3>2, <3>3 DEF Dying
  <2> QED
    BY <2>2, <2>4, <2>5
<1>2. KInv /\ [Next]_vars =>
        \A st \in Stubs : Live(st) /\ Dying(st) /\ Live(st)'
            => /\ Dying(st)'
               /\ Range(Queues(st))' \subseteq Range(Queues(st))
               /\ reg'[stub[st].fd] # st
  BY <1>1
<1> QED
  BY <1>2, KInvAlways, PTL DEF DyingIsFinal, Spec

-----------------------------------------------------------------------------
(* A request that waits, unless it is for no bytes, wants more of them; so *)
(* whatever else ends it, it was not complete.                             *)
Closing == {"CLOSED"} \cup Fatal
Marked(st) == stub[st].status \cap Closing # {}
Honest(t) == InUse(t) =>
    /\ task[t].cur <= task[t].size
    /\ task[t].status = "DONE" => task[t].cur = task[t].size
    /\ task[t].status # "DONE" /\ task[t].size > 0 => task[t].cur < task[t].size
    /\ task[t].status = "PART_DONE"
        => task[t].op = "READ" /\ ~task[t].all /\ task[t].cur > 0
    /\ task[t].status = "ECLOSED" => task[t].op = "READ" /\ Marked(task[t].stub)

HInv == KInv /\ \A t \in Tasks : Honest(t)

(* What a step may do to a request. *)
Deserves(t, result) ==
    /\ result = "DONE" => task[t].cur >= task[t].size
    /\ result = "PART_DONE" => task[t].op = "READ" /\ ~task[t].all /\ task[t].cur > 0
    /\ result = "ECLOSED"
        => task[t].op = "READ" /\ "CLOSED" \in stub'[task[t].stub].status

Created(t) ==
    /\ task[t].stub = NULL /\ task'[t].cur = 0
    /\ \/ task'[t].status = ""
       \/ task'[t].status = "DONE" /\ task'[t].size = 0
Answered(t) ==
    /\ task[t].status = "" /\ SameRequest(t) /\ task'[t].cur = task[t].cur
    /\ Deserves(t, task'[t].status)
AtHead(t) ==
    \E st \in Stubs : \/ rdq[st] # <<>> /\ t = Head(rdq[st])
                      \/ wrq[st] # <<>> /\ t = Head(wrq[st])
Moved(t) ==
    /\ task[t].status = "" /\ SameRequest(t) /\ AtHead(t)
    /\ task'[t].cur <= task[t].size
    /\ task'[t].status = IF task'[t].cur = task[t].size THEN "DONE" ELSE ""

TaskStep(t) ==
    \/ task'[t] = task[t]
    \/ task'[t] = FreeTask
    \/ Created(t) \/ Answered(t) \/ Moved(t)
TaskSteps == \A t \in Tasks : TaskStep(t)

MarksStay == \A st \in Stubs : Live(st) /\ Live(st)' /\ Marked(st) => Marked(st)'

LEMMA HonestStep ==
    ASSUME HInv, KInv', TaskSteps, MarksStay, NEW t \in Tasks
    PROVE  Honest(t)'
<1> DEFINE old == task[t]  new == task'[t]
           cur == old.cur    size == old.size    status == old.status
           cur1 == new.cur   size1 == new.size   status1 == new.status
           wants == old.op = "READ" /\ ~old.all
           wants1 == new.op = "READ" /\ ~new.all
           closed == old.op = "READ" /\ stub[old.stub].status \cap Closing # {}
           closed1 == new.op = "READ" /\ stub'[new.stub].status \cap Closing # {}
<1>1. SUFFICES ASSUME new.stub # NULL
      PROVE  /\ cur1 <= size1
             /\ status1 = "DONE" => cur1 = size1
             /\ status1 # "DONE" /\ size1 > 0 => cur1 < size1
             /\ status1 = "PART_DONE" => wants1 /\ cur1 > 0
             /\ status1 = "ECLOSED" => closed1
  BY DEF Honest, InUse, Marked
<1>2. cur1 \in Nat /\ size1 \in Nat /\ cur \in Nat /\ size \in Nat
  BY DEF HInv, KInv, IInv, TypeInv, TypeOK, TaskTypeOK, TaskState
<1>3. TaskStep(t) /\ InUse(t) = (old.stub # NULL)
  BY DEF TaskSteps, InUse
<1>4. InUse(t) =>
             /\ cur <= size
             /\ status = "DONE" => cur = size
             /\ status # "DONE" /\ size > 0 => cur < size
             /\ status = "PART_DONE" => wants /\ cur > 0
             /\ status = "ECLOSED" => closed
  BY DEF HInv, Honest, Marked
<1>5. InUse(t) /\ new.stub = old.stub /\ new.op = old.op /\ closed => closed1
  <2> SUFFICES ASSUME InUse(t), new.stub = old.stub, new.op = old.op, closed
               PROVE  stub'[old.stub].status \cap Closing # {}
    OBVIOUS
  <2> PICK st \in Stubs : st = old.stub
    BY DEF HInv, KInv, IInv, TypeInv, TypeOK, TaskTypeOK, TaskState, InUse
  <2>1. Live(st)
    BY DEF HInv, KInv, Owned
  <2>2. Live(st)'
    <3>1. (InUse(t) => Live(task[t].stub))'
      BY DEF KInv, Owned
    <3> QED
      BY <1>1, <3>1 DEF InUse, Live
  <2> QED
    BY <2>1, <2>2 DEF MarksStay, Marked
<1>6. CASE task'[t] = task[t]
  <2>1. /\ cur1 = cur /\ size1 = size /\ status1 = status /\ InUse(t)
        /\ wants1 = wants /\ (closed => closed1)
    BY <1>1, <1>3, <1>5, <1>6
  <2> HIDE DEF cur, size, status, wants, closed, cur1, size1, status1, wants1, closed1
  <2> QED
    BY <1>4, <2>1
<1>7. CASE task'[t] = FreeTask
  <2>1. FreeTask.stub = NULL
    BY DEF FreeTask
  <2> QED
    BY <1>1, <1>7, <2>1
<1>8. CASE Created(t)
  <2>1. /\ cur1 = 0 /\ status1 \notin {"PART_DONE", "ECLOSED"}
        /\ status1 = "DONE" => size1 = 0
    BY <1>8 DEF Created
  <2> HIDE DEF cur, size, status, wants, closed, cur1, size1, status1, wants1, closed1
  <2> QED
    BY <1>2, <2>1
<1>9. CASE Answered(t)
  <2>1. /\ status # "DONE" /\ cur1 = cur /\ size1 = size /\ InUse(t) /\ wants1 = wants
        /\ new.op = old.op /\ new.stub = old.stub
    BY <1>1, <1>9, <1>3 DEF Answered, SameRequest
  <2>2. /\ status1 = "DONE" => cur >= size
        /\ status1 = "PART_DONE" => wants /\ cur > 0
    BY <1>9 DEF Answered, Deserves
  <2>3. status1 = "ECLOSED" => closed1
    BY <1>9, <2>1 DEF Answered, Deserves, Closing
  <2> HIDE DEF cur, size, status, wants, closed, cur1, size1, status1, wants1, closed1
  <2> QED
    BY <1>2, <1>4, <2>1, <2>2, <2>3
<1>10. CASE Moved(t)
  <2>1. /\ cur1 <= size1 /\ status1 \notin {"PART_DONE", "ECLOSED"}
        /\ status1 = "DONE" <=> cur1 = size1
    <3>1. cur1 <= size1 /\ status1 = IF cur1 = size1 THEN "DONE" ELSE ""
      BY <1>10 DEF Moved, SameRequest
    <3> QED
      BY <3>1
  <2> HIDE DEF cur, size, status, wants, closed, cur1, size1, status1, wants1, closed1
  <2> QED
    BY <1>2, <2>1
<1> QED
  BY <1>3, <1>6, <1>7, <1>8, <1>9, <1>10 DEF TaskStep

-----------------------------------------------------------------------------
(* The steps. *)

LEMMA SameTasks ==
    ASSUME task' = task
    PROVE  TaskSteps
BY DEF TaskSteps, TaskStep

LEMMA NewTaskStep ==
    ASSUME TypeInv, NEW t \in FreeTasks, NEW st, NEW op, NEW size, NEW all, NEW timed,
           NEW new, task' = [task EXCEPT ![t] = new],
           \/ new = NewTask(st, op, size, all, timed)
           \/ size = 0 /\ new = [NewTask(st, op, size, all, timed) EXCEPT !.status = "DONE"]
    PROVE  TaskSteps
<1>1. t \in Tasks /\ task[t].stub = NULL /\ DOMAIN task = Tasks
  BY DEF FreeTasks, TypeInv, TypeOK, TaskTypeOK
<1>2. new.cur = 0 /\ (new.status = "" \/ (new.status = "DONE" /\ new.size = 0))
  <2>1. CASE new = NewTask(st, op, size, all, timed)
    BY <2>1 DEF NewTask
  <2>2. CASE size = 0 /\ new = [NewTask(st, op, size, all, timed) EXCEPT !.status = "DONE"]
    BY <2>2 DEF NewTask
  <2> QED
    BY <2>1, <2>2
<1>3. task'[t] = new /\ \A u \in Tasks \ {t} : task'[u] = task[u]
  BY <1>1
<1>4. Created(t)
  BY <1>1, <1>2, <1>3 DEF Created
<1> QED
  BY <1>3, <1>4 DEF TaskSteps, TaskStep

LEMMA AnswerSteps ==
    ASSUME TypeInv, NEW T, NEW result,
           task' = [t \in Tasks |-> IF t \in T THEN [task[t] EXCEPT !.status = result]
                                    ELSE task[t]],
           \A t \in T : t \in Tasks /\ task[t].status = "" /\ Deserves(t, result)
    PROVE  TaskSteps
<1> SUFFICES ASSUME NEW t \in Tasks, t \in T PROVE Answered(t)
  BY DEF TaskSteps, TaskStep
<1>1. task[t] \in TaskState /\ task'[t] = [task[t] EXCEPT !.status = result]
  BY DEF TypeInv, TypeOK, TaskTypeOK
<1>2. SameRequest(t) /\ task'[t].cur = task[t].cur /\ task'[t].status = result
  BY <1>1 DEF TaskState, SameRequest
<1> QED
  BY <1>2 DEF Answered

(* A result that claims nothing. *)
LEMMA DeservesFailure ==
    ASSUME NEW t, NEW result \in {"EDETACHED", "ETIMEOUT", "EIDLE", "ERROR"}
    PROVE  Deserves(t, result)
BY DEF Deserves

LEMMA SameMarks ==
    ASSUME stub' = stub
    PROVE  MarksStay
BY DEF MarksStay, Marked

LEMMA MarkKept ==
    ASSUME NEW st \in Stubs, stub \in [Stubs -> StubState], NEW status,
           stub' = [stub EXCEPT ![st].status = status],
           stub[st].status \cap Closing # {} => status \cap Closing # {}
    PROVE  MarksStay
<1>1. stub'[st].status = status /\ \A x \in Stubs \ {st} : stub'[x] = stub[x]
  BY DropsFlag
<1> QED
  BY <1>1 DEF MarksStay, Marked

LEMMA FreeMarks ==
    ASSUME NEW st \in FreeStubs, stub \in [Stubs -> StubState], NEW new,
           stub' = [stub EXCEPT ![st] = new]
    PROVE  MarksStay
BY DEF MarksStay, Marked, FreeStubs

(* Reads and writes that move bytes. *)
LEMMA DataTasks ==
    ASSUME KInv, NEW st \in Stubs, ReadData(st) \/ WriteData(st)
    PROVE  TaskSteps /\ MarksStay
<1> DEFINE t == IF ReadData(st) THEN Head(rdq[st]) ELSE Head(wrq[st])
           s == stub[st].fd
           size == task[t].size
           want == size - task[t].cur
           room == IF ReadData(st) THEN sock[s].rx ELSE sock[s].room
           n == IF room < want THEN room ELSE want
           full == task[t].cur + n = size
           got == [task[t] EXCEPT !.cur = @ + n]
<1>1. /\ pc \in {"read", "write"} /\ todo # <<>> /\ st = Head(todo)
      /\ IF ReadData(st) THEN rdq[st] # <<>> ELSE wrq[st] # <<>>
      /\ task[t].cur < size
      /\ task' = [task EXCEPT ![t] = IF full THEN [got EXCEPT !.status = "DONE"] ELSE got]
      /\ stub' = stub
  BY DEF ReadData, CallsRead, Reading, WriteData, CallsWrite, Writing, Completes
<1>2. AtHead(t)
  BY <1>1 DEF AtHead
<1>3. t \in Tasks /\ task[t].status = ""
  <2>1. /\ rdq[st] \in Seq(Tasks) /\ wrq[st] \in Seq(Tasks)
        /\ t \in Range(rdq[st]) \cup Range(wrq[st])
    BY <1>1, TailRange, QueueRanges DEF KInv, IInv
  <2> QED
    BY <2>1, Answerable DEF KInv, IInv
<1>4. s \in Socks /\ room \in Nat
  <2>1. Live(st)
    BY <1>1, NextStub DEF KInv, IInv
  <2>2. s \in Socks
    BY <2>1 DEF KInv, IInv, TypeInv, TypeOK, StubTypeOK, StubState, Live
  <2>3. sock[s] \in SockState
    BY <2>2 DEF KInv, IInv, TypeInv, TypeOK, NetTypeOK
  <2> QED
    BY <2>2, <2>3, KernelAssumption DEF SockState
<1>5. task[t] \in TaskState /\ task[t].cur \in Nat /\ size \in Nat /\ DOMAIN task = Tasks
  BY <1>3 DEF KInv, IInv, TypeInv, TypeOK, TaskTypeOK, TaskState
<1> HIDE DEF t, room, s
<1>6. n \in Nat /\ task[t].cur + n <= size
  BY <1>1, <1>4, <1>5
<1> HIDE DEF n
<1>7. /\ got.cur = task[t].cur + n /\ got.status = ""
      /\ [got EXCEPT !.status = "DONE"].cur = task[t].cur + n
      /\ [got EXCEPT !.status = "DONE"].status = "DONE"
      /\ \A new \in {got, [got EXCEPT !.status = "DONE"]} :
            /\ new.stub = task[t].stub /\ new.op = task[t].op /\ new.size = task[t].size
            /\ new.all = task[t].all /\ new.timed = task[t].timed
  BY <1>3, <1>5 DEF TaskState
<1>8. /\ task'[t] = IF full THEN [got EXCEPT !.status = "DONE"] ELSE got
      /\ \A u \in Tasks \ {t} : task'[u] = task[u]
  BY <1>1, <1>3, <1>5
<1> HIDE DEF got
<1>9. Moved(t)
  BY <1>2, <1>3, <1>5, <1>6, <1>7, <1>8 DEF Moved, SameRequest
<1> QED
  BY <1>1, <1>8, <1>9, SameMarks DEF TaskSteps, TaskStep

LEMMA DoneStep ==
    ASSUME TypeInv, NEW st \in Stubs, NEW ts \in Seq(Tasks), NEW result,
           TasksDone(st, ts, result),
           \A t \in Range(ts) : task[t].status = "" /\ Deserves(t, result)
    PROVE  TaskSteps
<1>1. Range(ts) \subseteq Tasks
  BY RangeOfSeq
<1>2. task' = [t \in Tasks |-> IF t \in Range(ts) THEN [task[t] EXCEPT !.status = result]
                               ELSE task[t]]
  BY DEF TasksDone
<1> QED
  BY <1>1, <1>2, AnswerSteps

LEMMA FirstWaits ==
    ASSUME KInv, NEW st \in Stubs, NEW q \in {rdq[st], wrq[st]}, q # <<>>
    PROVE  /\ q \in Seq(Tasks) /\ Head(q) \in Tasks
           /\ <<Head(q)>> \in Seq(Tasks) /\ Range(<<Head(q)>>) = {Head(q)}
           /\ task[Head(q)].status = "" /\ task[Head(q)].stub = st
           /\ Head(q) \in Range(q)
<1>1. q \in Seq(Tasks) /\ Range(q) \subseteq Tasks
  BY QueueRanges DEF KInv, IInv
<1>2. Head(q) \in Range(q)
  BY <1>1, TailRange
<1>3. task[Head(q)].status = "" /\ task[Head(q)].stub = st
  BY <1>2, Answerable DEF KInv, IInv
<1>4. Head(q) \in Tasks
  BY <1>1, <1>2
<1> QED
  BY <1>1, <1>2, <1>3, <1>4, SingleRange

(* The requests of a stub that is done for. *)
LEMMA AllWait ==
    ASSUME KInv, NEW st \in Stubs
    PROVE  /\ rdq[st] \in Seq(Tasks)
           /\ \A t \in Range(rdq[st]) :
                t \in Tasks /\ task[t].status = "" /\ task[t].op = "READ" /\ task[t].stub = st
           /\ \A t \in Range(rdq[st] \o wrq[st]) : t \in Tasks /\ task[t].status = ""
<1>1. TypeInv /\ Owned /\ rdq[st] \in Seq(Tasks) /\ wrq[st] \in Seq(Tasks)
  BY QueueRanges DEF KInv, IInv
<1>2. Range(rdq[st] \o wrq[st]) = Range(rdq[st]) \cup Range(wrq[st])
  BY <1>1, RangeConcatenation
<1>3. \A t \in Range(rdq[st]) \cup Range(wrq[st]) :
        t \in Tasks /\ task[t].stub = st /\ task[t].status = ""
  BY <1>1, Answerable
<1> QED
  BY <1>1, <1>2, <1>3 DEF Owned

(* A read or write for no bytes. *)
LEMMA NothingTasks ==
    ASSUME KInv, NEW st \in Stubs, ReadNothing(st) \/ WriteNothing(st)
    PROVE  TaskSteps /\ MarksStay
<1>1. PICK q \in {rdq[st], wrq[st]} :
        /\ q # <<>> /\ task[Head(q)].cur >= task[Head(q)].size
        /\ TasksDone(st, <<Head(q)>>, "DONE") /\ stub' = stub
  BY DEF ReadNothing, Reading, WriteNothing, Writing
<1>2. /\ <<Head(q)>> \in Seq(Tasks) /\ Range(<<Head(q)>>) = {Head(q)}
      /\ task[Head(q)].status = ""
  BY <1>1, FirstWaits
<1>3. Deserves(Head(q), "DONE")
  BY <1>1 DEF Deserves
<1>4. TypeInv
  BY DEF KInv, IInv
<1> QED
  BY <1>1, <1>2, <1>3, <1>4, DoneStep, SameMarks

(* read() finds no data: a request that takes any has some. *)
LEMMA EagainTasks ==
    ASSUME KInv, NEW st \in Stubs, ReadEagain(st)
    PROVE  TaskSteps /\ MarksStay
<1> DEFINE t == Head(rdq[st])
           part == ~task[t].all /\ task[t].cur > 0
<1>1. /\ rdq[st] # <<>>
      /\ TasksDone(st, IF part THEN <<t>> ELSE <<>>, "PART_DONE")
      /\ stub' = [stub EXCEPT ![st].status = stub[st].status \ {"READABLE"}]
  BY DEF ReadEagain, CallsRead
<1>2. /\ <<t>> \in Seq(Tasks) /\ Range(<<t>>) = {t} /\ task[t].status = ""
      /\ task[t].op = "READ"
  <2>1. PICK q \in {rdq[st], wrq[st]} : q = rdq[st]
    OBVIOUS
  <2>2. /\ <<Head(q)>> \in Seq(Tasks) /\ Range(<<Head(q)>>) = {Head(q)}
        /\ task[Head(q)].status = "" /\ Head(q) \in Range(q)
    BY <1>1, <2>1, FirstWaits
  <2>3. t \in Range(rdq[st])
    BY <2>1, <2>2
  <2>4. task[t].op = "READ"
    BY <2>3, AllWait
  <2> QED
    BY <2>1, <2>2, <2>4
<1>3. TypeInv /\ stub \in [Stubs -> StubState]
  BY DEF KInv, IInv, TypeInv, TypeOK, StubTypeOK
<1>4. TaskSteps
  <2>1. CASE part
    <3>1. Deserves(t, "PART_DONE")
      BY <1>2, <2>1 DEF Deserves
    <3> QED
      BY <1>1, <1>2, <1>3, <2>1, <3>1, DoneStep
  <2>2. CASE ~part
    <3>1. TasksDone(st, <<>>, "PART_DONE") /\ <<>> \in Seq(Tasks)
      BY <1>1, <2>2
    <3>2. Range(<<>>) = {}
      BY <3>1, EmptyRange
    <3> QED
      BY <1>3, <3>1, <3>2, DoneStep
  <2> QED
    BY <2>1, <2>2
<1>5. MarksStay
  <2>1. stub[st].status \cap Closing # {} => (stub[st].status \ {"READABLE"}) \cap Closing # {}
    BY DEF Closing, Fatal
  <2> QED
    BY <1>1, <1>3, <2>1, MarkKept
<1> QED
  BY <1>4, <1>5

(* The peer has closed. *)
LEMMA ClosedTasks ==
    ASSUME KInv, NEW st \in Stubs, ReadEof(st) \/ ReadClosed(st)
    PROVE  TaskSteps /\ MarksStay
<1>1. TypeInv /\ stub \in [Stubs -> StubState]
  BY DEF KInv, IInv, TypeInv, TypeOK, StubTypeOK
<1>2. /\ TasksDone(st, rdq[st], "ECLOSED")
      /\ \/ stub' = [stub EXCEPT ![st].status = (stub[st].status \ {"READABLE"}) \cup {"CLOSED"}]
         \/ stub' = stub /\ "CLOSED" \in stub[st].status
  BY DEF ReadEof, ReadClosed
<1>3. "CLOSED" \in stub'[st].status
  BY <1>1, <1>2, DropsFlag
<1>4. \A t \in Range(rdq[st]) : task[t].status = "" /\ Deserves(t, "ECLOSED")
  <2>1. \A t \in Range(rdq[st]) :
          t \in Tasks /\ task[t].status = "" /\ task[t].op = "READ" /\ task[t].stub = st
    BY AllWait
  <2> QED
    BY <1>3, <2>1 DEF Deserves
<1>5. TaskSteps
  BY <1>1, <1>2, <1>4, AllWait, DoneStep
<1>6. MarksStay
  <2>1. ((stub[st].status \ {"READABLE"}) \cup {"CLOSED"}) \cap Closing # {}
    BY DEF Closing
  <2> QED
    BY <1>1, <1>2, <2>1, MarkKept, SameMarks
<1> QED
  BY <1>5, <1>6

(* Everything a stub has is answered: an error, an idle timeout, a detach. *)
LEMMA FlushTasks ==
    ASSUME KInv, NEW st \in Stubs, NEW result \in {"EDETACHED", "EIDLE", "ERROR"},
           task' = [t \in Tasks |-> IF t \in Range(rdq[st] \o wrq[st])
                                    THEN [task[t] EXCEPT !.status = result]
                                    ELSE task[t]]
    PROVE  TaskSteps
<1>1. \A t \in Range(rdq[st] \o wrq[st]) :
        t \in Tasks /\ task[t].status = "" /\ Deserves(t, result)
  BY AllWait, DeservesFailure
<1> DEFINE T == Range(rdq[st] \o wrq[st])
<1>2. /\ \A t \in T : t \in Tasks /\ task[t].status = "" /\ Deserves(t, result)
      /\ task' = [t \in Tasks |-> IF t \in T THEN [task[t] EXCEPT !.status = result]
                                  ELSE task[t]]
      /\ TypeInv
  BY <1>1 DEF KInv, IInv
<1> HIDE DEF T
<1> QED
  BY <1>2, AnswerSteps

LEMMA DeathMarks ==
    ASSUME NEW st \in Stubs, stub \in [Stubs -> StubState],
           NEW f \in Fatal, stub' = [stub EXCEPT ![st].status = {f}]
    PROVE  MarksStay
<1>1. {f} \cap Closing # {}
  BY DEF Closing
<1> QED
  BY <1>1, MarkKept

LEMMA BreakTasks ==
    ASSUME KInv, NEW st \in Stubs,
           \/ ReadError(st) \/ WriteError(st) \/ ErrorFlush(st) \/ TimerSock(st)
           \/ \E e \in evts : e.st = st /\ EventError(e)
    PROVE  TaskSteps /\ MarksStay
<1>1. stub \in [Stubs -> StubState] /\ "ERROR" \in Fatal /\ "IDLE" \in Fatal
  BY DEF KInv, IInv, TypeInv, TypeOK, StubTypeOK, Fatal
<1>2. CASE \/ ReadError(st) \/ WriteError(st)
           \/ \E e \in evts : e.st = st /\ EventError(e)
  <2>1. task' = task /\ stub' = [stub EXCEPT ![st].status = {"ERROR"}]
    BY <1>2 DEF ReadError, WriteError, EventError, DoWithError
  <2> QED
    BY <1>1, <2>1, SameTasks, DeathMarks
<1>3. CASE ErrorFlush(st)
  BY <1>3, FlushTasks, SameMarks DEF ErrorFlush
<1>4. CASE TimerSock(st)
  <2>1. /\ stub' = [stub EXCEPT ![st].status = {"IDLE"}]
        /\ task' = [t \in Tasks |-> IF t \in Range(rdq[st] \o wrq[st])
                                    THEN [task[t] EXCEPT !.status = "EIDLE"]
                                    ELSE task[t]]
    BY <1>4 DEF TimerSock, Abandon
  <2> QED
    BY <1>1, <2>1, FlushTasks, DeathMarks
<1> QED
  BY <1>2, <1>3, <1>4

(* epex_detach, and epex_connect when it fails. *)
LEMMA DetachTasks ==
    ASSUME KInv, NEW s \in Socks,
           Detach(s) \/ \E link \in {"none", "connecting", "up"} : ConnectFail(s, link)
    PROVE  TaskSteps /\ MarksStay
<1>1. stub \in [Stubs -> StubState] /\ "DETACHED" \in Fatal
  BY DEF KInv, IInv, TypeInv, TypeOK, StubTypeOK, Fatal
<1>2. CASE DetachStub(s)
  <2> PICK st \in Stubs : st = hash[s]
    BY <1>2, OpenStub DEF DetachStub, Open
  <2>1. /\ stub' = [stub EXCEPT ![st].status = {"DETACHED"}]
        /\ task' = [t \in Tasks |-> IF t \in Range(rdq[st] \o wrq[st])
                                    THEN [task[t] EXCEPT !.status = "EDETACHED"]
                                    ELSE task[t]]
    BY <1>2 DEF DetachStub, Abandon
  <2> QED
    BY <1>1, <2>1, FlushTasks, DeathMarks
<1>3. CASE ~DetachStub(s)
  <2> DEFINE new == [NewStub(s, FALSE, FALSE) EXCEPT !.status = {"DETACHED"}]
  <2>1. PICK st \in FreeStubs :
          stub' = [stub EXCEPT ![st] = new] /\ Abandon(st, s, "EDETACHED")
    BY <1>3 DEF Detach, ConnectFail
  <2>2. st \in Stubs
    BY DEF FreeStubs
  <2>3. task' = [t \in Tasks |-> IF t \in Range(rdq[st] \o wrq[st])
                                 THEN [task[t] EXCEPT !.status = "EDETACHED"]
                                 ELSE task[t]]
    BY <2>1 DEF Abandon
  <2> HIDE DEF new
  <2> QED
    BY <1>1, <2>1, <2>2, <2>3, FlushTasks, FreeMarks
<1> QED
  BY <1>2, <1>3

LEMMA TimeoutTask ==
    ASSUME KInv, NEW st \in Stubs, NEW t \in Tasks, TimerTask(st, t)
    PROVE  TaskSteps /\ MarksStay
<1>1. /\ TypeInv /\ TaskUnits /\ t \in due /\ stub' = stub
      /\ task' = [task EXCEPT ![t].status = "ETIMEOUT"]
      /\ task \in [Tasks -> TaskState]
  BY DEF TimerTask, KInv, IInv, TypeInv, TypeOK, TaskTypeOK
<1>2. task[t].status = ""
  BY <1>1 DEF TaskUnits, Pending
<1>3. task' = [u \in Tasks |-> IF u \in {t} THEN [task[u] EXCEPT !.status = "ETIMEOUT"]
                               ELSE task[u]]
  BY <1>1
<1>4. Deserves(t, "ETIMEOUT")
  BY DeservesFailure
<1> DEFINE T == {t}
<1>5. /\ \A u \in T : u \in Tasks /\ task[u].status = "" /\ Deserves(u, "ETIMEOUT")
      /\ task' = [u \in Tasks |-> IF u \in T THEN [task[u] EXCEPT !.status = "ETIMEOUT"]
                                  ELSE task[u]]
  BY <1>2, <1>3, <1>4
<1> HIDE DEF T
<1> QED
  BY <1>1, <1>5, AnswerSteps, SameMarks

(* Requests and stubs that are new, or only marked. *)
LEMMA CallTasks ==
    ASSUME KInv, NEW s \in Socks,
           \/ \E timed \in BOOLEAN : Attach(s, timed)
           \/ Listen(s)
           \/ \E r \in Requests : Submit(s, r)
           \/ \E timed \in BOOLEAN, link \in {"connecting", "up"} : Connect(s, timed, link)
           \/ \E silent \in BOOLEAN : SetSilence(s, silent)
    PROVE  TaskSteps /\ MarksStay
<1>1. TypeInv /\ stub \in [Stubs -> StubState]
  BY DEF KInv, IInv, TypeInv, TypeOK, StubTypeOK
<1>2. CASE Listen(s) \/ \E timed \in BOOLEAN : Attach(s, timed)
  <2>1. \E st \in FreeStubs : \E new : stub' = [stub EXCEPT ![st] = new]
    BY <1>2 DEF Attach, Listen
  <2>2. task' = task
    BY <1>2 DEF Attach, Listen
  <2> QED
    BY <1>1, <2>1, <2>2, SameTasks, FreeMarks
<1>3. CASE \E r \in Requests : Submit(s, r)
  <2> PICK r \in Requests : Submit(s, r)
    BY <1>3
  <2>1. PICK t \in FreeTasks :
          task' = [task EXCEPT ![t] = NewTask(hash[s], r.op, r.size, r.all, r.timed)]
    BY DEF Submit
  <2>2. stub' = stub
    BY DEF Submit
  <2> QED
    BY <1>1, <2>1, <2>2, NewTaskStep, SameMarks
<1>4. CASE \E timed \in BOOLEAN, link \in {"connecting", "up"} : Connect(s, timed, link)
  <2> PICK timed \in BOOLEAN, link \in {"connecting", "up"} : Connect(s, timed, link)
    BY <1>4
  <2>1. PICK st \in (IF hash[s] = NULL THEN FreeStubs ELSE {hash[s]}),
             t \in FreeTasks, connectTimed \in BOOLEAN :
          /\ LET attached == IF hash[s] = NULL THEN NewStub(s, FALSE, timed)
                                               ELSE stub[st]
             IN stub' = [stub EXCEPT ![st] =
                  IF link = "up" THEN [attached EXCEPT !.status = @ \cup {"WRITEABLE"}]
                                 ELSE attached]
          /\ task' = [task EXCEPT ![t] = NewTask(st, "CONNECT", 0, FALSE, connectTimed)]
    BY DEF Connect
  <2>2. TaskSteps
    BY <1>1, <2>1, NewTaskStep
  <2>3. MarksStay
    <3>1. CASE hash[s] = NULL
      <4>1. st \in FreeStubs /\ \E new : stub' = [stub EXCEPT ![st] = new]
        BY <2>1, <3>1
      <4> QED
        BY <1>1, <4>1, FreeMarks
    <3>2. CASE hash[s] # NULL
      <4>1. st \in Stubs
        BY <2>1, <3>2, OpenStub
      <4>2. CASE link # "up"
        <5>1. stub' = stub
          BY <1>1, <2>1, <3>2, <4>1, <4>2
        <5> QED
          BY <5>1, SameMarks
      <4>3. CASE link = "up"
        <5>1. stub' = [stub EXCEPT ![st] =
                         [stub[st] EXCEPT !.status = stub[st].status \cup {"WRITEABLE"}]]
          BY <2>1, <3>2, <4>3
        <5>2. stub' = [stub EXCEPT ![st].status = stub[st].status \cup {"WRITEABLE"}]
          BY <5>1
        <5> QED
          BY <1>1, <4>1, <5>2, MarkKept
      <4> QED
        BY <4>2, <4>3
    <3> QED
      BY <3>1, <3>2
  <2> QED
    BY <2>2, <2>3
<1>5. CASE \E silent \in BOOLEAN : SetSilence(s, silent)
  <2> PICK silent \in BOOLEAN : SetSilence(s, silent)
    BY <1>5
  <2>1. stub' = [stub EXCEPT ![hash[s]].silent = silent] /\ task' = task
    BY DEF SetSilence
  <2>2. \A x \in Stubs : stub'[x].status = stub[x].status
    BY <1>1, <2>1 DEF StubState
  <2> QED
    BY <2>1, <2>2, SameTasks DEF MarksStay, Marked
<1> QED
  BY <1>2, <1>3, <1>4, <1>5

(* A new connection, results handed out, a stub freed. *)
LEMMA ListenTasks ==
    ASSUME KInv, NEW st \in Stubs, ReadListen(st)
    PROVE  TaskSteps /\ MarksStay
<1>1. /\ TypeInv /\ stub \in [Stubs -> StubState]
      /\ stub' = [stub EXCEPT ![st].status = stub[st].status \ {"READABLE"}]
  BY DEF KInv, IInv, TypeInv, TypeOK, StubTypeOK, ReadListen
<1>2. MarksStay
  <2>1. stub[st].status \cap Closing # {} => (stub[st].status \ {"READABLE"}) \cap Closing # {}
    BY DEF Closing, Fatal
  <2> QED
    BY <1>1, <2>1, MarkKept
<1>3. CASE task' = task
  BY <1>2, <1>3, SameTasks
<1>4. CASE \E t \in FreeTasks : task' = [task EXCEPT ![t] =
             [NewTask(st, "ACCEPT", 0, FALSE, FALSE) EXCEPT !.status = "DONE"]]
  BY <1>1, <1>2, <1>4, NewTaskStep
<1> QED
  BY <1>3, <1>4 DEF ReadListen

LEMMA FillTasks ==
    ASSUME KInv, NEW st \in Stubs, FillSilent(st) \/ FillResults(st) \/ FillNotify(st)
    PROVE  TaskSteps /\ MarksStay
<1>1. CASE FillSilent(st)
  BY <1>1, SameTasks, SameMarks DEF FillSilent
<1>2. CASE FillResults(st)
  <2>1. stub' = stub /\ \A t \in Tasks : task'[t] = task[t] \/ task'[t] = FreeTask
    BY <1>2 DEF FillResults, Deliver
  <2> QED
    BY <2>1, SameMarks DEF TaskSteps, TaskStep
<1>3. CASE FillNotify(st)
  <2>1. task' = task /\ stub' = [stub EXCEPT ![st] = FreeStub]
    BY <1>3 DEF FillNotify
  <2>2. /\ \A x \in Stubs \ {st} : stub'[x] = stub[x]
        /\ ~Live(st)'
    BY <2>1 DEF KInv, IInv, TypeInv, TypeOK, StubTypeOK, FreeStub, Live
  <2> QED
    BY <2>1, <2>2, SameTasks DEF MarksStay, Marked
<1> QED
  BY <1>1, <1>2, <1>3

(* Everything else. *)
LEMMA OtherSteps ==
    ASSUME KInv,
           \/ \E st \in Stubs : ReadLeave(st) \/ WriteLeave(st) \/ WriteEagain(st)
           \/ \E e \in evts : EventReady(e)
           \/ EventsEnd \/ ReadEnd \/ WriteEnd \/ TimerEnd \/ PollEnd
           \/ \E expired \in SUBSET armed : TimerTimeout(expired)
           \/ \E s \in Socks : Accept(s) \/ \E fresh \in {UpSock, NewSock} : Reopen(s, fresh)
           \/ Poll \/ PeerStep \/ UNCHANGED vars
    PROVE  TaskSteps /\ MarksStay
<1>1. task' = task
  BY DEF ReadLeave, WriteLeave, WriteEagain, EventReady, EventsEnd, ReadEnd, WriteEnd,
         TimerEnd, PollEnd, TimerTimeout, Phase, Accept, Reopen, Poll, PollStart,
         PeerStep, vars
<1>2. \/ stub' = stub
      \/ \E st \in Stubs : WriteEagain(st)
      \/ \E e \in evts : EventReady(e)
  BY DEF ReadLeave, WriteLeave, EventsEnd, ReadEnd, WriteEnd,
         TimerEnd, PollEnd, TimerTimeout, Phase, Accept, Reopen, Poll, PollStart,
         PeerStep, vars
<1>3. stub \in [Stubs -> StubState]
  BY DEF KInv, IInv, TypeInv, TypeOK, StubTypeOK
<1>4. CASE \E st \in Stubs : WriteEagain(st)
  <2> PICK st \in Stubs : WriteEagain(st)
    BY <1>4
  <2>1. stub' = [stub EXCEPT ![st].status = stub[st].status \ {"WRITEABLE"}]
    BY DEF WriteEagain
  <2>2. stub[st].status \cap Closing # {} => (stub[st].status \ {"WRITEABLE"}) \cap Closing # {}
    BY DEF Closing, Fatal
  <2> QED
    BY <1>1, <1>3, <2>1, <2>2, MarkKept, SameTasks
<1>5. CASE \E e \in evts : EventReady(e)
  <2> PICK e \in evts : EventReady(e)
    BY <1>5
  <2> PICK st \in Stubs : st = e.st
    BY DEF KInv, IInv, TypeInv, TypeOK, PollTypeOK
  <2>1. PICK new : stub' = [stub EXCEPT ![st].status = stub[st].status \cup new]
    BY DEF EventReady
  <2> QED
    BY <1>1, <1>3, <2>1, MarkKept, SameTasks
<1> QED
  BY <1>1, <1>2, <1>4, <1>5, SameTasks, SameMarks

LEMMA TasksNext ==
    ASSUME KInv, [Next]_vars
    PROVE  TaskSteps /\ MarksStay
<1>1. CASE Application
  <2> PICK s \in Socks :
        \/ \E timed \in IdleTimers :
            \/ Attach(s, timed)
            \/ \E link \in {"connecting", "up"} : Connect(s, timed, link)
        \/ Listen(s)
        \/ Detach(s)
        \/ \E r \in Requests : Submit(s, r)
        \/ \E link \in {"none", "connecting", "up"} : ConnectFail(s, link)
        \/ \E silent \in BOOLEAN : SetSilence(s, silent)
        \/ Accept(s)
        \/ \E fresh \in {UpSock, NewSock} : Reopen(s, fresh)
    BY <1>1 DEF Application
  <2>1. CASE \E timed \in IdleTimers : Attach(s, timed)
    BY <2>1, CallTasks, EpexAssumption
  <2>2. CASE \/ Listen(s) \/ \E r \in Requests : Submit(s, r)
             \/ \E silent \in BOOLEAN : SetSilence(s, silent)
    BY <2>2, CallTasks
  <2>3. CASE \E timed \in IdleTimers, link \in {"connecting", "up"} : Connect(s, timed, link)
    BY <2>3, CallTasks, EpexAssumption
  <2>4. CASE Detach(s) \/ \E link \in {"none", "connecting", "up"} : ConnectFail(s, link)
    BY <2>4, DetachTasks
  <2>5. CASE Accept(s) \/ \E fresh \in {UpSock, NewSock} : Reopen(s, fresh)
    BY <2>5, OtherSteps
  <2> QED
    BY <2>1, <2>2, <2>3, <2>4, <2>5
<1>2. CASE PollStep
  <2>1. CASE \E e \in evts : EventError(e) \/ EventReady(e)
    <3> PICK e \in evts : EventError(e) \/ EventReady(e)
      BY <2>1
    <3>1. e.st \in Stubs
      BY DEF KInv, IInv, TypeInv, TypeOK, PollTypeOK
    <3> QED
      BY <3>1, BreakTasks, OtherSteps
  <2>2. CASE \E st \in Stubs : ReadListen(st)
    BY <2>2, ListenTasks
  <2>3. CASE \E st \in Stubs : ReadData(st) \/ WriteData(st)
    BY <2>3, DataTasks
  <2>4. CASE \E st \in Stubs : ReadNothing(st) \/ WriteNothing(st)
    BY <2>4, NothingTasks
  <2>5. CASE \E st \in Stubs : ReadEagain(st)
    BY <2>5, EagainTasks
  <2>6. CASE \E st \in Stubs : ReadEof(st) \/ ReadClosed(st)
    BY <2>6, ClosedTasks
  <2>7. CASE \E st \in Stubs : ReadLeave(st) \/ WriteLeave(st) \/ WriteEagain(st)
    BY <2>7, OtherSteps
  <2>8. CASE \E st \in Stubs : \/ ReadError(st) \/ WriteError(st)
                               \/ ErrorFlush(st) \/ TimerSock(st)
    BY <2>8, BreakTasks
  <2>9. CASE \E st \in Stubs, t \in Tasks : TimerTask(st, t)
    BY <2>9, TimeoutTask
  <2>10. CASE \E st \in Stubs : FillSilent(st) \/ FillResults(st) \/ FillNotify(st)
    BY <2>10, FillTasks
  <2>11. CASE \/ EventsEnd \/ ReadEnd \/ WriteEnd \/ TimerEnd \/ PollEnd
              \/ \E expired \in SUBSET armed : TimerTimeout(expired)
    BY <2>11, OtherSteps
  <2> QED
    BY <1>2, <2>1, <2>2, <2>3, <2>4, <2>5, <2>6, <2>7, <2>8, <2>9, <2>10, <2>11
       DEF PollStep
<1>3. CASE Poll \/ PeerStep \/ UNCHANGED vars
  BY <1>3, OtherSteps
<1> QED
  BY <1>1, <1>2, <1>3 DEF Next

LEMMA HInvInit == Init => HInv
<1> SUFFICES ASSUME Init PROVE HInv
  OBVIOUS
<1>1. KInv
  BY KInvInit
<1>2. \A t \in Tasks : task[t].stub = NULL
  BY DEF Init, FreeTask
<1> QED
  BY <1>1, <1>2 DEF HInv, Honest, InUse

LEMMA HInvNext == HInv /\ [Next]_vars => HInv'
<1> SUFFICES ASSUME HInv, [Next]_vars PROVE HInv'
  OBVIOUS
<1>1. KInv' /\ TaskSteps /\ MarksStay
  BY KInvNext, TasksNext DEF HInv
<1>2. \A t \in Tasks : Honest(t)'
  BY <1>1, HonestStep
<1> QED
  BY <1>1, <1>2 DEF HInv

(* A result does not claim more or less than was done: NET_DONE is given   *)
(* for every byte, no other result is, NET_PART_DONE for some, and         *)
(* NET_ECLOSED to reads of a stub whose peer has closed.                   *)
THEOREM ResultsHonest == Spec => []HonestResults
<1>1. HInv => HonestResults
  BY DEF HInv, Honest, HonestResults, Marked, Closing
<1> QED
  BY <1>1, HInvInit, HInvNext, PTL DEF Spec

-----------------------------------------------------------------------------
(* Only the first request of a queue has moved bytes.                      *)
Unstarted(q) == \A i \in DOMAIN q : i > 1 => task[q[i]].cur = 0
Shifts(before, after) ==
    \A i \in DOMAIN after : i > 1
        => \/ task'[after[i]].cur = 0
           \/ \E j \in DOMAIN before : j > 1 /\ after[i] = before[j]
QueuesShift ==
    \A st \in Stubs : Shifts(rdq[st], rdq'[st]) /\ Shifts(wrq[st], wrq'[st])

LEMMA ShiftCases ==
    ASSUME NEW q \in Seq(Tasks), NEW t \in Tasks
    PROVE  /\ Shifts(q, q) /\ Shifts(q, <<>>)
           /\ q # <<>> => Shifts(q, Tail(q))
           /\ task'[t].cur = 0 => Shifts(q, Append(q, t))
           /\ Shifts(q, Unlink(q, t))
<1>1. Shifts(q, q) /\ Shifts(q, <<>>)
  BY DEF Shifts
<1>2. ASSUME q # <<>> PROVE Shifts(q, Tail(q))
  <2>1. /\ Tail(q) \in Seq(Tasks) /\ Len(Tail(q)) = Len(q) - 1 /\ Len(q) \in Nat
        /\ \A i \in 1..Len(Tail(q)) : Tail(q)[i] = q[i + 1]
    BY <1>2, HeadTailProperties, LenProperties
  <2>2. DOMAIN q = 1..Len(q) /\ DOMAIN Tail(q) = 1..Len(Tail(q))
    BY <2>1, LenProperties
  <2> SUFFICES ASSUME NEW i \in DOMAIN Tail(q), i > 1
               PROVE  \E j \in DOMAIN q : j > 1 /\ Tail(q)[i] = q[j]
    BY DEF Shifts
  <2>3. i + 1 \in DOMAIN q /\ i + 1 > 1 /\ Tail(q)[i] = q[i + 1]
    BY <2>1, <2>2
  <2> QED
    BY <2>3
<1>3. ASSUME task'[t].cur = 0 PROVE Shifts(q, Append(q, t))
  <2>1. /\ Len(Append(q, t)) = Len(q) + 1 /\ Len(q) \in Nat
        /\ \A i \in 1..Len(q) : Append(q, t)[i] = q[i]
        /\ Append(q, t)[Len(q) + 1] = t
        /\ DOMAIN q = 1..Len(q) /\ DOMAIN Append(q, t) = 1..Len(Append(q, t))
    BY AppendProperties, LenProperties
  <2> SUFFICES ASSUME NEW i \in DOMAIN Append(q, t), i > 1
               PROVE  \/ Append(q, t)[i] = t
                      \/ \E j \in DOMAIN q : j > 1 /\ Append(q, t)[i] = q[j]
    BY <1>3 DEF Shifts
  <2> QED
    BY <2>1
<1>4. Shifts(q, Unlink(q, t))
  <2>1. CASE t \notin Range(q)
    BY <1>1, <2>1 DEF Unlink
  <2>2. CASE t \in Range(q)
    <3>1. PICK k \in 1..Len(q) : q[k] = t /\ Unlink(q, t) = RemoveAt(q, k)
      BY <2>2, UnlinkDef
    <3>2. /\ RemoveAt(q, k) \in Seq(Tasks)
          /\ Len(RemoveAt(q, k)) = Len(q) - 1
          /\ \A i \in 1..(Len(q) - 1) :
                RemoveAt(q, k)[i] = IF i < k THEN q[i] ELSE q[i + 1]
          /\ Len(q) \in Nat
      BY RemoveAtDef, LenProperties
    <3>3. DOMAIN q = 1..Len(q) /\ DOMAIN RemoveAt(q, k) = 1..(Len(q) - 1)
      BY <3>2, LenProperties
    <3> SUFFICES ASSUME NEW i \in DOMAIN RemoveAt(q, k), i > 1
                 PROVE  \E j \in DOMAIN q : j > 1 /\ RemoveAt(q, k)[i] = q[j]
      BY <3>1 DEF Shifts
    <3>4. i \in DOMAIN q /\ i + 1 \in DOMAIN q /\ i + 1 > 1
      BY <3>2, <3>3
    <3> QED
      BY <3>2, <3>3, <3>4
  <2> QED
    BY <2>1, <2>2
<1> QED
  BY <1>1, <1>2, <1>3, <1>4

(* What the steps do to a queue. *)
Change(before, after) ==
    \/ after = before
    \/ after = <<>>
    \/ before # <<>> /\ after = Tail(before)
    \/ \E t \in Tasks : after = Unlink(before, t)
    \/ \E t \in Tasks : after = Append(before, t) /\ task'[t].cur = 0
QueueChange(q) ==
    \/ q' = q
    \/ \E st \in Stubs : \E after : q' = [q EXCEPT ![st] = after] /\ Change(q[st], after)

LEMMA QueueShifts ==
    ASSUME TypeInv, QueueChange(rdq), QueueChange(wrq)
    PROVE  QueuesShift
<1>1. /\ rdq \in [Stubs -> Seq(Tasks)] /\ wrq \in [Stubs -> Seq(Tasks)]
  BY DEF TypeInv, TypeOK, TaskTypeOK
<1>2. ASSUME NEW q \in Seq(Tasks), NEW after, Change(q, after) PROVE Shifts(q, after)
  <2>1. CASE after = q
    BY <2>1 DEF Shifts
  <2>2. CASE after = <<>>
    BY <2>2 DEF Shifts
  <2>3. CASE q # <<>> /\ after = Tail(q)
    <3>1. PICK t : t \in Tasks
      BY <2>3, TailRange, RangeOfSeq
    <3> QED
      BY <2>3, <3>1, ShiftCases
  <2>4. CASE \E t \in Tasks : after = Unlink(q, t)
    BY <2>4, ShiftCases
  <2>5. CASE \E t \in Tasks : after = Append(q, t) /\ task'[t].cur = 0
    BY <2>5, ShiftCases
  <2> QED
    BY <1>2, <2>1, <2>2, <2>3, <2>4, <2>5 DEF Change
<1>3. ASSUME NEW st \in Stubs PROVE Shifts(rdq[st], rdq'[st])
  <2>1. Change(rdq[st], rdq'[st])
    BY <1>1 DEF QueueChange, Change
  <2> QED
    BY <1>1, <1>2, <2>1
<1>4. ASSUME NEW st \in Stubs PROVE Shifts(wrq[st], wrq'[st])
  <2>1. Change(wrq[st], wrq'[st])
    BY <1>1 DEF QueueChange, Change
  <2> QED
    BY <1>1, <1>2, <2>1
<1> QED
  BY <1>3, <1>4 DEF QueuesShift

LEMMA EmptiedQueues ==
    ASSUME NEW st \in Stubs,
           \/ Abandon(st, stub[st].fd, "EIDLE") \/ ErrorFlush(st) \/ FillNotify(st)
           \/ \E s : Abandon(st, s, "EDETACHED")
           \/ ReadEof(st) \/ ReadClosed(st)
    PROVE  QueueChange(rdq) /\ QueueChange(wrq)
<1>1. rdq' = [rdq EXCEPT ![st] = <<>>] /\ (wrq' = [wrq EXCEPT ![st] = <<>>] \/ wrq' = wrq)
  BY DEF Abandon, ErrorFlush, FillNotify, ReadEof, ReadClosed
<1> QED
  BY <1>1 DEF QueueChange, Change

LEMMA ServedQueues ==
    ASSUME KInv, NEW st \in Stubs,
           \/ ReadData(st) \/ ReadEagain(st) \/ ReadNothing(st)
           \/ WriteData(st) \/ WriteNothing(st)
    PROVE  QueueChange(rdq) /\ QueueChange(wrq)
<1>0. rdq \in [Stubs -> Seq(Tasks)] /\ wrq \in [Stubs -> Seq(Tasks)]
  BY DEF KInv, IInv, TypeInv, TypeOK, TaskTypeOK
<1>1. CASE ReadData(st) \/ ReadNothing(st) \/ ReadEagain(st)
  <2>1. rdq[st] # <<>> /\ wrq' = wrq
    BY <1>1 DEF ReadData, ReadNothing, ReadEagain, CallsRead
  <2>2. rdq' = rdq \/ rdq' = [rdq EXCEPT ![st] = Tail(@)] \/ rdq' = [rdq EXCEPT ![st] = @]
    BY <1>1 DEF ReadData, ReadNothing, ReadEagain
  <2>3. rdq' = rdq \/ rdq' = [rdq EXCEPT ![st] = Tail(rdq[st])]
    BY <1>0, <2>2
  <2> QED
    BY <2>1, <2>3 DEF QueueChange, Change
<1>2. CASE WriteData(st) \/ WriteNothing(st)
  <2>1. wrq[st] # <<>> /\ rdq' = rdq
    BY <1>2 DEF WriteData, WriteNothing, CallsWrite
  <2>2. wrq' = wrq \/ wrq' = [wrq EXCEPT ![st] = Tail(wrq[st])]
    BY <1>2 DEF WriteData, WriteNothing
  <2> QED
    BY <2>1, <2>2 DEF QueueChange, Change
<1> QED
  BY <1>1, <1>2

LEMMA RequestQueues ==
    ASSUME KInv, NEW s \in Socks,
           \/ \E r \in Requests : Submit(s, r)
           \/ \E timed \in BOOLEAN, link \in {"connecting", "up"} : Connect(s, timed, link)
    PROVE  QueueChange(rdq) /\ QueueChange(wrq)
<1>1. CASE \E r \in Requests : Submit(s, r)
  <2> PICK r \in Requests : Submit(s, r)
    BY <1>1
  <2> PICK st \in Stubs : st = hash[s]
    BY OpenStub DEF Submit, Open
  <2>1. PICK t \in FreeTasks :
          /\ task' = [task EXCEPT ![t] = NewTask(st, r.op, r.size, r.all, r.timed)]
          /\ \/ rdq' = [rdq EXCEPT ![st] = Append(rdq[st], t)] /\ wrq' = wrq
             \/ wrq' = [wrq EXCEPT ![st] = Append(wrq[st], t)] /\ rdq' = rdq
    BY DEF Submit, Enqueue
  <2>2. t \in Tasks /\ task'[t].cur = 0
    BY <2>1 DEF KInv, IInv, TypeInv, TypeOK, TaskTypeOK, FreeTasks, NewTask
  <2> QED
    BY <2>1, <2>2 DEF QueueChange, Change
<1>2. CASE \E timed \in BOOLEAN, link \in {"connecting", "up"} : Connect(s, timed, link)
  <2>1. PICK st \in Stubs, t \in FreeTasks, connectTimed \in BOOLEAN :
          /\ task' = [task EXCEPT ![t] = NewTask(st, "CONNECT", 0, FALSE, connectTimed)]
          /\ wrq' = [wrq EXCEPT ![st] = Append(wrq[st], t)] /\ rdq' = rdq
    <3> PICK timed \in BOOLEAN, link \in {"connecting", "up"} : Connect(s, timed, link)
      BY <1>2
    <3>1. PICK st \in (IF hash[s] = NULL THEN FreeStubs ELSE {hash[s]}),
               t \in FreeTasks, connectTimed \in BOOLEAN :
        /\ hash' = [hash EXCEPT ![s] = st]
        /\ LET attached == IF hash[s] = NULL THEN NewStub(s, FALSE, timed)
                                             ELSE stub[st]
           IN stub' = [stub EXCEPT ![st] =
                IF link = "up" THEN [attached EXCEPT !.status = @ \cup {"WRITEABLE"}]
                               ELSE attached]
        /\ wlist' = IF link = "up" THEN Append(wlist, st) ELSE wlist
        /\ task' = [task EXCEPT ![t] = NewTask(st, "CONNECT", 0, FALSE, connectTimed)]
        /\ wrq' = [wrq EXCEPT ![st] = Append(@, t)]
        /\ armed' = armed \cup (IF connectTimed THEN {t} ELSE {})
                          \cup (IF hash[s] = NULL /\ timed THEN {st} ELSE {})
        /\ sock' = [sock EXCEPT ![s].link = link]
        /\ reg' = [reg EXCEPT ![s] = st]
        /\ ready' = ready \cup {s}
      BY DEF Connect, Enqueue
    <3>3. rdq' = rdq /\ wrq' = [wrq EXCEPT ![st] = Append(wrq[st], t)]
      BY <3>1 DEF Connect
    <3>2. st \in Stubs
      BY OpenStub DEF FreeStubs
    <3> QED
      BY <3>1, <3>2, <3>3
  <2>2. t \in Tasks /\ task'[t].cur = 0
    BY <2>1 DEF KInv, IInv, TypeInv, TypeOK, TaskTypeOK, FreeTasks, NewTask
  <2> QED
    BY <2>1, <2>2 DEF QueueChange, Change
<1> QED
  BY <1>1, <1>2

LEMMA DetachQueues ==
    ASSUME KInv, NEW s \in Socks,
           Detach(s) \/ \E link \in {"none", "connecting", "up"} : ConnectFail(s, link)
    PROVE  QueueChange(rdq) /\ QueueChange(wrq)
<1>1. \E st \in Stubs : Abandon(st, s, "EDETACHED")
  <2>1. CASE DetachStub(s)
    BY <2>1, OpenStub DEF DetachStub, Open
  <2>2. CASE ~DetachStub(s)
    BY <2>2 DEF Detach, ConnectFail, FreeStubs
  <2> QED
    BY <2>1, <2>2
<1> QED
  BY <1>1, EmptiedQueues

LEMMA SameQueues ==
    ASSUME rdq' = rdq, wrq' = wrq
    PROVE  QueueChange(rdq) /\ QueueChange(wrq)
BY DEF QueueChange

LEMMA QueuesNext ==
    ASSUME KInv, [Next]_vars
    PROVE  QueuesShift
<1> SUFFICES QueueChange(rdq) /\ QueueChange(wrq)
  BY QueueShifts DEF KInv, IInv
<1>1. CASE Application
  <2> PICK s \in Socks :
        \/ \E timed \in IdleTimers :
            \/ Attach(s, timed)
            \/ \E link \in {"connecting", "up"} : Connect(s, timed, link)
        \/ Listen(s)
        \/ Detach(s)
        \/ \E r \in Requests : Submit(s, r)
        \/ \E link \in {"none", "connecting", "up"} : ConnectFail(s, link)
        \/ \E silent \in BOOLEAN : SetSilence(s, silent)
        \/ Accept(s)
        \/ \E fresh \in {UpSock, NewSock} : Reopen(s, fresh)
    BY <1>1 DEF Application
  <2>1. CASE \/ \E timed \in IdleTimers : Attach(s, timed)
             \/ Listen(s)
             \/ \E silent \in BOOLEAN : SetSilence(s, silent)
             \/ Accept(s)
             \/ \E fresh \in {UpSock, NewSock} : Reopen(s, fresh)
    BY <2>1, SameQueues DEF Attach, Listen, SetSilence, Accept, Reopen, queueVars
  <2>2. CASE \E timed \in IdleTimers, link \in {"connecting", "up"} : Connect(s, timed, link)
    BY <2>2, RequestQueues, EpexAssumption
  <2>3. CASE \E r \in Requests : Submit(s, r)
    BY <2>3, RequestQueues
  <2>4. CASE Detach(s) \/ \E link \in {"none", "connecting", "up"} : ConnectFail(s, link)
    BY <2>4, DetachQueues
  <2> QED
    BY <2>1, <2>2, <2>3, <2>4
<1>2. CASE PollStep
  <2>1. CASE \/ \E e \in evts : EventError(e) \/ EventReady(e)
             \/ EventsEnd \/ ReadEnd \/ WriteEnd \/ TimerEnd \/ PollEnd
             \/ \E expired \in SUBSET armed : TimerTimeout(expired)
    BY <2>1, SameQueues
       DEF EventError, EventReady, EventsEnd, ReadEnd, WriteEnd, TimerEnd, PollEnd,
           TimerTimeout, Phase, queueVars
  <2>2. CASE \E st \in Stubs :
               \/ ReadListen(st) \/ ReadError(st) \/ ReadLeave(st) \/ WriteEagain(st)
               \/ WriteError(st) \/ WriteLeave(st) \/ FillSilent(st) \/ FillResults(st)
    BY <2>2, SameQueues
       DEF ReadListen, ReadError, ReadLeave, WriteEagain, WriteError, WriteLeave,
           FillSilent, FillResults, queueVars
  <2>3. CASE \E st \in Stubs :
               \/ ReadData(st) \/ ReadEagain(st) \/ ReadNothing(st)
               \/ WriteData(st) \/ WriteNothing(st)
    BY <2>3, ServedQueues
  <2>4. CASE \E st \in Stubs :
               \/ ReadEof(st) \/ ReadClosed(st) \/ ErrorFlush(st)
               \/ TimerSock(st) \/ FillNotify(st)
    BY <2>4, EmptiedQueues DEF TimerSock
  <2>5. CASE \E st \in Stubs, t \in Tasks : TimerTask(st, t)
    <3> PICK st \in Stubs, t \in Tasks : TimerTask(st, t)
      BY <2>5
    <3>1. /\ rdq' = [rdq EXCEPT ![st] = Unlink(rdq[st], t)]
          /\ wrq' = [wrq EXCEPT ![st] = Unlink(wrq[st], t)]
      BY DEF TimerTask
    <3> QED
      BY <3>1 DEF QueueChange, Change
  <2> QED
    BY <1>2, <2>1, <2>2, <2>3, <2>4, <2>5 DEF PollStep
<1>3. CASE Poll \/ PeerStep \/ UNCHANGED vars
  BY <1>3, SameQueues DEF Poll, PollStart, PeerStep, vars, queueVars
<1> QED
  BY <1>1, <1>2, <1>3 DEF Next

(* A request that is not the first of its queue is the first of none, so   *)
(* no step moves a byte of it.                                             *)
LEMMA BehindStays ==
    ASSUME KInv, TaskSteps, NEW st \in Stubs, NEW q \in {rdq[st], wrq[st]},
           NEW j \in DOMAIN q, j > 1, task[q[j]].cur = 0
    PROVE  task'[q[j]].cur = 0
<1>1. /\ TypeInv /\ Owned /\ q \in Seq(Tasks) /\ q # <<>> /\ NoDuplicates(q)
      /\ rdq[st] \in Seq(Tasks) /\ wrq[st] \in Seq(Tasks)
  <2>1. TypeInv /\ Owned
    BY DEF KInv, IInv
  <2>2. rdq[st] \in Seq(Tasks) /\ wrq[st] \in Seq(Tasks)
    BY <2>1, QueueRanges
  <2>3. NoDuplicates(rdq[st]) /\ NoDuplicates(wrq[st])
    BY <2>1 DEF Owned
  <2>4. q # <<>>
    OBVIOUS
  <2> QED
    BY <2>1, <2>2, <2>3, <2>4
<1>2. /\ DOMAIN q = 1..Len(q) /\ Len(q) \in Nat /\ Head(q) = q[1] /\ q[j] \in Range(q)
  BY <1>1, LenProperties, HeadTailProperties DEF Range
<1>3. q[j] # Head(q)
  BY <1>1, <1>2 DEF NoDuplicates, IsInjective
<1> DEFINE t == q[j]
<1>4. t \in Tasks /\ t \in Range(q) /\ t # Head(q)
  BY <1>1, <1>2, <1>3, RangeOfSeq
<1> HIDE DEF t
<1>5. ~AtHead(t)
  <2> SUFFICES ASSUME NEW x \in Stubs, NEW p \in {rdq[x], wrq[x]}, p # <<>>, t = Head(p)
               PROVE  FALSE
    BY DEF AtHead
  <2>1. t \in Range(p)
    BY FirstWaits
  <2>2. task[t].stub = st /\ task[t].stub = x
    BY <1>1, <1>4, <2>1, Answerable
  <2>3. (q = rdq[st] <=> task[t].op = "READ") /\ (p = rdq[x] <=> task[t].op = "READ")
    BY <1>1, <1>4, <2>1 DEF Owned
  <2> QED
    BY <1>4, <2>2, <2>3
<1>6. TaskStep(t) /\ task[t].cur = 0
  BY <1>4 DEF TaskSteps, t
<1>7. FreeTask.cur = 0
  BY DEF FreeTask
<1> QED
  BY <1>5, <1>6, <1>7 DEF TaskStep, Created, Answered, Moved, t

(* Bytes go to requests in the order they were made: only the first of a   *)
(* queue has moved any.                                                    *)
THEOREM BytesInOrder == Spec => []HeadOnlyPartial
<1>1. Init => HeadOnlyPartial
  BY DEF Init, HeadOnlyPartial
<1>2. ASSUME KInv, [Next]_vars, HeadOnlyPartial PROVE HeadOnlyPartial'
  <2>1. TaskSteps /\ QueuesShift
    BY <1>2, TasksNext, QueuesNext
  <2>2. ASSUME NEW st \in Stubs, NEW q \in {rdq[st], wrq[st]}, NEW after,
               Shifts(q, after), NEW i \in DOMAIN after, i > 1
        PROVE  task'[after[i]].cur = 0
    <3>1. CASE \E j \in DOMAIN q : j > 1 /\ after[i] = q[j]
      <4> PICK j \in DOMAIN q : j > 1 /\ after[i] = q[j]
        BY <3>1
      <4>1. task[q[j]].cur = 0
        BY <1>2 DEF HeadOnlyPartial
      <4> QED
        BY <1>2, <2>1, <4>1, BehindStays
    <3> QED
      BY <2>2, <3>1 DEF Shifts
  <2> QED
    BY <2>1, <2>2 DEF QueuesShift, HeadOnlyPartial
<1> QED
  BY <1>1, <1>2, KInvAlways, PTL DEF Spec
=============================================================================
