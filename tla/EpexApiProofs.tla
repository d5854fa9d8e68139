---------------------------- MODULE EpexApiProofs ----------------------------
(***************************************************************************)
(* The engine does what its interface promises: Epex implements EpexApi,   *)
(* for any sockets, stubs, requests and sizes.                             *)
(***************************************************************************)
EXTENDS EpexRequestProofs

-----------------------------------------------------------------------------
(* The interface's variables, one socket or request at a time.             *)

ConnOf(s) == IF hash[s] = NULL THEN "unknown"
             ELSE IF Dying(hash[s]) THEN "dying" ELSE "open"
OwnerOf(t) == IF InUse(t) THEN stub[task[t].stub].fd ELSE NULL
WaitingFor(s) == {t \in Tasks : OwnerOf(t) = s /\ task[t].status = ""}

(* How a step changes them. *)
ConnsBut(S) == \A s \in Socks \ S : ConnOf(s)' = ConnOf(s)
OwnersBut(T) == \A t \in Tasks \ T : OwnerOf(t)' = OwnerOf(t)
Given(T, result) ==
    \A t \in Tasks : task'[t].status = IF t \in T THEN result ELSE task[t].status

ApiStep == [Api!Next]_Api!vars

(* The steps of the interface in these terms. *)
LEMMA ApiStutters ==
    ASSUME ConnsBut({}), OwnersBut({}), Given({}, "")
    PROVE  ApiStep
<1>1. \A s \in Socks : ConnOf(s)' = ConnOf(s)
  BY DEF ConnsBut
<1>2. \A t \in Tasks : OwnerOf(t)' = OwnerOf(t) /\ task'[t].status = task[t].status
  BY DEF OwnersBut, Given
<1>3. UNCHANGED Api!vars
  BY <1>1, <1>2 DEF Api!vars, ConnOf, OwnerOf
<1> QED
  BY <1>3 DEF ApiStep

LEMMA ApiAttaches ==
    ASSUME NEW s \in Socks, ConnOf(s) = "unknown", ConnOf(s)' = "open",
           ConnsBut({s}), OwnersBut({}), Given({}, "")
    PROVE  ApiStep
<1>1. \A x \in Socks : ConnOf(x)' = IF x = s THEN "open" ELSE ConnOf(x)
  BY DEF ConnsBut
<1>2. \A t \in Tasks : OwnerOf(t)' = OwnerOf(t) /\ task'[t].status = task[t].status
  BY DEF OwnersBut, Given
<1>3. Api!Attach(s)
  BY <1>1, <1>2 DEF Api!Attach, ConnOf, OwnerOf
<1> QED
  BY <1>3 DEF ApiStep, Api!Next

LEMMA ApiRequests ==
    ASSUME NEW s \in Socks, NEW t \in Tasks,
           ConnOf(s) # "dying", ConnOf(s)' = "open", ConnsBut({s}),
           ~InUse(t), OwnerOf(t)' = s, OwnersBut({t}), Given({}, "")
    PROVE  ApiStep
<1>1. \A x \in Socks : ConnOf(x)' = IF x = s THEN "open" ELSE ConnOf(x)
  BY DEF ConnsBut
<1>2. \A u \in Tasks : /\ OwnerOf(u)' = IF u = t THEN s ELSE OwnerOf(u)
                       /\ task'[u].status = task[u].status
  BY DEF OwnersBut, Given
<1>3. OwnerOf(t) = NULL
  BY DEF OwnerOf
<1>4. Api!Request(s, t)
  BY <1>1, <1>2, <1>3 DEF Api!Request, ConnOf, OwnerOf
<1> QED
  BY <1>4 DEF ApiStep, Api!Next

LEMMA ApiAnnounces ==
    ASSUME NEW s \in Socks, NEW t \in Tasks, ConnOf(s) = "open", ConnsBut({}),
           ~InUse(t), OwnerOf(t)' = s, OwnersBut({t}), Given({t}, "DONE")
    PROVE  ApiStep
<1>1. \A x \in Socks : ConnOf(x)' = ConnOf(x)
  BY DEF ConnsBut
<1>2. \A u \in Tasks :
        /\ OwnerOf(u)' = IF u = t THEN s ELSE OwnerOf(u)
        /\ task'[u].status = IF u = t THEN "DONE" ELSE task[u].status
  BY DEF OwnersBut, Given
<1>3. OwnerOf(t) = NULL
  BY DEF OwnerOf
<1>4. Api!Announce(s, t)
  BY <1>1, <1>2, <1>3 DEF Api!Announce, ConnOf, OwnerOf
<1> QED
  BY <1>4 DEF ApiStep, Api!Next

LEMMA ApiWaiting == ASSUME NEW s \in Socks PROVE Api!Waiting(s) = WaitingFor(s)
BY DEF Api!Waiting, Api!Outstanding, WaitingFor, OwnerOf

LEMMA ApiAnswers ==
    ASSUME NEW s \in Socks, NEW T \in SUBSET WaitingFor(s),
           NEW result \in {"DONE", "PART_DONE", "ETIMEOUT", "ECLOSED"},
           ConnOf(s) = "open", ConnsBut({}), OwnersBut({}), Given(T, result)
    PROVE  ApiStep
<1>1. \A x \in Socks : ConnOf(x)' = ConnOf(x)
  BY DEF ConnsBut
<1>2. \A u \in Tasks : /\ OwnerOf(u)' = OwnerOf(u)
                       /\ task'[u].status = IF u \in T THEN result ELSE task[u].status
  BY DEF OwnersBut, Given
<1>3. T \in SUBSET Api!Waiting(s)
  BY ApiWaiting
<1>4. Api!Answer(s, T, result)
  BY <1>1, <1>2, <1>3 DEF Api!Answer, Api!AnswerAll, ConnOf, OwnerOf
<1> QED
  BY <1>3, <1>4 DEF ApiStep, Api!Next

LEMMA ApiKills ==
    ASSUME NEW s \in Socks, NEW result \in {"EDETACHED", "EIDLE"},
           ConnOf(s) # "dying", ConnOf(s)' = "dying", ConnsBut({s}),
           OwnersBut({}), Given(WaitingFor(s), result)
    PROVE  ApiStep
<1>1. \A x \in Socks : ConnOf(x)' = IF x = s THEN "dying" ELSE ConnOf(x)
  BY DEF ConnsBut
<1>2. \A u \in Tasks :
        /\ OwnerOf(u)' = OwnerOf(u)
        /\ task'[u].status = IF u \in Api!Waiting(s) THEN result ELSE task[u].status
  BY ApiWaiting DEF OwnersBut, Given
<1>3. Api!Kill(s, result)
  BY <1>1, <1>2 DEF Api!Kill, Api!AnswerAll, ConnOf, OwnerOf
<1> QED
  BY <1>3 DEF ApiStep, Api!Next

LEMMA ApiFails ==
    ASSUME NEW s \in Socks, ConnOf(s) = "open", ConnOf(s)' = "dying", ConnsBut({s}),
           OwnersBut({}), Given({}, "")
    PROVE  ApiStep
<1>1. \A x \in Socks : ConnOf(x)' = IF x = s THEN "dying" ELSE ConnOf(x)
  BY DEF ConnsBut
<1>2. \A t \in Tasks : OwnerOf(t)' = OwnerOf(t) /\ task'[t].status = task[t].status
  BY DEF OwnersBut, Given
<1>3. Api!Fail(s)
  BY <1>1, <1>2 DEF Api!Fail, ConnOf, OwnerOf
<1> QED
  BY <1>3 DEF ApiStep, Api!Next

LEMMA ApiFailsRequests ==
    ASSUME NEW s \in Socks, ConnOf(s) = "dying", ConnsBut({}),
           OwnersBut({}), Given(WaitingFor(s), "ERROR")
    PROVE  ApiStep
<1>1. \A x \in Socks : ConnOf(x)' = ConnOf(x)
  BY DEF ConnsBut
<1>2. \A u \in Tasks :
        /\ OwnerOf(u)' = OwnerOf(u)
        /\ task'[u].status = IF u \in Api!Waiting(s) THEN "ERROR" ELSE task[u].status
  BY ApiWaiting DEF OwnersBut, Given
<1>3. Api!FailRequests(s)
  BY <1>1, <1>2 DEF Api!FailRequests, Api!AnswerAll, ConnOf, OwnerOf
<1> QED
  BY <1>3 DEF ApiStep, Api!Next

LEMMA ApiHandsOut ==
    ASSUME NEW s \in Socks, NEW T \in SUBSET Tasks,
           \A t \in T : OwnerOf(t) = s /\ task[t].status # "" /\ OwnerOf(t)' = NULL,
           ConnsBut({}), OwnersBut(T), Given(T, "")
    PROVE  ApiStep
<1>1. \A x \in Socks : ConnOf(x)' = ConnOf(x)
  BY DEF ConnsBut
<1>2. \A u \in Tasks : /\ OwnerOf(u)' = IF u \in T THEN NULL ELSE OwnerOf(u)
                       /\ task'[u].status = IF u \in T THEN "" ELSE task[u].status
  BY DEF OwnersBut, Given
<1>3. T \in SUBSET Api!Outstanding(s)
  BY DEF Api!Outstanding, OwnerOf
<1>4. T \subseteq Api!Outstanding(s) \ Api!Waiting(s)
  BY <1>3, ApiWaiting DEF WaitingFor
<1>5. Api!HandOut(s, T)
  BY <1>1, <1>2, <1>4 DEF Api!HandOut, Api!AnswerAll, ConnOf, OwnerOf
<1> QED
  BY <1>3, <1>5 DEF ApiStep, Api!Next

LEMMA ApiNotifies ==
    ASSUME NEW s \in Socks, ConnOf(s) = "dying", ConnOf(s)' = "unknown", ConnsBut({s}),
           \A t \in Tasks : OwnerOf(t) # s,
           OwnersBut({}), Given({}, "")
    PROVE  ApiStep
<1>1. \A x \in Socks : ConnOf(x)' = IF x = s THEN "unknown" ELSE ConnOf(x)
  BY DEF ConnsBut
<1>2. \A t \in Tasks : OwnerOf(t)' = OwnerOf(t) /\ task'[t].status = task[t].status
  BY DEF OwnersBut, Given
<1>3. Api!Outstanding(s) = {}
  BY DEF Api!Outstanding, OwnerOf
<1>4. Api!Notify(s)
  BY <1>1, <1>2, <1>3 DEF Api!Notify, ConnOf, OwnerOf
<1> QED
  BY <1>4 DEF ApiStep, Api!Next

-----------------------------------------------------------------------------
(* What a step of the engine is to the interface.                          *)

LEMMA Known ==
    ASSUME KInv, NEW st \in Stubs, Live(st)
    PROVE  /\ stub[st].fd \in Socks /\ hash[stub[st].fd] = st
           /\ ConnOf(stub[st].fd) = IF Dying(st) THEN "dying" ELSE "open"
           /\ \A t \in Tasks : OwnerOf(t) = stub[st].fd <=> task[t].stub = st
           /\ WaitingFor(stub[st].fd) = Range(rdq[st]) \cup Range(wrq[st])
           /\ \A t \in Range(doneq[st]) : t \in Tasks /\ OwnerOf(t) = stub[st].fd
<1>1. /\ TypeInv /\ HashAgrees /\ Owned
      /\ stub \in [Stubs -> StubState] /\ task \in [Tasks -> TaskState]
  BY DEF KInv, IInv, TypeInv, TypeOK, StubTypeOK, TaskTypeOK
<1> PICK s : s = stub[st].fd
  OBVIOUS
<1>2. s \in Socks /\ hash[s] = st /\ st # NULL
  BY <1>1, KernelAssumption DEF Live, StubState, HashAgrees, LiveStubs
<1>3. ASSUME NEW t \in Tasks PROVE OwnerOf(t) = s <=> task[t].stub = st
  <2>1. InUse(t) => task[t].stub \in LiveStubs
    BY <1>1 DEF Owned, InUse, LiveStubs, TaskState
  <2>2. InUse(t) => hash[stub[task[t].stub].fd] = task[t].stub
    BY <1>1, <2>1 DEF HashAgrees
  <2>3. s # NULL
    BY <1>2, KernelAssumption
  <2> QED
    BY <1>2, <2>2, <2>3 DEF OwnerOf, InUse
<1>4. /\ Range(rdq[st]) \subseteq Tasks /\ Range(wrq[st]) \subseteq Tasks
      /\ Range(doneq[st]) \subseteq Tasks
  BY <1>1, QueueRanges
<1>5. \A t \in Tasks :
        /\ t \in Range(rdq[st]) \cup Range(wrq[st])
             <=> task[t].stub = st /\ task[t].status = ""
        /\ t \in Range(doneq[st]) => task[t].stub = st
  BY <1>1 DEF Owned
<1>6. WaitingFor(s) = Range(rdq[st]) \cup Range(wrq[st])
  BY <1>3, <1>4, <1>5 DEF WaitingFor
<1>7. ConnOf(s) = IF Dying(st) THEN "dying" ELSE "open"
  BY <1>2 DEF ConnOf
<1> QED
  BY <1>2, <1>3, <1>4, <1>5, <1>6, <1>7

LEMMA Unknown ==
    ASSUME KInv, NEW s \in Socks, hash[s] = NULL
    PROVE  \A t \in Tasks : OwnerOf(t) # s
<1> SUFFICES ASSUME NEW t \in Tasks, InUse(t), stub[task[t].stub].fd = s PROVE FALSE
  BY KernelAssumption DEF OwnerOf
<1>1. task[t].stub \in LiveStubs
  BY DEF KInv, Owned, InUse, LiveStubs, IInv, TypeInv, TypeOK, TaskTypeOK, TaskState
<1>2. hash[s] = task[t].stub
  BY <1>1 DEF KInv, IInv, HashAgrees
<1> QED
  BY <1>2 DEF InUse

(* The other sockets: their stubs and the hash table stay as they are. *)
LEMMA ConnsElsewhere ==
    ASSUME KInv, NEW S \in SUBSET Socks,
           \A x \in Socks \ S : hash'[x] = hash[x],
           \A x \in Stubs : Live(x) /\ stub[x].fd \notin S => (Dying(x)' <=> Dying(x))
    PROVE  ConnsBut(S)
<1> SUFFICES ASSUME NEW x \in Socks \ S PROVE ConnOf(x)' = ConnOf(x)
  BY DEF ConnsBut
<1>1. CASE hash[x] = NULL
  BY <1>1 DEF ConnOf
<1>2. CASE hash[x] # NULL
  <2> PICK st : st = hash[x]
    OBVIOUS
  <2>1. st \in Stubs /\ Live(st) /\ stub[st].fd = x
    BY <1>2, OpenStub
  <2>2. Dying(st)' <=> Dying(st)
    BY <2>1
  <2>3. hash'[x] = st
    OBVIOUS
  <2> QED
    BY <1>2, <2>2, <2>3 DEF ConnOf, Dying
<1> QED
  BY <1>1, <1>2

(* The stubs keep their sockets, and the requests (but T) their stubs. *)
LEMMA OwnersStay ==
    ASSUME KInv, NEW T \in SUBSET Tasks,
           \A x \in Stubs : Live(x) => stub'[x].fd = stub[x].fd,
           \A t \in Tasks \ T : task'[t].stub = task[t].stub
    PROVE  OwnersBut(T)
<1> SUFFICES ASSUME NEW t \in Tasks \ T PROVE OwnerOf(t)' = OwnerOf(t)
  BY DEF OwnersBut
<1> PICK st : st = task[t].stub
  OBVIOUS
<1>1. st # NULL => st \in Stubs /\ Live(st)
  BY DEF KInv, Owned, InUse, IInv, TypeInv, TypeOK, TaskTypeOK, TaskState
<1>2. st # NULL => stub'[st].fd = stub[st].fd
  BY <1>1
<1> QED
  BY <1>2 DEF OwnerOf, InUse

(* Requests are answered: the other fields stay. *)
LEMMA MarkedTasks ==
    ASSUME TypeInv, NEW T \in SUBSET Tasks, NEW result,
           task' = [t \in Tasks |-> IF t \in T THEN [task[t] EXCEPT !.status = result]
                                               ELSE task[t]]
    PROVE  Given(T, result) /\ \A t \in Tasks : task'[t].stub = task[t].stub
<1>1. \A t \in Tasks : task[t] \in TaskState
  BY DEF TypeInv, TypeOK, TaskTypeOK
<1> QED
  BY <1>1 DEF Given, TaskState

(* A stub changes nothing but its status, and not from open to dying. *)
LEMMA SameConns ==
    ASSUME KInv, NEW st \in Stubs, NEW status, hash' = hash,
           stub' = [stub EXCEPT ![st].status = status],
           status \cap Fatal = {} <=> ~Dying(st)
    PROVE  ConnsBut({}) /\ \A x \in Stubs : stub'[x].fd = stub[x].fd
<1>1. stub \in [Stubs -> StubState]
  BY DEF KInv, IInv, TypeInv, TypeOK, StubTypeOK
<1>2. \A x \in Stubs : /\ stub'[x].fd = stub[x].fd
                       /\ stub'[x].status = IF x = st THEN status ELSE stub[x].status
  BY <1>1 DEF StubState
<1>3. \A x \in Stubs : Dying(x)' <=> Dying(x)
  BY <1>2 DEF Dying
<1>4. ConnsBut({})
  BY <1>3, ConnsElsewhere
<1> QED
  BY <1>2, <1>4

(* A stub of an open socket dies. *)
LEMMA ConnDies ==
    ASSUME KInv, NEW st \in Stubs, Live(st), NEW f \in Fatal, hash' = hash,
           stub' = [stub EXCEPT ![st].status = {f}]
    PROVE  /\ ConnsBut({stub[st].fd}) /\ ConnOf(stub[st].fd)' = "dying"
           /\ \A x \in Stubs : stub'[x].fd = stub[x].fd
<1>1. stub \in [Stubs -> StubState]
  BY DEF KInv, IInv, TypeInv, TypeOK, StubTypeOK
<1>2. \A x \in Stubs : /\ stub'[x].fd = stub[x].fd
                       /\ stub'[x].status = IF x = st THEN {f} ELSE stub[x].status
  BY <1>1 DEF StubState
<1> PICK s : s = stub[st].fd
  OBVIOUS
<1>3. s \in Socks /\ hash[s] = st /\ st # NULL
  BY Known, KernelAssumption
<1>4. \A x \in Stubs : x # st => (Dying(x)' <=> Dying(x))
  BY <1>2 DEF Dying
<1>5. ConnsBut({s})
  BY <1>3, <1>4, ConnsElsewhere
<1>6. Dying(st)' /\ hash'[s] = st
  BY <1>2, <1>3 DEF Dying
<1>7. ConnOf(s)' = "dying"
  BY <1>3, <1>6 DEF ConnOf, Dying
<1> QED
  BY <1>2, <1>5, <1>7

-----------------------------------------------------------------------------
(* A request nobody has made has no result: the object comes zeroed out of *)
(* the pool, and a result is taken from it with the object.                *)
FreeUnanswered == \A t \in Tasks : ~InUse(t) => task[t].status = ""

LEMMA FreeUnansweredStep ==
    ASSUME FreeUnanswered, StepSafe
    PROVE  FreeUnanswered'
<1>1. FreeTask.status = "" /\ \A st \in Stubs : st # NULL
  BY KernelAssumption DEF FreeTask
<1> SUFFICES ASSUME NEW t \in Tasks, task'[t].stub = NULL PROVE task'[t].status = ""
  BY DEF FreeUnanswered, InUse
<1>2. task[t].stub = NULL => task[t].status = ""
  BY DEF FreeUnanswered, InUse
<1>3. CASE Resting
  BY <1>2, <1>3 DEF Resting
<1>4. ASSUME NEW st \in Stubs, NEW u \in Tasks,
             Progressing(st, u) \/ Requesting(st, u) \/ Announcing(st, u)
      PROVE  task'[t].status = ""
  <2>1. u # t => task'[t] = task[t]
    BY <1>4 DEF Progressing, Requesting, Announcing, OtherTasks
  <2>2. u = t => Progressing(st, t)
    BY <1>1, <1>4 DEF Requesting, Announcing
  <2>3. u = t => task'[t].status = ""
    BY <2>2 DEF Progressing
  <2> QED
    BY <1>2, <2>1, <2>3
<1>5. ASSUME NEW st \in Stubs, NEW T \in SUBSET Tasks, NEW result \in Results,
             Answering(st, T, result)
      PROVE  task'[t].status = ""
  <2>1. t \in T => task'[t].stub = st
    BY <1>5 DEF Answering, SameRequest
  <2>2. t \notin T => task'[t] = task[t]
    BY <1>5 DEF Answering, OtherTasks
  <2> QED
    BY <1>1, <1>2, <2>1, <2>2
<1>6. ASSUME NEW st \in Stubs, NEW T \in SUBSET Tasks, Delivering(st, T)
      PROVE  task'[t].status = ""
  <2>1. t \in T => task'[t] = FreeTask
    BY <1>6 DEF Delivering
  <2>2. t \notin T => task'[t] = task[t]
    BY <1>6 DEF Delivering, OtherTasks
  <2> QED
    BY <1>1, <1>2, <2>1, <2>2
<1> QED
  BY <1>3, <1>4, <1>5, <1>6 DEF StepSafe, EffectAt

-----------------------------------------------------------------------------
(* Steps the interface does not see.                                       *)

LEMMA Invisible ==
    ASSUME KInv, hash' = hash, task' = task,
           \A x \in Stubs : stub'[x].fd = stub[x].fd /\ (Dying(x)' <=> Dying(x))
    PROVE  ApiStep
<1>1. ConnsBut({})
  BY ConnsElsewhere
<1>2. OwnersBut({})
  BY OwnersStay
<1>3. Given({}, "")
  BY DEF Given
<1> QED
  BY <1>1, <1>2, <1>3, ApiStutters

LEMMA InvisibleFrames ==
    ASSUME KInv, UNCHANGED <<hash, stub, task>>
    PROVE  ApiStep
<1>1. \A x \in Stubs : stub'[x].fd = stub[x].fd /\ (Dying(x)' <=> Dying(x))
  BY DEF Dying
<1> QED
  BY <1>1, Invisible

(* A flag of a stub is set or taken away. *)
LEMMA InvisibleFlags ==
    ASSUME KInv, NEW st \in Stubs, NEW status, hash' = hash, task' = task,
           stub' = [stub EXCEPT ![st].status = status],
           status \cap Fatal = {} <=> ~Dying(st)
    PROVE  ApiStep
<1>1. ConnsBut({}) /\ OwnersBut({})
  BY SameConns, OwnersStay
<1>2. Given({}, "")
  BY DEF Given
<1> QED
  BY <1>1, <1>2, ApiStutters

LEMMA FlagsNotFatal ==
    ASSUME NEW before, NEW on, NEW off, on \cap Fatal = {}, off \cap Fatal = {}
    PROVE  ((before \ off) \cup on) \cap Fatal = before \cap Fatal
OBVIOUS

LEMMA InvisibleCalls ==
    ASSUME KInv, NEW s \in Socks,
           \/ \E silent \in BOOLEAN : SetSilence(s, silent)
           \/ Accept(s)
           \/ \E fresh \in {UpSock, NewSock} : Reopen(s, fresh)
    PROVE  ApiStep
<1>1. CASE Accept(s) \/ \E fresh \in {UpSock, NewSock} : Reopen(s, fresh)
  BY <1>1, InvisibleFrames DEF Accept, Reopen
<1>2. CASE \E silent \in BOOLEAN : SetSilence(s, silent)
  <2> PICK silent \in BOOLEAN : SetSilence(s, silent)
    BY <1>2
  <2>1. stub \in [Stubs -> StubState] /\ hash' = hash /\ task' = task
    BY DEF KInv, IInv, TypeInv, TypeOK, StubTypeOK, SetSilence
  <2> PICK st : st = hash[s]
    OBVIOUS
  <2>2. st \in Stubs /\ stub' = [stub EXCEPT ![st].silent = silent]
    BY OpenStub DEF SetSilence
  <2>3. \A x \in Stubs : stub'[x].fd = stub[x].fd /\ stub'[x].status = stub[x].status
    BY <2>1, <2>2 DEF StubState
  <2> QED
    BY <2>1, <2>3, Invisible DEF Dying
<1> QED
  BY <1>1, <1>2

LEMMA InvisiblePolls ==
    ASSUME KInv,
           \/ Poll \/ PeerStep \/ UNCHANGED vars
           \/ EventsEnd \/ ReadEnd \/ WriteEnd \/ TimerEnd \/ PollEnd
           \/ \E expired \in SUBSET armed : TimerTimeout(expired)
           \/ \E st \in Stubs : ReadLeave(st) \/ WriteLeave(st) \/ FillSilent(st)
    PROVE  ApiStep
<1>1. UNCHANGED <<hash, stub, task>>
  BY DEF Poll, PollStart, PeerStep, vars, EventsEnd, ReadEnd, WriteEnd, TimerEnd,
         PollEnd, TimerTimeout, Phase, ReadLeave, WriteLeave, FillSilent
<1> QED
  BY <1>1, InvisibleFrames

LEMMA InvisibleMarks ==
    ASSUME KInv,
           \/ \E e \in evts : EventReady(e)
           \/ \E st \in Stubs : WriteEagain(st)
    PROVE  ApiStep
<1>1. CASE \E e \in evts : EventReady(e)
  <2> PICK e \in evts : EventReady(e)
    BY <1>1
  <2> PICK st : st = e.st
    OBVIOUS
  <2> DEFINE new == EventFlags(e.mask) \ stub[st].status
  <2>1. st \in Stubs /\ stub \in [Stubs -> StubState]
    BY DEF KInv, IInv, TypeInv, TypeOK, PollTypeOK, StubTypeOK
  <2>2. stub' = [stub EXCEPT ![st].status = stub[st].status \cup new]
    BY <2>1 DEF EventReady
  <2>3. new \cap Fatal = {}
    BY DEF EventFlags, Fatal
  <2>4. (stub[st].status \cup new) \cap Fatal = {} <=> ~Dying(st)
    BY <2>3 DEF Dying
  <2>5. hash' = hash /\ task' = task
    BY DEF EventReady
  <2> HIDE DEF new
  <2> QED
    BY <2>1, <2>2, <2>4, <2>5, InvisibleFlags
<1>2. CASE \E st \in Stubs : WriteEagain(st)
  <2> PICK st \in Stubs : WriteEagain(st)
    BY <1>2
  <2>1. /\ stub' = [stub EXCEPT ![st].status = stub[st].status \ {"WRITEABLE"}]
        /\ hash' = hash /\ task' = task
    BY DEF WriteEagain, queueVars
  <2>2. (stub[st].status \ {"WRITEABLE"}) \cap Fatal = {} <=> ~Dying(st)
    BY DEF Dying, Fatal
  <2> QED
    BY <2>1, <2>2, InvisibleFlags
<1> QED
  BY <1>1, <1>2

-----------------------------------------------------------------------------
(* Calls of the application.                                               *)

LEMMA Attaches ==
    ASSUME KInv, NEW s \in Socks, NEW timed \in BOOLEAN, Attach(s, timed) \/ Listen(s)
    PROVE  ApiStep
<1> PICK st \in FreeStubs, listen \in BOOLEAN, idle \in BOOLEAN :
      /\ hash' = [hash EXCEPT ![s] = st]
      /\ stub' = [stub EXCEPT ![st] = NewStub(s, listen, idle)]
  BY DEF Attach, Listen
<1>1. /\ hash \in [Socks -> Stubs \cup {NULL}] /\ stub \in [Stubs -> StubState]
      /\ st \in Stubs /\ ~Live(st) /\ st # NULL /\ hash[s] = NULL /\ task' = task
  BY FreeStubEmpty, KernelAssumption
     DEF KInv, IInv, TypeInv, TypeOK, StubTypeOK, Attach, Listen, queueVars
<1>2. /\ hash'[s] = st /\ \A x \in Socks \ {s} : hash'[x] = hash[x]
      /\ stub'[st].status = {} /\ stub'[st].fd = s
      /\ \A x \in Stubs : Live(x) => stub'[x] = stub[x]
  BY <1>1 DEF NewStub, FreeStub
<1>3. ConnsBut({s})
  BY <1>2, ConnsElsewhere DEF Dying
<1>4. OwnersBut({}) /\ Given({}, "")
  BY <1>1, <1>2, OwnersStay DEF Given
<1>5. ConnOf(s) = "unknown" /\ ConnOf(s)' = "open"
  BY <1>1, <1>2 DEF ConnOf, Dying
<1> QED
  BY <1>3, <1>4, <1>5, ApiAttaches

LEMMA Submits ==
    ASSUME KInv, FreeUnanswered, NEW s \in Socks, NEW r \in Requests, Submit(s, r)
    PROVE  ApiStep
<1> PICK st : st = hash[s]
  OBVIOUS
<1>1. st \in Stubs /\ Live(st) /\ stub[st].fd = s /\ ~Dying(st)
  BY OpenStub DEF Submit, Open
<1> PICK t \in FreeTasks :
      task' = [task EXCEPT ![t] = NewTask(st, r.op, r.size, r.all, r.timed)]
  BY DEF Submit
<1>2. /\ t \in Tasks /\ ~InUse(t) /\ task \in [Tasks -> TaskState]
      /\ UNCHANGED <<hash, stub>>
  BY DEF FreeTasks, InUse, KInv, IInv, TypeInv, TypeOK, TaskTypeOK, Submit
<1>3. /\ task'[t].stub = st /\ task'[t].status = ""
      /\ \A u \in Tasks \ {t} : task'[u] = task[u]
  BY <1>2 DEF NewTask
<1>4. ConnsBut({})
  BY <1>2, ConnsElsewhere DEF Dying
<1>5. ConnOf(s) = "open" /\ ConnOf(s)' = "open"
  BY <1>1, <1>4, Known DEF ConnsBut
<1>6. OwnersBut({t})
  BY <1>2, <1>3, OwnersStay
<1>7. OwnerOf(t)' = s
  BY <1>1, <1>2, <1>3, KernelAssumption DEF OwnerOf, InUse
<1>8. task[t].status = ""
  BY <1>2 DEF FreeUnanswered
<1>9. \A u \in Tasks : task'[u].status = task[u].status
  BY <1>3, <1>8
<1>10. Given({}, "")
  BY <1>9 DEF Given
<1> QED
  BY <1>2, <1>4, <1>5, <1>6, <1>7, <1>10, ApiRequests DEF ConnsBut

(* What Abandon does to the requests of a stub that is not dying yet. *)
LEMMA AbandonsRequests ==
    ASSUME KInv, NEW st \in Stubs, Live(st), NEW s, NEW result,
           Abandon(st, s, result)
    PROVE  /\ Given(WaitingFor(stub[st].fd), result)
           /\ \A t \in Tasks : task'[t].stub = task[t].stub
<1> DEFINE T == Range(rdq[st] \o wrq[st])
<1>1. TypeInv /\ T = Range(rdq[st]) \cup Range(wrq[st]) /\ T \subseteq Tasks
  BY QueueRanges, RangeConcatenation DEF KInv, IInv
<1>2. task' = [t \in Tasks |-> IF t \in T THEN [task[t] EXCEPT !.status = result]
                                          ELSE task[t]]
  BY DEF Abandon
<1>3. T = WaitingFor(stub[st].fd)
  BY <1>1, Known
<1> HIDE DEF T
<1> QED
  BY <1>1, <1>2, <1>3, MarkedTasks

LEMMA Detaches ==
    ASSUME KInv, NEW s \in Socks, DetachStub(s)
    PROVE  ApiStep
<1> PICK st : st = hash[s]
  OBVIOUS
<1>1. st \in Stubs /\ Live(st) /\ stub[st].fd = s /\ ~Dying(st)
  BY OpenStub DEF DetachStub, Open
<1>2. /\ stub' = [stub EXCEPT ![st].status = {"DETACHED"}]
      /\ Abandon(st, s, "EDETACHED") /\ hash' = hash
  BY DEF DetachStub
<1>3. /\ ConnsBut({s}) /\ ConnOf(s)' = "dying"
      /\ \A x \in Stubs : stub'[x].fd = stub[x].fd
  BY <1>1, <1>2, ConnDies DEF Fatal
<1>4. Given(WaitingFor(s), "EDETACHED") /\ OwnersBut({})
  BY <1>1, <1>2, <1>3, AbandonsRequests, OwnersStay
<1>5. ConnOf(s) = "open"
  BY <1>1, Known
<1> QED
  BY <1>3, <1>4, <1>5, ApiKills

LEMMA FailsToConnect ==
    ASSUME KInv, NEW s \in Socks, NEW link, ConnectFail(s, link)
    PROVE  ApiStep
<1>1. CASE DetachStub(s)
  BY <1>1, Detaches
<1>2. CASE ~DetachStub(s)
  <2> PICK st \in FreeStubs :
        /\ hash' = [hash EXCEPT ![s] = st]
        /\ stub' = [stub EXCEPT ![st] = [NewStub(s, FALSE, FALSE)
                                          EXCEPT !.status = {"DETACHED"}]]
        /\ Abandon(st, s, "EDETACHED")
    BY <1>2 DEF ConnectFail
  <2>1. hash[s] = NULL
    BY <1>2 DEF ConnectFail
  <2>2. /\ hash \in [Socks -> Stubs \cup {NULL}] /\ stub \in [Stubs -> StubState]
        /\ st \in Stubs /\ ~Live(st) /\ ~Dying(st) /\ st # NULL /\ TypeInv
    BY FreeStubEmpty, KernelAssumption DEF KInv, IInv, TypeInv, TypeOK, StubTypeOK
  <2>3. /\ hash'[s] = st /\ \A x \in Socks \ {s} : hash'[x] = hash[x]
        /\ stub'[st].status = {"DETACHED"}
        /\ \A x \in Stubs : Live(x) => stub'[x] = stub[x]
    BY <2>2 DEF NewStub, FreeStub
  <2>4. ConnsBut({s})
    BY <2>3, ConnsElsewhere DEF Dying
  <2>5. ConnOf(s) = "unknown"
    BY <2>1 DEF ConnOf
  <2>6. ConnOf(s)' = "dying"
    BY <2>2, <2>3 DEF ConnOf, Dying, Fatal
  <2>7. task' = task
    <3>1. ASSUME NEW t \in Tasks PROVE task[t].stub # st
      <4>1. InUse(t) => Live(task[t].stub)
        BY DEF KInv, Owned
      <4> QED
        BY <2>2, <4>1 DEF InUse
    <3>2. Range(rdq[st]) = {} /\ Range(wrq[st]) = {}
      <4>1. Range(rdq[st]) \subseteq Tasks /\ Range(wrq[st]) \subseteq Tasks
        BY <2>2, QueueRanges
      <4>2. \A t \in Tasks : t \in Range(rdq[st]) \cup Range(wrq[st]) => task[t].stub = st
        BY <2>2 DEF KInv, Owned
      <4> QED
        BY <3>1, <4>1, <4>2
    <3>3. Range(rdq[st] \o wrq[st]) = {}
      BY <2>2, <3>2, QueueRanges, RangeConcatenation
    <3>4. task' = [t \in Tasks |-> task[t]]
      BY <3>3 DEF Abandon
    <3> QED
      BY <2>2, <3>4 DEF TypeInv, TypeOK, TaskTypeOK
  <2>8. OwnersBut({})
    BY <2>3, <2>7, OwnersStay
  <2>9. Given(WaitingFor(s), "EDETACHED")
    <3>1. WaitingFor(s) = {}
      BY <2>1, Unknown DEF WaitingFor
    <3> QED
      BY <2>7, <3>1 DEF Given
  <2> QED
    BY <2>4, <2>5, <2>6, <2>8, <2>9, ApiKills
<1> QED
  BY <1>1, <1>2

LEMMA Connects ==
    ASSUME KInv, FreeUnanswered, NEW s \in Socks, NEW timed \in BOOLEAN,
           NEW link \in {"connecting", "up"}, Connect(s, timed, link)
    PROVE  ApiStep
<1>1. PICK st \in IF hash[s] = NULL THEN FreeStubs ELSE {hash[s]},
           t \in FreeTasks, connectTimed \in BOOLEAN :
        LET attached == IF hash[s] = NULL THEN NewStub(s, FALSE, timed) ELSE stub[st]
        IN /\ hash' = [hash EXCEPT ![s] = st]
           /\ stub' = [stub EXCEPT ![st] =
                IF link = "up" THEN [attached EXCEPT !.status = @ \cup {"WRITEABLE"}]
                               ELSE attached]
           /\ task' = [task EXCEPT ![t] = NewTask(st, "CONNECT", 0, FALSE, connectTimed)]
  BY DEF Connect
<1>2. /\ st \in Stubs /\ st # NULL /\ t \in Tasks /\ ~InUse(t)
      /\ hash \in [Socks -> Stubs \cup {NULL}] /\ stub \in [Stubs -> StubState]
      /\ task \in [Tasks -> TaskState]
      /\ hash[s] = NULL => ~Live(st)
      /\ hash[s] # NULL => st = hash[s] /\ ~Dying(st)
  BY <1>1, FreeStubEmpty, OpenStub, KernelAssumption
     DEF KInv, IInv, TypeInv, TypeOK, StubTypeOK, TaskTypeOK, FreeTasks, InUse,
         Connect, Open
<1>3. hash'[s] = st /\ \A x \in Socks \ {s} : hash'[x] = hash[x]
  BY <1>1, <1>2
<1>4. /\ stub'[st].fd = s /\ stub'[st].status \cap Fatal = {}
      /\ \A x \in Stubs \ {st} : stub'[x] = stub[x]
  <2> PICK attached \in StubState :
        /\ attached.fd = s /\ attached.status \cap Fatal = {}
        /\ \/ stub' = [stub EXCEPT ![st] = attached]
           \/ stub' = [stub EXCEPT ![st] =
                        [attached EXCEPT !.status = @ \cup {"WRITEABLE"}]]
    <3>1. CASE hash[s] = NULL
      <4>1. /\ NewStub(s, FALSE, timed).fd = s /\ NewStub(s, FALSE, timed).status = {}
            /\ NewStub(s, FALSE, timed) \in StubState
        BY DEF NewStub, FreeStub, StubState
      <4> QED
        BY <1>1, <3>1, <4>1
    <3>2. CASE hash[s] # NULL
      <4>1. stub[st] \in StubState /\ stub[st].fd = s /\ stub[st].status \cap Fatal = {}
        BY <1>2, <3>2, OpenStub DEF Dying
      <4> QED
        BY <1>1, <3>2, <4>1
    <3> QED
      BY <3>1, <3>2
  <2>1. /\ [attached EXCEPT !.status = @ \cup {"WRITEABLE"}].fd = s
        /\ [attached EXCEPT !.status = @ \cup {"WRITEABLE"}].status
             = attached.status \cup {"WRITEABLE"}
    BY DEF StubState
  <2>2. (attached.status \cup {"WRITEABLE"}) \cap Fatal = {}
    BY DEF Fatal
  <2> QED
    BY <1>2, <2>1, <2>2
<1>5. \A x \in Stubs : Live(x) => stub'[x].fd = stub[x].fd
  BY <1>2, <1>4, OpenStub
<1>6. \A x \in Stubs : Live(x) /\ stub[x].fd \notin {s} => (Dying(x)' <=> Dying(x))
  <2> SUFFICES ASSUME NEW x \in Stubs, Live(x), stub[x].fd # s PROVE stub'[x] = stub[x]
    BY DEF Dying
  <2>1. x # st
    BY <1>2, OpenStub
  <2> QED
    BY <1>4, <2>1
<1>7. ConnsBut({s})
  BY <1>3, <1>6, ConnsElsewhere
<1>8. ConnOf(s)' = "open"
  BY <1>2, <1>3, <1>4 DEF ConnOf, Dying
<1>9. ConnOf(s) # "dying"
  BY <1>2 DEF ConnOf
<1>10. /\ task'[t].stub = st /\ task'[t].status = ""
       /\ \A u \in Tasks \ {t} : task'[u] = task[u]
  BY <1>1, <1>2 DEF NewTask
<1>11. OwnersBut({t})
  BY <1>2, <1>5, <1>10, OwnersStay
<1>12. OwnerOf(t)' = s
  BY <1>2, <1>4, <1>10 DEF OwnerOf, InUse
<1>13. Given({}, "")
  <2>1. task[t].status = ""
    BY <1>2 DEF FreeUnanswered
  <2>2. \A u \in Tasks : task'[u].status = task[u].status
    BY <1>10, <2>1
  <2> QED
    BY <2>2 DEF Given
<1> QED
  BY <1>2, <1>7, <1>8, <1>9, <1>11, <1>12, <1>13, ApiRequests

-----------------------------------------------------------------------------
(* A stub breaks, or is idle for too long.                                 *)

LEMMA Breaks ==
    ASSUME KInv, NEW st \in Stubs, Live(st), ~Dying(st), DoWithError(st),
           UNCHANGED <<hash, task>>
    PROVE  ApiStep
<1> PICK s : s = stub[st].fd
  OBVIOUS
<1>1. s \in Socks /\ ConnOf(s) = "open"
  BY Known
<1>2. /\ ConnsBut({s}) /\ ConnOf(s)' = "dying"
      /\ \A x \in Stubs : stub'[x].fd = stub[x].fd
  BY ConnDies DEF DoWithError, Fatal
<1>3. OwnersBut({}) /\ Given({}, "")
  BY <1>2, OwnersStay DEF Given
<1> QED
  BY <1>1, <1>2, <1>3, ApiFails

LEMMA BreakingSteps ==
    ASSUME KInv,
           \/ \E e \in evts : EventError(e)
           \/ \E st \in Stubs : ReadError(st) \/ WriteError(st)
    PROVE  ApiStep
<1>1. CASE \E e \in evts : EventError(e)
  <2> PICK e \in evts : EventError(e)
    BY <1>1
  <2> PICK st : st = e.st
    OBVIOUS
  <2>1. st \in Stubs /\ Live(st) /\ ~Dying(st)
    BY DEF KInv, IInv, TypeInv, TypeOK, PollTypeOK, EventInv, FetchedAlive
  <2>2. DoWithError(st) /\ UNCHANGED <<hash, task>>
    BY DEF EventError
  <2> QED
    BY <2>1, <2>2, Breaks
<1>2. CASE \E st \in Stubs : ReadError(st) \/ WriteError(st)
  <2> PICK st \in Stubs : ReadError(st) \/ WriteError(st)
    BY <1>2
  <2>1. /\ pc \in {"read", "write"} /\ todo # <<>> /\ st = Head(todo)
        /\ DoWithError(st) /\ UNCHANGED <<hash, task>>
    BY DEF ReadError, WriteError, CallsRead, CallsWrite, Reading, Writing
  <2>2. Live(st) /\ ~Dying(st)
    BY <2>1, ServedStub DEF KInv, IInv
  <2> QED
    BY <2>1, <2>2, Breaks
<1> QED
  BY <1>1, <1>2

LEMMA IdleSteps ==
    ASSUME KInv, NEW st \in Stubs, TimerSock(st)
    PROVE  ApiStep
<1>1. /\ pc = "timer" /\ st \in armed /\ hash' = hash
      /\ stub' = [stub EXCEPT ![st].status = {"IDLE"}]
      /\ Abandon(st, stub[st].fd, "EIDLE")
  BY DEF TimerSock, KInv, TaskUnits
<1>2. Live(st)
  BY <1>1 DEF KInv, StubOK
<1> PICK s : s = stub[st].fd
  OBVIOUS
<1>3. s \in Socks /\ ConnOf(s) = IF Dying(st) THEN "dying" ELSE "open"
  BY <1>2, Known
<1>4. /\ ConnsBut({s}) /\ ConnOf(s)' = "dying"
      /\ \A x \in Stubs : stub'[x].fd = stub[x].fd
  BY <1>1, <1>2, ConnDies DEF Fatal
<1>5. Given(WaitingFor(s), "EIDLE") /\ OwnersBut({})
  BY <1>1, <1>2, <1>4, AbandonsRequests, OwnersStay
<1>6. CASE ~Dying(st)
  BY <1>3, <1>4, <1>5, <1>6, ApiKills
<1>7. CASE Dying(st)
  <2>1. ~Unsettled(st)
    BY <1>1 DEF Unsettled
  <2>2. rdq[st] = <<>> /\ wrq[st] = <<>>
    BY <1>7, <2>1 DEF KInv, StubOK
  <2>3. WaitingFor(s) = {}
    <3>1. Range(rdq[st]) = {} /\ Range(wrq[st]) = {}
      <4>1. rdq[st] \in Seq(Tasks) /\ wrq[st] \in Seq(Tasks)
        BY QueueRanges DEF KInv, IInv
      <4> QED
        BY <2>2, <4>1, EmptyRange
    <3> QED
      BY <1>2, <3>1, Known
  <2>4. Given({}, "")
    BY <1>5, <2>3 DEF Given
  <2>5. ConnsBut({})
    BY <1>3, <1>4, <1>7 DEF ConnsBut
  <2> QED
    BY <1>5, <2>4, <2>5, ApiStutters
<1> QED
  BY <1>6, <1>7

-----------------------------------------------------------------------------
(* Requests are answered.                                                  *)

LEMMA Answers ==
    ASSUME KInv, NEW st \in Stubs, Live(st), ~Dying(st),
           NEW T \in SUBSET (Range(rdq[st]) \cup Range(wrq[st])),
           NEW result \in {"DONE", "PART_DONE", "ETIMEOUT", "ECLOSED"},
           ConnsBut({}), \A x \in Stubs : stub'[x].fd = stub[x].fd,
           Given(T, result), \A t \in Tasks : task'[t].stub = task[t].stub
    PROVE  ApiStep
<1> PICK s : s = stub[st].fd
  OBVIOUS
<1>1. s \in Socks /\ ConnOf(s) = "open" /\ T \in SUBSET WaitingFor(s)
  BY Known
<1>2. OwnersBut({})
  BY OwnersStay
<1> QED
  BY <1>1, <1>2, ApiAnswers

(* The same when the flags of the stub are left alone, and when the stub   *)
(* that is served loses or gets one.                                       *)
LEMMA SameStubs ==
    ASSUME KInv, UNCHANGED <<hash, stub>>
    PROVE  ConnsBut({}) /\ \A x \in Stubs : stub'[x].fd = stub[x].fd
<1>1. ConnsBut({})
  BY ConnsElsewhere DEF Dying
<1> QED
  BY <1>1

LEMMA SameButFlags ==
    ASSUME KInv, NEW st \in Stubs, NEW on \in {{}, {"CLOSED"}}, hash' = hash,
           stub' = [stub EXCEPT ![st].status =
                        (stub[st].status \ {"READABLE"}) \cup on]
    PROVE  ConnsBut({}) /\ \A x \in Stubs : stub'[x].fd = stub[x].fd
<1> PICK status : status = (stub[st].status \ {"READABLE"}) \cup on
  OBVIOUS
<1>1. status \cap Fatal = {} <=> ~Dying(st)
  BY DEF Dying, Fatal
<1>2. stub' = [stub EXCEPT ![st].status = status]
  OBVIOUS
<1> QED
  BY <1>1, <1>2, SameConns

LEMMA DoneTasks ==
    ASSUME TypeInv, NEW st, NEW ts, NEW result, Range(ts) \subseteq Tasks,
           TasksDone(st, ts, result)
    PROVE  Given(Range(ts), result) /\ \A t \in Tasks : task'[t].stub = task[t].stub
<1> DEFINE T == Range(ts)
<1>1. task' = [t \in Tasks |-> IF t \in T THEN [task[t] EXCEPT !.status = result]
                                          ELSE task[t]]
  BY DEF TasksDone
<1>2. T \in SUBSET Tasks
  OBVIOUS
<1> HIDE DEF T
<1> QED
  BY <1>1, <1>2, MarkedTasks DEF T

LEMMA MovedTasks ==
    ASSUME TypeInv, NEW t \in Tasks, NEW n, NEW full \in BOOLEAN,
           task' = [task EXCEPT ![t] =
                IF full THEN [[task[t] EXCEPT !.cur = @ + n] EXCEPT !.status = "DONE"]
                        ELSE [task[t] EXCEPT !.cur = @ + n]]
    PROVE  /\ Given(IF full THEN {t} ELSE {}, "DONE")
           /\ \A u \in Tasks : task'[u].stub = task[u].stub
<1> PICK m : m = task[t].cur + n
  OBVIOUS
<1>1. task \in [Tasks -> TaskState]
  BY DEF TypeInv, TypeOK, TaskTypeOK
<1>2. task' = [task EXCEPT ![t] =
                IF full THEN [[task[t] EXCEPT !.cur = m] EXCEPT !.status = "DONE"]
                        ELSE [task[t] EXCEPT !.cur = m]]
  OBVIOUS
<1>3. /\ [task[t] EXCEPT !.cur = m].stub = task[t].stub
      /\ [task[t] EXCEPT !.cur = m].status = task[t].status
      /\ [[task[t] EXCEPT !.cur = m] EXCEPT !.status = "DONE"].stub = task[t].stub
      /\ [[task[t] EXCEPT !.cur = m] EXCEPT !.status = "DONE"].status = "DONE"
  BY <1>1 DEF TaskState
<1>4. /\ \A u \in Tasks \ {t} : task'[u] = task[u]
      /\ task'[t].stub = task[t].stub
      /\ task'[t].status = IF full THEN "DONE" ELSE task[t].status
  BY <1>1, <1>2, <1>3
<1> QED
  BY <1>4 DEF Given

(* The first request of a queue. *)
LEMMA HeadWaits ==
    ASSUME KInv, NEW st \in Stubs
    PROVE  /\ rdq[st] # <<>> => Head(rdq[st]) \in Range(rdq[st])
           /\ wrq[st] # <<>> => Head(wrq[st]) \in Range(wrq[st])
           /\ Range(rdq[st]) \subseteq Tasks /\ Range(wrq[st]) \subseteq Tasks
<1>1. TypeInv
  BY DEF KInv, IInv
<1>2. /\ rdq[st] \in Seq(Tasks) /\ wrq[st] \in Seq(Tasks)
      /\ Range(rdq[st]) \subseteq Tasks /\ Range(wrq[st]) \subseteq Tasks
  BY <1>1, QueueRanges
<1> QED
  BY <1>2, TailRange

LEMMA Transfers ==
    ASSUME KInv, NEW st \in Stubs, ReadData(st) \/ WriteData(st)
    PROVE  ApiStep
<1>1. /\ pc \in {"read", "write"} /\ todo # <<>> /\ st = Head(todo)
      /\ TypeInv /\ UNCHANGED <<hash, stub>>
  BY DEF ReadData, WriteData, CallsRead, CallsWrite, Reading, Writing, KInv, IInv
<1>2. Live(st) /\ ~Dying(st)
  BY <1>1, ServedStub DEF KInv
<1>3. ConnsBut({}) /\ \A x \in Stubs : stub'[x].fd = stub[x].fd
  BY <1>1, SameStubs
<1>4. ASSUME NEW t \in Range(rdq[st]) \cup Range(wrq[st]), NEW n, NEW full \in BOOLEAN,
             task' = [task EXCEPT ![t] =
                IF full THEN [[task[t] EXCEPT !.cur = @ + n] EXCEPT !.status = "DONE"]
                        ELSE [task[t] EXCEPT !.cur = @ + n]]
      PROVE  ApiStep
  <2>1. t \in Tasks
    BY HeadWaits
  <2> PICK T : T = IF full THEN {t} ELSE {}
    OBVIOUS
  <2>2. Given(T, "DONE") /\ \A u \in Tasks : task'[u].stub = task[u].stub
    BY <1>1, <1>4, <2>1, MovedTasks
  <2> QED
    BY <1>2, <1>3, <2>2, Answers
<1>5. CASE ReadData(st)
  <2> DEFINE t == Head(rdq[st])
             want == task[t].size - task[t].cur
             n == IF sock[stub[st].fd].rx < want THEN sock[stub[st].fd].rx ELSE want
             full == Completes(t, n)
  <2>1. t \in Range(rdq[st])
    BY <1>5, HeadWaits DEF ReadData, CallsRead
  <2>2. task' = [task EXCEPT ![t] =
          IF full THEN [[task[t] EXCEPT !.cur = @ + n] EXCEPT !.status = "DONE"]
                  ELSE [task[t] EXCEPT !.cur = @ + n]]
    BY <1>5 DEF ReadData
  <2>3. full \in BOOLEAN
    BY DEF Completes
  <2> HIDE DEF t, n, full
  <2> QED
    BY <1>4, <2>1, <2>2, <2>3
<1>6. CASE WriteData(st)
  <2> DEFINE t == Head(wrq[st])
             want == task[t].size - task[t].cur
             n == IF sock[stub[st].fd].room < want THEN sock[stub[st].fd].room ELSE want
             full == Completes(t, n)
  <2>1. t \in Range(wrq[st])
    BY <1>6, HeadWaits DEF WriteData, CallsWrite
  <2>2. task' = [task EXCEPT ![t] =
          IF full THEN [[task[t] EXCEPT !.cur = @ + n] EXCEPT !.status = "DONE"]
                  ELSE [task[t] EXCEPT !.cur = @ + n]]
    BY <1>6 DEF WriteData
  <2>3. full \in BOOLEAN
    BY DEF Completes
  <2> HIDE DEF t, n, full
  <2> QED
    BY <1>4, <2>1, <2>2, <2>3
<1> QED
  BY <1>5, <1>6

LEMMA TransfersNothing ==
    ASSUME KInv, NEW st \in Stubs, ReadNothing(st) \/ WriteNothing(st)
    PROVE  ApiStep
<1>1. /\ pc \in {"read", "write"} /\ todo # <<>> /\ st = Head(todo)
      /\ TypeInv /\ UNCHANGED <<hash, stub>>
  BY DEF ReadNothing, WriteNothing, Reading, Writing, KInv, IInv
<1>2. Live(st) /\ ~Dying(st)
  BY <1>1, ServedStub DEF KInv
<1>3. ConnsBut({}) /\ \A x \in Stubs : stub'[x].fd = stub[x].fd
  BY <1>1, SameStubs
<1> PICK t \in Range(rdq[st]) \cup Range(wrq[st]) : TasksDone(st, <<t>>, "DONE")
  BY HeadWaits DEF ReadNothing, WriteNothing
<1>4. t \in Tasks /\ Range(<<t>>) = {t}
  BY HeadWaits, SingleRange
<1>5. Given({t}, "DONE") /\ \A u \in Tasks : task'[u].stub = task[u].stub
  BY <1>1, <1>4, DoneTasks
<1> QED
  BY <1>2, <1>3, <1>5, Answers

LEMMA ReadsClosed ==
    ASSUME KInv, NEW st \in Stubs, ReadEof(st) \/ ReadClosed(st)
    PROVE  ApiStep
<1>1. /\ pc = "read" /\ todo # <<>> /\ st = Head(todo)
      /\ TypeInv /\ hash' = hash /\ TasksDone(st, rdq[st], "ECLOSED")
  BY DEF ReadEof, ReadClosed, CallsRead, Reading, KInv, IInv
<1>2. Live(st) /\ ~Dying(st)
  BY <1>1, ServedStub DEF KInv
<1>3. ConnsBut({}) /\ \A x \in Stubs : stub'[x].fd = stub[x].fd
  <2>1. CASE ReadEof(st)
    BY <1>1, <2>1, SameButFlags DEF ReadEof
  <2>2. CASE ReadClosed(st)
    BY <2>2, SameStubs DEF ReadClosed
  <2> QED
    BY <2>1, <2>2
<1>4. Range(rdq[st]) \subseteq Tasks
  BY HeadWaits
<1>5. Given(Range(rdq[st]), "ECLOSED") /\ \A u \in Tasks : task'[u].stub = task[u].stub
  BY <1>1, <1>4, DoneTasks
<1> QED
  BY <1>2, <1>3, <1>5, Answers

LEMMA ReadsPart ==
    ASSUME KInv, NEW st \in Stubs, ReadEagain(st)
    PROVE  ApiStep
<1>1. /\ pc = "read" /\ todo # <<>> /\ st = Head(todo) /\ rdq[st] # <<>>
      /\ TypeInv /\ hash' = hash
      /\ stub' = [stub EXCEPT ![st].status = (stub[st].status \ {"READABLE"}) \cup {}]
  BY DEF ReadEagain, CallsRead, Reading, KInv, IInv
<1>2. Live(st) /\ ~Dying(st)
  BY <1>1, ServedStub DEF KInv
<1>3. ConnsBut({}) /\ \A x \in Stubs : stub'[x].fd = stub[x].fd
  BY <1>1, SameButFlags
<1> PICK ts \in {<<>>, <<Head(rdq[st])>>} : TasksDone(st, ts, "PART_DONE")
  BY DEF ReadEagain
<1>4. Range(ts) \subseteq Range(rdq[st]) /\ Range(rdq[st]) \subseteq Tasks
  BY <1>1, HeadWaits, SingleRange, EmptyRange
<1>5. Given(Range(ts), "PART_DONE") /\ \A u \in Tasks : task'[u].stub = task[u].stub
  BY <1>1, <1>4, DoneTasks
<1> QED
  BY <1>2, <1>3, <1>4, <1>5, Answers

(* A connection arrives at a listening socket. *)
LEMMA Announces ==
    ASSUME KInv, FreeUnanswered, NEW st \in Stubs, ReadListen(st)
    PROVE  ApiStep
<1>1. /\ pc = "read" /\ todo # <<>> /\ st = Head(todo)
      /\ TypeInv /\ hash' = hash
      /\ stub' = [stub EXCEPT ![st].status = (stub[st].status \ {"READABLE"}) \cup {}]
  BY DEF ReadListen, KInv, IInv
<1>2. Live(st) /\ ~Dying(st)
  BY <1>1, ServedStub DEF KInv
<1>3. ConnsBut({}) /\ \A x \in Stubs : stub'[x].fd = stub[x].fd
  BY <1>1, SameButFlags
<1>4. CASE FreeTasks = {}
  <2>1. task' = task
    BY <1>4 DEF ReadListen
  <2>2. OwnersBut({}) /\ Given({}, "")
    BY <1>3, <2>1, OwnersStay DEF Given
  <2> QED
    BY <1>3, <2>2, ApiStutters
<1>5. CASE FreeTasks # {}
  <2> PICK t \in FreeTasks : task' = [task EXCEPT ![t] =
         [NewTask(st, "ACCEPT", 0, FALSE, FALSE) EXCEPT !.status = "DONE"]]
    BY <1>5 DEF ReadListen
  <2> PICK s : s = stub[st].fd
    OBVIOUS
  <2>1. t \in Tasks /\ ~InUse(t) /\ task \in [Tasks -> TaskState] /\ st # NULL
    BY <1>1, KernelAssumption DEF FreeTasks, InUse, TypeInv, TypeOK, TaskTypeOK
  <2>2. /\ task'[t].stub = st /\ task'[t].status = "DONE"
        /\ \A u \in Tasks \ {t} : task'[u] = task[u]
    BY <2>1 DEF NewTask
  <2>3. s \in Socks /\ ConnOf(s) = "open"
    BY <1>2, Known
  <2>4. OwnersBut({t})
    BY <1>3, <2>1, <2>2, OwnersStay
  <2>5. OwnerOf(t)' = s
    <3>1. stub'[st].fd = s
      BY <1>3
    <3> QED
      BY <2>1, <2>2, <3>1 DEF OwnerOf, InUse
  <2>6. Given({t}, "DONE")
    BY <2>2 DEF Given
  <2> QED
    BY <1>3, <2>1, <2>3, <2>4, <2>5, <2>6, ApiAnnounces
<1> QED
  BY <1>4, <1>5

(* The requests of a broken stub. *)
LEMMA Flushes ==
    ASSUME KInv, NEW st \in Stubs, ErrorFlush(st)
    PROVE  ApiStep
<1> DEFINE T == Range(rdq[st] \o wrq[st])
<1>1. /\ pc = "error" /\ todo # <<>> /\ st = Head(todo)
      /\ TypeInv /\ Loops /\ UNCHANGED <<hash, stub>>
      /\ task' = [t \in Tasks |-> IF t \in T THEN [task[t] EXCEPT !.status = "ERROR"]
                                             ELSE task[t]]
  BY DEF ErrorFlush, KInv, IInv
<1>2. T = Range(rdq[st]) \cup Range(wrq[st]) /\ T \subseteq Tasks
  BY <1>1, QueueRanges, RangeConcatenation
<1> HIDE DEF T
<1>3. Live(st) /\ Dying(st)
  <2>1. "ERROR" \in LoopFlag
    BY <1>1 DEF LoopFlag, Flags
  <2>2. Live(st) /\ LoopFlag \subseteq stub[st].status
    BY <1>1, NextStub
  <2> QED
    BY <2>1, <2>2 DEF Dying, Fatal
<1>4. ConnsBut({}) /\ \A x \in Stubs : stub'[x].fd = stub[x].fd
  BY <1>1, SameStubs
<1>5. Given(T, "ERROR") /\ \A t \in Tasks : task'[t].stub = task[t].stub
  BY <1>1, <1>2, MarkedTasks
<1>6. OwnersBut({})
  BY <1>4, <1>5, OwnersStay
<1> PICK s : s = stub[st].fd
  OBVIOUS
<1>7. s \in Socks /\ ConnOf(s) = "dying" /\ T = WaitingFor(s)
  BY <1>2, <1>3, Known
<1> QED
  BY <1>4, <1>5, <1>6, <1>7, ApiFailsRequests

LEMMA TimesOut ==
    ASSUME KInv, NEW st \in Stubs, NEW t \in Tasks, TimerTask(st, t)
    PROVE  ApiStep
<1>1. /\ pc = "timer" /\ task[t].stub = st /\ t \in armed
      /\ UNCHANGED <<hash, stub>>
      /\ task' = [task EXCEPT ![t].status = "ETIMEOUT"]
  BY DEF TimerTask, KInv, TaskUnits
<1>2. /\ task \in [Tasks -> TaskState] /\ st # NULL /\ TypeInv
      /\ rdq[st] \in Seq(Tasks) /\ wrq[st] \in Seq(Tasks)
  BY KernelAssumption, QueueRanges DEF KInv, IInv, TypeInv, TypeOK, TaskTypeOK
<1>3. task[t].status = ""
  BY <1>1 DEF KInv, TaskUnits, Pending
<1>4. Live(st)
  <2>1. InUse(t) => Live(task[t].stub)
    BY DEF KInv, Owned
  <2> QED
    BY <1>1, <1>2, <2>1 DEF InUse
<1>5. t \in Range(rdq[st]) \cup Range(wrq[st])
  BY <1>1, <1>3 DEF KInv, Owned
<1>6. ~Dying(st)
  <2>1. rdq[st] # <<>> \/ wrq[st] # <<>>
    BY <1>2, <1>5, EmptyRange
  <2>2. ~Unsettled(st)
    BY <1>1 DEF Unsettled
  <2> QED
    BY <2>1, <2>2 DEF KInv, StubOK
<1>7. ConnsBut({}) /\ \A x \in Stubs : stub'[x].fd = stub[x].fd
  BY <1>1, SameStubs
<1>8. Given({t}, "ETIMEOUT") /\ \A u \in Tasks : task'[u].stub = task[u].stub
  <2>1. /\ task'[t].status = "ETIMEOUT" /\ task'[t].stub = task[t].stub
        /\ \A u \in Tasks \ {t} : task'[u] = task[u]
    BY <1>1, <1>2 DEF TaskState
  <2> QED
    BY <2>1 DEF Given
<1> QED
  BY <1>4, <1>5, <1>6, <1>7, <1>8, Answers

-----------------------------------------------------------------------------
(* Results are handed out.                                                 *)

LEMMA HandsOut ==
    ASSUME KInv, NEW st \in Stubs, FillResults(st)
    PROVE  ApiStep
<1>1. /\ TypeInv /\ Owned /\ Loops /\ todo # <<>> /\ st = Head(todo)
      /\ doneq[st] \in Seq(Tasks) /\ Range(doneq[st]) \subseteq Tasks /\ left \in Nat
      /\ UNCHANGED <<hash, stub>>
  BY QueueRanges DEF KInv, IInv, TypeInv, TypeOK, PollTypeOK, FillResults, Filling
<1>2. Live(st)
  BY <1>1, NextStub
<1> DEFINE n == IF left < Len(doneq[st]) THEN left ELSE Len(doneq[st])
           T == Range(SubSeq(doneq[st], 1, n))
<1>3. task' = [t \in Tasks |-> IF t \in T THEN FreeTask ELSE task[t]]
  BY DEF FillResults, Deliver
<1>4. n \in 0..Len(doneq[st])
  BY <1>1, LenProperties
<1>5. T \subseteq Range(doneq[st])
  <2> HIDE DEF n
  <2> QED
    BY <1>1, <1>4, CutRange
<1> HIDE DEF n, T
<1> PICK s : s = stub[st].fd
  OBVIOUS
<1>6. s \in Socks /\ T \in SUBSET Tasks
      /\ \A t \in T : OwnerOf(t) = s /\ task[t].status # ""
  <2>1. \A t \in Range(doneq[st]) : task[t].status # ""
    BY <1>1 DEF Owned
  <2> QED
    BY <1>1, <1>2, <1>5, <2>1, Known
<1>7. FreeTask.stub = NULL /\ FreeTask.status = ""
  BY DEF FreeTask
<1>8. Given(T, "") /\ \A t \in Tasks \ T : task'[t].stub = task[t].stub
  BY <1>3, <1>7 DEF Given
<1>9. ConnsBut({}) /\ \A x \in Stubs : stub'[x].fd = stub[x].fd
  BY <1>1, SameStubs
<1>10. OwnersBut(T)
  BY <1>6, <1>8, <1>9, OwnersStay
<1>11. \A t \in T : OwnerOf(t)' = NULL
  BY <1>3, <1>6, <1>7 DEF OwnerOf, InUse
<1> QED
  BY <1>6, <1>8, <1>9, <1>10, <1>11, ApiHandsOut

LEMMA Notifies ==
    ASSUME KInv, NEW st \in Stubs, FillNotify(st)
    PROVE  ApiStep
<1> PICK s : s = stub[st].fd
  OBVIOUS
<1>1. /\ pc = "fill" /\ todo # <<>> /\ st = Head(todo) /\ Dying(st) /\ doneq[st] = <<>>
      /\ stub' = [stub EXCEPT ![st] = FreeStub] /\ hash' = [hash EXCEPT ![s] = NULL]
      /\ task' = task
  BY DEF FillNotify, Filling, Finished
<1>2. /\ TypeInv /\ Loops /\ Owned /\ StubOK(st)
      /\ stub \in [Stubs -> StubState] /\ hash \in [Socks -> Stubs \cup {NULL}]
      /\ rdq[st] \in Seq(Tasks)
  BY QueueRanges DEF KInv, IInv, TypeInv, TypeOK, StubTypeOK
<1>3. Live(st)
  BY <1>1, <1>2, NextStub
<1>4. s \in Socks /\ ConnOf(s) = "dying" /\ hash[s] = st
      /\ \A t \in Tasks : OwnerOf(t) = s <=> task[t].stub = st
  BY <1>1, <1>3, Known
<1>5. \A t \in Tasks : task[t].stub # st
  <2>1. ~Unsettled(st)
    BY <1>1 DEF Unsettled
  <2>2. rdq[st] = <<>> /\ wrq[st] = <<>> /\ doneq[st] = <<>>
    BY <1>1, <1>2, <2>1 DEF StubOK
  <2>3. Range(<<>>) = {}
    BY <1>2, EmptyRange
  <2> QED
    BY <1>2, <2>2, <2>3 DEF Owned
<1>6. /\ \A x \in Stubs \ {st} : stub'[x] = stub[x]
      /\ hash'[s] = NULL /\ \A x \in Socks \ {s} : hash'[x] = hash[x]
  BY <1>1, <1>2, <1>4
<1>7. ConnsBut({s})
  <2>1. \A x \in Stubs : Live(x) /\ stub[x].fd \notin {s} => (Dying(x)' <=> Dying(x))
    BY <1>6 DEF Dying
  <2> QED
    BY <1>4, <1>6, <2>1, ConnsElsewhere
<1>8. ConnOf(s)' = "unknown"
  BY <1>6 DEF ConnOf
<1>9. OwnersBut({})
  <2> SUFFICES ASSUME NEW t \in Tasks PROVE OwnerOf(t)' = OwnerOf(t)
    BY DEF OwnersBut
  <2> PICK x : x = task[t].stub
    OBVIOUS
  <2>1. x # NULL => x \in Stubs \ {st}
    BY <1>2, <1>5 DEF TypeInv, TypeOK, TaskTypeOK, TaskState
  <2> QED
    BY <1>1, <1>6, <2>1 DEF OwnerOf, InUse
<1>10. Given({}, "")
  BY <1>1 DEF Given
<1> QED
  BY <1>4, <1>5, <1>7, <1>8, <1>9, <1>10, ApiNotifies

-----------------------------------------------------------------------------
(* Theorem.                                                                *)

LEMMA InitMaps == Init => Api!Init /\ FreeUnanswered
<1> SUFFICES ASSUME Init PROVE Api!Init /\ FreeUnanswered
  OBVIOUS
<1>1. \A t \in Tasks : ~InUse(t) /\ task[t].status = ""
  BY DEF Init, FreeTask, InUse
<1>2. \A s \in Socks : hash[s] = NULL
  BY DEF Init
<1> QED
  BY <1>1, <1>2 DEF Api!Init, FreeUnanswered

LEMMA StepMaps == KInv /\ FreeUnanswered /\ [Next]_vars => ApiStep
<1> SUFFICES ASSUME KInv, FreeUnanswered, [Next]_vars PROVE ApiStep
  OBVIOUS
<1>1. CASE Application
  <2> PICK s \in Socks :
        \/ \E timed \in IdleTimers :
            \/ Attach(s, timed)
            \/ \E link \in {"connecting", "up"} : Connect(s, timed, link)
        \/ Listen(s)
        \/ Detach(s)
        \/ \E r \in Requests : Submit(s, r)
        \/ \E link \in {"none", "connecting", "up"} : ConnectFail(s, link)
        \/ \E silent \in BOOLEAN : SetSilence(s, silent)
        \/ Accept(s)
        \/ \E fresh \in {UpSock, NewSock} : Reopen(s, fresh)
    BY <1>1 DEF Application
  <2>1. CASE \E timed \in IdleTimers : Attach(s, timed)
    BY <2>1, Attaches, EpexAssumption
  <2>2. CASE Listen(s)
    BY <2>2, Attaches
  <2>3. CASE \E timed \in IdleTimers, link \in {"connecting", "up"} : Connect(s, timed, link)
    BY <2>3, Connects, EpexAssumption
  <2>4. CASE Detach(s)
    BY <2>4, Detaches DEF Detach
  <2>5. CASE \E link \in {"none", "connecting", "up"} : ConnectFail(s, link)
    BY <2>5, FailsToConnect
  <2>6. CASE \E r \in Requests : Submit(s, r)
    BY <2>6, Submits
  <2>7. CASE \/ \E silent \in BOOLEAN : SetSilence(s, silent)
             \/ Accept(s)
             \/ \E fresh \in {UpSock, NewSock} : Reopen(s, fresh)
    BY <2>7, InvisibleCalls
  <2> QED
    BY <2>1, <2>2, <2>3, <2>4, <2>5, <2>6, <2>7
<1>2. CASE PollStep
  <2>1. CASE \E e \in evts : EventError(e)
    BY <2>1, BreakingSteps
  <2>2. CASE \E e \in evts : EventReady(e)
    BY <2>2, InvisibleMarks
  <2>3. CASE \E st \in Stubs : ReadListen(st)
    BY <2>3, Announces
  <2>4. CASE \E st \in Stubs : ReadData(st) \/ WriteData(st)
    BY <2>4, Transfers
  <2>5. CASE \E st \in Stubs : ReadNothing(st) \/ WriteNothing(st)
    BY <2>5, TransfersNothing
  <2>6. CASE \E st \in Stubs : ReadEagain(st)
    BY <2>6, ReadsPart
  <2>7. CASE \E st \in Stubs : ReadEof(st) \/ ReadClosed(st)
    BY <2>7, ReadsClosed
  <2>8. CASE \E st \in Stubs : ReadLeave(st) \/ WriteLeave(st) \/ FillSilent(st)
    BY <2>8, InvisiblePolls
  <2>9. CASE \E st \in Stubs : WriteEagain(st)
    BY <2>9, InvisibleMarks
  <2>10. CASE \E st \in Stubs : ReadError(st) \/ WriteError(st)
    BY <2>10, BreakingSteps
  <2>11. CASE \E st \in Stubs : ErrorFlush(st)
    BY <2>11, Flushes
  <2>12. CASE \E st \in Stubs : TimerSock(st)
    BY <2>12, IdleSteps
  <2>13. CASE \E st \in Stubs, t \in Tasks : TimerTask(st, t)
    BY <2>13, TimesOut
  <2>14. CASE \E st \in Stubs : FillResults(st)
    BY <2>14, HandsOut
  <2>15. CASE \E st \in Stubs : FillNotify(st)
    BY <2>15, Notifies
  <2>16. CASE \/ EventsEnd \/ ReadEnd \/ WriteEnd \/ TimerEnd \/ PollEnd
              \/ \E expired \in SUBSET armed : TimerTimeout(expired)
    BY <2>16, InvisiblePolls
  <2> QED
    BY <1>2, <2>1, <2>2, <2>3, <2>4, <2>5, <2>6, <2>7, <2>8, <2>9, <2>10, <2>11,
       <2>12, <2>13, <2>14, <2>15, <2>16 DEF PollStep
<1>3. CASE Poll \/ PeerStep \/ UNCHANGED vars
  BY <1>3, InvisiblePolls
<1> QED
  BY <1>1, <1>2, <1>3 DEF Next

(* Every behaviour of the engine is one of the interface (include/exnet.h):*)
(* each call, each error and each loop of epex_poll does to the sockets    *)
(* and the requests of the application what one step of the interface      *)
(* does, or nothing.                                                       *)
THEOREM EngineImplementsApi == Spec => ImplementsApi
<1> DEFINE AInv == KInv /\ FreeUnanswered
<1>1. Init => AInv /\ Api!Init
  BY InitMaps, KInvInit
<1>2. AInv /\ [Next]_vars => AInv' /\ [Api!Next]_Api!vars
  BY KInvNext, FreeUnansweredStep, StepMaps DEF ApiStep
<1> HIDE DEF AInv
<1>3. Spec => Api!Init /\ [][Api!Next]_Api!vars
  BY <1>1, <1>2, PTL DEF Spec
<1> QED
  BY <1>3 DEF ImplementsApi, Api!Spec
=============================================================================
