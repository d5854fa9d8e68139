----------------------------- MODULE EpexProofs -----------------------------
(***************************************************************************)
(* Theorems about Epex, for any sockets, stubs, requests and sizes.        *)
(***************************************************************************)
EXTENDS EpexProps, ListsProofs

-----------------------------------------------------------------------------
(* Type correctness.  Only registered sockets are on epoll's ready list,   *)
(* so that the events epoll_wait returns point to stubs.                   *)
ReadyRegistered == \A s \in ready : reg[s] # NULL
TypeInv == TypeOK /\ ReadyRegistered

NetInv == NetTypeOK /\ ReadyRegistered

LEMMA FreshSockType == UpSock \in SockState /\ NewSock \in SockState
<1>1. UpSock \in SockState
  BY KernelAssumption DEF UpSock, SockState
<1>2. ASSUME NEW x \in SockState PROVE [x EXCEPT !.link = "none"] \in SockState
  BY DEF SockState
<1> QED
  BY <1>1, <1>2 DEF NewSock

LEMMA LookedAtType ==
    ASSUME NetTypeOK, NEW S
    PROVE  LookedAt(S) \in [Socks -> SockState]
<1>1. \A s \in Socks : [sock[s] EXCEPT !.nospace = TRUE] \in SockState
  BY DEF NetTypeOK, SockState
<1>2. \A s \in Socks : sock[s] \in SockState
  BY DEF NetTypeOK
<1> HIDE DEF SockState
<1> QED
  BY <1>1, <1>2, Zenon DEF LookedAt

LEMMA NetSteps ==
    ASSUME NetInv, NEW s
    PROVE  /\ EpollDel(s) /\ sock' \in [Socks -> SockState] => NetInv'
           /\ s \in Socks /\ (\E st \in Stubs : EpollAdd(s, st)) => NetInv'
           /\ s \in Socks /\ Peer(s) => NetInv'
<1> USE DEF NetInv, NetTypeOK, ReadyRegistered
<1>1. ASSUME EpollDel(s), sock' \in [Socks -> SockState] PROVE NetInv'
  BY <1>1 DEF EpollDel
<1>2. ASSUME s \in Socks, NEW st \in Stubs, EpollAdd(s, st) PROVE NetInv'
  BY <1>2, LookedAtType, KernelAssumption DEF EpollAdd
<1>3. ASSUME s \in Socks, Peer(s) PROVE NetInv'
  <2>1. CASE PeerSend(s)
    BY <1>3, <2>1, KernelAssumption DEF PeerSend, Wake, SockState
  <2>2. CASE PeerClose(s)
    BY <1>3, <2>2 DEF PeerClose, Wake, SockState
  <2>3. CASE PeerReset(s)
    BY <1>3, <2>3 DEF PeerReset, Wake, SockState
  <2>4. CASE PeerAccept(s)
    BY <1>3, <2>4 DEF PeerAccept, Wake, SockState
  <2>5. CASE PeerDrain(s)
    <3>1. sock[s].room + 1 \in 0..TxCap
      BY <1>3, <2>5, KernelAssumption DEF PeerDrain, SockState
    <3> DEFINE drained == [sock[s] EXCEPT !.room = sock[s].room + 1, !.nospace = FALSE]
    <3>2. sock[s] \in SockState
      BY <1>3
    <3>3. drained \in SockState
      BY <3>1, <3>2 DEF SockState
    <3>4. sock' = [sock EXCEPT ![s] = drained]
      BY <2>5 DEF PeerDrain
    <3> HIDE DEF drained, SockState
    <3>5. sock' \in [Socks -> SockState]
      BY <1>3, <3>3, <3>4
    <3> QED
      BY <2>5, <3>5 DEF PeerDrain, Wake
  <2> QED
    BY <1>3, <2>1, <2>2, <2>3, <2>4, <2>5 DEF Peer
<1> QED
  BY <1>1, <1>2, <1>3

LEMMA EpollWaitStep ==
    ASSUME NetInv, NEW S \in Batches, EpollWait(S)
    PROVE  /\ NetInv'
           /\ \A s \in S : reg[s] \in Stubs
<1> USE DEF NetInv, NetTypeOK, ReadyRegistered
<1>1. S \subseteq ready /\ ready' \subseteq ready
  BY DEF Batches, Reportable, EpollWait
<1>2. sock' \in [Socks -> SockState]
  BY LookedAtType DEF EpollWait
<1> QED
  BY <1>1, <1>2 DEF EpollWait

(* What a step leaves alone keeps its type. *)
LEMMA Frames ==
    ASSUME TypeInv
    PROVE  /\ UNCHANGED netVars => NetInv'
           /\ UNCHANGED <<hash, stub>> => StubTypeOK'
           /\ UNCHANGED <<queueVars, task>> => TaskTypeOK'
           /\ UNCHANGED listVars => ListTypeOK'
           /\ UNCHANGED timerVars => TimerTypeOK'
           /\ UNCHANGED pollVars => PollTypeOK'
<1>1. UNCHANGED netVars => NetInv'
  BY DEF TypeInv, TypeOK, NetInv, NetTypeOK, ReadyRegistered, netVars
<1>2. UNCHANGED <<hash, stub>> => StubTypeOK'
  BY DEF TypeInv, TypeOK, StubTypeOK
<1>3. UNCHANGED <<queueVars, task>> => TaskTypeOK'
  BY DEF TypeInv, TypeOK, TaskTypeOK, queueVars
<1>4. UNCHANGED listVars => ListTypeOK'
  BY DEF TypeInv, TypeOK, ListTypeOK, listVars
<1>5. UNCHANGED timerVars => TimerTypeOK'
  BY DEF TypeInv, TypeOK, TimerTypeOK, timerVars
<1>6. UNCHANGED pollVars => PollTypeOK'
  BY DEF TypeInv, TypeOK, PollTypeOK, pollVars
<1> QED
  BY <1>1, <1>2, <1>3, <1>4, <1>5, <1>6

(* The parts of TypeInv, for steps that put them together. *)
LEMMA TypeInvParts ==
    /\ TypeInv <=> /\ NetInv /\ StubTypeOK /\ TaskTypeOK
                   /\ ListTypeOK /\ TimerTypeOK /\ PollTypeOK
    /\ TypeInv' <=> /\ NetInv' /\ StubTypeOK' /\ TaskTypeOK'
                    /\ ListTypeOK' /\ TimerTypeOK' /\ PollTypeOK'
  BY DEF TypeInv, TypeOK, NetInv

(* A status is set, or the fields of a stub are given. *)
LEMMA StubStatusType ==
    ASSUME StubTypeOK, NEW st, NEW status \in SUBSET Flags
    PROVE  [stub EXCEPT ![st].status = status] \in [Stubs -> StubState]
<1>1. ASSUME NEW x \in Stubs PROVE [stub[x] EXCEPT !.status = status] \in StubState
  BY DEF StubTypeOK, StubState
<1>2. DOMAIN stub = Stubs /\ \A x \in Stubs : stub[x] \in StubState
  BY DEF StubTypeOK
<1> HIDE DEF StubState
<1>3. [stub EXCEPT ![st].status = status] =
        [x \in Stubs |-> IF x = st THEN [stub[x] EXCEPT !.status = status] ELSE stub[x]]
  BY <1>2
<1> QED
  BY <1>1, <1>2, <1>3, Zenon

LEMMA NewStubType ==
    /\ FreeStub \in StubState
    /\ \A s \in Socks, listen \in BOOLEAN, timed \in BOOLEAN :
          NewStub(s, listen, timed) \in StubState
  BY DEF FreeStub, NewStub, StubState

LEMMA NewTaskType ==
    ASSUME NEW st \in Stubs, NEW op \in {"READ", "WRITE", "CONNECT", "ACCEPT"},
           NEW size \in Nat, NEW all \in BOOLEAN, NEW timed \in BOOLEAN
    PROVE  /\ NewTask(st, op, size, all, timed) \in TaskState
           /\ [NewTask(st, op, size, all, timed) EXCEPT !.status = "DONE"] \in TaskState
  BY DEF NewTask, TaskState, Results

LEMMA FreeTaskType == FreeTask \in TaskState
  BY DEF FreeTask, TaskState

(* Requests are answered, or freed. *)
LEMMA TaskMarkType ==
    ASSUME TaskTypeOK, NEW T, NEW result \in Results
    PROVE  /\ [t \in Tasks |-> IF t \in T THEN [task[t] EXCEPT !.status = result]
                                         ELSE task[t]] \in [Tasks -> TaskState]
           /\ [t \in Tasks |-> IF t \in T THEN FreeTask ELSE task[t]]
                 \in [Tasks -> TaskState]
<1>1. \A t \in Tasks : [task[t] EXCEPT !.status = result] \in TaskState
  BY DEF TaskTypeOK, TaskState
<1>2. \A t \in Tasks : task[t] \in TaskState
  BY DEF TaskTypeOK
<1> HIDE DEF TaskState
<1>3. FreeTask \in TaskState
  BY FreeTaskType
<1>4. [t \in Tasks |-> IF t \in T THEN [task[t] EXCEPT !.status = result]
                                   ELSE task[t]] \in [Tasks -> TaskState]
  BY <1>1, <1>2, Zenon
<1>5. [t \in Tasks |-> IF t \in T THEN FreeTask ELSE task[t]] \in [Tasks -> TaskState]
  BY <1>2, <1>3, Zenon
<1> QED
  BY <1>4, <1>5

(* One queue changes. *)
LEMMA QueueType ==
    ASSUME NEW q \in [Stubs -> Seq(Tasks)], NEW st, NEW t \in Tasks
    PROVE  /\ [q EXCEPT ![st] = Append(@, t)] \in [Stubs -> Seq(Tasks)]
           /\ [q EXCEPT ![st] = Unlink(@, t)] \in [Stubs -> Seq(Tasks)]
           /\ [q EXCEPT ![st] = <<>>] \in [Stubs -> Seq(Tasks)]
           /\ q[st] # <<>> => [q EXCEPT ![st] = Tail(@)] \in [Stubs -> Seq(Tasks)]
<1>1. \A x \in Stubs : /\ q[x] \in Seq(Tasks)
                       /\ Append(q[x], t) \in Seq(Tasks)
                       /\ Unlink(q[x], t) \in Seq(Tasks)
                       /\ q[x] # <<>> => Tail(q[x]) \in Seq(Tasks)
  BY AppendProperties, UnlinkSeq, HeadTailProperties
<1> QED
  BY <1>1, EmptySeq

LEMMA PendingType ==
    ASSUME TaskTypeOK, NEW st \in Stubs
    PROVE  /\ rdq[st] \in Seq(Tasks) /\ wrq[st] \in Seq(Tasks)
           /\ rdq[st] \o wrq[st] \in Seq(Tasks)
           /\ doneq[st] \o (rdq[st] \o wrq[st]) \in Seq(Tasks)
           /\ doneq[st] \o rdq[st] \in Seq(Tasks)
<1>1. rdq[st] \in Seq(Tasks) /\ wrq[st] \in Seq(Tasks) /\ doneq[st] \in Seq(Tasks)
  BY DEF TaskTypeOK
<1> QED
  BY <1>1, ConcatProperties

LEMMA NetstubCleanType ==
    ASSUME NetInv, ListTypeOK, NEW st, NEW s, NetstubClean(st, s),
           sock' \in [Socks -> SockState]
    PROVE  NetInv' /\ rlist' \in Seq(Stubs) /\ wlist' \in Seq(Stubs)
  BY NetSteps, UnlinkSeq DEF NetstubClean, ListTypeOK

LEMMA TimerDelType ==
    ASSUME TimerTypeOK, NEW units, TimerDel(units)
    PROVE  TimerTypeOK'
  BY DEF TimerTypeOK, TimerDel

LEMMA AbandonType ==
    ASSUME TypeInv, NEW st \in Stubs, NEW s, NEW result \in Results,
           Abandon(st, s, result), sock' \in [Socks -> SockState]
    PROVE  NetInv' /\ TaskTypeOK' /\ ListTypeOK' /\ TimerTypeOK'
<1> DEFINE pending == rdq[st] \o wrq[st]
<1>1. NetInv /\ TaskTypeOK /\ ListTypeOK /\ TimerTypeOK
  BY DEF TypeInv, TypeOK, NetInv
<1>2. NetInv' /\ rlist' \in Seq(Stubs) /\ wlist' \in Seq(Stubs)
  BY <1>1, NetstubCleanType DEF Abandon
<1>3. elist' \in Seq(Stubs) /\ avail' \in Seq(Stubs)
  BY <1>1, UnlinkSeq, AppendNewProperties DEF Abandon, MakeAvail, ListTypeOK
<1>4. /\ rdq' \in [Stubs -> Seq(Tasks)]
      /\ wrq' \in [Stubs -> Seq(Tasks)]
      /\ doneq' \in [Stubs -> Seq(Tasks)]
  BY <1>1, PendingType DEF Abandon, TaskTypeOK
<1>5. task' \in [Tasks -> TaskState]
  BY <1>1, TaskMarkType DEF Abandon
<1>6. TimerTypeOK'
  BY <1>1, TimerDelType DEF Abandon
<1> QED
  BY <1>2, <1>3, <1>4, <1>5, <1>6 DEF TaskTypeOK, ListTypeOK

LEMMA TasksDoneType ==
    ASSUME TaskTypeOK, ListTypeOK, NEW st \in Stubs, NEW ts \in Seq(Tasks),
           NEW result \in Results, TasksDone(st, ts, result)
    PROVE  /\ doneq' \in [Stubs -> Seq(Tasks)]
           /\ task' \in [Tasks -> TaskState]
           /\ avail' \in Seq(Stubs)
<1>1. doneq[st] \o ts \in Seq(Tasks)
  BY ConcatProperties DEF TaskTypeOK
<1>2. doneq' \in [Stubs -> Seq(Tasks)]
  BY <1>1 DEF TasksDone, TaskTypeOK
<1>3. task' \in [Tasks -> TaskState]
  BY TaskMarkType DEF TasksDone
<1>4. avail' \in Seq(Stubs)
  BY AppendNewProperties DEF TasksDone, ListTypeOK
<1> QED
  BY <1>2, <1>3, <1>4

LEMMA DoWithErrorType ==
    ASSUME TypeInv, NEW st \in Stubs, DoWithError(st), UNCHANGED <<sock, hash, avail>>
    PROVE  NetInv' /\ StubTypeOK' /\ ListTypeOK'
<1>1. NetInv /\ StubTypeOK /\ ListTypeOK
  BY DEF TypeInv, TypeOK, NetInv
<1>2. NetInv' /\ rlist' \in Seq(Stubs) /\ wlist' \in Seq(Stubs)
  BY <1>1, NetstubCleanType DEF DoWithError, NetInv, NetTypeOK
<1>3. elist' \in Seq(Stubs)
  BY <1>1, UnlinkSeq, AppendProperties DEF DoWithError, ListTypeOK
<1>4. {"ERROR"} \in SUBSET Flags
  BY DEF Flags
<1>5. StubTypeOK'
  BY <1>1, <1>4, StubStatusType DEF DoWithError, StubTypeOK
<1> QED
  BY <1>1, <1>2, <1>3, <1>5 DEF ListTypeOK

LEMMA ActiveStubType ==
    ASSUME TimerTypeOK, NEW st \in Stubs, NEW after \in ActiveStub(st)
    PROVE  after \subseteq Tasks \cup Stubs
  BY DEF TimerTypeOK, ActiveStub

-----------------------------------------------------------------------------
LEMMA TypeInvInit == Init => TypeInv
<1> SUFFICES ASSUME Init PROVE TypeInv
  OBVIOUS
<1>1. NetTypeOK /\ ReadyRegistered
  <2>1. UpSock \in SockState
    BY FreshSockType
  <2> HIDE DEF SockState, UpSock
  <2> QED
    BY <2>1 DEF Init, NetInit, NetTypeOK, ReadyRegistered
<1>2. StubTypeOK
  <2>1. FreeStub \in StubState
    BY NewStubType
  <2> QED
    BY <2>1 DEF Init, StubTypeOK
<1>3. TaskTypeOK
  <2>1. FreeTask \in TaskState
    BY FreeTaskType
  <2> QED
    BY <2>1, EmptySeq DEF Init, TaskTypeOK
<1>4. ListTypeOK /\ TimerTypeOK /\ PollTypeOK
  BY EmptySeq DEF Init, ListTypeOK, TimerTypeOK, PollTypeOK
<1> QED
  BY <1>1, <1>2, <1>3, <1>4 DEF TypeInv, TypeOK

(* The calls of the application keep the types. *)
LEMMA AttachType ==
    ASSUME TypeInv, NEW s \in Socks, NEW timed \in BOOLEAN,
           Attach(s, timed) \/ Listen(s)
    PROVE  TypeInv'
<1>1. PICK st \in FreeStubs :
        /\ EpollAdd(s, st)
        /\ hash' = [hash EXCEPT ![s] = st]
        /\ \/ stub' = [stub EXCEPT ![st] = NewStub(s, FALSE, timed)]
           \/ stub' = [stub EXCEPT ![st] = NewStub(s, TRUE, FALSE)]
        /\ armed' \subseteq armed \cup {st}
        /\ UNCHANGED <<queueVars, task, listVars, due, pollVars>>
  <2>1. CASE Attach(s, timed)
    BY <2>1 DEF Attach
  <2>2. CASE Listen(s)
    BY <2>2 DEF Listen, timerVars
  <2> QED
    BY <2>1, <2>2
<1>2. st \in Stubs
  BY DEF FreeStubs
<1>3. NetTypeOK' /\ ReadyRegistered'
  BY <1>1, <1>2, NetSteps DEF TypeInv, TypeOK, NetInv
<1>4. StubTypeOK'
  BY <1>1, <1>2, NewStubType DEF TypeInv, TypeOK, StubTypeOK
<1>5. TimerTypeOK'
  BY <1>1, <1>2 DEF TypeInv, TypeOK, TimerTypeOK
<1> QED
  BY <1>1, <1>3, <1>4, <1>5 DEF TypeInv, TypeOK, TaskTypeOK, ListTypeOK,
     PollTypeOK, queueVars, listVars, pollVars

LEMMA DetachStubType ==
    ASSUME TypeInv, NEW s \in Socks, DetachStub(s)
    PROVE  StubTypeOK' /\ PollTypeOK'
<1>1. {"DETACHED"} \in SUBSET Flags
  BY DEF Flags
<1> QED
  BY <1>1, StubStatusType DEF TypeInv, TypeOK, DetachStub, StubTypeOK, PollTypeOK,
     pollVars

LEMMA DetachType ==
    ASSUME TypeInv, NEW s \in Socks, Detach(s)
    PROVE  TypeInv'
<1>1. hash[s] \in Stubs /\ "EDETACHED" \in Results
  BY DEF Detach, DetachStub, Open, TypeInv, TypeOK, StubTypeOK, Results
<1>2. sock' \in [Socks -> SockState]
  BY DEF Detach, TypeInv, TypeOK, NetTypeOK
<1>3. NetInv' /\ TaskTypeOK' /\ ListTypeOK' /\ TimerTypeOK'
  BY <1>1, <1>2, AbandonType DEF Detach, DetachStub
<1> QED
  BY <1>3, DetachStubType, TypeInvParts DEF Detach

LEMMA SubmitType ==
    ASSUME TypeInv, NEW s \in Socks, NEW r \in Requests, Submit(s, r)
    PROVE  TypeInv'
<1> DEFINE st == hash[s]
<1>1. st \in Stubs
  BY DEF Submit, Open, TypeInv, TypeOK, StubTypeOK
<1>2. PICK t \in FreeTasks :
        /\ task' = [task EXCEPT ![t] = NewTask(st, r.op, r.size, r.all, r.timed)]
        /\ armed' = IF r.timed THEN armed \cup {t} ELSE armed
        /\ IF r.op = "READ"
           THEN rdq' = [rdq EXCEPT ![st] = Append(@, t)] /\ UNCHANGED wrq
           ELSE wrq' = [wrq EXCEPT ![st] = Append(@, t)] /\ UNCHANGED rdq
  BY DEF Submit, Enqueue
<1>3. t \in Tasks
  BY DEF FreeTasks
<1>4. NewTask(st, r.op, r.size, r.all, r.timed) \in TaskState
  BY <1>1, NewTaskType, EpexAssumption
<1> HIDE DEF st
<1>5. task' \in [Tasks -> TaskState]
  BY <1>2, <1>3, <1>4 DEF TypeInv, TypeOK, TaskTypeOK
<1>6. rdq' \in [Stubs -> Seq(Tasks)] /\ wrq' \in [Stubs -> Seq(Tasks)]
  <2>1. rdq \in [Stubs -> Seq(Tasks)] /\ wrq \in [Stubs -> Seq(Tasks)]
    BY DEF TypeInv, TypeOK, TaskTypeOK
  <2>2. /\ [rdq EXCEPT ![st] = Append(@, t)] \in [Stubs -> Seq(Tasks)]
        /\ [wrq EXCEPT ![st] = Append(@, t)] \in [Stubs -> Seq(Tasks)]
    BY <1>3, <2>1, QueueType
  <2> QED
    BY <1>2, <2>1, <2>2
<1>7. armed' \subseteq Tasks \cup Stubs
  BY <1>2, <1>3 DEF TypeInv, TypeOK, TimerTypeOK
<1> QED
  BY <1>5, <1>6, <1>7 DEF Submit, TypeInv, TypeOK, NetTypeOK, ReadyRegistered,
     StubTypeOK, TaskTypeOK, ListTypeOK, TimerTypeOK, PollTypeOK, netVars,
     listVars, pollVars

LEMMA ConnectType ==
    ASSUME TypeInv, NEW s \in Socks, NEW timed \in IdleTimers,
           NEW link \in {"connecting", "up"}, Connect(s, timed, link)
    PROVE  TypeInv'
<1>1. PICK st \in (IF hash[s] = NULL THEN FreeStubs ELSE {hash[s]}),
           t \in FreeTasks, connectTimed \in BOOLEAN :
        /\ hash' = [hash EXCEPT ![s] = st]
        /\ LET attached == IF hash[s] = NULL THEN NewStub(s, FALSE, timed)
                                             ELSE stub[st]
           IN stub' = [stub EXCEPT ![st] =
                IF link = "up" THEN [attached EXCEPT !.status = @ \cup {"WRITEABLE"}]
                               ELSE attached]
        /\ wlist' = IF link = "up" THEN Append(wlist, st) ELSE wlist
        /\ task' = [task EXCEPT ![t] = NewTask(st, "CONNECT", 0, FALSE, connectTimed)]
        /\ wrq' = [wrq EXCEPT ![st] = Append(@, t)]
        /\ armed' = armed \cup (IF connectTimed THEN {t} ELSE {})
                          \cup (IF hash[s] = NULL /\ timed THEN {st} ELSE {})
        /\ sock' = [sock EXCEPT ![s].link = link]
        /\ reg' = [reg EXCEPT ![s] = st]
        /\ ready' = ready \cup {s}
  BY DEF Connect, Enqueue
<1>2. UNCHANGED <<rdq, doneq, rlist, elist, avail, due, pollVars>>
  BY DEF Connect
<1>3. NetTypeOK /\ ReadyRegistered /\ StubTypeOK /\ TaskTypeOK /\ ListTypeOK /\ TimerTypeOK
  BY DEF TypeInv, TypeOK
<1>4. st \in Stubs /\ t \in Tasks /\ timed \in BOOLEAN
  BY <1>3, EpexAssumption DEF FreeStubs, FreeTasks, StubTypeOK
<1>5. NetInv'
  <2>1. sock' \in [Socks -> SockState]
    BY <1>1, <1>3 DEF NetTypeOK, SockState
  <2>2. reg' \in [Socks -> Stubs \cup {NULL}] /\ ready' \in SUBSET Socks
    BY <1>1, <1>3, <1>4 DEF NetTypeOK
  <2>3. ReadyRegistered'
    BY <1>1, <1>3, <1>4, KernelAssumption DEF NetTypeOK, ReadyRegistered
  <2> QED
    BY <2>1, <2>2, <2>3 DEF NetInv, NetTypeOK
<1>6. StubTypeOK'
  <2>1. \A x \in StubState : [x EXCEPT !.status = @ \cup {"WRITEABLE"}] \in StubState
    BY DEF StubState, Flags
  <2>2. NewStub(s, FALSE, timed) \in StubState
    BY <1>4, NewStubType
  <2>3. stub[st] \in StubState
    BY <1>3, <1>4 DEF StubTypeOK
  <2> HIDE DEF StubState
  <2>4. PICK new \in StubState : stub' = [stub EXCEPT ![st] = new]
    BY <1>1, <2>1, <2>2, <2>3
  <2> QED
    BY <1>1, <1>3, <1>4, <2>4 DEF StubTypeOK
<1>7. TaskTypeOK'
  <2>1. NewTask(st, "CONNECT", 0, FALSE, connectTimed) \in TaskState
    BY <1>4, NewTaskType
  <2>2. task' \in [Tasks -> TaskState]
    BY <1>1, <1>3, <1>4, <2>1 DEF TaskTypeOK
  <2>3. wrq \in [Stubs -> Seq(Tasks)]
    BY <1>3 DEF TaskTypeOK
  <2>4. [wrq EXCEPT ![st] = Append(@, t)] \in [Stubs -> Seq(Tasks)]
    BY <1>4, <2>3, QueueType
  <2> QED
    BY <1>1, <1>2, <1>3, <2>2, <2>4 DEF TaskTypeOK
<1>8. ListTypeOK'
  BY <1>1, <1>2, <1>3, <1>4, AppendProperties DEF ListTypeOK
<1>9. TimerTypeOK'
  BY <1>1, <1>2, <1>3, <1>4 DEF TimerTypeOK
<1>10. PollTypeOK'
  BY <1>2, Frames
<1> QED
  BY <1>5, <1>6, <1>7, <1>8, <1>9, <1>10, TypeInvParts

LEMMA ConnectFailType ==
    ASSUME TypeInv, NEW s \in Socks, NEW link \in {"none", "connecting", "up"},
           ConnectFail(s, link)
    PROVE  TypeInv'
<1>1. sock' \in [Socks -> SockState]
  BY DEF ConnectFail, TypeInv, TypeOK, NetTypeOK, SockState
<1>2. StubTypeOK /\ "EDETACHED" \in Results
  BY DEF TypeInv, TypeOK, Results
<1>3. CASE DetachStub(s)
  <2>1. hash[s] \in Stubs
    BY <1>2, <1>3 DEF DetachStub, Open, StubTypeOK
  <2>2. NetInv' /\ TaskTypeOK' /\ ListTypeOK' /\ TimerTypeOK'
    BY <1>1, <1>2, <1>3, <2>1, AbandonType DEF DetachStub
  <2> QED
    BY <1>3, <2>2, DetachStubType, TypeInvParts
<1>4. ASSUME NEW st \in FreeStubs,
             hash' = [hash EXCEPT ![s] = st],
             stub' = [stub EXCEPT ![st] = [NewStub(s, FALSE, FALSE)
                                          EXCEPT !.status = {"DETACHED"}]],
             Abandon(st, s, "EDETACHED"), UNCHANGED pollVars
      PROVE  TypeInv'
  <2>1. st \in Stubs
    BY DEF FreeStubs
  <2>2. [NewStub(s, FALSE, FALSE) EXCEPT !.status = {"DETACHED"}] \in StubState
    BY DEF NewStub, FreeStub, StubState, Flags
  <2>3. StubTypeOK'
    BY <1>2, <1>4, <2>1, <2>2 DEF StubTypeOK
  <2>4. NetInv' /\ TaskTypeOK' /\ ListTypeOK' /\ TimerTypeOK'
    BY <1>1, <1>2, <1>4, <2>1, AbandonType
  <2> QED
    BY <1>4, <2>3, <2>4, Frames, TypeInvParts
<1> QED
  BY <1>3, <1>4 DEF ConnectFail

LEMMA SetSilenceType ==
    ASSUME TypeInv, NEW s \in Socks, NEW silent \in BOOLEAN, SetSilence(s, silent)
    PROVE  TypeInv'
<1>1. \A x \in StubState : [x EXCEPT !.silent = silent] \in StubState
  BY DEF StubState
<1>2. StubTypeOK /\ hash[s] \in Stubs
  BY DEF SetSilence, TypeInv, TypeOK, StubTypeOK
<1>3. stub' = [stub EXCEPT ![hash[s]].silent = silent] /\ UNCHANGED hash
  BY DEF SetSilence
<1> HIDE DEF StubState
<1>4. stub[hash[s]] \in StubState
  BY <1>2 DEF StubTypeOK
<1>5. [stub[hash[s]] EXCEPT !.silent = silent] \in StubState
  BY <1>1, <1>4
<1>6. StubTypeOK'
  BY <1>2, <1>3, <1>5 DEF StubTypeOK
<1> QED
  BY <1>6, Frames, TypeInvParts DEF SetSilence

LEMMA SocketsType ==
    ASSUME TypeInv, NEW s \in Socks,
           \/ Accept(s)
           \/ \E fresh \in {UpSock, NewSock} : Reopen(s, fresh)
           \/ Peer(s) /\ UNCHANGED <<hash, stub, queueVars, task, listVars, timerVars, pollVars>>
    PROVE  TypeInv'
<1> DEFINE others == <<hash, stub, queueVars, task, listVars, timerVars, pollVars>>
<1>1. NetTypeOK /\ NetInv
  BY DEF TypeInv, TypeOK, NetInv
<1>2. CASE Accept(s)
  <2> sock[s].rx - 1 \in 0..RxCap
    BY <1>1, <1>2, KernelAssumption DEF Accept, NetTypeOK, SockState
  <2>1. sock' \in [Socks -> SockState]
    BY <1>1, <1>2 DEF Accept, NetTypeOK, SockState
  <2>2. UNCHANGED others /\ UNCHANGED <<reg, ready>>
    BY <1>2 DEF Accept
  <2>3. NetInv'
    BY <1>1, <2>1, <2>2 DEF NetInv, NetTypeOK, ReadyRegistered
  <2> QED
    BY <2>2, <2>3, Frames, TypeInvParts
<1>3. ASSUME NEW fresh \in {UpSock, NewSock}, Reopen(s, fresh)
      PROVE  TypeInv'
  <2>1. fresh \in SockState
    BY <1>3, FreshSockType
  <2>2. sock' \in [Socks -> SockState]
    BY <1>1, <1>3, <2>1 DEF Reopen, NetTypeOK
  <2>3. UNCHANGED others /\ UNCHANGED <<reg, ready>>
    BY <1>3 DEF Reopen
  <2>4. NetInv'
    BY <1>1, <2>2, <2>3 DEF NetInv, NetTypeOK, ReadyRegistered
  <2> QED
    BY <2>3, <2>4, Frames, TypeInvParts
<1>4. CASE Peer(s) /\ UNCHANGED others
  <2>1. NetInv'
    BY <1>1, <1>4, NetSteps
  <2> QED
    BY <1>4, <2>1, Frames, TypeInvParts
<1> QED
  BY <1>2, <1>3, <1>4

-----------------------------------------------------------------------------
(* The steps of epex_poll keep the types. *)
LEMMA PollStartType ==
    ASSUME TypeInv, NEW size \in PollSizes, NEW S \in Batches, PollStart(size, S)
    PROVE  TypeInv'
<1>1. NetInv' /\ \A s \in S : reg[s] \in Stubs
  BY EpollWaitStep, TypeInvParts DEF PollStart
<1>2. \A s \in S : Mask(s) \subseteq {"IN", "OUT", "ERR"}
  BY DEF Mask
<1>3. evts' \subseteq [st : Stubs, mask : SUBSET {"IN", "OUT", "ERR"}]
  BY <1>1, <1>2 DEF PollStart
<1>4. left' \in Nat
  BY EpexAssumption DEF PollStart
<1>5. PollTypeOK'
  BY <1>3, <1>4, TypeInvParts DEF PollStart, PollTypeOK
<1> QED
  BY <1>1, <1>5, Frames, TypeInvParts DEF PollStart

LEMMA EventType ==
    ASSUME TypeInv, NEW e \in evts, EventError(e) \/ EventReady(e)
    PROVE  TypeInv'
<1>1. /\ StubTypeOK /\ ListTypeOK /\ TimerTypeOK /\ PollTypeOK
      /\ e.st \in Stubs
  BY TypeInvParts DEF PollTypeOK
<1>2. CASE EventError(e)
  <2>1. NetInv' /\ StubTypeOK' /\ ListTypeOK'
    BY <1>1, <1>2, DoWithErrorType DEF EventError
  <2>2. TimerTypeOK'
    BY <1>1, <1>2, TimerDelType DEF EventError
  <2>3. PollTypeOK'
    BY <1>1, <1>2 DEF EventError, PollTypeOK
  <2> QED
    BY <1>2, <2>1, <2>2, <2>3, Frames, TypeInvParts DEF EventError
<1>3. CASE EventReady(e)
  <2> DEFINE new == EventFlags(e.mask) \ stub[e.st].status
  <2>1. stub[e.st].status \cup new \in SUBSET Flags
    BY <1>1 DEF StubTypeOK, StubState, EventFlags, Flags
  <2>2. stub' = [stub EXCEPT ![e.st].status = stub[e.st].status \cup new]
        /\ UNCHANGED hash
    BY <1>3 DEF EventReady
  <2> HIDE DEF new
  <2>3. StubTypeOK'
    BY <1>1, <2>1, <2>2, StubStatusType DEF StubTypeOK
  <2> USE DEF new
  <2>4. ListTypeOK'
    BY <1>1, <1>3, AppendProperties DEF EventReady, ListTypeOK
  <2>5. PollTypeOK'
    BY <1>1, <1>3 DEF EventReady, PollTypeOK
  <2> QED
    BY <1>3, <2>3, <2>4, <2>5, Frames, TypeInvParts DEF EventReady
<1> QED
  BY <1>2, <1>3

LEMMA PhaseType ==
    ASSUME TypeInv,
           \/ EventsEnd \/ ReadEnd \/ WriteEnd \/ TimerEnd \/ PollEnd
           \/ \E expired \in SUBSET armed : TimerTimeout(expired)
    PROVE  TypeInv'
<1>1. ListTypeOK /\ TimerTypeOK /\ PollTypeOK
  BY TypeInvParts
<1>2. ASSUME NEW from, NEW to \in {"read", "write", "error", "timer", "fill"},
             NEW list \in Seq(Stubs), Phase(from, to, list), due' \subseteq armed \cup due
      PROVE  TypeInv'
  <2>1. TimerTypeOK'
    BY <1>1, <1>2 DEF Phase, TimerTypeOK
  <2>2. PollTypeOK'
    BY <1>1, <1>2 DEF Phase, PollTypeOK
  <2> QED
    BY <1>2, <2>1, <2>2, Frames, TypeInvParts DEF Phase
<1>3. <<>> \in Seq(Stubs) /\ rlist \in Seq(Stubs) /\ wlist \in Seq(Stubs)
      /\ elist \in Seq(Stubs) /\ avail \in Seq(Stubs)
  BY <1>1, EmptySeq DEF ListTypeOK
<1>4. CASE EventsEnd
  BY <1>2, <1>3, <1>4 DEF EventsEnd
<1>5. CASE ReadEnd
  BY <1>2, <1>3, <1>5 DEF ReadEnd
<1>6. CASE WriteEnd
  BY <1>2, <1>3, <1>6 DEF WriteEnd
<1>7. CASE TimerEnd
  BY <1>2, <1>3, <1>7 DEF TimerEnd
<1>8. CASE PollEnd
  <2>1. PollTypeOK'
    BY <1>1, <1>8 DEF PollEnd, PollTypeOK
  <2> QED
    BY <1>8, <2>1, Frames, TypeInvParts DEF PollEnd
<1>9. ASSUME NEW expired \in SUBSET armed, TimerTimeout(expired)
      PROVE  TypeInv'
  BY <1>2, <1>3, <1>9 DEF TimerTimeout
<1> QED
  BY <1>4, <1>5, <1>6, <1>7, <1>8, <1>9

(* Loops go from one stub to the next, and status flags go away. *)
LEMMA NextStubType ==
    ASSUME PollTypeOK, todo # <<>>, todo' = Tail(todo), UNCHANGED <<pc, evts>>,
           flag' \in BOOLEAN, left' \in Nat
    PROVE  PollTypeOK'
<1>1. Tail(todo) \in Seq(Stubs)
  BY HeadTailProperties DEF PollTypeOK
<1> QED
  BY <1>1 DEF PollTypeOK

LEMMA StatusType ==
    ASSUME StubTypeOK, NEW st \in Stubs
    PROVE  /\ \A gone : stub[st].status \ gone \in SUBSET Flags
           /\ stub[st].status \in SUBSET Flags
  BY DEF StubTypeOK, StubState

LEMMA ReadListenType ==
    ASSUME TypeInv, NEW st \in Stubs, ReadListen(st)
    PROVE  TypeInv'
<1>1. StubTypeOK /\ TaskTypeOK /\ ListTypeOK /\ PollTypeOK
  BY TypeInvParts
<1>2. StubTypeOK'
  <2>1. stub[st].status \ {"READABLE"} \in SUBSET Flags
    BY <1>1, StatusType
  <2>2. stub' \in [Stubs -> StubState]
    BY <1>1, <2>1, StubStatusType DEF ReadListen
  <2> QED
    BY <1>1, <2>2 DEF ReadListen, StubTypeOK
<1>3. PollTypeOK'
  BY <1>1, NextStubType DEF ReadListen, PollTypeOK
<1>4. rlist' \in Seq(Stubs) /\ UNCHANGED <<wlist, elist>>
  BY <1>1, UnlinkSeq DEF ReadListen, ListTypeOK
<1>5. CASE FreeTasks = {}
  <2>1. TaskTypeOK' /\ ListTypeOK'
    BY <1>1, <1>4, <1>5 DEF ReadListen, ListTypeOK, TaskTypeOK
  <2> QED
    BY <1>2, <1>3, <2>1, Frames, TypeInvParts DEF ReadListen
<1>6. CASE FreeTasks # {}
  <2>1. PICK t \in FreeTasks :
          /\ task' = [task EXCEPT ![t] =
                [NewTask(st, "ACCEPT", 0, FALSE, FALSE) EXCEPT !.status = "DONE"]]
          /\ doneq' = [doneq EXCEPT ![st] = Append(@, t)]
          /\ MakeAvail(st)
    BY <1>6 DEF ReadListen
  <2>2. t \in Tasks
    BY DEF FreeTasks
  <2>3. [NewTask(st, "ACCEPT", 0, FALSE, FALSE) EXCEPT !.status = "DONE"] \in TaskState
    BY NewTaskType
  <2>4. task' \in [Tasks -> TaskState]
    BY <1>1, <2>1, <2>2, <2>3 DEF TaskTypeOK
  <2>5. doneq \in [Stubs -> Seq(Tasks)]
    BY <1>1 DEF TaskTypeOK
  <2>6. doneq' \in [Stubs -> Seq(Tasks)]
    BY <2>1, <2>2, <2>5, QueueType
  <2>7. TaskTypeOK'
    BY <1>1, <2>4, <2>6 DEF ReadListen, TaskTypeOK
  <2>8. ListTypeOK'
    BY <1>1, <1>4, <2>1, AppendNewProperties DEF MakeAvail, ListTypeOK
  <2> QED
    BY <1>2, <1>3, <2>7, <2>8, Frames, TypeInvParts DEF ReadListen
<1> QED
  BY <1>5, <1>6

(* n more bytes of a request, which completes it or not. *)
LEMMA TaskFieldType ==
    ASSUME NEW x \in TaskState
    PROVE  /\ x.cur \in Nat /\ x.size \in Nat
           /\ \A c \in Nat : [x EXCEPT !.cur = c] \in TaskState
           /\ [x EXCEPT !.status = "DONE"] \in TaskState
  BY DEF TaskState, Results

LEMMA TransferType ==
    ASSUME NEW x \in TaskState, NEW n \in Nat
    PROVE  /\ [x EXCEPT !.cur = x.cur + n] \in TaskState
           /\ [[x EXCEPT !.cur = x.cur + n] EXCEPT !.status = "DONE"] \in TaskState
<1> HIDE DEF TaskState
<1>1. x.cur + n \in Nat
  <2>1. x.cur \in Nat
    BY TaskFieldType
  <2> QED
    BY <2>1
<1>2. [x EXCEPT !.cur = x.cur + n] \in TaskState
  BY <1>1, TaskFieldType
<1> QED
  BY <1>2, TaskFieldType

LEMMA ReadDataType ==
    ASSUME TypeInv, NEW st \in Stubs, Live(st), ReadData(st)
    PROVE  TypeInv'
<1> DEFINE t == Head(rdq[st])
           s == stub[st].fd
           want == task[t].size - task[t].cur
           n == IF sock[s].rx < want THEN sock[s].rx ELSE want
           full == Completes(t, n)
           got == [task[t] EXCEPT !.cur = task[t].cur + n]
<1>1. NetInv /\ NetTypeOK /\ StubTypeOK /\ TaskTypeOK /\ ListTypeOK /\ TimerTypeOK /\ PollTypeOK
  BY TypeInvParts DEF NetInv
<1>2. t \in Tasks /\ Tail(rdq[st]) \in Seq(Tasks)
  <2>1. rdq[st] \in Seq(Tasks) /\ rdq[st] # <<>>
    BY <1>1 DEF TaskTypeOK, ReadData, CallsRead
  <2> QED
    BY <2>1, HeadTailProperties
<1>3. s \in Socks
  BY <1>1 DEF StubTypeOK, StubState, Live
<1>4. task[t] \in TaskState
  BY <1>1, <1>2 DEF TaskTypeOK
<1>5. want \in Nat
  <2>1. task[t].cur < task[t].size
    BY DEF ReadData, CallsRead
  <2>2. task[t].cur \in Nat /\ task[t].size \in Nat
    BY <1>4, TaskFieldType
  <2> QED
    BY <2>1, <2>2
<1>6. sock[s].rx \in 0..RxCap
  <2>1. sock[s] \in SockState
    BY <1>1, <1>3 DEF NetTypeOK
  <2> QED
    BY <2>1 DEF SockState
<1>7. n \in Nat /\ sock[s].rx - n \in 0..RxCap
  BY <1>5, <1>6, KernelAssumption
<1>8. NetInv'
  <2>1. sock' = [sock EXCEPT ![s].rx = sock[s].rx - n] /\ UNCHANGED <<reg, ready>>
    BY DEF ReadData
  <2> HIDE DEF n, s
  <2>2. sock' \in [Socks -> SockState]
    BY <1>1, <1>3, <1>7, <2>1 DEF NetTypeOK, SockState
  <2> QED
    BY <1>1, <2>1, <2>2 DEF NetInv, NetTypeOK, ReadyRegistered
<1>9. task' \in [Tasks -> TaskState]
  <2>1. task' = [task EXCEPT ![t] = IF full THEN [got EXCEPT !.status = "DONE"] ELSE got]
    BY DEF ReadData
  <2>2. got \in TaskState /\ [got EXCEPT !.status = "DONE"] \in TaskState
    BY <1>4, <1>7, TransferType
  <2> HIDE DEF got, full, t, TaskState
  <2> QED
    BY <1>1, <1>2, <2>1, <2>2 DEF TaskTypeOK
<1> USE <1>1 DEF ReadData
<1>10. CASE full
  <2>1. /\ rdq' = [rdq EXCEPT ![st] = Tail(@)]
        /\ doneq' = [doneq EXCEPT ![st] = Append(@, t)]
        /\ MakeAvail(st) /\ TimerDel({t})
    BY <1>10
  <2> HIDE DEF t
  <2>2. rdq' \in [Stubs -> Seq(Tasks)]
    BY <1>2, <2>1 DEF TaskTypeOK
  <2>3. doneq \in [Stubs -> Seq(Tasks)]
    BY DEF TaskTypeOK
  <2>4. doneq' \in [Stubs -> Seq(Tasks)]
    BY <1>2, <2>1, <2>3, QueueType
  <2>5. TaskTypeOK'
    BY <1>9, <2>2, <2>4 DEF TaskTypeOK
  <2>6. ListTypeOK'
    BY <2>1, AppendNewProperties DEF MakeAvail, ListTypeOK
  <2>7. TimerTypeOK'
    BY <2>1, TimerDelType
  <2>8. PollTypeOK' /\ StubTypeOK'
    BY DEF PollTypeOK, StubTypeOK
  <2> QED
    BY <1>8, <2>5, <2>6, <2>7, <2>8, TypeInvParts
<1>11. CASE ~full
  <2>1. UNCHANGED <<rdq, doneq, avail, timerVars>>
    BY <1>11
  <2>2. TaskTypeOK' /\ ListTypeOK'
    BY <1>9, <2>1 DEF TaskTypeOK, ListTypeOK
  <2>3. PollTypeOK' /\ StubTypeOK'
    BY DEF PollTypeOK, StubTypeOK
  <2> QED
    BY <1>8, <2>1, <2>2, <2>3, Frames, TypeInvParts
<1> QED
  BY <1>10, <1>11

LEMMA ReadEagainType ==
    ASSUME TypeInv, NEW st \in Stubs, ReadEagain(st)
    PROVE  TypeInv'
<1> DEFINE t == Head(rdq[st])
           part == ~task[t].all /\ task[t].cur > 0
           ts == IF part THEN <<t>> ELSE <<>>
<1>1. /\ NetInv /\ StubTypeOK /\ TaskTypeOK /\ ListTypeOK /\ TimerTypeOK /\ PollTypeOK
      /\ "PART_DONE" \in Results
  BY TypeInvParts DEF Results
<1>2. t \in Tasks /\ rdq[st] \in Seq(Tasks) /\ Tail(rdq[st]) \in Seq(Tasks)
  <2>1. rdq[st] \in Seq(Tasks) /\ rdq[st] # <<>>
    BY <1>1 DEF TaskTypeOK, ReadEagain, CallsRead
  <2> QED
    BY <2>1, HeadTailProperties
<1>3. ts \in Seq(Tasks)
  BY <1>2, EmptySeq
<1>4. /\ TasksDone(st, ts, "PART_DONE")
      /\ rdq' = [rdq EXCEPT ![st] = IF part THEN Tail(@) ELSE @]
      /\ stub' = [stub EXCEPT ![st].status = stub[st].status \ {"READABLE"}]
      /\ rlist' = Unlink(rlist, st)
      /\ \E after \in ActiveStub(st) : armed' = after \ Range(ts)
      /\ NextReadable
      /\ UNCHANGED <<netVars, hash, wrq, wlist, elist, due>>
  BY DEF ReadEagain
<1> HIDE DEF ts, part, t
<1>5. /\ doneq' \in [Stubs -> Seq(Tasks)]
      /\ task' \in [Tasks -> TaskState]
      /\ avail' \in Seq(Stubs)
  BY <1>1, <1>3, <1>4, TasksDoneType
<1>6. rdq' \in [Stubs -> Seq(Tasks)]
  BY <1>1, <1>2, <1>4 DEF TaskTypeOK
<1>7. TaskTypeOK' /\ ListTypeOK'
  BY <1>1, <1>4, <1>5, <1>6, UnlinkSeq DEF TaskTypeOK, ListTypeOK
<1>8. StubTypeOK'
  BY <1>1, <1>4, StatusType, StubStatusType DEF StubTypeOK
<1>9. TimerTypeOK'
  BY <1>1, <1>4, ActiveStubType DEF TimerTypeOK
<1>10. PollTypeOK'
  BY <1>1, <1>4, NextStubType DEF ReadEagain, CallsRead, Reading, NextReadable, PollTypeOK
<1> QED
  BY <1>4, <1>7, <1>8, <1>9, <1>10, Frames, TypeInvParts

LEMMA ReadEofType ==
    ASSUME TypeInv, NEW st \in Stubs, ReadEof(st)
    PROVE  TypeInv'
<1>1. /\ NetInv /\ StubTypeOK /\ TaskTypeOK /\ ListTypeOK /\ TimerTypeOK /\ PollTypeOK
      /\ "ECLOSED" \in Results /\ "CLOSED" \in Flags
  BY TypeInvParts DEF Results, Flags
<1>2. /\ TasksDone(st, rdq[st], "ECLOSED")
      /\ rdq' = [rdq EXCEPT ![st] = <<>>]
      /\ stub' = [stub EXCEPT ![st].status = (stub[st].status \ {"READABLE"}) \cup {"CLOSED"}]
      /\ rlist' = Unlink(rlist, st)
      /\ \E after \in ActiveStub(st) : armed' = after \ Range(rdq[st])
      /\ NextReadable
      /\ UNCHANGED <<netVars, hash, wrq, wlist, elist, due>>
  BY DEF ReadEof
<1>3. rdq[st] \in Seq(Tasks)
  BY <1>1 DEF TaskTypeOK
<1>4. /\ doneq' \in [Stubs -> Seq(Tasks)]
      /\ task' \in [Tasks -> TaskState]
      /\ avail' \in Seq(Stubs)
  BY <1>1, <1>2, <1>3, TasksDoneType
<1>5. TaskTypeOK' /\ ListTypeOK'
  BY <1>1, <1>2, <1>4, EmptySeq, UnlinkSeq DEF TaskTypeOK, ListTypeOK
<1>6. StubTypeOK'
  <2>1. (stub[st].status \ {"READABLE"}) \cup {"CLOSED"} \in SUBSET Flags
    BY <1>1, StatusType
  <2> QED
    BY <1>1, <1>2, <2>1, StubStatusType DEF StubTypeOK
<1>7. TimerTypeOK'
  BY <1>1, <1>2, ActiveStubType DEF TimerTypeOK
<1>8. PollTypeOK'
  BY <1>1, <1>2, NextStubType DEF ReadEof, CallsRead, Reading, NextReadable, PollTypeOK
<1> QED
  BY <1>2, <1>5, <1>6, <1>7, <1>8, Frames, TypeInvParts

LEMMA BreakType ==
    ASSUME TypeInv, NEW st \in Stubs, ReadError(st) \/ WriteError(st)
    PROVE  TypeInv'
<1>1. TimerTypeOK /\ PollTypeOK /\ DoWithError(st) /\ UNCHANGED <<sock, hash, avail>>
  BY TypeInvParts DEF ReadError, WriteError
<1>2. NetInv' /\ StubTypeOK' /\ ListTypeOK'
  BY <1>1, DoWithErrorType
<1>3. CASE ReadError(st)
  <2>1. TimerTypeOK'
    BY <1>1, <1>3, ActiveStubType DEF ReadError, TimerTypeOK
  <2>2. PollTypeOK'
    BY <1>1, <1>3, NextStubType
       DEF ReadError, CallsRead, Reading, NextReadable, PollTypeOK
  <2> QED
    BY <1>2, <1>3, <2>1, <2>2, Frames, TypeInvParts DEF ReadError
<1>4. CASE WriteError(st)
  <2>1. TimerTypeOK'
    BY <1>1, <1>4, TimerDelType DEF WriteError
  <2>2. PollTypeOK'
    BY <1>1, <1>4, NextStubType
       DEF WriteError, CallsWrite, Writing, NextWriteable, PollTypeOK
  <2> QED
    BY <1>2, <1>4, <2>1, <2>2, Frames, TypeInvParts DEF WriteError
<1> QED
  BY <1>3, <1>4

LEMMA NothingType ==
    ASSUME TypeInv, NEW st \in Stubs, ReadNothing(st) \/ WriteNothing(st)
    PROVE  TypeInv'
<1>1. /\ TaskTypeOK /\ ListTypeOK /\ TimerTypeOK /\ "DONE" \in Results
  BY TypeInvParts DEF Results
<1>2. ASSUME NEW q \in {rdq, wrq}, q[st] # <<>>,
             TasksDone(st, <<Head(q[st])>>, "DONE"),
             TimerDel({Head(q[st])}),
             UNCHANGED <<netVars, hash, stub, rlist, wlist, elist, pollVars>>,
             rdq' \in [Stubs -> Seq(Tasks)], wrq' \in [Stubs -> Seq(Tasks)]
      PROVE  TypeInv'
  <2>1. <<Head(q[st])>> \in Seq(Tasks)
    <3>1. q[st] \in Seq(Tasks)
      BY <1>1, <1>2 DEF TaskTypeOK
    <3>2. Head(q[st]) \in Tasks
      BY <1>2, <3>1, HeadTailProperties
    <3> QED
      BY <3>2
  <2>2. /\ doneq' \in [Stubs -> Seq(Tasks)]
        /\ task' \in [Tasks -> TaskState]
        /\ avail' \in Seq(Stubs)
    BY <1>1, <1>2, <2>1, TasksDoneType
  <2>3. TaskTypeOK' /\ ListTypeOK'
    BY <1>1, <1>2, <2>2 DEF TaskTypeOK, ListTypeOK
  <2>4. TimerTypeOK'
    BY <1>1, <1>2, TimerDelType
  <2> QED
    BY <1>2, <2>3, <2>4, Frames, TypeInvParts
<1>3. CASE ReadNothing(st)
  <2>1. rdq[st] # <<>> /\ [rdq EXCEPT ![st] = Tail(@)] \in [Stubs -> Seq(Tasks)]
    BY <1>1, <1>3, HeadTailProperties DEF ReadNothing, TaskTypeOK
  <2>2. rdq' \in [Stubs -> Seq(Tasks)] /\ wrq' \in [Stubs -> Seq(Tasks)]
    BY <1>1, <1>3, <2>1 DEF ReadNothing, TaskTypeOK
  <2> QED
    BY <1>2, <1>3, <2>1, <2>2 DEF ReadNothing
<1>4. CASE WriteNothing(st)
  <2>1. wrq[st] # <<>> /\ [wrq EXCEPT ![st] = Tail(@)] \in [Stubs -> Seq(Tasks)]
    BY <1>1, <1>4, HeadTailProperties DEF WriteNothing, TaskTypeOK
  <2>2. rdq' \in [Stubs -> Seq(Tasks)] /\ wrq' \in [Stubs -> Seq(Tasks)]
    BY <1>1, <1>4, <2>1 DEF WriteNothing, TaskTypeOK
  <2> QED
    BY <1>2, <1>4, <2>1, <2>2 DEF WriteNothing
<1> QED
  BY <1>3, <1>4

LEMMA ReadClosedType ==
    ASSUME TypeInv, NEW st \in Stubs, ReadClosed(st) \/ ReadLeave(st)
    PROVE  TypeInv'
<1>1. /\ TaskTypeOK /\ ListTypeOK /\ TimerTypeOK /\ PollTypeOK
      /\ "ECLOSED" \in Results
  BY TypeInvParts DEF Results
<1>2. PollTypeOK'
  BY <1>1, NextStubType
     DEF ReadClosed, ReadLeave, Reading, NextReadable, PollTypeOK
<1>3. CASE ReadClosed(st)
  <2>1. rdq[st] \in Seq(Tasks)
    BY <1>1 DEF TaskTypeOK
  <2>2. /\ doneq' \in [Stubs -> Seq(Tasks)]
        /\ task' \in [Tasks -> TaskState]
        /\ avail' \in Seq(Stubs)
    BY <1>1, <1>3, <2>1, TasksDoneType DEF ReadClosed
  <2>3. TaskTypeOK' /\ ListTypeOK'
    BY <1>1, <1>3, <2>2, EmptySeq DEF ReadClosed, TaskTypeOK, ListTypeOK
  <2>4. TimerTypeOK'
    BY <1>1, <1>3, TimerDelType DEF ReadClosed
  <2> QED
    BY <1>2, <1>3, <2>3, <2>4, Frames, TypeInvParts DEF ReadClosed
<1>4. CASE ReadLeave(st)
  <2>1. TimerTypeOK'
    BY <1>1, <1>4, ActiveStubType DEF ReadLeave, TimerTypeOK
  <2> QED
    BY <1>2, <1>4, <2>1, Frames, TypeInvParts DEF ReadLeave
<1> QED
  BY <1>3, <1>4

LEMMA WriteDataType ==
    ASSUME TypeInv, NEW st \in Stubs, Live(st), WriteData(st)
    PROVE  TypeInv'
<1> DEFINE t == Head(wrq[st])
           s == stub[st].fd
           want == task[t].size - task[t].cur
           n == IF sock[s].room < want THEN sock[s].room ELSE want
           full == Completes(t, n)
           put == [task[t] EXCEPT !.cur = task[t].cur + n]
<1>1. NetInv /\ NetTypeOK /\ StubTypeOK /\ TaskTypeOK /\ ListTypeOK /\ TimerTypeOK /\ PollTypeOK
  BY TypeInvParts DEF NetInv
<1>2. t \in Tasks /\ Tail(wrq[st]) \in Seq(Tasks)
  <2>1. wrq[st] \in Seq(Tasks) /\ wrq[st] # <<>>
    BY <1>1 DEF TaskTypeOK, WriteData, CallsWrite
  <2> QED
    BY <2>1, HeadTailProperties
<1>3. s \in Socks
  BY <1>1 DEF StubTypeOK, StubState, Live
<1>4. task[t] \in TaskState
  BY <1>1, <1>2 DEF TaskTypeOK
<1>5. want \in Nat
  <2>1. task[t].cur < task[t].size
    BY DEF WriteData, CallsWrite
  <2>2. task[t].cur \in Nat /\ task[t].size \in Nat
    BY <1>4, TaskFieldType
  <2> QED
    BY <2>1, <2>2
<1>6. sock[s].room \in 0..TxCap
  <2>1. sock[s] \in SockState
    BY <1>1, <1>3 DEF NetTypeOK
  <2> QED
    BY <2>1 DEF SockState
<1>7. n \in Nat /\ sock[s].room - n \in 0..TxCap
  BY <1>5, <1>6, KernelAssumption
<1>8. NetInv'
  <2>1. sock' = [sock EXCEPT ![s].room = sock[s].room - n] /\ UNCHANGED <<reg, ready>>
    BY DEF WriteData
  <2> HIDE DEF n, s
  <2>2. sock' \in [Socks -> SockState]
    BY <1>1, <1>3, <1>7, <2>1 DEF NetTypeOK, SockState
  <2> QED
    BY <1>1, <2>1, <2>2 DEF NetInv, NetTypeOK, ReadyRegistered
<1>9. task' \in [Tasks -> TaskState]
  <2>1. task' = [task EXCEPT ![t] = IF full THEN [put EXCEPT !.status = "DONE"] ELSE put]
    BY DEF WriteData
  <2>2. put \in TaskState /\ [put EXCEPT !.status = "DONE"] \in TaskState
    BY <1>4, <1>7, TransferType
  <2> HIDE DEF put, full, t, TaskState
  <2> QED
    BY <1>1, <1>2, <2>1, <2>2 DEF TaskTypeOK
<1>10. PollTypeOK' /\ StubTypeOK'
  BY <1>1 DEF WriteData, pollVars, PollTypeOK, StubTypeOK
<1>11. CASE full
  <2>1. /\ wrq' = [wrq EXCEPT ![st] = Tail(@)]
        /\ doneq' = [doneq EXCEPT ![st] = Append(@, t)]
        /\ MakeAvail(st) /\ TimerDel({t})
        /\ UNCHANGED <<rdq, rlist, wlist, elist>>
    BY <1>11 DEF WriteData
  <2> HIDE DEF t
  <2>2. wrq' \in [Stubs -> Seq(Tasks)]
    BY <1>1, <1>2, <2>1 DEF TaskTypeOK
  <2>3. doneq \in [Stubs -> Seq(Tasks)]
    BY <1>1 DEF TaskTypeOK
  <2>4. doneq' \in [Stubs -> Seq(Tasks)]
    BY <1>2, <2>1, <2>3, QueueType
  <2>5. TaskTypeOK'
    BY <1>1, <1>9, <2>1, <2>2, <2>4 DEF TaskTypeOK
  <2>6. ListTypeOK'
    BY <1>1, <2>1, AppendNewProperties DEF MakeAvail, ListTypeOK
  <2>7. TimerTypeOK'
    BY <1>1, <2>1, TimerDelType
  <2> QED
    BY <1>8, <1>10, <2>5, <2>6, <2>7, TypeInvParts
<1>12. CASE ~full
  <2>1. UNCHANGED <<rdq, wrq, doneq, rlist, wlist, elist, avail, timerVars>>
    BY <1>12 DEF WriteData
  <2>2. TaskTypeOK' /\ ListTypeOK'
    BY <1>1, <1>9, <2>1 DEF TaskTypeOK, ListTypeOK
  <2> QED
    BY <1>8, <1>10, <2>1, <2>2, Frames, TypeInvParts
<1> QED
  BY <1>11, <1>12

LEMMA WriteEagainType ==
    ASSUME TypeInv, NEW st \in Stubs, WriteEagain(st) \/ WriteLeave(st)
    PROVE  TypeInv'
<1>1. /\ NetInv /\ NetTypeOK /\ StubTypeOK /\ ListTypeOK /\ PollTypeOK
  BY TypeInvParts DEF NetInv
<1>2. PollTypeOK'
  BY <1>1, NextStubType
     DEF WriteEagain, WriteLeave, CallsWrite, Writing, NextWriteable, PollTypeOK
<1>3. CASE WriteEagain(st)
  <2>1. sock' = [sock EXCEPT ![stub[st].fd].nospace = TRUE] /\ UNCHANGED <<reg, ready>>
    BY <1>3 DEF WriteEagain
  <2>2. sock' \in [Socks -> SockState]
    BY <1>1, <2>1 DEF NetTypeOK, SockState
  <2>3. NetInv'
    BY <1>1, <2>1, <2>2 DEF NetInv, NetTypeOK, ReadyRegistered
  <2>4. StubTypeOK'
    <3>1. stub[st].status \ {"WRITEABLE"} \in SUBSET Flags
      BY <1>1, StatusType
    <3> QED
      BY <1>1, <1>3, <3>1, StubStatusType DEF WriteEagain, StubTypeOK
  <2>5. ListTypeOK'
    BY <1>1, <1>3, UnlinkSeq DEF WriteEagain, ListTypeOK
  <2> QED
    BY <1>2, <1>3, <2>3, <2>4, <2>5, Frames, TypeInvParts DEF WriteEagain
<1>4. CASE WriteLeave(st)
  BY <1>2, <1>4, Frames, TypeInvParts DEF WriteLeave
<1> QED
  BY <1>3, <1>4

LEMMA ErrorFlushType ==
    ASSUME TypeInv, NEW st \in Stubs, ErrorFlush(st)
    PROVE  TypeInv'
<1>1. /\ TaskTypeOK /\ ListTypeOK /\ TimerTypeOK /\ PollTypeOK
      /\ "ERROR" \in Results
  BY TypeInvParts DEF Results
<1>2. /\ rdq' \in [Stubs -> Seq(Tasks)]
      /\ wrq' \in [Stubs -> Seq(Tasks)]
      /\ doneq' \in [Stubs -> Seq(Tasks)]
  BY <1>1, PendingType DEF ErrorFlush, TaskTypeOK
<1>3. task' \in [Tasks -> TaskState]
  BY <1>1, TaskMarkType DEF ErrorFlush
<1>4. ListTypeOK'
  BY <1>1, AppendNewProperties DEF ErrorFlush, MakeAvail, ListTypeOK
<1>5. TimerTypeOK'
  BY <1>1, TimerDelType DEF ErrorFlush
<1>6. PollTypeOK'
  BY <1>1, NextStubType DEF ErrorFlush, PollTypeOK
<1> QED
  BY <1>2, <1>3, <1>4, <1>5, <1>6, Frames, TypeInvParts DEF ErrorFlush, TaskTypeOK

LEMMA TimerType ==
    ASSUME TypeInv, NEW st \in Stubs,
           TimerSock(st) \/ \E t \in Tasks : TimerTask(st, t)
    PROVE  TypeInv'
<1>1. /\ NetTypeOK /\ StubTypeOK /\ TaskTypeOK /\ ListTypeOK /\ TimerTypeOK
      /\ "EIDLE" \in Results /\ {"IDLE"} \in SUBSET Flags
  BY TypeInvParts DEF NetInv, Results, Flags
<1>2. CASE TimerSock(st)
  <2>1. sock' \in [Socks -> SockState]
    BY <1>1, <1>2 DEF TimerSock, NetTypeOK
  <2>2. NetInv' /\ TaskTypeOK' /\ ListTypeOK' /\ TimerTypeOK'
    BY <1>1, <1>2, <2>1, AbandonType DEF TimerSock
  <2>3. StubTypeOK'
    BY <1>1, <1>2, StubStatusType DEF TimerSock, StubTypeOK
  <2> QED
    BY <1>2, <2>2, <2>3, Frames, TypeInvParts DEF TimerSock
<1>3. ASSUME NEW t \in Tasks, TimerTask(st, t)
      PROVE  TypeInv'
  <2>1. rdq \in [Stubs -> Seq(Tasks)] /\ wrq \in [Stubs -> Seq(Tasks)]
        /\ doneq \in [Stubs -> Seq(Tasks)] /\ task \in [Tasks -> TaskState]
    BY <1>1 DEF TaskTypeOK
  <2>2. /\ [rdq EXCEPT ![st] = Unlink(@, t)] \in [Stubs -> Seq(Tasks)]
        /\ [wrq EXCEPT ![st] = Unlink(@, t)] \in [Stubs -> Seq(Tasks)]
        /\ [doneq EXCEPT ![st] = Append(@, t)] \in [Stubs -> Seq(Tasks)]
    BY <2>1, QueueType
  <2>3. [task[t] EXCEPT !.status = "ETIMEOUT"] \in TaskState
    BY <2>1 DEF TaskState, Results
  <2>4. task' \in [Tasks -> TaskState]
    BY <1>3, <2>1, <2>3 DEF TimerTask
  <2>5. TaskTypeOK'
    BY <1>3, <2>2, <2>4 DEF TimerTask, TaskTypeOK
  <2>6. ListTypeOK'
    BY <1>1, <1>3, AppendNewProperties DEF TimerTask, MakeAvail, ListTypeOK
  <2>7. TimerTypeOK'
    BY <1>1, <1>3, TimerDelType DEF TimerTask
  <2> QED
    BY <1>3, <2>5, <2>6, <2>7, Frames, TypeInvParts DEF TimerTask
<1> QED
  BY <1>2, <1>3

LEMMA FillType ==
    ASSUME TypeInv, NEW st \in Stubs,
           FillSilent(st) \/ FillResults(st) \/ FillNotify(st)
    PROVE  TypeInv'
<1>1. NetInv /\ StubTypeOK /\ TaskTypeOK /\ ListTypeOK /\ TimerTypeOK /\ PollTypeOK
  BY TypeInvParts
<1>2. CASE FillSilent(st)
  <2>1. PollTypeOK'
    BY <1>1, <1>2, NextStubType DEF FillSilent, Filling, PollTypeOK
  <2> QED
    BY <1>2, <2>1, Frames, TypeInvParts DEF FillSilent
<1>3. CASE FillResults(st)
  <2> DEFINE n == IF left < Len(doneq[st]) THEN left ELSE Len(doneq[st])
  <2>1. doneq[st] \in Seq(Tasks)
    BY <1>1 DEF TaskTypeOK
  <2>2. n \in Nat /\ left - n \in Nat /\ Len(doneq[st]) \in Nat
    <3>1. left \in Nat
      BY <1>1 DEF PollTypeOK
    <3>2. Len(doneq[st]) \in Nat
      BY <2>1, LenProperties
    <3> QED
      BY <3>1, <3>2
  <2>3. Deliver(st, n)
    BY <1>3 DEF FillResults
  <2> HIDE DEF n
  <2>4. SubSeq(doneq[st], n + 1, Len(doneq[st])) \in Seq(Tasks)
    <3>1. \A i \in (n + 1)..Len(doneq[st]) : doneq[st][i] \in Tasks
      BY <2>1, <2>2, ElementOfSeq
    <3> QED
      BY <2>2, <3>1, SubSeqProperties
  <2>5. doneq' \in [Stubs -> Seq(Tasks)]
    BY <1>1, <2>3, <2>4 DEF Deliver, TaskTypeOK
  <2>6. task' \in [Tasks -> TaskState]
    BY <1>1, <2>3, TaskMarkType, "DONE" \in Results DEF Deliver, Results
  <2>7. TaskTypeOK' /\ ListTypeOK'
    BY <1>1, <1>3, <2>5, <2>6, UnlinkSeq DEF FillResults, TaskTypeOK, ListTypeOK
  <2>8. left' \in Nat
    BY <2>2, <2>3 DEF Deliver
  <2>9. PollTypeOK'
    BY <1>1, <1>3, <2>8, NextStubType DEF FillResults, Filling, PollTypeOK
  <2> QED
    BY <1>3, <2>7, <2>9, Frames, TypeInvParts DEF FillResults
<1>4. CASE FillNotify(st)
  <2>1. NULL \in Stubs \cup {NULL} /\ FreeStub \in StubState
    BY NewStubType
  <2>2. StubTypeOK'
    BY <1>1, <1>4, <2>1 DEF FillNotify, StubTypeOK
  <2>3. TaskTypeOK'
    BY <1>1, <1>4, EmptySeq DEF FillNotify, TaskTypeOK
  <2>4. ListTypeOK'
    BY <1>1, <1>4, UnlinkSeq DEF FillNotify, ListTypeOK
  <2>5. TimerTypeOK'
    BY <1>1, <1>4, TimerDelType DEF FillNotify, FreeUnit
  <2>6. left' \in Nat
    BY <1>1, <1>4 DEF FillNotify, PollTypeOK
  <2>7. PollTypeOK'
    BY <1>1, <1>4, <2>6, NextStubType DEF FillNotify, Filling, PollTypeOK
  <2> QED
    BY <1>4, <2>2, <2>3, <2>4, <2>5, <2>7, Frames, TypeInvParts DEF FillNotify
<1> QED
  BY <1>2, <1>3, <1>4


-----------------------------------------------------------------------------
(* The lists of the poll loop.  That a list holds no stub twice depends on *)
(* the flags (a stub is inserted when its flag is not set), on the lists   *)
(* holding no freed stub (a new one has no flags), on epoll knowing open   *)
(* stubs only (an event sets flags), on fetched events being of different  *)
(* stubs, and, as epex_connect does not look at the flag, on a socket that *)
(* is not connected being unwriteable.                                     *)
EventInv ==
    /\ evts # {} => pc = "events"
    /\ FetchedAlive
    /\ \A e, f \in evts : e.st = f.st => e = f
    /\ \A e \in evts : sock[stub[e.st].fd].link = "none" => "ERR" \in e.mask

TodoAlive == pc \in {"read", "write", "error"} => Range(todo) \subseteq LiveStubs

Unconnected ==
    \A s \in Socks : Open(s) /\ sock[s].link = "none"
        => "WRITEABLE" \notin stub[hash[s]].status

IInv ==
    /\ TypeInv
    /\ HashAgrees /\ Watched /\ Unconnected
    /\ PollListsAlive /\ ListsMatchStatus
    /\ EventInv /\ TodoAlive

(* A list changes at one stub, as the flag of that stub does. *)
Tracks(before, after, mark, st) ==
    \/ after = before /\ (mark \in stub'[st].status <=> st \in Range(before))
    \/ after = Unlink(before, st) /\ mark \notin stub'[st].status
    \/ after = Append(before, st) /\ st \notin Range(before)
        /\ mark \in stub'[st].status
    \/ after = Append(Unlink(before, st), st) /\ mark \in stub'[st].status

LEMMA TracksCases ==
    ASSUME NEW before, NEW st, NEW mark, st \notin Range(before)
    PROVE  /\ mark \in stub'[st].status
                => Tracks(before, Append(before, st), mark, st)
           /\ mark \notin stub'[st].status => Tracks(before, before, mark, st)
BY DEF Tracks

LEMMA TracksStep ==
    ASSUME NEW before \in Seq(Stubs), NoDuplicates(before), NEW after,
           NEW mark, NEW st \in Stubs,
           \A x \in Stubs : x \in Range(before) <=> mark \in stub[x].status,
           \A x \in Stubs \ {st} : stub'[x].status = stub[x].status,
           Tracks(before, after, mark, st)
    PROVE  /\ \A x \in Stubs : x \in Range(after) <=> mark \in stub'[x].status
           /\ NoDuplicates(after)
           /\ Range(after) \subseteq Range(before) \cup {st}
<1> DEFINE without == Unlink(before, st)
<1>1. /\ without \in Seq(Stubs) /\ NoDuplicates(without)
      /\ Range(without) = Range(before) \ {st}
  BY UnlinkSeq, UnlinkRange, UnlinkNoDuplicates
<1>2. CASE after = before /\ (mark \in stub'[st].status <=> st \in Range(before))
  BY <1>2
<1>3. CASE after = without /\ mark \notin stub'[st].status
  BY <1>1, <1>3
<1>4. CASE after = Append(before, st) /\ st \notin Range(before)
            /\ mark \in stub'[st].status
  <2>1. Range(after) = Range(before) \cup {st} /\ NoDuplicates(after)
    BY <1>4, AppendRange
  <2> QED
    BY <1>4, <2>1
<1>5. CASE after = Append(without, st) /\ mark \in stub'[st].status
  <2> HIDE DEF without
  <2>1. Range(after) = Range(without) \cup {st} /\ NoDuplicates(after)
    BY <1>1, <1>5, AppendRange
  <2> QED
    BY <1>1, <1>5, <2>1
<1> QED
  BY <1>2, <1>3, <1>4, <1>5 DEF Tracks

(* What a step at one stub does to the three lists. *)
ListsTrack(st) ==
    /\ Tracks(rlist, rlist', "READABLE", st)
    /\ Tracks(wlist, wlist', "WRITEABLE", st)
    /\ Tracks(elist, elist', "ERROR", st)

LEMMA ListsTrackStep ==
    ASSUME ListTypeOK, ListsMatchStatus, NoDuplicates(avail)', NEW st \in Stubs,
           \A x \in Stubs \ {st} : stub'[x].status = stub[x].status,
           ListsTrack(st)
    PROVE  /\ ListsMatchStatus'
           /\ Range(rlist)' \subseteq Range(rlist) \cup {st}
           /\ Range(wlist)' \subseteq Range(wlist) \cup {st}
           /\ Range(elist)' \subseteq Range(elist) \cup {st}
<1>1. /\ \A x \in Stubs : x \in Range(rlist') <=> "READABLE" \in stub'[x].status
      /\ NoDuplicates(rlist') /\ Range(rlist') \subseteq Range(rlist) \cup {st}
  BY TracksStep DEF ListTypeOK, ListsMatchStatus, ListsTrack
<1>2. /\ \A x \in Stubs : x \in Range(wlist') <=> "WRITEABLE" \in stub'[x].status
      /\ NoDuplicates(wlist') /\ Range(wlist') \subseteq Range(wlist) \cup {st}
  BY TracksStep DEF ListTypeOK, ListsMatchStatus, ListsTrack
<1>3. /\ \A x \in Stubs : x \in Range(elist') <=> "ERROR" \in stub'[x].status
      /\ NoDuplicates(elist') /\ Range(elist') \subseteq Range(elist) \cup {st}
  BY TracksStep DEF ListTypeOK, ListsMatchStatus, ListsTrack
<1> QED
  BY <1>1, <1>2, <1>3 DEF ListsMatchStatus

(* A stub keeps its socket; if its status changes to a fatal one, epoll    *)
(* forgets the socket.                                                     *)
LEMMA StubStep ==
    ASSUME TypeInv, HashAgrees, Watched, NEW st \in Stubs, UNCHANGED hash,
           \A x \in Stubs : stub'[x].fd = stub[x].fd,
           \A x \in Stubs \ {st} : stub'[x].status = stub[x].status,
           \/ reg' = reg /\ (Dying(st)' <=> Dying(st))
           \/ reg' = [reg EXCEPT ![stub[st].fd] = NULL] /\ Dying(st)'
    PROVE  HashAgrees' /\ Watched' /\ LiveStubs' = LiveStubs
<1>1. /\ reg \in [Socks -> Stubs \cup {NULL}]
      /\ hash \in [Socks -> Stubs \cup {NULL}]
  BY DEF TypeInv, TypeOK, NetTypeOK, StubTypeOK
<1>2. \A x \in Stubs : (Live(x)' <=> Live(x)) /\ (x # st => (Dying(x)' <=> Dying(x)))
  BY DEF Live, Dying
<1>3. LiveStubs' = LiveStubs
  BY <1>2 DEF LiveStubs
<1>4. HashAgrees'
  BY <1>1, <1>3 DEF HashAgrees, LiveStubs
<1>5. ASSUME NEW s \in Socks PROVE reg'[s] = IF Open(s)' THEN hash'[s] ELSE NULL
  <2>1. hash[s] # NULL => hash[s] \in Stubs /\ stub[hash[s]].fd = s
    BY <1>1 DEF HashAgrees
  <2>2. reg[s] = IF Open(s) THEN hash[s] ELSE NULL
    BY DEF Watched
  <2>3. hash[s] # NULL /\ hash[s] # st => (Dying(hash[s])' <=> Dying(hash[s]))
    BY <1>2, <2>1
  <2>4. CASE hash[s] = st /\ hash[s] # NULL
    BY <1>1, <2>1, <2>2, <2>4 DEF Open
  <2>5. CASE hash[s] # st /\ hash[s] # NULL
    <3>1. Open(s)' <=> Open(s)
      BY <2>3, <2>5 DEF Open
    <3>2. reg'[s] = reg[s] \/ (s = stub[st].fd /\ reg'[s] = NULL)
      BY <1>1
    <3>3. s = stub[st].fd => hash[s] = st
      BY KernelAssumption DEF HashAgrees, LiveStubs, Live
    <3> QED
      BY <2>2, <2>5, <3>1, <3>2, <3>3
  <2>6. CASE hash[s] = NULL
    BY <1>1, <2>2, <2>6 DEF Open
  <2> QED
    BY <2>4, <2>5, <2>6
<1> QED
  BY <1>3, <1>4, <1>5 DEF Watched

StubsInv ==
    /\ HashAgrees /\ Watched /\ Unconnected
    /\ PollListsAlive /\ ListsMatchStatus

StaysConnected ==
    \A s \in Socks : Open(s) /\ sock'[s].link = "none" => sock[s].link = "none"

(* Steps that leave the stubs and their lists alone. *)
LEMMA QuietStep ==
    ASSUME TypeInv, StubsInv, StaysConnected, NoDuplicates(avail)',
           UNCHANGED <<hash, stub, reg, rlist, wlist, elist>>
    PROVE  StubsInv' /\ LiveStubs' = LiveStubs
<1>1. /\ \A x : (Live(x)' <=> Live(x)) /\ (Dying(x)' <=> Dying(x))
      /\ LiveStubs' = LiveStubs
  BY DEF Live, Dying, LiveStubs
<1>2. \A s \in Socks : Open(s)' <=> Open(s)
  BY <1>1 DEF Open
<1>3. HashAgrees' /\ Watched'
  BY <1>1, <1>2 DEF StubsInv, HashAgrees, Watched
<1>4. Unconnected'
  BY <1>2 DEF StubsInv, Unconnected, StaysConnected
<1>5. PollListsAlive'
  BY <1>1 DEF StubsInv, PollListsAlive
<1>6. ListsMatchStatus'
  BY DEF StubsInv, ListsMatchStatus
<1> QED
  BY <1>1, <1>3, <1>4, <1>5, <1>6 DEF StubsInv

(* Steps that change the status of one stub. *)
LEMMA StatusStep ==
    ASSUME TypeInv, StubsInv, StaysConnected, NoDuplicates(avail)',
           NEW st \in Stubs, UNCHANGED hash,
           \A x \in Stubs : stub'[x].fd = stub[x].fd,
           \A x \in Stubs \ {st} : stub'[x].status = stub[x].status,
           \/ reg' = reg /\ (Dying(st)' <=> Dying(st))
           \/ reg' = [reg EXCEPT ![stub[st].fd] = NULL] /\ Dying(st)',
           ListsTrack(st),
           Live(st) \/ stub'[st].status \cap {"READABLE", "WRITEABLE", "ERROR"} = {},
           "WRITEABLE" \in stub'[st].status
              => "WRITEABLE" \in stub[st].status \/ sock'[stub[st].fd].link # "none"
    PROVE  StubsInv' /\ LiveStubs' = LiveStubs
<1>1. HashAgrees' /\ Watched' /\ LiveStubs' = LiveStubs
  BY StubStep DEF StubsInv
<1>2. /\ ListsMatchStatus'
      /\ Range(rlist)' \subseteq Range(rlist) \cup {st}
      /\ Range(wlist)' \subseteq Range(wlist) \cup {st}
      /\ Range(elist)' \subseteq Range(elist) \cup {st}
  BY ListsTrackStep, TypeInvParts DEF StubsInv
<1>3. PollListsAlive'
  <2>1. /\ Range(rlist) \subseteq LiveStubs /\ Range(wlist) \subseteq LiveStubs
        /\ Range(elist) \subseteq LiveStubs
    BY DEF StubsInv, PollListsAlive
  <2>2. Live(st) => st \in LiveStubs
    BY DEF LiveStubs
  <2>3. ~Live(st) => /\ st \notin Range(rlist)' /\ st \notin Range(wlist)'
                     /\ st \notin Range(elist)'
    BY <1>2 DEF ListsMatchStatus
  <2> QED
    BY <1>1, <1>2, <2>1, <2>2, <2>3 DEF PollListsAlive
<1>4. Unconnected'
  <2> SUFFICES ASSUME NEW s \in Socks, Open(s)', sock'[s].link = "none"
               PROVE  "WRITEABLE" \notin stub'[hash[s]].status
    BY DEF Unconnected
  <2>1. hash[s] \in Stubs /\ stub[hash[s]].fd = s
    BY DEF Open, StubsInv, HashAgrees, TypeInv, TypeOK, StubTypeOK
  <2>2. Open(s)
    <3>1. Dying(hash[s]) => Dying(hash[s])'
      BY <2>1 DEF Dying
    <3> QED
      BY <3>1 DEF Open
  <2>3. sock[s].link = "none"
    BY <2>2 DEF StaysConnected
  <2>4. "WRITEABLE" \notin stub[hash[s]].status
    BY <2>2, <2>3 DEF StubsInv, Unconnected
  <2> QED
    BY <2>1, <2>3, <2>4
<1> QED
  BY <1>1, <1>2, <1>3, <1>4 DEF StubsInv

(* Steps that give a socket a stub; the new stub may be dying already. *)
LEMMA NewStubStep ==
    ASSUME TypeInv, StubsInv, StaysConnected, NoDuplicates(avail)',
           NEW s \in Socks, NEW st \in FreeStubs, NEW new,
           hash[s] = NULL, hash' = [hash EXCEPT ![s] = st],
           stub' = [stub EXCEPT ![st] = new], new.fd = s,
           \/ reg' = [reg EXCEPT ![s] = st] /\ new.status \cap Fatal = {}
           \/ reg' = [reg EXCEPT ![s] = NULL] /\ new.status \cap Fatal # {},
           ListsTrack(st),
           "WRITEABLE" \in new.status => sock'[s].link # "none"
    PROVE  StubsInv' /\ LiveStubs \subseteq LiveStubs'
<1>1. /\ reg \in [Socks -> Stubs \cup {NULL}]
      /\ hash \in [Socks -> Stubs \cup {NULL}]
      /\ st \in Stubs /\ ~Live(st) /\ s # NULL
      /\ DOMAIN stub = Stubs
  BY KernelAssumption DEF TypeInv, TypeOK, NetTypeOK, StubTypeOK, FreeStubs
<1>2. stub'[st] = new /\ \A x \in Stubs \ {st} : stub'[x] = stub[x]
  BY <1>1
<1>3. LiveStubs' = LiveStubs \cup {st}
  BY <1>1, <1>2 DEF LiveStubs, Live
<1>4. \A r \in Socks : hash[r] # st /\ reg[r] # st
  BY <1>1, KernelAssumption DEF StubsInv, HashAgrees, Watched, Live
<1>5. HashAgrees'
  <2>1. ASSUME NEW r \in Socks, hash'[r] # NULL PROVE stub'[hash'[r]].fd = r
    BY <1>1, <1>2, <1>4, <2>1 DEF StubsInv, HashAgrees
  <2>2. ASSUME NEW x \in LiveStubs' PROVE hash'[stub'[x].fd] = x
    <3>1. CASE x = st
      BY <1>1, <1>2, <3>1
    <3>2. CASE x # st
      <4>1. x \in LiveStubs /\ x \in Stubs /\ stub'[x] = stub[x]
        BY <1>2, <1>3, <3>2 DEF LiveStubs
      <4>2. hash[stub[x].fd] = x /\ x # NULL
        BY <4>1, KernelAssumption DEF StubsInv, HashAgrees
      <4>3. stub[x].fd # s
        BY <4>2
      <4> QED
        BY <1>1, <4>1, <4>2, <4>3
    <3> QED
      BY <3>1, <3>2
  <2> QED
    BY <2>1, <2>2 DEF HashAgrees
<1>6. Watched'
  <2> SUFFICES ASSUME NEW r \in Socks
               PROVE  reg'[r] = IF Open(r)' THEN hash'[r] ELSE NULL
    BY DEF Watched
  <2>1. CASE r = s
    BY <1>1, <1>2, <2>1, KernelAssumption DEF Open, Dying
  <2>2. CASE r # s
    <3>1. hash'[r] = hash[r] /\ reg'[r] = reg[r]
      BY <1>1, <2>2
    <3>2. Open(r)' <=> Open(r)
      BY <1>1, <1>2, <1>4, <3>1 DEF Open, Dying
    <3> QED
      BY <3>1, <3>2 DEF StubsInv, Watched
  <2> QED
    BY <2>1, <2>2
<1>7. ListsMatchStatus' /\ PollListsAlive'
  <2>1. /\ ListsMatchStatus'
        /\ Range(rlist)' \subseteq Range(rlist) \cup {st}
        /\ Range(wlist)' \subseteq Range(wlist) \cup {st}
        /\ Range(elist)' \subseteq Range(elist) \cup {st}
    BY <1>1, <1>2, ListsTrackStep, TypeInvParts DEF StubsInv
  <2> QED
    BY <1>3, <2>1 DEF StubsInv, PollListsAlive
<1>8. Unconnected'
  <2> SUFFICES ASSUME NEW r \in Socks, Open(r)', sock'[r].link = "none"
               PROVE  "WRITEABLE" \notin stub'[hash'[r]].status
    BY DEF Unconnected
  <2>1. CASE r = s
    BY <1>1, <1>2, <2>1
  <2>2. CASE r # s
    <3>1. hash'[r] = hash[r] /\ hash[r] \in Stubs \ {st}
      BY <1>1, <1>4, <2>2 DEF Open
    <3>2. Open(r) /\ sock[r].link = "none"
      BY <1>2, <3>1 DEF Open, Dying, StaysConnected
    <3> QED
      BY <1>2, <3>1, <3>2 DEF StubsInv, Unconnected
  <2> QED
    BY <2>1, <2>2
<1> QED
  BY <1>3, <1>5, <1>6, <1>7, <1>8 DEF StubsInv

LEMMA AvailStep ==
    ASSUME TypeInv, NoDuplicates(avail), NEW st \in Stubs,
           avail' \in {avail, AppendNew(avail, st), Unlink(avail, st)}
    PROVE  NoDuplicates(avail)'
<1>1. avail \in Seq(Stubs)
  BY DEF TypeInv, TypeOK, ListTypeOK
<1>2. NoDuplicates(AppendNew(avail, st)) /\ NoDuplicates(Unlink(avail, st))
  BY <1>1, AppendNewProperties, UnlinkNoDuplicates
<1> QED
  BY <1>2

(* Steps outside the loop over the events go on with a list, at most. *)
LEMMA LoopStep ==
    ASSUME TypeInv, EventInv, TodoAlive, LiveStubs \subseteq LiveStubs',
           pc # "events", UNCHANGED <<pc, evts>>,
           todo' = todo \/ (todo # <<>> /\ todo' = Tail(todo))
    PROVE  EventInv' /\ TodoAlive'
<1>1. evts = {} /\ evts' = {}
  BY DEF EventInv
<1>2. EventInv'
  BY <1>1 DEF EventInv, FetchedAlive
<1>3. Range(todo') \subseteq Range(todo)
  <2>1. todo \in Seq(Stubs)
    BY TypeInvParts DEF PollTypeOK
  <2> QED
    BY <2>1, TailRange
<1> QED
  BY <1>2, <1>3 DEF TodoAlive

(* The calls of the application.                                           *)
LEMMA QuietCalls ==
    ASSUME IInv, NEW s \in Socks,
           \/ \E r \in Requests : Submit(s, r)
           \/ Accept(s)
           \/ \E fresh \in {UpSock, NewSock} : Reopen(s, fresh)
    PROVE  IInv'
<1>1. /\ TypeInv /\ StubsInv /\ NoDuplicates(avail) /\ EventInv /\ TodoAlive
  BY DEF IInv, StubsInv, ListsMatchStatus
<1>2. TypeInv'
  BY <1>1, SubmitType, SocketsType
<1>3. /\ pc = "app"
      /\ UNCHANGED <<hash, stub, reg, rlist, wlist, elist, avail, pc, evts, todo>>
  BY DEF Submit, Accept, Reopen, listVars, pollVars, netVars
<1>4. StaysConnected
  <2>1. CASE \E r \in Requests : Submit(s, r)
    BY <2>1 DEF Submit, netVars, StaysConnected
  <2>2. CASE Accept(s)
    BY <1>1, <2>2 DEF Accept, StaysConnected, TypeInv, TypeOK, NetTypeOK, SockState
  <2>3. CASE \E fresh \in {UpSock, NewSock} : Reopen(s, fresh)
    BY <1>1, <2>3 DEF Reopen, StaysConnected, TypeInv, TypeOK, NetTypeOK
  <2> QED
    BY <2>1, <2>2, <2>3
<1>5. StubsInv' /\ LiveStubs' = LiveStubs
  BY <1>1, <1>3, <1>4, QuietStep
<1>6. EventInv' /\ TodoAlive'
  BY <1>1, <1>3, <1>5, LoopStep
<1> QED
  BY <1>2, <1>5, <1>6 DEF IInv, StubsInv

LEMMA NewStubCalls ==
    ASSUME IInv, NEW s \in Socks, NEW timed \in BOOLEAN, Attach(s, timed) \/ Listen(s)
    PROVE  IInv'
<1>1. /\ TypeInv /\ StubsInv /\ NoDuplicates(avail) /\ EventInv /\ TodoAlive
  BY DEF IInv, StubsInv, ListsMatchStatus
<1>2. TypeInv'
  BY <1>1, AttachType
<1>3. /\ pc = "app" /\ hash[s] = NULL
      /\ UNCHANGED <<rlist, wlist, elist, avail, pc, evts, todo>>
  BY DEF Attach, Listen, listVars, pollVars
<1>4. PICK st \in FreeStubs, new \in {NewStub(s, FALSE, timed), NewStub(s, TRUE, FALSE)} :
        /\ hash' = [hash EXCEPT ![s] = st]
        /\ stub' = [stub EXCEPT ![st] = new]
        /\ EpollAdd(s, st)
  BY DEF Attach, Listen
<1>5. new.fd = s /\ new.status = {}
  BY <1>4 DEF NewStub, FreeStub
<1>6. StaysConnected
  BY <1>4 DEF EpollAdd, LookedAt, StaysConnected
<1>7. st \in Stubs /\ stub'[st].status = {}
  BY <1>1, <1>4, <1>5 DEF FreeStubs, TypeInv, TypeOK, StubTypeOK
<1>8. st \notin Range(rlist) /\ st \notin Range(wlist) /\ st \notin Range(elist)
  BY <1>1 DEF StubsInv, PollListsAlive, FreeStubs, LiveStubs
<1>9. ListsTrack(st)
  BY <1>3, <1>7, <1>8 DEF ListsTrack, Tracks
<1>10. StubsInv' /\ LiveStubs \subseteq LiveStubs'
  BY <1>1, <1>3, <1>4, <1>5, <1>6, <1>9, NewStubStep DEF EpollAdd
<1>11. EventInv' /\ TodoAlive'
  BY <1>1, <1>3, <1>10, LoopStep
<1> QED
  BY <1>2, <1>10, <1>11 DEF IInv, StubsInv

(* The list part of netstub_clean and DO_WITH_ERROR. *)
LEMMA CleanTracks ==
    ASSUME NEW st \in Stubs, NEW s, NetstubClean(st, s),
           stub'[st].status \cap {"READABLE", "WRITEABLE"} = {},
           \/ elist' = Unlink(elist, st) /\ "ERROR" \notin stub'[st].status
           \/ elist' = Append(Unlink(elist, st), st) /\ "ERROR" \in stub'[st].status
    PROVE  ListsTrack(st)
<1>1. "READABLE" \notin stub'[st].status /\ "WRITEABLE" \notin stub'[st].status
  OBVIOUS
<1> QED
  BY <1>1 DEF ListsTrack, Tracks, NetstubClean

(* A live stub dies of any cause. *)
LEMMA DeathStep ==
    ASSUME TypeInv, StubsInv, StaysConnected, NoDuplicates(avail)',
           NEW st \in Stubs, NEW status \in {"DETACHED", "ERROR", "IDLE"},
           UNCHANGED hash, stub' = [stub EXCEPT ![st].status = {status}],
           NetstubClean(st, stub[st].fd),
           IF status = "ERROR" THEN Live(st) /\ elist' = Append(Unlink(elist, st), st)
                               ELSE elist' = Unlink(elist, st)
    PROVE  StubsInv' /\ LiveStubs' = LiveStubs
<1>1. \A x \in Stubs : stub[x] \in StubState
  BY DEF TypeInv, TypeOK, StubTypeOK
<1>2. DOMAIN stub = Stubs
  BY DEF TypeInv, TypeOK, StubTypeOK
<1>3. /\ stub'[st].status = {status} /\ stub'[st].fd = stub[st].fd
      /\ \A x \in Stubs \ {st} : stub'[x] = stub[x]
  BY <1>1, <1>2 DEF StubState
<1>4. Dying(st)'
  BY <1>3 DEF Dying, Fatal
<1>5. ListsTrack(st)
  BY <1>3, CleanTracks
<1>6. reg' = [reg EXCEPT ![stub[st].fd] = NULL]
  BY DEF NetstubClean, EpollDel
<1>7. /\ \A x \in Stubs : stub'[x].fd = stub[x].fd
      /\ \A x \in Stubs \ {st} : stub'[x].status = stub[x].status
      /\ "WRITEABLE" \notin stub'[st].status
      /\ Live(st) \/ stub'[st].status \cap {"READABLE", "WRITEABLE", "ERROR"} = {}
  BY <1>3
<1> QED
  BY <1>4, <1>5, <1>6, <1>7, StatusStep

LEMMA DetachCalls ==
    ASSUME IInv, NEW s \in Socks,
           \/ Detach(s)
           \/ \E link \in {"none", "connecting", "up"} : ConnectFail(s, link)
    PROVE  IInv'
<1>1. /\ TypeInv /\ StubsInv /\ NoDuplicates(avail) /\ EventInv /\ TodoAlive
  BY DEF IInv, StubsInv, ListsMatchStatus
<1>2. TypeInv'
  BY <1>1, DetachType, ConnectFailType
<1>3. pc = "app" /\ UNCHANGED pollVars
  BY DEF Detach, ConnectFail, DetachStub
<1>4. StaysConnected
  BY <1>1 DEF Detach, ConnectFail, StaysConnected, TypeInv, TypeOK, NetTypeOK, SockState
<1>5. CASE DetachStub(s)
  <2> DEFINE st == hash[s]
  <2>1. /\ st \in Stubs /\ stub[st].fd = s
        /\ stub' = [stub EXCEPT ![st].status = {"DETACHED"}]
        /\ Abandon(st, s, "EDETACHED") /\ UNCHANGED hash
    BY <1>1, <1>5 DEF DetachStub, Open, StubsInv, HashAgrees, TypeInv, TypeOK, StubTypeOK
  <2> HIDE DEF st
  <2>2. NoDuplicates(avail)'
    BY <1>1, <2>1, AvailStep DEF Abandon, MakeAvail
  <2>3. StubsInv' /\ LiveStubs' = LiveStubs
    BY <1>1, <1>4, <2>1, <2>2, DeathStep DEF Abandon
  <2>4. EventInv' /\ TodoAlive'
    BY <1>1, <1>3, <2>3, LoopStep DEF pollVars
  <2> QED
    BY <1>2, <2>3, <2>4 DEF IInv, StubsInv
<1>6. ASSUME NEW st \in FreeStubs, hash[s] = NULL,
             hash' = [hash EXCEPT ![s] = st],
             stub' = [stub EXCEPT ![st] = [NewStub(s, FALSE, FALSE)
                                          EXCEPT !.status = {"DETACHED"}]],
             Abandon(st, s, "EDETACHED")
      PROVE  IInv'
  <2> DEFINE new == [NewStub(s, FALSE, FALSE) EXCEPT !.status = {"DETACHED"}]
  <2>1. new.fd = s /\ new.status = {"DETACHED"}
    BY DEF NewStub, FreeStub
  <2>2. stub' = [stub EXCEPT ![st] = new]
    BY <1>6
  <2> HIDE DEF new
  <2>3. st \in Stubs /\ stub'[st].status = {"DETACHED"}
    BY <1>1, <2>1, <2>2 DEF FreeStubs, TypeInv, TypeOK, StubTypeOK
  <2>4. NoDuplicates(avail)'
    BY <1>1, <1>6, <2>3, AvailStep DEF Abandon, MakeAvail
  <2>5. ListsTrack(st)
    BY <1>6, <2>3, CleanTracks DEF Abandon
  <2>6. reg' = [reg EXCEPT ![s] = NULL] /\ new.status \cap Fatal # {}
    BY <1>6, <2>1 DEF Abandon, NetstubClean, EpollDel, Fatal
  <2>7. StubsInv' /\ LiveStubs \subseteq LiveStubs'
    BY <1>1, <1>4, <1>6, <2>1, <2>2, <2>4, <2>5, <2>6, NewStubStep
  <2>8. EventInv' /\ TodoAlive'
    BY <1>1, <1>3, <2>7, LoopStep DEF pollVars
  <2> QED
    BY <1>2, <2>7, <2>8 DEF IInv, StubsInv
<1> QED
  BY <1>5, <1>6 DEF Detach, ConnectFail

LEMMA SilenceCalls ==
    ASSUME IInv, NEW s \in Socks, NEW silent \in BOOLEAN, SetSilence(s, silent)
    PROVE  IInv'
<1>1. /\ TypeInv /\ StubsInv /\ NoDuplicates(avail) /\ EventInv /\ TodoAlive
  BY DEF IInv, StubsInv, ListsMatchStatus
<1>2. TypeInv'
  BY <1>1, SetSilenceType
<1> PICK st \in Stubs : st = hash[s]
  BY <1>1 DEF SetSilence, TypeInv, TypeOK, StubTypeOK
<1>3. /\ pc = "app" /\ UNCHANGED <<netVars, hash, listVars, pollVars>>
      /\ stub' = [stub EXCEPT ![st].silent = silent]
  BY DEF SetSilence
<1>4. \A x \in Stubs : stub'[x].fd = stub[x].fd /\ stub'[x].status = stub[x].status
  BY <1>1, <1>3 DEF TypeInv, TypeOK, StubTypeOK, StubState
<1>5. ListsTrack(st)
  BY <1>1, <1>3, <1>4 DEF ListsTrack, Tracks, StubsInv, ListsMatchStatus, listVars
<1>6. Live(st)
  BY <1>1, KernelAssumption DEF SetSilence, StubsInv, HashAgrees, Live
<1>7. /\ StaysConnected /\ NoDuplicates(avail)'
      /\ UNCHANGED <<reg, hash>> /\ UNCHANGED pollVars
  BY <1>1, <1>3 DEF StaysConnected, netVars, listVars
<1>8. /\ Dying(st)' <=> Dying(st)
      /\ \A x \in Stubs : stub'[x].fd = stub[x].fd
      /\ \A x \in Stubs \ {st} : stub'[x].status = stub[x].status
      /\ "WRITEABLE" \in stub'[st].status => "WRITEABLE" \in stub[st].status
  BY <1>4 DEF Dying
<1>9. StubsInv' /\ LiveStubs' = LiveStubs
  BY <1>1, <1>4, <1>5, <1>6, <1>7, <1>8, StatusStep
<1>10. EventInv' /\ TodoAlive'
  BY <1>1, <1>3, <1>7, <1>9, LoopStep DEF pollVars
<1> QED
  BY <1>2, <1>9, <1>10 DEF IInv, StubsInv

LEMMA ConnectCalls ==
    ASSUME IInv, NEW s \in Socks, NEW timed \in IdleTimers,
           NEW link \in {"connecting", "up"}, Connect(s, timed, link)
    PROVE  IInv'
<1>1. /\ TypeInv /\ StubsInv /\ NoDuplicates(avail) /\ EventInv /\ TodoAlive
  BY DEF IInv, StubsInv, ListsMatchStatus
<1>2. TypeInv'
  BY <1>1, ConnectType
<1>3. /\ pc = "app" /\ sock[s].link = "none"
      /\ UNCHANGED <<rlist, elist, avail, pc, evts, todo>>
      /\ hash[s] # NULL => Open(s)
  BY DEF Connect, pollVars
<1>4. PICK st \in (IF hash[s] = NULL THEN FreeStubs ELSE {hash[s]}) :
        /\ hash' = [hash EXCEPT ![s] = st]
        /\ LET attached == IF hash[s] = NULL THEN NewStub(s, FALSE, timed)
                                             ELSE stub[st]
           IN stub' = [stub EXCEPT ![st] =
                IF link = "up" THEN [attached EXCEPT !.status = @ \cup {"WRITEABLE"}]
                               ELSE attached]
        /\ wlist' = IF link = "up" THEN Append(wlist, st) ELSE wlist
        /\ sock' = [sock EXCEPT ![s].link = link]
        /\ reg' = [reg EXCEPT ![s] = st]
  BY DEF Connect
<1>9. wlist' = IF link = "up" THEN Append(wlist, st) ELSE wlist
  BY <1>4
<1>5. /\ StaysConnected
      /\ sock'[s].link # "none"
  BY <1>1, <1>4 DEF StaysConnected, TypeInv, TypeOK, NetTypeOK, SockState
<1>6. /\ stub \in [Stubs -> StubState] /\ hash \in [Socks -> Stubs \cup {NULL}]
      /\ reg \in [Socks -> Stubs \cup {NULL}]
  BY <1>1 DEF TypeInv, TypeOK, NetTypeOK, StubTypeOK
<1>7. CASE hash[s] = NULL
  <2> DEFINE attached == NewStub(s, FALSE, timed)
             new == IF link = "up" THEN [attached EXCEPT !.status = @ \cup {"WRITEABLE"}]
                                   ELSE attached
  <2>1. st \in FreeStubs /\ st \in Stubs /\ stub' = [stub EXCEPT ![st] = new]
    BY <1>4, <1>7 DEF FreeStubs
  <2>2. /\ new.fd = s /\ new.status = IF link = "up" THEN {"WRITEABLE"} ELSE {}
        /\ new.status \cap Fatal = {}
    BY DEF NewStub, FreeStub, Fatal
  <2> HIDE DEF new
  <2>3. stub'[st].status = IF link = "up" THEN {"WRITEABLE"} ELSE {}
    BY <1>6, <2>1, <2>2
  <2>4. st \notin Range(rlist) /\ st \notin Range(wlist) /\ st \notin Range(elist)
    BY <1>1, <2>1 DEF StubsInv, PollListsAlive, FreeStubs, LiveStubs
  <2>5. ListsTrack(st)
    <3>1. Tracks(rlist, rlist', "READABLE", st) /\ Tracks(elist, elist', "ERROR", st)
      BY <1>3, <2>3, <2>4 DEF Tracks
    <3>2. Tracks(wlist, wlist', "WRITEABLE", st)
      <4>1. CASE link = "up"
        <5>1. wlist' = Append(wlist, st) /\ "WRITEABLE" \in stub'[st].status
          BY <1>9, <2>3, <4>1
        <5> QED
          BY <2>4, <5>1, TracksCases
      <4>2. CASE link # "up"
        <5>1. wlist' = wlist /\ "WRITEABLE" \notin stub'[st].status
          BY <1>9, <2>3, <4>2
        <5> QED
          BY <2>4, <5>1, TracksCases
      <4> QED
        BY <4>1, <4>2
    <3> QED
      BY <3>1, <3>2 DEF ListsTrack
  <2>6. StubsInv' /\ LiveStubs \subseteq LiveStubs'
    BY <1>1, <1>3, <1>4, <1>5, <1>7, <2>1, <2>2, <2>5, NewStubStep
  <2>7. EventInv' /\ TodoAlive'
    BY <1>1, <1>3, <2>6, LoopStep
  <2> QED
    BY <1>2, <2>6, <2>7 DEF IInv, StubsInv
<1>8. CASE hash[s] # NULL
  <2>1. st = hash[s] /\ st \in Stubs /\ Open(s)
    BY <1>3, <1>4, <1>6, <1>8
  <2>2. /\ stub[st].fd = s /\ Live(st) /\ ~Dying(st)
        /\ "WRITEABLE" \notin stub[st].status
        /\ reg[s] = st
    BY <1>1, <1>3, <2>1, KernelAssumption
       DEF StubsInv, HashAgrees, Watched, Unconnected, Open, Live
  <2>3. UNCHANGED <<hash, reg>>
    BY <1>4, <1>6, <2>1, <2>2
  <2> DEFINE status == IF link = "up" THEN stub[st].status \cup {"WRITEABLE"}
                                      ELSE stub[st].status
  <2>4. /\ stub'[st].status = status /\ stub'[st].fd = stub[st].fd
        /\ \A x \in Stubs \ {st} : stub'[x] = stub[x]
    BY <1>4, <1>6, <2>1, <1>8 DEF StubState
  <2>5. st \notin Range(wlist)
    BY <1>1, <2>1, <2>2 DEF StubsInv, ListsMatchStatus
  <2>6. Dying(st)' <=> Dying(st)
    BY <2>4 DEF Dying, Fatal
  <2>7. ListsTrack(st)
    <3>1. Tracks(rlist, rlist', "READABLE", st) /\ Tracks(elist, elist', "ERROR", st)
      BY <1>1, <1>3, <2>1, <2>4 DEF Tracks, StubsInv, ListsMatchStatus
    <3>2. Tracks(wlist, wlist', "WRITEABLE", st)
      <4>1. CASE link = "up"
        <5>1. wlist' = Append(wlist, st) /\ "WRITEABLE" \in stub'[st].status
          BY <1>9, <2>4, <4>1
        <5> QED
          BY <2>5, <5>1, TracksCases
      <4>2. CASE link # "up"
        <5>1. wlist' = wlist /\ "WRITEABLE" \notin stub'[st].status
          BY <1>9, <2>2, <2>4, <4>2
        <5> QED
          BY <2>5, <5>1, TracksCases
      <4> QED
        BY <4>1, <4>2
    <3> QED
      BY <3>1, <3>2 DEF ListsTrack
  <2>8. /\ \A x \in Stubs : stub'[x].fd = stub[x].fd
        /\ \A x \in Stubs \ {st} : stub'[x].status = stub[x].status
        /\ sock'[stub[st].fd].link # "none"
    BY <1>5, <2>2, <2>4
  <2>9. StubsInv' /\ LiveStubs' = LiveStubs
    BY <1>1, <1>3, <1>5, <2>1, <2>2, <2>3, <2>6, <2>7, <2>8, StatusStep
  <2>10. EventInv' /\ TodoAlive'
    BY <1>1, <1>3, <2>9, LoopStep
  <2> QED
    BY <1>2, <2>9, <2>10 DEF IInv, StubsInv
<1> QED
  BY <1>7, <1>8

(* The steps of epex_poll. *)
LEMMA PhaseSteps ==
    ASSUME IInv,
           \/ EventsEnd \/ ReadEnd \/ WriteEnd \/ TimerEnd \/ PollEnd
           \/ \E expired \in SUBSET armed : TimerTimeout(expired)
    PROVE  IInv'
<1>1. /\ TypeInv /\ StubsInv /\ NoDuplicates(avail) /\ EventInv /\ TodoAlive
  BY DEF IInv, StubsInv, ListsMatchStatus
<1>2. TypeInv'
  BY <1>1, PhaseType
<1>3. /\ UNCHANGED <<sock, reg, hash, stub, rlist, wlist, elist, avail, evts>>
      /\ pc = "events" => evts = {}
  BY DEF EventsEnd, ReadEnd, WriteEnd, TimerEnd, PollEnd, TimerTimeout, Phase,
         netVars, listVars
<1>4. StubsInv' /\ LiveStubs' = LiveStubs
  BY <1>1, <1>3, QuietStep DEF StaysConnected
<1>5. evts = {} /\ evts' = {}
  BY <1>1, <1>3 DEF EventInv
<1>6. EventInv'
  BY <1>5 DEF EventInv, FetchedAlive
<1>7. TodoAlive'
  <2>1. \/ pc' = "read" /\ todo' = rlist
        \/ pc' = "write" /\ todo' = wlist
        \/ pc' = "error" /\ todo' = elist
        \/ pc' \in {"timer", "fill", "app"}
    BY DEF EventsEnd, ReadEnd, WriteEnd, TimerEnd, PollEnd, TimerTimeout, Phase
  <2>2. /\ Range(rlist) \subseteq LiveStubs /\ Range(wlist) \subseteq LiveStubs
        /\ Range(elist) \subseteq LiveStubs
    BY <1>1 DEF StubsInv, PollListsAlive
  <2> QED
    BY <1>4, <2>1, <2>2 DEF TodoAlive
<1> QED
  BY <1>2, <1>4, <1>6, <1>7 DEF IInv, StubsInv

LEMMA PollStartStep ==
    ASSUME IInv, NEW size \in PollSizes, NEW S \in Batches, PollStart(size, S)
    PROVE  IInv'
<1>1. /\ TypeInv /\ StubsInv /\ NoDuplicates(avail) /\ EventInv /\ TodoAlive
  BY DEF IInv, StubsInv, ListsMatchStatus
<1>2. TypeInv'
  BY <1>1, PollStartType
<1>3. /\ UNCHANGED <<reg, hash, stub, rlist, wlist, elist, avail>>
      /\ pc' = "events"
      /\ evts' = {[st |-> reg[s], mask |-> Mask(s)] : s \in S}
  BY DEF PollStart, EpollWait, listVars
<1>4. \A s \in Socks : sock'[s].link = sock[s].link
  <2>1. sock' = LookedAt(ready)
    BY DEF PollStart, EpollWait
  <2>2. \A s \in Socks : sock[s] \in SockState
    BY <1>1 DEF TypeInv, TypeOK, NetTypeOK
  <2> QED
    BY <2>1, <2>2 DEF LookedAt, SockState
<1>5. StubsInv' /\ LiveStubs' = LiveStubs
  BY <1>1, <1>3, <1>4, QuietStep DEF StaysConnected
<1>6. ASSUME NEW s \in S
      PROVE  /\ s \in Socks /\ Open(s) /\ reg[s] = hash[s]
             /\ hash[s] \in Stubs /\ stub[hash[s]].fd = s
  <2>1. s \in Socks /\ reg[s] # NULL
    BY <1>1 DEF Batches, Reportable, TypeInv, ReadyRegistered, TypeOK, NetTypeOK
  <2> QED
    BY <1>1, <2>1 DEF StubsInv, Watched, HashAgrees, Open, TypeInv, TypeOK, StubTypeOK
<1>7. EventInv'
  <2>1. FetchedAlive'
    <3> SUFFICES ASSUME NEW s \in S PROVE Live(reg[s]) /\ ~Dying(reg[s])
      BY <1>3 DEF FetchedAlive, Live, Dying
    <3> QED
      BY <1>6, KernelAssumption DEF Live, Open
  <2>2. \A e, f \in evts' : e.st = f.st => e = f
    BY <1>3, <1>6
  <2>3. \A e \in evts' : sock'[stub'[e.st].fd].link = "none" => "ERR" \in e.mask
    <3> SUFFICES ASSUME NEW s \in S, sock'[stub[reg[s]].fd].link = "none"
                 PROVE  "ERR" \in Mask(s)
      BY <1>3
    <3>1. sock[s].link = "none"
      BY <1>4, <1>6
    <3> QED
      BY <3>1 DEF Mask, Broken
  <2> QED
    BY <1>3, <2>1, <2>2, <2>3 DEF EventInv
<1>8. TodoAlive'
  BY <1>3 DEF TodoAlive
<1> QED
  BY <1>2, <1>5, <1>7, <1>8 DEF IInv, StubsInv

LEMMA PeerSteps ==
    ASSUME IInv, PeerStep
    PROVE  IInv'
<1>1. /\ TypeInv /\ StubsInv /\ NoDuplicates(avail) /\ EventInv /\ TodoAlive
  BY DEF IInv, StubsInv, ListsMatchStatus
<1> PICK s \in Socks :
      Peer(s) /\ UNCHANGED <<hash, stub, queueVars, task, listVars, timerVars, pollVars>>
  BY DEF PeerStep
<1>2. TypeInv'
  BY <1>1, SocketsType
<1>3. UNCHANGED <<reg, hash, stub, rlist, wlist, elist, avail, pc, evts, todo>>
  BY DEF Peer, PeerSend, PeerClose, PeerReset, PeerAccept, PeerDrain, listVars, pollVars
<1>4. \A r \in Socks : sock'[r].link = "none" => sock[r].link = "none"
  <2>1. sock \in [Socks -> SockState]
    BY <1>1 DEF TypeInv, TypeOK, NetTypeOK
  <2> QED
    BY <2>1 DEF Peer, PeerSend, PeerClose, PeerReset, PeerAccept, PeerDrain, SockState
<1>5. StubsInv' /\ LiveStubs' = LiveStubs
  BY <1>1, <1>3, <1>4, QuietStep DEF StaysConnected
<1>6. EventInv'
  <2>1. \A e \in evts : e.st \in Stubs /\ stub[e.st].fd \in Socks
    BY <1>1 DEF EventInv, FetchedAlive, Live, TypeInv, TypeOK, PollTypeOK,
                StubTypeOK, StubState
  <2> QED
    BY <1>1, <1>3, <1>4, <2>1 DEF EventInv, FetchedAlive, Live, Dying
<1>7. TodoAlive'
  BY <1>1, <1>3, <1>5 DEF TodoAlive
<1> QED
  BY <1>2, <1>5, <1>6, <1>7 DEF IInv, StubsInv

(* Handling an event changes no stub that another event is of. *)
LEMMA OtherEvents ==
    ASSUME EventInv, NEW e \in evts, evts' = evts \ {e}, pc' = "events",
           UNCHANGED sock,
           \A x \in Stubs \ {e.st} : stub'[x] = stub[x],
           evts \subseteq [st : Stubs, mask : SUBSET {"IN", "OUT", "ERR"}]
    PROVE  EventInv' /\ TodoAlive'
<1>1. \A f \in evts' : f \in evts /\ f.st \in Stubs \ {e.st} /\ stub'[f.st] = stub[f.st]
  BY DEF EventInv
<1>2. EventInv'
  BY <1>1 DEF EventInv, FetchedAlive, Live, Dying
<1> QED
  BY <1>2 DEF TodoAlive

LEMMA EventSteps ==
    ASSUME IInv, NEW e \in evts, EventError(e) \/ EventReady(e)
    PROVE  IInv'
<1>1. /\ TypeInv /\ StubsInv /\ NoDuplicates(avail) /\ EventInv /\ TodoAlive
  BY DEF IInv, StubsInv, ListsMatchStatus
<1>2. TypeInv'
  BY <1>1, EventType
<1>3. evts \subseteq [st : Stubs, mask : SUBSET {"IN", "OUT", "ERR"}]
  BY <1>1, TypeInvParts DEF PollTypeOK
<1>4. stub \in [Stubs -> StubState]
  BY <1>1 DEF TypeInv, TypeOK, StubTypeOK
<1> PICK st \in Stubs : st = e.st
  BY <1>3
<1>5. /\ Live(st) /\ ~Dying(st)
      /\ "ERR" \notin e.mask => sock[stub[st].fd].link # "none"
  BY <1>1 DEF EventInv, FetchedAlive
<1>6. /\ UNCHANGED <<sock, hash, avail>> /\ evts' = evts \ {e} /\ pc' = "events"
      /\ StaysConnected /\ NoDuplicates(avail)'
  BY <1>1 DEF EventError, EventReady, netVars, StaysConnected
<1>7. CASE EventError(e)
  <2>1. /\ stub' = [stub EXCEPT ![st].status = {"ERROR"}]
        /\ NetstubClean(st, stub[st].fd)
        /\ elist' = Append(Unlink(elist, st), st)
    BY <1>7 DEF EventError, DoWithError
  <2>2. StubsInv'
    BY <1>1, <1>5, <1>6, <2>1, DeathStep
  <2>3. \A x \in Stubs \ {e.st} : stub'[x] = stub[x]
    BY <1>4, <2>1
  <2>4. EventInv' /\ TodoAlive'
    BY <1>1, <1>3, <1>6, <2>3, OtherEvents
  <2> QED
    BY <1>2, <2>2, <2>4 DEF IInv, StubsInv
<1>8. CASE EventReady(e)
  <2> DEFINE new == EventFlags(e.mask) \ stub[e.st].status
  <2>1. new \subseteq {"READABLE", "WRITEABLE"} /\ "ERR" \notin e.mask
    BY <1>8 DEF EventFlags, EventReady
  <2>2. /\ stub' = [stub EXCEPT ![st].status = stub[st].status \cup new]
        /\ rlist' = IF "READABLE" \in new THEN Append(rlist, st) ELSE rlist
        /\ wlist' = IF "WRITEABLE" \in new THEN Append(wlist, st) ELSE wlist
        /\ UNCHANGED <<elist, reg>>
    BY <1>8 DEF EventReady, netVars
  <2>3. new \cap stub[st].status = {}
    OBVIOUS
  <2> HIDE DEF new
  <2>4. /\ stub'[st].status = stub[st].status \cup new
        /\ stub'[st].fd = stub[st].fd
        /\ \A x \in Stubs \ {e.st} : stub'[x] = stub[x]
    BY <1>4, <2>2 DEF StubState
  <2>5. Dying(st)' <=> Dying(st)
    BY <2>1, <2>4 DEF Dying, Fatal
  <2>6. /\ st \in Range(rlist) <=> "READABLE" \in stub[st].status
        /\ st \in Range(wlist) <=> "WRITEABLE" \in stub[st].status
        /\ st \in Range(elist) <=> "ERROR" \in stub[st].status
    BY <1>1 DEF StubsInv, ListsMatchStatus
  <2>7. ListsTrack(st)
    <3>1. Tracks(rlist, rlist', "READABLE", st)
      BY <2>2, <2>3, <2>4, <2>6 DEF Tracks
    <3>2. Tracks(wlist, wlist', "WRITEABLE", st)
      BY <2>2, <2>3, <2>4, <2>6 DEF Tracks
    <3>3. Tracks(elist, elist', "ERROR", st)
      BY <2>1, <2>2, <2>4, <2>6 DEF Tracks
    <3> QED
      BY <3>1, <3>2, <3>3 DEF ListsTrack
  <2>8. /\ \A x \in Stubs : stub'[x].fd = stub[x].fd
        /\ \A x \in Stubs \ {st} : stub'[x].status = stub[x].status
        /\ sock'[stub[st].fd].link # "none"
    BY <1>5, <1>6, <2>1, <2>4
  <2>9. StubsInv'
    BY <1>1, <1>5, <1>6, <2>2, <2>5, <2>7, <2>8, StatusStep
  <2>10. EventInv' /\ TodoAlive'
    BY <1>1, <1>3, <1>6, <2>4, OtherEvents
  <2> QED
    BY <1>2, <2>9, <2>10 DEF IInv, StubsInv
<1> QED
  BY <1>7, <1>8

LEMMA VisitedLive ==
    ASSUME TypeInv, TodoAlive, pc \in {"read", "write", "error"}, todo # <<>>
    PROVE  Live(Head(todo))
<1>1. todo \in Seq(Stubs)
  BY TypeInvParts DEF PollTypeOK
<1>2. Head(todo) \in Range(todo)
  BY <1>1, TailRange
<1> QED
  BY <1>2 DEF TodoAlive, LiveStubs

(* A live stub loses one of the flags that stand for read() or write(). *)
LEMMA DropStep ==
    ASSUME TypeInv, StubsInv, StaysConnected, NoDuplicates(avail)',
           NEW st \in Stubs, Live(st), UNCHANGED <<hash, reg, elist>>,
           NEW closed \in SUBSET {"CLOSED"}, NEW gone \in {"READABLE", "WRITEABLE"},
           stub' = [stub EXCEPT ![st].status = (@ \ {gone}) \cup closed],
           rlist' = IF gone = "READABLE" THEN Unlink(rlist, st) ELSE rlist,
           wlist' = IF gone = "WRITEABLE" THEN Unlink(wlist, st) ELSE wlist
    PROVE  StubsInv' /\ LiveStubs' = LiveStubs
<1>1. stub \in [Stubs -> StubState]
  BY DEF TypeInv, TypeOK, StubTypeOK
<1>2. /\ stub'[st].status = (stub[st].status \ {gone}) \cup closed
      /\ \A x \in Stubs : stub'[x].fd = stub[x].fd
      /\ \A x \in Stubs \ {st} : stub'[x].status = stub[x].status
  BY <1>1 DEF StubState
<1>3. /\ Dying(st)' <=> Dying(st)
      /\ "WRITEABLE" \in stub'[st].status => "WRITEABLE" \in stub[st].status
  BY <1>2 DEF Dying, Fatal
<1>4. /\ st \in Range(rlist) <=> "READABLE" \in stub[st].status
      /\ st \in Range(wlist) <=> "WRITEABLE" \in stub[st].status
      /\ st \in Range(elist) <=> "ERROR" \in stub[st].status
  BY DEF StubsInv, ListsMatchStatus
<1>5. Tracks(rlist, rlist', "READABLE", st)
  <2>1. CASE gone = "READABLE"
    BY <1>2, <2>1 DEF Tracks
  <2>2. CASE gone # "READABLE"
    BY <1>2, <1>4, <2>2 DEF Tracks
  <2> QED
    BY <2>1, <2>2
<1>6. Tracks(wlist, wlist', "WRITEABLE", st)
  <2>1. CASE gone = "WRITEABLE"
    BY <1>2, <2>1 DEF Tracks
  <2>2. CASE gone # "WRITEABLE"
    BY <1>2, <1>4, <2>2 DEF Tracks
  <2> QED
    BY <2>1, <2>2
<1>7. Tracks(elist, elist', "ERROR", st)
  BY <1>2, <1>4 DEF Tracks
<1>8. ListsTrack(st)
  BY <1>5, <1>6, <1>7 DEF ListsTrack
<1> QED
  BY <1>2, <1>3, <1>8, StatusStep

LEMMA DropSteps ==
    ASSUME IInv, NEW st \in Stubs,
           ReadListen(st) \/ ReadEagain(st) \/ ReadEof(st) \/ WriteEagain(st)
    PROVE  IInv'
<1>1. /\ TypeInv /\ StubsInv /\ NoDuplicates(avail) /\ EventInv /\ TodoAlive
  BY DEF IInv, StubsInv, ListsMatchStatus
<1>2. TypeInv'
  BY <1>1, ReadListenType, ReadEagainType, ReadEofType, WriteEagainType
<1>3. /\ pc \in {"read", "write"} /\ todo # <<>> /\ st = Head(todo)
      /\ todo' = Tail(todo) /\ UNCHANGED <<pc, evts, hash, reg, elist>>
  BY DEF ReadListen, ReadEagain, ReadEof, WriteEagain, CallsRead, CallsWrite,
         Reading, Writing, NextReadable, NextWriteable, netVars
<1>4. Live(st)
  BY <1>1, <1>3, VisitedLive
<1>5. StaysConnected
  <2>1. sock \in [Socks -> SockState]
    BY <1>1 DEF TypeInv, TypeOK, NetTypeOK
  <2>2. \/ sock' = sock
        \/ sock' = [sock EXCEPT ![stub[st].fd].nospace = TRUE]
    BY DEF ReadListen, ReadEagain, ReadEof, WriteEagain, netVars
  <2> QED
    BY <2>1, <2>2 DEF StaysConnected, SockState
<1>6. NoDuplicates(avail)'
  <2>1. avail' \in {avail, AppendNew(avail, st)}
    BY DEF ReadListen, ReadEagain, ReadEof, WriteEagain, MakeAvail, TasksDone
  <2> QED
    BY <1>1, <2>1, AvailStep
<1>7. \E closed \in SUBSET {"CLOSED"}, gone \in {"READABLE", "WRITEABLE"} :
        /\ stub' = [stub EXCEPT ![st].status = (@ \ {gone}) \cup closed]
        /\ rlist' = IF gone = "READABLE" THEN Unlink(rlist, st) ELSE rlist
        /\ wlist' = IF gone = "WRITEABLE" THEN Unlink(wlist, st) ELSE wlist
  <2>1. CASE ReadListen(st) \/ ReadEagain(st)
    <3>1. stub' = [stub EXCEPT ![st].status = (@ \ {"READABLE"}) \cup {}]
      BY <2>1 DEF ReadListen, ReadEagain
    <3>2. rlist' = Unlink(rlist, st) /\ wlist' = wlist
      BY <2>1 DEF ReadListen, ReadEagain
    <3> QED
      BY <3>1, <3>2
  <2>2. CASE ReadEof(st)
    <3>1. stub' = [stub EXCEPT ![st].status = (@ \ {"READABLE"}) \cup {"CLOSED"}]
      BY <2>2 DEF ReadEof
    <3>2. rlist' = Unlink(rlist, st) /\ wlist' = wlist
      BY <2>2 DEF ReadEof
    <3> QED
      BY <3>1, <3>2
  <2>3. CASE WriteEagain(st)
    <3>1. stub' = [stub EXCEPT ![st].status = (@ \ {"WRITEABLE"}) \cup {}]
      BY <2>3 DEF WriteEagain
    <3>2. wlist' = Unlink(wlist, st) /\ rlist' = rlist
      BY <2>3 DEF WriteEagain
    <3> QED
      BY <3>1, <3>2
  <2> QED
    BY <2>1, <2>2, <2>3
<1>8. StubsInv' /\ LiveStubs' = LiveStubs
  BY <1>1, <1>3, <1>4, <1>5, <1>6, <1>7, DropStep
<1>9. EventInv' /\ TodoAlive'
  BY <1>1, <1>3, <1>8, LoopStep
<1> QED
  BY <1>2, <1>8, <1>9 DEF IInv, StubsInv

(* A live stub breaks, or one is idle for too long. *)
LEMMA DeathSteps ==
    ASSUME IInv, NEW st \in Stubs, ReadError(st) \/ WriteError(st) \/ TimerSock(st)
    PROVE  IInv'
<1>1. /\ TypeInv /\ StubsInv /\ NoDuplicates(avail) /\ EventInv /\ TodoAlive
  BY DEF IInv, StubsInv, ListsMatchStatus
<1>2. TypeInv'
  BY <1>1, BreakType, TimerType
<1>3. /\ pc # "events" /\ UNCHANGED <<sock, hash, pc, evts>>
      /\ todo' = todo \/ (todo # <<>> /\ todo' = Tail(todo))
  BY DEF ReadError, WriteError, TimerSock, CallsRead, CallsWrite, Reading, Writing,
         NextReadable, NextWriteable, pollVars
<1>4. NoDuplicates(avail)'
  <2>1. avail' \in {avail, AppendNew(avail, st)}
    BY DEF ReadError, WriteError, TimerSock, Abandon, MakeAvail
  <2> QED
    BY <1>1, <2>1, AvailStep
<1>5. PICK status \in {"ERROR", "IDLE"} :
        /\ stub' = [stub EXCEPT ![st].status = {status}]
        /\ NetstubClean(st, stub[st].fd)
        /\ IF status = "ERROR" THEN Live(st) /\ elist' = Append(Unlink(elist, st), st)
                               ELSE elist' = Unlink(elist, st)
  <2>1. CASE ReadError(st) \/ WriteError(st)
    <3>1. DoWithError(st) /\ pc \in {"read", "write"} /\ todo # <<>> /\ st = Head(todo)
      BY <2>1 DEF ReadError, WriteError, CallsRead, CallsWrite, Reading, Writing
    <3>2. Live(st)
      BY <1>1, <3>1, VisitedLive
    <3> QED
      BY <3>1, <3>2 DEF DoWithError
  <2>2. CASE TimerSock(st)
    <3>1. /\ stub' = [stub EXCEPT ![st].status = {"IDLE"}]
          /\ NetstubClean(st, stub[st].fd) /\ elist' = Unlink(elist, st)
      BY <2>2 DEF TimerSock, Abandon
    <3> QED
      BY <3>1
  <2> QED
    BY <2>1, <2>2
<1>6. StubsInv' /\ LiveStubs' = LiveStubs
  BY <1>1, <1>3, <1>4, <1>5, DeathStep DEF StaysConnected
<1>7. EventInv' /\ TodoAlive'
  BY <1>1, <1>3, <1>6, LoopStep
<1> QED
  BY <1>2, <1>6, <1>7 DEF IInv, StubsInv

(* Steps that move requests and results, and no stub. *)
QuietPoll(st) ==
    \/ ReadData(st) \/ ReadNothing(st) \/ ReadClosed(st) \/ ReadLeave(st)
    \/ WriteData(st) \/ WriteNothing(st) \/ WriteLeave(st)
    \/ ErrorFlush(st)
    \/ \E t \in Tasks : TimerTask(st, t)
    \/ FillSilent(st) \/ FillResults(st)

LEMMA QuietPollSteps ==
    ASSUME IInv, NEW st \in Stubs, QuietPoll(st)
    PROVE  IInv'
<1>1. /\ TypeInv /\ StubsInv /\ NoDuplicates(avail) /\ EventInv /\ TodoAlive
  BY DEF IInv, StubsInv, ListsMatchStatus
<1>2. TypeInv'
  <2>1. CASE ReadData(st) \/ WriteData(st)
    <3>1. pc \in {"read", "write", "error"} /\ todo # <<>> /\ st = Head(todo)
      BY <2>1 DEF ReadData, WriteData, CallsRead, CallsWrite, Reading, Writing
    <3>2. Live(st)
      BY <1>1, <3>1, VisitedLive
    <3> QED
      BY <1>1, <2>1, <3>2, ReadDataType, WriteDataType
  <2>2. CASE ReadNothing(st) \/ WriteNothing(st)
    BY <1>1, <2>2, NothingType
  <2>3. CASE ReadClosed(st) \/ ReadLeave(st) \/ WriteLeave(st)
    BY <1>1, <2>3, ReadClosedType, WriteEagainType
  <2>4. CASE ErrorFlush(st) \/ (\E t \in Tasks : TimerTask(st, t))
    BY <1>1, <2>4, ErrorFlushType, TimerType
  <2>5. CASE FillSilent(st) \/ FillResults(st)
    BY <1>1, <2>5, FillType
  <2> QED
    BY <2>1, <2>2, <2>3, <2>4, <2>5 DEF QuietPoll
<1>3. /\ UNCHANGED <<reg, hash, stub, rlist, wlist, elist>>
      /\ pc # "events" /\ UNCHANGED <<pc, evts>>
      /\ todo' = todo \/ (todo # <<>> /\ todo' = Tail(todo))
  <2>1. CASE ReadData(st) \/ ReadNothing(st) \/ ReadClosed(st) \/ ReadLeave(st)
    BY <2>1 DEF ReadData, ReadNothing, ReadClosed, ReadLeave, CallsRead, Reading,
                NextReadable, netVars, listVars, pollVars
  <2>2. CASE WriteData(st) \/ WriteNothing(st) \/ WriteLeave(st)
    BY <2>2 DEF WriteData, WriteNothing, WriteLeave, CallsWrite, Writing,
                NextWriteable, netVars, listVars, pollVars
  <2>3. CASE ErrorFlush(st) \/ FillSilent(st) \/ FillResults(st)
    BY <2>3 DEF ErrorFlush, FillSilent, FillResults, Filling, netVars, listVars
  <2>4. CASE \E t \in Tasks : TimerTask(st, t)
    BY <2>4 DEF TimerTask, netVars, pollVars
  <2> QED
    BY <2>1, <2>2, <2>3, <2>4 DEF QuietPoll
<1>4. StaysConnected
  <2>1. sock \in [Socks -> SockState]
    BY <1>1 DEF TypeInv, TypeOK, NetTypeOK
  <2>2. CASE ReadData(st)
    BY <2>1, <2>2 DEF ReadData, StaysConnected, SockState
  <2>3. CASE WriteData(st)
    BY <2>1, <2>3 DEF WriteData, StaysConnected, SockState
  <2>4. CASE sock' = sock
    BY <2>4 DEF StaysConnected
  <2> QED
    BY <2>2, <2>3, <2>4
       DEF QuietPoll, ReadNothing, ReadClosed, ReadLeave, WriteNothing, WriteLeave,
           ErrorFlush, TimerTask, FillSilent, FillResults, netVars
<1>5. NoDuplicates(avail)'
  <2>1. avail' \in {avail, AppendNew(avail, st), Unlink(avail, st)}
    <3>1. CASE ReadData(st) \/ WriteData(st)
      BY <3>1 DEF ReadData, WriteData, MakeAvail
    <3>2. CASE ReadNothing(st) \/ ReadClosed(st) \/ WriteNothing(st)
      BY <3>2 DEF ReadNothing, ReadClosed, WriteNothing, TasksDone
    <3>3. CASE ErrorFlush(st) \/ (\E t \in Tasks : TimerTask(st, t))
      BY <3>3 DEF ErrorFlush, TimerTask, MakeAvail
    <3>4. CASE ReadLeave(st) \/ WriteLeave(st) \/ FillSilent(st) \/ FillResults(st)
      BY <3>4 DEF ReadLeave, WriteLeave, FillSilent, FillResults, listVars
    <3> QED
      BY <3>1, <3>2, <3>3, <3>4 DEF QuietPoll
  <2> QED
    BY <1>1, <2>1, AvailStep
<1>6. StubsInv' /\ LiveStubs' = LiveStubs
  BY <1>1, <1>3, <1>4, <1>5, QuietStep
<1>7. EventInv' /\ TodoAlive'
  BY <1>1, <1>3, <1>6, LoopStep
<1> QED
  BY <1>2, <1>6, <1>7 DEF IInv, StubsInv

LEMMA NotifyStep ==
    ASSUME IInv, NEW st \in Stubs, FillNotify(st)
    PROVE  IInv'
<1>1. /\ TypeInv /\ StubsInv /\ NoDuplicates(avail) /\ EventInv /\ TodoAlive
  BY DEF IInv, StubsInv, ListsMatchStatus
<1>2. TypeInv'
  BY <1>1, FillType
<1>3. /\ pc = "fill" /\ Dying(st)
      /\ hash' = [hash EXCEPT ![stub[st].fd] = NULL]
      /\ stub' = [stub EXCEPT ![st] = FreeStub]
      /\ rlist' = Unlink(rlist, st) /\ wlist' = Unlink(wlist, st)
      /\ elist' = Unlink(elist, st) /\ avail' = Unlink(avail, st)
      /\ UNCHANGED <<sock, reg, pc, evts>>
  BY DEF FillNotify, Filling, Finished, netVars
<1>4. /\ stub \in [Stubs -> StubState] /\ hash \in [Socks -> Stubs \cup {NULL}]
  BY <1>1 DEF TypeInv, TypeOK, StubTypeOK
<1>5. /\ stub'[st].fd = NULL /\ stub'[st].status = {}
      /\ \A x \in Stubs \ {st} : stub'[x] = stub[x]
  BY <1>3, <1>4 DEF FreeStub
<1>6. LiveStubs' = LiveStubs \ {st}
  BY <1>5 DEF LiveStubs, Live
<1>7. ASSUME NEW s \in Socks
      PROVE  hash'[s] = IF hash[s] = st THEN NULL ELSE hash[s]
  <2>1. hash[s] = st => stub[st].fd = s
    BY <1>1, KernelAssumption DEF StubsInv, HashAgrees
  <2>2. stub[st].fd = s => hash[s] = st
    BY <1>1, KernelAssumption DEF StubsInv, HashAgrees, LiveStubs, Live
  <2> QED
    BY <1>3, <1>4, <2>1, <2>2
<1>8. HashAgrees'
  <2>1. ASSUME NEW s \in Socks, hash'[s] # NULL PROVE stub'[hash'[s]].fd = s
    BY <1>1, <1>4, <1>5, <1>7, <2>1 DEF StubsInv, HashAgrees
  <2>2. ASSUME NEW x \in LiveStubs' PROVE hash'[stub'[x].fd] = x
    <3>1. x \in LiveStubs /\ x # st /\ stub'[x] = stub[x] /\ stub[x].fd \in Socks
      BY <1>4, <1>5, <1>6 DEF LiveStubs, Live, StubState
    <3>2. hash[stub[x].fd] = x
      BY <1>1, <3>1 DEF StubsInv, HashAgrees
    <3> QED
      BY <1>7, <3>1, <3>2
  <2> QED
    BY <2>1, <2>2 DEF HashAgrees
<1>9. \A s \in Socks : /\ Open(s)' <=> Open(s)
                       /\ Open(s) => hash[s] \in Stubs \ {st} /\ hash'[s] = hash[s]
  BY <1>3, <1>4, <1>5, <1>7 DEF Open, Dying
<1>10. Watched'
  BY <1>1, <1>3, <1>9 DEF StubsInv, Watched
<1>11. Unconnected'
  BY <1>1, <1>3, <1>5, <1>9 DEF StubsInv, Unconnected
<1>12. NoDuplicates(avail)'
  BY <1>1, <1>3, AvailStep
<1>13. ListsTrack(st)
  BY <1>3, <1>5 DEF ListsTrack, Tracks
<1>14. /\ ListsMatchStatus'
       /\ Range(rlist)' \subseteq Range(rlist) \cup {st}
       /\ Range(wlist)' \subseteq Range(wlist) \cup {st}
       /\ Range(elist)' \subseteq Range(elist) \cup {st}
  BY <1>1, <1>5, <1>12, <1>13, ListsTrackStep, TypeInvParts DEF StubsInv
<1>15. PollListsAlive'
  <2>1. st \notin Range(rlist)' /\ st \notin Range(wlist)' /\ st \notin Range(elist)'
    BY <1>5, <1>14 DEF ListsMatchStatus
  <2> QED
    BY <1>1, <1>6, <1>14, <2>1 DEF StubsInv, PollListsAlive
<1>16. EventInv' /\ TodoAlive'
  BY <1>1, <1>3 DEF EventInv, TodoAlive, FetchedAlive
<1> QED
  BY <1>2, <1>8, <1>10, <1>11, <1>14, <1>15, <1>16 DEF IInv, StubsInv

-----------------------------------------------------------------------------
LEMMA IInvInit == Init => IInv
<1> SUFFICES ASSUME Init PROVE IInv
  OBVIOUS
<1>1. TypeInv
  BY TypeInvInit
<1>2. \A st \in Stubs : ~Live(st) /\ stub[st].status = {}
  BY DEF Init, FreeStub, Live
<1>3. HashAgrees /\ Watched /\ Unconnected
  BY <1>2 DEF Init, NetInit, HashAgrees, Watched, Unconnected, Open, LiveStubs
<1>4. /\ rlist = <<>> /\ wlist = <<>> /\ elist = <<>> /\ avail = <<>>
      /\ Range(<<>>) = {} /\ NoDuplicates(<<>>)
  BY DEF Init, Range, NoDuplicates, IsInjective
<1>5. PollListsAlive /\ ListsMatchStatus
  BY <1>2, <1>4 DEF PollListsAlive, ListsMatchStatus
<1>6. EventInv /\ TodoAlive
  BY DEF Init, EventInv, TodoAlive, FetchedAlive
<1> QED
  BY <1>1, <1>3, <1>5, <1>6 DEF IInv

LEMMA IInvStuttering == IInv /\ UNCHANGED vars => IInv'
<1> SUFFICES ASSUME IInv, UNCHANGED vars PROVE IInv'
  OBVIOUS
<1> USE DEF vars, netVars, queueVars, listVars, timerVars, pollVars
<1>1. TypeInv'
  BY DEF IInv, TypeInv, TypeOK, ReadyRegistered, NetTypeOK, StubTypeOK, TaskTypeOK,
         ListTypeOK, TimerTypeOK, PollTypeOK
<1>2. StubsInv' /\ LiveStubs' = LiveStubs
  <2>1. TypeInv /\ StubsInv /\ StaysConnected /\ NoDuplicates(avail)'
    BY DEF IInv, StubsInv, ListsMatchStatus, StaysConnected
  <2> QED
    BY <2>1, QuietStep
<1>3. EventInv' /\ TodoAlive'
  BY <1>2 DEF IInv, EventInv, FetchedAlive, Live, Dying, TodoAlive
<1> QED
  BY <1>1, <1>2, <1>3 DEF IInv, StubsInv

LEMMA IInvNext == IInv /\ [Next]_vars => IInv'
<1> SUFFICES ASSUME IInv, [Next]_vars PROVE IInv'
  OBVIOUS
<1>1. CASE Application
  <2> PICK s \in Socks :
        \/ \E timed \in IdleTimers :
            \/ Attach(s, timed)
            \/ \E link \in {"connecting", "up"} : Connect(s, timed, link)
        \/ Listen(s)
        \/ Detach(s)
        \/ \E r \in Requests : Submit(s, r)
        \/ \E link \in {"none", "connecting", "up"} : ConnectFail(s, link)
        \/ \E silent \in BOOLEAN : SetSilence(s, silent)
        \/ Accept(s)
        \/ \E fresh \in {UpSock, NewSock} : Reopen(s, fresh)
    BY <1>1 DEF Application
  <2>1. CASE \E timed \in IdleTimers : Attach(s, timed)
    BY <2>1, NewStubCalls, EpexAssumption
  <2>2. CASE Listen(s)
    BY <2>2, NewStubCalls
  <2>3. CASE \E timed \in IdleTimers, link \in {"connecting", "up"} : Connect(s, timed, link)
    BY <2>3, ConnectCalls
  <2>4. CASE Detach(s) \/ \E link \in {"none", "connecting", "up"} : ConnectFail(s, link)
    BY <2>4, DetachCalls
  <2>5. CASE \/ \E r \in Requests : Submit(s, r)
             \/ Accept(s)
             \/ \E fresh \in {UpSock, NewSock} : Reopen(s, fresh)
    BY <2>5, QuietCalls
  <2>6. CASE \E silent \in BOOLEAN : SetSilence(s, silent)
    BY <2>6, SilenceCalls
  <2> QED
    BY <2>1, <2>2, <2>3, <2>4, <2>5, <2>6
<1>2. CASE Poll
  BY <1>2, PollStartStep DEF Poll
<1>3. CASE PollStep
  <2>1. CASE \E e \in evts : EventError(e) \/ EventReady(e)
    BY <2>1, EventSteps
  <2>2. CASE \E st \in Stubs :
               ReadListen(st) \/ ReadEagain(st) \/ ReadEof(st) \/ WriteEagain(st)
    BY <2>2, DropSteps
  <2>3. CASE \E st \in Stubs : ReadError(st) \/ WriteError(st) \/ TimerSock(st)
    BY <2>3, DeathSteps
  <2>4. CASE \E st \in Stubs : QuietPoll(st)
    BY <2>4, QuietPollSteps
  <2>5. CASE \E st \in Stubs : FillNotify(st)
    BY <2>5, NotifyStep
  <2>6. CASE \/ EventsEnd \/ ReadEnd \/ WriteEnd \/ TimerEnd \/ PollEnd
             \/ \E expired \in SUBSET armed : TimerTimeout(expired)
    BY <2>6, PhaseSteps
  <2> QED
    BY <1>3, <2>1, <2>2, <2>3, <2>4, <2>5, <2>6 DEF PollStep, QuietPoll
<1>4. CASE PeerStep
  BY <1>4, PeerSteps
<1>5. CASE UNCHANGED vars
  BY <1>5, IInvStuttering
<1> QED
  BY <1>1, <1>2, <1>3, <1>4, <1>5 DEF Next

LEMMA IInvAlways == Spec => []IInv
BY IInvInit, IInvNext, PTL DEF Spec

(* Every variable keeps its type: sockets, stubs and requests that the     *)
(* queues, lists, timers and epoll hold are ones, counts stay in range,    *)
(* and no more results are handed out than the array given to epex_poll    *)
(* has places.                                                             *)
THEOREM TypeCorrect == Spec => []TypeOK
<1>1. IInv => TypeOK
  BY DEF IInv, TypeInv
<1> QED
  BY <1>1, IInvAlways, PTL

(* SOCK_READABLE, SOCK_WRITEABLE and SOCK_ERROR say which lists of the     *)
(* poll loop a stub is in, and no list holds a stub twice, so that         *)
(* DLIST_INSERT_B is never applied to a node that is linked.               *)
THEOREM ListsCorrect == Spec => []ListsMatchStatus
<1>1. IInv => ListsMatchStatus
  BY DEF IInv
<1> QED
  BY <1>1, IInvAlways, PTL

(* The hash table, epoll's registrations and the stubs agree, and neither  *)
(* a fetched event nor a list of the poll loop refers to a freed stub: the *)
(* part of NoDangling that concerns what netstub_clean undoes.             *)
PollSafe == HashAgrees /\ Watched /\ FetchedAlive /\ PollListsAlive
THEOREM NothingFreedIsPolled == Spec => []PollSafe
<1>1. IInv => PollSafe
  BY DEF IInv, EventInv, PollSafe
<1> QED
  BY <1>1, IInvAlways, PTL

-----------------------------------------------------------------------------
(* No lost wake-up.  That a socket without room will wake its stub needs   *)
(* the kernel to have noted that somebody waits for it, if neither epoll   *)
(* nor the stub knows of the socket; and a listening stub may be taken off *)
(* the readable list since epoll has its socket still (level triggered).   *)
Told(st, e) == \E ev \in evts : ev.st = st /\ e \in ev.mask
Hears(s, e) == s \in ready \/ Told(hash[s], e) \/ Told(hash[s], "ERR")

ReadAwake(s) ==
    Readable(s) => \/ Hears(s, "IN") \/ hash[s] \in Range(rlist)
                   \/ sock[s].rx = 0 /\ "CLOSED" \in stub[hash[s]].status
WriteAwake(s) ==
    s \notin ListenSocks /\ sock[s].link = "up"
        => \/ Hears(s, "OUT") \/ hash[s] \in Range(wlist)
           \/ sock[s].room = 0 /\ sock[s].nospace
ErrorAwake(s) == Broken(s) => Hears(s, "ERR")
LevelAwake(s) == s \in ListenSocks /\ Readable(s) => s \in ready

Awake(s) ==
    Open(s) => ReadAwake(s) /\ WriteAwake(s) /\ ErrorAwake(s) /\ LevelAwake(s)

Listens == \A st \in LiveStubs : stub[st].listen <=> stub[st].fd \in ListenSocks

WInv == IInv /\ Listens /\ \A s \in Socks : Awake(s)

LEMMA AwakeIsEnough ==
    ASSUME WInv PROVE NoLostWakeup
<1> SUFFICES ASSUME NEW s \in Socks, Open(s)
             PROVE  /\ Readable(s) =>
                        \/ s \in ready \/ Told(hash[s], "IN") \/ Told(hash[s], "ERR")
                        \/ hash[s] \in Range(rlist)
                        \/ sock[s].rx = 0 /\ "CLOSED" \in stub[hash[s]].status
                    /\ Writeable(s) =>
                        \/ s \in ready \/ Told(hash[s], "OUT") \/ Told(hash[s], "ERR")
                        \/ hash[s] \in Range(wlist)
                    /\ Broken(s) => s \in ready \/ Told(hash[s], "ERR")
  BY DEF NoLostWakeup, Told
<1>1. ReadAwake(s) /\ WriteAwake(s) /\ ErrorAwake(s)
  BY DEF WInv, Awake
<1>2. Writeable(s) => /\ s \notin ListenSocks /\ sock[s].link = "up"
                      /\ sock[s].room # 0
  BY DEF Writeable
<1> QED
  BY <1>1, <1>2 DEF ReadAwake, WriteAwake, ErrorAwake, Hears

(* A step that takes nothing from what is known of an open socket. *)
Keeps(s) ==
    /\ Open(s) /\ hash'[s] = hash[s] /\ sock'[s] = sock[s]
    /\ s \in ready => s \in ready'
    /\ \A ev \in evts : ev.st = hash[s] => ev \in evts'
    /\ hash[s] \in Range(rlist) => hash[s] \in Range(rlist')
    /\ hash[s] \in Range(wlist) => hash[s] \in Range(wlist')
    /\ "CLOSED" \in stub[hash[s]].status => "CLOSED" \in stub'[hash[s]].status

LEMMA StaysAwake ==
    ASSUME NEW s \in Socks, Awake(s), Keeps(s)
    PROVE  Awake(s)'
<1>1. \A e : Told(hash[s], e) => Told(hash[s], e)'
  BY DEF Keeps, Told
<1>2. \A e : Hears(s, e) => Hears(s, e)'
  BY <1>1 DEF Keeps, Hears
<1>3. /\ Readable(s)' <=> Readable(s)
      /\ Broken(s)' <=> Broken(s)
  BY DEF Keeps, Readable, Broken
<1>4. ReadAwake(s) /\ WriteAwake(s) /\ ErrorAwake(s) /\ LevelAwake(s)
  BY DEF Awake, Keeps
<1>5. ReadAwake(s)'
  BY <1>2, <1>3, <1>4 DEF ReadAwake, Keeps
<1>6. WriteAwake(s)'
  BY <1>2, <1>3, <1>4 DEF WriteAwake, Keeps
<1>7. ErrorAwake(s)' /\ LevelAwake(s)'
  BY <1>2, <1>3, <1>4 DEF ErrorAwake, LevelAwake, Keeps
<1> QED
  BY <1>5, <1>6, <1>7 DEF Awake

(* A socket that epoll has on its ready list is awake. *)
LEMMA ReadyAwake ==
    ASSUME NEW s \in Socks, s \in ready'
    PROVE  Awake(s)'
BY DEF Awake, ReadAwake, WriteAwake, ErrorAwake, LevelAwake, Hears

(* What a step at one stub leaves alone. *)
Elsewhere(st, s) ==
    /\ \A r \in Socks \ {s} : /\ hash'[r] = hash[r] /\ sock'[r] = sock[r]
                              /\ r \in ready => r \in ready'
    /\ \A x \in Stubs \ {st} : stub'[x] = stub[x]
    /\ \A ev \in evts : ev.st # st => ev \in evts'
    /\ Range(rlist) \ {st} \subseteq Range(rlist')
    /\ Range(wlist) \ {st} \subseteq Range(wlist')

LEMMA OthersAwake ==
    ASSUME WInv, NEW st \in Stubs, NEW s, Elsewhere(st, s),
           \A r \in Socks : hash[r] = st => r = s, s \in Socks => Awake(s)'
    PROVE  \A r \in Socks : Awake(r)'
<1> SUFFICES ASSUME NEW r \in Socks \ {s}, Open(r)' PROVE Awake(r)'
  BY DEF Awake
<1>1. Awake(r) /\ hash \in [Socks -> Stubs \cup {NULL}]
  BY DEF WInv, IInv, TypeInv, TypeOK, StubTypeOK
<1>2. hash'[r] = hash[r] /\ hash[r] \in Stubs \ {st}
  BY <1>1 DEF Elsewhere, Open
<1>3. Keeps(r)
  BY <1>2 DEF Elsewhere, Keeps, Open, Dying
<1> QED
  BY <1>1, <1>3, StaysAwake

LEMMA ListensStay ==
    ASSUME WInv, NEW st \in Stubs, \A x \in Stubs \ {st} : stub'[x] = stub[x],
           \/ stub'[st].fd = NULL
           \/ stub'[st].fd = stub[st].fd /\ stub'[st].listen = stub[st].listen
           \/ stub'[st].listen <=> stub'[st].fd \in ListenSocks
    PROVE  Listens'
BY DEF WInv, Listens, LiveStubs, Live

(* A live stub is the one of its socket. *)
LEMMA StubOfSock ==
    ASSUME WInv, NEW st \in Stubs, Live(st)
    PROVE  /\ stub[st].fd \in Socks /\ hash[stub[st].fd] = st /\ st # NULL
           /\ \A r \in Socks : hash[r] = st => r = stub[st].fd
<1>1. stub[st] \in StubState
  BY DEF WInv, IInv, TypeInv, TypeOK, StubTypeOK
<1> QED
  BY <1>1, KernelAssumption DEF WInv, IInv, HashAgrees, Live, LiveStubs, StubState

LEMMA Quiet ==
    ASSUME WInv, UNCHANGED <<sock, ready, hash, rlist, wlist, evts>>,
           \A x \in Stubs : /\ stub'[x].fd = stub[x].fd
                           /\ stub'[x].listen = stub[x].listen
                           /\ stub'[x].status = stub[x].status
    PROVE  Listens' /\ \A s \in Socks : Awake(s)'
<1>1. hash \in [Socks -> Stubs \cup {NULL}]
  BY DEF WInv, IInv, TypeInv, TypeOK, StubTypeOK
<1>2. Listens'
  BY DEF WInv, Listens, LiveStubs, Live
<1>3. ASSUME NEW s \in Socks, Open(s)' PROVE Awake(s)'
  <2>1. Open(s) /\ hash[s] \in Stubs
    BY <1>1, <1>3 DEF Open, Dying
  <2> QED
    BY <2>1, StaysAwake DEF WInv, Keeps
<1> QED
  BY <1>2, <1>3 DEF Awake

LEMMA ListsElsewhere ==
    ASSUME WInv, NEW st \in Stubs,
           rlist' \in {rlist, Unlink(rlist, st), Append(rlist, st)},
           wlist' \in {wlist, Unlink(wlist, st), Append(wlist, st)}
    PROVE  /\ Range(rlist) \ {st} \subseteq Range(rlist')
           /\ Range(wlist) \ {st} \subseteq Range(wlist')
<1>1. rlist \in Seq(Stubs) /\ wlist \in Seq(Stubs)
  BY DEF WInv, IInv, TypeInv, TypeOK, ListTypeOK
<1>2. /\ Range(rlist) \subseteq Range(Unlink(rlist, st)) \cup {st}
      /\ Range(wlist) \subseteq Range(Unlink(wlist, st)) \cup {st}
  BY <1>1, UnlinkRange
<1>3. /\ Range(Append(rlist, st)) = Range(rlist) \cup {st}
      /\ Range(Append(wlist, st)) = Range(wlist) \cup {st}
  BY <1>1, AppendRange
<1> QED
  BY <1>2, <1>3

LEMMA StubHasNoOther ==
    ASSUME WInv, NEW st \in Stubs
    PROVE  \A r \in Socks : hash[r] = st => r = stub[st].fd
BY KernelAssumption DEF WInv, IInv, HashAgrees

(* A stub dies: nothing has to wake it any more. *)
LEMMA DeathWakes ==
    ASSUME WInv, NEW st \in Stubs, NEW status \in {"DETACHED", "ERROR", "IDLE"},
           UNCHANGED hash, stub' = [stub EXCEPT ![st].status = {status}],
           NetstubClean(st, stub[st].fd),
           \A r \in Socks \ {stub[st].fd} : sock'[r] = sock[r],
           \A ev \in evts : ev.st # st => ev \in evts'
    PROVE  Listens' /\ \A s \in Socks : Awake(s)'
<1>1. stub \in [Stubs -> StubState] /\ hash \in [Socks -> Stubs \cup {NULL}]
  BY DEF WInv, IInv, TypeInv, TypeOK, StubTypeOK
<1>2. /\ \A x \in Stubs \ {st} : stub'[x] = stub[x]
      /\ stub'[st].fd = stub[st].fd /\ stub'[st].listen = stub[st].listen
      /\ stub'[st].status = {status}
  BY <1>1 DEF StubState
<1>3. Listens'
  BY <1>2, ListensStay
<1> PICK s : s = stub[st].fd
  OBVIOUS
<1>4. Elsewhere(st, s)
  <2>1. /\ Range(rlist) \ {st} \subseteq Range(rlist')
        /\ Range(wlist) \ {st} \subseteq Range(wlist')
    BY ListsElsewhere DEF NetstubClean
  <2>2. \A r \in Socks \ {s} : r \in ready => r \in ready'
    BY DEF NetstubClean, EpollDel
  <2> QED
    BY <1>2, <2>1, <2>2 DEF Elsewhere
<1>5. s \in Socks => Awake(s)'
  <2> SUFFICES ASSUME s \in Socks PROVE ~Open(s)'
    BY DEF Awake
  <2>1. hash'[s] = st
    BY KernelAssumption DEF WInv, IInv, HashAgrees, LiveStubs, Live
  <2> QED
    BY <1>2, <2>1 DEF Open, Dying, Fatal
<1> QED
  BY <1>3, <1>4, <1>5, OthersAwake, StubHasNoOther

LEMMA DetachWakes ==
    ASSUME WInv, NEW s \in Socks,
           \/ Detach(s)
           \/ \E link \in {"none", "connecting", "up"} : ConnectFail(s, link)
    PROVE  Listens' /\ \A r \in Socks : Awake(r)'
<1>1. /\ \A r \in Socks \ {s} : sock'[r] = sock[r]
      /\ hash \in [Socks -> Stubs \cup {NULL}] /\ stub \in [Stubs -> StubState]
      /\ evts' = evts
  <2>1. sock \in [Socks -> SockState]
    BY DEF WInv, IInv, TypeInv, TypeOK, NetTypeOK
  <2>2. /\ hash \in [Socks -> Stubs \cup {NULL}] /\ stub \in [Stubs -> StubState]
        /\ evts' = evts
    BY DEF WInv, IInv, TypeInv, TypeOK, StubTypeOK, Detach, ConnectFail, DetachStub,
           pollVars
  <2>3. CASE Detach(s)
    BY <2>2, <2>3 DEF Detach
  <2>4. CASE \E link \in {"none", "connecting", "up"} : ConnectFail(s, link)
    BY <2>1, <2>2, <2>4 DEF ConnectFail
  <2> QED
    BY <2>3, <2>4
<1>2. CASE DetachStub(s)
  <2> DEFINE st == hash[s]
  <2>1. /\ st \in Stubs /\ stub[st].fd = s
        /\ stub' = [stub EXCEPT ![st].status = {"DETACHED"}]
        /\ NetstubClean(st, s) /\ UNCHANGED hash
    BY <1>1, <1>2 DEF DetachStub, Abandon, Open, WInv, IInv, HashAgrees
  <2> HIDE DEF st
  <2> QED
    BY <1>1, <2>1, DeathWakes
<1>3. ASSUME NEW st \in FreeStubs, hash[s] = NULL,
             hash' = [hash EXCEPT ![s] = st],
             stub' = [stub EXCEPT ![st] = [NewStub(s, FALSE, FALSE)
                                          EXCEPT !.status = {"DETACHED"}]],
             Abandon(st, s, "EDETACHED"), s \notin ListenSocks
      PROVE  Listens' /\ \A r \in Socks : Awake(r)'
  <2> DEFINE new == [NewStub(s, FALSE, FALSE) EXCEPT !.status = {"DETACHED"}]
  <2>1. new.fd = s /\ new.status = {"DETACHED"} /\ new.listen = FALSE
    BY DEF NewStub, FreeStub
  <2>2. stub' = [stub EXCEPT ![st] = new]
    BY <1>3
  <2> HIDE DEF new
  <2>3. /\ st \in Stubs /\ stub'[st] = new /\ \A x \in Stubs \ {st} : stub'[x] = stub[x]
        /\ stub[st].fd = NULL
    BY <1>1, <2>2 DEF FreeStubs, Live
  <2>4. Listens'
    BY <1>3, <2>1, <2>3, ListensStay
  <2>5. Elsewhere(st, s)
    <3>1. /\ Range(rlist) \ {st} \subseteq Range(rlist')
          /\ Range(wlist) \ {st} \subseteq Range(wlist')
      BY <1>3, <2>3, ListsElsewhere DEF Abandon, NetstubClean
    <3>2. \A r \in Socks \ {s} : r \in ready => r \in ready'
      BY <1>3 DEF Abandon, NetstubClean, EpollDel
    <3> QED
      BY <1>1, <1>3, <2>3, <3>1, <3>2 DEF Elsewhere
  <2>6. \A r \in Socks : hash[r] # st
    BY <2>3, StubHasNoOther, KernelAssumption
  <2>7. Awake(s)'
    BY <1>1, <1>3, <2>1, <2>3 DEF Awake, Open, Dying, Fatal
  <2> QED
    BY <2>3, <2>4, <2>5, <2>6, <2>7, OthersAwake
<1> QED
  BY <1>2, <1>3 DEF Detach, ConnectFail

LEMMA BreakWakes ==
    ASSUME WInv, NEW st \in Stubs,
           \/ ReadError(st) \/ WriteError(st) \/ TimerSock(st)
           \/ \E e \in evts : e.st = st /\ EventError(e)
    PROVE  Listens' /\ \A s \in Socks : Awake(s)'
<1>1. \E status \in {"ERROR", "IDLE"} : stub' = [stub EXCEPT ![st].status = {status}]
  BY DEF ReadError, WriteError, TimerSock, EventError, DoWithError
<1>2. NetstubClean(st, stub[st].fd) /\ UNCHANGED <<hash, sock>>
  BY DEF ReadError, WriteError, TimerSock, EventError, DoWithError, Abandon
<1>3. \A ev \in evts : ev.st # st => ev \in evts'
  BY DEF ReadError, WriteError, TimerSock, EventError, NextReadable, NextWriteable,
         pollVars
<1> QED
  BY <1>1, <1>2, <1>3, DeathWakes

LEMMA NotifyWakes ==
    ASSUME WInv, NEW st \in Stubs, FillNotify(st)
    PROVE  Listens' /\ \A s \in Socks : Awake(s)'
<1>1. stub \in [Stubs -> StubState] /\ hash \in [Socks -> Stubs \cup {NULL}]
  BY DEF WInv, IInv, TypeInv, TypeOK, StubTypeOK
<1>2. /\ stub' = [stub EXCEPT ![st] = FreeStub]
      /\ hash' = [hash EXCEPT ![stub[st].fd] = NULL]
      /\ rlist' = Unlink(rlist, st) /\ wlist' = Unlink(wlist, st)
      /\ UNCHANGED <<sock, ready, evts>>
  BY DEF FillNotify, netVars
<1>3. stub'[st].fd = NULL /\ \A x \in Stubs \ {st} : stub'[x] = stub[x]
  BY <1>1, <1>2 DEF FreeStub
<1> PICK s : s = stub[st].fd
  OBVIOUS
<1>4. Elsewhere(st, s)
  <2>1. /\ Range(rlist) \ {st} \subseteq Range(rlist')
        /\ Range(wlist) \ {st} \subseteq Range(wlist')
    BY <1>2, ListsElsewhere
  <2>2. \A r \in Socks \ {s} : hash'[r] = hash[r]
    BY <1>1, <1>2
  <2> QED
    BY <1>2, <1>3, <2>1, <2>2 DEF Elsewhere
<1>5. s \in Socks => Awake(s)'
  <2> SUFFICES ASSUME s \in Socks PROVE ~Open(s)'
    BY DEF Awake
  <2>1. hash'[s] = NULL
    BY <1>1, <1>2
  <2> QED
    BY <2>1 DEF Open
<1>6. Listens'
  BY <1>3, ListensStay
<1> QED
  BY <1>4, <1>5, <1>6, OthersAwake, StubHasNoOther

LEMMA SameHearing ==
    ASSUME NEW s, UNCHANGED <<hash, ready, evts>>
    PROVE  \A e : Hears(s, e)' <=> Hears(s, e)
<1> SUFFICES ASSUME NEW e PROVE Hears(s, e)' <=> Hears(s, e)
  OBVIOUS
<1>1. /\ Told(hash[s], e)' <=> Told(hash[s], e)
      /\ Told(hash[s], "ERR")' <=> Told(hash[s], "ERR")
  BY DEF Told
<1> QED
  BY <1>1 DEF Hears

(* One stub of the loop over the readable or the writeable ones. *)
LEMMA AtStub ==
    ASSUME WInv, NEW st \in Stubs, NEW s, s = stub[st].fd,
           UNCHANGED <<hash, ready, evts>>,
           \A r \in Socks \ {s} : sock'[r] = sock[r],
           \A x \in Stubs \ {st} : stub'[x] = stub[x],
           stub'[st].fd = s /\ stub'[st].listen = stub[st].listen,
           rlist' \in {rlist, Unlink(rlist, st), Append(rlist, st)},
           wlist' \in {wlist, Unlink(wlist, st), Append(wlist, st)},
           s \in Socks => Awake(s)'
    PROVE  Listens' /\ \A r \in Socks : Awake(r)'
<1>1. Elsewhere(st, s)
  BY ListsElsewhere DEF Elsewhere
<1> QED
  BY <1>1, OthersAwake, StubHasNoOther, ListensStay

LEMMA ReadAgainWakes ==
    ASSUME WInv, NEW st \in Stubs, ReadListen(st) \/ ReadEagain(st) \/ ReadEof(st)
    PROVE  Listens' /\ \A s \in Socks : Awake(s)'
<1>1. /\ stub \in [Stubs -> StubState] /\ sock \in [Socks -> SockState]
      /\ TypeInv /\ TodoAlive
  BY DEF WInv, IInv, TypeInv, TypeOK, StubTypeOK, NetTypeOK
<1>2. /\ pc = "read" /\ todo # <<>> /\ st = Head(todo)
      /\ UNCHANGED <<sock, reg, hash, ready, evts, wlist>> /\ rlist' = Unlink(rlist, st)
  BY DEF ReadListen, ReadEagain, ReadEof, CallsRead, Reading, NextReadable, netVars
<1>3. PICK closed \in {{}, {"CLOSED"}} :
        /\ stub' = [stub EXCEPT ![st].status = (stub[st].status \ {"READABLE"}) \cup closed]
        /\ ReadEof(st) => closed = {"CLOSED"}
  <2>1. CASE ReadEof(st)
    BY <2>1 DEF ReadEof
  <2>2. CASE ~ReadEof(st)
    <3>1. stub' = [stub EXCEPT ![st].status = (stub[st].status \ {"READABLE"}) \cup {}]
      BY <2>2 DEF ReadListen, ReadEagain
    <3> QED
      BY <2>2, <3>1
  <2> QED
    BY <2>1, <2>2
<1>4. /\ \A x \in Stubs \ {st} : stub'[x] = stub[x]
      /\ stub'[st].fd = stub[st].fd /\ stub'[st].listen = stub[st].listen
      /\ stub'[st].status = (stub[st].status \ {"READABLE"}) \cup closed
  BY <1>1, <1>3 DEF StubState
<1> PICK s : s = stub[st].fd
  OBVIOUS
<1>5. Live(st) /\ s \in Socks /\ hash[s] = st
  BY <1>1, <1>2, VisitedLive, StubOfSock
<1>6. ASSUME Open(s)' PROVE Awake(s)'
  <2>1. Open(s)
    BY <1>2, <1>4, <1>5, <1>6 DEF Open, Dying, Fatal
  <2>2. \A e : Hears(s, e)' <=> Hears(s, e)
    BY <1>2, SameHearing
  <2>3. ReadAwake(s) /\ WriteAwake(s) /\ ErrorAwake(s) /\ LevelAwake(s)
    BY <1>5, <2>1 DEF WInv, Awake
  <2>4. WriteAwake(s)' /\ ErrorAwake(s)' /\ LevelAwake(s)'
    BY <1>2, <2>2, <2>3 DEF WriteAwake, ErrorAwake, LevelAwake, Readable, Broken
  <2>5. ReadAwake(s)'
    <3>1. CASE ReadListen(st)
      <4>1. s \in ListenSocks
        BY <1>5, <3>1 DEF ReadListen, WInv, Listens, LiveStubs
      <4> QED
        BY <2>4, <4>1 DEF ReadAwake, LevelAwake, Hears
    <3>2. CASE ReadEagain(st)
      <4>1. sock[s].rx = 0 /\ ~sock[s].eof
        BY <3>2 DEF ReadEagain
      <4>2. ~Readable(s)'
        BY <1>2, <4>1 DEF Readable
      <4> QED
        BY <4>2 DEF ReadAwake
    <3>3. CASE ReadEof(st)
      <4>1. sock'[s].rx = 0
        BY <1>2, <3>3 DEF ReadEof
      <4>2. "CLOSED" \in stub'[hash'[s]].status
        BY <1>2, <1>3, <1>4, <1>5, <3>3
      <4> QED
        BY <4>1, <4>2 DEF ReadAwake
    <3> QED
      BY <3>1, <3>2, <3>3
  <2> QED
    BY <2>4, <2>5 DEF Awake
<1>7. Awake(s)'
  BY <1>6 DEF Awake
<1> QED
  BY <1>2, <1>4, <1>7, AtStub

LEMMA WriteAgainWakes ==
    ASSUME WInv, NEW st \in Stubs, WriteEagain(st)
    PROVE  Listens' /\ \A s \in Socks : Awake(s)'
<1>1. /\ stub \in [Stubs -> StubState] /\ sock \in [Socks -> SockState]
      /\ TypeInv /\ TodoAlive
  BY DEF WInv, IInv, TypeInv, TypeOK, StubTypeOK, NetTypeOK
<1> PICK s : s = stub[st].fd
  OBVIOUS
<1>2. /\ pc = "write" /\ todo # <<>> /\ st = Head(todo)
      /\ UNCHANGED <<reg, hash, ready, evts, rlist>> /\ wlist' = Unlink(wlist, st)
      /\ ~Writeable(s)
      /\ sock' = [sock EXCEPT ![s].nospace = TRUE]
      /\ stub' = [stub EXCEPT ![st].status = stub[st].status \ {"WRITEABLE"}]
  BY DEF WriteEagain, CallsWrite, Writing, NextWriteable
<1>3. Live(st) /\ s \in Socks /\ hash[s] = st
  BY <1>1, <1>2, VisitedLive, StubOfSock
<1>4. /\ \A x \in Stubs \ {st} : stub'[x] = stub[x]
      /\ stub'[st].fd = s /\ stub'[st].listen = stub[st].listen
      /\ stub'[st].status = stub[st].status \ {"WRITEABLE"}
  BY <1>1, <1>2 DEF StubState
<1>5. /\ \A r \in Socks \ {s} : sock'[r] = sock[r]
      /\ sock'[s].nospace = TRUE /\ sock'[s].link = sock[s].link
      /\ sock'[s].rx = sock[s].rx /\ sock'[s].eof = sock[s].eof
      /\ sock'[s].err = sock[s].err /\ sock'[s].room = sock[s].room
      /\ sock[s].room \in 0..TxCap
  BY <1>1, <1>2, <1>3 DEF SockState
<1>6. ASSUME Open(s)' PROVE Awake(s)'
  <2>1. Open(s)
    BY <1>2, <1>3, <1>4, <1>6 DEF Open, Dying, Fatal
  <2>2. \A e : Hears(s, e)' <=> Hears(s, e)
    BY <1>2, SameHearing
  <2>3. ReadAwake(s) /\ WriteAwake(s) /\ ErrorAwake(s) /\ LevelAwake(s)
    BY <1>3, <2>1 DEF WInv, Awake
  <2>4. /\ Readable(s)' <=> Readable(s)
        /\ Broken(s)' <=> Broken(s)
    BY <1>5 DEF Readable, Broken
  <2>5. ErrorAwake(s)' /\ LevelAwake(s)'
    BY <1>2, <2>2, <2>3, <2>4 DEF ErrorAwake, LevelAwake
  <2>6. ReadAwake(s)'
    BY <1>2, <1>3, <1>4, <1>5, <2>2, <2>3, <2>4 DEF ReadAwake
  <2>7. WriteAwake(s)'
    <3>1. s \notin ListenSocks /\ sock[s].link = "up" => sock[s].room = 0
      BY <1>2, <1>5 DEF Writeable
    <3> QED
      BY <1>5, <3>1 DEF WriteAwake
  <2> QED
    BY <2>5, <2>6, <2>7 DEF Awake
<1>7. Awake(s)'
  BY <1>6 DEF Awake
<1> QED
  BY <1>2, <1>4, <1>5, <1>7, AtStub

LEMMA EventWakes ==
    ASSUME WInv, NEW e \in evts, EventReady(e)
    PROVE  Listens' /\ \A s \in Socks : Awake(s)'
<1>1. /\ stub \in [Stubs -> StubState] /\ TypeInv /\ EventInv /\ ListsMatchStatus
      /\ e.st \in Stubs /\ e.mask \subseteq {"IN", "OUT", "ERR"}
      /\ rlist \in Seq(Stubs) /\ wlist \in Seq(Stubs)
  BY DEF WInv, IInv, TypeInv, TypeOK, StubTypeOK, PollTypeOK, ListTypeOK
<1> PICK st \in Stubs : st = e.st
  BY <1>1
<1> PICK s : s = stub[st].fd
  OBVIOUS
<1> DEFINE new == EventFlags(e.mask) \ stub[e.st].status
<1>2. /\ stub' = [stub EXCEPT ![st].status = stub[st].status \cup new]
      /\ rlist' = IF "READABLE" \in new THEN Append(rlist, st) ELSE rlist
      /\ wlist' = IF "WRITEABLE" \in new THEN Append(wlist, st) ELSE wlist
      /\ evts' = evts \ {e} /\ "ERR" \notin e.mask
      /\ UNCHANGED <<sock, ready, reg, hash>>
  BY DEF EventReady, netVars
<1>3. /\ "IN" \in e.mask => "READABLE" \in new \/ "READABLE" \in stub[st].status
      /\ "OUT" \in e.mask => "WRITEABLE" \in new \/ "WRITEABLE" \in stub[st].status
      /\ new \cap Fatal = {}
  BY DEF EventFlags, Fatal
<1> HIDE DEF new
<1>4. /\ \A x \in Stubs \ {st} : stub'[x] = stub[x]
      /\ stub'[st].fd = s /\ stub'[st].listen = stub[st].listen
      /\ stub'[st].status = stub[st].status \cup new
  BY <1>1, <1>2 DEF StubState
<1>5. Live(st) /\ s \in Socks /\ hash[s] = st
  BY <1>1, StubOfSock DEF EventInv, FetchedAlive
<1>6. /\ "IN" \in e.mask => st \in Range(rlist')
      /\ "OUT" \in e.mask => st \in Range(wlist')
      /\ Range(rlist) \subseteq Range(rlist') /\ Range(wlist) \subseteq Range(wlist')
  <2>1. /\ Range(Append(rlist, st)) = Range(rlist) \cup {st}
        /\ Range(Append(wlist, st)) = Range(wlist) \cup {st}
    BY <1>1, AppendRange
  <2>2. /\ "READABLE" \in stub[st].status => st \in Range(rlist)
        /\ "WRITEABLE" \in stub[st].status => st \in Range(wlist)
    BY <1>1 DEF ListsMatchStatus
  <2> QED
    BY <1>2, <1>3, <2>1, <2>2
<1>7. Elsewhere(st, s)
  BY <1>2, <1>4, <1>6 DEF Elsewhere
<1>8. ASSUME Open(s)' PROVE Awake(s)'
  <2>1. Open(s)
    BY <1>2, <1>3, <1>4, <1>5, <1>8 DEF Open, Dying
  <2>2. ReadAwake(s) /\ WriteAwake(s) /\ ErrorAwake(s) /\ LevelAwake(s)
    BY <1>5, <2>1 DEF WInv, Awake
  <2>3. /\ Hears(s, "IN") => Hears(s, "IN")' \/ st \in Range(rlist')
        /\ Hears(s, "OUT") => Hears(s, "OUT")' \/ st \in Range(wlist')
        /\ Hears(s, "ERR") => Hears(s, "ERR")'
    <3>1. /\ Told(st, "IN") => Told(st, "IN")' \/ "IN" \in e.mask
          /\ Told(st, "OUT") => Told(st, "OUT")' \/ "OUT" \in e.mask
          /\ Told(st, "ERR") => Told(st, "ERR")'
      BY <1>2 DEF Told
    <3> QED
      BY <1>2, <1>5, <1>6, <3>1 DEF Hears
  <2>4. ReadAwake(s)'
    BY <1>2, <1>4, <1>5, <1>6, <2>2, <2>3 DEF ReadAwake, Readable
  <2>5. WriteAwake(s)'
    BY <1>2, <1>5, <1>6, <2>2, <2>3 DEF WriteAwake
  <2>6. ErrorAwake(s)' /\ LevelAwake(s)'
    BY <1>2, <2>2, <2>3 DEF ErrorAwake, LevelAwake, Readable, Broken
  <2> QED
    BY <2>4, <2>5, <2>6 DEF Awake
<1>9. Awake(s)'
  BY <1>8 DEF Awake
<1> QED
  BY <1>4, <1>7, <1>9, OthersAwake, StubHasNoOther, ListensStay

(* Bytes are taken from one socket, or given to it.                        *)
LEMMA DataWakes ==
    ASSUME WInv, NEW st \in Stubs, ReadData(st) \/ WriteData(st)
    PROVE  Listens' /\ \A s \in Socks : Awake(s)'
<1>1. /\ sock \in [Socks -> SockState] /\ TypeInv /\ TodoAlive
      /\ task \in [Tasks -> TaskState]
  BY DEF WInv, IInv, TypeInv, TypeOK, TaskTypeOK, NetTypeOK
<1> PICK s : s = stub[st].fd
  OBVIOUS
<1>2. /\ pc \in {"read", "write"} /\ todo # <<>> /\ st = Head(todo)
      /\ UNCHANGED <<reg, ready, hash, stub, rlist, wlist, evts>>
  BY DEF ReadData, WriteData, CallsRead, CallsWrite, Reading, Writing, pollVars
<1>3. Live(st) /\ s \in Socks /\ hash[s] = st
  BY <1>1, <1>2, VisitedLive, StubOfSock
<1>4. \E n : \/ /\ sock' = [sock EXCEPT ![s].rx = sock[s].rx - n]
                /\ sock[s].rx > 0 /\ "CLOSED" \notin stub[st].status
             \/ /\ sock' = [sock EXCEPT ![s].room = sock[s].room - n]
                /\ sock[s].room > 0 /\ sock[s].link = "up"
  BY DEF ReadData, WriteData, CallsRead
<1>5. PICK n : \/ /\ sock' = [sock EXCEPT ![s].rx = sock[s].rx - n]
                  /\ sock[s].rx > 0 /\ "CLOSED" \notin stub[st].status
               \/ /\ sock' = [sock EXCEPT ![s].room = sock[s].room - n]
                  /\ sock[s].room > 0 /\ sock[s].link = "up"
  BY <1>4
<1>6. /\ \A r \in Socks \ {s} : sock'[r] = sock[r]
      /\ sock'[s].link = sock[s].link /\ sock'[s].eof = sock[s].eof
      /\ sock'[s].err = sock[s].err
      /\ sock[s].rx > 0 \/ sock'[s].rx = sock[s].rx
      /\ (sock[s].room > 0 /\ sock[s].link = "up") \/ sock'[s].room = sock[s].room
      /\ sock'[s].nospace = sock[s].nospace
      /\ sock[s].rx \in Nat /\ sock[s].room \in Nat
  BY <1>1, <1>3, <1>5 DEF SockState
<1>7. ASSUME Open(s) PROVE Awake(s)'
  <2>1. ReadAwake(s) /\ WriteAwake(s) /\ ErrorAwake(s) /\ LevelAwake(s)
    BY <1>3, <1>7 DEF WInv, Awake
  <2>2. \A e : Hears(s, e)' <=> Hears(s, e)
    BY <1>2, SameHearing
  <2>3. Broken(s)' <=> Broken(s)
    BY <1>6 DEF Broken
  <2>4. Readable(s)' => Readable(s)
    BY <1>6 DEF Readable
  <2>5. ErrorAwake(s)' /\ LevelAwake(s)'
    BY <1>2, <2>1, <2>2, <2>3, <2>4 DEF ErrorAwake, LevelAwake
  <2>6. ReadAwake(s)'
    BY <1>2, <1>3, <1>6, <2>1, <2>2, <2>4 DEF ReadAwake
  <2>7. WriteAwake(s)'
    BY <1>2, <1>3, <1>6, <2>1, <2>2 DEF WriteAwake
  <2> QED
    BY <2>5, <2>6, <2>7 DEF Awake
<1>8. Awake(s)'
  BY <1>2, <1>7 DEF Awake, Open, Dying
<1> QED
  BY <1>2, <1>6, <1>8, AtStub

LEMMA AttachWakes ==
    ASSUME WInv, NEW s \in Socks, NEW timed \in BOOLEAN, Attach(s, timed) \/ Listen(s)
    PROVE  Listens' /\ \A r \in Socks : Awake(r)'
<1>1. /\ stub \in [Stubs -> StubState] /\ sock \in [Socks -> SockState]
      /\ hash \in [Socks -> Stubs \cup {NULL}]
  BY DEF WInv, IInv, TypeInv, TypeOK, StubTypeOK, NetTypeOK
<1>2. PICK st \in FreeStubs, new \in {NewStub(s, FALSE, timed), NewStub(s, TRUE, FALSE)} :
        /\ hash' = [hash EXCEPT ![s] = st]
        /\ stub' = [stub EXCEPT ![st] = new]
        /\ new.listen <=> s \in ListenSocks
        /\ EpollAdd(s, st)
  <2>1. /\ NewStub(s, FALSE, timed).listen = FALSE
        /\ NewStub(s, TRUE, FALSE).listen = TRUE
    BY DEF NewStub, FreeStub
  <2> QED
    BY <2>1 DEF Attach, Listen
<1>3. new.fd = s /\ new.status = {}
  BY DEF NewStub, FreeStub
<1>4. UNCHANGED <<rlist, wlist, evts>>
  BY DEF Attach, Listen, listVars, pollVars
<1>5. /\ st \in Stubs /\ stub[st].fd = NULL /\ stub'[st] = new
      /\ \A x \in Stubs \ {st} : stub'[x] = stub[x]
  BY <1>1, <1>2 DEF FreeStubs, Live
<1>6. Listens'
  BY <1>2, <1>3, <1>5, ListensStay
<1>7. Elsewhere(st, s)
  <2>1. \A r \in Socks \ {s} : sock'[r] = sock[r] /\ (r \in ready => r \in ready')
    BY <1>2 DEF EpollAdd, LookedAt
  <2> QED
    BY <1>1, <1>2, <1>4, <1>5, <2>1 DEF Elsewhere
<1>8. \A r \in Socks : hash[r] # st
  BY <1>5, StubHasNoOther, KernelAssumption
<1>9. Awake(s)'
  <2>1. CASE s \in ready'
    BY <2>1, ReadyAwake
  <2>2. CASE s \notin ready'
    <3>1. Mask(s) = {}
      BY <1>2, <2>2 DEF EpollAdd
    <3>2. ~Readable(s) /\ ~Writeable(s) /\ ~Broken(s)
      BY <3>1 DEF Mask
    <3>3. /\ sock'[s].rx = sock[s].rx /\ sock'[s].eof = sock[s].eof
          /\ sock'[s].err = sock[s].err /\ sock'[s].link = sock[s].link
          /\ sock'[s].room = sock[s].room /\ sock[s].room \in 0..TxCap
          /\ s \notin ListenSocks /\ sock[s].link = "up" => sock'[s].nospace = TRUE
      BY <1>1, <1>2, <3>2 DEF EpollAdd, LookedAt, SockState
    <3>4. ~Readable(s)' /\ ~Broken(s)'
      BY <3>2, <3>3 DEF Readable, Broken
    <3>5. WriteAwake(s)'
      <4>1. s \notin ListenSocks /\ sock[s].link = "up" => sock[s].room = 0
        BY <3>2, <3>3 DEF Writeable
      <4> QED
        BY <3>3, <4>1 DEF WriteAwake
    <3> QED
      BY <3>4, <3>5 DEF Awake, ReadAwake, ErrorAwake, LevelAwake
  <2> QED
    BY <2>1, <2>2
<1> QED
  BY <1>5, <1>6, <1>7, <1>8, <1>9, OthersAwake

LEMMA ConnectWakes ==
    ASSUME WInv, NEW s \in Socks, NEW timed \in IdleTimers,
           NEW link \in {"connecting", "up"}, Connect(s, timed, link)
    PROVE  Listens' /\ \A r \in Socks : Awake(r)'
<1>1. /\ stub \in [Stubs -> StubState] /\ sock \in [Socks -> SockState]
      /\ hash \in [Socks -> Stubs \cup {NULL}] /\ wlist \in Seq(Stubs)
  BY DEF WInv, IInv, TypeInv, TypeOK, StubTypeOK, NetTypeOK, ListTypeOK
<1>2. PICK st \in (IF hash[s] = NULL THEN FreeStubs ELSE {hash[s]}) :
        /\ hash' = [hash EXCEPT ![s] = st]
        /\ LET attached == IF hash[s] = NULL THEN NewStub(s, FALSE, timed)
                                             ELSE stub[st]
           IN stub' = [stub EXCEPT ![st] =
                IF link = "up" THEN [attached EXCEPT !.status = @ \cup {"WRITEABLE"}]
                               ELSE attached]
        /\ wlist' = IF link = "up" THEN Append(wlist, st) ELSE wlist
        /\ sock' = [sock EXCEPT ![s].link = link]
        /\ ready' = ready \cup {s}
  BY DEF Connect
<1>3. /\ UNCHANGED <<rlist, evts>> /\ s \notin ListenSocks
      /\ hash[s] # NULL => hash[s] \in Stubs /\ stub[hash[s]].fd = s
  BY <1>1 DEF Connect, pollVars, WInv, IInv, HashAgrees
<1>4. /\ st \in Stubs /\ \A x \in Stubs \ {st} : stub'[x] = stub[x]
      /\ \A r \in Socks : hash[r] = st => r = s
  <2>1. st \in Stubs
    BY <1>2, <1>3 DEF FreeStubs
  <2>2. \A x \in Stubs \ {st} : stub'[x] = stub[x]
    BY <1>1, <1>2, <2>1
  <2>3. hash[s] = NULL => stub[st].fd = NULL
    BY <1>2 DEF FreeStubs, Live
  <2>4. \A r \in Socks : hash[r] = st => r = stub[st].fd
    BY <2>1, StubHasNoOther
  <2> QED
    BY <1>2, <1>3, <2>1, <2>2, <2>3, <2>4, KernelAssumption
<1>5. stub'[st].fd = s /\ stub'[st].listen = FALSE
  <2>1. CASE hash[s] = NULL
    <3> DEFINE attached == NewStub(s, FALSE, timed)
               new == IF link = "up" THEN [attached EXCEPT !.status = @ \cup {"WRITEABLE"}]
                                     ELSE attached
    <3>1. stub' = [stub EXCEPT ![st] = new]
      BY <1>2, <2>1
    <3>2. new.fd = s /\ new.listen = FALSE
      BY DEF NewStub, FreeStub
    <3> HIDE DEF new
    <3> QED
      BY <1>1, <1>4, <3>1, <3>2
  <2>2. CASE hash[s] # NULL
    <3>1. /\ stub[st] \in StubState /\ stub[st].fd = s /\ st = hash[s]
          /\ \/ stub'[st] = stub[st]
             \/ stub'[st] = [stub[st] EXCEPT !.status = stub[st].status \cup {"WRITEABLE"}]
      BY <1>1, <1>2, <1>3, <1>4, <2>2
    <3>2. stub[st].listen = FALSE
      BY <1>3, <1>4, <3>1, KernelAssumption
         DEF WInv, Listens, LiveStubs, Live, StubState
    <3> QED
      BY <3>1, <3>2 DEF StubState
  <2> QED
    BY <2>1, <2>2
<1>6. Listens'
  BY <1>3, <1>4, <1>5, ListensStay
<1>7. Elsewhere(st, s)
  <2>1. /\ Range(rlist) \ {st} \subseteq Range(rlist')
        /\ Range(wlist) \ {st} \subseteq Range(wlist')
    BY <1>2, <1>3, <1>4, ListsElsewhere
  <2>2. \A r \in Socks \ {s} : hash'[r] = hash[r] /\ sock'[r] = sock[r]
    BY <1>1, <1>2
  <2> QED
    BY <1>2, <1>3, <1>4, <2>1, <2>2 DEF Elsewhere
<1>8. Awake(s)'
  BY <1>2, ReadyAwake
<1> QED
  BY <1>4, <1>6, <1>7, <1>8, OthersAwake

(* One socket changes outside the library. *)
LEMMA SockWakes ==
    ASSUME WInv, NEW s \in Socks, UNCHANGED <<hash, stub, rlist, wlist, evts>>,
           ready \subseteq ready', \A r \in Socks \ {s} : sock'[r] = sock[r],
           Open(s) => Awake(s)'
    PROVE  Listens' /\ \A r \in Socks : Awake(r)'
<1>1. Listens'
  BY DEF WInv, Listens, LiveStubs, Live
<1>2. \A r \in Socks : Open(r)' <=> Open(r)
  BY DEF Open, Dying
<1>3. ASSUME NEW r \in Socks \ {s}, Open(r) PROVE Awake(r)'
  BY <1>3, StaysAwake DEF WInv, Keeps
<1> QED
  BY <1>1, <1>2, <1>3 DEF Awake

LEMMA AcceptWakes ==
    ASSUME WInv, NEW s \in Socks, Accept(s)
    PROVE  Listens' /\ \A r \in Socks : Awake(r)'
<1>1. sock \in [Socks -> SockState]
  BY DEF WInv, IInv, TypeInv, TypeOK, NetTypeOK
<1>2. /\ s \in ListenSocks /\ sock[s].rx > 0
      /\ sock' = [sock EXCEPT ![s].rx = @ - 1]
      /\ UNCHANGED <<reg, ready, hash, stub, rlist, wlist, evts>>
  BY DEF Accept, listVars, pollVars
<1>3. \A r \in Socks \ {s} : sock'[r] = sock[r]
  BY <1>1, <1>2
<1>4. ASSUME Open(s) PROVE s \in ready'
  BY <1>2, <1>4 DEF WInv, Awake, LevelAwake, Readable
<1> QED
  BY <1>2, <1>3, <1>4, ReadyAwake, SockWakes

LEMMA ReopenWakes ==
    ASSUME WInv, NEW s \in Socks, NEW fresh, Reopen(s, fresh)
    PROVE  Listens' /\ \A r \in Socks : Awake(r)'
<1>1. sock \in [Socks -> SockState]
  BY DEF WInv, IInv, TypeInv, TypeOK, NetTypeOK
<1>2. /\ ~Open(s) /\ sock' = [sock EXCEPT ![s] = fresh]
      /\ UNCHANGED <<reg, ready, hash, stub, rlist, wlist, evts>>
  BY DEF Reopen, listVars, pollVars
<1> QED
  BY <1>1, <1>2, SockWakes

LEMMA PeerWakes ==
    ASSUME WInv, PeerStep
    PROVE  Listens' /\ \A s \in Socks : Awake(s)'
<1>1. sock \in [Socks -> SockState]
  BY DEF WInv, IInv, TypeInv, TypeOK, NetTypeOK
<1> PICK s \in Socks :
      Peer(s) /\ UNCHANGED <<hash, stub, queueVars, task, listVars, timerVars, pollVars>>
  BY DEF PeerStep
<1>2. /\ UNCHANGED <<hash, stub, rlist, wlist, evts>> /\ ready \subseteq ready'
      /\ \A r \in Socks \ {s} : sock'[r] = sock[r]
  BY <1>1 DEF Peer, PeerSend, PeerClose, PeerReset, PeerAccept, PeerDrain, Wake,
              listVars, pollVars
<1>3. ASSUME Open(s) PROVE Awake(s)'
  <2>1. reg[s] # NULL
    BY <1>3 DEF WInv, IInv, Watched, Open
  <2>2. CASE PeerSend(s) \/ PeerClose(s) \/ PeerReset(s) \/ PeerAccept(s)
    <3>1. s \in ready'
      BY <2>1, <2>2 DEF PeerSend, PeerClose, PeerReset, PeerAccept, Wake
    <3> QED
      BY <3>1, ReadyAwake
  <2>3. CASE PeerDrain(s)
    <3>1. CASE sock[s].nospace
      <4>1. s \in ready'
        BY <2>1, <2>3, <3>1 DEF PeerDrain, Wake
      <4> QED
        BY <4>1, ReadyAwake
    <3>2. CASE ~sock[s].nospace
      <4>1. /\ UNCHANGED <<ready, hash, evts, stub>>
            /\ sock[s].link = "up" /\ sock[s].room < TxCap
            /\ sock' = [sock EXCEPT ![s].room = @ + 1, ![s].nospace = FALSE]
        BY <1>2, <2>3, <3>2 DEF PeerDrain
      <4>2. /\ sock'[s].link = sock[s].link /\ sock'[s].rx = sock[s].rx
            /\ sock'[s].eof = sock[s].eof /\ sock'[s].err = sock[s].err
        BY <1>1, <4>1 DEF SockState
      <4>3. ReadAwake(s) /\ WriteAwake(s) /\ ErrorAwake(s) /\ LevelAwake(s)
        BY <1>3 DEF WInv, Awake
      <4>4. \A e : Hears(s, e)' <=> Hears(s, e)
        BY <4>1, SameHearing
      <4>5. (Readable(s)' <=> Readable(s)) /\ (Broken(s)' <=> Broken(s))
        BY <4>2 DEF Readable, Broken
      <4>6. ReadAwake(s)' /\ ErrorAwake(s)' /\ LevelAwake(s)'
        BY <1>2, <4>1, <4>2, <4>3, <4>4, <4>5 DEF ReadAwake, ErrorAwake, LevelAwake
      <4>7. WriteAwake(s)'
        BY <1>2, <3>2, <4>1, <4>2, <4>3, <4>4 DEF WriteAwake
      <4> QED
        BY <4>6, <4>7 DEF Awake
    <3> QED
      BY <3>1, <3>2
  <2> QED
    BY <2>2, <2>3 DEF Peer
<1> QED
  BY <1>2, <1>3, SockWakes

(* epoll_wait: what a socket on the ready list has to tell is fetched or   *)
(* stays on the list; one that has nothing to tell is noted as waited for. *)
LEMMA PollStartWakes ==
    ASSUME WInv, NEW size \in PollSizes, NEW S \in Batches, PollStart(size, S)
    PROVE  Listens' /\ \A s \in Socks : Awake(s)'
<1>1. sock \in [Socks -> SockState] /\ Watched /\ EventInv
  BY DEF WInv, IInv, TypeInv, TypeOK, NetTypeOK
<1>2. /\ UNCHANGED <<reg, hash, stub, rlist, wlist>> /\ evts = {}
      /\ sock' = LookedAt(ready)
      /\ ready' = (Reportable \ S) \cup (S \cap ListenSocks)
      /\ evts' = {[st |-> reg[s], mask |-> Mask(s)] : s \in S}
  BY <1>1 DEF PollStart, EpollWait, listVars, EventInv
<1>3. Listens'
  BY <1>2 DEF WInv, Listens, LiveStubs, Live
<1>4. ASSUME NEW s \in Socks, Open(s)' PROVE Awake(s)'
  <2>1. Open(s) /\ reg[s] = hash[s]
    BY <1>1, <1>2, <1>4 DEF Open, Dying, Watched
  <2>2. ReadAwake(s) /\ WriteAwake(s) /\ ErrorAwake(s) /\ LevelAwake(s)
    BY <2>1 DEF WInv, Awake
  <2>3. /\ sock'[s].link = sock[s].link /\ sock'[s].rx = sock[s].rx
        /\ sock'[s].eof = sock[s].eof /\ sock'[s].err = sock[s].err
        /\ sock'[s].room = sock[s].room /\ sock[s].room \in 0..TxCap
        /\ sock[s].nospace => sock'[s].nospace
        /\ s \in ready \ ListenSocks /\ sock[s].link = "up" /\ ~Writeable(s)
            => sock'[s].nospace = TRUE
    BY <1>1, <1>2 DEF LookedAt, SockState
  <2>4. (Readable(s)' <=> Readable(s)) /\ (Broken(s)' <=> Broken(s))
    BY <2>3 DEF Readable, Broken
  <2>5. ASSUME s \notin ready PROVE Awake(s)'
    <3>1. \A e : ~Hears(s, e)
      BY <1>2, <2>5 DEF Hears, Told
    <3>2. ~Broken(s)' /\ LevelAwake(s)'
      BY <2>2, <2>4, <2>5, <3>1 DEF ErrorAwake, LevelAwake
    <3>3. ReadAwake(s)' /\ WriteAwake(s)'
      BY <1>2, <2>2, <2>3, <2>4, <3>1 DEF ReadAwake, WriteAwake
    <3> QED
      BY <3>2, <3>3 DEF Awake, ErrorAwake
  <2>6. ASSUME s \in ready PROVE Awake(s)'
    <3>1. \A e \in Mask(s) : Hears(s, e)'
      <4>1. CASE s \in S
        <5>1. [st |-> reg[s], mask |-> Mask(s)] \in evts'
          BY <1>2, <4>1
        <5>2. \A e \in Mask(s) : Told(hash[s], e)'
          BY <1>2, <2>1, <5>1 DEF Told
        <5> QED
          BY <1>2, <5>2 DEF Hears
      <4>2. CASE s \notin S
        BY <1>2, <2>6, <4>2 DEF Hears, Reportable
      <4> QED
        BY <4>1, <4>2
    <3>2. /\ Readable(s) => Hears(s, "IN")'
          /\ Writeable(s) => Hears(s, "OUT")'
          /\ Broken(s) => Hears(s, "ERR")'
      BY <3>1 DEF Mask
    <3>3. ReadAwake(s)' /\ ErrorAwake(s)'
      BY <2>4, <3>2 DEF ReadAwake, ErrorAwake
    <3>4. WriteAwake(s)'
      <4>1. s \notin ListenSocks /\ sock[s].link = "up" /\ ~Writeable(s) => sock[s].room = 0
        BY <2>3 DEF Writeable
      <4> QED
        BY <2>3, <2>6, <3>2, <4>1 DEF WriteAwake
    <3>5. LevelAwake(s)'
      <4>1. s \in ListenSocks /\ Readable(s) => s \in Reportable
        BY <2>6 DEF Reportable, Mask
      <4> QED
        BY <1>2, <2>4, <4>1 DEF LevelAwake
    <3> QED
      BY <3>3, <3>4, <3>5 DEF Awake
  <2> QED
    BY <2>5, <2>6
<1> QED
  BY <1>3, <1>4 DEF Awake

LEMMA QuietWakes ==
    ASSUME WInv,
           \/ \E s \in Socks, r \in Requests : Submit(s, r)
           \/ \E st \in Stubs : /\ QuietPoll(st)
                                /\ ~ReadData(st) /\ ~WriteData(st)
           \/ EventsEnd \/ ReadEnd \/ WriteEnd \/ TimerEnd \/ PollEnd
           \/ \E expired \in SUBSET armed : TimerTimeout(expired)
           \/ UNCHANGED vars
    PROVE  Listens' /\ \A s \in Socks : Awake(s)'
<1> USE DEF netVars, listVars, pollVars
<1> SUFFICES UNCHANGED <<sock, ready, hash, stub, rlist, wlist, evts>>
  BY Quiet
<1>1. CASE \E s \in Socks, r \in Requests : Submit(s, r)
  BY <1>1 DEF Submit
<1>2. CASE \E st \in Stubs : QuietPoll(st) /\ ~ReadData(st) /\ ~WriteData(st)
  <2> PICK st \in Stubs : QuietPoll(st) /\ ~ReadData(st) /\ ~WriteData(st)
    BY <1>2
  <2>1. CASE ReadNothing(st) \/ ReadClosed(st) \/ ReadLeave(st)
    BY <2>1 DEF ReadNothing, ReadClosed, ReadLeave, NextReadable
  <2>2. CASE WriteNothing(st) \/ WriteLeave(st)
    BY <2>2 DEF WriteNothing, WriteLeave, NextWriteable
  <2>3. CASE ErrorFlush(st) \/ FillSilent(st) \/ FillResults(st)
    BY <2>3 DEF ErrorFlush, FillSilent, FillResults
  <2>4. CASE \E t \in Tasks : TimerTask(st, t)
    BY <2>4 DEF TimerTask
  <2> QED
    BY <2>1, <2>2, <2>3, <2>4 DEF QuietPoll
<1>3. CASE \/ EventsEnd \/ ReadEnd \/ WriteEnd \/ TimerEnd \/ PollEnd
           \/ \E expired \in SUBSET armed : TimerTimeout(expired)
  BY <1>3 DEF EventsEnd, ReadEnd, WriteEnd, TimerEnd, PollEnd, TimerTimeout, Phase
<1>4. CASE UNCHANGED vars
  BY <1>4 DEF vars
<1> QED
  BY <1>1, <1>2, <1>3, <1>4

LEMMA SilenceWakes ==
    ASSUME WInv, NEW s \in Socks, NEW silent \in BOOLEAN, SetSilence(s, silent)
    PROVE  Listens' /\ \A r \in Socks : Awake(r)'
<1>1. /\ stub \in [Stubs -> StubState]
      /\ stub' = [stub EXCEPT ![hash[s]].silent = silent]
      /\ UNCHANGED <<sock, ready, hash, rlist, wlist, evts>>
  BY DEF SetSilence, WInv, IInv, TypeInv, TypeOK, StubTypeOK, netVars, listVars, pollVars
<1>2. \A x \in Stubs : /\ stub'[x].fd = stub[x].fd
                       /\ stub'[x].listen = stub[x].listen
                       /\ stub'[x].status = stub[x].status
  BY <1>1 DEF StubState
<1> QED
  BY <1>1, <1>2, Quiet

LEMMA WInvNext ==
    ASSUME WInv, [Next]_vars PROVE WInv'
<1> SUFFICES Listens' /\ \A s \in Socks : Awake(s)'
  BY IInvNext DEF WInv
<1>1. CASE Application
  <2> PICK s \in Socks :
        \/ \E timed \in IdleTimers :
            \/ Attach(s, timed)
            \/ \E link \in {"connecting", "up"} : Connect(s, timed, link)
        \/ Listen(s)
        \/ Detach(s)
        \/ \E r \in Requests : Submit(s, r)
        \/ \E link \in {"none", "connecting", "up"} : ConnectFail(s, link)
        \/ \E silent \in BOOLEAN : SetSilence(s, silent)
        \/ Accept(s)
        \/ \E fresh \in {UpSock, NewSock} : Reopen(s, fresh)
    BY <1>1 DEF Application
  <2>1. CASE \E timed \in IdleTimers : Attach(s, timed)
    BY <2>1, AttachWakes, EpexAssumption
  <2>2. CASE Listen(s)
    BY <2>2, AttachWakes
  <2>3. CASE \E timed \in IdleTimers, link \in {"connecting", "up"} : Connect(s, timed, link)
    BY <2>3, ConnectWakes
  <2>4. CASE Detach(s) \/ \E link \in {"none", "connecting", "up"} : ConnectFail(s, link)
    BY <2>4, DetachWakes
  <2>5. CASE \E r \in Requests : Submit(s, r)
    BY <2>5, QuietWakes
  <2>6. CASE \E silent \in BOOLEAN : SetSilence(s, silent)
    BY <2>6, SilenceWakes
  <2>7. CASE Accept(s) \/ \E fresh \in {UpSock, NewSock} : Reopen(s, fresh)
    BY <2>7, AcceptWakes, ReopenWakes
  <2> QED
    BY <2>1, <2>2, <2>3, <2>4, <2>5, <2>6, <2>7
<1>2. CASE Poll
  BY <1>2, PollStartWakes DEF Poll
<1>3. CASE PollStep
  <2>1. CASE \E e \in evts : EventReady(e)
    BY <2>1, EventWakes
  <2>2. CASE \E e \in evts : EventError(e)
    <3>1. \A e \in evts : e.st \in Stubs
      BY DEF WInv, IInv, TypeInv, TypeOK, PollTypeOK
    <3> QED
      BY <2>2, <3>1, BreakWakes
  <2>3. CASE \E st \in Stubs : ReadError(st) \/ WriteError(st) \/ TimerSock(st)
    BY <2>3, BreakWakes
  <2>4. CASE \E st \in Stubs : ReadListen(st) \/ ReadEagain(st) \/ ReadEof(st)
    BY <2>4, ReadAgainWakes
  <2>5. CASE \E st \in Stubs : WriteEagain(st)
    BY <2>5, WriteAgainWakes
  <2>6. CASE \E st \in Stubs : ReadData(st) \/ WriteData(st)
    BY <2>6, DataWakes
  <2>7. CASE \E st \in Stubs : QuietPoll(st) /\ ~ReadData(st) /\ ~WriteData(st)
    BY <2>7, QuietWakes
  <2>8. CASE \E st \in Stubs : FillNotify(st)
    BY <2>8, NotifyWakes
  <2>9. CASE \/ EventsEnd \/ ReadEnd \/ WriteEnd \/ TimerEnd \/ PollEnd
             \/ \E expired \in SUBSET armed : TimerTimeout(expired)
    BY <2>9, QuietWakes
  <2> QED
    BY <1>3, <2>1, <2>2, <2>3, <2>4, <2>5, <2>6, <2>7, <2>8, <2>9
       DEF PollStep, QuietPoll
<1>4. CASE PeerStep
  BY <1>4, PeerWakes
<1>5. CASE UNCHANGED vars
  BY <1>5, QuietWakes
<1> QED
  BY <1>1, <1>2, <1>3, <1>4, <1>5 DEF Next

(* What an open socket can do that its stub does not have on its lists is  *)
(* something that epoll, or an event already fetched, still has to tell:   *)
(* edge triggering loses nothing, whatever peers do between the calls.     *)
THEOREM NoWakeupLost == Spec => []NoLostWakeup
<1>1. Init => WInv
  <2> SUFFICES ASSUME Init PROVE WInv
    OBVIOUS
  <2>1. \A s \in Socks : hash[s] = NULL
    BY DEF Init
  <2>2. \A st \in Stubs : ~Live(st)
    BY DEF Init, FreeStub, Live
  <2> QED
    BY <2>1, <2>2, IInvInit DEF WInv, Listens, LiveStubs, Awake, Open
<1>2. WInv /\ [Next]_vars => WInv'
  BY WInvNext
<1>3. WInv => NoLostWakeup
  BY AwakeIsEnough
<1> QED
  BY <1>1, <1>2, <1>3, PTL DEF Spec
=============================================================================
