-------------------------------- MODULE Epex --------------------------------
(***************************************************************************)
(* The event engine of src/exnet.c: one epex handle, used by one thread.   *)
(* The application attaches sockets, queues requests and calls epex_poll,  *)
(* which turns epoll's events into lists of readable, writeable and broken *)
(* stubs, performs the queued requests, expires timers, and hands out      *)
(* results.                                                                *)
(*                                                                         *)
(* An epex_* call other than epex_poll is one action.  epex_poll is a      *)
(* sequence of actions, one for each system call it makes and what the     *)
(* code does up to the next one, so that peers act in between.  A call     *)
(* that returns false and leaves everything as it was is not an action.    *)
(***************************************************************************)
EXTENDS NetKernel, Lists

CONSTANTS
    Tasks,          \* nettask_t objects; none free: mp_alloc returns NULL
    Requests,       \* the read and write requests the application makes
    IdleTimers,     \* whether sockets are attached with an idle timeout
    PollSizes,      \* the sizes of the result arrays given to epex_poll
    Calls,          \* the optional calls the application makes
    ClockStepsBack  \* whether gettimeofday may go back past timer._last

ASSUME EpexAssumption ==
    /\ Requests \subseteq [op : {"READ", "WRITE"}, size : Nat,
                           all : BOOLEAN, timed : BOOLEAN]
    /\ IdleTimers \subseteq BOOLEAN
    /\ PollSizes \subseteq Nat \ {0}
    /\ Calls \subseteq {"detach", "connect", "silence", "reopen", "accept"}
    /\ ClockStepsBack \in BOOLEAN
    /\ NULL \notin Tasks
    /\ Tasks \cap Stubs = {}

VARIABLES
    hash,   \* _sock2stub
    stub,   \* the fields of every netstub_t but its queues
    rdq, wrq, doneq,            \* _rd_q, _wr_q, _done_q of every stub
    task,   \* the fields of every nettask_t
    rlist, wlist, elist, avail, \* _rlist, _wlist, _elist, _avail_stubs
    armed,  \* the timer units (of tasks and of stubs) in the timer
    due,    \* the expired ones, while epex_poll takes them out
    pc,     \* where epex_poll is; "app" outside it
    todo,   \* the stubs the current loop of epex_poll still visits
    evts,   \* _events, what epoll_wait returned
    flag,   \* read() was called for the current stub
    left    \* free places in the result array

listVars  == <<rlist, wlist, elist, avail>>
queueVars == <<rdq, wrq, doneq>>
timerVars == <<armed, due>>
pollVars  == <<pc, todo, evts, flag, left>>
vars == <<netVars, hash, stub, queueVars, task, listVars, timerVars, pollVars>>

Flags == {"READABLE", "WRITEABLE", "CLOSED", "DETACHED", "ERROR", "IDLE"}
Fatal == {"DETACHED", "ERROR", "IDLE"}

Results == {"DONE", "PART_DONE", "EDETACHED", "ETIMEOUT", "EIDLE", "ECLOSED",
            "ERROR"}

StubState == [fd : Socks \cup {NULL}, listen : BOOLEAN, timed : BOOLEAN,
              silent : BOOLEAN, status : SUBSET Flags]
FreeStub == [fd |-> NULL, listen |-> FALSE, timed |-> FALSE,
             silent |-> FALSE, status |-> {}]
NewStub(s, listen, timed) ==
    [FreeStub EXCEPT !.fd = s, !.listen = listen, !.timed = timed]

(* status is "" (0 in the code) until the request is answered. *)
TaskState == [stub : Stubs \cup {NULL},
              op : {"", "READ", "WRITE", "CONNECT", "ACCEPT"},
              size : Nat, cur : Nat, all : BOOLEAN, timed : BOOLEAN,
              status : Results \cup {""}]
FreeTask == [stub |-> NULL, op |-> "", size |-> 0, cur |-> 0, all |-> FALSE,
             timed |-> FALSE, status |-> ""]
NewTask(st, op, size, all, timed) ==
    [stub |-> st, op |-> op, size |-> size, cur |-> 0, all |-> all,
     timed |-> timed, status |-> ""]

Live(st)  == stub[st].fd # NULL
Dying(st) == stub[st].status \cap Fatal # {}
OpenIfKnown(s) == hash[s] # NULL
Open(s)   == hash[s] # NULL /\ ~Dying(hash[s])
FreeStubs == {st \in Stubs : ~Live(st)}
FreeTasks == {t \in Tasks : task[t].stub = NULL}

StubTypeOK ==
    /\ hash \in [Socks -> Stubs \cup {NULL}]
    /\ stub \in [Stubs -> StubState]
TaskTypeOK ==
    /\ rdq \in [Stubs -> Seq(Tasks)]
    /\ wrq \in [Stubs -> Seq(Tasks)]
    /\ doneq \in [Stubs -> Seq(Tasks)]
    /\ task \in [Tasks -> TaskState]
ListTypeOK ==
    /\ rlist \in Seq(Stubs) /\ wlist \in Seq(Stubs)
    /\ elist \in Seq(Stubs) /\ avail \in Seq(Stubs)
TimerTypeOK ==
    /\ armed \subseteq Tasks \cup Stubs
    /\ due \subseteq Tasks \cup Stubs
PollTypeOK ==
    /\ pc \in {"app", "events", "read", "write", "error", "timer", "fill"}
    /\ todo \in Seq(Stubs)
    /\ evts \subseteq [st : Stubs, mask : SUBSET {"IN", "OUT", "ERR"}]
    /\ flag \in BOOLEAN
    /\ left \in Nat

TypeOK ==
    /\ NetTypeOK /\ StubTypeOK /\ TaskTypeOK
    /\ ListTypeOK /\ TimerTypeOK /\ PollTypeOK

Init ==
    /\ NetInit
    /\ hash = [s \in Socks |-> NULL]
    /\ stub = [st \in Stubs |-> FreeStub]
    /\ rdq = [st \in Stubs |-> <<>>]
    /\ wrq = [st \in Stubs |-> <<>>]
    /\ doneq = [st \in Stubs |-> <<>>]
    /\ task = [t \in Tasks |-> FreeTask]
    /\ rlist = <<>> /\ wlist = <<>> /\ elist = <<>> /\ avail = <<>>
    /\ armed = {} /\ due = {}
    /\ pc = "app" /\ todo = <<>> /\ evts = {} /\ flag = FALSE /\ left = 0

-----------------------------------------------------------------------------
(* Steps shared by the calls.  Here and below, a definition that a comment *)
(* calls a slip is the next one with a plausible mistake, and is used by   *)
(* nothing: it is there to see which properties notice.                    *)

(* DLIST_INSERT_B of a request; the slip is DLIST_INSERT_A. *)
EnqueueFirst(q, t) == <<t>> \o q
Enqueue(q, t) == Append(q, t)

(* MAKE_STUB_AVAIL; the slip leaves out stubs without answered requests. *)
MakeAvailIfDone(st) ==
    avail' = IF doneq[st] = <<>> THEN avail ELSE AppendNew(avail, st)
MakeAvail(st) == avail' = AppendNew(avail, st)

(* timer_del for a set of units: in the timer, or expired and not yet      *)
(* taken out, which the slip overlooks.                                    *)
TimerDelArmed(units) ==
    /\ armed' = armed \ units
    /\ UNCHANGED due
TimerDel(units) ==
    /\ armed' = armed \ units
    /\ due' = due \ units

(* What the timer holds after ACTIVE_STUB, which does not look at the      *)
(* return value of timer_add2.                                             *)
ActiveStub(st) ==
    IF ~stub[st].timed THEN {armed}
    ELSE {armed \cup {st}} \cup (IF ClockStepsBack THEN {armed \ {st}} ELSE {})

(* DO_WITH_TASK_DONE for a sequence of requests of one stub, except for    *)
(* the queue they come from and for timer_del.  The slip: no status.       *)
TasksDoneUnmarked(st, ts, status) ==
    /\ doneq' = [doneq EXCEPT ![st] = @ \o ts]
    /\ avail' = IF ts = <<>> THEN avail ELSE AppendNew(avail, st)
    /\ UNCHANGED task
TasksDone(st, ts, status) ==
    /\ doneq' = [doneq EXCEPT ![st] = @ \o ts]
    /\ task' = [t \in Tasks |-> IF t \in Range(ts)
                                THEN [task[t] EXCEPT !.status = status]
                                ELSE task[t]]
    /\ avail' = IF ts = <<>> THEN avail ELSE AppendNew(avail, st)

(* netstub_clean, except for the timer and the error list.  One slip       *)
(* forgets EPOLL_CTL_DEL, the other the writeable list.                    *)
NetstubCleanWatched(st, s) ==
    /\ rlist' = Unlink(rlist, st)
    /\ wlist' = Unlink(wlist, st)
    /\ UNCHANGED <<reg, ready>>
NetstubCleanWriteable(st, s) ==
    /\ EpollDel(s)
    /\ rlist' = Unlink(rlist, st)
    /\ UNCHANGED wlist
NetstubClean(st, s) ==
    /\ EpollDel(s)
    /\ rlist' = Unlink(rlist, st)
    /\ wlist' = Unlink(wlist, st)

(* DO_WITH_ERROR, except for the timer. *)
DoWithError(st) ==
    /\ NetstubClean(st, stub[st].fd)
    /\ stub' = [stub EXCEPT ![st].status = {"ERROR"}]
    /\ elist' = Append(Unlink(elist, st), st)

(* What epex_detach and an idle timeout do but for the status: the stub is *)
(* cleaned and every request it has is answered.                           *)
Abandon(st, s, status) ==
    LET pending == rdq[st] \o wrq[st] IN
    /\ NetstubClean(st, s)
    /\ elist' = Unlink(elist, st)
    /\ rdq' = [rdq EXCEPT ![st] = <<>>]
    /\ wrq' = [wrq EXCEPT ![st] = <<>>]
    /\ doneq' = [doneq EXCEPT ![st] = @ \o pending]
    /\ task' = [t \in Tasks |-> IF t \in Range(pending)
                                THEN [task[t] EXCEPT !.status = status]
                                ELSE task[t]]
    /\ MakeAvail(st)
    /\ TimerDel({st} \cup Range(pending))

-----------------------------------------------------------------------------
(* The calls of the application. *)

(* epex_attach; a socket that is attached stays as it is, and one whose    *)
(* stub is dying is refused.                                               *)
Attach(s, timed) ==
    /\ pc = "app" /\ s \notin ListenSocks
    /\ hash[s] = NULL
    /\ \E st \in FreeStubs :
        /\ hash' = [hash EXCEPT ![s] = st]
        /\ stub' = [stub EXCEPT ![st] = NewStub(s, FALSE, timed)]
        /\ armed' = IF timed THEN armed \cup {st} ELSE armed
        /\ EpollAdd(s, st)
    /\ UNCHANGED <<queueVars, task, listVars, due, pollVars>>

(* epex_listen: no idle timeout. *)
Listen(s) ==
    /\ pc = "app" /\ s \in ListenSocks
    /\ hash[s] = NULL
    /\ \E st \in FreeStubs :
        /\ hash' = [hash EXCEPT ![s] = st]
        /\ stub' = [stub EXCEPT ![st] = NewStub(s, TRUE, FALSE)]
        /\ EpollAdd(s, st)
    /\ UNCHANGED <<queueVars, task, listVars, timerVars, pollVars>>

DetachStub(s) ==
    /\ Open(s)
    /\ stub' = [stub EXCEPT ![hash[s]].status = {"DETACHED"}]
    /\ Abandon(hash[s], s, "EDETACHED")
    /\ UNCHANGED <<hash, pollVars>>

Detach(s) ==
    /\ pc = "app" /\ "detach" \in Calls
    /\ DetachStub(s)
    /\ UNCHANGED sock

(* epex_read, epex_read_any and epex_write only queue the request. *)
Submit(s, r) ==
    /\ pc = "app"
    /\ Open(s)
    /\ \E t \in FreeTasks :
        LET st == hash[s] IN
        /\ task' = [task EXCEPT ![t] = NewTask(st, r.op, r.size, r.all, r.timed)]
        /\ armed' = IF r.timed THEN armed \cup {t} ELSE armed
        /\ IF r.op = "READ"
           THEN rdq' = [rdq EXCEPT ![st] = Enqueue(@, t)] /\ UNCHANGED wrq
           ELSE wrq' = [wrq EXCEPT ![st] = Enqueue(@, t)] /\ UNCHANGED rdq
    /\ UNCHANGED <<netVars, hash, stub, doneq, listVars, due, pollVars>>

(* epex_connect of a new socket whose connect() succeeds at once or is     *)
(* under way: the socket is attached (unless it is already) and gets an    *)
(* empty write request.                                                    *)
Connect(s, timed, link) ==
    /\ pc = "app" /\ "connect" \in Calls /\ s \notin ListenSocks
    /\ sock[s].link = "none" /\ link \in {"connecting", "up"}
    /\ hash[s] # NULL => Open(s)
    /\ \E st \in IF hash[s] = NULL THEN FreeStubs ELSE {hash[s]},
          t \in FreeTasks, connectTimed \in BOOLEAN :
        LET attached == IF hash[s] = NULL THEN NewStub(s, FALSE, timed)
                                          ELSE stub[st]
        IN
        /\ hash' = [hash EXCEPT ![s] = st]
        /\ stub' = [stub EXCEPT ![st] =
                    IF link = "up" THEN [attached EXCEPT !.status = @ \cup {"WRITEABLE"}]
                                   ELSE attached]
        /\ wlist' = IF link = "up" THEN Append(wlist, st) ELSE wlist
        /\ task' = [task EXCEPT ![t] = NewTask(st, "CONNECT", 0, FALSE, connectTimed)]
        /\ wrq' = [wrq EXCEPT ![st] = Enqueue(@, t)]
        /\ armed' = armed \cup (IF connectTimed THEN {t} ELSE {})
                          \cup (IF hash[s] = NULL /\ timed THEN {st} ELSE {})
        /\ sock' = [sock EXCEPT ![s].link = link]
        /\ reg' = [reg EXCEPT ![s] = st]
        /\ ready' = ready \cup {s}
    /\ UNCHANGED <<rdq, doneq, rlist, elist, avail, due, pollVars>>

(* epex_connect when connect() fails (it does for a socket that has a peer *)
(* already), or when it has begun but epex_op fails: there is no memory    *)
(* for a request, or the timer refuses the unit of connect_ms.  The socket *)
(* is detached.                                                            *)
ConnectFail(s, link) ==
    /\ pc = "app" /\ "connect" \in Calls /\ s \notin ListenSocks
    /\ \/ link = sock[s].link
       \/ /\ sock[s].link = "none" /\ link \in {"connecting", "up"}
          /\ FreeTasks = {} \/ ClockStepsBack
    /\ sock' = [sock EXCEPT ![s].link = link]
    /\ \/ DetachStub(s)
       \/ /\ hash[s] = NULL
          /\ \E st \in FreeStubs :
              /\ hash' = [hash EXCEPT ![s] = st]
              /\ stub' = [stub EXCEPT ![st] = [NewStub(s, FALSE, FALSE)
                                              EXCEPT !.status = {"DETACHED"}]]
              /\ Abandon(st, s, "EDETACHED")
          /\ UNCHANGED pollVars

(* epex_enable_notify and epex_disable_notify; a dying stub will do. *)
SetSilence(s, silent) ==
    /\ pc = "app" /\ "silence" \in Calls
    /\ hash[s] # NULL
    /\ stub' = [stub EXCEPT ![hash[s]].silent = silent]
    /\ UNCHANGED <<netVars, hash, queueVars, task, listVars, timerVars, pollVars>>

(* The application accepts a connection from a listening socket. *)
Accept(s) ==
    /\ pc = "app" /\ "accept" \in Calls /\ s \in ListenSocks
    /\ sock[s].rx > 0
    /\ sock' = [sock EXCEPT ![s].rx = @ - 1]
    /\ UNCHANGED <<reg, ready, hash, stub, queueVars, task, listVars, timerVars,
                   pollVars>>

(* The application closes a socket it has detached, or was told is dying,  *)
(* and the number comes back as another socket: an accepted or a new one.  *)
Reopen(s, fresh) ==
    /\ pc = "app" /\ "reopen" \in Calls
    /\ ~Open(s)
    /\ fresh \in {UpSock} \cup (IF s \in ListenSocks THEN {} ELSE {NewSock})
    /\ sock' = [sock EXCEPT ![s] = fresh]
    /\ UNCHANGED <<reg, ready, hash, stub, queueVars, task, listVars, timerVars,
                   pollVars>>

-----------------------------------------------------------------------------
(* epex_poll: the events. *)

PollStart(size, S) ==
    /\ pc = "app"
    /\ EpollWait(S)
    /\ evts' = {[st |-> reg[s], mask |-> Mask(s)] : s \in S}
    /\ left' = size
    /\ pc' = "events"
    /\ UNCHANGED <<hash, stub, queueVars, task, listVars, timerVars, todo, flag>>

EventError(e) ==
    /\ pc = "events" /\ "ERR" \in e.mask
    /\ DoWithError(e.st)
    /\ TimerDel({e.st})
    /\ evts' = evts \ {e}
    /\ UNCHANGED <<sock, hash, queueVars, task, avail, pc, todo, flag, left>>

(* The slips take one event of two. *)
ElseWriteable(mask) == IF "IN" \in mask THEN {"READABLE"} ELSE {"WRITEABLE"}
ElseReadable(mask) == IF "OUT" \in mask THEN {"WRITEABLE"} ELSE {"READABLE"}
EventFlags(mask) == {f \in {"READABLE", "WRITEABLE"} :
                        \/ f = "READABLE" /\ "IN" \in mask
                        \/ f = "WRITEABLE" /\ "OUT" \in mask}

EventReady(e) ==
    LET new == EventFlags(e.mask) \ stub[e.st].status IN
    /\ pc = "events" /\ "ERR" \notin e.mask
    /\ stub' = [stub EXCEPT ![e.st].status = @ \cup new]
    /\ rlist' = IF "READABLE" \in new THEN Append(rlist, e.st) ELSE rlist
    /\ wlist' = IF "WRITEABLE" \in new THEN Append(wlist, e.st) ELSE wlist
    /\ evts' = evts \ {e}
    /\ UNCHANGED <<netVars, hash, queueVars, task, elist, avail, timerVars,
                   pc, todo, flag, left>>

(* From one loop of epex_poll to the next. *)
Phase(from, to, list) ==
    /\ pc = from
    /\ pc' = to
    /\ todo' = list
    /\ UNCHANGED <<netVars, hash, stub, queueVars, task, listVars, armed, evts,
                   flag, left>>

EventsEnd == evts = {} /\ Phase("events", "read", rlist) /\ UNCHANGED due

-----------------------------------------------------------------------------
(* epex_poll: readable stubs.  The stub is Head(todo), the request that is *)
(* served the first of its queue.                                          *)

(* A readable listening socket becomes an ACCEPT result, if there is       *)
(* memory for it.                                                          *)
ReadListen(st) ==
    /\ pc = "read" /\ todo # <<>> /\ st = Head(todo)
    /\ stub[st].listen
    /\ IF FreeTasks = {} THEN UNCHANGED <<task, doneq, avail>>
       ELSE \E t \in FreeTasks :
              /\ task' = [task EXCEPT ![t] =
                     [NewTask(st, "ACCEPT", 0, FALSE, FALSE) EXCEPT !.status = "DONE"]]
              /\ doneq' = [doneq EXCEPT ![st] = Append(@, t)]
              /\ MakeAvail(st)
    /\ stub' = [stub EXCEPT ![st].status = @ \ {"READABLE"}]
    /\ rlist' = Unlink(rlist, st)
    /\ todo' = Tail(todo)
    /\ UNCHANGED <<netVars, hash, rdq, wrq, wlist, elist, timerVars, pc, evts,
                   flag, left>>

Reading(st) ==
    /\ pc = "read" /\ todo # <<>> /\ st = Head(todo)
    /\ ~stub[st].listen

(* The next thing the code does is a read() for the first request. *)
CallsRead(st) ==
    /\ Reading(st)
    /\ rdq[st] # <<>> /\ "CLOSED" \notin stub[st].status
    /\ task[Head(rdq[st])].cur < task[Head(rdq[st])].size

(* n more bytes complete a request; the slip is content with any. *)
AnyBytes(t, n) == n > 0
Completes(t, n) == task[t].cur + n = task[t].size

NextReadable ==
    /\ todo' = Tail(todo)
    /\ flag' = FALSE
    /\ UNCHANGED <<pc, evts, left>>

(* read() returns data; the request is answered when its buffer is full. *)
ReadData(st) ==
    LET t == Head(rdq[st])
        want == task[t].size - task[t].cur
        n == IF sock[stub[st].fd].rx < want THEN sock[stub[st].fd].rx ELSE want
        full == Completes(t, n)
        got == [task[t] EXCEPT !.cur = @ + n]
    IN
    /\ CallsRead(st) /\ sock[stub[st].fd].rx > 0
    /\ sock' = [sock EXCEPT ![stub[st].fd].rx = @ - n]
    /\ task' = [task EXCEPT ![t] = IF full THEN [got EXCEPT !.status = "DONE"] ELSE got]
    /\ IF full
       THEN /\ rdq' = [rdq EXCEPT ![st] = Tail(@)]
            /\ doneq' = [doneq EXCEPT ![st] = Append(@, t)]
            /\ MakeAvail(st)
            /\ TimerDel({t})
       ELSE UNCHANGED <<rdq, doneq, avail, timerVars>>
    /\ flag' = TRUE
    /\ UNCHANGED <<reg, ready, hash, stub, wrq, rlist, wlist, elist, pc, todo,
                   evts, left>>

(* read() returns EAGAIN; an epex_read_any request that has data is        *)
(* answered.                                                               *)
ReadEagain(st) ==
    LET t == Head(rdq[st])
        s == stub[st].fd
        part == ~task[t].all /\ task[t].cur > 0
        ts == IF part THEN <<t>> ELSE <<>>
    IN
    /\ CallsRead(st)
    /\ sock[s].rx = 0 /\ ~sock[s].eof /\ ~sock[s].err
    /\ TasksDone(st, ts, "PART_DONE")
    /\ rdq' = [rdq EXCEPT ![st] = IF part THEN Tail(@) ELSE @]
    /\ stub' = [stub EXCEPT ![st].status = @ \ {"READABLE"}]
    /\ rlist' = Unlink(rlist, st)
    /\ \E after \in ActiveStub(st) : armed' = after \ Range(ts)
    /\ NextReadable
    /\ UNCHANGED <<netVars, hash, wrq, wlist, elist, due>>

(* read() returns 0: the stub is closed and so is every read request. *)
ReadEof(st) ==
    LET s == stub[st].fd IN
    /\ CallsRead(st)
    /\ sock[s].rx = 0 /\ sock[s].eof /\ ~sock[s].err
    /\ TasksDone(st, rdq[st], "ECLOSED")
    /\ rdq' = [rdq EXCEPT ![st] = <<>>]
    /\ stub' = [stub EXCEPT ![st].status = (@ \ {"READABLE"}) \cup {"CLOSED"}]
    /\ rlist' = Unlink(rlist, st)
    /\ \E after \in ActiveStub(st) : armed' = after \ Range(rdq[st])
    /\ NextReadable
    /\ UNCHANGED <<netVars, hash, wrq, wlist, elist, due>>

(* read() fails: the stub is broken, and ACTIVE_STUB follows. *)
ReadError(st) ==
    /\ CallsRead(st)
    /\ sock[stub[st].fd].rx = 0 /\ sock[stub[st].fd].err
    /\ DoWithError(st)
    /\ armed' \in ActiveStub(st)
    /\ NextReadable
    /\ UNCHANGED <<sock, hash, queueVars, task, avail, due>>

(* A request for no bytes is answered without a read(). *)
ReadNothing(st) ==
    /\ Reading(st) /\ rdq[st] # <<>> /\ "CLOSED" \notin stub[st].status
    /\ task[Head(rdq[st])].cur >= task[Head(rdq[st])].size
    /\ TasksDone(st, <<Head(rdq[st])>>, "DONE")
    /\ rdq' = [rdq EXCEPT ![st] = Tail(@)]
    /\ TimerDel({Head(rdq[st])})
    /\ UNCHANGED <<netVars, hash, stub, wrq, rlist, wlist, elist, pollVars>>

(* The requests of a stub that is closed already. *)
ReadClosed(st) ==
    /\ Reading(st) /\ rdq[st] # <<>> /\ "CLOSED" \in stub[st].status
    /\ TasksDone(st, rdq[st], "ECLOSED")
    /\ rdq' = [rdq EXCEPT ![st] = <<>>]
    /\ TimerDel(Range(rdq[st]))
    /\ NextReadable
    /\ UNCHANGED <<netVars, hash, stub, wrq, rlist, wlist, elist>>

(* No request is left. *)
ReadLeave(st) ==
    /\ Reading(st) /\ rdq[st] = <<>>
    /\ IF flag THEN armed' \in ActiveStub(st) ELSE UNCHANGED armed
    /\ NextReadable
    /\ UNCHANGED <<netVars, hash, stub, queueVars, task, listVars, due>>

ReadEnd == todo = <<>> /\ Phase("read", "write", wlist) /\ UNCHANGED due

-----------------------------------------------------------------------------
(* epex_poll: writeable stubs.  Writes do not put off the idle timeout.    *)

Writing(st) == pc = "write" /\ todo # <<>> /\ st = Head(todo)

CallsWrite(st) ==
    /\ Writing(st) /\ wrq[st] # <<>>
    /\ task[Head(wrq[st])].cur < task[Head(wrq[st])].size

NextWriteable ==
    /\ todo' = Tail(todo)
    /\ UNCHANGED <<pc, evts, flag, left>>

WriteData(st) ==
    LET t == Head(wrq[st])
        s == stub[st].fd
        want == task[t].size - task[t].cur
        n == IF sock[s].room < want THEN sock[s].room ELSE want
        full == Completes(t, n)
        put == [task[t] EXCEPT !.cur = @ + n]
    IN
    /\ CallsWrite(st)
    /\ sock[s].link = "up" /\ sock[s].room > 0 /\ ~sock[s].err
    /\ sock' = [sock EXCEPT ![s].room = @ - n]
    /\ task' = [task EXCEPT ![t] = IF full THEN [put EXCEPT !.status = "DONE"] ELSE put]
    /\ IF full
       THEN /\ wrq' = [wrq EXCEPT ![st] = Tail(@)]
            /\ doneq' = [doneq EXCEPT ![st] = Append(@, t)]
            /\ MakeAvail(st)
            /\ TimerDel({t})
       ELSE UNCHANGED <<wrq, doneq, avail, timerVars>>
    /\ UNCHANGED <<reg, ready, hash, stub, rdq, rlist, wlist, elist, pollVars>>

(* write() returns EAGAIN; the kernel will wake the socket when it has     *)
(* space again.                                                            *)
WriteEagain(st) ==
    LET s == stub[st].fd IN
    /\ CallsWrite(st)
    /\ ~Writeable(s) /\ ~sock[s].err
    /\ sock' = [sock EXCEPT ![s].nospace = TRUE]
    /\ stub' = [stub EXCEPT ![st].status = @ \ {"WRITEABLE"}]
    /\ wlist' = Unlink(wlist, st)
    /\ NextWriteable
    /\ UNCHANGED <<reg, ready, hash, queueVars, task, rlist, elist, avail, timerVars>>

WriteError(st) ==
    /\ CallsWrite(st)
    /\ sock[stub[st].fd].err
    /\ DoWithError(st)
    /\ TimerDel({st})
    /\ NextWriteable
    /\ UNCHANGED <<sock, hash, queueVars, task, avail>>

(* A request for no bytes, as epex_connect makes, is done.                 *)
WriteNothing(st) ==
    /\ Writing(st) /\ wrq[st] # <<>>
    /\ task[Head(wrq[st])].cur >= task[Head(wrq[st])].size
    /\ TasksDone(st, <<Head(wrq[st])>>, "DONE")
    /\ wrq' = [wrq EXCEPT ![st] = Tail(@)]
    /\ TimerDel({Head(wrq[st])})
    /\ UNCHANGED <<netVars, hash, stub, rdq, rlist, wlist, elist, pollVars>>

(* No request is left.  The slip takes the stub for unwriteable. *)
WriteLeaveForgets(st) ==
    /\ Writing(st) /\ wrq[st] = <<>>
    /\ stub' = [stub EXCEPT ![st].status = @ \ {"WRITEABLE"}]
    /\ wlist' = Unlink(wlist, st)
    /\ NextWriteable
    /\ UNCHANGED <<netVars, hash, queueVars, task, rlist, elist, avail, timerVars>>
WriteLeave(st) ==
    /\ Writing(st) /\ wrq[st] = <<>>
    /\ NextWriteable
    /\ UNCHANGED <<netVars, hash, stub, queueVars, task, listVars, timerVars>>

WriteEnd == todo = <<>> /\ Phase("write", "error", elist) /\ UNCHANGED due

-----------------------------------------------------------------------------
(* epex_poll: broken stubs.  They stay in elist until they are freed.      *)

ErrorFlush(st) ==
    LET pending == rdq[st] \o wrq[st] IN
    /\ pc = "error" /\ todo # <<>> /\ st = Head(todo)
    /\ rdq' = [rdq EXCEPT ![st] = <<>>]
    /\ wrq' = [wrq EXCEPT ![st] = <<>>]
    /\ doneq' = [doneq EXCEPT ![st] = @ \o pending]
    /\ task' = [t \in Tasks |-> IF t \in Range(pending)
                                THEN [task[t] EXCEPT !.status = "ERROR"]
                                ELSE task[t]]
    /\ MakeAvail(st)
    /\ TimerDel(Range(pending))
    /\ todo' = Tail(todo)
    /\ UNCHANGED <<netVars, hash, stub, rlist, wlist, elist, pc, evts, flag, left>>

(* timer_timeout reads the clock once; any of the armed units may have     *)
(* expired by then.                                                        *)
TimerTimeout(expired) ==
    /\ todo = <<>>
    /\ due' = expired
    /\ Phase("error", "timer", <<>>)

-----------------------------------------------------------------------------
(* epex_poll: timers, one unit returned by timer_next at a time. *)

TimerTask(st, t) ==
    /\ pc = "timer" /\ t \in due
    /\ st = task[t].stub
    /\ rdq' = [rdq EXCEPT ![st] = Unlink(@, t)]
    /\ wrq' = [wrq EXCEPT ![st] = Unlink(@, t)]
    /\ doneq' = [doneq EXCEPT ![st] = Append(@, t)]
    /\ task' = [task EXCEPT ![t].status = "ETIMEOUT"]
    /\ MakeAvail(st)
    /\ TimerDel({t})
    /\ UNCHANGED <<netVars, hash, stub, rlist, wlist, elist, pollVars>>

TimerSock(st) ==
    /\ pc = "timer" /\ st \in due
    /\ stub' = [stub EXCEPT ![st].status = {"IDLE"}]
    /\ Abandon(st, stub[st].fd, "EIDLE")
    /\ UNCHANGED <<sock, hash, pollVars>>

TimerEnd == due = {} /\ Phase("timer", "fill", avail) /\ UNCHANGED due

-----------------------------------------------------------------------------
(* epex_poll: results.  A stub hands out its answered requests; a dying    *)
(* one that has none left is announced with NOTIFY and freed, in a poll    *)
(* that hands out nothing else of it.                                      *)

Filling(st) == pc = "fill" /\ todo # <<>> /\ st = Head(todo)

(* n results are handed out; the slip does not look at the array's size. *)
DeliverAll(st, n) ==
    /\ doneq' = [doneq EXCEPT ![st] = <<>>]
    /\ task' = [t \in Tasks |-> IF t \in Range(doneq[st]) THEN FreeTask ELSE task[t]]
    /\ left' = left - Len(doneq[st])
Deliver(st, n) ==
    /\ doneq' = [doneq EXCEPT ![st] = SubSeq(@, n + 1, Len(@))]
    /\ task' = [t \in Tasks |-> IF t \in Range(SubSeq(doneq[st], 1, n))
                                THEN FreeTask ELSE task[t]]
    /\ left' = left - n

(* All that is left to say is NOTIFY; the slip forgets the answers. *)
FinishedEarly(st) == Dying(st)
Finished(st) == Dying(st) /\ doneq[st] = <<>>

(* netstub_free: the unit is taken out of the timer; the slip does not. *)
KeepUnit(st) == UNCHANGED timerVars
FreeUnit(st) == TimerDel({st})

FillSilent(st) ==
    /\ Filling(st) /\ stub[st].silent
    /\ todo' = Tail(todo)
    /\ UNCHANGED <<netVars, hash, stub, queueVars, task, listVars, timerVars,
                   pc, evts, flag, left>>

FillResults(st) ==
    LET n == IF left < Len(doneq[st]) THEN left ELSE Len(doneq[st])
        leaves == n = Len(doneq[st]) /\ ~Dying(st)
    IN
    /\ Filling(st) /\ ~stub[st].silent
    /\ ~Finished(st) \/ left = 0
    /\ Deliver(st, n)
    /\ avail' = IF leaves THEN Unlink(avail, st) ELSE avail
    /\ todo' = Tail(todo)
    /\ UNCHANGED <<netVars, hash, stub, rdq, wrq, rlist, wlist, elist, timerVars,
                   pc, evts, flag>>

FillNotify(st) ==
    /\ Filling(st) /\ ~stub[st].silent
    /\ Finished(st) /\ left > 0
    /\ left' = left - 1
    /\ hash' = [hash EXCEPT ![stub[st].fd] = NULL]
    /\ stub' = [stub EXCEPT ![st] = FreeStub]
    /\ rdq' = [rdq EXCEPT ![st] = <<>>]
    /\ wrq' = [wrq EXCEPT ![st] = <<>>]
    /\ doneq' = [doneq EXCEPT ![st] = <<>>]
    /\ rlist' = Unlink(rlist, st)
    /\ wlist' = Unlink(wlist, st)
    /\ elist' = Unlink(elist, st)
    /\ avail' = Unlink(avail, st)
    /\ FreeUnit(st)
    /\ todo' = Tail(todo)
    /\ UNCHANGED <<netVars, task, pc, evts, flag>>

PollEnd ==
    /\ pc = "fill" /\ todo = <<>>
    /\ pc' = "app"
    /\ left' = 0
    /\ UNCHANGED <<netVars, hash, stub, queueVars, task, listVars, timerVars,
                   todo, evts, flag>>

-----------------------------------------------------------------------------
Application ==
    \E s \in Socks :
        \/ \E timed \in IdleTimers :
            \/ Attach(s, timed)
            \/ \E link \in {"connecting", "up"} : Connect(s, timed, link)
        \/ Listen(s)
        \/ Detach(s)
        \/ \E r \in Requests : Submit(s, r)
        \/ \E link \in {"none", "connecting", "up"} : ConnectFail(s, link)
        \/ \E silent \in BOOLEAN : SetSilence(s, silent)
        \/ Accept(s)
        \/ \E fresh \in {UpSock, NewSock} : Reopen(s, fresh)

PollStep ==
    \/ \E e \in evts : EventError(e) \/ EventReady(e)
    \/ EventsEnd
    \/ \E st \in Stubs :
        \/ ReadListen(st) \/ ReadData(st) \/ ReadEagain(st) \/ ReadEof(st)
        \/ ReadError(st) \/ ReadNothing(st) \/ ReadClosed(st) \/ ReadLeave(st)
        \/ WriteData(st) \/ WriteEagain(st) \/ WriteError(st)
        \/ WriteNothing(st) \/ WriteLeave(st)
        \/ ErrorFlush(st)
        \/ TimerSock(st) \/ \E t \in Tasks : TimerTask(st, t)
        \/ FillSilent(st) \/ FillResults(st) \/ FillNotify(st)
    \/ ReadEnd \/ WriteEnd
    \/ \E expired \in SUBSET armed : TimerTimeout(expired)
    \/ TimerEnd
    \/ PollEnd

Poll == \E size \in PollSizes, S \in Batches : PollStart(size, S)

PeerStep == \E s \in Socks :
    Peer(s) /\ UNCHANGED <<hash, stub, queueVars, task, listVars, timerVars, pollVars>>

Next == Application \/ Poll \/ PollStep \/ PeerStep

Spec == Init /\ [][Next]_vars
=============================================================================
