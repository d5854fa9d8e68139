------------------------------ MODULE EpexProps ------------------------------
(***************************************************************************)
(* What makes src/exnet.c correct: invariants, action properties and       *)
(* liveness properties of Epex.                                            *)
(***************************************************************************)
EXTENDS Epex

LiveStubs == {st \in Stubs : Live(st)}
InUse(t)   == task[t].stub # NULL
Pending(t) == InUse(t) /\ task[t].status = ""
Queues(st) == rdq[st] \o wrq[st] \o doneq[st]
Units      == armed \cup due

-----------------------------------------------------------------------------
(* A freed netstub_t is referred to by nothing: not by the hash table, by  *)
(* epoll (ev.data.ptr) or an event already fetched from it, not by a list  *)
(* or the timer.  netstub_clean and netstub_free have to undo every one of *)
(* these (TaskOwnership says it of requests).                              *)
HashAgrees ==
    /\ \A s \in Socks : hash[s] # NULL => stub[hash[s]].fd = s
    /\ \A st \in LiveStubs : hash[stub[st].fd] = st
Watched == \A s \in Socks : reg[s] = IF Open(s) THEN hash[s] ELSE NULL
FetchedAlive == \A e \in evts : Live(e.st) /\ ~Dying(e.st)
PollListsAlive == Range(rlist) \cup Range(wlist) \cup Range(elist) \subseteq LiveStubs
NoDangling ==
    /\ HashAgrees /\ Watched /\ FetchedAlive /\ PollListsAlive
    /\ Range(avail) \cup Range(todo) \cup (Units \cap Stubs) \subseteq LiveStubs

(* Every nettask_t is in exactly one queue, once, of the stub it points to *)
(* and a free one in none; it is in the done queue exactly when it has a   *)
(* result.  TASK2RESULT and timer_next reach the stub through the request. *)
TaskOwnership ==
    /\ \A st \in Stubs : NoDuplicates(Queues(st))
    /\ \A st \in Stubs, t \in Tasks : t \in Range(Queues(st)) <=> task[t].stub = st
    /\ \A t \in Tasks : InUse(t) => Live(task[t].stub)
    /\ \A st \in Stubs :
        /\ \A t \in Range(rdq[st]) \cup Range(wrq[st]) : task[t].status = ""
        /\ \A t \in Range(doneq[st]) : task[t].status # ""

(* The timer holds the unit of every timed request that is pending and of  *)
(* no other request, so that a result is not overwritten by a timeout; and *)
(* the unit of every open stub attached with an idle timeout.  A dying     *)
(* stub has none, except after a failed read (ACTIVE_STUB follows          *)
(* DO_WITH_ERROR).  A clock that steps back may cost an open stub its unit *)
(* (ACTIVE_STUB ignores the failure of timer_add2).                        *)
TimersMatch ==
    /\ \A t \in Tasks : t \in Units <=> Pending(t) /\ task[t].timed
    /\ \A st \in LiveStubs :
        /\ ~Dying(st) /\ stub[st].timed /\ ~ClockStepsBack => st \in Units
        /\ st \in Units => stub[st].timed /\ (Dying(st) => "ERROR" \in stub[st].status)

(* SOCK_READABLE and SOCK_WRITEABLE say which of the two lists a stub is   *)
(* in, and no list holds a stub twice: DLIST_INSERT_B of a linked node     *)
(* would tear the list apart.                                              *)
ListsMatchStatus ==
    /\ \A st \in Stubs :
        /\ st \in Range(rlist) <=> "READABLE" \in stub[st].status
        /\ st \in Range(wlist) <=> "WRITEABLE" \in stub[st].status
        /\ st \in Range(elist) <=> "ERROR" \in stub[st].status
    /\ NoDuplicates(rlist) /\ NoDuplicates(wlist)
    /\ NoDuplicates(elist) /\ NoDuplicates(avail)

(* Whatever killed a stub, when epex_poll returns all its requests have    *)
(* been answered, nothing watches its socket or would read or write it,    *)
(* and it waits for NET_OP_NOTIFY where the next epex_poll looks for       *)
(* results, as does every stub with results.  Until NOTIFY the hash table  *)
(* has it, so that its number is not attached again.                       *)
DyingSettled ==
    pc = "app" =>
        /\ \A st \in Stubs : Dying(st) \/ doneq[st] # <<>> => st \in Range(avail)
        /\ \A st \in Stubs : Dying(st) =>
            /\ rdq[st] = <<>> /\ wrq[st] = <<>>
            /\ \A s \in Socks : reg[s] # st
            /\ st \notin Range(rlist) \cup Range(wlist)
            /\ hash[stub[st].fd] = st

(* Bytes go to requests in the order they were made: only the first of a   *)
(* queue has moved any.                                                    *)
HeadOnlyPartial ==
    \A st \in Stubs :
        \A q \in {rdq[st], wrq[st]} :
            \A i \in DOMAIN q : i > 1 => task[q[i]].cur = 0

(* Edge triggered epoll tells of a change once.  What a socket can do      *)
(* that its stub does not have on its lists is something epoll, or an      *)
(* event already fetched, still has to tell.                               *)
NoLostWakeup ==
    \A s \in Socks :
        LET st == hash[s]
            Told(e) == \E ev \in evts : ev.st = st /\ e \in ev.mask
        IN Open(s) =>
            /\ Readable(s) => \/ s \in ready \/ Told("IN") \/ Told("ERR")
                              \/ st \in Range(rlist)
                              \/ sock[s].rx = 0 /\ "CLOSED" \in stub[st].status
            /\ Writeable(s) => \/ s \in ready \/ Told("OUT") \/ Told("ERR")
                               \/ st \in Range(wlist)
            /\ Broken(s) => s \in ready \/ Told("ERR")

(* A result does not claim more or less than was done.                     *)
HonestResults ==
    \A t \in Tasks : InUse(t) =>
        /\ task[t].cur <= task[t].size
        /\ task[t].status = "DONE" => task[t].cur = task[t].size
        /\ task[t].status \notin {"", "DONE"} /\ task[t].size > 0
            => task[t].cur < task[t].size
        /\ task[t].status = "PART_DONE"
            => task[t].op = "READ" /\ ~task[t].all /\ task[t].cur > 0
        /\ task[t].status = "ECLOSED"
            => task[t].op = "READ" /\ stub[task[t].stub].status \cap ({"CLOSED"} \cup Fatal) # {}

-----------------------------------------------------------------------------
(* A request that has its result keeps it until it is handed out: no later *)
(* error, timeout or detach of the stub answers it again.                  *)
AnsweredOnce ==
    [][\A t \in Tasks : InUse(t) /\ task[t].status # ""
            => task'[t] \in {task[t], FreeTask}]_vars

(* "rd_q, wr_q and done_q must be empty here" (netstub_free in epex_poll): *)
(* a stub is freed only when dying, and NOTIFY is the last that is heard   *)
(* of it.                                                                  *)
NotifyIsLast ==
    [][\A st \in Stubs : Live(st) /\ ~Live(st)'
            => Dying(st) /\ Queues(st) = <<>>]_vars

(* A dying stub stays so until it is freed, gets no new request, and the   *)
(* socket is not watched.                                                  *)
DyingIsFinal ==
    [][\A st \in Stubs : Live(st) /\ Dying(st) /\ Live(st)'
            => /\ Dying(st)'
               /\ Range(Queues(st))' \subseteq Range(Queues(st))
               /\ reg'[stub[st].fd] # st]_vars

(* NET_OP_NOTIFY is given with NET_ERROR when some error occurred on the   *)
(* socket (exnet.h): a stub that has one does not turn into an idle one.   *)
ErrorIsFinal ==
    [][\A st \in Stubs : Live(st)' /\ "ERROR" \in stub[st].status
            => "ERROR" \in stub'[st].status]_vars

-----------------------------------------------------------------------------
(* Seen through the requests and results of the interface, the engine      *)
(* behaves as include/exnet.h promises (EpexApi): every request gets one   *)
(* answer, handed out once, and NET_OP_NOTIFY comes when nothing is owed.  *)
Api == INSTANCE EpexApi WITH
    conn <- [s \in Socks |-> IF hash[s] = NULL THEN "unknown"
                             ELSE IF Dying(hash[s]) THEN "dying" ELSE "open"],
    owner <- [t \in Tasks |-> IF InUse(t) THEN stub[task[t].stub].fd ELSE NULL],
    answer <- [t \in Tasks |-> task[t].status]

ImplementsApi == Api!Spec

-----------------------------------------------------------------------------
(* Fairness.  The application calls epex_poll again and again and each     *)
(* call runs to its end; time passes, so a request's timer unit that stays *)
(* in the timer is one day found expired.                                  *)
Expire(t) == \E expired \in SUBSET armed : t \in expired /\ TimerTimeout(expired)

Fairness ==
    /\ WF_vars(Poll)
    /\ WF_vars(PollStep)
    /\ \A t \in Tasks : SF_vars(Expire(t))

(* Peers that go on reading and sending. *)
PeerFairness ==
    \A s \in Socks :
        /\ WF_vars(PeerDrain(s) /\ PeerStep)
        /\ WF_vars(PeerSend(s) /\ PeerStep)

FairSpec == Spec /\ Fairness
ServedSpec == FairSpec /\ PeerFairness

(* A request with a timeout is answered and handed out, whatever happens.  *)
TimedRequestAnswered ==
    \A t \in Tasks : Pending(t) /\ task[t].timed ~> ~InUse(t)

(* A stub that is dying is announced and freed. *)
DyingNotified == \A st \in Stubs : Dying(st) ~> ~Live(st)

(* With a peer that goes on reading, a write is done; with one that goes   *)
(* on sending, a read is, unless the peer has closed the connection.       *)
WriteServed ==
    \A t \in Tasks : InUse(t) /\ task[t].op = "WRITE" ~> ~InUse(t)
ReadServed ==
    \A st \in Stubs, t \in Tasks :
        t \in Range(rdq[st]) ~> t \notin Range(rdq[st]) \/ "CLOSED" \in stub[st].status

(* NET_ECLOSED, "peer has closed socket": a read of a socket whose peer    *)
(* has closed is answered.                                                 *)
ReadAfterCloseAnswered ==
    \A st \in Stubs, t \in Tasks :
        t \in Range(rdq[st]) /\ "CLOSED" \in stub[st].status ~> ~InUse(t)
=============================================================================
