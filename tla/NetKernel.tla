------------------------------ MODULE NetKernel ------------------------------
(***************************************************************************)
(* What src/exnet.c relies on outside the library: the sockets with their  *)
(* peers, and the epoll instance that watches them.  Nothing here is code  *)
(* of the repository; it is modelled from the calls exnet.c makes          *)
(* (epoll_ctl, epoll_wait, read, write, connect, getsockopt) and from the  *)
(* flags it passes: EPOLLIN for listening sockets (level triggered) and    *)
(* EPOLLIN | EPOLLOUT | EPOLLET for the others (edge triggered).           *)
(*                                                                         *)
(* Bytes are counted, not named.  For a listening socket rx counts the     *)
(* connections in its backlog.                                             *)
(***************************************************************************)
EXTENDS Integers, FiniteSets

CONSTANTS
    Socks,        \* file descriptors the application uses
    ListenSocks,  \* those of them it listens on
    Stubs,        \* netstub_t objects; the kernel holds pointers to them
    RxCap,        \* bytes (connections) a receive buffer (backlog) holds
    TxCap,        \* bytes a send buffer holds
    EvtSize,      \* struct _epex_in._evt_size, the batch of epoll_wait
    PeerEvents,   \* what peers do besides accepting: send, close, reset, drain
    NULL          \* the null pointer; also "no file descriptor"

ASSUME KernelAssumption ==
    /\ ListenSocks \subseteq Socks
    /\ RxCap \in Nat \ {0}
    /\ TxCap \in Nat \ {0}
    /\ EvtSize \in Nat \ {0}
    /\ PeerEvents \subseteq {"send", "close", "reset", "drain"}
    /\ NULL \notin Socks \cup Stubs

VARIABLES
    sock,   \* per socket: connection, receive buffer, end of file, error, space
    reg,    \* epoll's interest list: ev.data.ptr of each registered socket
    ready   \* epoll's ready list

netVars == <<sock, reg, ready>>

SockState == [link : {"none", "connecting", "up"},
              rx : 0..RxCap, eof : BOOLEAN, err : BOOLEAN,
              room : 0..TxCap, nospace : BOOLEAN]

(* A socket just accepted (or listening), and one socket() just returned.  *)
UpSock == [link |-> "up", rx |-> 0, eof |-> FALSE, err |-> FALSE,
           room |-> TxCap, nospace |-> FALSE]
NewSock == [UpSock EXCEPT !.link = "none"]

NetTypeOK ==
    /\ sock \in [Socks -> SockState]
    /\ reg \in [Socks -> Stubs \cup {NULL}]
    /\ ready \in SUBSET Socks

NetInit ==
    /\ sock = [s \in Socks |-> UpSock]
    /\ reg = [s \in Socks |-> NULL]
    /\ ready = {}

-----------------------------------------------------------------------------
(* epoll. *)

(* The events epoll finds when it looks at a socket; "ERR" stands for      *)
(* EPOLLERR and EPOLLHUP, which a socket that was never connected has too. *)
Readable(s)  == sock[s].rx > 0 \/ sock[s].eof
Writeable(s) == sock[s].link = "up" /\ sock[s].room > 0 /\ s \notin ListenSocks
Broken(s)    == sock[s].err \/ sock[s].link = "none"

Mask(s) == {e \in {"IN", "OUT", "ERR"} :
                \/ e = "IN" /\ Readable(s)
                \/ e = "OUT" /\ Writeable(s)
                \/ e = "ERR" /\ Broken(s)}

(* Looking at a socket that is out of space has the kernel note that       *)
(* somebody waits for it (as a write() that finds none does).              *)
LookedAt(S) ==
    [s \in Socks |-> IF s \in S \ ListenSocks /\ sock[s].link = "up" /\ ~Writeable(s)
                      THEN [sock[s] EXCEPT !.nospace = TRUE] ELSE sock[s]]

(* EPOLL_CTL_ADD puts a socket that has events at once on the ready list. *)
EpollAdd(s, st) ==
    /\ reg' = [reg EXCEPT ![s] = st]
    /\ ready' = IF Mask(s) # {} THEN ready \cup {s} ELSE ready
    /\ sock' = LookedAt({s})

EpollDel(s) ==
    /\ reg' = [reg EXCEPT ![s] = NULL]
    /\ ready' = ready \ {s}

(* The callback a socket runs when something happened to it. *)
Wake(s) == ready' = IF reg[s] # NULL THEN ready \cup {s} ELSE ready

(* epoll_wait looks again at the sockets of the ready list and reports up  *)
(* to EvtSize that still have events.  An edge triggered socket leaves the *)
(* ready list when reported, a level triggered one stays.                  *)
Reportable == {s \in ready : Mask(s) # {}}

Batches == {S \in SUBSET Reportable :
                /\ Cardinality(S) <= EvtSize
                /\ S = Reportable \/ Cardinality(S) = EvtSize}

EpollWait(S) ==
    /\ ready' = (Reportable \ S) \cup (S \cap ListenSocks)
    /\ sock' = LookedAt(ready)
    /\ UNCHANGED reg

-----------------------------------------------------------------------------
(* Peers, and the network under them. *)

(* Data arrives, or a connection on a listening socket. *)
PeerSend(s) ==
    /\ "send" \in PeerEvents /\ sock[s].link = "up"
    /\ ~sock[s].eof /\ ~sock[s].err
    /\ sock[s].rx < RxCap
    /\ sock' = [sock EXCEPT ![s].rx = @ + 1]
    /\ Wake(s)
    /\ UNCHANGED reg

(* The peer closes its side: read returns 0 once the buffer is empty. *)
PeerClose(s) ==
    /\ "close" \in PeerEvents /\ sock[s].link = "up"
    /\ s \notin ListenSocks
    /\ ~sock[s].eof /\ ~sock[s].err
    /\ sock' = [sock EXCEPT ![s].eof = TRUE]
    /\ Wake(s)
    /\ UNCHANGED reg

(* The connection breaks, or a pending connect is refused. *)
PeerReset(s) ==
    /\ "reset" \in PeerEvents /\ sock[s].link # "none"
    /\ s \notin ListenSocks
    /\ ~sock[s].err
    /\ sock' = [sock EXCEPT ![s].err = TRUE]
    /\ Wake(s)
    /\ UNCHANGED reg

(* A pending connect succeeds. *)
PeerAccept(s) ==
    /\ sock[s].link = "connecting"
    /\ ~sock[s].err
    /\ sock' = [sock EXCEPT ![s].link = "up", ![s].nospace = FALSE]
    /\ Wake(s)
    /\ UNCHANGED reg

(* The peer takes a byte.  Epoll hears of the new space only if somebody   *)
(* waits for it.                                                           *)
PeerDrain(s) ==
    /\ "drain" \in PeerEvents /\ sock[s].link = "up"
    /\ ~sock[s].err
    /\ sock[s].room < TxCap
    /\ sock' = [sock EXCEPT ![s].room = @ + 1, ![s].nospace = FALSE]
    /\ IF sock[s].nospace THEN Wake(s) ELSE UNCHANGED ready
    /\ UNCHANGED reg

Peer(s) == \/ PeerSend(s) \/ PeerClose(s) \/ PeerReset(s)
           \/ PeerAccept(s) \/ PeerDrain(s)
=============================================================================
