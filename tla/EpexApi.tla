------------------------------- MODULE EpexApi -------------------------------
(***************************************************************************)
(* What include/exnet.h promises an application, without sockets, lists,   *)
(* buffers or timers: a socket is unknown, open or dying; a request        *)
(* belongs to one socket, gets one answer, and the answer is handed out    *)
(* once; NET_OP_NOTIFY is the last an application hears of a socket.       *)
(***************************************************************************)
CONSTANTS Socks, Tasks, NULL

VARIABLES
    conn,    \* what the socket is to the library
    owner,   \* the socket a request was made for; NULL: no such request
    answer   \* the result of a request; "" while there is none

vars == <<conn, owner, answer>>

Outstanding(s) == {t \in Tasks : owner[t] = s}
Waiting(s) == {t \in Outstanding(s) : answer[t] = ""}

Init ==
    /\ conn = [s \in Socks |-> "unknown"]
    /\ owner = [t \in Tasks |-> NULL]
    /\ answer = [t \in Tasks |-> ""]

AnswerAll(T, result) ==
    answer' = [t \in Tasks |-> IF t \in T THEN result ELSE answer[t]]

(* epex_attach, epex_listen. *)
Attach(s) ==
    /\ conn[s] = "unknown"
    /\ conn' = [conn EXCEPT ![s] = "open"]
    /\ UNCHANGED <<owner, answer>>

(* epex_read, epex_read_any, epex_write; epex_connect attaches as well. *)
Request(s, t) ==
    /\ conn[s] # "dying" /\ owner[t] = NULL
    /\ conn' = [conn EXCEPT ![s] = "open"]
    /\ owner' = [owner EXCEPT ![t] = s]
    /\ UNCHANGED answer

(* NET_OP_ACCEPT: an answer nobody asked for. *)
Announce(s, t) ==
    /\ conn[s] = "open" /\ owner[t] = NULL
    /\ owner' = [owner EXCEPT ![t] = s]
    /\ answer' = [answer EXCEPT ![t] = "DONE"]
    /\ UNCHANGED conn

(* Requests are done, or fail alone, or with the socket's read side. *)
Answer(s, T, result) ==
    /\ conn[s] = "open" /\ T \subseteq Waiting(s)
    /\ result \in {"DONE", "PART_DONE", "ETIMEOUT", "ECLOSED"}
    /\ AnswerAll(T, result)
    /\ UNCHANGED <<conn, owner>>

(* epex_detach, an idle timeout; also an epex_connect that fails. *)
Kill(s, result) ==
    /\ conn[s] # "dying"
    /\ result \in {"EDETACHED", "EIDLE"}
    /\ conn' = [conn EXCEPT ![s] = "dying"]
    /\ AnswerAll(Waiting(s), result)
    /\ UNCHANGED owner

(* An error on the socket; the requests are answered a little later. *)
Fail(s) ==
    /\ conn[s] = "open"
    /\ conn' = [conn EXCEPT ![s] = "dying"]
    /\ UNCHANGED <<owner, answer>>

FailRequests(s) ==
    /\ conn[s] = "dying"
    /\ AnswerAll(Waiting(s), "ERROR")
    /\ UNCHANGED <<conn, owner>>

(* epex_poll hands out results of one socket. *)
HandOut(s, T) ==
    /\ T \subseteq Outstanding(s) \ Waiting(s)
    /\ owner' = [t \in Tasks |-> IF t \in T THEN NULL ELSE owner[t]]
    /\ AnswerAll(T, "")
    /\ UNCHANGED conn

(* epex_poll hands out NET_OP_NOTIFY. *)
Notify(s) ==
    /\ conn[s] = "dying" /\ Outstanding(s) = {}
    /\ conn' = [conn EXCEPT ![s] = "unknown"]
    /\ UNCHANGED <<owner, answer>>

Next ==
    \E s \in Socks :
        \/ Attach(s)
        \/ \E t \in Tasks : Request(s, t) \/ Announce(s, t)
        \/ \E T \in SUBSET Outstanding(s) : HandOut(s, T)
        \/ \E T \in SUBSET Waiting(s),
              result \in {"DONE", "PART_DONE", "ETIMEOUT", "ECLOSED"} :
              Answer(s, T, result)
        \/ \E result \in {"EDETACHED", "EIDLE"} : Kill(s, result)
        \/ Fail(s) \/ FailRequests(s)
        \/ Notify(s)

Spec == Init /\ [][Next]_vars
=============================================================================
