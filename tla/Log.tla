---------------------------------- MODULE Log ----------------------------------
(***************************************************************************)
(* The log of log.c: several threads write to two files, X.log and         *)
(* X.log.wf; the first thread that logs in a new hour renames both after   *)
(* the hour before and opens new ones.  A thread looks whether the hour    *)
(* has changed without the lock, then again with it; it writes without it. *)
(* A call of err_warn is cut at its reads and writes of what is shared.    *)
(* What is in a line is left out: where a call writes is what matters.     *)
(***************************************************************************)
EXTENDS Integers, FiniteSets

CONSTANTS
    Threads, NoThread,
    Files,            \* the files that may be created
    NULL,             \* no file: a name that does not exist, a closed descriptor
    Other,            \* what the rest of the program has opened: sockets, say
    DescNum,          \* the descriptors are 0 .. DescNum - 1
    MaxOther,         \* bound of how many of them the rest of the program uses
    HourLen,          \* seconds in an hour
    StartTime, MaxTime  \* bounds of the clock

LogAssumption ==
    /\ NoThread \notin Threads
    /\ NULL \notin Files \cup {Other} /\ Other \notin Files
    /\ DescNum \in Nat /\ MaxOther \in Nat
    /\ HourLen \in Nat \ {0} /\ StartTime \in Nat /\ MaxTime \in Nat
    /\ HourLen <= StartTime /\ StartTime <= MaxTime
ASSUME LogAssumption

Kinds == {"log", "wf"}
Descs == 0..(DescNum - 1)
Hour(time) == time \div HourLen

VARIABLES
    clock,    \* time(NULL)
    pc,       \* where each thread is in err_warn; "idle": in no call
    last,     \* _last_tm of each thread; 0: it has not logged yet
    kind,     \* the file that a thread in "write" is about to write to ...
    to,       \* ... and the descriptor it has read for it
    lock,     \* the thread that holds s_log_mutex
    fd,       \* s_log_fd and s_log_warn_fd
    cut,      \* the hour of g_last_cut_time
    desc,     \* what each descriptor of the process refers to
    name,     \* the files X.log and X.log.wf
    archive,  \* the files that are named after an hour
    disturbed, \* history: the threads that have looked at the hour and gone on
               \* to write, since when another thread has been cutting
    wentBack  \* history: whether a cut has gone back to an earlier hour

locals == <<pc, last, kind, to>>
disk == <<name, archive>>
shared == <<lock, fd, cut, desc>>
history == <<disturbed, wentBack>>
vars == <<clock, locals, shared, disk, history>>

Hours == 0..Hour(MaxTime)

AllIdle == [t \in Threads |-> "idle"]
Never == [t \in Threads |-> 0]
NoFd == [k \in Kinds |-> -1]
NoDesc == [d \in Descs |-> NULL]
NoKind == [t \in Threads |-> "log"]
Nowhere == [t \in Threads |-> -1]

Init ==
    /\ clock = StartTime
    /\ pc = AllIdle /\ last = Never /\ kind = NoKind /\ to = Nowhere
    /\ lock = NoThread /\ fd = NoFd /\ cut = 0 /\ desc = NoDesc
    /\ name = [k \in Kinds |-> NULL]
    /\ archive = [k \in Kinds |-> [h \in Hours |-> NULL]]
    /\ disturbed = {} /\ wentBack = FALSE

Goto(t, label) == pc' = [pc EXCEPT ![t] = label]

(* The thread is between line 179 and line 234. *)
Cutting(t) ==
    pc[t] \in {"rename log", "rename wf", "close log", "forget log", "open log",
              "close wf", "forget wf", "open wf"}

(* The thread has looked, and need not cut. *)
Satisfied(t) ==
    disturbed' = IF \E u \in Threads : Cutting(u) THEN disturbed \cup {t} ELSE disturbed
Disturb == disturbed' = disturbed \cup {u \in Threads : pc[u] \in {"pick", "write"}}

-----------------------------------------------------------------------------
(* The hour of the time that the thread has read; slip: the time. *)
TimeOf(t) == last[t]
HourOf(t) == Hour(last[t])

(* Line 165: no files yet, or the hour of the last cut is another one than *)
(* that of the time this thread has read; slip: only the latter.           *)
HourChanged(t) == HourOf(t) # cut
MustCut(t) == fd["log"] < 0 \/ HourOf(t) # cut

(* Up to line 149, and the prefix of the line.  Within the second of its   *)
(* last call a thread does not look at the hour.                           *)
Begin(t) ==
    /\ pc[t] = "idle"
    /\ last' = [last EXCEPT ![t] = clock]
    /\ \/ last[t] < clock /\ Goto(t, "check") /\ UNCHANGED disturbed
       \/ last[t] >= clock /\ Goto(t, "pick") /\ Satisfied(t)
    /\ UNCHANGED <<clock, kind, to, shared, disk, wentBack>>

(* Line 165, without the lock. *)
Check(t) ==
    /\ pc[t] = "check"
    /\ \/ MustCut(t) /\ Goto(t, "lock") /\ UNCHANGED disturbed
       \/ ~MustCut(t) /\ Goto(t, "pick") /\ Satisfied(t)
    /\ UNCHANGED <<clock, last, kind, to, shared, disk, wentBack>>

(* Line 172. *)
Lock(t) ==
    /\ pc[t] = "lock" /\ lock = NoThread
    /\ lock' = t
    /\ Goto(t, "again")
    /\ UNCHANGED <<clock, last, kind, to, fd, cut, desc, disk, history>>

(* "check again", line 173; slip: it is not. *)
MustCutAnyway(t) == TRUE
MustStillCut(t) == MustCut(t)

(* Line 180: no files yet. *)
CutFirst(t) ==
    /\ pc[t] = "again" /\ MustStillCut(t) /\ fd["log"] < 0
    /\ cut' = HourOf(t)
    /\ Goto(t, "open log")
    /\ Disturb
    /\ UNCHANGED <<clock, last, kind, to, lock, fd, desc, disk, wentBack>>

CutHour(t) ==
    /\ pc[t] = "again" /\ MustStillCut(t) /\ fd["log"] >= 0
    /\ Goto(t, "rename log")
    /\ Disturb
    /\ wentBack' = (wentBack \/ HourOf(t) < cut)
    /\ UNCHANGED <<clock, last, kind, to, shared, disk>>

(* Another thread has cut; slip: the lock is kept. *)
CutDoneKeepsLock(t) ==
    /\ pc[t] = "again" /\ ~MustStillCut(t)
    /\ Goto(t, "pick")
    /\ UNCHANGED <<clock, last, kind, to, shared, disk, history>>
CutDone(t) ==
    /\ pc[t] = "again" /\ ~MustStillCut(t)
    /\ Goto(t, "unlock")
    /\ UNCHANGED <<clock, last, kind, to, shared, disk, history>>

-----------------------------------------------------------------------------
(* rename() replaces what has the new name. *)
Rename(k) ==
    IF name[k] = NULL
    THEN UNCHANGED disk
    ELSE /\ archive' = [archive EXCEPT ![k][cut] = name[k]]
         /\ name' = [name EXCEPT ![k] = NULL]

RenameLog(t) ==
    /\ pc[t] = "rename log"
    /\ Rename("log")
    /\ Goto(t, "rename wf")
    /\ UNCHANGED <<clock, last, kind, to, shared, history>>

(* With line 206. *)
RenameWf(t) ==
    /\ pc[t] = "rename wf"
    /\ Rename("wf")
    /\ cut' = HourOf(t)
    /\ Goto(t, "close log")
    /\ UNCHANGED <<clock, last, kind, to, lock, fd, desc, history>>

(* close() if there is something to close.  Only then is -1 stored: in     *)
(* between others may read the number, and open it as something else.      *)
Close(k) == desc' = [d \in Descs |-> IF d = fd[k] THEN NULL ELSE desc[d]]
Forget(k) == fd' = [fd EXCEPT ![k] = -1]

CloseLog(t) ==
    /\ pc[t] = "close log"
    /\ Close("log")
    /\ Goto(t, "forget log")
    /\ UNCHANGED <<clock, last, kind, to, lock, fd, cut, disk, history>>

ForgetLog(t) ==
    /\ pc[t] = "forget log"
    /\ Forget("log")
    /\ Goto(t, "open log")
    /\ UNCHANGED <<clock, last, kind, to, lock, cut, desc, disk, history>>

(* Slip: it is not closed. *)
CloseWfForgotten(t) ==
    /\ pc[t] = "close wf"
    /\ Goto(t, "forget wf")
    /\ UNCHANGED <<clock, last, kind, to, shared, disk, history>>
CloseWf(t) ==
    /\ pc[t] = "close wf"
    /\ Close("wf")
    /\ Goto(t, "forget wf")
    /\ UNCHANGED <<clock, last, kind, to, lock, fd, cut, disk, history>>

ForgetWf(t) ==
    /\ pc[t] = "forget wf"
    /\ Forget("wf")
    /\ Goto(t, "open wf")
    /\ UNCHANGED <<clock, last, kind, to, lock, cut, desc, disk, history>>

(* A new descriptor is the lowest that is free. *)
FreeDescs == {d \in Descs : desc[d] = NULL}
Lowest(d) == d \in FreeDescs /\ \A e \in FreeDescs : d <= e

Unused(f) ==
    /\ \A k \in Kinds : name[k] # f /\ \A h \in Hours : archive[k][h] # f
    /\ \A d \in Descs : desc[d] # f

(* open() with O_CREAT and O_APPEND. *)
Open(k) ==
    \E d \in Descs, f \in Files :
        /\ Lowest(d)
        /\ f = IF name[k] = NULL THEN CHOOSE new \in Files : Unused(new) ELSE name[k]
        /\ desc' = [desc EXCEPT ![d] = f]
        /\ fd' = [fd EXCEPT ![k] = d]
        /\ name' = [name EXCEPT ![k] = f]

OpenLog(t) ==
    /\ pc[t] = "open log"
    /\ Open("log")
    /\ Goto(t, "close wf")
    /\ UNCHANGED <<clock, last, kind, to, lock, cut, archive, history>>

OpenWf(t) ==
    /\ pc[t] = "open wf"
    /\ Open("wf")
    /\ Goto(t, "unlock")
    /\ UNCHANGED <<clock, last, kind, to, lock, cut, archive, history>>

Unlock(t) ==
    /\ pc[t] = "unlock"
    /\ lock' = NoThread
    /\ Goto(t, "pick")
    /\ UNCHANGED <<clock, last, kind, to, fd, cut, desc, disk, history>>

-----------------------------------------------------------------------------
(* Line 257: the descriptor is read ... *)
Pick(t) ==
    /\ pc[t] = "pick"
    /\ \E k \in Kinds :
        /\ kind' = [kind EXCEPT ![t] = k]
        /\ to' = [to EXCEPT ![t] = fd[k]]
    /\ Goto(t, "write")
    /\ UNCHANGED <<clock, last, shared, disk, history>>

(* ... and written to, whatever it refers to by then. *)
Write(t) ==
    /\ pc[t] = "write"
    /\ Goto(t, "idle")
    /\ kind' = [kind EXCEPT ![t] = "log"] /\ to' = [to EXCEPT ![t] = -1]
    /\ disturbed' = disturbed \ {t}
    /\ UNCHANGED <<clock, last, shared, disk, wentBack>>

(* free_log_sp, when a thread ends; another may begin. *)
ThreadExit(t) ==
    /\ pc[t] = "idle" /\ last[t] # 0
    /\ last' = [last EXCEPT ![t] = 0]
    /\ UNCHANGED <<clock, pc, kind, to, shared, disk, history>>

-----------------------------------------------------------------------------
(* init_log, which a program calls before it logs; its own two messages are *)
(* calls of err_warn like any other.                                       *)
InitLog ==
    /\ fd["log"] < 0 /\ \A t \in Threads : pc[t] = "idle"
    /\ cut' = Hour(clock)
    /\ UNCHANGED <<clock, locals, lock, fd, desc, disk, history>>

(* The process ends, or is killed, and is started again: what is on disk   *)
(* stays.                                                                  *)
Restart ==
    /\ pc' = AllIdle /\ last' = Never /\ kind' = NoKind /\ to' = Nowhere
    /\ lock' = NoThread /\ fd' = NoFd /\ cut' = 0 /\ desc' = NoDesc
    /\ disturbed' = {}
    /\ UNCHANGED <<clock, disk, wentBack>>

(* A file cannot be opened: exit(-1). *)
OpenFails(t) ==
    /\ pc[t] \in {"open log", "open wf"} /\ FreeDescs = {}
    /\ Restart

Tick ==
    /\ clock < MaxTime /\ clock' = clock + 1
    /\ UNCHANGED <<locals, shared, disk, history>>

(* The rest of the program opens and closes descriptors of its own. *)
OtherOpens ==
    /\ Cardinality({d \in Descs : desc[d] = Other}) < MaxOther
    /\ \E d \in Descs : Lowest(d) /\ desc' = [desc EXCEPT ![d] = Other]
    /\ UNCHANGED <<clock, locals, lock, fd, cut, disk, history>>

OtherCloses ==
    /\ \E d \in Descs : desc[d] = Other /\ desc' = [desc EXCEPT ![d] = NULL]
    /\ UNCHANGED <<clock, locals, lock, fd, cut, disk, history>>

-----------------------------------------------------------------------------
(* A step of a call of err_warn that has begun. *)
Step(t) ==
    \/ Check(t) \/ Lock(t)
    \/ CutFirst(t) \/ CutHour(t) \/ CutDone(t)
    \/ RenameLog(t) \/ RenameWf(t)
    \/ CloseLog(t) \/ ForgetLog(t) \/ OpenLog(t)
    \/ CloseWf(t) \/ ForgetWf(t) \/ OpenWf(t) \/ OpenFails(t)
    \/ Unlock(t)
    \/ Pick(t) \/ Write(t)

Next ==
    \/ \E t \in Threads : Begin(t) \/ Step(t) \/ ThreadExit(t)
    \/ InitLog \/ Restart
    \/ Tick \/ OtherOpens \/ OtherCloses

Spec == Init /\ [][Next]_vars

(* The mutex is held for a few system calls that do not wait: a thread     *)
(* that waits for it gets it.                                              *)
FairSpec == Spec /\ \A t \in Threads : WF_vars(Step(t))
=============================================================================
