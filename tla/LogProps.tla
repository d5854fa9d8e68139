------------------------------- MODULE LogProps -------------------------------
(* Properties of the log. *)
EXTENDS Log

Labels ==
    {"idle", "check", "lock", "again", "unlock", "pick", "write",
     "rename log", "rename wf", "close log", "forget log", "open log",
     "close wf", "forget wf", "open wf"}

TypeOK ==
    /\ clock \in StartTime..MaxTime
    /\ pc \in [Threads -> Labels]
    /\ last \in [Threads -> 0..MaxTime]
    /\ kind \in [Threads -> Kinds] /\ to \in [Threads -> Descs \cup {-1}]
    /\ lock \in Threads \cup {NoThread}
    /\ fd \in [Kinds -> Descs \cup {-1}] /\ cut \in Hours
    /\ desc \in [Descs -> Files \cup {NULL, Other}]
    /\ name \in [Kinds -> Files \cup {NULL}]
    /\ archive \in [Kinds -> [Hours -> Files \cup {NULL}]]
    /\ disturbed \in SUBSET Threads /\ wentBack \in BOOLEAN

(* A thread is about to store -1 for a descriptor that is closed. *)
Closed(k) ==
    \E t \in Threads : pc[t] = IF k = "log" THEN "forget log" ELSE "forget wf"
FilesOf(k) == {name[k]} \cup {archive[k][h] : h \in Hours}

(* What a thread reads in s_log_fd and s_log_warn_fd without the lock, in  *)
(* the middle of a cut too, is -1, or refers to a file of that kind, new   *)
(* or put away, and never to what others have opened, except between       *)
(* close() and the store of -1.  No other descriptor is left open to a     *)
(* file of the log.  While no thread cuts, the two refer to the files that *)
(* have the two names, both or neither.                                    *)
FilesOpen ==
    /\ \A k \in Kinds : fd[k] >= 0 /\ ~Closed(k) =>
        desc[fd[k]] \in Files /\ desc[fd[k]] \in FilesOf(k)
    /\ \A d \in Descs : desc[d] \in Files => \E k \in Kinds : fd[k] = d
    /\ fd["log"] >= 0 => fd["log"] # fd["wf"]
    /\ (\A t \in Threads : ~Cutting(t)) =>
        /\ \A k \in Kinds : fd[k] >= 0 => desc[fd[k]] = name[k]
        /\ fd["log"] < 0 <=> fd["wf"] < 0

(* A line is not lost, and not written to another file or to what another  *)
(* part of the program has opened, if no other thread cuts between the     *)
(* last look of its thread at the hour and its write(); and the file is    *)
(* that of its hour, as long as no cut has gone back.                      *)
UndisturbedKept ==
    \A t \in Threads : pc[t] = "write" /\ t \notin disturbed =>
        /\ to[t] \in Descs /\ desc[to[t]] \in Files
        /\ desc[to[t]] = name[kind[t]]
        /\ ~wentBack => Hour(last[t]) = cut

(* "cut by hour": what has been put away for an hour is not replaced,      *)
(* unless a thread that had read the time before the hour changed has cut  *)
(* back to the old hour.                                                   *)
ArchivesKept ==
    [][\A k \in Kinds, h \in Hours : ~wentBack' /\ archive[k][h] # NULL
            => archive'[k][h] = archive[k][h]]_vars

(* err_warn returns: a thread that waits for the mutex gets it. *)
CallsReturn == \A t \in Threads : pc[t] # "idle" ~> pc[t] = "idle"
=============================================================================
