------------------------------ MODULE LogProofs ------------------------------
(***************************************************************************)
(* The invariants of the log, for any threads, files, descriptors and      *)
(* times.                                                                  *)
(***************************************************************************)
EXTENDS LogProps, TLAPS

(* Where a thread holds s_log_mutex. *)
Critical ==
    {"again", "rename log", "rename wf", "close log", "forget log", "open log",
     "close wf", "forget wf", "open wf", "unlock"}
Forgetting == {"forget log", "forget wf"}
SomeoneCuts == \E t \in Threads : Cutting(t)

Mutex == \A t \in Threads : pc[t] \in Critical <=> lock = t

(* The log's descriptors are its own, and of its files. *)
FdsHeld ==
    /\ \A k \in Kinds : fd[k] \in Descs => (desc[fd[k]] \in Files <=> ~Closed(k))
    /\ \A k \in Kinds : fd[k] \in Descs /\ ~Closed(k) => desc[fd[k]] \in FilesOf(k)
    /\ fd["log"] \in Descs => fd["log"] # fd["wf"]
    /\ \A d \in Descs : desc[d] \in Files => \E k \in Kinds : fd[k] = d

OpenRight(k) == fd[k] \in Descs /\ name[k] \in Files /\ desc[fd[k]] = name[k]

CutStage ==
    /\ ~SomeoneCuts => \/ fd["log"] = -1 /\ fd["wf"] = -1
                       \/ OpenRight("log") /\ OpenRight("wf")
    /\ \A t \in Threads :
        /\ pc[t] = "rename log" => OpenRight("log")
        /\ pc[t] \in {"rename log", "rename wf"} => OpenRight("wf")
        /\ pc[t] = "open log" => fd["log"] = -1
        /\ pc[t] \in {"close wf", "forget wf", "open wf"} => OpenRight("log")
        /\ pc[t] = "open wf" => fd["wf"] = -1

(* A thread that does not look at the hour again may rely on the files. *)
Looked ==
    \A t \in Threads : pc[t] \in {"idle", "pick", "write", "unlock"} /\ last[t] # 0
        => fd["log"] \in Descs \/ SomeoneCuts

Times ==
    /\ \A t \in Threads : last[t] <= clock /\ (pc[t] # "idle" => last[t] # 0)
    /\ cut <= Hour(clock)

Undisturbed ==
    \A t \in Threads : pc[t] \in {"pick", "write"} /\ t \notin disturbed =>
        /\ ~SomeoneCuts
        /\ pc[t] = "write" => to[t] = fd[kind[t]]
        /\ ~wentBack => Hour(last[t]) = cut

Forward ==
    /\ \A t \in Threads :
        pc[t] \in {"close log", "forget log", "open log", "close wf", "forget wf", "open wf",
                  "unlock"}
            => cut = Hour(last[t])
    /\ ~wentBack => \A t \in Threads :
        /\ pc[t] \in {"idle", "pick", "write"} /\ last[t] # 0 => Hour(last[t]) <= cut
        /\ pc[t] \in {"rename log", "rename wf"} => cut < Hour(last[t])

(* What is put away is older than what may still be put away. *)
Archived ==
    ~wentBack => \A k \in Kinds, h \in Hours : archive[k][h] # NULL =>
        /\ h < Hour(clock)
        /\ fd["log"] \notin Descs /\ ~SomeoneCuts
            => \A t \in Threads : last[t] # 0 => h < Hour(last[t])
        /\ fd["log"] \in Descs \/ SomeoneCuts
            => h < cut \/ (k = "log" /\ h = cut /\ \E t \in Threads : pc[t] = "rename wf")

LInv ==
    /\ TypeOK /\ Mutex /\ FdsHeld /\ CutStage /\ Looked
    /\ Times /\ Undisturbed /\ Forward /\ Archived

-----------------------------------------------------------------------------
LEMMA QuotientMonotone ==
  ASSUME NEW n \in Nat \ {0}, NEW x \in Nat, NEW y \in Nat, x <= y
  PROVE  x \div n \in Nat /\ y \div n \in Nat /\ x \div n <= y \div n
OBVIOUS

LEMMA HourFacts ==
    /\ \A x \in Nat : Hour(x) \in Nat
    /\ \A x, y \in Nat : x <= y => Hour(x) <= Hour(y)
    /\ \A x \in 0..MaxTime : Hour(x) \in Hours
<1>1. HourLen \in Nat \ {0} /\ MaxTime \in Nat
  BY LogAssumption DEF LogAssumption
<1>2. ASSUME NEW x \in Nat PROVE Hour(x) \in Nat
  BY <1>1, QuotientMonotone DEF Hour
<1>3. ASSUME NEW x \in Nat, NEW y \in Nat, x <= y PROVE Hour(x) <= Hour(y)
  BY <1>1, <1>3, QuotientMonotone DEF Hour
<1>4. ASSUME NEW x \in 0..MaxTime PROVE Hour(x) \in Hours
  <2>1. x \in Nat /\ MaxTime \in Nat /\ x <= MaxTime
    BY <1>1
  <2>2. Hour(x) <= Hour(MaxTime) /\ Hour(x) \in Nat /\ Hour(MaxTime) \in Nat
    BY <1>2, <1>3, <2>1
  <2> QED BY <2>2 DEF Hours
<1> QED BY <1>2, <1>3, <1>4

LEMMA Numbers ==
    /\ StartTime \in Nat /\ MaxTime \in Nat /\ StartTime <= MaxTime /\ 0 < StartTime
    /\ Descs \subseteq Nat /\ -1 \notin Descs
    /\ NULL \notin Files /\ Other \notin Files /\ NULL # Other /\ NoThread \notin Threads
<1>1. /\ StartTime \in Nat /\ MaxTime \in Nat /\ StartTime <= MaxTime
      /\ HourLen \in Nat \ {0} /\ HourLen <= StartTime /\ DescNum \in Nat
      /\ NULL \notin Files /\ Other \notin Files /\ NULL # Other /\ NoThread \notin Threads
  BY LogAssumption DEF LogAssumption
<1>2. 0 < StartTime
  BY <1>1
<1>3. Descs \subseteq Nat /\ -1 \notin Descs
  BY <1>1 DEF Descs
<1> QED BY <1>1, <1>2, <1>3

-----------------------------------------------------------------------------
LEMMA InitInv == Init => LInv
<1> SUFFICES ASSUME Init PROVE LInv
  OBVIOUS
<1> USE Numbers DEF Init
<1>1. Hour(clock) \in Nat /\ 0 \in Hours
  <2>1. Hour(StartTime) \in Nat /\ Hour(MaxTime) \in Nat
    BY HourFacts
  <2> QED BY <2>1 DEF Hours
<1>2. ~SomeoneCuts
  BY DEF SomeoneCuts, Cutting, AllIdle
<1>3. TypeOK
  <2>1. clock \in StartTime..MaxTime /\ lock \in Threads \cup {NoThread}
    OBVIOUS
  <2>2. /\ pc \in [Threads -> Labels] /\ last \in [Threads -> 0..MaxTime]
        /\ kind \in [Threads -> Kinds] /\ to \in [Threads -> Descs \cup {-1}]
    BY DEF AllIdle, Labels, Never, NoKind, Kinds, Nowhere
  <2>3. /\ fd \in [Kinds -> Descs \cup {-1}] /\ cut \in Hours
        /\ desc \in [Descs -> Files \cup {NULL, Other}]
    BY <1>1 DEF NoFd, NoDesc
  <2>4. /\ name \in [Kinds -> Files \cup {NULL}]
        /\ archive \in [Kinds -> [Hours -> Files \cup {NULL}]]
    OBVIOUS
  <2> QED BY <2>1, <2>2, <2>3, <2>4 DEF TypeOK
<1>4. Mutex /\ FdsHeld
  BY DEF Mutex, Critical, AllIdle, FdsHeld, Closed, NoFd, NoDesc, Kinds
<1>5. CutStage
  BY <1>2 DEF CutStage, AllIdle, NoFd, Kinds
<1>6. Looked /\ Times
  BY <1>1 DEF Looked, Times, AllIdle, Never
<1>7. Undisturbed
  BY DEF Undisturbed, AllIdle
<1>8. Forward
  BY DEF Forward, AllIdle, Never
<1>9. Archived
  BY DEF Archived
<1> QED BY <1>3, <1>4, <1>5, <1>6, <1>7, <1>8, <1>9 DEF LInv

-----------------------------------------------------------------------------
(* A step neither reaches nor leaves a store of -1, and no file changes.   *)
LEMMA ClosedSame ==
  ASSUME LInv, NEW t \in Threads, NEW label \in Labels, pc' = [pc EXCEPT ![t] = label],
         pc[t] \notin Forgetting, label \notin Forgetting
  PROVE  \A k \in Kinds : Closed(k)' <=> Closed(k)
<1>1. pc \in [Threads -> Labels]
  BY DEF LInv, TypeOK
<1>2. \A u \in Threads, label2 \in Forgetting : pc'[u] = label2 <=> pc[u] = label2
  BY <1>1
<1>3. \A k \in Kinds : (IF k = "log" THEN "forget log" ELSE "forget wf") \in Forgetting
  BY DEF Forgetting
<1> QED BY <1>2, <1>3 DEF Closed

LEMMA FilesUntouched ==
  ASSUME LInv, UNCHANGED <<fd, desc, name, archive>>,
         \A k \in Kinds : Closed(k)' <=> Closed(k)
  PROVE  FdsHeld'
<1>1. \A k \in Kinds : FilesOf(k)' = FilesOf(k)
  BY DEF FilesOf
<1>2. FdsHeld
  BY DEF LInv
<1> QED BY <1>1, <1>2 DEF FdsHeld

(* Steps of a call that does not cut, and the end of a thread. *)
LEMMA LocalStep ==
  ASSUME LInv, NEW t \in Threads, NEW label \in Labels,
         UNCHANGED <<clock, fd, cut, desc, disk, wentBack>>,
         last' \in [Threads -> 0..MaxTime],
         \A u \in Threads : last'[u] \in {last[u], clock, 0},
         pc' = [pc EXCEPT ![t] = label], ~Cutting(t),
         label \in {"idle", "check", "lock", "again", "unlock", "pick", "write"}
  PROVE  /\ SomeoneCuts' <=> SomeoneCuts
         /\ FdsHeld' /\ CutStage' /\ Archived'
<1> USE Numbers
<1>1. pc \in [Threads -> Labels] /\ archive' = archive /\ name' = name
  BY DEF LInv, TypeOK, disk
<1>2. \A u \in Threads : Cutting(u)' <=> Cutting(u)
  BY <1>1 DEF Cutting
<1>3. SomeoneCuts' <=> SomeoneCuts
  BY <1>2 DEF SomeoneCuts
<1>4. FdsHeld'
  <2>1. \A k \in Kinds : Closed(k)' <=> Closed(k)
    BY ClosedSame DEF Cutting, Forgetting
  <2> QED BY <1>1, <2>1, FilesUntouched
<1>5. CutStage'
  <2>1. CutStage
    BY DEF LInv
  <2>2. \A u \in Threads :
            pc'[u] \in {"rename log", "rename wf", "open log", "close wf", "forget wf", "open wf"}
                => pc'[u] = pc[u]
    BY <1>1
  <2> QED BY <1>1, <1>3, <2>1, <2>2 DEF CutStage, OpenRight
<1>6. Archived'
  <2>1. Archived
    BY DEF LInv
  <2>2. \A u \in Threads : pc[u] = "rename wf" <=> pc'[u] = "rename wf"
    BY <1>1 DEF Cutting
  <2>3. clock' = clock /\ fd' = fd /\ cut' = cut /\ wentBack' = wentBack
    OBVIOUS
  <2>4. ASSUME ~wentBack', NEW k \in Kinds, NEW h \in Hours, archive'[k][h] # NULL
        PROVE  /\ h < Hour(clock')
               /\ fd'["log"] \notin Descs /\ ~SomeoneCuts'
                   => \A u \in Threads : last'[u] # 0 => h < Hour(last'[u])
               /\ fd'["log"] \in Descs \/ SomeoneCuts'
                   => \/ h < cut'
                      \/ /\ k = "log" /\ h = cut'
                         /\ \E u \in Threads : pc'[u] = "rename wf"
    <3>1. ~wentBack /\ archive[k][h] # NULL
      BY <1>1, <2>3, <2>4
    <3>2. /\ h < Hour(clock)
          /\ fd["log"] \notin Descs /\ ~SomeoneCuts
              => \A u \in Threads : last[u] # 0 => h < Hour(last[u])
          /\ fd["log"] \in Descs \/ SomeoneCuts
              => \/ h < cut
                 \/ k = "log" /\ h = cut /\ \E u \in Threads : pc[u] = "rename wf"
      BY <2>1, <3>1 DEF Archived
    <3> QED BY <1>3, <2>2, <2>3, <3>2
  <2> QED BY <2>4 DEF Archived
<1> QED BY <1>3, <1>4, <1>5, <1>6

LEMMA BeginKeeps ==
  ASSUME LInv, TypeOK', NEW t \in Threads, Begin(t)
  PROVE  LInv'
<1> USE Numbers
<1>1. /\ pc[t] = "idle" /\ last' = [last EXCEPT ![t] = clock]
      /\ UNCHANGED <<clock, kind, to, fd, cut, desc, disk, lock, wentBack>>
  BY DEF Begin, shared
<1>2. pc \in [Threads -> Labels] /\ last \in [Threads -> 0..MaxTime] /\ clock \in StartTime..MaxTime
  BY DEF LInv, TypeOK
<1>3. PICK label \in {"check", "pick"} : pc' = [pc EXCEPT ![t] = label]
  BY DEF Begin, Goto
<1>4. last'[t] = clock /\ \A u \in Threads \ {t} : last'[u] = last[u] /\ pc'[u] = pc[u]
  BY <1>1, <1>2, <1>3
<1>5. (SomeoneCuts' <=> SomeoneCuts) /\ FdsHeld' /\ CutStage' /\ Archived'
  <2>1. ~Cutting(t) /\ label \in Labels
    BY <1>1 DEF Cutting, Labels
  <2>2. last' \in [Threads -> 0..MaxTime]
    BY <1>1, <1>2
  <2> QED BY <1>1, <1>3, <1>4, <2>1, <2>2, LocalStep
<1>6. Mutex'
  BY <1>1, <1>2, <1>3, <1>4 DEF LInv, Mutex, Critical
<1>7. Times'
  BY <1>1, <1>2, <1>3, <1>4 DEF LInv, Times
(* A thread that does not look has looked in this second. *)
<1>8. pc'[t] = "pick" => last[t] = clock /\ last[t] # 0 /\ Satisfied(t)
  <2>1. pc'[t] = "pick" => last[t] >= clock /\ Satisfied(t)
    BY <1>2 DEF Begin, Goto
  <2> QED BY <1>2, <2>1 DEF LInv, Times
<1>9. Looked'
  BY <1>1, <1>2, <1>3, <1>4, <1>5, <1>8 DEF LInv, Looked
<1>10. pc'[t] = "pick" => wentBack \/ Hour(last'[t]) = cut
  <2>1. SUFFICES ASSUME pc'[t] = "pick", ~wentBack PROVE Hour(last'[t]) = cut
    <3>1. cut \in Hours /\ Hour(MaxTime) \in Nat
      BY HourFacts DEF LInv, TypeOK
    <3> QED BY <3>1 DEF Hours
  <2>2. Hour(last[t]) <= cut
    BY <1>1, <1>8, <2>1 DEF LInv, Forward
  <2>3. cut <= Hour(clock)
    BY DEF LInv, Times
  <2>4. Hour(clock) \in Nat /\ cut \in Hours /\ Hour(MaxTime) \in Nat
    BY <1>2, HourFacts DEF LInv, TypeOK
  <2> QED BY <1>4, <1>8, <2>1, <2>2, <2>3, <2>4 DEF Hours
<1>11. Undisturbed'
  <2>1. pc'[t] = "pick" /\ t \notin disturbed' => ~SomeoneCuts
    BY <1>8 DEF Satisfied, SomeoneCuts
  <2>2. disturbed \subseteq disturbed'
    BY DEF Begin, Satisfied
  <2>3. pc'[t] # "write" /\ (pc'[t] = "pick" <=> label = "pick")
    BY <1>2, <1>3
  <2> QED BY <1>1, <1>4, <1>5, <1>10, <2>1, <2>2, <2>3 DEF LInv, Undisturbed
<1>12. Forward'
  <2>1. pc'[t] \in {"check", "pick"}
    BY <1>2, <1>3
  <2>2. pc'[t] = "pick" => wentBack \/ Hour(last'[t]) <= cut
    <3>1. cut \in Hours /\ Hour(MaxTime) \in Nat
      BY HourFacts DEF LInv, TypeOK
    <3>2. cut <= cut
      BY <3>1 DEF Hours
    <3> QED BY <1>10, <3>2
  <2> QED BY <1>1, <1>2, <1>4, <2>1, <2>2 DEF LInv, Forward
<1> QED BY <1>5, <1>6, <1>7, <1>9, <1>11, <1>12 DEF LInv

LEMMA CheckKeeps ==
  ASSUME LInv, TypeOK', NEW t \in Threads, Check(t)
  PROVE  LInv'
<1> USE Numbers
<1>1. /\ pc[t] = "check"
      /\ UNCHANGED <<clock, last, kind, to, fd, cut, desc, disk, lock, wentBack>>
  BY DEF Check, shared
<1>2. pc \in [Threads -> Labels] /\ last \in [Threads -> 0..MaxTime]
      /\ fd \in [Kinds -> Descs \cup {-1}] /\ cut \in Hours
  BY DEF LInv, TypeOK
<1>3. PICK label \in {"lock", "pick"} : pc' = [pc EXCEPT ![t] = label]
  BY DEF Check, Goto
<1>4. pc'[t] = label /\ \A u \in Threads \ {t} : pc'[u] = pc[u]
  BY <1>2, <1>3
<1>5. (SomeoneCuts' <=> SomeoneCuts) /\ FdsHeld' /\ CutStage' /\ Archived'
  <2>1. ~Cutting(t) /\ label \in Labels
    BY <1>1 DEF Cutting, Labels
  <2>2. last' \in [Threads -> 0..MaxTime]
    BY <1>1, <1>2
  <2> QED BY <1>1, <1>3, <2>1, <2>2, LocalStep
<1>6. Mutex'
  BY <1>1, <1>2, <1>3, <1>4 DEF LInv, Mutex, Critical
<1>7. Times'
  BY <1>1, <1>2, <1>3, <1>4 DEF LInv, Times
<1>8. label = "pick" => fd["log"] \in Descs /\ Hour(last[t]) = cut /\ Satisfied(t)
  <2>1. label = "pick" => ~MustCut(t) /\ Satisfied(t)
    BY <1>2, <1>4 DEF Check, Goto
  <2>2. fd["log"] \in Descs \cup {-1}
    BY <1>2 DEF Kinds
  <2> QED BY <2>1, <2>2 DEF MustCut, HourOf
<1>9. Looked'
  BY <1>1, <1>2, <1>4, <1>5, <1>8 DEF LInv, Looked
<1>10. Undisturbed'
  <2>1. label = "pick" /\ t \notin disturbed' => ~SomeoneCuts
    BY <1>8 DEF Satisfied, SomeoneCuts
  <2>2. disturbed \subseteq disturbed'
    BY DEF Check, Satisfied
  <2> QED BY <1>1, <1>4, <1>5, <1>8, <2>1, <2>2 DEF LInv, Undisturbed
<1>11. Forward'
  <2>1. cut <= cut
    <3>1. Hour(MaxTime) \in Nat
      BY HourFacts
    <3> QED BY <1>2, <3>1 DEF Hours
  <2>2. pc'[t] \in {"lock", "pick"}
    BY <1>4
  <2> QED BY <1>1, <1>4, <1>8, <2>1, <2>2 DEF LInv, Forward
<1> QED BY <1>5, <1>6, <1>7, <1>9, <1>10, <1>11 DEF LInv

LEMMA LockKeeps ==
  ASSUME LInv, TypeOK', NEW t \in Threads, Lock(t)
  PROVE  LInv'
<1> USE Numbers
<1>1. /\ pc[t] = "lock" /\ lock = NoThread /\ lock' = t /\ pc' = [pc EXCEPT ![t] = "again"]
      /\ UNCHANGED <<clock, last, kind, to, fd, cut, desc, disk, disturbed, wentBack>>
  BY DEF Lock, Goto, history
<1>2. pc \in [Threads -> Labels] /\ last \in [Threads -> 0..MaxTime]
  BY DEF LInv, TypeOK
<1>4. pc'[t] = "again" /\ \A u \in Threads \ {t} : pc'[u] = pc[u]
  BY <1>1, <1>2
<1>5. (SomeoneCuts' <=> SomeoneCuts) /\ FdsHeld' /\ CutStage' /\ Archived'
  <2>1. ~Cutting(t) /\ "again" \in Labels
    BY <1>1 DEF Cutting, Labels
  <2>2. last' \in [Threads -> 0..MaxTime]
    BY <1>1, <1>2
  <2> QED BY <1>1, <2>1, <2>2, LocalStep
<1>6. Mutex'
  <2>1. \A u \in Threads : u # NoThread
    OBVIOUS
  <2> QED BY <1>1, <1>4, <2>1 DEF LInv, Mutex, Critical
<1>7. Times'
  BY <1>1, <1>4 DEF LInv, Times
<1>9. Looked'
  BY <1>1, <1>4, <1>5 DEF LInv, Looked
<1>10. Undisturbed'
  BY <1>1, <1>4, <1>5 DEF LInv, Undisturbed
<1>11. Forward'
  BY <1>1, <1>4 DEF LInv, Forward
<1> QED BY <1>5, <1>6, <1>7, <1>9, <1>10, <1>11 DEF LInv

(* Another thread has cut: the files are open, and those of this hour. *)
LEMMA CutDoneKeeps ==
  ASSUME LInv, TypeOK', NEW t \in Threads, CutDone(t)
  PROVE  LInv'
<1> USE Numbers
<1>1. /\ pc[t] = "again" /\ ~MustCut(t) /\ pc' = [pc EXCEPT ![t] = "unlock"]
      /\ UNCHANGED <<clock, last, kind, to, lock, fd, cut, desc, disk, disturbed, wentBack>>
  BY DEF CutDone, Goto, history, MustStillCut, shared
<1>2. pc \in [Threads -> Labels] /\ last \in [Threads -> 0..MaxTime]
      /\ fd \in [Kinds -> Descs \cup {-1}]
  BY DEF LInv, TypeOK
<1>3. fd["log"] \in Descs /\ Hour(last[t]) = cut
  <2>1. fd["log"] \in Descs \cup {-1}
    BY <1>2 DEF Kinds
  <2> QED BY <1>1, <2>1 DEF MustCut, HourOf
<1>4. pc'[t] = "unlock" /\ \A u \in Threads \ {t} : pc'[u] = pc[u]
  BY <1>1, <1>2
<1>5. (SomeoneCuts' <=> SomeoneCuts) /\ FdsHeld' /\ CutStage' /\ Archived'
  <2>1. ~Cutting(t) /\ "unlock" \in Labels
    BY <1>1 DEF Cutting, Labels
  <2>2. last' \in [Threads -> 0..MaxTime]
    BY <1>1, <1>2
  <2> QED BY <1>1, <2>1, <2>2, LocalStep
<1>6. Mutex'
  BY <1>1, <1>4 DEF LInv, Mutex, Critical
<1>7. Times'
  BY <1>1, <1>4 DEF LInv, Times
<1>9. Looked'
  BY <1>1, <1>3, <1>4, <1>5 DEF LInv, Looked
<1>10. Undisturbed'
  BY <1>1, <1>4, <1>5 DEF LInv, Undisturbed
<1>11. Forward'
  BY <1>1, <1>3, <1>4 DEF LInv, Forward
<1> QED BY <1>5, <1>6, <1>7, <1>9, <1>10, <1>11 DEF LInv

(* Only the thread with the mutex may be cutting. *)
LEMMA OneCuts ==
  ASSUME LInv, NEW t \in Threads, pc[t] \in Critical
  PROVE  \A u \in Threads : Cutting(u) => u = t
BY DEF LInv, Mutex, Cutting, Critical

LEMMA UnlockKeeps ==
  ASSUME LInv, TypeOK', NEW t \in Threads, Unlock(t)
  PROVE  LInv'
<1> USE Numbers
<1>1. /\ pc[t] = "unlock" /\ lock' = NoThread /\ pc' = [pc EXCEPT ![t] = "pick"]
      /\ UNCHANGED <<clock, last, kind, to, fd, cut, desc, disk, disturbed, wentBack>>
  BY DEF Unlock, Goto, history
<1>2. pc \in [Threads -> Labels] /\ last \in [Threads -> 0..MaxTime] /\ cut \in Hours
  BY DEF LInv, TypeOK
<1>3. ~SomeoneCuts /\ Hour(last[t]) = cut
  <2>1. ~SomeoneCuts
    BY <1>1, OneCuts DEF SomeoneCuts, Cutting, Critical
  <2> QED BY <1>1, <2>1 DEF LInv, Forward
<1>4. pc'[t] = "pick" /\ \A u \in Threads \ {t} : pc'[u] = pc[u]
  BY <1>1, <1>2
<1>5. (SomeoneCuts' <=> SomeoneCuts) /\ FdsHeld' /\ CutStage' /\ Archived'
  <2>1. ~Cutting(t) /\ "pick" \in Labels
    BY <1>1 DEF Cutting, Labels
  <2>2. last' \in [Threads -> 0..MaxTime]
    BY <1>1, <1>2
  <2> QED BY <1>1, <2>1, <2>2, LocalStep
<1>6. Mutex'
  <2>1. \A u \in Threads : u # NoThread
    OBVIOUS
  <2>2. \A u \in Threads \ {t} : pc[u] \notin Critical
    BY <1>1 DEF LInv, Mutex, Critical
  <2> QED BY <1>1, <1>4, <2>1, <2>2 DEF Mutex, Critical
<1>7. Times'
  BY <1>1, <1>4 DEF LInv, Times
<1>9. Looked'
  BY <1>1, <1>4, <1>5 DEF LInv, Looked
<1>10. Undisturbed'
  BY <1>1, <1>3, <1>4, <1>5 DEF LInv, Undisturbed
<1>11. Forward'
  <2>1. cut <= cut
    <3>1. Hour(MaxTime) \in Nat
      BY HourFacts
    <3> QED BY <1>2, <3>1 DEF Hours
  <2> QED BY <1>1, <1>3, <1>4, <2>1 DEF LInv, Forward
<1> QED BY <1>5, <1>6, <1>7, <1>9, <1>10, <1>11 DEF LInv

LEMMA PickKeeps ==
  ASSUME LInv, TypeOK', NEW t \in Threads, Pick(t)
  PROVE  LInv'
<1> USE Numbers
<1>1. /\ pc[t] = "pick" /\ pc' = [pc EXCEPT ![t] = "write"]
      /\ UNCHANGED <<clock, last, lock, fd, cut, desc, disk, disturbed, wentBack>>
  BY DEF Pick, Goto, history, shared
<1>2. /\ pc \in [Threads -> Labels] /\ last \in [Threads -> 0..MaxTime]
      /\ kind \in [Threads -> Kinds] /\ to \in [Threads -> Descs \cup {-1}]
  BY DEF LInv, TypeOK
<1>3. /\ to'[t] = fd'[kind'[t]]
      /\ \A u \in Threads \ {t} : kind'[u] = kind[u] /\ to'[u] = to[u]
  BY <1>1, <1>2 DEF Pick
<1>4. pc'[t] = "write" /\ \A u \in Threads \ {t} : pc'[u] = pc[u]
  BY <1>1, <1>2
<1>5. (SomeoneCuts' <=> SomeoneCuts) /\ FdsHeld' /\ CutStage' /\ Archived'
  <2>1. ~Cutting(t) /\ "write" \in Labels
    BY <1>1 DEF Cutting, Labels
  <2>2. last' \in [Threads -> 0..MaxTime]
    BY <1>1, <1>2
  <2> QED BY <1>1, <2>1, <2>2, LocalStep
<1>6. Mutex'
  BY <1>1, <1>4 DEF LInv, Mutex, Critical
<1>7. Times'
  BY <1>1, <1>4 DEF LInv, Times
<1>9. Looked'
  BY <1>1, <1>4, <1>5 DEF LInv, Looked
<1>10. Undisturbed'
  BY <1>1, <1>3, <1>4, <1>5 DEF LInv, Undisturbed
<1>11. Forward'
  BY <1>1, <1>4 DEF LInv, Forward
<1> QED BY <1>5, <1>6, <1>7, <1>9, <1>10, <1>11 DEF LInv

LEMMA WriteKeeps ==
  ASSUME LInv, TypeOK', NEW t \in Threads, Write(t)
  PROVE  LInv'
<1> USE Numbers
<1>1. /\ pc[t] = "write" /\ pc' = [pc EXCEPT ![t] = "idle"]
      /\ disturbed' = disturbed \ {t}
      /\ UNCHANGED <<clock, last, lock, fd, cut, desc, disk, wentBack>>
  BY DEF Write, Goto, shared
<1>2. /\ pc \in [Threads -> Labels] /\ last \in [Threads -> 0..MaxTime]
      /\ kind \in [Threads -> Kinds] /\ to \in [Threads -> Descs \cup {-1}]
  BY DEF LInv, TypeOK
<1>3. \A u \in Threads \ {t} : kind'[u] = kind[u] /\ to'[u] = to[u]
  BY <1>2 DEF Write
<1>4. pc'[t] = "idle" /\ \A u \in Threads \ {t} : pc'[u] = pc[u]
  BY <1>1, <1>2
<1>5. (SomeoneCuts' <=> SomeoneCuts) /\ FdsHeld' /\ CutStage' /\ Archived'
  <2>1. ~Cutting(t) /\ "idle" \in Labels
    BY <1>1 DEF Cutting, Labels
  <2>2. last' \in [Threads -> 0..MaxTime]
    BY <1>1, <1>2
  <2> QED BY <1>1, <2>1, <2>2, LocalStep
<1>6. Mutex'
  BY <1>1, <1>4 DEF LInv, Mutex, Critical
<1>7. Times'
  BY <1>1, <1>4 DEF LInv, Times
<1>9. Looked'
  BY <1>1, <1>4, <1>5 DEF LInv, Looked
<1>10. Undisturbed'
  BY <1>1, <1>3, <1>4, <1>5 DEF LInv, Undisturbed
<1>11. Forward'
  BY <1>1, <1>4 DEF LInv, Forward
<1> QED BY <1>5, <1>6, <1>7, <1>9, <1>10, <1>11 DEF LInv

LEMMA ThreadExitKeeps ==
  ASSUME LInv, TypeOK', NEW t \in Threads, ThreadExit(t)
  PROVE  LInv'
<1> USE Numbers
<1>1. /\ pc[t] = "idle" /\ pc' = pc /\ last' = [last EXCEPT ![t] = 0]
      /\ UNCHANGED <<clock, kind, to, lock, fd, cut, desc, disk, disturbed, wentBack>>
  BY DEF ThreadExit, shared, history
<1>2. pc \in [Threads -> Labels] /\ last \in [Threads -> 0..MaxTime] /\ clock \in StartTime..MaxTime
  BY DEF LInv, TypeOK
<1>3. last'[t] = 0 /\ \A u \in Threads \ {t} : last'[u] = last[u]
  BY <1>1, <1>2
<1>5. (SomeoneCuts' <=> SomeoneCuts) /\ FdsHeld' /\ CutStage' /\ Archived'
  <2>1. ~Cutting(t) /\ "idle" \in Labels
    BY <1>1 DEF Cutting, Labels
  <2>2. last' \in [Threads -> 0..MaxTime]
    BY <1>1, <1>2
  <2>3. pc' = [pc EXCEPT ![t] = "idle"]
    BY <1>1, <1>2
  <2> QED BY <1>1, <1>3, <2>1, <2>2, <2>3, LocalStep
<1>6. Mutex'
  BY <1>1 DEF LInv, Mutex
<1>7. Times'
  BY <1>1, <1>2, <1>3 DEF LInv, Times
<1>9. Looked'
  BY <1>1, <1>3, <1>5 DEF LInv, Looked
<1>10. Undisturbed'
  BY <1>1, <1>3, <1>5 DEF LInv, Undisturbed
<1>11. Forward'
  BY <1>1, <1>3 DEF LInv, Forward
<1> QED BY <1>5, <1>6, <1>7, <1>9, <1>10, <1>11 DEF LInv

-----------------------------------------------------------------------------
(* A cut begins. *)
LEMMA Cuttable ==
  ASSUME LInv, NEW t \in Threads, pc[t] = "again"
  PROVE  /\ ~SomeoneCuts
         /\ \A u \in Threads \ {t} : pc[u] \notin Critical
         /\ last[t] # 0 /\ last[t] <= clock /\ cut \in Nat
         /\ Hour(last[t]) \in Nat /\ Hour(clock) \in Nat /\ Hour(last[t]) <= Hour(clock)
<1>1. ~SomeoneCuts
  BY OneCuts DEF SomeoneCuts, Cutting, Critical
<1>2. \A u \in Threads \ {t} : pc[u] \notin Critical
  BY DEF LInv, Mutex, Critical
<1>3. last[t] # 0 /\ last[t] <= clock
  BY DEF LInv, Times
<1>4. last[t] \in Nat /\ clock \in Nat /\ cut \in Hours
  BY Numbers DEF LInv, TypeOK
<1>5. cut \in Nat
  BY <1>4 DEF Hours
<1> QED BY <1>1, <1>2, <1>3, <1>4, <1>5, HourFacts

LEMMA CutFirstKeeps ==
  ASSUME LInv, TypeOK', NEW t \in Threads, CutFirst(t)
  PROVE  LInv'
<1> USE Numbers
<1>1. /\ pc[t] = "again" /\ pc' = [pc EXCEPT ![t] = "open log"] /\ cut' = Hour(last[t])
      /\ disturbed' = disturbed \cup {u \in Threads : pc[u] \in {"pick", "write"}}
      /\ UNCHANGED <<clock, last, kind, to, lock, fd, desc, wentBack>>
      /\ archive' = archive /\ name' = name
  BY DEF CutFirst, Goto, Disturb, HourOf, disk
<1>2. /\ pc \in [Threads -> Labels] /\ last \in [Threads -> 0..MaxTime]
      /\ fd \in [Kinds -> Descs \cup {-1}]
  BY DEF LInv, TypeOK
<1>3. fd["log"] = -1
  <2>1. fd["log"] \in Descs \cup {-1}
    BY <1>2 DEF Kinds
  <2>2. fd["log"] < 0 /\ \A d \in Descs : ~(d < 0)
    <3>1. \A d \in Descs : d \in Nat
      OBVIOUS
    <3>2. \A d \in Nat : ~(d < 0)
      OBVIOUS
    <3> QED BY <3>1, <3>2 DEF CutFirst
  <2> QED BY <2>1, <2>2
<1>4. pc'[t] = "open log" /\ \A u \in Threads \ {t} : pc'[u] = pc[u]
  BY <1>1, <1>2
<1>5. /\ ~SomeoneCuts /\ last[t] # 0
      /\ \A u \in Threads \ {t} : pc[u] \notin Critical
      /\ Hour(last[t]) <= Hour(clock)
  BY <1>1, Cuttable
<1>6. SomeoneCuts'
  BY <1>4 DEF SomeoneCuts, Cutting
<1>7. Mutex'
  BY <1>1, <1>4 DEF LInv, Mutex, Critical
<1>8. FdsHeld'
  <2>1. \A k \in Kinds : Closed(k)' <=> Closed(k)
    BY <1>1, ClosedSame DEF Forgetting, Labels
  <2> QED BY <1>1, <2>1, FilesUntouched
<1>9. CutStage'
  <2>1. \A u \in Threads \ {t} : pc'[u] \notin Critical
    BY <1>4, <1>5
  <2> QED BY <1>1, <1>3, <1>4, <1>6, <2>1 DEF CutStage, Critical
<1>10. Looked'
  BY <1>6 DEF Looked
<1>11. Times'
  BY <1>1, <1>4, <1>5 DEF LInv, Times
<1>12. Undisturbed'
  BY <1>1, <1>4 DEF Undisturbed
<1>13. Forward'
  <2>1. \A u \in Threads \ {t} : pc[u] \in {"idle", "pick", "write"} => last[u] = 0
    BY <1>3, <1>5 DEF LInv, Looked
  <2> QED BY <1>1, <1>4, <1>5, <2>1 DEF Forward, Critical
<1>14. Archived'
  <2>1. ASSUME ~wentBack', NEW k \in Kinds, NEW h \in Hours, archive'[k][h] # NULL
        PROVE  h < Hour(clock') /\ h < cut'
    BY <1>1, <1>3, <1>5, <2>1 DEF LInv, Archived
  <2> QED BY <1>6, <2>1 DEF Archived
<1> QED BY <1>7, <1>8, <1>9, <1>10, <1>11, <1>12, <1>13, <1>14 DEF LInv

LEMMA CutHourKeeps ==
  ASSUME LInv, TypeOK', NEW t \in Threads, CutHour(t)
  PROVE  LInv'
<1> USE Numbers
<1>1. /\ pc[t] = "again" /\ pc' = [pc EXCEPT ![t] = "rename log"]
      /\ disturbed' = disturbed \cup {u \in Threads : pc[u] \in {"pick", "write"}}
      /\ UNCHANGED <<clock, last, kind, to, lock, fd, cut, desc>>
      /\ archive' = archive /\ name' = name
  BY DEF CutHour, Goto, Disturb, disk, shared
<1>2. /\ pc \in [Threads -> Labels] /\ last \in [Threads -> 0..MaxTime]
      /\ fd \in [Kinds -> Descs \cup {-1}]
  BY DEF LInv, TypeOK
<1>3. fd["log"] \in Descs
  <2>1. fd["log"] \in Descs \cup {-1} /\ fd["log"] >= 0
    BY <1>2 DEF Kinds, CutHour
  <2> QED BY <2>1
<1>4. pc'[t] = "rename log" /\ \A u \in Threads \ {t} : pc'[u] = pc[u]
  BY <1>1, <1>2
<1>5. /\ ~SomeoneCuts /\ last[t] # 0 /\ cut \in Nat /\ Hour(last[t]) \in Nat
      /\ \A u \in Threads \ {t} : pc[u] \notin Critical
      /\ Hour(last[t]) <= Hour(clock)
  BY <1>1, Cuttable
<1>6. ~wentBack' => ~wentBack /\ cut < Hour(last[t])
  <2>1. Hour(last[t]) # cut
    <3>1. fd["log"] \in Nat
      BY <1>3
    <3>2. ~(fd["log"] < 0)
      BY <3>1
    <3>3. fd["log"] < 0 \/ Hour(last[t]) # cut
      BY DEF CutHour, MustStillCut, MustCut, HourOf
    <3> QED BY <3>2, <3>3
  <2>2. ~wentBack' => ~wentBack /\ ~(Hour(last[t]) < cut)
    BY DEF CutHour, HourOf
  <2> QED BY <1>5, <2>1, <2>2
<1>7. SomeoneCuts'
  BY <1>4 DEF SomeoneCuts, Cutting
<1>8. Mutex'
  BY <1>1, <1>4 DEF LInv, Mutex, Critical
<1>9. FdsHeld'
  <2>1. \A k \in Kinds : Closed(k)' <=> Closed(k)
    BY <1>1, ClosedSame DEF Forgetting, Labels
  <2> QED BY <1>1, <2>1, FilesUntouched
<1>10. CutStage'
  <2>1. \A u \in Threads \ {t} : pc'[u] \notin Critical
    BY <1>4, <1>5
  <2>2. OpenRight("log") /\ OpenRight("wf")
    BY <1>3, <1>5 DEF LInv, CutStage
  <2>3. OpenRight("log")' /\ OpenRight("wf")'
    BY <1>1, <2>2 DEF OpenRight
  <2> QED BY <1>4, <1>7, <2>1, <2>3 DEF CutStage, Critical
<1>11. Looked'
  BY <1>7 DEF Looked
<1>12. Times'
  BY <1>1, <1>4, <1>5 DEF LInv, Times
<1>13. Undisturbed'
  BY <1>1, <1>4 DEF Undisturbed
<1>14. Forward'
  <2>1. \A u \in Threads \ {t} : pc'[u] \notin Critical
    BY <1>4, <1>5
  <2> QED BY <1>1, <1>4, <1>6, <2>1 DEF LInv, Forward, Critical
<1>15. Archived'
  <2>1. ASSUME ~wentBack', NEW k \in Kinds, NEW h \in Hours, archive'[k][h] # NULL
        PROVE  h < Hour(clock') /\ h < cut'
    <3>1. \A u \in Threads : pc[u] # "rename wf"
      BY <1>5 DEF SomeoneCuts, Cutting
    <3> QED BY <1>1, <1>3, <1>6, <2>1, <3>1 DEF LInv, Archived
  <2> QED BY <1>7, <2>1 DEF Archived
<1> QED BY <1>8, <1>9, <1>10, <1>11, <1>12, <1>13, <1>14, <1>15 DEF LInv

-----------------------------------------------------------------------------
(* Steps of a cut: the thread has the mutex, and every thread that writes  *)
(* is disturbed.                                                           *)
LEMMA CutterStep ==
  ASSUME LInv, NEW t \in Threads, Cutting(t), NEW label \in Critical,
         pc' = [pc EXCEPT ![t] = label],
         UNCHANGED <<clock, last, kind, to, lock, disturbed, wentBack>>,
         Cutting(t)' \/ fd'["log"] \in Descs
  PROVE  /\ Mutex' /\ Looked' /\ Undisturbed'
         /\ pc'[t] = label
         /\ \A u \in Threads \ {t} : pc'[u] = pc[u] /\ pc[u] \notin Critical
<1>1. pc \in [Threads -> Labels]
  BY DEF LInv, TypeOK
<1>2. pc'[t] = label /\ \A u \in Threads \ {t} : pc'[u] = pc[u]
  BY <1>1
<1>3. lock = t /\ pc[t] \in Critical /\ \A u \in Threads \ {t} : pc[u] \notin Critical
  BY DEF LInv, Mutex, Cutting, Critical
<1>4. Mutex'
  BY <1>2, <1>3 DEF LInv, Mutex
<1>5. Looked'
  BY DEF Looked, SomeoneCuts
<1>6. Undisturbed'
  <2>1. \A u \in Threads : pc[u] \in {"pick", "write"} => u \in disturbed
    BY DEF LInv, Undisturbed, SomeoneCuts
  <2>2. label \notin {"pick", "write"}
    BY DEF Critical
  <2> QED BY <1>2, <2>1, <2>2 DEF Undisturbed
<1> QED BY <1>2, <1>3, <1>4, <1>5, <1>6

(* Which descriptor is being closed, by where the thread with the mutex is. *)
LEMMA ClosedBy ==
  ASSUME LInv, NEW t \in Threads, pc[t] \in Critical, NEW label \in Critical,
         pc' = [pc EXCEPT ![t] = label]
  PROVE  /\ Closed("log") <=> pc[t] = "forget log"
         /\ Closed("wf") <=> pc[t] = "forget wf"
         /\ Closed("log")' <=> label = "forget log"
         /\ Closed("wf")' <=> label = "forget wf"
<1>1. pc \in [Threads -> Labels]
  BY DEF LInv, TypeOK
<1>2. pc'[t] = label /\ \A u \in Threads \ {t} : pc'[u] = pc[u]
  BY <1>1
<1>3. \A u \in Threads \ {t} : pc[u] \notin Forgetting
  BY DEF LInv, Mutex, Critical, Forgetting
<1> QED BY <1>2, <1>3 DEF Closed, Forgetting

(* close(): the number that is left is of no file any more. *)
LEMMA CloseHeld ==
  ASSUME LInv, NEW k \in Kinds, Close(k), UNCHANGED <<fd, name, archive>>,
         \A j \in Kinds : ~Closed(j), \A j \in Kinds : Closed(j)' <=> j = k
  PROVE  /\ FdsHeld'
         /\ \A j \in Kinds \ {k} : OpenRight(j) => OpenRight(j)'
<1> USE Numbers
<1>1. fd \in [Kinds -> Descs \cup {-1}] /\ desc \in [Descs -> Files \cup {NULL, Other}]
  BY DEF LInv, TypeOK
<1>2. \A d \in Descs : desc'[d] = IF d = fd[k] THEN NULL ELSE desc[d]
  BY <1>1 DEF Close
<1>3. \A i, j \in Kinds : i # j /\ fd[i] \in Descs => fd[i] # fd[j]
  BY DEF LInv, FdsHeld, Kinds
<1>4. \A j \in Kinds \ {k} : fd[j] \in Descs => desc'[fd[j]] = desc[fd[j]]
  BY <1>2, <1>3
<1>5. \A j \in Kinds : FilesOf(j)' = FilesOf(j)
  BY DEF FilesOf
<1>6. FdsHeld'
  <2>1. fd[k] \in Descs => desc'[fd[k]] \notin Files
    BY <1>2
  <2>2. \A j \in Kinds : fd[j] \in Descs => desc[fd[j]] \in Files /\ desc[fd[j]] \in FilesOf(j)
    BY DEF LInv, FdsHeld
  <2>3. \A j \in Kinds : fd'[j] \in Descs => (desc'[fd'[j]] \in Files <=> ~Closed(j)')
    BY <1>4, <2>1, <2>2
  <2>4. \A j \in Kinds : fd'[j] \in Descs /\ ~Closed(j)' => desc'[fd'[j]] \in FilesOf(j)'
    BY <1>4, <1>5, <2>2
  <2>5. \A d \in Descs : desc'[d] \in Files => \E j \in Kinds : fd'[j] = d
    BY <1>2 DEF LInv, FdsHeld
  <2>6. fd'["log"] \in Descs => fd'["log"] # fd'["wf"]
    BY DEF LInv, FdsHeld
  <2> QED BY <2>3, <2>4, <2>5, <2>6 DEF FdsHeld
<1>7. \A j \in Kinds \ {k} : OpenRight(j) => OpenRight(j)'
  BY <1>4 DEF OpenRight
<1> QED BY <1>6, <1>7

(* The store of -1: no descriptor of the log is left behind. *)
LEMMA ForgetHeld ==
  ASSUME LInv, NEW k \in Kinds, Forget(k), UNCHANGED <<desc, name, archive>>,
         \A j \in Kinds : Closed(j) <=> j = k, \A j \in Kinds : ~Closed(j)'
  PROVE  /\ FdsHeld' /\ fd'[k] = -1
         /\ \A j \in Kinds \ {k} : OpenRight(j) => OpenRight(j)'
<1> USE Numbers
<1>1. fd \in [Kinds -> Descs \cup {-1}]
  BY DEF LInv, TypeOK
<1>2. fd'[k] = -1 /\ \A j \in Kinds \ {k} : fd'[j] = fd[j]
  BY <1>1 DEF Forget
<1>3. \A j \in Kinds : FilesOf(j)' = FilesOf(j)
  BY DEF FilesOf
<1>4. FdsHeld'
  <2>1. \A j \in Kinds \ {k} : fd[j] \in Descs
            => desc[fd[j]] \in Files /\ desc[fd[j]] \in FilesOf(j)
    BY DEF LInv, FdsHeld
  <2>2. \A j \in Kinds : fd'[j] \in Descs => j # k
    BY <1>2
  <2>3. \A j \in Kinds : fd'[j] \in Descs => (desc'[fd'[j]] \in Files <=> ~Closed(j)')
    BY <1>2, <2>1, <2>2
  <2>4. \A j \in Kinds : fd'[j] \in Descs /\ ~Closed(j)' => desc'[fd'[j]] \in FilesOf(j)'
    BY <1>2, <1>3, <2>1, <2>2
  <2>5. ASSUME NEW d \in Descs, desc'[d] \in Files PROVE \E j \in Kinds : fd'[j] = d
    <3>1. PICK j \in Kinds : fd[j] = d
      BY <2>5 DEF LInv, FdsHeld
    <3>2. j # k
      BY <2>5, <3>1 DEF LInv, FdsHeld
    <3> QED BY <1>2, <3>1, <3>2
  <2>6. fd'["log"] \in Descs => fd'["log"] # fd'["wf"]
    BY <1>1, <1>2 DEF LInv, FdsHeld, Kinds
  <2> QED BY <2>3, <2>4, <2>5, <2>6 DEF FdsHeld
<1>5. \A j \in Kinds \ {k} : OpenRight(j) => OpenRight(j)'
  BY <1>2 DEF OpenRight
<1> QED BY <1>2, <1>4, <1>5

(* open(): the descriptor is a new one, of the file with the name. *)
LEMMA OpenHeld ==
  ASSUME LInv, NEW k \in Kinds, fd[k] = -1, Open(k), archive' = archive,
         \A j \in Kinds : ~Closed(j) /\ ~Closed(j)'
  PROVE  /\ FdsHeld' /\ OpenRight(k)'
         /\ \A j \in Kinds \ {k} : OpenRight(j) => OpenRight(j)'
<1> USE Numbers
<1>1. /\ fd \in [Kinds -> Descs \cup {-1}] /\ desc \in [Descs -> Files \cup {NULL, Other}]
      /\ name \in [Kinds -> Files \cup {NULL}]
  BY DEF LInv, TypeOK
<1>2. PICK d \in Descs, f \in Files :
          /\ desc[d] = NULL
          /\ desc' = [desc EXCEPT ![d] = f]
          /\ fd' = [fd EXCEPT ![k] = d]
          /\ name' = [name EXCEPT ![k] = f]
  BY DEF Open, Lowest, FreeDescs
<1>3. \A j \in Kinds : fd[j] \in Descs
          => fd[j] # d /\ desc[fd[j]] \in Files /\ desc[fd[j]] \in FilesOf(j)
  BY <1>2 DEF LInv, FdsHeld
<1>4. /\ fd'[k] = d /\ name'[k] = f /\ desc'[d] = f
      /\ \A j \in Kinds \ {k} : fd'[j] = fd[j] /\ name'[j] = name[j]
      /\ \A e \in Descs \ {d} : desc'[e] = desc[e]
  BY <1>1, <1>2
<1>5. FdsHeld'
  <2>1. \A j \in Kinds : fd'[j] \in Descs => desc'[fd'[j]] \in Files
    BY <1>2, <1>3, <1>4
  <2>2. ASSUME NEW j \in Kinds, fd'[j] \in Descs PROVE desc'[fd'[j]] \in FilesOf(j)'
    <3>1. CASE j = k
      BY <1>4, <3>1 DEF FilesOf
    <3>2. CASE j # k
      <4>1. FilesOf(j)' = FilesOf(j)
        BY <1>4, <3>2 DEF FilesOf
      <4>2. fd'[j] = fd[j] /\ fd[j] \in Descs
        BY <1>4, <2>2, <3>2
      <4>3. fd[j] # d /\ desc[fd[j]] \in FilesOf(j)
        BY <1>3, <4>2
      <4>4. desc'[fd[j]] = desc[fd[j]]
        BY <1>4, <4>2, <4>3
      <4> QED BY <4>1, <4>2, <4>3, <4>4
    <3> QED BY <3>1, <3>2
  <2>3. fd'["log"] \in Descs => fd'["log"] # fd'["wf"]
    <3>1. \A j \in Kinds \ {k} : fd'[j] # d
      BY <1>1, <1>2, <1>3, <1>4
    <3>2. \A j \in Kinds \ {k} : fd'[j] # fd'[k]
      BY <1>4, <3>1
    <3> QED BY <3>2 DEF Kinds
  <2>4. ASSUME NEW e \in Descs, desc'[e] \in Files PROVE \E j \in Kinds : fd'[j] = e
    <3>1. CASE e = d
      BY <1>4, <3>1
    <3>2. CASE e # d
      <4>1. PICK j \in Kinds : fd[j] = e
        BY <1>4, <2>4, <3>2 DEF LInv, FdsHeld
      <4>2. j # k
        BY <4>1
      <4> QED BY <1>4, <4>1, <4>2
    <3> QED BY <3>1, <3>2
  <2> QED BY <2>1, <2>2, <2>3, <2>4 DEF FdsHeld
<1>6. OpenRight(k)'
  BY <1>2, <1>4 DEF OpenRight
<1>7. \A j \in Kinds \ {k} : OpenRight(j) => OpenRight(j)'
  BY <1>3, <1>4 DEF OpenRight
<1> QED BY <1>5, <1>6, <1>7

(* rename(): a file that is put away keeps its descriptor. *)
LEMMA RenameHeld ==
  ASSUME LInv, NEW k \in Kinds, Rename(k), OpenRight(k), UNCHANGED <<fd, desc>>,
         \A j \in Kinds : ~Closed(j) /\ ~Closed(j)'
  PROVE  /\ FdsHeld'
         /\ \A j \in Kinds \ {k} : OpenRight(j) => OpenRight(j)'
<1> USE Numbers
<1>1. /\ name \in [Kinds -> Files \cup {NULL}] /\ cut \in Hours
      /\ archive \in [Kinds -> [Hours -> Files \cup {NULL}]]
  BY DEF LInv, TypeOK
<1>2. \A j \in Kinds : fd[j] \in Descs => desc[fd[j]] \in Files /\ desc[fd[j]] \in FilesOf(j)
  BY DEF LInv, FdsHeld
<1>3. name[k] \in Files
  BY <1>2 DEF OpenRight
<1>4. /\ archive' = [archive EXCEPT ![k] = [archive[k] EXCEPT ![cut] = name[k]]]
      /\ name' = [name EXCEPT ![k] = NULL]
  BY <1>3 DEF Rename
<1>5. archive'[k][cut] = name[k]
  <2>1. archive[k] \in [Hours -> Files \cup {NULL}]
    BY <1>1
  <2>2. archive'[k] = [archive[k] EXCEPT ![cut] = name[k]]
    BY <1>1, <1>4
  <2> QED BY <1>1, <2>1, <2>2
<1>6. \A j \in Kinds \ {k} : archive'[j] = archive[j] /\ name'[j] = name[j]
  BY <1>1, <1>4
<1>7. \A j \in Kinds : fd[j] \in Descs => desc[fd[j]] \in FilesOf(j)'
  <2>1. desc[fd[k]] \in FilesOf(k)'
    BY <1>1, <1>5 DEF OpenRight, FilesOf
  <2>2. \A j \in Kinds \ {k} : FilesOf(j)' = FilesOf(j)
    BY <1>6 DEF FilesOf
  <2> QED BY <1>2, <2>1, <2>2
<1>8. FdsHeld'
  BY <1>2, <1>7 DEF LInv, FdsHeld
<1>9. \A j \in Kinds \ {k} : OpenRight(j) => OpenRight(j)'
  BY <1>6 DEF OpenRight
<1> QED BY <1>8, <1>9

-----------------------------------------------------------------------------
(* While a cut goes on after its renames, only the files change. *)
LEMMA FilesStep ==
  ASSUME LInv, TypeOK', NEW t \in Threads,
         pc[t] \in {"close log", "forget log", "open log", "close wf", "forget wf", "open wf"},
         NEW label \in {"forget log", "open log", "close wf", "forget wf", "open wf", "unlock"},
         pc' = [pc EXCEPT ![t] = label],
         UNCHANGED <<clock, last, kind, to, lock, cut, archive, disturbed, wentBack>>,
         label = "unlock" => fd'["log"] \in Descs
  PROVE  Mutex' /\ Looked' /\ Undisturbed' /\ Times' /\ Forward' /\ Archived'
<1> USE Numbers
<1>1. Cutting(t) /\ label \in Critical
  BY DEF Cutting, Critical
<1>2. pc'[t] = label
  BY DEF LInv, TypeOK
<1>3. Cutting(t)' \/ fd'["log"] \in Descs
  BY <1>2 DEF Cutting
<1>4. /\ Mutex' /\ Looked' /\ Undisturbed' /\ pc'[t] = label
      /\ \A u \in Threads \ {t} : pc'[u] = pc[u] /\ pc[u] \notin Critical
  BY <1>1, <1>3, CutterStep
<1>5. SomeoneCuts
  BY <1>1 DEF SomeoneCuts
<1>6. Times'
  BY <1>4, <1>1 DEF LInv, Times, Cutting
<1>7. Forward'
  BY <1>4, <1>5 DEF LInv, Forward, Critical
<1>8. Archived'
  <2>1. ASSUME ~wentBack', NEW k \in Kinds, NEW h \in Hours, archive'[k][h] # NULL
        PROVE  h < Hour(clock') /\ h < cut'
    <3>1. \A u \in Threads : pc[u] # "rename wf"
      BY <1>4 DEF Critical
    <3> QED BY <1>5, <2>1, <3>1 DEF LInv, Archived
  <2>2. fd'["log"] \in Descs \/ SomeoneCuts'
    BY <1>3 DEF SomeoneCuts
  <2> QED BY <2>1, <2>2 DEF Archived
<1> QED BY <1>4, <1>6, <1>7, <1>8

(* The thread that cuts has gone on to "label". *)
LEMMA StageReached ==
  ASSUME LInv, NEW t \in Threads, Cutting(t), NEW label \in Critical \ {"again", "unlock"},
         pc' = [pc EXCEPT ![t] = label],
         label = "rename log" => OpenRight("log")',
         label \in {"rename log", "rename wf"} => OpenRight("wf")',
         label = "open log" => fd'["log"] = -1,
         label \in {"close wf", "forget wf", "open wf"} => OpenRight("log")',
         label = "open wf" => fd'["wf"] = -1
  PROVE  CutStage'
<1>1. pc \in [Threads -> Labels]
  BY DEF LInv, TypeOK
<1>2. pc'[t] = label /\ \A u \in Threads \ {t} : pc'[u] \notin Critical
  BY <1>1 DEF LInv, Mutex, Cutting, Critical
<1>3. SomeoneCuts'
  BY <1>2 DEF SomeoneCuts, Cutting, Critical
<1> QED BY <1>2, <1>3 DEF CutStage, Critical

LEMMA CloseLogKeeps ==
  ASSUME LInv, TypeOK', NEW t \in Threads, CloseLog(t)
  PROVE  LInv'
<1>1. /\ pc[t] = "close log" /\ Close("log") /\ pc' = [pc EXCEPT ![t] = "forget log"]
      /\ UNCHANGED <<clock, last, kind, to, lock, fd, cut, archive, name, disturbed, wentBack>>
  BY DEF CloseLog, Goto, disk, history
<1>2. Mutex' /\ Looked' /\ Undisturbed' /\ Times' /\ Forward' /\ Archived'
  BY <1>1, FilesStep
<1>3. FdsHeld'
  <2>1. /\ ~Closed("log") /\ ~Closed("wf") /\ Closed("log")' /\ ~Closed("wf")'
    BY <1>1, ClosedBy DEF Critical
  <2> QED BY <1>1, <2>1, CloseHeld DEF Kinds
<1>4. CutStage'
  BY <1>1, StageReached DEF Cutting, Critical
<1> QED BY <1>2, <1>3, <1>4 DEF LInv

LEMMA ForgetLogKeeps ==
  ASSUME LInv, TypeOK', NEW t \in Threads, ForgetLog(t)
  PROVE  LInv'
<1>1. /\ pc[t] = "forget log" /\ Forget("log") /\ pc' = [pc EXCEPT ![t] = "open log"]
      /\ UNCHANGED <<clock, last, kind, to, lock, cut, desc, archive, name, disturbed, wentBack>>
  BY DEF ForgetLog, Goto, disk, history
<1>2. Mutex' /\ Looked' /\ Undisturbed' /\ Times' /\ Forward' /\ Archived'
  BY <1>1, FilesStep
<1>3. FdsHeld' /\ fd'["log"] = -1
  <2>1. /\ Closed("log") /\ ~Closed("wf") /\ ~Closed("log")' /\ ~Closed("wf")'
    BY <1>1, ClosedBy DEF Critical
  <2> QED BY <1>1, <2>1, ForgetHeld DEF Kinds
<1>4. CutStage'
  BY <1>1, <1>3, StageReached DEF Cutting, Critical
<1> QED BY <1>2, <1>3, <1>4 DEF LInv

LEMMA OpenLogKeeps ==
  ASSUME LInv, TypeOK', NEW t \in Threads, OpenLog(t)
  PROVE  LInv'
<1>1. /\ pc[t] = "open log" /\ Open("log") /\ pc' = [pc EXCEPT ![t] = "close wf"]
      /\ UNCHANGED <<clock, last, kind, to, lock, cut, archive, disturbed, wentBack>>
  BY DEF OpenLog, Goto, history
<1>2. Mutex' /\ Looked' /\ Undisturbed' /\ Times' /\ Forward' /\ Archived'
  BY <1>1, FilesStep
<1>3. FdsHeld' /\ OpenRight("log")'
  <2>1. fd["log"] = -1
    BY <1>1 DEF LInv, CutStage
  <2>2. /\ ~Closed("log") /\ ~Closed("wf") /\ ~Closed("log")' /\ ~Closed("wf")'
    BY <1>1, ClosedBy DEF Critical
  <2> QED BY <1>1, <2>1, <2>2, OpenHeld DEF Kinds
<1>4. CutStage'
  BY <1>1, <1>3, StageReached DEF Cutting, Critical
<1> QED BY <1>2, <1>3, <1>4 DEF LInv

LEMMA CloseWfKeeps ==
  ASSUME LInv, TypeOK', NEW t \in Threads, CloseWf(t)
  PROVE  LInv'
<1>1. /\ pc[t] = "close wf" /\ Close("wf") /\ pc' = [pc EXCEPT ![t] = "forget wf"]
      /\ UNCHANGED <<clock, last, kind, to, lock, fd, cut, archive, name, disturbed, wentBack>>
  BY DEF CloseWf, Goto, disk, history
<1>2. Mutex' /\ Looked' /\ Undisturbed' /\ Times' /\ Forward' /\ Archived'
  BY <1>1, FilesStep
<1>3. FdsHeld' /\ OpenRight("log")'
  <2>1. /\ ~Closed("log") /\ ~Closed("wf") /\ ~Closed("log")' /\ Closed("wf")'
    BY <1>1, ClosedBy DEF Critical
  <2>2. OpenRight("log")
    BY <1>1 DEF LInv, CutStage
  <2> QED BY <1>1, <2>1, <2>2, CloseHeld DEF Kinds
<1>4. CutStage'
  BY <1>1, <1>3, StageReached DEF Cutting, Critical
<1> QED BY <1>2, <1>3, <1>4 DEF LInv

LEMMA ForgetWfKeeps ==
  ASSUME LInv, TypeOK', NEW t \in Threads, ForgetWf(t)
  PROVE  LInv'
<1>1. /\ pc[t] = "forget wf" /\ Forget("wf") /\ pc' = [pc EXCEPT ![t] = "open wf"]
      /\ UNCHANGED <<clock, last, kind, to, lock, cut, desc, archive, name, disturbed, wentBack>>
  BY DEF ForgetWf, Goto, disk, history
<1>2. Mutex' /\ Looked' /\ Undisturbed' /\ Times' /\ Forward' /\ Archived'
  BY <1>1, FilesStep
<1>3. FdsHeld' /\ fd'["wf"] = -1 /\ OpenRight("log")'
  <2>1. /\ ~Closed("log") /\ Closed("wf") /\ ~Closed("log")' /\ ~Closed("wf")'
    BY <1>1, ClosedBy DEF Critical
  <2>2. OpenRight("log")
    BY <1>1 DEF LInv, CutStage
  <2> QED BY <1>1, <2>1, <2>2, ForgetHeld DEF Kinds
<1>4. CutStage'
  BY <1>1, <1>3, StageReached DEF Cutting, Critical
<1> QED BY <1>2, <1>3, <1>4 DEF LInv

LEMMA OpenWfKeeps ==
  ASSUME LInv, TypeOK', NEW t \in Threads, OpenWf(t)
  PROVE  LInv'
<1>1. /\ pc[t] = "open wf" /\ Open("wf") /\ pc' = [pc EXCEPT ![t] = "unlock"]
      /\ UNCHANGED <<clock, last, kind, to, lock, cut, archive, disturbed, wentBack>>
  BY DEF OpenWf, Goto, history
<1>2. OpenRight("log") /\ fd["wf"] = -1
  BY <1>1 DEF LInv, CutStage
<1>3. FdsHeld' /\ OpenRight("wf")' /\ OpenRight("log")'
  <2>1. /\ ~Closed("log") /\ ~Closed("wf") /\ ~Closed("log")' /\ ~Closed("wf")'
    BY <1>1, ClosedBy DEF Critical
  <2> QED BY <1>1, <1>2, <2>1, OpenHeld DEF Kinds
<1>5. Mutex' /\ Looked' /\ Undisturbed' /\ Times' /\ Forward' /\ Archived'
  BY <1>1, <1>3, FilesStep DEF OpenRight
<1>6. CutStage'
  <2>1. pc'[t] = "unlock" /\ \A u \in Threads \ {t} : pc'[u] \notin Critical
    <3>1. fd'["log"] \in Descs
      BY <1>3 DEF OpenRight
    <3> QED BY <1>1, <3>1, CutterStep DEF Cutting, Critical
  <2> QED BY <1>3, <2>1 DEF CutStage, Critical
<1> QED BY <1>3, <1>5, <1>6 DEF LInv

LEMMA HoursOf ==
  ASSUME LInv, NEW t \in Threads
  PROVE  /\ cut \in Hours /\ cut \in Nat /\ Hour(last[t]) \in Nat /\ Hour(clock) \in Nat
         /\ Hour(last[t]) <= Hour(clock)
         /\ archive \in [Kinds -> [Hours -> Files \cup {NULL}]]
<1>1. last[t] \in 0..MaxTime /\ clock \in StartTime..MaxTime /\ last[t] <= clock
  BY DEF LInv, TypeOK, Times
<1>2. last[t] \in Nat /\ clock \in Nat
  BY <1>1, Numbers
<1>3. /\ Hour(last[t]) \in Nat /\ Hour(clock) \in Nat /\ Hour(last[t]) <= Hour(clock)
      /\ Hour(MaxTime) \in Nat
  BY <1>1, <1>2, HourFacts, Numbers
<1>4. cut \in Hours /\ archive \in [Kinds -> [Hours -> Files \cup {NULL}]]
  BY DEF LInv, TypeOK
<1>5. cut \in Nat
  BY <1>3, <1>4 DEF Hours
<1> QED BY <1>3, <1>4, <1>5

(* Only the name of the last hour is taken. *)
LEMMA RenamedOnly ==
  ASSUME LInv, NEW k \in Kinds, Rename(k), NEW j \in Kinds, NEW h \in Hours,
         archive'[j][h] # archive[j][h]
  PROVE  j = k /\ h = cut
<1>1. archive \in [Kinds -> [Hours -> Files \cup {NULL}]] /\ cut \in Hours
  BY DEF LInv, TypeOK
<1>2. archive' # archive
  OBVIOUS
<1>3. archive' = [archive EXCEPT ![k] = [archive[k] EXCEPT ![cut] = name[k]]]
  BY <1>1, <1>2 DEF Rename, disk
<1>4. \A i \in Kinds \ {k} : archive'[i] = archive[i]
  BY <1>1, <1>3
<1>5. archive'[k] = [archive[k] EXCEPT ![cut] = name[k]] /\ archive[k] \in [Hours -> Files \cup {NULL}]
  BY <1>1, <1>3
<1>6. \A g \in Hours \ {cut} : archive'[k][g] = archive[k][g]
  BY <1>5
<1> QED BY <1>4, <1>6

(* rename() puts away what is older than the hour of this thread, unless   *)
(* the cut goes back.                                                      *)
LEMMA RenameLogKeeps ==
  ASSUME LInv, TypeOK', NEW t \in Threads, RenameLog(t)
  PROVE  LInv'
<1> USE Numbers
<1>1. /\ pc[t] = "rename log" /\ Rename("log") /\ pc' = [pc EXCEPT ![t] = "rename wf"]
      /\ UNCHANGED <<clock, last, kind, to, lock, fd, cut, desc, disturbed, wentBack>>
  BY DEF RenameLog, Goto, shared, history
<1>2. /\ Cutting(t) /\ Cutting(t)' /\ "rename wf" \in Critical
  BY <1>1 DEF Cutting, Critical, LInv, TypeOK
<1>3. /\ Mutex' /\ Looked' /\ Undisturbed' /\ pc'[t] = "rename wf"
      /\ \A u \in Threads \ {t} : pc'[u] = pc[u] /\ pc[u] \notin Critical
  BY <1>1, <1>2, CutterStep
<1>4. SomeoneCuts /\ SomeoneCuts'
  BY <1>2 DEF SomeoneCuts
<1>5. FdsHeld' /\ OpenRight("wf")'
  <2>1. OpenRight("log") /\ OpenRight("wf")
    BY <1>1 DEF LInv, CutStage
  <2>2. /\ ~Closed("log") /\ ~Closed("wf") /\ ~Closed("log")' /\ ~Closed("wf")'
    BY <1>1, ClosedBy DEF Critical
  <2> QED BY <1>1, <2>1, <2>2, RenameHeld DEF Kinds
<1>6. CutStage'
  BY <1>1, <1>2, <1>5, StageReached DEF Critical
<1>7. Times'
  BY <1>1, <1>3 DEF LInv, Times
<1>8. Forward'
  BY <1>1, <1>3 DEF LInv, Forward, Critical
<1>9. Archived'
  <2>1. /\ cut \in Hours /\ cut \in Nat /\ Hour(last[t]) \in Nat /\ Hour(clock) \in Nat
        /\ Hour(last[t]) <= Hour(clock)
        /\ archive \in [Kinds -> [Hours -> Files \cup {NULL}]]
    BY HoursOf
  <2>2. ASSUME ~wentBack', NEW k \in Kinds, NEW h \in Hours, archive'[k][h] # NULL
        PROVE  h < Hour(clock') /\ (h < cut' \/ (k = "log" /\ h = cut'))
    <3>1. cut < Hour(clock)
      <4>1. cut < Hour(last[t])
        BY <1>1, <2>2 DEF LInv, Forward
      <4> QED BY <2>1, <4>1
    <3>2. CASE archive[k][h] # NULL
      <4>1. \A u \in Threads : pc[u] # "rename wf"
        BY <1>1, <1>3 DEF Critical
      <4>2. h < Hour(clock) /\ h < cut
        BY <1>1, <1>4, <2>2, <3>2, <4>1 DEF LInv, Archived
      <4> QED BY <1>1, <4>2
    <3>3. CASE archive[k][h] = NULL
      <4>1. k = "log" /\ h = cut
        BY <1>1, <2>2, <3>3, RenamedOnly DEF Kinds
      <4> QED BY <1>1, <3>1, <4>1
    <3> QED BY <3>2, <3>3
  <2> QED BY <1>3, <1>4, <2>2 DEF Archived
<1> QED BY <1>3, <1>5, <1>6, <1>7, <1>8, <1>9 DEF LInv

LEMMA RenameWfKeeps ==
  ASSUME LInv, TypeOK', NEW t \in Threads, RenameWf(t)
  PROVE  LInv'
<1> USE Numbers
<1>1. /\ pc[t] = "rename wf" /\ Rename("wf") /\ pc' = [pc EXCEPT ![t] = "close log"]
      /\ cut' = Hour(last[t])
      /\ UNCHANGED <<clock, last, kind, to, lock, fd, desc, disturbed, wentBack>>
  BY DEF RenameWf, Goto, HourOf, history
<1>2. /\ Cutting(t) /\ Cutting(t)' /\ "close log" \in Critical
  BY <1>1 DEF Cutting, Critical, LInv, TypeOK
<1>3. /\ Mutex' /\ Looked' /\ Undisturbed' /\ pc'[t] = "close log"
      /\ \A u \in Threads \ {t} : pc'[u] = pc[u] /\ pc[u] \notin Critical
  BY <1>1, <1>2, CutterStep
<1>4. SomeoneCuts /\ SomeoneCuts'
  BY <1>2 DEF SomeoneCuts
<1>5. FdsHeld'
  <2>1. OpenRight("wf")
    BY <1>1 DEF LInv, CutStage
  <2>2. /\ ~Closed("log") /\ ~Closed("wf") /\ ~Closed("log")' /\ ~Closed("wf")'
    BY <1>1, ClosedBy DEF Critical
  <2> QED BY <1>1, <2>1, <2>2, RenameHeld DEF Kinds
<1>6. CutStage'
  BY <1>1, <1>2, StageReached DEF Critical
<1>7. /\ cut \in Hours /\ cut \in Nat /\ Hour(last[t]) \in Nat /\ Hour(clock) \in Nat
      /\ Hour(last[t]) <= Hour(clock)
      /\ archive \in [Kinds -> [Hours -> Files \cup {NULL}]]
  BY HoursOf
<1>8. Times'
  BY <1>1, <1>3, <1>7 DEF LInv, Times
<1>9. ~wentBack => cut < Hour(last[t])
  BY <1>1 DEF LInv, Forward
<1>10. Forward'
  <2>1. ASSUME ~wentBack', NEW u \in Threads \ {t}, pc[u] \in {"idle", "pick", "write"}, last[u] # 0
        PROVE  Hour(last[u]) <= cut'
    <3>1. Hour(last[u]) <= cut
      BY <1>1, <2>1 DEF LInv, Forward
    <3>2. Hour(last[u]) \in Nat
      <4>1. last[u] \in Nat
        BY DEF LInv, TypeOK
      <4> QED BY <4>1, HourFacts
    <3>3. cut < cut' /\ cut' \in Nat
      BY <1>1, <1>7, <1>9, <2>1
    <3> QED BY <1>7, <3>1, <3>2, <3>3
  <2> QED BY <1>1, <1>3, <2>1 DEF Forward, Critical
<1>11. Archived'
  <2>1. ASSUME ~wentBack', NEW k \in Kinds, NEW h \in Hours, archive'[k][h] # NULL
        PROVE  h < Hour(clock') /\ h < cut'
    <3>1. h \in Nat
      <4>1. Hour(MaxTime) \in Nat
        BY HourFacts
      <4> QED BY <4>1 DEF Hours
    <3>4. cut < cut' /\ cut' \in Nat /\ clock' = clock /\ cut < Hour(clock)
      <4>1. cut < Hour(last[t])
        BY <1>1, <1>9, <2>1
      <4>2. clock' = clock /\ cut' = Hour(last[t])
        BY <1>1
      <4> QED BY <1>7, <4>1, <4>2
    <3>2. CASE archive[k][h] # NULL
      <4>1. h < Hour(clock) /\ (h < cut \/ h = cut)
        BY <1>1, <1>4, <2>1, <3>2 DEF LInv, Archived
      <4> QED BY <1>7, <3>1, <3>4, <4>1
    <3>3. CASE archive[k][h] = NULL
      <4>1. h = cut
        BY <1>1, <2>1, <3>3, RenamedOnly DEF Kinds
      <4> QED BY <3>4, <4>1
    <3> QED BY <3>2, <3>3
  <2> QED BY <1>4, <2>1 DEF Archived
<1> QED BY <1>3, <1>5, <1>6, <1>8, <1>10, <1>11 DEF LInv

-----------------------------------------------------------------------------
(* After a restart the descriptors are closed, and each thread has yet to  *)
(* read the time: what is on disk is of earlier hours.                     *)
LEMMA RestartKeeps ==
  ASSUME LInv, TypeOK', Restart
  PROVE  LInv'
<1> USE Numbers
<1>1. /\ pc' = AllIdle /\ last' = Never /\ kind' = NoKind /\ to' = Nowhere
      /\ lock' = NoThread /\ fd' = NoFd /\ cut' = 0 /\ desc' = NoDesc
      /\ disturbed' = {} /\ clock' = clock /\ archive' = archive /\ wentBack' = wentBack
  BY DEF Restart, disk
<1>2. \A t \in Threads : pc'[t] = "idle" /\ last'[t] = 0
  BY <1>1 DEF AllIdle, Never
<1>3. /\ fd'["log"] = -1 /\ fd'["wf"] = -1 /\ \A k \in Kinds : fd'[k] = -1
      /\ \A d \in Descs : desc'[d] = NULL
  BY <1>1 DEF NoFd, NoDesc, Kinds
<1>4. ~SomeoneCuts'
  BY <1>2 DEF SomeoneCuts, Cutting
<1>5. clock \in Nat /\ Hour(clock) \in Nat
  BY HourFacts DEF LInv, TypeOK
<1>6. Mutex'
  <2>1. \A t \in Threads : lock' # t
    BY <1>1
  <2> QED BY <1>2, <2>1 DEF Mutex, Critical
<1>7. FdsHeld'
  BY <1>3 DEF FdsHeld, Kinds
<1>8. CutStage' /\ Looked' /\ Undisturbed' /\ Forward'
  BY <1>2, <1>3 DEF CutStage, Looked, Undisturbed, Forward
<1>9. Times'
  BY <1>1, <1>2, <1>5 DEF Times
<1>10. Archived'
  BY <1>1, <1>2, <1>3, <1>4 DEF LInv, Archived
<1> QED BY <1>6, <1>7, <1>8, <1>9, <1>10 DEF LInv

LEMMA InitLogKeeps ==
  ASSUME LInv, TypeOK', InitLog
  PROVE  LInv'
<1> USE Numbers
<1>1. /\ fd["log"] < 0 /\ \A t \in Threads : pc[t] = "idle"
      /\ cut' = Hour(clock)
      /\ UNCHANGED <<clock, pc, last, kind, to, lock, fd, desc, name, archive, disturbed, wentBack>>
  BY DEF InitLog, locals, disk, history
<1>2. fd["log"] \notin Descs
  <2>1. \A d \in Nat : ~(d < 0)
    OBVIOUS
  <2> QED BY <1>1, <2>1
<1>3. ~SomeoneCuts
  BY <1>1 DEF SomeoneCuts, Cutting
<1>4. SomeoneCuts' <=> SomeoneCuts
  BY <1>1 DEF SomeoneCuts, Cutting
<1>5. \A t \in Threads : last[t] = 0
  BY <1>1, <1>2, <1>3 DEF LInv, Looked
<1>6. Hour(clock) \in Nat
  <2>1. clock \in Nat
    BY DEF LInv, TypeOK
  <2> QED BY <2>1, HourFacts
<1>7. Mutex' /\ FdsHeld'
  BY <1>1, FilesUntouched DEF LInv, Mutex, Closed
<1>8. CutStage' /\ Looked'
  BY <1>1, <1>4 DEF LInv, CutStage, OpenRight, Looked
<1>9. Times'
  BY <1>1, <1>6 DEF LInv, Times
<1>10. Undisturbed' /\ Forward'
  BY <1>1, <1>5 DEF Undisturbed, Forward
<1>11. Archived'
  BY <1>1, <1>2, <1>3, <1>4 DEF LInv, Archived
<1> QED BY <1>7, <1>8, <1>9, <1>10, <1>11 DEF LInv

LEMMA TickKeeps ==
  ASSUME LInv, TypeOK', Tick
  PROVE  LInv'
<1> USE Numbers
<1>1. /\ clock' = clock + 1
      /\ UNCHANGED <<pc, last, kind, to, lock, fd, cut, desc, name, archive, disturbed, wentBack>>
  BY DEF Tick, locals, shared, disk, history
<1>2. /\ clock \in Nat /\ Hour(clock) \in Nat /\ Hour(clock') \in Nat
      /\ Hour(clock) <= Hour(clock')
  <2>1. clock \in Nat /\ clock' \in Nat /\ clock <= clock'
    BY <1>1 DEF LInv, TypeOK
  <2> QED BY <2>1, HourFacts
<1>3. /\ \A t \in Threads : last[t] \in Nat /\ last[t] <= clock
      /\ cut \in Nat /\ cut <= Hour(clock)
  <2>1. \A t \in Threads : last[t] \in 0..MaxTime
    BY DEF LInv, TypeOK
  <2>2. cut \in Nat
    <3>1. Hour(MaxTime) \in Nat /\ cut \in Hours
      BY HourFacts DEF LInv, TypeOK
    <3> QED BY <3>1 DEF Hours
  <2> QED BY <2>1, <2>2 DEF LInv, Times
<1>4. SomeoneCuts' <=> SomeoneCuts
  BY <1>1 DEF SomeoneCuts, Cutting
<1>5. Mutex' /\ FdsHeld'
  BY <1>1, FilesUntouched DEF LInv, Mutex, Closed
<1>6. CutStage' /\ Looked'
  BY <1>1, <1>4 DEF LInv, CutStage, OpenRight, Looked
<1>7. Times'
  <2>1. \A t \in Threads : last[t] <= clock + 1
    BY <1>2, <1>3
  <2>2. cut <= Hour(clock')
    BY <1>2, <1>3
  <2> QED BY <1>1, <2>1, <2>2 DEF LInv, Times
<1>8. Undisturbed' /\ Forward'
  BY <1>1, <1>4 DEF LInv, Undisturbed, Forward
<1>9. Archived'
  <2>1. ASSUME NEW h \in Hours, h < Hour(clock) PROVE h < Hour(clock')
    <3>1. h \in Nat
      <4>1. Hour(MaxTime) \in Nat
        BY HourFacts
      <4> QED BY <4>1 DEF Hours
    <3> QED BY <1>2, <2>1, <3>1
  <2> QED BY <1>1, <1>4, <2>1 DEF LInv, Archived
<1> QED BY <1>5, <1>6, <1>7, <1>8, <1>9 DEF LInv

(* The rest of the program does not close descriptors of the log. *)
LEMMA OtherKeeps ==
  ASSUME LInv, TypeOK', OtherOpens \/ OtherCloses
  PROVE  LInv'
<1> USE Numbers
<1>1. /\ UNCHANGED <<clock, pc, last, kind, to, lock, fd, cut, name, archive, disturbed, wentBack>>
  BY DEF OtherOpens, OtherCloses, locals, disk, history
<1>2. desc \in [Descs -> Files \cup {NULL, Other}]
  BY DEF LInv, TypeOK
<1>3. PICK d \in Descs, what \in {NULL, Other} :
          desc[d] \notin Files /\ desc' = [desc EXCEPT ![d] = what]
  BY DEF OtherOpens, OtherCloses, Lowest, FreeDescs
<1>4. /\ \A e \in Descs : desc'[e] \in Files <=> desc[e] \in Files
      /\ \A e \in Descs : desc[e] \in Files => desc'[e] = desc[e]
  BY <1>2, <1>3
<1>5. SomeoneCuts' <=> SomeoneCuts
  BY <1>1 DEF SomeoneCuts, Cutting
<1>6. Mutex'
  BY <1>1 DEF LInv, Mutex
<1>7. FdsHeld'
  <2>1. \A k \in Kinds : (Closed(k)' <=> Closed(k)) /\ FilesOf(k)' = FilesOf(k)
    BY <1>1 DEF Closed, FilesOf
  <2> QED BY <1>1, <1>4, <2>1 DEF LInv, FdsHeld
<1>8. CutStage'
  <2>1. \A k \in Kinds : OpenRight(k) => OpenRight(k)'
    BY <1>1, <1>4 DEF OpenRight
  <2>2. "log" \in Kinds /\ "wf" \in Kinds
    BY DEF Kinds
  <2> QED BY <1>1, <1>5, <2>1, <2>2 DEF LInv, CutStage
<1>9. Looked' /\ Times'
  BY <1>1, <1>5 DEF LInv, Looked, Times
<1>10. Undisturbed' /\ Forward'
  BY <1>1, <1>5 DEF LInv, Undisturbed, Forward
<1>11. Archived'
  BY <1>1, <1>5 DEF LInv, Archived
<1> QED BY <1>6, <1>7, <1>8, <1>9, <1>10, <1>11 DEF LInv

LEMMA StutterKeeps ==
  ASSUME LInv, UNCHANGED vars
  PROVE  LInv'
<1>1. UNCHANGED <<clock, pc, last, kind, to, lock, fd, cut, desc, name, archive, disturbed, wentBack>>
  BY DEF vars, locals, shared, disk, history
<1>2. SomeoneCuts' <=> SomeoneCuts
  BY <1>1 DEF SomeoneCuts, Cutting
<1>3. TypeOK' /\ Mutex' /\ FdsHeld'
  BY <1>1, FilesUntouched DEF LInv, TypeOK, Mutex, Closed
<1>4. CutStage' /\ Looked' /\ Times'
  BY <1>1, <1>2 DEF LInv, CutStage, OpenRight, Looked, Times
<1>5. Undisturbed' /\ Forward' /\ Archived'
  BY <1>1, <1>2 DEF LInv, Undisturbed, Forward, Archived
<1> QED BY <1>3, <1>4, <1>5 DEF LInv

-----------------------------------------------------------------------------
LEMMA LocalsTyped ==
  ASSUME TypeOK, NEW t \in Threads
  PROVE  /\ \A label \in Labels : [pc EXCEPT ![t] = label] \in [Threads -> Labels]
         /\ \A x \in 0..MaxTime : [last EXCEPT ![t] = x] \in [Threads -> 0..MaxTime]
         /\ \A k \in Kinds : [kind EXCEPT ![t] = k] \in [Threads -> Kinds]
         /\ \A d \in Descs \cup {-1} : [to EXCEPT ![t] = d] \in [Threads -> Descs \cup {-1}]
BY DEF TypeOK

LEMMA TypeKept == TypeOK /\ [Next]_vars => TypeOK'
<1> SUFFICES ASSUME TypeOK, [Next]_vars PROVE TypeOK'
  OBVIOUS
<1> USE Numbers
<1>0. /\ clock \in StartTime..MaxTime /\ clock \in 0..MaxTime
      /\ pc \in [Threads -> Labels] /\ last \in [Threads -> 0..MaxTime]
      /\ kind \in [Threads -> Kinds] /\ to \in [Threads -> Descs \cup {-1}]
      /\ lock \in Threads \cup {NoThread}
      /\ fd \in [Kinds -> Descs \cup {-1}] /\ cut \in Hours
      /\ desc \in [Descs -> Files \cup {NULL, Other}]
      /\ name \in [Kinds -> Files \cup {NULL}]
      /\ archive \in [Kinds -> [Hours -> Files \cup {NULL}]]
      /\ disturbed \in SUBSET Threads /\ wentBack \in BOOLEAN
  BY DEF TypeOK
<1>1. CASE UNCHANGED vars
  BY <1>0, <1>1 DEF vars, locals, shared, disk, history, TypeOK
<1>2. ASSUME NEW t \in Threads, Begin(t) PROVE TypeOK'
  <2>1. pc' \in [Threads -> Labels] /\ last' \in [Threads -> 0..MaxTime]
    <3>1. PICK label \in Labels : pc' = [pc EXCEPT ![t] = label]
      BY <1>2 DEF Begin, Goto, Labels
    <3>2. last' = [last EXCEPT ![t] = clock]
      BY <1>2 DEF Begin
    <3> QED BY <1>0, <3>1, <3>2
  <2>2. disturbed' \in SUBSET Threads
    BY <1>0, <1>2 DEF Begin, Satisfied
  <2> QED BY <1>0, <1>2, <2>1, <2>2 DEF Begin, shared, disk, TypeOK
<1>3. ASSUME NEW t \in Threads, Check(t) PROVE TypeOK'
  <2>1. pc' \in [Threads -> Labels]
    <3>1. PICK label \in Labels : pc' = [pc EXCEPT ![t] = label]
      BY <1>3 DEF Check, Goto, Labels
    <3> QED BY <1>0, <3>1
  <2>2. disturbed' \in SUBSET Threads
    BY <1>0, <1>3 DEF Check, Satisfied
  <2> QED BY <1>0, <1>3, <2>1, <2>2 DEF Check, shared, disk, TypeOK
<1>4. ASSUME NEW t \in Threads, Lock(t) \/ Unlock(t) PROVE TypeOK'
  <2>1. pc' \in [Threads -> Labels]
    <3>1. PICK label \in Labels : pc' = [pc EXCEPT ![t] = label]
      BY <1>4 DEF Lock, Unlock, Goto, Labels
    <3> QED BY <1>0, <3>1
  <2>2. lock' \in Threads \cup {NoThread}
    BY <1>4 DEF Lock, Unlock
  <2> QED BY <1>0, <1>4, <2>1, <2>2 DEF Lock, Unlock, disk, history, TypeOK
<1>5. ASSUME NEW t \in Threads, CutFirst(t) \/ CutHour(t) \/ CutDone(t) PROVE TypeOK'
  <2>1. pc' \in [Threads -> Labels]
    <3>1. PICK label \in Labels : pc' = [pc EXCEPT ![t] = label]
      BY <1>5 DEF CutFirst, CutHour, CutDone, Goto, Labels
    <3> QED BY <1>0, <3>1
  <2>2. disturbed' \in SUBSET Threads /\ wentBack' \in BOOLEAN
    BY <1>0, <1>5 DEF CutFirst, CutHour, CutDone, Disturb, history
  <2>3. cut' \in Hours
    <3>1. cut' \in {cut, Hour(last[t])}
      BY <1>5 DEF CutFirst, CutHour, CutDone, HourOf, shared
    <3>2. last[t] \in 0..MaxTime
      BY <1>0
    <3> QED BY <1>0, <3>1, <3>2, HourFacts
  <2> QED BY <1>0, <1>5, <2>1, <2>2, <2>3 DEF CutFirst, CutHour, CutDone, shared, disk, TypeOK
<1>6. ASSUME NEW t \in Threads, RenameLog(t) \/ RenameWf(t) PROVE TypeOK'
  <2>1. pc' \in [Threads -> Labels]
    <3>1. PICK label \in Labels : pc' = [pc EXCEPT ![t] = label]
      BY <1>6 DEF RenameLog, RenameWf, Goto, Labels
    <3> QED BY <1>0, <3>1
  <2>2. cut' \in Hours
    <3>1. cut' \in {cut, Hour(last[t])}
      BY <1>6 DEF RenameLog, RenameWf, HourOf, shared
    <3>2. last[t] \in 0..MaxTime
      BY <1>0
    <3> QED BY <1>0, <3>1, <3>2, HourFacts
  <2>3. PICK k \in Kinds : Rename(k)
    BY <1>6 DEF RenameLog, RenameWf, Kinds
  <2>4. /\ name' \in [Kinds -> Files \cup {NULL}]
        /\ archive' \in [Kinds -> [Hours -> Files \cup {NULL}]]
    <3>1. CASE name[k] = NULL
      BY <1>0, <2>3, <3>1 DEF Rename, disk
    <3>2. CASE name[k] # NULL
      <4>1. /\ archive' = [archive EXCEPT ![k] = [archive[k] EXCEPT ![cut] = name[k]]]
            /\ name' = [name EXCEPT ![k] = NULL]
        BY <2>3, <3>2 DEF Rename
      <4>2. [archive[k] EXCEPT ![cut] = name[k]] \in [Hours -> Files \cup {NULL}]
        BY <1>0
      <4> QED BY <1>0, <4>1, <4>2
    <3> QED BY <3>1, <3>2
  <2> QED BY <1>0, <1>6, <2>1, <2>2, <2>4 DEF RenameLog, RenameWf, shared, history, TypeOK
<1>7. ASSUME NEW t \in Threads, CloseLog(t) \/ CloseWf(t) \/ ForgetLog(t) \/ ForgetWf(t)
      PROVE  TypeOK'
  <2>1. pc' \in [Threads -> Labels]
    <3>1. PICK label \in Labels : pc' = [pc EXCEPT ![t] = label]
      BY <1>7 DEF CloseLog, CloseWf, ForgetLog, ForgetWf, Goto, Labels
    <3> QED BY <1>0, <3>1
  <2>2. PICK k \in Kinds : (Close(k) /\ fd' = fd) \/ (Forget(k) /\ desc' = desc)
    BY <1>7 DEF CloseLog, CloseWf, ForgetLog, ForgetWf, Kinds
  <2>3. /\ fd' \in [Kinds -> Descs \cup {-1}]
        /\ desc' \in [Descs -> Files \cup {NULL, Other}]
    BY <1>0, <2>2 DEF Close, Forget
  <2> QED
    BY <1>0, <1>7, <2>1, <2>3
    DEF CloseLog, CloseWf, ForgetLog, ForgetWf, disk, history, TypeOK
<1>8. ASSUME NEW t \in Threads, OpenLog(t) \/ OpenWf(t) PROVE TypeOK'
  <2>1. pc' \in [Threads -> Labels]
    <3>1. PICK label \in Labels : pc' = [pc EXCEPT ![t] = label]
      BY <1>8 DEF OpenLog, OpenWf, Goto, Labels
    <3> QED BY <1>0, <3>1
  <2>2. PICK k \in Kinds : Open(k)
    BY <1>8 DEF OpenLog, OpenWf, Kinds
  <2>3. PICK d \in Descs, f \in Files :
            /\ desc' = [desc EXCEPT ![d] = f]
            /\ fd' = [fd EXCEPT ![k] = d]
            /\ name' = [name EXCEPT ![k] = f]
    BY <2>2 DEF Open
  <2>4. /\ fd' \in [Kinds -> Descs \cup {-1}]
        /\ desc' \in [Descs -> Files \cup {NULL, Other}]
        /\ name' \in [Kinds -> Files \cup {NULL}]
    BY <1>0, <2>3
  <2> QED BY <1>0, <1>8, <2>1, <2>4 DEF OpenLog, OpenWf, history, TypeOK
<1>9. ASSUME Restart PROVE TypeOK'
  <2>1. 0 \in Hours
    <3>1. Hour(MaxTime) \in Nat
      BY HourFacts
    <3> QED BY <3>1 DEF Hours
  <2>2. /\ pc' \in [Threads -> Labels] /\ last' \in [Threads -> 0..MaxTime]
        /\ kind' \in [Threads -> Kinds] /\ to' \in [Threads -> Descs \cup {-1}]
    BY <1>9 DEF Restart, AllIdle, Labels, Never, NoKind, Kinds, Nowhere
  <2>3. /\ fd' \in [Kinds -> Descs \cup {-1}] /\ cut' \in Hours
        /\ desc' \in [Descs -> Files \cup {NULL, Other}]
    BY <1>9, <2>1 DEF Restart, NoFd, NoDesc
  <2>4. lock' \in Threads \cup {NoThread} /\ disturbed' \in SUBSET Threads
    BY <1>9 DEF Restart
  <2> QED BY <1>0, <1>9, <2>2, <2>3, <2>4 DEF Restart, disk, TypeOK
<1>10. ASSUME NEW t \in Threads, Pick(t) PROVE TypeOK'
  <2>1. pc' \in [Threads -> Labels]
    BY <1>0, <1>10, LocalsTyped DEF Pick, Goto, Labels
  <2>2. kind' \in [Threads -> Kinds] /\ to' \in [Threads -> Descs \cup {-1}]
    BY <1>0, <1>10, LocalsTyped DEF Pick
  <2> QED BY <1>0, <1>10, <2>1, <2>2 DEF Pick, shared, disk, history, TypeOK
<1>11. ASSUME NEW t \in Threads, Write(t) PROVE TypeOK'
  <2>1. pc' \in [Threads -> Labels]
    BY <1>0, <1>11, LocalsTyped DEF Write, Goto, Labels
  <2>2. kind' \in [Threads -> Kinds] /\ to' \in [Threads -> Descs \cup {-1}]
    BY <1>0, <1>11, LocalsTyped DEF Write, Kinds
  <2>3. disturbed' \in SUBSET Threads
    BY <1>0, <1>11 DEF Write
  <2> QED BY <1>0, <1>11, <2>1, <2>2, <2>3 DEF Write, shared, disk, TypeOK
<1>12. ASSUME NEW t \in Threads, ThreadExit(t) PROVE TypeOK'
  <2>1. last' \in [Threads -> 0..MaxTime]
    BY <1>0, <1>12 DEF ThreadExit
  <2> QED BY <1>0, <1>12, <2>1 DEF ThreadExit, shared, disk, history, TypeOK
<1>13. ASSUME InitLog \/ Tick PROVE TypeOK'
  <2>1. cut' \in Hours
    BY <1>0, <1>13, HourFacts DEF InitLog, Tick, shared
  <2>2. clock' \in StartTime..MaxTime
    BY <1>0, <1>13 DEF InitLog, Tick
  <2> QED BY <1>0, <1>13, <2>1, <2>2 DEF InitLog, Tick, locals, shared, disk, history, TypeOK
<1>14. ASSUME OtherOpens \/ OtherCloses PROVE TypeOK'
  <2>1. desc' \in [Descs -> Files \cup {NULL, Other}]
    BY <1>0, <1>14 DEF OtherOpens, OtherCloses
  <2> QED BY <1>0, <1>14, <2>1 DEF OtherOpens, OtherCloses, locals, disk, history, TypeOK
<1> QED
  BY <1>1, <1>2, <1>3, <1>4, <1>5, <1>6, <1>7, <1>8, <1>9, <1>10, <1>11, <1>12, <1>13, <1>14
  DEF Next, Step, OpenFails

LEMMA StepKeepsInv == LInv /\ [Next]_vars => LInv'
<1> SUFFICES ASSUME LInv, [Next]_vars PROVE LInv'
  OBVIOUS
<1>1. TypeOK'
  BY TypeKept DEF LInv
<1>2. ASSUME NEW t \in Threads, Begin(t) \/ ThreadExit(t) PROVE LInv'
  BY <1>1, <1>2, BeginKeeps, ThreadExitKeeps
<1>3. ASSUME NEW t \in Threads, Check(t) \/ Lock(t) \/ CutDone(t) \/ Unlock(t) \/ Pick(t) \/ Write(t)
      PROVE LInv'
  BY <1>1, <1>3, CheckKeeps, LockKeeps, CutDoneKeeps, UnlockKeeps, PickKeeps, WriteKeeps
<1>4. ASSUME NEW t \in Threads, CutFirst(t) \/ CutHour(t) \/ RenameLog(t) \/ RenameWf(t) PROVE LInv'
  BY <1>1, <1>4, CutFirstKeeps, CutHourKeeps, RenameLogKeeps, RenameWfKeeps
<1>5. ASSUME NEW t \in Threads,
             \/ CloseLog(t) \/ ForgetLog(t) \/ OpenLog(t)
             \/ CloseWf(t) \/ ForgetWf(t) \/ OpenWf(t)
      PROVE  LInv'
  BY <1>1, <1>5, CloseLogKeeps, ForgetLogKeeps, OpenLogKeeps, CloseWfKeeps, ForgetWfKeeps,
     OpenWfKeeps
<1>6. ASSUME NEW t \in Threads, OpenFails(t) PROVE LInv'
  BY <1>1, <1>6, RestartKeeps DEF OpenFails
<1>7. ASSUME Restart \/ InitLog \/ Tick \/ OtherOpens \/ OtherCloses PROVE LInv'
  BY <1>1, <1>7, RestartKeeps, InitLogKeeps, TickKeeps, OtherKeeps
<1>8. CASE UNCHANGED vars
  BY <1>8, StutterKeeps
<1> QED BY <1>2, <1>3, <1>4, <1>5, <1>6, <1>7, <1>8 DEF Next, Step

LEMMA InvHolds == Spec => []LInv
BY InitInv, StepKeepsInv, PTL DEF Spec

-----------------------------------------------------------------------------
(* Every descriptor, hour and file is one that exists, for any times and   *)
(* any number of threads.                                                  *)
THEOREM TypeCorrect == Spec => []TypeOK
<1>1. LInv => TypeOK
  BY DEF LInv
<1> QED BY <1>1, InvHolds, PTL

(* What a thread finds in the two descriptors, in the middle of a cut too, *)
(* is of a file of that kind, but between a close() and the store of -1;   *)
(* between two cuts it is the files with the two names; and no cut leaves  *)
(* a descriptor behind.                                                    *)
THEOREM CutLeavesFilesOpen == Spec => []FilesOpen
<1>1. LInv => FilesOpen
  <2> SUFFICES ASSUME LInv PROVE FilesOpen
    OBVIOUS
  <2>1. (\A t \in Threads : ~Cutting(t)) =>
            \/ fd["log"] = -1 /\ fd["wf"] = -1
            \/ OpenRight("log") /\ OpenRight("wf")
    BY DEF LInv, CutStage, SomeoneCuts
  <2>2. \A d \in Descs : d >= 0 /\ ~(d < 0)
    <3>1. \A d \in Nat : d >= 0 /\ ~(d < 0)
      OBVIOUS
    <3> QED BY <3>1, Numbers
  <2>3. -1 < 0 /\ ~(-1 >= 0)
    OBVIOUS
  <2>4. \A k \in Kinds : fd[k] >= 0 => fd[k] \in Descs
    <3>1. fd \in [Kinds -> Descs \cup {-1}]
      BY DEF LInv, TypeOK
    <3> QED BY <2>3, <3>1
  <2>5. \A k \in Kinds : fd[k] >= 0 /\ ~Closed(k)
            => desc[fd[k]] \in Files /\ desc[fd[k]] \in FilesOf(k)
    BY <2>4 DEF LInv, FdsHeld
  <2>6. /\ \A d \in Descs : desc[d] \in Files => \E k \in Kinds : fd[k] = d
        /\ fd["log"] >= 0 => fd["log"] # fd["wf"]
    BY <2>4 DEF LInv, FdsHeld, Kinds
  <2>7. (\A t \in Threads : ~Cutting(t)) =>
            /\ \A k \in Kinds : fd[k] >= 0 => desc[fd[k]] = name[k]
            /\ fd["log"] < 0 <=> fd["wf"] < 0
    BY <2>1, <2>2, <2>3 DEF OpenRight, Kinds
  <2> QED BY <2>5, <2>6, <2>7 DEF FilesOpen
<1> QED BY <1>1, InvHolds, PTL

(* A line is lost or misplaced only if another thread cuts between the     *)
(* look at the hour and the write().                                       *)
THEOREM UndisturbedLinesKept == Spec => []UndisturbedKept
<1>1. LInv => UndisturbedKept
  <2> SUFFICES ASSUME LInv, NEW t \in Threads, pc[t] = "write", t \notin disturbed
               PROVE  /\ to[t] \in Descs /\ desc[to[t]] \in Files
                      /\ desc[to[t]] = name[kind[t]]
                      /\ ~wentBack => Hour(last[t]) = cut
    BY DEF UndisturbedKept
  <2>1. ~SomeoneCuts /\ to[t] = fd[kind[t]] /\ (~wentBack => Hour(last[t]) = cut)
    BY DEF LInv, Undisturbed
  <2>2. fd["log"] \in Descs
    BY <2>1 DEF LInv, Looked, Times
  <2>3. OpenRight("log") /\ OpenRight("wf")
    BY <2>1, <2>2, Numbers DEF LInv, CutStage
  <2>4. kind[t] \in {"log", "wf"}
    BY DEF LInv, TypeOK, Kinds
  <2>5. OpenRight(kind[t])
    BY <2>3, <2>4
  <2>6. desc[fd[kind[t]]] \in Files
    <3>1. ~Closed(kind[t])
      BY <2>1 DEF Closed, SomeoneCuts, Cutting
    <3> QED BY <2>4, <2>5, <3>1 DEF LInv, FdsHeld, OpenRight, Kinds
  <2> QED BY <2>1, <2>5, <2>6 DEF OpenRight
<1> QED BY <1>1, InvHolds, PTL

(* No cut replaces what is put away for an hour, across restarts too,      *)
(* unless a thread cuts back to an hour that is over.                      *)
THEOREM ArchivesStay == Spec => ArchivesKept
<1>1. LInv /\ [Next]_vars =>
        [\A k \in Kinds, h \in Hours : ~wentBack' /\ archive[k][h] # NULL
            => archive'[k][h] = archive[k][h]]_vars
  <2> SUFFICES ASSUME LInv, [Next]_vars, NEW j \in Kinds, NEW h \in Hours, ~wentBack',
                      archive[j][h] # NULL
               PROVE  archive'[j][h] = archive[j][h]
    OBVIOUS
  <2>1. CASE archive' = archive
    BY <2>1
  <2>2. ASSUME NEW t \in Threads, RenameLog(t) PROVE archive'[j][h] = archive[j][h]
    <3>1. pc[t] = "rename log" /\ Rename("log") /\ wentBack' = wentBack
      BY <2>2 DEF RenameLog, history
    <3>2. \A u \in Threads : pc[u] # "rename wf"
      BY <3>1 DEF LInv, Mutex, Critical
    <3>3. SomeoneCuts
      BY <3>1 DEF SomeoneCuts, Cutting
    <3>4. h < cut
      BY <3>1, <3>2, <3>3 DEF LInv, Archived
    <3>5. h # cut
      BY <3>4, HoursOf, HourFacts DEF Hours
    <3> QED BY <3>1, <3>5, RenamedOnly DEF Kinds
  <2>3. ASSUME NEW t \in Threads, RenameWf(t) PROVE archive'[j][h] = archive[j][h]
    <3>1. pc[t] = "rename wf" /\ Rename("wf") /\ wentBack' = wentBack
      BY <2>3 DEF RenameWf, history
    <3>2. SomeoneCuts
      BY <3>1 DEF SomeoneCuts, Cutting
    <3>3. h < cut \/ j = "log"
      BY <3>1, <3>2 DEF LInv, Archived
    <3>4. j = "wf" => h # cut
      BY <3>3, HoursOf DEF Hours
    <3> QED BY <3>1, <3>4, RenamedOnly DEF Kinds
  <2>4. archive' = archive \/ \E t \in Threads : RenameLog(t) \/ RenameWf(t)
    BY DEF Next, Step, Begin, ThreadExit, Check, Lock, CutFirst, CutHour, CutDone, CloseLog,
           ForgetLog, OpenLog, CloseWf, ForgetWf, OpenWf, OpenFails, Restart, Unlock, Pick, Write, InitLog, Tick,
           OtherOpens, OtherCloses, vars, disk
  <2> QED BY <2>1, <2>2, <2>3, <2>4
<1> QED BY <1>1, InvHolds, PTL DEF Spec, ArchivesKept
=============================================================================
