-------------------------- MODULE ImportRunner_proofs --------------------------
(* Theorems about URL imports, for any set of tasks, any limit and any number   *)
(* of deaths of the process and of retries.                                     *)
EXTENDS ImportRunner, TLAPS, FiniteSetTheorems
-----------------------------------------------------------------------------
(* The inductive invariant *)

\* _active has room for its members, and a task holds its slot and its place in
\* _bg_threads as long as its thread needs them
SlotsOK == IsFiniteSet(active) /\ Cardinality(active) <= Limit
HeldOK(t) == /\ thr[t] \in Working \cup {"leave"} => t \in active
             /\ thr[t] # "none" => t \in bg

\* what an audio says about the row, and a row about the audio
RowOK(t) == /\ audios[t] \in {0, 1} /\ spawned[t] <= audios[t]
            /\ row[t].st = "success" => audios[t] = 1
            /\ audios[t] = 1 => \/ row[t].st \in {"success", "purged"}
                                \/ row[t] = Failed("canceled")

\* a thread that may still store works on a row nobody may retry
ThreadOK(t) == /\ thr[t] \in Working => /\ audios[t] = 0
                                        /\ \/ row[t].st \in {"running", "purged"}
                                           \/ row[t] = Failed("canceled")
               /\ thr[t] \in {"download", "store"} => copy[t].st = "running"

\* the objects of the tick may be stale, but not so stale as to start a second thread
ViewOK(t) == pc = "tick" /\ t \in todo /\ view[t].st = "queued" =>
                 audios[t] = 0 /\ thr[t] \notin Working

\* nothing runs before the recovery is over
BootOK(t) == /\ pc \in {"down", "boot", "recovery"} => thr[t] = "none"
             /\ pc = "recovery" /\ t \in todo => audios[t] = 0

TaskOK(t) == HeldOK(t) /\ RowOK(t) /\ ThreadOK(t) /\ ViewOK(t) /\ BootOK(t)
IInv == TypeOK /\ SlotsOK /\ \A t \in Task : TaskOK(t)
-----------------------------------------------------------------------------
LEMMA InitInvariant == Init => IInv
<1> SUFFICES ASSUME Init PROVE IInv
    OBVIOUS
<1> USE BoundAssumption, LimitAssumption
<1>1. TypeOK
    BY DEF Init, TypeOK, Row, NoRow, Status, Code
<1>2. SlotsOK
    BY FS_EmptySet DEF Init, SlotsOK
<1>3. ASSUME NEW t \in Task PROVE TaskOK(t)
    BY DEF Init, NoRow, Working, TaskOK, HeldOK, RowOK, ThreadOK, ViewOK, BootOK
<1> QED BY <1>1, <1>2, <1>3 DEF IInv

LEMMA MergeTyped ==
    ASSUME NEW r \in Row, NEW old \in Row, NEW new \in Row
    PROVE  Merge(r, old, new) \in Row
BY DEF Merge, Written, Row

LEMMA TickBeginKeeps ==
    ASSUME IInv, TickBegin
    PROVE  IInv'
<1> USE LimitAssumption, BoundAssumption, NoneAssumption DEF IInv, TickBegin, Load, thrVars, Active
<1>1. TypeOK'
    BY DEF TypeOK, Row, NoRow, Status, Code, Working
<1>2. SlotsOK'
    BY DEF SlotsOK
<1>3. ASSUME NEW u \in Task PROVE TaskOK(u)'
  <2> USE DEF TaskOK, TypeOK, Row, NoRow, Working, Failed
  <2>1. HeldOK(u)'
    BY DEF HeldOK, BootOK
  <2>2. RowOK(u)'
    BY DEF RowOK, ThreadOK, ViewOK, BootOK
  <2>3. ThreadOK(u)'
    BY DEF ThreadOK, RowOK, ViewOK, HeldOK, BootOK
  <2>4. ViewOK(u)'
    BY DEF ViewOK, RowOK, ThreadOK, BootOK
  <2>5. BootOK(u)'
    BY DEF BootOK, RowOK
  <2> QED BY <2>1, <2>2, <2>3, <2>4, <2>5 DEF TaskOK
<1> QED BY <1>1, <1>2, <1>3 DEF IInv

LEMMA TickEndKeeps ==
    ASSUME IInv, TickEnd
    PROVE  IInv'
<1> USE LimitAssumption, BoundAssumption, NoneAssumption DEF IInv, TickEnd, thrVars
<1>1. TypeOK'
    BY DEF TypeOK, Row, NoRow, Status, Code, Working
<1>2. SlotsOK'
    BY DEF SlotsOK
<1>3. ASSUME NEW u \in Task PROVE TaskOK(u)'
  <2> USE DEF TaskOK, TypeOK, Row, NoRow, Working, Failed
  <2>1. HeldOK(u)'
    BY DEF HeldOK, BootOK
  <2>2. RowOK(u)'
    BY DEF RowOK, ThreadOK, ViewOK, BootOK
  <2>3. ThreadOK(u)'
    BY DEF ThreadOK, RowOK, ViewOK, HeldOK, BootOK
  <2>4. ViewOK(u)'
    BY DEF ViewOK, RowOK, ThreadOK, BootOK
  <2>5. BootOK(u)'
    BY DEF BootOK, RowOK
  <2> QED BY <2>1, <2>2, <2>3, <2>4, <2>5 DEF TaskOK
<1> QED BY <1>1, <1>2, <1>3 DEF IInv

LEMMA SkipImportKeeps ==
    ASSUME IInv, NEW t \in Task, SkipImport(t)
    PROVE  IInv'
<1> USE LimitAssumption, BoundAssumption, NoneAssumption DEF IInv, SkipImport, TickAbort, thrVars
<1>1. TypeOK'
    BY DEF TypeOK, Row, NoRow, Status, Code, Working
<1>2. SlotsOK'
    BY DEF SlotsOK
<1>3. ASSUME NEW u \in Task PROVE TaskOK(u)'
  <2> USE DEF TaskOK, TypeOK, Row, NoRow, Working, Failed
  <2>1. HeldOK(u)'
    BY DEF HeldOK, BootOK
  <2>2. RowOK(u)'
    BY DEF RowOK, ThreadOK, ViewOK, BootOK
  <2>3. ThreadOK(u)'
    BY DEF ThreadOK, RowOK, ViewOK, HeldOK, BootOK
  <2>4. ViewOK(u)'
    BY DEF ViewOK, RowOK, ThreadOK, BootOK
  <2>5. BootOK(u)'
    BY DEF BootOK, RowOK
  <2> QED BY <2>1, <2>2, <2>3, <2>4, <2>5 DEF TaskOK
<1> QED BY <1>1, <1>2, <1>3 DEF IInv

LEMMA StartImportKeeps ==
    ASSUME IInv, NEW t \in Task, StartImport(t)
    PROVE  IInv'
<1> USE LimitAssumption, BoundAssumption, NoneAssumption DEF IInv, StartImport, TickAbort, Busy, Gone, ImportConcurrencyAvailable
<1>1. TypeOK'
  <2> USE DEF TypeOK
  <2>1. [row[t] EXCEPT !.st = "running"] \in Row
    BY DEF Row, Status
  <2>2. row' \in [Task -> Row]
    BY <2>1
  <2>3. thr' \in [Task -> Working \cup {"none", "leave", "last"}]
    BY DEF Working
  <2>4. view' \in [Task -> Row]
    BY DEF Row, NoRow, Status, Code
  <2> QED BY <2>2, <2>3, <2>4
<1>2. SlotsOK'
  <2>1. IsFiniteSet(active \cup {t})
                /\ Cardinality(active \cup {t}) \in {Cardinality(active), Cardinality(active) + 1}
    BY FS_AddElement DEF SlotsOK
  <2>2. Cardinality(active) \in Nat
    BY FS_CardinalityType DEF SlotsOK
  <2> QED BY <2>1, <2>2 DEF SlotsOK
<1>3. ASSUME NEW u \in Task PROVE TaskOK(u)'
  <2> USE DEF TaskOK, TypeOK, Row, NoRow, Working, Failed
  <2>1. HeldOK(u)'
    BY DEF HeldOK, BootOK
  <2>2. RowOK(u)'
    BY DEF RowOK, ThreadOK, ViewOK, BootOK
  <2>3. ThreadOK(u)'
    BY DEF ThreadOK, RowOK, ViewOK, HeldOK, BootOK
  <2>4. ViewOK(u)'
    BY DEF ViewOK, RowOK, ThreadOK, BootOK
  <2>5. BootOK(u)'
    BY DEF BootOK, RowOK
  <2> QED BY <2>1, <2>2, <2>3, <2>4, <2>5 DEF TaskOK
<1> QED BY <1>1, <1>2, <1>3 DEF IInv

LEMMA RecoverBeginKeeps ==
    ASSUME IInv, RecoverBegin
    PROVE  IInv'
<1> USE LimitAssumption, BoundAssumption, NoneAssumption DEF IInv, RecoverBegin, Load, thrVars
<1>1. TypeOK'
    BY DEF TypeOK, Row, NoRow, Status, Code, Working
<1>2. SlotsOK'
    BY DEF SlotsOK
<1>3. ASSUME NEW u \in Task PROVE TaskOK(u)'
  <2> USE DEF TaskOK, TypeOK, Row, NoRow, Working, Failed
  <2>1. HeldOK(u)'
    BY DEF HeldOK, BootOK
  <2>2. RowOK(u)'
    BY DEF RowOK, ThreadOK, ViewOK, BootOK
  <2>3. ThreadOK(u)'
    BY DEF ThreadOK, RowOK, ViewOK, HeldOK, BootOK
  <2>4. ViewOK(u)'
    BY DEF ViewOK, RowOK, ThreadOK, BootOK
  <2>5. BootOK(u)'
    BY DEF BootOK, RowOK
  <2> QED BY <2>1, <2>2, <2>3, <2>4, <2>5 DEF TaskOK
<1> QED BY <1>1, <1>2, <1>3 DEF IInv

LEMMA RecoverCommitKeeps ==
    ASSUME IInv, RecoverCommit
    PROVE  IInv'
<1> USE LimitAssumption, BoundAssumption, NoneAssumption DEF IInv, RecoverCommit, QueueAgain, TickAbort, thrVars
<1>1. TypeOK'
  <2>1. \A t \in Task : QueueAgain(t) \in Row
      BY DEF TypeOK, Row, Status
  <2>2. row' \in [Task -> Row]
      BY <2>1 DEF TypeOK
  <2>3. view' \in [Task -> Row]
      BY DEF NoRow, Row, Status, Code
  <2>4. pc' = "idle" /\ todo' = {} /\ UNCHANGED <<audios, spawned, thrVars, req, faults, retries>>
      OBVIOUS
  <2> QED BY <2>2, <2>3, <2>4 DEF TypeOK
<1>2. SlotsOK'
    BY DEF SlotsOK
<1>3. ASSUME NEW u \in Task PROVE TaskOK(u)'
  <2> USE DEF TaskOK, TypeOK, Row, NoRow, Working, Failed
  <2>1. HeldOK(u)'
    BY DEF HeldOK, BootOK
  <2>2. RowOK(u)'
    BY DEF RowOK, ThreadOK, ViewOK, BootOK
  <2>3. ThreadOK(u)'
    BY DEF ThreadOK, RowOK, ViewOK, HeldOK, BootOK
  <2>4. ViewOK(u)'
    BY DEF ViewOK, RowOK, ThreadOK, BootOK
  <2>5. BootOK(u)'
    BY DEF BootOK, RowOK
  <2> QED BY <2>1, <2>2, <2>3, <2>4, <2>5 DEF TaskOK
<1> QED BY <1>1, <1>2, <1>3 DEF IInv

LEMMA ThreadNothingKeeps ==
    ASSUME IInv, NEW t \in Task, ThreadNothing(t)
    PROVE  IInv'
<1> USE LimitAssumption, BoundAssumption, NoneAssumption DEF IInv, ThreadNothing, Leave, threadUnchanged, tickVars
<1>1. TypeOK'
    BY DEF TypeOK, Row, NoRow, Status, Code, Working
<1>2. SlotsOK'
    BY DEF SlotsOK
<1>3. ASSUME NEW u \in Task PROVE TaskOK(u)'
  <2> USE DEF TaskOK, TypeOK, Row, NoRow, Working, Failed
  <2>1. HeldOK(u)'
    BY DEF HeldOK, BootOK
  <2>2. RowOK(u)'
    BY DEF RowOK, ThreadOK, ViewOK, BootOK
  <2>3. ThreadOK(u)'
    BY DEF ThreadOK, RowOK, ViewOK, HeldOK, BootOK
  <2>4. ViewOK(u)'
    BY DEF ViewOK, RowOK, ThreadOK, BootOK
  <2>5. BootOK(u)'
    BY DEF BootOK, RowOK
  <2> QED BY <2>1, <2>2, <2>3, <2>4, <2>5 DEF TaskOK
<1> QED BY <1>1, <1>2, <1>3 DEF IInv

LEMMA ThreadRefuseKeeps ==
    ASSUME IInv, NEW t \in Task, ThreadRefuse(t)
    PROVE  IInv'
<1> USE LimitAssumption, BoundAssumption, NoneAssumption DEF IInv, ThreadRefuse, FailFresh, Failed, Leave, threadUnchanged, tickVars
<1>1. TypeOK'
    BY DEF TypeOK, Row, NoRow, Status, Code, Working
<1>2. SlotsOK'
    BY DEF SlotsOK
<1>3. ASSUME NEW u \in Task PROVE TaskOK(u)'
  <2> USE DEF TaskOK, TypeOK, Row, NoRow, Working, Failed
  <2>1. HeldOK(u)'
    BY DEF HeldOK, BootOK
  <2>2. RowOK(u)'
    BY DEF RowOK, ThreadOK, ViewOK, BootOK
  <2>3. ThreadOK(u)'
    BY DEF ThreadOK, RowOK, ViewOK, HeldOK, BootOK
  <2>4. ViewOK(u)'
    BY DEF ViewOK, RowOK, ThreadOK, BootOK
  <2>5. BootOK(u)'
    BY DEF BootOK, RowOK
  <2> QED BY <2>1, <2>2, <2>3, <2>4, <2>5 DEF TaskOK
<1> QED BY <1>1, <1>2, <1>3 DEF IInv

LEMMA ThreadDownloadKeeps ==
    ASSUME IInv, NEW t \in Task, ThreadDownload(t)
    PROVE  IInv'
<1> USE LimitAssumption, BoundAssumption, NoneAssumption DEF IInv, ThreadDownload, threadUnchanged, tickVars
<1>1. TypeOK'
    BY DEF TypeOK, Row, NoRow, Status, Code, Working
<1>2. SlotsOK'
    BY DEF SlotsOK
<1>3. ASSUME NEW u \in Task PROVE TaskOK(u)'
  <2> USE DEF TaskOK, TypeOK, Row, NoRow, Working, Failed
  <2>1. HeldOK(u)'
    BY DEF HeldOK, BootOK
  <2>2. RowOK(u)'
    BY DEF RowOK, ThreadOK, ViewOK, BootOK
  <2>3. ThreadOK(u)'
    BY DEF ThreadOK, RowOK, ViewOK, HeldOK, BootOK
  <2>4. ViewOK(u)'
    BY DEF ViewOK, RowOK, ThreadOK, BootOK
  <2>5. BootOK(u)'
    BY DEF BootOK, RowOK
  <2> QED BY <2>1, <2>2, <2>3, <2>4, <2>5 DEF TaskOK
<1> QED BY <1>1, <1>2, <1>3 DEF IInv

LEMMA DownloadCanceledKeeps ==
    ASSUME IInv, NEW t \in Task, DownloadCanceled(t)
    PROVE  IInv'
<1> USE LimitAssumption, BoundAssumption, NoneAssumption DEF IInv, DownloadCanceled, FailFresh, FailHeld, Failed, Leave, threadUnchanged, tickVars
<1>1. TypeOK'
  <2> USE DEF TypeOK
  <2>1. row' \in [Task -> Row]
    <3>1. \A c \in {"canceled", "refused", "failed"} : Failed(c) \in Row
    BY DEF Row, Status, Code
    <3> QED BY <3>1, MergeTyped
  <2> QED BY <2>1 DEF Working
<1>2. SlotsOK'
    BY DEF SlotsOK
<1>3. ASSUME NEW u \in Task PROVE TaskOK(u)'
  <2> USE DEF TaskOK, TypeOK, Row, NoRow, Working, Failed
  <2>1. HeldOK(u)'
    BY DEF HeldOK, BootOK
  <2>2. RowOK(u)'
    BY DEF RowOK, ThreadOK, ViewOK, BootOK, Merge, Written
  <2>3. ThreadOK(u)'
    BY DEF ThreadOK, RowOK, ViewOK, HeldOK, BootOK, Merge, Written
  <2>4. ViewOK(u)'
    BY DEF ViewOK, RowOK, ThreadOK, BootOK
  <2>5. BootOK(u)'
    BY DEF BootOK, RowOK
  <2> QED BY <2>1, <2>2, <2>3, <2>4, <2>5 DEF TaskOK
<1> QED BY <1>1, <1>2, <1>3 DEF IInv

LEMMA DownloadFailedKeeps ==
    ASSUME IInv, NEW t \in Task, DownloadFailed(t)
    PROVE  IInv'
<1> USE LimitAssumption, BoundAssumption, NoneAssumption DEF IInv, DownloadFailed, FailFresh, Failed, Leave, threadUnchanged, tickVars
<1>1. TypeOK'
    BY DEF TypeOK, Row, NoRow, Status, Code, Working
<1>2. SlotsOK'
    BY DEF SlotsOK
<1>3. ASSUME NEW u \in Task PROVE TaskOK(u)'
  <2> USE DEF TaskOK, TypeOK, Row, NoRow, Working, Failed
  <2>1. HeldOK(u)'
    BY DEF HeldOK, BootOK
  <2>2. RowOK(u)'
    BY DEF RowOK, ThreadOK, ViewOK, BootOK
  <2>3. ThreadOK(u)'
    BY DEF ThreadOK, RowOK, ViewOK, HeldOK, BootOK
  <2>4. ViewOK(u)'
    BY DEF ViewOK, RowOK, ThreadOK, BootOK
  <2>5. BootOK(u)'
    BY DEF BootOK, RowOK
  <2> QED BY <2>1, <2>2, <2>3, <2>4, <2>5 DEF TaskOK
<1> QED BY <1>1, <1>2, <1>3 DEF IInv

LEMMA DownloadDoneKeeps ==
    ASSUME IInv, NEW t \in Task, DownloadDone(t)
    PROVE  IInv'
<1> USE LimitAssumption, BoundAssumption, NoneAssumption DEF IInv, DownloadDone, threadUnchanged, tickVars
<1>1. TypeOK'
    BY DEF TypeOK, Row, NoRow, Status, Code, Working
<1>2. SlotsOK'
    BY DEF SlotsOK
<1>3. ASSUME NEW u \in Task PROVE TaskOK(u)'
  <2> USE DEF TaskOK, TypeOK, Row, NoRow, Working, Failed
  <2>1. HeldOK(u)'
    BY DEF HeldOK, BootOK
  <2>2. RowOK(u)'
    BY DEF RowOK, ThreadOK, ViewOK, BootOK
  <2>3. ThreadOK(u)'
    BY DEF ThreadOK, RowOK, ViewOK, HeldOK, BootOK
  <2>4. ViewOK(u)'
    BY DEF ViewOK, RowOK, ThreadOK, BootOK
  <2>5. BootOK(u)'
    BY DEF BootOK, RowOK
  <2> QED BY <2>1, <2>2, <2>3, <2>4, <2>5 DEF TaskOK
<1> QED BY <1>1, <1>2, <1>3 DEF IInv

LEMMA StoreFailedKeeps ==
    ASSUME IInv, NEW t \in Task, StoreFailed(t)
    PROVE  IInv'
<1> USE LimitAssumption, BoundAssumption, NoneAssumption DEF IInv, StoreFailed, FailFresh, FailHeld, Failed, Leave, threadUnchanged, tickVars
<1>1. TypeOK'
  <2> USE DEF TypeOK
  <2>1. row' \in [Task -> Row]
    <3>1. \A c \in {"canceled", "refused", "failed"} : Failed(c) \in Row
    BY DEF Row, Status, Code
    <3> QED BY <3>1, MergeTyped
  <2> QED BY <2>1 DEF Working
<1>2. SlotsOK'
    BY DEF SlotsOK
<1>3. ASSUME NEW u \in Task PROVE TaskOK(u)'
  <2> USE DEF TaskOK, TypeOK, Row, NoRow, Working, Failed
  <2>1. HeldOK(u)'
    BY DEF HeldOK, BootOK
  <2>2. RowOK(u)'
    BY DEF RowOK, ThreadOK, ViewOK, BootOK, Merge, Written
  <2>3. ThreadOK(u)'
    BY DEF ThreadOK, RowOK, ViewOK, HeldOK, BootOK, Merge, Written
  <2>4. ViewOK(u)'
    BY DEF ViewOK, RowOK, ThreadOK, BootOK
  <2>5. BootOK(u)'
    BY DEF BootOK, RowOK
  <2> QED BY <2>1, <2>2, <2>3, <2>4, <2>5 DEF TaskOK
<1> QED BY <1>1, <1>2, <1>3 DEF IInv

LEMMA StoreDoneKeeps ==
    ASSUME IInv, NEW t \in Task, StoreDone(t)
    PROVE  IInv'
<1> USE LimitAssumption, BoundAssumption, NoneAssumption DEF IInv, StoreDone, Gone, EnqueueTranscribe, Leave, threadUnchanged, tickVars
<1>1. TypeOK'
  <2> USE DEF TypeOK
  <2>1. row' \in [Task -> Row]
    <3>1. [st |-> "success", code |-> "none"] \in Row
    BY DEF Row, Status, Code
    <3>2. Merge(row[t], copy[t], [st |-> "success", code |-> "none"]) \in Row
      BY <3>1, MergeTyped
    <3> QED BY <3>2
  <2>2. audios' \in [Task -> Nat] /\ spawned' \in [Task -> Nat]
    OBVIOUS
  <2> QED BY <2>1, <2>2 DEF Working
<1>2. SlotsOK'
    BY DEF SlotsOK
<1>3. ASSUME NEW u \in Task PROVE TaskOK(u)'
  <2> USE DEF TaskOK, TypeOK, Row, NoRow, Working, Failed
  <2>1. HeldOK(u)'
    BY DEF HeldOK, BootOK
  <2>2. RowOK(u)'
    BY DEF RowOK, ThreadOK, ViewOK, BootOK, Merge, Written
  <2>3. ThreadOK(u)'
    BY DEF ThreadOK, RowOK, ViewOK, HeldOK, BootOK, Merge, Written
  <2>4. ViewOK(u)'
    BY DEF ViewOK, RowOK, ThreadOK, BootOK
  <2>5. BootOK(u)'
    BY DEF BootOK, RowOK
  <2> QED BY <2>1, <2>2, <2>3, <2>4, <2>5 DEF TaskOK
<1> QED BY <1>1, <1>2, <1>3 DEF IInv

LEMMA ThreadLeaveKeeps ==
    ASSUME IInv, NEW t \in Task, ThreadLeave(t)
    PROVE  IInv'
<1> USE LimitAssumption, BoundAssumption, NoneAssumption DEF IInv, ThreadLeave, tickVars
<1>1. TypeOK'
    BY DEF TypeOK, Row, NoRow, Status, Code, Working
<1>2. SlotsOK'
  <2>1. IsFiniteSet(active')
                /\ Cardinality(active') \in Nat /\ Cardinality(active') <= Cardinality(active)
    BY FS_Subset, FS_CardinalityType DEF SlotsOK
  <2>2. Cardinality(active) \in Nat
    BY FS_CardinalityType DEF SlotsOK
  <2> QED BY <2>1, <2>2 DEF SlotsOK
<1>3. ASSUME NEW u \in Task PROVE TaskOK(u)'
  <2> USE DEF TaskOK, TypeOK, Row, NoRow, Working, Failed
  <2>1. HeldOK(u)'
    BY DEF HeldOK, BootOK
  <2>2. RowOK(u)'
    BY DEF RowOK, ThreadOK, ViewOK, BootOK
  <2>3. ThreadOK(u)'
    BY DEF ThreadOK, RowOK, ViewOK, HeldOK, BootOK
  <2>4. ViewOK(u)'
    BY DEF ViewOK, RowOK, ThreadOK, BootOK
  <2>5. BootOK(u)'
    BY DEF BootOK, RowOK
  <2> QED BY <2>1, <2>2, <2>3, <2>4, <2>5 DEF TaskOK
<1> QED BY <1>1, <1>2, <1>3 DEF IInv

LEMMA ThreadLastKeeps ==
    ASSUME IInv, NEW t \in Task, ThreadLast(t)
    PROVE  IInv'
<1> USE LimitAssumption, BoundAssumption, NoneAssumption DEF IInv, ThreadLast, tickVars
<1>1. TypeOK'
    BY DEF TypeOK, Row, NoRow, Status, Code, Working
<1>2. SlotsOK'
    BY DEF SlotsOK
<1>3. ASSUME NEW u \in Task PROVE TaskOK(u)'
  <2> USE DEF TaskOK, TypeOK, Row, NoRow, Working, Failed
  <2>1. HeldOK(u)'
    BY DEF HeldOK, BootOK
  <2>2. RowOK(u)'
    BY DEF RowOK, ThreadOK, ViewOK, BootOK
  <2>3. ThreadOK(u)'
    BY DEF ThreadOK, RowOK, ViewOK, HeldOK, BootOK
  <2>4. ViewOK(u)'
    BY DEF ViewOK, RowOK, ThreadOK, BootOK
  <2>5. BootOK(u)'
    BY DEF BootOK, RowOK
  <2> QED BY <2>1, <2>2, <2>3, <2>4, <2>5 DEF TaskOK
<1> QED BY <1>1, <1>2, <1>3 DEF IInv

LEMMA CreateImportKeeps ==
    ASSUME IInv, NEW t \in Task, CreateImport(t)
    PROVE  IInv'
<1> USE LimitAssumption, BoundAssumption, NoneAssumption DEF IInv, CreateImport, Up, thrVars, tickVars
<1>1. TypeOK'
    BY DEF TypeOK, Row, NoRow, Status, Code, Working
<1>2. SlotsOK'
    BY DEF SlotsOK
<1>3. ASSUME NEW u \in Task PROVE TaskOK(u)'
  <2> USE DEF TaskOK, TypeOK, Row, NoRow, Working, Failed
  <2>1. HeldOK(u)'
    BY DEF HeldOK, BootOK
  <2>2. RowOK(u)'
    BY DEF RowOK, ThreadOK, ViewOK, BootOK
  <2>3. ThreadOK(u)'
    BY DEF ThreadOK, RowOK, ViewOK, HeldOK, BootOK
  <2>4. ViewOK(u)'
    BY DEF ViewOK, RowOK, ThreadOK, BootOK
  <2>5. BootOK(u)'
    BY DEF BootOK, RowOK
  <2> QED BY <2>1, <2>2, <2>3, <2>4, <2>5 DEF TaskOK
<1> QED BY <1>1, <1>2, <1>3 DEF IInv

LEMMA CancelReadKeeps ==
    ASSUME IInv, NEW t \in Task, CancelRead(t)
    PROVE  IInv'
<1> USE LimitAssumption, BoundAssumption, NoneAssumption DEF IInv, CancelRead, tickVars
<1>1. TypeOK'
    BY DEF TypeOK, Row, NoRow, Status, Code, Working
<1>2. SlotsOK'
    BY DEF SlotsOK
<1>3. ASSUME NEW u \in Task PROVE TaskOK(u)'
  <2> USE DEF TaskOK, TypeOK, Row, NoRow, Working, Failed
  <2>1. HeldOK(u)'
    BY DEF HeldOK, BootOK
  <2>2. RowOK(u)'
    BY DEF RowOK, ThreadOK, ViewOK, BootOK
  <2>3. ThreadOK(u)'
    BY DEF ThreadOK, RowOK, ViewOK, HeldOK, BootOK
  <2>4. ViewOK(u)'
    BY DEF ViewOK, RowOK, ThreadOK, BootOK
  <2>5. BootOK(u)'
    BY DEF BootOK, RowOK
  <2> QED BY <2>1, <2>2, <2>3, <2>4, <2>5 DEF TaskOK
<1> QED BY <1>1, <1>2, <1>3 DEF IInv

LEMMA CancelCommitKeeps ==
    ASSUME IInv, CancelCommit
    PROVE  IInv'
<1> USE LimitAssumption, BoundAssumption, NoneAssumption DEF IInv, CancelCommit, Failed, thrVars, tickVars
<1>1. TypeOK'
    BY DEF TypeOK, Row, NoRow, Status, Code, Working
<1>2. SlotsOK'
    BY DEF SlotsOK
<1>3. ASSUME NEW u \in Task PROVE TaskOK(u)'
  <2> USE DEF TaskOK, TypeOK, Row, NoRow, Working, Failed
  <2>1. HeldOK(u)'
    BY DEF HeldOK, BootOK
  <2>2. RowOK(u)'
    BY DEF RowOK, ThreadOK, ViewOK, BootOK
  <2>3. ThreadOK(u)'
    BY DEF ThreadOK, RowOK, ViewOK, HeldOK, BootOK
  <2>4. ViewOK(u)'
    BY DEF ViewOK, RowOK, ThreadOK, BootOK
  <2>5. BootOK(u)'
    BY DEF BootOK, RowOK
  <2> QED BY <2>1, <2>2, <2>3, <2>4, <2>5 DEF TaskOK
<1> QED BY <1>1, <1>2, <1>3 DEF IInv

LEMMA RetryTaskKeeps ==
    ASSUME IInv, NEW t \in Task, RetryTask(t)
    PROVE  IInv'
<1> USE LimitAssumption, BoundAssumption, NoneAssumption DEF IInv, RetryTask, NonRetriable, thrVars, tickVars
<1>1. TypeOK'
    BY DEF TypeOK, Row, NoRow, Status, Code, Working
<1>2. SlotsOK'
    BY DEF SlotsOK
<1>3. ASSUME NEW u \in Task PROVE TaskOK(u)'
  <2> USE DEF TaskOK, TypeOK, Row, NoRow, Working, Failed
  <2>1. HeldOK(u)'
    BY DEF HeldOK, BootOK
  <2>2. RowOK(u)'
    BY DEF RowOK, ThreadOK, ViewOK, BootOK
  <2>3. ThreadOK(u)'
    BY DEF ThreadOK, RowOK, ViewOK, HeldOK, BootOK
  <2>4. ViewOK(u)'
    BY DEF ViewOK, RowOK, ThreadOK, BootOK
  <2>5. BootOK(u)'
    BY DEF BootOK, RowOK
  <2> QED BY <2>1, <2>2, <2>3, <2>4, <2>5 DEF TaskOK
<1> QED BY <1>1, <1>2, <1>3 DEF IInv

LEMMA PurgeTaskKeeps ==
    ASSUME IInv, NEW t \in Task, PurgeTask(t)
    PROVE  IInv'
<1> USE LimitAssumption, BoundAssumption, NoneAssumption DEF IInv, PurgeTask, thrVars, tickVars
<1>1. TypeOK'
    BY DEF TypeOK, Row, NoRow, Status, Code, Working
<1>2. SlotsOK'
    BY DEF SlotsOK
<1>3. ASSUME NEW u \in Task PROVE TaskOK(u)'
  <2> USE DEF TaskOK, TypeOK, Row, NoRow, Working, Failed
  <2>1. HeldOK(u)'
    BY DEF HeldOK, BootOK
  <2>2. RowOK(u)'
    BY DEF RowOK, ThreadOK, ViewOK, BootOK
  <2>3. ThreadOK(u)'
    BY DEF ThreadOK, RowOK, ViewOK, HeldOK, BootOK
  <2>4. ViewOK(u)'
    BY DEF ViewOK, RowOK, ThreadOK, BootOK
  <2>5. BootOK(u)'
    BY DEF BootOK, RowOK
  <2> QED BY <2>1, <2>2, <2>3, <2>4, <2>5 DEF TaskOK
<1> QED BY <1>1, <1>2, <1>3 DEF IInv

LEMMA CrashKeeps ==
    ASSUME IInv, Crash
    PROVE  IInv'
<1> USE LimitAssumption, BoundAssumption, NoneAssumption DEF IInv, Crash, Up
<1>1. TypeOK'
    BY DEF TypeOK, Row, NoRow, Status, Code, Working
<1>2. SlotsOK'
    BY FS_EmptySet DEF SlotsOK
<1>3. ASSUME NEW u \in Task PROVE TaskOK(u)'
  <2> USE DEF TaskOK, TypeOK, Row, NoRow, Working, Failed
  <2>1. HeldOK(u)'
    BY DEF HeldOK, BootOK
  <2>2. RowOK(u)'
    BY DEF RowOK, ThreadOK, ViewOK, BootOK
  <2>3. ThreadOK(u)'
    BY DEF ThreadOK, RowOK, ViewOK, HeldOK, BootOK
  <2>4. ViewOK(u)'
    BY DEF ViewOK, RowOK, ThreadOK, BootOK
  <2>5. BootOK(u)'
    BY DEF BootOK, RowOK
  <2> QED BY <2>1, <2>2, <2>3, <2>4, <2>5 DEF TaskOK
<1> QED BY <1>1, <1>2, <1>3 DEF IInv

LEMMA RestartKeeps ==
    ASSUME IInv, Restart
    PROVE  IInv'
<1> USE LimitAssumption, BoundAssumption, NoneAssumption DEF IInv, Restart, thrVars
<1>1. TypeOK'
    BY DEF TypeOK, Row, NoRow, Status, Code, Working
<1>2. SlotsOK'
    BY DEF SlotsOK
<1>3. ASSUME NEW u \in Task PROVE TaskOK(u)'
  <2> USE DEF TaskOK, TypeOK, Row, NoRow, Working, Failed
  <2>1. HeldOK(u)'
    BY DEF HeldOK, BootOK
  <2>2. RowOK(u)'
    BY DEF RowOK, ThreadOK, ViewOK, BootOK
  <2>3. ThreadOK(u)'
    BY DEF ThreadOK, RowOK, ViewOK, HeldOK, BootOK
  <2>4. ViewOK(u)'
    BY DEF ViewOK, RowOK, ThreadOK, BootOK
  <2>5. BootOK(u)'
    BY DEF BootOK, RowOK
  <2> QED BY <2>1, <2>2, <2>3, <2>4, <2>5 DEF TaskOK
<1> QED BY <1>1, <1>2, <1>3 DEF IInv

LEMMA StutterKeeps == ASSUME IInv, UNCHANGED vars PROVE IInv'
<1> USE DEF IInv, vars, thrVars, tickVars
<1>1. TypeOK'
    BY DEF TypeOK
<1>2. SlotsOK'
    BY DEF SlotsOK
<1>3. ASSUME NEW u \in Task PROVE TaskOK(u)'
    BY DEF TaskOK, HeldOK, RowOK, ThreadOK, ViewOK, BootOK
<1> QED BY <1>1, <1>2, <1>3

LEMMA StepKeeps == IInv /\ [Next]_vars => IInv'
<1> SUFFICES ASSUME IInv, [Next]_vars PROVE IInv'
    OBVIOUS
<1>1. CASE Tick
    BY <1>1, TickEndKeeps, RecoverBeginKeeps, RecoverCommitKeeps, SkipImportKeeps, StartImportKeeps
    DEF Tick
<1>2. CASE \E t \in Task : Thread(t)
    BY <1>2, ThreadNothingKeeps, ThreadRefuseKeeps, ThreadDownloadKeeps, DownloadCanceledKeeps,
       DownloadFailedKeeps, DownloadDoneKeeps, StoreFailedKeeps, StoreDoneKeeps, ThreadLeaveKeeps,
       ThreadLastKeeps
    DEF Thread
<1>3. CASE Api
    BY <1>3, CreateImportKeeps, CancelReadKeeps, RetryTaskKeeps, PurgeTaskKeeps, CancelCommitKeeps
    DEF Api
<1> QED
    BY <1>1, <1>2, <1>3, TickBeginKeeps, CrashKeeps, RestartKeeps, StutterKeeps DEF Next
-----------------------------------------------------------------------------
(* The theorems *)

(* The strengthening that the others rest on: how the rows, the flags of the process, the
   threads and the stale objects of the tick relate, at every point where another actor runs. *)
THEOREM ImportInvariant == Spec => []IInv
<1>1. Init => IInv
    BY InitInvariant
<1>2. IInv /\ [Next]_vars => IInv'
    BY StepKeeps
<1> QED BY <1>1, <1>2, PTL DEF Spec

(* Every variable of the import runner keeps its type. *)
THEOREM ImportTypeCorrect == Spec => []TypeOK
<1>1. IInv => TypeOK
    BY DEF IInv
<1> QED BY <1>1, ImportInvariant, PTL

(* _import_concurrency_available counts _active, which every thread leaves only in its finally
   clause: at most import_max_concurrent threads download or store, for any limit. *)
THEOREM ThreadsWithinLimit == Spec => []AtMostLimit
<1>1. IInv => AtMostLimit
  <2> SUFFICES ASSUME IInv PROVE AtMostLimit
    OBVIOUS
  <2> DEFINE W == {t \in Task : thr[t] \in Working}
  <2>1. W \subseteq active
    BY DEF IInv, TaskOK, HeldOK
  <2>2. Cardinality(W) \in Nat /\ Cardinality(W) <= Cardinality(active)
    BY <2>1, FS_Subset, FS_CardinalityType DEF IInv, SlotsOK
  <2>3. Cardinality(active) \in Nat /\ Cardinality(active) <= Limit /\ Limit \in Nat
    BY FS_CardinalityType, LimitAssumption DEF IInv, SlotsOK
  <2> QED BY <2>2, <2>3 DEF AtMostLimit
<1> QED BY <1>1, ImportInvariant, PTL

(* _run_import_task creates one audio and one transcribe task, however often its import is
   canceled, retried, purged or queued again by a recovery. *)
THEOREM ImportsOneAudio == Spec => []OneAudio
<1>1. IInv => OneAudio
    BY DEF IInv, TypeOK, TaskOK, RowOK, OneAudio
<1> QED BY <1>1, ImportInvariant, PTL

(* maybe_start_import looks at _active and _bg_threads, and the thread leaves the latter last:
   no thread starts while the one before is still there. *)
THEOREM OneThreadAtATime == Spec => NoSecondThread
<1>1. IInv /\ [Next]_vars => [\A t \in Task : thr'[t] = "begin" => thr[t] \in {"none", "begin"}]_vars
  <2> SUFFICES ASSUME IInv, Next, NEW u \in Task, thr'[u] = "begin"
               PROVE  thr[u] \in {"none", "begin"}
    OBVIOUS
  <2> USE DEF IInv, TypeOK, thrVars
  <2>1. ASSUME NEW t \in Task, StartImport(t) PROVE thr[u] \in {"none", "begin"}
    BY <2>1 DEF StartImport, Busy, TaskOK, HeldOK
  <2>2. CASE Tick
    BY <2>1, <2>2 DEF Tick, TickEnd, RecoverBegin, RecoverCommit, Load, SkipImport
  <2>3. CASE \E t \in Task : Thread(t)
    BY <2>3 DEF Thread, ThreadNothing, ThreadRefuse, ThreadDownload, DownloadCanceled,
       DownloadFailed, DownloadDone, StoreFailed, StoreDone, ThreadLeave, ThreadLast, FailFresh,
       FailHeld, Leave
  <2>4. CASE Api
    BY <2>4 DEF Api, CreateImport, CancelRead, CancelCommit, RetryTask, PurgeTask
  <2> QED
    BY <2>2, <2>3, <2>4 DEF Next, TickBegin, Load, Crash, Restart
<1> QED BY <1>1, ImportInvariant, PTL DEF Spec, NoSecondThread

=============================================================================
