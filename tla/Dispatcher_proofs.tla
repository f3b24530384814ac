------------------------- MODULE Dispatcher_proofs --------------------------
(* Proofs about Dispatcher for any number of tasks, nodes, jobs and faults. *)
EXTENDS Dispatcher, TLAPS

(* Type of everything a dispatcher step writes. *)
StepTypeOK ==
    /\ row \in [Task -> Row] /\ view \in [Task -> Row]
    /\ alive \subseteq Source /\ nodes \subseteq Node
    /\ made \in [Task -> Nat] /\ events \in [Task -> Nat] /\ spawned \in [Task -> Nat]
    /\ pc \in {"down", "boot", "idle", "loop", "poll", "dispatch", "post", "cleanup"}
    /\ mode \in {"tick", "recovery"}
    /\ todo \subseteq Task /\ cur \in Task \cup {None} /\ next \in Task \cup {None}
    /\ left \subseteq Node /\ large \in BOOLEAN /\ finished \in Job \cup {None}

OtherTypeOK ==
    /\ job \in [Job -> [st : {"free", "busy", "success", "error", "gone"},
                        task : Task \cup {None}]]
    /\ del \in Source \cup {None} /\ plan \in [Task -> {"none", "cancel", "skip"}]
    /\ faults \in 0 .. MaxFaults

(* A step that handles a task knows which one. *)
CurOK == pc \in {"poll", "dispatch", "post", "cleanup"} => cur \in Task

TypeInv == TypeOK /\ CurOK

-----------------------------------------------------------------------------
(* Ids: a follow-up is a task of its own. *)
LEMMA Ids == /\ \A r \in Root : FollowUp(r) \in Task /\ FollowUp(r) # r /\ FollowUp(r) \notin Root
             /\ Root \subseteq Task
             /\ None \notin Task
  BY IdAssumption DEF FollowUp, Task

(* The rows the code builds are rows. *)
LEMMA RowTypes ==
    /\ NoRow \in Row /\ PurgedRow \in Row
    /\ \A k \in {"transcribe", "summarize"}, s \in Source \cup {None}, b \in BOOLEAN :
          NewRow(k, s, b) \in Row
    /\ \A v \in Row : /\ Requeued(v) \in Row /\ Charged(v) \in Row
                      /\ Detached(v) \in Row /\ Stored(v) \in Row /\ Canceled(v) \in Row
                      /\ [v EXCEPT !.rwt = TRUE] \in Row
                      /\ \A c \in Code : Failed(v, c) \in Row
                      /\ \A n \in Node, j \in Job \cup {None} : Dispatched(v, n, j) \in Row
PROOF
<1>1. \A k \in {"transcribe", "summarize"}, s \in Source \cup {None}, b \in BOOLEAN :
          NewRow(k, s, b) \in Row
  BY DEF Row, NewRow, Status, Code
<1>2. NoRow \in Row
  <2>1. NewRow("transcribe", None, FALSE) \in Row
    BY <1>1
  <2>. QED BY <2>1 DEF NoRow, Row, Status
<1>3. PurgedRow \in Row
  BY <1>2 DEF PurgedRow, Row, Status
<1>4. ASSUME NEW v \in Row
      PROVE  /\ Requeued(v) \in Row /\ Charged(v) \in Row
             /\ Detached(v) \in Row /\ Stored(v) \in Row /\ Canceled(v) \in Row
             /\ [v EXCEPT !.rwt = TRUE] \in Row
  BY DEF Row, Requeued, Charged, Detached, Stored, Canceled, Status, Code
<1>5. ASSUME NEW v \in Row, NEW c \in Code
      PROVE  Failed(v, c) \in Row
  BY DEF Row, Failed, Status
<1>6. ASSUME NEW v \in Row, NEW n \in Node, NEW j \in Job \cup {None}
      PROVE  Dispatched(v, n, j) \in Row
  BY DEF Row, Dispatched, Status
<1>. QED BY <1>1, <1>2, <1>3, <1>4, <1>5, <1>6

(* Merge takes every column either from the session or from the table. *)
LEMMA MergeType ==
    ASSUME NEW r \in Row, NEW old \in Row, NEW new \in Row
    PROVE  Merge(r, old, new) \in Row
PROOF
<1>1. /\ Written(old.st, new.st, r.st) \in Status
      /\ Written(old.code, new.code, r.code) \in Code
      /\ Written(old.worker, new.worker, r.worker) \in Node \cup {None}
      /\ Written(old.wtask, new.wtask, r.wtask) \in Job \cup {None}
      /\ Written(old.rwt, new.rwt, r.rwt) \in BOOLEAN
      /\ Written(old.billed, new.billed, r.billed) \in BOOLEAN
      /\ Written(old.prod, new.prod, r.prod) \in BOOLEAN
  BY DEF Row, Written
<1>. QED BY <1>1 DEF Merge, Row

(* What a merged row holds, column by column. *)
LEMMA MergeFields ==
    ASSUME NEW r \in Row, NEW old \in Row, NEW new \in Row
    PROVE  LET m == Merge(r, old, new)
           IN  /\ m.st = Written(old.st, new.st, r.st)
               /\ m.code = Written(old.code, new.code, r.code)
               /\ m.wtask = Written(old.wtask, new.wtask, r.wtask)
               /\ m.billed = Written(old.billed, new.billed, r.billed)
               /\ m.kind = r.kind /\ m.src = r.src /\ m.skills = r.skills /\ m.skip = r.skip
  BY DEF Merge, Row

-----------------------------------------------------------------------------
(* The building blocks of dispatcher steps keep the types. *)

LEMMA RollbackType ==
    ASSUME StepTypeOK, Rollback
    PROVE  StepTypeOK' /\ CurOK'
  BY RowTypes DEF StepTypeOK, CurOK, Rollback, dbVars, histVars

LEMMA CommitType ==
    ASSUME StepTypeOK, NEW t \in Task, NEW new \in Row, Commit(t, new)
    PROVE  row' \in [Task -> Row]
  BY MergeType DEF StepTypeOK, Commit

LEMMA FinishTaskType ==
    ASSUME StepTypeOK, NEW t \in Task, NEW new \in Row, FinishTask(t, new)
    PROVE  StepTypeOK' /\ CurOK'
PROOF
<1>1. CASE Flushable(t, new)
  <2>1. row' \in [Task -> Row]
    BY <1>1, CommitType DEF FinishTask
  <2>2. view' \in [Task -> Row]
    BY <1>1, RowTypes DEF FinishTask, StepTypeOK
  <2>. QED BY <1>1, <2>1, <2>2 DEF FinishTask, StepTypeOK, CurOK, BackToLoop, histVars
<1>2. CASE ~Flushable(t, new)
  BY <1>2, RollbackType DEF FinishTask
<1>. QED BY <1>1, <1>2

LEMMA OnWorkerErrorType ==
    ASSUME StepTypeOK, cur \in Task, NEW v \in Row, NEW c \in Code, OnWorkerError(cur, v, c)
    PROVE  StepTypeOK' /\ CurOK'
PROOF
<1>1. Failed(v, c) \in Row /\ v.wtask \in Job \cup {None}
  BY RowTypes DEF Row
<1>2. CASE Flushable(cur, Failed(v, c))
  <2>1. row' \in [Task -> Row]
    BY <1>1, <1>2, CommitType DEF OnWorkerError
  <2>2. view' \in [Task -> Row]
    BY <1>2, RowTypes DEF OnWorkerError, StepTypeOK
  <2>. QED BY <1>1, <1>2, <2>1, <2>2 DEF OnWorkerError, StepTypeOK, CurOK, histVars
<1>3. CASE ~Flushable(cur, Failed(v, c))
  BY <1>3, RollbackType DEF OnWorkerError
<1>. QED BY <1>2, <1>3

LEMMA PersistArtifactType ==
    ASSUME StepTypeOK, NEW t \in Task, NEW v \in Row, PersistArtifact(t, v)
    PROVE  /\ row' \in [Task -> Row] /\ view' \in [Task -> Row]
           /\ alive' \subseteq Source
           /\ made' \in [Task -> Nat] /\ events' \in [Task -> Nat]
           /\ spawned' \in [Task -> Nat] /\ next' \in Task \cup {None}
PROOF
<1>. DEFINE new == Detached(Charged(Stored(v)))
            stored == [row EXCEPT ![t] = Merge(@, view[t], new)]
            child == NewRow("summarize", t, FALSE)
<1>1. new \in Row
  BY RowTypes
<1>2. stored \in [Task -> Row]
  BY <1>1, MergeType DEF StepTypeOK
<1>3. child \in Row
  BY RowTypes DEF Source
<1>4. made' \in [Task -> Nat] /\ events' \in [Task -> Nat]
  BY DEF PersistArtifact, ApplySuccessCharge, StepTypeOK
<1>5. alive' \subseteq Source
  BY DEF PersistArtifact, StepTypeOK, Source
<1>. HIDE DEF new, child, stored
<1>6. /\ row' \in [Task -> Row] /\ view' \in [Task -> Row]
      /\ spawned' \in [Task -> Nat] /\ next' \in Task \cup {None}
  <2>1. CASE HasFollowUp(t, v)
    <3>1. FollowUp(t) \in Task
      BY <2>1, Ids DEF HasFollowUp
    <3>2. /\ row' = [stored EXCEPT ![FollowUp(t)] = child]
          /\ view' = [view EXCEPT ![t] = NoRow, ![FollowUp(t)] = child]
          /\ spawned' = [spawned EXCEPT ![t] = @ + 1]
          /\ next' = FollowUp(t)
      BY <2>1 DEF PersistArtifact, stored, child, new
    <3>. QED BY <1>2, <1>3, <3>1, <3>2, RowTypes DEF StepTypeOK
  <2>2. CASE ~HasFollowUp(t, v)
    <3>1. /\ row' = stored /\ view' = [view EXCEPT ![t] = NoRow]
          /\ next' = None /\ UNCHANGED spawned
      BY <2>2 DEF PersistArtifact, stored, new
    <3>. QED BY <1>2, <3>1, RowTypes DEF StepTypeOK
  <2>. QED BY <2>1, <2>2
<1>. QED BY <1>4, <1>5, <1>6

LEMMA SkipArtifactType ==
    ASSUME StepTypeOK, NEW t \in Task, NEW v \in Row, SkipArtifact(t, v)
    PROVE  /\ row' \in [Task -> Row] /\ view' \in [Task -> Row]
           /\ alive' \subseteq Source
           /\ made' \in [Task -> Nat] /\ events' \in [Task -> Nat]
           /\ spawned' \in [Task -> Nat] /\ next' \in Task \cup {None}
PROOF
<1>1. Charged(Failed(v, "source_deleted")) \in Row
  BY RowTypes DEF Code
<1>2. row' \in [Task -> Row]
  BY <1>1, CommitType DEF SkipArtifact
<1>3. view' \in [Task -> Row]
  BY RowTypes DEF SkipArtifact, StepTypeOK
<1>4. events' \in [Task -> Nat]
  BY DEF SkipArtifact, ApplySuccessCharge, StepTypeOK
<1>. QED BY <1>2, <1>3, <1>4 DEF SkipArtifact, StepTypeOK

LEMMA OnWorkerSuccessType ==
    ASSUME StepTypeOK, cur \in Task, NEW v \in Row, OnWorkerSuccess(cur, v)
    PROVE  StepTypeOK' /\ CurOK'
PROOF
<1>1. v.wtask \in Job \cup {None}
  BY DEF Row
<1>2. CASE Rollback
  BY <1>2, RollbackType
<1>3. CASE /\ IF v.skip THEN SkipArtifact(cur, v) ELSE PersistArtifact(cur, v)
           /\ pc' = "cleanup" /\ finished' = v.wtask
           /\ left' = {} /\ large' = FALSE
           /\ UNCHANGED <<nodes, mode, todo, cur>>
  <2>1. /\ row' \in [Task -> Row] /\ view' \in [Task -> Row]
        /\ alive' \subseteq Source
        /\ made' \in [Task -> Nat] /\ events' \in [Task -> Nat]
        /\ spawned' \in [Task -> Nat] /\ next' \in Task \cup {None}
    BY <1>3, SkipArtifactType, PersistArtifactType
  <2>. QED BY <1>1, <1>3, <2>1 DEF StepTypeOK, CurOK
<1>. QED BY <1>2, <1>3 DEF OnWorkerSuccess

LEMMA TryNextType ==
    ASSUME StepTypeOK, CurOK, cur \in Task, NEW n \in Node, NEW v \in Row, NEW b \in BOOLEAN,
           TryNext(n, v, b)
    PROVE  StepTypeOK' /\ CurOK'
PROOF
<1>1. CASE left = {n}
  <2>1. (IF b THEN Failed(v, "unprocessable") ELSE v) \in Row
    BY RowTypes DEF Code
  <2>. QED BY <1>1, <2>1, FinishTaskType DEF TryNext
<1>2. CASE left # {n} /\ Flushable(cur, v)
  <2>1. row' \in [Task -> Row]
    BY <1>2, CommitType DEF TryNext
  <2>. QED BY <1>2, <2>1 DEF TryNext, StepTypeOK, CurOK, histVars
<1>3. CASE left # {n} /\ ~Flushable(cur, v)
  BY <1>3, RollbackType DEF TryNext
<1>. QED BY <1>1, <1>2, <1>3

-----------------------------------------------------------------------------
(* Initial states, and every action. *)

LEMMA InitType == Init => TypeInv
PROOF
<1>. SUFFICES ASSUME Init PROVE TypeInv
  OBVIOUS
<1>1. row \in [Task -> Row] /\ view \in [Task -> Row]
  BY RowTypes DEF Init
<1>2. plan \in [Task -> {"none", "cancel", "skip"}]
  BY DEF Init, NoPlan
<1>3. job \in [Job -> [st : {"free", "busy", "success", "error", "gone"},
                       task : Task \cup {None}]]
  BY DEF Init
<1>4. /\ made \in [Task -> Nat] /\ events \in [Task -> Nat] /\ spawned \in [Task -> Nat]
      /\ faults \in 0 .. MaxFaults
  BY FaultAssumption DEF Init
<1>. QED BY <1>1, <1>2, <1>3, <1>4 DEF Init, TypeInv, TypeOK, CurOK, Source

LEMMA TypeSplit == /\ TypeInv <=> StepTypeOK /\ OtherTypeOK /\ CurOK
                   /\ TypeInv' <=> StepTypeOK' /\ OtherTypeOK' /\ CurOK'
  BY DEF TypeInv, TypeOK, StepTypeOK, OtherTypeOK

(* The tick: starting, selecting a task, answers from workers, cleaning up. *)
LEMMA ProgressType ==
    ASSUME TypeInv, TickAll \/ (\E t \in Task : TickOne(t)) \/ Progress
    PROVE  TypeInv'
PROOF
<1>. SUFFICES StepTypeOK' /\ OtherTypeOK' /\ CurOK'
  BY TypeSplit
<1>1. /\ StepTypeOK /\ OtherTypeOK /\ CurOK
      /\ \A t \in Task : view[t] \in Row
      /\ \A c \in {"failed", "unprocessable", "source_deleted"} : c \in Code
  BY TypeSplit DEF StepTypeOK, Code
<1>2. Fault => faults' \in 0 .. MaxFaults
  BY <1>1, FaultAssumption DEF Fault, OtherTypeOK
<1>3. ASSUME NEW S \in SUBSET Task, Load(S), mode' \in {"tick", "recovery"}
      PROVE  StepTypeOK' /\ CurOK' /\ OtherTypeOK'
  BY <1>1, <1>3, RowTypes DEF Load, StepTypeOK, OtherTypeOK, CurOK, dbVars, histVars, delVars
<1>4. CASE TickAll \/ (\E t \in Task : TickOne(t)) \/ RecoverBegin
  BY <1>3, <1>4 DEF TickAll, TickOne, RecoverBegin
<1>5. CASE TickEnd
  BY <1>1, <1>5 DEF TickEnd, StepTypeOK, OtherTypeOK, CurOK, dbVars, histVars, delVars
<1>6. CASE \E t \in Task : SelectPoll(t) \/ SelectDispatch(t)
  <2>1. PICK t \in Task : SelectPoll(t) \/ SelectDispatch(t)
    BY <1>6
  <2>. QED BY <1>1, <2>1 DEF SelectPoll, SelectDispatch, Select, StepTypeOK, OtherTypeOK,
              CurOK, dbVars, histVars, delVars
<1>7. CASE \E t \in Task : SelectUnbound(t)
  <2>1. PICK t \in Task : SelectUnbound(t)
    BY <1>7
  <2>. DEFINE new == IF mode = "recovery" THEN Requeued(view[t]) ELSE view[t]
  <2>2. new \in Row
    BY <1>1, RowTypes
  <2>3. OtherTypeOK'
    BY <1>1, <2>1 DEF SelectUnbound, OtherTypeOK, delVars
  <2>4. CASE Flushable(t, new)
    <3>1. row' \in [Task -> Row]
      BY <1>1, <2>1, <2>2, <2>4, CommitType DEF SelectUnbound
    <3>2. view' \in [Task -> Row]
      BY <1>1, <2>1, <2>4, RowTypes DEF SelectUnbound, StepTypeOK
    <3>. QED BY <1>1, <2>1, <2>3, <2>4, <3>1, <3>2
             DEF SelectUnbound, StepTypeOK, CurOK, histVars
  <2>5. CASE ~Flushable(t, new)
    BY <1>1, <2>1, <2>3, <2>5, RollbackType DEF SelectUnbound
  <2>. QED BY <2>4, <2>5
<1>8. CASE Dispatch
  <2>1. CASE DispatchWaiting
    BY <1>1, <1>2, <2>1, RowTypes, FinishTaskType
    DEF DispatchWaiting, Dispatching, CurOK, OtherTypeOK, delVars
  <2>2. CASE DispatchEmptyPool
    <3>1. faults' \in 0 .. MaxFaults /\ OtherTypeOK'
      BY <1>1, <1>2, <2>2 DEF DispatchEmptyPool, OtherTypeOK, delVars
    <3>2. cur \in Task /\ Failed(view[cur], "failed") \in Row
      BY <1>1, <2>2, RowTypes DEF DispatchEmptyPool, Dispatching, CurOK
    <3>. QED BY <1>1, <2>2, <3>1, <3>2, FinishTaskType DEF DispatchEmptyPool
  <2>3. CASE DispatchSourceGone \/ DispatchUnfit
    <3>1. cur \in Task /\ \A c \in Code : Failed(view[cur], c) \in Row
      BY <1>1, <2>3, RowTypes DEF DispatchSourceGone, DispatchUnfit, Dispatching, CurOK
    <3>2. OtherTypeOK'
      BY <1>1, <2>3 DEF DispatchSourceGone, DispatchUnfit, OtherTypeOK, delVars
    <3>. QED BY <1>1, <2>3, <3>1, <3>2, FinishTaskType DEF DispatchSourceGone, DispatchUnfit
  <2>4. CASE DispatchSend
    BY <1>1, <2>4 DEF DispatchSend, Dispatching, StepTypeOK, OtherTypeOK, CurOK, dbVars,
       histVars, delVars
  <2>. QED BY <1>8, <2>1, <2>2, <2>3, <2>4 DEF Dispatch
<1>9. CASE PollBusy \/ PollSilent \/ PollNotFound \/ PollSuccess \/ PollError
  <2>1. cur \in Task /\ view[cur] \in Row /\ Requeued(view[cur]) \in Row
                     /\ Detached(view[cur]) \in Row
    BY <1>1, <1>9, RowTypes
    DEF PollBusy, PollSilent, PollNotFound, PollSuccess, PollError, Polling, CurOK
  <2>2. OtherTypeOK'
    BY <1>1, <1>2, <1>9
    DEF PollBusy, PollSilent, PollNotFound, PollSuccess, PollError, OtherTypeOK, delVars
  <2>3. CASE PollBusy
    BY <1>1, <2>1, <2>2, <2>3, FinishTaskType DEF PollBusy
  <2>4. CASE PollSilent
    BY <1>1, <2>1, <2>2, <2>4, FinishTaskType DEF PollSilent
  <2>5. CASE PollNotFound
    <3>. DEFINE new == IF view[cur].prod THEN Detached(view[cur]) ELSE Requeued(view[cur])
    <3>1. new \in Row
      BY <2>1
    <3>2. CASE FinishTask(cur, new)
      BY <1>1, <2>1, <2>2, <3>1, <3>2, FinishTaskType
    <3>3. CASE Rollback
      BY <1>1, <2>2, <3>3, RollbackType
    <3>4. CASE /\ Commit(cur, new)
               /\ view' = [view EXCEPT ![cur] = new]
               /\ pc' = "dispatch"
               /\ UNCHANGED <<alive, nodes, histVars, mode, todo, cur, left,
                              large, finished, next>>
      <4>1. row' \in [Task -> Row]
        BY <1>1, <2>1, <3>1, <3>4, CommitType
      <4>2. view' \in [Task -> Row]
        BY <1>1, <2>1, <3>1, <3>4 DEF StepTypeOK
      <4>. QED BY <1>1, <2>1, <2>2, <3>4, <4>1, <4>2 DEF StepTypeOK, CurOK, histVars
    <3>. QED BY <2>5, <3>2, <3>3, <3>4 DEF PollNotFound
  <2>6. CASE PollSuccess
    BY <1>1, <2>1, <2>2, <2>6, OnWorkerSuccessType DEF PollSuccess
  <2>7. CASE PollError
    BY <1>1, <2>1, <2>2, <2>7, OnWorkerErrorType DEF PollError
  <2>. QED BY <1>9, <2>3, <2>4, <2>5, <2>6, <2>7
<1>10. CASE PostBlobGone
  BY <1>1, <1>10, RollbackType DEF PostBlobGone, OtherTypeOK, delVars
<1>11. ASSUME NEW n \in Node,
              PostLost(n) \/ PostBusy(n) \/ PostTooLarge(n) \/ PostRejected(n)
       PROVE  StepTypeOK' /\ OtherTypeOK' /\ CurOK'
  <2>1. /\ cur \in Task /\ view[cur] \in Row /\ [view[cur] EXCEPT !.rwt = TRUE] \in Row
        /\ \A c \in Code : Failed(view[cur], c) \in Row
    BY <1>1, <1>11, RowTypes
    DEF PostLost, PostBusy, PostTooLarge, PostRejected, Posting, CurOK
  <2>2. ASSUME NEW j \in Job, NEW st \in {"busy", "success", "error"}, Created(j, cur, st)
        PROVE  job' \in [Job -> [st : {"free", "busy", "success", "error", "gone"},
                                 task : Task \cup {None}]]
    BY <1>1, <2>1, <2>2 DEF Created, OtherTypeOK
  <2>3. OtherTypeOK'
    BY <1>1, <1>2, <1>11, <2>2
    DEF PostLost, PostBusy, PostTooLarge, PostRejected, OtherTypeOK, delVars
  <2>4. large \in BOOLEAN
    BY <1>1 DEF StepTypeOK
  <2>5. CASE PostLost(n)
    BY <1>1, <2>1, <2>3, <2>5, TryNextType DEF PostLost
  <2>6. CASE PostBusy(n)
    BY <1>1, <2>1, <2>3, <2>6, TryNextType DEF PostBusy
  <2>7. CASE PostTooLarge(n)
    BY <1>1, <2>1, <2>3, <2>4, <2>7, TryNextType DEF PostTooLarge
  <2>8. CASE PostRejected(n)
    BY <1>1, <2>1, <2>3, <2>8, FinishTaskType DEF PostRejected
  <2>. QED BY <1>11, <2>5, <2>6, <2>7, <2>8
<1>12. ASSUME NEW n \in Node, NEW j \in Job, PostAccepted(n, j) \/ PostDone(n, j)
       PROVE  StepTypeOK' /\ OtherTypeOK' /\ CurOK'
  <2>1. /\ cur \in Task /\ view[cur] \in Row
        /\ \A id \in Job \cup {None} : Dispatched(view[cur], n, id) \in Row
    BY <1>1, <1>12, RowTypes DEF PostAccepted, PostDone, Posting, CurOK
  <2>2. OtherTypeOK'
    BY <1>1, <1>12, <2>1 DEF PostAccepted, PostDone, Created, OtherTypeOK, delVars
  <2>3. CASE PostAccepted(n, j)
    <3>1. PICK id \in Job \cup {None} : FinishTask(cur, Dispatched(view[cur], n, id))
      BY <2>3 DEF PostAccepted
    <3>. QED BY <1>1, <2>1, <2>2, <3>1, FinishTaskType
  <2>4. CASE PostDone(n, j)
    BY <1>1, <2>1, <2>2, <2>4, OnWorkerSuccessType, OnWorkerErrorType DEF PostDone
  <2>. QED BY <1>12, <2>3, <2>4
<1>13. CASE Answer
  BY <1>9, <1>10, <1>11, <1>12, <1>13 DEF Answer
<1>14. CASE Cleanup
  <2>1. OtherTypeOK'
    BY <1>1, <1>2, <1>14 DEF Cleanup, OtherTypeOK, delVars
  <2>2. StepTypeOK' /\ CurOK'
    BY <1>1, <1>14, Ids DEF Cleanup, StepTypeOK, CurOK, BackToLoop, dbVars, histVars
  <2>. QED BY <2>1, <2>2
<1>. QED BY <1>4, <1>5, <1>6, <1>7, <1>8, <1>13, <1>14 DEF Progress

(* Endpoints, workers, crash and restart. *)
LEMMA EnvironmentType ==
    ASSUME TypeInv,
           \/ Api \/ Crash \/ Restart
           \/ \E j \in Job : WorkerFinish(j) \/ WorkerForget(j)
    PROVE  TypeInv'
PROOF
<1>. SUFFICES StepTypeOK' /\ OtherTypeOK' /\ CurOK'
  BY TypeSplit
<1>1. /\ StepTypeOK /\ OtherTypeOK /\ CurOK
      /\ \A t \in Task : row[t] \in Row
  BY TypeSplit DEF StepTypeOK
<1>2. Fault => faults' \in 0 .. MaxFaults
  BY <1>1, FaultAssumption DEF Fault, OtherTypeOK
<1>3. ASSUME row' \in [Task -> Row], alive' \subseteq Source, nodes' \subseteq Node,
             del' \in Source \cup {None}, plan' \in [Task -> {"none", "cancel", "skip"}],
             UNCHANGED apiUnchanged
      PROVE  StepTypeOK' /\ OtherTypeOK' /\ CurOK'
  BY <1>1, <1>3 DEF apiUnchanged, tickVars, StepTypeOK, OtherTypeOK, CurOK
<1>4. /\ alive \subseteq Source /\ nodes \subseteq Node
      /\ del \in Source \cup {None} /\ plan \in [Task -> {"none", "cancel", "skip"}]
      /\ row \in [Task -> Row]
  BY <1>1 DEF StepTypeOK, OtherTypeOK
<1>5. CASE Api
  <2>1. ASSUME NEW t \in Root, NEW a \in Audio, NEW b \in BOOLEAN, CreateTranscribe(t, a, b)
        PROVE  StepTypeOK' /\ OtherTypeOK' /\ CurOK'
    <3>1. NewRow("transcribe", a, b) \in Row
      BY RowTypes DEF Source
    <3>. QED BY <1>3, <1>4, <2>1, <3>1 DEF CreateTranscribe, delVars
  <2>2. ASSUME NEW t \in Root, NEW p \in Task, CreateSummarize(t, p)
        PROVE  StepTypeOK' /\ OtherTypeOK' /\ CurOK'
    <3>1. NewRow("summarize", p, FALSE) \in Row
      BY RowTypes DEF Source
    <3>. QED BY <1>3, <1>4, <2>2, <3>1 DEF CreateSummarize, delVars
  <2>3. ASSUME NEW t \in Task, CancelTask(t)
        PROVE  StepTypeOK' /\ OtherTypeOK' /\ CurOK'
    <3>1. row' \in [Task -> Row]
      BY <1>1, <1>4, <2>3, RowTypes DEF CancelTask
    <3>. QED BY <1>3, <1>4, <2>3, <3>1 DEF CancelTask, delVars
  <2>4. ASSUME NEW t \in Task, RetryTask(t)
        PROVE  StepTypeOK' /\ OtherTypeOK' /\ CurOK'
    <3>1. [Requeued(row[t]) EXCEPT !.code = "none", !.prod = FALSE, !.rwt = FALSE,
                                   !.skip = FALSE] \in Row
      <4>1. Requeued(row[t]) \in Row
        BY <1>1, RowTypes
      <4>. QED BY <4>1 DEF Row, Code
    <3>. QED BY <1>3, <1>4, <2>4, <3>1 DEF RetryTask, delVars
  <2>5. ASSUME NEW t \in Task, PurgeTask(t)
        PROVE  StepTypeOK' /\ OtherTypeOK' /\ CurOK'
    BY <1>3, <1>4, <2>5, RowTypes DEF PurgeTask, delVars
  <2>6. ASSUME NEW s \in Source, DeleteRead(s)
        PROVE  StepTypeOK' /\ OtherTypeOK' /\ CurOK'
    BY <1>3, <1>4, <2>6 DEF DeleteRead
  <2>7. CASE DeleteCommit
    <3>1. ASSUME NEW t \in Task PROVE DeleteApply(row[t], t) \in Row
      <4>. DEFINE q == IF plan[t] = "cancel"
                       THEN Canceled(row[t])
                       ELSE IF plan[t] = "skip" THEN [row[t] EXCEPT !.skip = TRUE]
                       ELSE row[t]
      <4>1. q \in Row
        <5>1. Canceled(row[t]) \in Row
          BY <1>1, RowTypes
        <5>2. [row[t] EXCEPT !.skip = TRUE] \in Row
          BY <1>1 DEF Row
        <5>. QED BY <1>1, <5>1, <5>2
      <4>. HIDE DEF q
      <4>2. [q EXCEPT !.src = IF q.src = del THEN None ELSE q.src,
                      !.prod = IF t = del THEN FALSE ELSE q.prod] \in Row
        BY <4>1 DEF Row
      <4>3. DeleteApply(row[t], t)
              = [q EXCEPT !.src = IF @ = del THEN None ELSE @,
                          !.prod = IF t = del THEN FALSE ELSE @]
        BY DEF DeleteApply, q
      <4>. QED BY <4>1, <4>2, <4>3 DEF Row
    <3>2. plan' \in [Task -> {"none", "cancel", "skip"}]
      BY <2>7 DEF DeleteCommit, NoPlan
    <3>. QED BY <1>3, <1>4, <2>7, <3>1, <3>2 DEF DeleteCommit
  <2>8. ASSUME NEW n \in Node, RemoveNode(n)
        PROVE  StepTypeOK' /\ OtherTypeOK' /\ CurOK'
    <3>1. ASSUME NEW t \in Task, NEW w \in Job \cup {None}
          PROVE  [row[t] EXCEPT !.worker = None, !.wtask = w] \in Row
      BY <1>1 DEF Row
    <3>2. ASSUME NEW t \in Task PROVE row'[t] \in Row
      <4>1. row[t] \in Row /\ row[t].wtask \in Job \cup {None}
        BY <1>1 DEF Row
      <4>2. \/ row'[t] = row[t]
            \/ \E w \in Job \cup {None} : row'[t] = [row[t] EXCEPT !.worker = None, !.wtask = w]
        BY <2>8, <4>1 DEF RemoveNode
      <4>. QED BY <3>1, <4>1, <4>2
    <3>3. row' \in [Task -> Row]
      BY <2>8, <3>2 DEF RemoveNode
    <3>. QED BY <1>3, <1>4, <2>8, <3>3 DEF RemoveNode, delVars
  <2>. QED BY <1>5, <2>1, <2>2, <2>3, <2>4, <2>5, <2>6, <2>7, <2>8 DEF Api
<1>6. CASE \E j \in Job : WorkerFinish(j) \/ WorkerForget(j)
  <2>1. PICK j \in Job : WorkerFinish(j) \/ WorkerForget(j)
    BY <1>6
  <2>2. OtherTypeOK'
    BY <1>1, <1>2, <2>1 DEF WorkerFinish, WorkerForget, OtherTypeOK, delVars
  <2>. QED BY <1>1, <2>1, <2>2
           DEF WorkerFinish, WorkerForget, StepTypeOK, CurOK, dbVars, histVars, tickVars
<1>7. CASE Crash
  <2>1. OtherTypeOK'
    BY <1>1, <1>2, <1>7 DEF Crash, OtherTypeOK, NoPlan
  <2>. QED BY <1>1, <1>7, <2>1, RowTypes DEF Crash, StepTypeOK, CurOK, dbVars, histVars
<1>8. CASE Restart
  BY <1>1, <1>8 DEF Restart, StepTypeOK, OtherTypeOK, CurOK, dbVars, histVars, delVars
<1>. QED BY <1>5, <1>6, <1>7, <1>8

LEMMA NextType == TypeInv /\ [Next]_vars => TypeInv'
PROOF
<1>1. ASSUME TypeInv, UNCHANGED vars PROVE TypeInv'
  BY <1>1 DEF vars, dbVars, histVars, tickVars, delVars, TypeInv, TypeOK, CurOK
<1>. QED BY <1>1, ProgressType, EnvironmentType DEF Next

(* Type correctness of the dispatcher. *)
THEOREM TypeCorrect == Spec => []TypeOK
  BY InitType, NextType, PTL DEF Spec, TypeInv

-----------------------------------------------------------------------------
(* Settlement: BilledOnce, OneArtifact and FollowUpOnce. *)

RowsOK == (\A t \in Task : RowOK(t)) /\ (\A r \in Root : ChildOK(r))
TickOK == LocalsOK /\ (\A t \in Loaded : LoadedOK(t))
SInv == TypeInv /\ RowsOK /\ TickOK

(* What a dispatcher step may do to the copy of a task it does not settle. *)
Plain(old, new) == /\ new.st \in {"queued", "running", "error"}
                   /\ new.billed = old.billed
                   /\ new.skills = old.skills /\ new.kind = old.kind

LEMMA PlainUpdates ==
    ASSUME NEW v \in Row, v.st \in Active
    PROVE  /\ Plain(v, v) /\ Plain(v, Requeued(v)) /\ Plain(v, Detached(v))
           /\ Plain(v, [v EXCEPT !.rwt = TRUE])
           /\ [v EXCEPT !.rwt = TRUE].st = v.st
           /\ Requeued(v).st = "queued"
           /\ \A c \in Code : Plain(v, Failed(v, c))
           /\ \A n, j : Plain(v, Dispatched(v, n, j))
  BY DEF Row, Active, Plain, Requeued, Detached, Failed, Dispatched

LEMMA RollbackSettles ==
    ASSUME SInv, Rollback, UNCHANGED plan
    PROVE  RowsOK' /\ TickOK'
PROOF
<1>1. RowsOK'
  BY DEF SInv, RowsOK, RowOK, ChildOK, Rollback, dbVars, histVars
<1>2. TickOK'
  BY DEF Rollback, TickOK, LocalsOK, Loaded
<1>. QED BY <1>1, <1>2

(* A commit that settles nothing keeps what the rows promise. *)
LEMMA CommitSettles ==
    ASSUME SInv, NEW t \in Loaded, t \in Task, NEW new \in Row, Plain(view[t], new),
           Flushable(t, new), Commit(t, new),
           UNCHANGED <<made, events, spawned, plan>>
    PROVE  /\ RowsOK'
           /\ \A q \in Task : q # t => row'[q] = row[q]
           /\ row'[t].st # "absent"
           /\ row'[t].st # "purged" =>
                /\ new.billed = row'[t].billed
                /\ new.skills = row'[t].skills /\ new.kind = row'[t].kind
                /\ row'[t].wtask \in {None, new.wtask}
PROOF
<1>. DEFINE m == Merge(row[t], view[t], new)
<1>1. /\ row \in [Task -> Row] /\ view[t] \in Row /\ row[t] \in Row
      /\ made \in [Task -> Nat] /\ events \in [Task -> Nat] /\ spawned \in [Task -> Nat]
  BY DEF SInv, TypeInv, TypeOK
<1>2. LoadedOK(t) /\ RowOK(t)
  BY DEF SInv, RowsOK, TickOK
<1>3. /\ m.st = Written(view[t].st, new.st, row[t].st)
      /\ m.code = Written(view[t].code, new.code, row[t].code)
      /\ m.wtask = Written(view[t].wtask, new.wtask, row[t].wtask)
      /\ m.billed = Written(view[t].billed, new.billed, row[t].billed)
      /\ m.kind = row[t].kind /\ m.skills = row[t].skills
  BY <1>1, MergeFields
<1>4. row' = [row EXCEPT ![t] = m]
  BY DEF Commit
<1>. HIDE DEF m
<1>5. /\ \A q \in Task : q # t => row'[q] = row[q]
      /\ row'[t] = m
  BY <1>1, <1>4
<1>6. m.billed = row[t].billed
  BY <1>3 DEF Plain, Written
<1>7. m.st \notin {"absent", "success"}
  BY <1>2, <1>3 DEF Plain, Written, LoadedOK, RowOK
<1>8. m.st = "purged" <=> row[t].st = "purged"
  <2>1. CASE row[t].st = "purged"
    <3>1. new = view[t]
      BY <2>1 DEF Flushable
    <3>. QED BY <1>3, <2>1, <3>1 DEF Written
  <2>2. CASE row[t].st # "purged"
    BY <1>3, <2>2 DEF Written, Plain
  <2>. QED BY <2>1, <2>2
<1>9. RowOK(t)'
  BY <1>1, <1>2, <1>3, <1>5, <1>6, <1>7, <1>8 DEF RowOK, LoadedOK
<1>10. ASSUME NEW q \in Task, q # t PROVE RowOK(q)'
  BY <1>5, <1>10 DEF SInv, RowsOK, RowOK
<1>11. ASSUME NEW r \in Root PROVE ChildOK(r)'
  <2>1. ChildOK(r) /\ r \in Task /\ FollowUp(r) \in Task
    BY Ids DEF SInv, RowsOK
  <2>2. row'[FollowUp(r)].st # "absent" <=> row[FollowUp(r)].st # "absent"
    BY <1>2, <1>5, <1>7, <2>1 DEF LoadedOK
  <2>3. row'[r].st = "success" /\ row'[r].skills => row[r].st = "success" /\ row[r].skills
    BY <1>5, <1>7, <2>1
  <2>. QED BY <2>1, <2>2, <2>3 DEF ChildOK
<1>12. row'[t].st # "purged" =>
         /\ new.billed = row'[t].billed
         /\ new.skills = row'[t].skills /\ new.kind = row'[t].kind
         /\ row'[t].wtask \in {None, new.wtask}
  BY <1>2, <1>3, <1>5, <1>6, <1>8 DEF LoadedOK, Plain, Written
<1>. QED BY <1>5, <1>7, <1>9, <1>10, <1>11, <1>12 DEF RowsOK

(* The other tasks of the tick are untouched by a step that works on t. *)
LEMMA OthersStayLoaded ==
    ASSUME SInv, NEW t \in Task, NEW q \in Loaded, q # t, q \in Task,
           row'[q] = row[q], view'[q] = view[q], made'[q] = made[q]
    PROVE  LoadedOK(q)'
  BY DEF SInv, TickOK, LoadedOK

Handling == pc \in {"poll", "dispatch", "post"}

LEMMA HandlingFacts ==
    ASSUME SInv, Handling
    PROVE  /\ cur \in Task /\ cur \in Loaded /\ cur \notin todo
           /\ view[cur] \in Row /\ view[cur].st \in Active
           /\ LoadedOK(cur) /\ RowOK(cur)
           /\ todo \subseteq Task /\ \A q \in todo : q # cur /\ q \in Loaded /\ LoadedOK(q)
PROOF
<1>1. cur \in Task /\ cur \notin todo /\ cur \in Loaded
  BY DEF SInv, TickOK, LocalsOK, Handling, Loaded
<1>2. todo \subseteq Task /\ view[cur] \in Row
  BY <1>1 DEF SInv, TypeInv, TypeOK
<1>3. \A q \in todo : q # cur /\ q \in Loaded
  BY <1>1 DEF Loaded
<1>. QED BY <1>1, <1>2, <1>3 DEF SInv, RowsOK, TickOK, LoadedOK

LEMMA FinishTaskSettles ==
    ASSUME SInv, Handling, NEW new \in Row, Plain(view[cur], new),
           FinishTask(cur, new), UNCHANGED plan
    PROVE  RowsOK' /\ TickOK'
PROOF
<1>. USE HandlingFacts
<1>1. CASE Flushable(cur, new)
  <2>1. /\ Commit(cur, new) /\ view' = [view EXCEPT ![cur] = NoRow]
        /\ pc' = "loop" /\ next' = None /\ todo' = todo
        /\ UNCHANGED <<made, events, spawned, plan>>
    BY <1>1 DEF FinishTask, BackToLoop, histVars
  <2>2. RowsOK' /\ \A q \in Task : q # cur => row'[q] = row[q]
    BY <1>1, <2>1, CommitSettles
  <2>3. Loaded' = todo /\ LocalsOK'
    BY <2>1 DEF Loaded, LocalsOK
  <2>4. ASSUME NEW q \in todo PROVE LoadedOK(q)'
    <3>1. view'[q] = view[q]
      BY <2>1 DEF SInv, TypeInv, TypeOK
    <3>. QED BY <2>1, <2>2, <3>1, OthersStayLoaded
  <2>. QED BY <2>2, <2>3, <2>4 DEF TickOK
<1>2. CASE ~Flushable(cur, new)
  BY <1>2, RollbackSettles DEF FinishTask
<1>. QED BY <1>1, <1>2

LEMMA OnWorkerErrorSettles ==
    ASSUME SInv, Handling, NEW v \in Row, NEW c \in Code,
           Plain(view[cur], Failed(v, c)), OnWorkerError(cur, v, c), UNCHANGED plan
    PROVE  RowsOK' /\ TickOK'
PROOF
<1>. USE HandlingFacts
<1>. DEFINE new == Failed(v, c)
<1>0. new \in Row
  BY RowTypes
<1>1. CASE Flushable(cur, new)
  <2>1. /\ Commit(cur, new) /\ view' = [view EXCEPT ![cur] = NoRow]
        /\ pc' = "cleanup" /\ next' = None /\ todo' = todo /\ cur' = cur
        /\ UNCHANGED <<made, events, spawned, plan>>
    BY <1>1 DEF OnWorkerError, histVars
  <2>2. RowsOK' /\ \A q \in Task : q # cur => row'[q] = row[q]
    BY <1>0, <1>1, <2>1, CommitSettles
  <2>3. Loaded' = todo /\ LocalsOK'
    BY <2>1, Ids DEF Loaded, LocalsOK
  <2>4. ASSUME NEW q \in todo PROVE LoadedOK(q)'
    <3>1. view'[q] = view[q]
      BY <2>1 DEF SInv, TypeInv, TypeOK
    <3>. QED BY <2>1, <2>2, <3>1, OthersStayLoaded
  <2>. QED BY <2>2, <2>3, <2>4 DEF TickOK
<1>2. CASE ~Flushable(cur, new)
  BY <1>2, RollbackSettles DEF OnWorkerError
<1>. QED BY <1>1, <1>2

LEMMA TryNextSettles ==
    ASSUME SInv, pc = "post", NEW n \in Node, NEW v \in Row, NEW b \in BOOLEAN,
           v.st \in Active, Plain(view[cur], v), Plain(view[cur], Failed(v, "unprocessable")),
           TryNext(n, v, b), UNCHANGED plan
    PROVE  RowsOK' /\ TickOK'
PROOF
<1>0. Handling
  BY DEF Handling
<1>. USE <1>0, HandlingFacts
<1>1. CASE left = {n}
  <2>1. Failed(v, "unprocessable") \in Row
    BY RowTypes DEF Code
  <2>2. CASE b
    BY <1>1, <2>1, <2>2, FinishTaskSettles DEF TryNext
  <2>3. CASE ~b
    BY <1>1, <2>3, FinishTaskSettles DEF TryNext
  <2>. QED BY <2>2, <2>3
<1>2. CASE left # {n} /\ Flushable(cur, v)
  <2>1. /\ Commit(cur, v) /\ view' = [view EXCEPT ![cur] = v]
        /\ pc' = "post" /\ todo' = todo /\ cur' = cur
        /\ UNCHANGED <<made, events, spawned, plan>>
    BY <1>2 DEF TryNext, histVars
  <2>2. /\ RowsOK' /\ \A q \in Task : q # cur => row'[q] = row[q]
        /\ row'[cur].st # "absent"
        /\ row'[cur].st # "purged" =>
             /\ v.billed = row'[cur].billed
             /\ v.skills = row'[cur].skills /\ v.kind = row'[cur].kind
             /\ row'[cur].wtask \in {None, v.wtask}
    BY <1>2, <2>1, CommitSettles
  <2>3. Loaded' = todo \cup {cur} /\ LocalsOK'
    BY <2>1 DEF Loaded, LocalsOK
  <2>4. ASSUME NEW q \in todo PROVE LoadedOK(q)'
    <3>1. view'[q] = view[q]
      BY <2>1 DEF SInv, TypeInv, TypeOK
    <3>. QED BY <2>1, <2>2, <3>1, OthersStayLoaded
  <2>5. LoadedOK(cur)'
    <3>1. view'[cur] = v
      BY <2>1 DEF SInv, TypeInv, TypeOK
    <3>. QED BY <2>1, <2>2, <3>1 DEF LoadedOK
  <2>. QED BY <2>1, <2>2, <2>3, <2>4, <2>5 DEF TickOK
<1>3. CASE left # {n} /\ ~Flushable(cur, v)
  BY <1>3, RollbackSettles DEF TryNext
<1>. QED BY <1>1, <1>2, <1>3

(* The copy a success handler works on agrees with the session's where it    *)
(* matters; only the worker columns may just have been set.                  *)
SameTask(old, v) == /\ v.st \in Active /\ v.billed = old.billed /\ v.skip = old.skip
                    /\ v.skills = old.skills /\ v.kind = old.kind /\ v.src = old.src

LEMMA SettledFields ==
    ASSUME NEW v \in Row
    PROVE  LET a == Detached(Charged(Stored(v)))
               b == Charged(Failed(v, "source_deleted"))
           IN  /\ a \in Row /\ a.st = "success" /\ a.billed = TRUE /\ a.wtask = None
               /\ b \in Row /\ b.st = "error" /\ b.billed = TRUE /\ b.wtask = None
PROOF
<1>1. /\ Stored(v) \in Row /\ Charged(Stored(v)) \in Row
      /\ Detached(Charged(Stored(v))) \in Row
      /\ Failed(v, "source_deleted") \in Row /\ Charged(Failed(v, "source_deleted")) \in Row
  BY RowTypes DEF Code
<1>2. Stored(v).st = "success" /\ Failed(v, "source_deleted").st = "error"
                               /\ Failed(v, "source_deleted").wtask = None
  BY DEF Stored, Failed, Row
<1>3. \A u \in Row : /\ Charged(u).st = u.st /\ Charged(u).wtask = u.wtask
                     /\ Charged(u).billed = TRUE
                     /\ Detached(u).st = u.st /\ Detached(u).wtask = None
                     /\ Detached(u).billed = u.billed
  BY DEF Charged, Detached, Row
<1>. QED BY <1>1, <1>2, <1>3

(* Row and counters of the task that is being settled, after the commit. *)
LEMMA SettledRow ==
    ASSUME SInv, Handling, NEW v \in Row, SameTask(view[cur], v), row[cur].st # "purged",
           ApplySuccessCharge(cur, v),
           NEW new \in Row, new.st \in {"success", "error"}, new.billed = TRUE, new.wtask = None
    PROVE  LET m == Merge(row[cur], view[cur], new)
           IN  /\ m.st = new.st /\ m.billed = TRUE /\ m.wtask = None
               /\ m.skills = row[cur].skills /\ m.kind = row[cur].kind
               /\ events'[cur] = 1
               /\ \A q \in Task : q # cur => events'[q] = events[q]
PROOF
<1>. USE HandlingFacts
<1>1. row[cur] \in Row /\ events \in [Task -> Nat]
  BY DEF SInv, TypeInv, TypeOK
<1>2. \A q \in Task : q # cur => events'[q] = events[q]
  BY <1>1 DEF ApplySuccessCharge
<1>3. events'[cur] = IF v.billed THEN events[cur] ELSE events[cur] + 1
  BY <1>1 DEF ApplySuccessCharge
<1>4. events'[cur] = 1
  <2>1. events[cur] \in Nat /\ v.billed = row[cur].billed /\ v.billed \in BOOLEAN
    BY <1>1 DEF LoadedOK, SameTask, Row
  <2>. QED BY <1>3, <2>1 DEF RowOK
<1>. DEFINE m == Merge(row[cur], view[cur], new)
<1>5. /\ m.st = Written(view[cur].st, new.st, row[cur].st)
      /\ m.wtask = Written(view[cur].wtask, new.wtask, row[cur].wtask)
      /\ m.billed = Written(view[cur].billed, new.billed, row[cur].billed)
      /\ m.kind = row[cur].kind /\ m.skills = row[cur].skills
  BY <1>1, MergeFields
<1>. HIDE DEF m
<1>6. m.st = new.st
  BY <1>5 DEF Written, Active
<1>7. m.wtask = None
  BY <1>5 DEF Written, LoadedOK
<1>8. m.billed = TRUE
  BY <1>5 DEF Written, LoadedOK
<1>. QED BY <1>2, <1>4, <1>5, <1>6, <1>7, <1>8 DEF m

LEMMA SkipArtifactSettles ==
    ASSUME SInv, Handling, NEW v \in Row, SameTask(view[cur], v), row[cur].st # "purged",
           SkipArtifact(cur, v), pc' = "cleanup", UNCHANGED <<plan, todo, cur>>
    PROVE  RowsOK' /\ TickOK'
PROOF
<1>. USE HandlingFacts
<1>. DEFINE new == Charged(Failed(v, "source_deleted"))
            m == Merge(row[cur], view[cur], new)
<1>1. /\ m.st = "error" /\ m.billed = TRUE /\ m.wtask = None
      /\ m.skills = row[cur].skills /\ m.kind = row[cur].kind
      /\ events'[cur] = 1
      /\ \A q \in Task : q # cur => events'[q] = events[q]
  <2>1. new \in Row /\ new.st = "error" /\ new.billed = TRUE /\ new.wtask = None
    BY SettledFields
  <2>2. ApplySuccessCharge(cur, v)
    BY DEF SkipArtifact
  <2>. HIDE DEF new
  <2>. QED BY <2>1, <2>2, SettledRow
<1>2. row' = [row EXCEPT ![cur] = m]
  BY DEF SkipArtifact, Commit
<1>. HIDE DEF m
<1>3. row'[cur] = m /\ \A q \in Task : q # cur => row'[q] = row[q] /\ view'[q] = view[q]
  BY <1>2 DEF SkipArtifact, SInv, TypeInv, TypeOK
<1>4. UNCHANGED <<made, spawned>> /\ next' = None
  BY DEF SkipArtifact
<1>5. RowOK(cur)'
  BY <1>1, <1>3, <1>4 DEF RowOK, LoadedOK
<1>6. ASSUME NEW q \in Task, q # cur PROVE RowOK(q)'
  BY <1>1, <1>3, <1>4, <1>6 DEF SInv, RowsOK, RowOK
<1>7. ASSUME NEW r \in Root PROVE ChildOK(r)'
  <2>1. ChildOK(r) /\ r \in Task /\ FollowUp(r) \in Task
    BY Ids DEF SInv, RowsOK
  <2>2. row'[FollowUp(r)].st # "absent" <=> row[FollowUp(r)].st # "absent"
    BY <1>1, <1>3, <2>1 DEF LoadedOK
  <2>3. row'[r].st = "success" /\ row'[r].skills => row[r].st = "success" /\ row[r].skills
    BY <1>1, <1>3, <2>1
  <2>. QED BY <1>4, <2>1, <2>2, <2>3 DEF ChildOK
<1>8. Loaded' = todo /\ LocalsOK'
  BY <1>4, Ids DEF Loaded, LocalsOK
<1>9. ASSUME NEW q \in todo PROVE LoadedOK(q)'
  BY <1>3, <1>4, OthersStayLoaded
<1>. QED BY <1>5, <1>6, <1>7, <1>8, <1>9 DEF RowsOK, TickOK

LEMMA PersistArtifactSettles ==
    ASSUME SInv, Handling, NEW v \in Row, SameTask(view[cur], v), row[cur].st # "purged",
           PersistArtifact(cur, v), pc' = "cleanup", UNCHANGED <<plan, todo, cur>>
    PROVE  RowsOK' /\ TickOK'
PROOF
<1>. USE HandlingFacts
<1>. DEFINE new == Detached(Charged(Stored(v)))
            m == Merge(row[cur], view[cur], new)
            child == NewRow("summarize", cur, FALSE)
<1>1. /\ m.st = "success" /\ m.billed = TRUE /\ m.wtask = None
      /\ m.skills = row[cur].skills /\ m.kind = row[cur].kind
      /\ events'[cur] = 1
      /\ \A q \in Task : q # cur => events'[q] = events[q]
  <2>1. new \in Row /\ new.st = "success" /\ new.billed = TRUE /\ new.wtask = None
    BY SettledFields
  <2>2. ApplySuccessCharge(cur, v)
    BY DEF PersistArtifact
  <2>. HIDE DEF new
  <2>. QED BY <2>1, <2>2, SettledRow
<1>2. made \in [Task -> Nat] /\ spawned \in [Task -> Nat] /\ row \in [Task -> Row]
                             /\ view \in [Task -> Row]
  BY DEF SInv, TypeInv, TypeOK
<1>3. made'[cur] = 1 /\ \A q \in Task : q # cur => made'[q] = made[q]
  BY <1>2 DEF PersistArtifact, LoadedOK
<1>. HIDE DEF m
<1>4. CASE HasFollowUp(cur, v)
  <2>1. /\ row' = [[row EXCEPT ![cur] = m] EXCEPT ![FollowUp(cur)] = child]
        /\ view' = [view EXCEPT ![cur] = NoRow, ![FollowUp(cur)] = child]
        /\ spawned' = [spawned EXCEPT ![cur] = @ + 1]
        /\ next' = FollowUp(cur)
    BY <1>4 DEF PersistArtifact, m
  <2>2. cur \in Root /\ FollowUp(cur) \in Task /\ FollowUp(cur) # cur
    BY <1>4, Ids DEF HasFollowUp
  <2>3. /\ child.st = "queued" /\ child.billed = FALSE /\ child.skills = FALSE
        /\ child.wtask = None
    BY DEF NewRow
  <2>. HIDE DEF child
  <2>4. /\ row'[cur] = m
        /\ row'[FollowUp(cur)] = child /\ view'[FollowUp(cur)] = child
        /\ \A q \in Task : q # cur /\ q # FollowUp(cur) =>
              row'[q] = row[q] /\ view'[q] = view[q]
    BY <1>2, <2>1, <2>2
  <2>5. ChildOK(cur) /\ spawned[cur] = 0 /\ row[FollowUp(cur)].st = "absent"
    <3>1. ChildOK(cur)
      BY <2>2 DEF SInv, RowsOK
    <3>. QED BY <1>2, <3>1 DEF ChildOK, LoadedOK
  <2>6. made[FollowUp(cur)] = 0 /\ events[FollowUp(cur)] = 0
    <3>1. RowOK(FollowUp(cur)) /\ events[FollowUp(cur)] \in Nat
      BY <2>2 DEF SInv, RowsOK, TypeInv, TypeOK
    <3>. QED BY <2>5, <3>1 DEF RowOK
  <2>7. FollowUp(cur) \notin todo
    BY <2>5 DEF LoadedOK
  <2>8. RowOK(cur)'
    BY <1>1, <1>3, <2>4 DEF RowOK
  <2>9. RowOK(FollowUp(cur))'
    BY <1>1, <1>3, <2>2, <2>3, <2>4, <2>6 DEF RowOK
  <2>10. ASSUME NEW q \in Task, q # cur, q # FollowUp(cur) PROVE RowOK(q)'
    BY <1>1, <1>3, <2>4, <2>10 DEF SInv, RowsOK, RowOK
  <2>11. ASSUME NEW r \in Root PROVE ChildOK(r)'
    <3>1. CASE r = cur
      <4>1. spawned'[cur] = 1
        BY <1>2, <2>1, <2>5
      <4>. QED BY <1>3, <2>3, <2>4, <3>1, <4>1 DEF ChildOK
    <3>2. CASE r # cur
      <4>1. /\ r \in Task /\ r # FollowUp(cur) /\ FollowUp(r) \in Task
            /\ FollowUp(r) # cur /\ FollowUp(r) # FollowUp(cur) /\ ChildOK(r)
        <5>1. FollowUp(r) # FollowUp(cur)
          BY <3>2 DEF FollowUp
        <5>. QED BY <2>2, <5>1, Ids DEF SInv, RowsOK
      <4>2. spawned'[r] = spawned[r]
        BY <1>2, <2>1, <3>2, <4>1
      <4>. QED BY <1>3, <2>4, <3>2, <4>1, <4>2 DEF ChildOK
    <3>. QED BY <3>1, <3>2
  <2>12. Loaded' = todo \cup {FollowUp(cur)} /\ LocalsOK'
    BY <2>1, <2>2, <2>7, Ids DEF Loaded, LocalsOK
  <2>13. LoadedOK(FollowUp(cur))'
    BY <1>3, <2>2, <2>3, <2>4, <2>6 DEF LoadedOK, Active
  <2>14. ASSUME NEW q \in todo PROVE LoadedOK(q)'
    BY <1>3, <2>4, <2>7, OthersStayLoaded
  <2>. QED BY <2>8, <2>9, <2>10, <2>11, <2>12, <2>13, <2>14 DEF RowsOK, TickOK
<1>5. CASE ~HasFollowUp(cur, v)
  <2>1. /\ row' = [row EXCEPT ![cur] = m]
        /\ view' = [view EXCEPT ![cur] = NoRow]
        /\ next' = None /\ UNCHANGED spawned
    BY <1>5 DEF PersistArtifact, m
  <2>2. row'[cur] = m /\ \A q \in Task : q # cur => row'[q] = row[q] /\ view'[q] = view[q]
    BY <1>2, <2>1
  <2>3. RowOK(cur)'
    BY <1>1, <1>3, <2>2 DEF RowOK
  <2>4. ASSUME NEW q \in Task, q # cur PROVE RowOK(q)'
    BY <1>1, <1>3, <2>2, <2>4 DEF SInv, RowsOK, RowOK
  <2>5. ~row'[cur].skills
    BY <1>1, <1>5, <2>2 DEF HasFollowUp, RowOK, LoadedOK, SameTask
  <2>6. ASSUME NEW r \in Root PROVE ChildOK(r)'
    <3>1. ChildOK(r) /\ r \in Task /\ FollowUp(r) \in Task
      BY Ids DEF SInv, RowsOK
    <3>2. row'[FollowUp(r)].st # "absent" <=> row[FollowUp(r)].st # "absent"
      BY <1>1, <2>2, <3>1 DEF LoadedOK
    <3>3. row'[r].st = "success" /\ row'[r].skills => row[r].st = "success" /\ row[r].skills
      BY <2>2, <2>5, <3>1
    <3>4. made[r] <= made'[r]
      BY <1>2, <1>3, <3>1 DEF LoadedOK
    <3>5. spawned[r] \in Nat /\ made[r] \in Nat /\ made'[r] \in Nat
      BY <1>2, <1>3, <3>1
    <3>. QED BY <2>1, <3>1, <3>2, <3>3, <3>4, <3>5 DEF ChildOK
  <2>7. Loaded' = todo /\ LocalsOK'
    BY <2>1, Ids DEF Loaded, LocalsOK
  <2>8. ASSUME NEW q \in todo PROVE LoadedOK(q)'
    BY <1>3, <2>2, OthersStayLoaded
  <2>. QED BY <2>3, <2>4, <2>6, <2>7, <2>8 DEF RowsOK, TickOK
<1>. QED BY <1>4, <1>5

LEMMA OnWorkerSuccessSettles ==
    ASSUME SInv, Handling, NEW v \in Row, SameTask(view[cur], v),
           OnWorkerSuccess(cur, v), UNCHANGED plan
    PROVE  RowsOK' /\ TickOK'
PROOF
<1>1. CASE Rollback
  BY <1>1, RollbackSettles
<1>2. CASE /\ row[cur].st # "purged"
           /\ IF v.skip THEN SkipArtifact(cur, v) ELSE PersistArtifact(cur, v)
           /\ pc' = "cleanup" /\ UNCHANGED <<todo, cur>>
  BY <1>2, SkipArtifactSettles, PersistArtifactSettles
<1>. QED BY <1>1, <1>2 DEF OnWorkerSuccess

-----------------------------------------------------------------------------
(* Every step of the tick keeps what the rows promise. *)

LEMMA SameRows ==
    ASSUME RowsOK, UNCHANGED <<row, made, events, spawned, plan>>
    PROVE  RowsOK'
  BY DEF RowsOK, RowOK, ChildOK

(* A tick starts from rows that are active, so none stored its artifact. *)
LEMMA LoadSettles ==
    ASSUME SInv, NEW S \in SUBSET Task, \A t \in S : row[t].st \in Active, Load(S)
    PROVE  RowsOK' /\ TickOK'
PROOF
<1>1. /\ UNCHANGED <<row, made, events, spawned, plan>> /\ pc' = "loop" /\ todo' = S
      /\ \A t \in S : view'[t] = row[t]
  BY DEF Load, dbVars, histVars, delVars
<1>2. RowsOK'
  BY <1>1, SameRows DEF SInv
<1>3. Loaded' = S /\ LocalsOK'
  BY <1>1 DEF Loaded, LocalsOK
<1>4. ASSUME NEW t \in S PROVE LoadedOK(t)'
  <2>1. RowOK(t) /\ made[t] \in Nat /\ row[t].st \in Active
    BY DEF SInv, RowsOK, TypeInv, TypeOK
  <2>2. made[t] = 0
    BY <2>1 DEF RowOK, Active
  <2>. QED BY <1>1, <2>1, <2>2 DEF LoadedOK, Active
<1>. QED BY <1>2, <1>3, <1>4 DEF TickOK

(* A tick step that only moves on, without touching rows or copies. *)
LEMMA MoveSettles ==
    ASSUME SInv, UNCHANGED <<row, made, events, spawned, plan, view>>,
           LocalsOK', Loaded' \subseteq Loaded
    PROVE  RowsOK' /\ TickOK'
PROOF
<1>1. RowsOK'
  BY SameRows DEF SInv
<1>2. \A t \in Loaded' : LoadedOK(t)'
  BY DEF SInv, TickOK, LoadedOK
<1>. QED BY <1>1, <1>2 DEF TickOK

LEMMA SelectUnboundSettles ==
    ASSUME SInv, NEW t \in Task, SelectUnbound(t)
    PROVE  RowsOK' /\ TickOK'
PROOF
<1>. DEFINE new == IF mode = "recovery" THEN Requeued(view[t]) ELSE view[t]
<1>1. t \in Loaded /\ LoadedOK(t) /\ view[t] \in Row /\ pc = "loop" /\ t \in todo
                  /\ UNCHANGED plan
  BY DEF SelectUnbound, Loaded, SInv, TickOK, TypeInv, TypeOK, delVars
<1>2. new \in Row /\ Plain(view[t], new)
  BY <1>1, RowTypes, PlainUpdates DEF LoadedOK
<1>3. CASE Flushable(t, new)
  <2>1. /\ Commit(t, new) /\ todo' = todo \ {t} /\ view' = [view EXCEPT ![t] = NoRow]
        /\ UNCHANGED <<made, events, spawned, plan, pc>>
    BY <1>1, <1>3 DEF SelectUnbound, histVars
  <2>. HIDE DEF new
  <2>2. RowsOK' /\ \A q \in Task : q # t => row'[q] = row[q]
    BY <1>1, <1>2, <1>3, <2>1, CommitSettles
  <2>3. Loaded' = todo \ {t} /\ LocalsOK'
    BY <1>1, <2>1 DEF Loaded, LocalsOK
  <2>4. ASSUME NEW q \in todo \ {t} PROVE LoadedOK(q)'
    <3>1. q \in Task /\ q \in Loaded /\ q # t /\ view'[q] = view[q]
      BY <2>1 DEF SInv, TypeInv, TypeOK, Loaded
    <3>. QED BY <2>1, <2>2, <3>1, OthersStayLoaded
  <2>. QED BY <2>2, <2>3, <2>4 DEF TickOK
<1>4. CASE ~Flushable(t, new)
  BY <1>1, <1>4, RollbackSettles DEF SelectUnbound
<1>. QED BY <1>3, <1>4

(* 404 on a task without an artifact: queued again in place, or given up. *)
LEMMA PollNotFoundSettles ==
    ASSUME SInv, PollNotFound
    PROVE  RowsOK' /\ TickOK'
PROOF
<1>. DEFINE v == view[cur]
            new == IF v.prod THEN Detached(v) ELSE Requeued(v)
<1>0. Handling /\ UNCHANGED plan /\ pc = "poll"
  BY DEF PollNotFound, Polling, Handling, delVars
<1>. USE <1>0, HandlingFacts
<1>1. new \in Row /\ Plain(v, new)
  BY RowTypes, PlainUpdates
<1>2. CASE mode = "recovery" \/ v.prod
  <2>1. FinishTask(cur, new)
    BY <1>2 DEF PollNotFound
  <2>. QED BY <1>1, <2>1, FinishTaskSettles
<1>3. CASE ~(mode = "recovery" \/ v.prod) /\ Flushable(cur, new)
  <2>1. /\ Commit(cur, new) /\ view' = [view EXCEPT ![cur] = new]
        /\ pc' = "dispatch" /\ todo' = todo /\ cur' = cur
        /\ UNCHANGED <<made, events, spawned, plan>>
    BY <1>3 DEF PollNotFound, histVars
  <2>2. new.st \in Active
    BY <1>3, PlainUpdates DEF Active
  <2>. HIDE DEF new
  <2>3. /\ RowsOK' /\ \A q \in Task : q # cur => row'[q] = row[q]
        /\ row'[cur].st # "absent"
        /\ row'[cur].st # "purged" =>
             /\ new.billed = row'[cur].billed
             /\ new.skills = row'[cur].skills /\ new.kind = row'[cur].kind
             /\ row'[cur].wtask \in {None, new.wtask}
    BY <1>1, <1>3, <2>1, CommitSettles
  <2>4. Loaded' = todo \cup {cur} /\ LocalsOK'
    BY <2>1 DEF Loaded, LocalsOK
  <2>5. ASSUME NEW q \in todo PROVE LoadedOK(q)'
    <3>1. view'[q] = view[q]
      BY <2>1 DEF SInv, TypeInv, TypeOK
    <3>. QED BY <2>1, <2>3, <3>1, OthersStayLoaded
  <2>6. LoadedOK(cur)'
    <3>1. view'[cur] = new
      BY <2>1 DEF SInv, TypeInv, TypeOK
    <3>. QED BY <2>1, <2>2, <2>3, <3>1 DEF LoadedOK
  <2>. QED BY <2>1, <2>3, <2>4, <2>5, <2>6 DEF TickOK
<1>4. CASE ~(mode = "recovery" \/ v.prod) /\ ~Flushable(cur, new)
  BY <1>4, RollbackSettles DEF PollNotFound
<1>. QED BY <1>2, <1>3, <1>4

LEMMA ProgressSettles ==
    ASSUME SInv, TickAll \/ (\E t \in Task : TickOne(t)) \/ Progress
    PROVE  RowsOK' /\ TickOK'
PROOF
<1>1. CASE TickAll \/ (\E t \in Task : TickOne(t)) \/ RecoverBegin
  BY <1>1, LoadSettles DEF TickAll, TickOne, RecoverBegin, Active
<1>2. CASE TickEnd
  <2>1. /\ UNCHANGED <<row, made, events, spawned, plan, view, todo>>
        /\ pc' = "idle" /\ todo = {}
    BY <1>2 DEF TickEnd, dbVars, histVars, delVars
  <2>2. LocalsOK' /\ Loaded' \subseteq Loaded
    BY <2>1 DEF LocalsOK, Loaded
  <2>. QED BY <2>1, <2>2, MoveSettles
<1>3. ASSUME NEW t \in Task, SelectPoll(t) \/ SelectDispatch(t)
      PROVE  RowsOK' /\ TickOK'
  <2>1. /\ UNCHANGED <<row, made, events, spawned, plan, view>>
        /\ t \in todo /\ todo' = todo \ {t} /\ cur' = t /\ pc' \in {"poll", "dispatch"}
    BY <1>3 DEF SelectPoll, SelectDispatch, Select, dbVars, histVars, delVars
  <2>2. LocalsOK' /\ Loaded' \subseteq Loaded
    BY <2>1 DEF LocalsOK, Loaded
  <2>. QED BY <2>1, <2>2, MoveSettles
<1>4. ASSUME NEW t \in Task, SelectUnbound(t)
      PROVE  RowsOK' /\ TickOK'
  BY <1>4, SelectUnboundSettles
<1>5. CASE Dispatch
  <2>1. CASE DispatchSend
    <3>1. /\ UNCHANGED <<row, made, events, spawned, plan, view, todo, cur>>
          /\ pc = "dispatch" /\ pc' = "post"
      BY <2>1 DEF DispatchSend, Dispatching, dbVars, histVars, delVars
    <3>2. LocalsOK' /\ Loaded' \subseteq Loaded
      BY <3>1 DEF LocalsOK, Loaded, SInv, TickOK
    <3>. QED BY <3>1, <3>2, MoveSettles
  <2>2. CASE DispatchWaiting \/ DispatchEmptyPool \/ DispatchSourceGone \/ DispatchUnfit
    <3>1. Handling /\ UNCHANGED plan
      BY <2>2 DEF DispatchWaiting, DispatchEmptyPool, DispatchSourceGone, DispatchUnfit,
         Dispatching, Handling, delVars
    <3>2. view[cur] \in Row /\ view[cur].st \in Active
      BY <3>1, HandlingFacts
    <3>3. PICK new \in Row : FinishTask(cur, new) /\ Plain(view[cur], new)
      BY <2>2, <3>2, RowTypes, PlainUpdates
      DEF DispatchWaiting, DispatchEmptyPool, DispatchSourceGone, DispatchUnfit, Code
    <3>. QED BY <3>1, <3>3, FinishTaskSettles
  <2>. QED BY <1>5, <2>1, <2>2 DEF Dispatch
<1>6. CASE PollBusy \/ PollSilent \/ PollSuccess \/ PollError
  <2>1. Handling /\ UNCHANGED plan
    BY <1>6 DEF PollBusy, PollSilent, PollSuccess, PollError, Polling, Handling, delVars
  <2>2. view[cur] \in Row /\ view[cur].st \in Active
    BY <2>1, HandlingFacts
  <2>3. CASE PollBusy \/ PollSilent
    <3>1. PICK new \in Row : FinishTask(cur, new) /\ Plain(view[cur], new)
      BY <2>2, <2>3, RowTypes, PlainUpdates DEF PollBusy, PollSilent
    <3>. QED BY <2>1, <3>1, FinishTaskSettles
  <2>4. CASE PollSuccess
    BY <2>1, <2>2, <2>4, OnWorkerSuccessSettles DEF PollSuccess, SameTask
  <2>5. CASE PollError
    <3>1. PICK c \in Code : OnWorkerError(cur, view[cur], c)
      BY <2>5 DEF PollError, Code
    <3>. QED BY <2>1, <2>2, <3>1, PlainUpdates, OnWorkerErrorSettles
  <2>. QED BY <1>6, <2>3, <2>4, <2>5
<1>7. CASE PollNotFound
  BY <1>7, PollNotFoundSettles
<1>8. CASE PostBlobGone
  BY <1>8, RollbackSettles DEF PostBlobGone, delVars
<1>9. ASSUME NEW n \in Node, PostLost(n) \/ PostBusy(n) \/ PostTooLarge(n) \/ PostRejected(n)
      PROVE  RowsOK' /\ TickOK'
  <2>1. Handling /\ UNCHANGED plan /\ pc = "post" /\ large \in BOOLEAN
    BY <1>9 DEF PostLost, PostBusy, PostTooLarge, PostRejected, Posting, Handling, delVars,
       SInv, TypeInv, TypeOK
  <2>2. view[cur] \in Row /\ view[cur].st \in Active
    BY <2>1, HandlingFacts
  <2>3. CASE PostRejected(n)
    <3>1. PICK new \in Row : FinishTask(cur, new) /\ Plain(view[cur], new)
      BY <2>2, <2>3, RowTypes, PlainUpdates DEF PostRejected, Code
    <3>. QED BY <2>1, <3>1, FinishTaskSettles
  <2>4. CASE PostLost(n) \/ PostBusy(n) \/ PostTooLarge(n)
    <3>. DEFINE w == [view[cur] EXCEPT !.rwt = TRUE]
    <3>1. /\ w \in Row /\ Plain(view[cur], w) /\ w.st \in Active
          /\ Plain(view[cur], Failed(view[cur], "unprocessable"))
          /\ Plain(view[cur], view[cur])
      BY <2>2, RowTypes, PlainUpdates DEF Code
    <3>2. Plain(view[cur], Failed(w, "unprocessable"))
      <4>1. Plain(w, Failed(w, "unprocessable"))
        BY <3>1, PlainUpdates DEF Code
      <4>. QED BY <3>1, <4>1 DEF Plain
    <3>. HIDE DEF w
    <3>3. CASE PostLost(n)
      BY <2>1, <2>2, <3>1, <3>3, TryNextSettles DEF PostLost
    <3>4. CASE PostBusy(n)
      BY <2>1, <2>2, <3>1, <3>2, <3>4, TryNextSettles DEF PostBusy, w
    <3>5. CASE PostTooLarge(n)
      BY <2>1, <2>2, <3>1, <3>5, TryNextSettles DEF PostTooLarge
    <3>. QED BY <2>4, <3>3, <3>4, <3>5
  <2>. QED BY <1>9, <2>3, <2>4
<1>10. ASSUME NEW n \in Node, NEW j \in Job, PostAccepted(n, j) \/ PostDone(n, j)
       PROVE  RowsOK' /\ TickOK'
  <2>1. Handling /\ UNCHANGED plan
    BY <1>10 DEF PostAccepted, PostDone, Posting, Handling, delVars
  <2>2. view[cur] \in Row /\ view[cur].st \in Active
    BY <2>1, HandlingFacts
  <2>3. CASE PostAccepted(n, j)
    <3>1. PICK id \in Job \cup {None} : FinishTask(cur, Dispatched(view[cur], n, id))
      BY <2>3 DEF PostAccepted
    <3>2. Dispatched(view[cur], n, id) \in Row /\ Plain(view[cur], Dispatched(view[cur], n, id))
      BY <2>2, RowTypes, PlainUpdates
    <3>. QED BY <2>1, <3>1, <3>2, FinishTaskSettles
  <2>4. CASE PostDone(n, j)
    <3>. DEFINE v == Dispatched(view[cur], n, j)
    <3>1. v \in Row /\ SameTask(view[cur], v)
      <4>1. v \in Row
        BY <2>2, RowTypes
      <4>2. SameTask(view[cur], v)
        BY <2>2 DEF Dispatched, SameTask, Row, Active
      <4>. QED BY <4>1, <4>2
    <3>2. \A c \in Code : Plain(view[cur], Failed(v, c))
      <4>1. \A c \in Code : Plain(v, Failed(v, c))
        BY <3>1, PlainUpdates DEF SameTask
      <4>. QED BY <3>1, <4>1 DEF Plain, SameTask
    <3>3. CASE OnWorkerSuccess(cur, v)
      BY <2>1, <3>1, <3>3, OnWorkerSuccessSettles
    <3>4. CASE \E c \in Code : OnWorkerError(cur, v, c)
      BY <2>1, <3>1, <3>2, <3>4, OnWorkerErrorSettles
    <3>. QED BY <2>4, <3>3, <3>4 DEF PostDone, Code
  <2>. QED BY <1>10, <2>3, <2>4
<1>11. CASE Cleanup
  <2>1. UNCHANGED <<row, made, events, spawned, plan, view>> /\ pc = "cleanup"
    BY <1>11 DEF Cleanup, dbVars, histVars, delVars
  <2>2. LocalsOK' /\ Loaded' \subseteq Loaded
    <3>1. CASE next = None
      BY <1>11, <3>1 DEF Cleanup, BackToLoop, LocalsOK, Loaded
    <3>2. CASE next # None
      <4>1. pc' = "dispatch" /\ cur' = next /\ todo' = todo
        BY <1>11, <3>2 DEF Cleanup
      <4>2. next \in Task /\ next \notin todo
        BY <2>1, <3>2 DEF SInv, TypeInv, TypeOK, TickOK, LocalsOK
      <4>. QED BY <2>1, <3>2, <4>1, <4>2 DEF LocalsOK, Loaded
    <3>. QED BY <3>1, <3>2
  <2>. QED BY <2>1, <2>2, MoveSettles
<1>. QED BY <1>1, <1>2, <1>3, <1>4, <1>5, <1>6, <1>7, <1>8, <1>9, <1>10, <1>11
         DEF Progress, Answer

-----------------------------------------------------------------------------
(* The endpoints, the workers and a crash keep it too. *)

Settled(r) == r.st \in {"success", "purged"} \/ (r.st = "error" /\ r.code = "canceled")

(* What an endpoint may do to an existing row. *)
Edit(old, new) == /\ new.st = "absent" <=> old.st = "absent"
                  /\ new.st = "success" => old.st = "success"
                  /\ new.skills => old.skills /\ new.kind = old.kind
                  /\ Settled(old) => Settled(new)
                  /\ new.st # "purged" =>
                       /\ old.st # "purged" /\ new.billed = old.billed
                       /\ new.skills = old.skills /\ new.kind = old.kind
                       /\ new.wtask \in {None, old.wtask}

LEMMA EditSettles ==
    ASSUME SInv, \A t \in Task : row'[t] = row[t] \/ Edit(row[t], row'[t]),
           UNCHANGED <<made, events, spawned, tickVars>>,
           \A t \in Task : plan'[t] # "none" => row'[t].st # "absent"
    PROVE  RowsOK' /\ TickOK'
PROOF
<1>1. ASSUME NEW t \in Task PROVE RowOK(t)'
  <2>1. RowOK(t) /\ made[t] \in Nat
    BY DEF SInv, RowsOK, TypeInv, TypeOK
  <2>2. CASE row'[t] = row[t]
    BY <2>1, <2>2 DEF RowOK
  <2>3. CASE Edit(row[t], row'[t])
    BY <2>1, <2>3 DEF RowOK, Edit, Settled
  <2>. QED BY <2>2, <2>3
<1>2. ASSUME NEW r \in Root PROVE ChildOK(r)'
  <2>1. ChildOK(r) /\ r \in Task /\ FollowUp(r) \in Task
    BY Ids DEF SInv, RowsOK
  <2>2. row'[FollowUp(r)].st # "absent" <=> row[FollowUp(r)].st # "absent"
    BY <2>1 DEF Edit
  <2>3. row'[r].st = "success" /\ row'[r].skills => row[r].st = "success" /\ row[r].skills
    BY <2>1 DEF Edit
  <2>. QED BY <2>1, <2>2, <2>3 DEF ChildOK
<1>3. Loaded' = Loaded /\ LocalsOK'
  BY DEF SInv, TickOK, Loaded, LocalsOK, tickVars
<1>4. ASSUME NEW t \in Loaded, t \in Task PROVE LoadedOK(t)'
  <2>1. LoadedOK(t) /\ view' = view /\ made' = made
    BY DEF SInv, TickOK, tickVars
  <2>2. CASE row'[t] = row[t]
    BY <2>1, <2>2 DEF LoadedOK
  <2>3. CASE Edit(row[t], row'[t])
    BY <1>4, <2>1, <2>3 DEF LoadedOK, Edit
  <2>. QED BY <1>4, <2>2, <2>3
<1>5. Loaded \subseteq Task
  BY DEF SInv, TypeInv, TypeOK, CurOK, Loaded
<1>. QED BY <1>1, <1>2, <1>3, <1>4, <1>5 DEF RowsOK, TickOK, Loaded, LoadedOK

(* A new task was on nobody's list. *)
LEMMA CreateSettles ==
    ASSUME SInv, NEW t \in Root, row[t].st = "absent", NEW k \in {"transcribe", "summarize"},
           NEW src \in Source, NEW b \in BOOLEAN, b => k = "transcribe",
           row' = [row EXCEPT ![t] = NewRow(k, src, b)],
           UNCHANGED <<made, events, spawned, tickVars, plan>>
    PROVE  RowsOK' /\ TickOK'
PROOF
<1>. DEFINE new == NewRow(k, src, b)
<1>1. new.st = "queued" /\ new.billed = FALSE /\ new.skills = b /\ new.kind = k
  BY DEF NewRow
<1>. HIDE DEF new
<1>2. /\ t \in Task /\ row'[t] = new
      /\ \A q \in Task : q # t => row'[q] = row[q]
  BY Ids DEF SInv, TypeInv, TypeOK, new
<1>3. RowOK(t) /\ made[t] = 0 /\ events[t] = 0
  <2>1. RowOK(t) /\ events[t] \in Nat
    BY <1>2 DEF SInv, RowsOK, TypeInv, TypeOK
  <2>. QED BY <2>1 DEF RowOK
<1>4. RowOK(t)'
  BY <1>1, <1>2, <1>3 DEF RowOK
<1>5. ASSUME NEW q \in Task, q # t PROVE RowOK(q)'
  BY <1>2, <1>5 DEF SInv, RowsOK, RowOK
<1>6. ASSUME NEW r \in Root PROVE ChildOK(r)'
  <2>1. ChildOK(r) /\ r \in Task /\ FollowUp(r) \in Task /\ FollowUp(r) # t
    BY Ids DEF SInv, RowsOK
  <2>. QED BY <1>1, <1>2, <2>1 DEF ChildOK
<1>7. Loaded' = Loaded /\ LocalsOK'
  BY DEF SInv, TickOK, Loaded, LocalsOK, tickVars
<1>8. ASSUME NEW q \in Loaded PROVE LoadedOK(q)'
  <2>1. LoadedOK(q) /\ q \in Task /\ view' = view
    BY DEF SInv, TickOK, TypeInv, TypeOK, CurOK, Loaded, tickVars
  <2>2. q # t
    BY <2>1 DEF LoadedOK
  <2>. QED BY <1>2, <2>1, <2>2 DEF LoadedOK
<1>. QED BY <1>4, <1>5, <1>6, <1>7, <1>8 DEF RowsOK, TickOK, Loaded, LoadedOK

LEMMA ApiSettles ==
    ASSUME SInv, Api
    PROVE  RowsOK' /\ TickOK'
PROOF
<1>1. /\ row \in [Task -> Row] /\ \A t \in Task : row[t] \in Row
      /\ \A t \in Task : plan[t] # "none" => row[t].st # "absent"
  BY DEF SInv, TypeInv, TypeOK, RowsOK, RowOK
<1>2. ASSUME NEW t \in Root, NEW a \in Audio, NEW b \in BOOLEAN, CreateTranscribe(t, a, b)
      PROVE  RowsOK' /\ TickOK'
  BY <1>2, CreateSettles DEF CreateTranscribe, apiUnchanged, delVars, Source
<1>3. ASSUME NEW t \in Root, NEW p \in Task, CreateSummarize(t, p)
      PROVE  RowsOK' /\ TickOK'
  BY <1>3, CreateSettles DEF CreateSummarize, apiUnchanged, delVars, Source
<1>4. ASSUME NEW t \in Task, NEW new \in Row, row' = [row EXCEPT ![t] = new],
             Edit(row[t], new), UNCHANGED <<made, events, spawned, tickVars, plan>>
      PROVE  RowsOK' /\ TickOK'
  <2>1. \A q \in Task : row'[q] = row[q] \/ Edit(row[q], row'[q])
    BY <1>1, <1>4
  <2>2. \A q \in Task : plan'[q] # "none" => row'[q].st # "absent"
    BY <1>1, <1>4, <2>1 DEF Edit
  <2>. QED BY <1>4, <2>1, <2>2, EditSettles
<1>5. ASSUME NEW t \in Task, CancelTask(t)
      PROVE  RowsOK' /\ TickOK'
  <2>1. Canceled(row[t]) \in Row
    BY <1>1, RowTypes
  <2>2. Edit(row[t], Canceled(row[t]))
    BY <1>1, <1>5 DEF CancelTask, Canceled, Edit, Settled, Row
  <2>. QED BY <1>4, <1>5, <2>1, <2>2 DEF CancelTask, apiUnchanged, delVars
<1>6. ASSUME NEW t \in Task, RetryTask(t)
      PROVE  RowsOK' /\ TickOK'
  <2>. DEFINE u == Requeued(row[t])
              new == [u EXCEPT !.code = "none", !.prod = FALSE, !.rwt = FALSE, !.skip = FALSE]
  <2>1. /\ u \in Row /\ u.st = "queued" /\ u.wtask = None /\ u.billed = row[t].billed
        /\ u.skills = row[t].skills /\ u.kind = row[t].kind
    <3>1. u \in Row
      BY <1>1, RowTypes
    <3>. QED BY <1>1, <3>1 DEF Requeued, Row
  <2>2. row' = [row EXCEPT ![t] = new]
    BY <1>6 DEF RetryTask
  <2>. HIDE DEF u
  <2>3. /\ new \in Row /\ new.st = u.st /\ new.wtask = u.wtask /\ new.billed = u.billed
        /\ new.skills = u.skills /\ new.kind = u.kind
    BY <2>1 DEF Row, Code
  <2>. HIDE DEF new
  <2>4. Edit(row[t], new)
    BY <1>6, <2>1, <2>3 DEF RetryTask, NonRetriable, Edit, Settled
  <2>. QED BY <1>4, <1>6, <2>2, <2>3, <2>4 DEF RetryTask, apiUnchanged, delVars
<1>7. ASSUME NEW t \in Task, PurgeTask(t)
      PROVE  RowsOK' /\ TickOK'
  <2>1. PurgedRow.st = "purged" /\ PurgedRow.skills = FALSE /\ PurgedRow \in Row
    BY RowTypes DEF PurgedRow, NoRow, NewRow
  <2>2. Edit(row[t], PurgedRow)
    BY <1>7, <2>1 DEF PurgeTask, Edit, Settled, Terminal
  <2>. QED BY <1>4, <1>7, <2>1, <2>2 DEF PurgeTask, apiUnchanged, delVars
<1>8. ASSUME NEW s \in Source, DeleteRead(s)
      PROVE  RowsOK' /\ TickOK'
  <2>1. \A t \in Task : plan'[t] # "none" => row'[t].st # "absent"
    BY <1>8 DEF DeleteRead, Active
  <2>. QED BY <1>8, <2>1, EditSettles DEF DeleteRead, apiUnchanged
<1>9. CASE DeleteCommit
  <2>1. UNCHANGED <<made, events, spawned, tickVars>> /\ \A t \in Task : plan'[t] = "none"
    BY <1>9 DEF DeleteCommit, apiUnchanged, NoPlan
  <2>2. CASE row' = row
    BY <2>1, <2>2, EditSettles
  <2>3. CASE /\ \A t \in Task : plan[t] # "none" => row[t].st # "purged"
             /\ row' = [t \in Task |-> DeleteApply(row[t], t)]
    <3>1. ASSUME NEW t \in Task PROVE row'[t] = row[t] \/ Edit(row[t], row'[t])
      <4>. DEFINE q == IF plan[t] = "cancel"
                       THEN Canceled(row[t])
                       ELSE IF plan[t] = "skip" THEN [row[t] EXCEPT !.skip = TRUE]
                       ELSE row[t]
      <4>1. q \in Row /\ Edit(row[t], q)
        <5>1. CASE plan[t] = "cancel"
          <6>1. q = Canceled(row[t]) /\ q \in Row
            BY <1>1, <5>1, RowTypes
          <6>2. /\ q.st = "error" /\ q.code = "canceled" /\ q.billed = row[t].billed
                /\ q.skills = row[t].skills /\ q.kind = row[t].kind
                /\ q.wtask = row[t].wtask
            BY <1>1, <6>1 DEF Canceled, Row
          <6>. HIDE DEF q
          <6>. QED BY <1>1, <2>3, <5>1, <6>1, <6>2 DEF Edit, Settled
        <5>2. CASE plan[t] = "skip"
          BY <1>1, <5>2 DEF Edit, Settled, Row
        <5>3. CASE plan[t] \notin {"cancel", "skip"}
          BY <1>1, <5>3 DEF Edit, Settled
        <5>. QED BY <5>1, <5>2, <5>3
      <4>2. row'[t] = [q EXCEPT !.src = IF @ = del THEN None ELSE @,
                                !.prod = IF t = del THEN FALSE ELSE @]
        BY <2>3 DEF DeleteApply
      <4>. HIDE DEF q
      <4>3. /\ row'[t].st = q.st /\ row'[t].code = q.code /\ row'[t].billed = q.billed
            /\ row'[t].skills = q.skills /\ row'[t].kind = q.kind /\ row'[t].wtask = q.wtask
        BY <4>1, <4>2 DEF Row
      <4>. QED BY <4>1, <4>3 DEF Edit, Settled
    <3>. QED BY <2>1, <3>1, EditSettles
  <2>. QED BY <1>9, <2>2, <2>3 DEF DeleteCommit
<1>10. ASSUME NEW n \in Node, RemoveNode(n)
       PROVE  RowsOK' /\ TickOK'
  <2>1. ASSUME NEW t \in Task PROVE row'[t] = row[t] \/ Edit(row[t], row'[t])
    BY <1>1, <1>10 DEF RemoveNode, Edit, Settled, Row
  <2>2. \A t \in Task : plan'[t] # "none" => row'[t].st # "absent"
    BY <1>1, <1>10, <2>1 DEF RemoveNode, Edit, delVars
  <2>. QED BY <1>10, <2>1, <2>2, EditSettles DEF RemoveNode, apiUnchanged
<1>. QED BY <1>2, <1>3, <1>5, <1>6, <1>7, <1>8, <1>9, <1>10 DEF Api

LEMMA OutsideSettles ==
    ASSUME SInv, Crash \/ Restart \/ (\E j \in Job : WorkerFinish(j) \/ WorkerForget(j))
    PROVE  RowsOK' /\ TickOK'
PROOF
<1>1. CASE Crash
  <2>1. TickOK'
    BY <1>1 DEF Crash, TickOK, LocalsOK, Loaded
  <2>2. RowsOK'
    BY <1>1 DEF Crash, SInv, RowsOK, RowOK, ChildOK, NoPlan, dbVars, histVars
  <2>. QED BY <2>1, <2>2
<1>2. CASE Restart
  <2>1. /\ UNCHANGED <<row, made, events, spawned, plan, view, todo>>
        /\ pc = "down" /\ pc' = "boot"
    BY <1>2 DEF Restart, dbVars, histVars, delVars
  <2>2. LocalsOK' /\ Loaded' \subseteq Loaded
    BY <2>1 DEF LocalsOK, Loaded, SInv, TickOK
  <2>. QED BY <2>1, <2>2, MoveSettles
<1>3. CASE \E j \in Job : WorkerFinish(j) \/ WorkerForget(j)
  <2>1. UNCHANGED <<row, made, events, spawned, plan, view, todo, pc, cur, next>>
    BY <1>3 DEF WorkerFinish, WorkerForget, dbVars, histVars, delVars, tickVars
  <2>2. LocalsOK' /\ Loaded' \subseteq Loaded
    BY <2>1 DEF LocalsOK, Loaded, SInv, TickOK
  <2>. QED BY <2>1, <2>2, MoveSettles
<1>. QED BY <1>1, <1>2, <1>3

-----------------------------------------------------------------------------
LEMMA InitSettles == Init => SInv
PROOF
<1>. SUFFICES ASSUME Init PROVE RowsOK /\ TickOK
  BY InitType DEF SInv
<1>1. NoRow.st = "absent" /\ NoRow.billed = FALSE /\ NoRow.skills = FALSE
  BY DEF NoRow, NewRow
<1>2. \A t \in Task : row[t] = NoRow /\ made[t] = 0 /\ events[t] = 0 /\ spawned[t] = 0
                                   /\ plan[t] = "none"
  BY DEF Init, NoPlan
<1>3. \A t \in Task : RowOK(t)
  BY <1>1, <1>2 DEF RowOK
<1>4. \A r \in Root : ChildOK(r)
  BY <1>1, <1>2, Ids DEF ChildOK
<1>5. TickOK
  BY DEF Init, TickOK, LocalsOK, Loaded
<1>. QED BY <1>3, <1>4, <1>5 DEF RowsOK

LEMMA NextSettles == SInv /\ [Next]_vars => SInv'
PROOF
<1>. SUFFICES ASSUME SInv, [Next]_vars PROVE RowsOK' /\ TickOK'
  BY NextType DEF SInv
<1>1. CASE UNCHANGED vars
  <2>1. UNCHANGED <<row, made, events, spawned, plan, view, todo, pc, cur, next>>
    BY <1>1 DEF vars, dbVars, histVars, delVars, tickVars
  <2>2. LocalsOK' /\ Loaded' \subseteq Loaded
    BY <2>1 DEF LocalsOK, Loaded, SInv, TickOK
  <2>. QED BY <2>1, <2>2, MoveSettles
<1>2. CASE Next
  BY <1>2, ProgressSettles, ApiSettles, OutsideSettles DEF Next
<1>. QED BY <1>1, <1>2

(* However stale the copies a tick works on, and whatever the endpoints, the *)
(* workers and crashes do meanwhile, no charge and no artifact is decided on *)
(* a stale fact.                                                             *)
THEOREM SettlementCorrect == Spec => []SettlementInv
PROOF
<1>1. SInv => SettlementInv
  BY DEF SInv, RowsOK, TickOK, SettlementInv
<1>. QED BY <1>1, InitSettles, NextSettles, PTL DEF Spec

(* No task is ever billed twice (apply_success_charge). *)
THEOREM NeverBilledTwice == Spec => []BilledOnce
PROOF
<1>1. SettlementInv => BilledOnce
  BY DEF SettlementInv, RowOK, BilledOnce
<1>. QED BY <1>1, SettlementCorrect, PTL

(* No task ever stores two artifacts, and a success has one and its charge   *)
(* (_persist_transcript, _persist_summary).                                  *)
THEOREM NeverStoredTwice == Spec => []OneArtifact
PROOF
<1>1. SettlementInv => OneArtifact
  BY DEF SettlementInv, RowOK, OneArtifact
<1>. QED BY <1>1, SettlementCorrect, PTL

(* A transcript with skills enqueues exactly one summarize task              *)
(* (_enqueue_summarize_after_transcribe).                                    *)
THEOREM FollowUpExactlyOnce == Spec => []FollowUpOnce
PROOF
<1>1. SettlementInv => FollowUpOnce
  BY DEF SettlementInv, ChildOK, FollowUpOnce
<1>. QED BY <1>1, SettlementCorrect, PTL

-----------------------------------------------------------------------------
(* Deletions are honoured: SkipHonoured.                                     *)

(* An artifact is stored once and deleted for good: a source that is gone    *)
(* never comes back under its id.                                            *)
SourceKnown(s) == s \in Task => made[s] = 1

(* The flag comes with the loss of the source, in one commit.                *)
SkipRowOK(t) ==
    /\ row[t].skip => row[t].src = None
    /\ SourceKnown(row[t].src)
    /\ plan[t] = "skip" => del # None /\ (row[t].src = del \/ row[t].st = "purged")

(* A copy without the flag of its row still names the source that is gone.   *)
SkipViewOK(t) ==
    /\ SourceKnown(view[t].src)
    /\ row[t].src \in {None, view[t].src}
    /\ row[t].skip => view[t].skip \/ view[t].src \in Source \ alive

SkipInv == /\ \A s \in alive : SourceKnown(s)
           /\ \A t \in Task : SkipRowOK(t)
           /\ \A t \in Loaded : SkipViewOK(t)

Honours == \A t \in Task : made'[t] # made[t] => ~row[t].skip

(* What most steps do to sources and flags: nothing. *)
KeepsSources ==
    /\ UNCHANGED <<alive, made, del, plan>>
    /\ \A t \in Task : /\ row'[t].src = row[t].src /\ row'[t].skip = row[t].skip
                       /\ row[t].st = "purged" => row'[t].st = "purged"
    /\ \A t \in Loaded' : /\ t \in Loaded
                          /\ view'[t].src = view[t].src /\ view'[t].skip = view[t].skip

LEMMA LoadedTasks == SInv => Loaded \subseteq Task
  BY DEF SInv, TypeInv, TypeOK, CurOK, Loaded

LEMMA KeepsSkipInv ==
    ASSUME SInv, SkipInv, KeepsSources
    PROVE  SkipInv' /\ Honours
  BY LoadedTasks DEF SkipInv, KeepsSources, SkipRowOK, SkipViewOK, SourceKnown, Honours

(* Updates of an object leave its source and its flag alone. *)
SameSource(old, new) == new.src = old.src /\ new.skip = old.skip

LEMMA SourceUpdates ==
    ASSUME NEW v \in Row
    PROVE  /\ SameSource(v, v) /\ SameSource(v, Requeued(v)) /\ SameSource(v, Detached(v))
           /\ SameSource(v, [v EXCEPT !.rwt = TRUE])
  BY DEF Row, SameSource, Requeued, Detached

LEMMA RollbackKeeps ==
    ASSUME Rollback, UNCHANGED delVars
    PROVE  KeepsSources
  BY DEF Rollback, KeepsSources, Loaded, dbVars, histVars, delVars

LEMMA CommitKeeps ==
    ASSUME SInv, NEW t \in Task, NEW new \in Row,
           row[t].st = "purged" => new = view[t], Commit(t, new)
    PROVE  \A q \in Task : /\ row'[q].src = row[q].src /\ row'[q].skip = row[q].skip
                           /\ row[q].st = "purged" => row'[q].st = "purged"
PROOF
<1>. DEFINE m == Merge(row[t], view[t], new)
<1>1. row \in [Task -> Row] /\ view[t] \in Row /\ row[t] \in Row
  BY DEF SInv, TypeInv, TypeOK
<1>2. m.src = row[t].src /\ m.skip = row[t].skip /\ m.st = Written(view[t].st, new.st, row[t].st)
  BY <1>1, MergeFields
<1>3. row' = [row EXCEPT ![t] = m]
  BY DEF Commit
<1>. HIDE DEF m
<1>4. row[t].st = "purged" => m.st = "purged"
  BY <1>2 DEF Written
<1>. QED BY <1>1, <1>2, <1>3, <1>4

LEMMA FinishTaskKeeps ==
    ASSUME SInv, Handling, NEW new \in Row, FinishTask(cur, new), UNCHANGED delVars
    PROVE  KeepsSources
PROOF
<1>. USE HandlingFacts
<1>1. CASE Flushable(cur, new)
  <2>1. /\ Commit(cur, new) /\ view' = [view EXCEPT ![cur] = NoRow]
        /\ pc' = "loop" /\ next' = None /\ todo' = todo
        /\ UNCHANGED <<alive, made, del, plan>>
    BY <1>1 DEF FinishTask, BackToLoop, histVars, delVars
  <2>2. \A q \in Task : /\ row'[q].src = row[q].src /\ row'[q].skip = row[q].skip
                        /\ row[q].st = "purged" => row'[q].st = "purged"
    BY <1>1, <2>1, CommitKeeps DEF Flushable
  <2>3. Loaded' = todo
    BY <2>1 DEF Loaded
  <2>4. \A q \in todo : view'[q] = view[q]
    BY <2>1 DEF SInv, TypeInv, TypeOK
  <2>. QED BY <2>1, <2>2, <2>3, <2>4 DEF KeepsSources
<1>2. CASE ~Flushable(cur, new)
  BY <1>2, RollbackKeeps DEF FinishTask
<1>. QED BY <1>1, <1>2

LEMMA OnWorkerErrorKeeps ==
    ASSUME SInv, Handling, NEW v \in Row, NEW c \in Code, OnWorkerError(cur, v, c),
           UNCHANGED delVars
    PROVE  KeepsSources
PROOF
<1>. USE HandlingFacts
<1>0. Failed(v, c) \in Row
  BY RowTypes
<1>1. CASE Flushable(cur, Failed(v, c))
  <2>1. /\ Commit(cur, Failed(v, c)) /\ view' = [view EXCEPT ![cur] = NoRow]
        /\ pc' = "cleanup" /\ next' = None /\ todo' = todo
        /\ UNCHANGED <<alive, made, del, plan>>
    BY <1>1 DEF OnWorkerError, histVars, delVars
  <2>2. \A q \in Task : /\ row'[q].src = row[q].src /\ row'[q].skip = row[q].skip
                        /\ row[q].st = "purged" => row'[q].st = "purged"
    BY <1>0, <1>1, <2>1, CommitKeeps DEF Flushable
  <2>3. Loaded' = todo
    BY <2>1 DEF Loaded
  <2>4. \A q \in todo : view'[q] = view[q]
    BY <2>1 DEF SInv, TypeInv, TypeOK
  <2>. QED BY <2>1, <2>2, <2>3, <2>4 DEF KeepsSources
<1>2. CASE ~Flushable(cur, Failed(v, c))
  BY <1>2, RollbackKeeps DEF OnWorkerError
<1>. QED BY <1>1, <1>2

LEMMA TryNextKeeps ==
    ASSUME SInv, pc = "post", NEW n \in Node, NEW v \in Row, NEW b \in BOOLEAN,
           SameSource(view[cur], v), TryNext(n, v, b), UNCHANGED delVars
    PROVE  KeepsSources
PROOF
<1>0. Handling
  BY DEF Handling
<1>. USE <1>0, HandlingFacts
<1>1. CASE left = {n}
  <2>1. Failed(v, "unprocessable") \in Row
    BY RowTypes DEF Code
  <2>. QED BY <1>1, <2>1, FinishTaskKeeps DEF TryNext
<1>2. CASE left # {n} /\ Flushable(cur, v)
  <2>1. /\ Commit(cur, v) /\ view' = [view EXCEPT ![cur] = v]
        /\ pc' = "post" /\ todo' = todo /\ cur' = cur
        /\ UNCHANGED <<alive, made, del, plan>>
    BY <1>2 DEF TryNext, histVars, delVars
  <2>2. \A q \in Task : /\ row'[q].src = row[q].src /\ row'[q].skip = row[q].skip
                        /\ row[q].st = "purged" => row'[q].st = "purged"
    BY <1>2, <2>1, CommitKeeps DEF Flushable
  <2>3. Loaded' = todo \cup {cur}
    BY <2>1 DEF Loaded
  <2>4. view'[cur] = v /\ \A q \in todo : view'[q] = view[q]
    BY <2>1 DEF SInv, TypeInv, TypeOK
  <2>. QED BY <2>1, <2>2, <2>3, <2>4 DEF KeepsSources, SameSource
<1>3. CASE left # {n} /\ ~Flushable(cur, v)
  BY <1>3, RollbackKeeps DEF TryNext
<1>. QED BY <1>1, <1>2, <1>3

LEMMA SkipArtifactKeeps ==
    ASSUME SInv, Handling, NEW v \in Row, row[cur].st # "purged",
           SkipArtifact(cur, v), pc' = "cleanup", UNCHANGED <<delVars, todo>>
    PROVE  KeepsSources
PROOF
<1>. USE HandlingFacts
<1>1. Charged(Failed(v, "source_deleted")) \in Row
  BY RowTypes DEF Code
<1>2. \A q \in Task : /\ row'[q].src = row[q].src /\ row'[q].skip = row[q].skip
                      /\ row[q].st = "purged" => row'[q].st = "purged"
  BY <1>1, CommitKeeps DEF SkipArtifact
<1>3. Loaded' = todo
  BY DEF SkipArtifact, Loaded
<1>4. \A q \in todo : view'[q] = view[q]
  BY DEF SkipArtifact, SInv, TypeInv, TypeOK
<1>. QED BY <1>2, <1>3, <1>4 DEF SkipArtifact, KeepsSources, delVars

(* What storing an artifact does: one row settled, at most one task born. *)
LEMMA PersistArtifactEffect ==
    ASSUME SInv, Handling, NEW v \in Row, PersistArtifact(cur, v), pc' = "cleanup",
           UNCHANGED <<todo, cur>>
    PROVE  /\ row'[cur] = Merge(row[cur], view[cur], Detached(Charged(Stored(v))))
           /\ made'[cur] = 1 /\ \A q \in Task : q # cur => made'[q] = made[q]
           /\ \E born \in SUBSET (Task \ {cur}) :
                 /\ \A q \in born : /\ row[q].st = "absent"
                                    /\ row'[q] = NewRow("summarize", cur, FALSE)
                                    /\ view'[q] = NewRow("summarize", cur, FALSE)
                 /\ \A q \in Task \ born : q # cur => row'[q] = row[q] /\ view'[q] = view[q]
                 /\ Loaded' = todo \cup born /\ (next' # None => next' \in born)
PROOF
<1>. USE HandlingFacts
<1>. DEFINE m == Merge(row[cur], view[cur], Detached(Charged(Stored(v))))
            child == NewRow("summarize", cur, FALSE)
<1>1. /\ row \in [Task -> Row] /\ view \in [Task -> Row] /\ made \in [Task -> Nat]
  BY DEF SInv, TypeInv, TypeOK
<1>2. made'[cur] = 1 /\ \A q \in Task : q # cur => made'[q] = made[q]
  BY <1>1 DEF PersistArtifact, LoadedOK
<1>3. HasFollowUp(cur, v) =>
        /\ FollowUp(cur) \in Task /\ FollowUp(cur) # cur
        /\ row[FollowUp(cur)].st = "absent"
  <2>1. ASSUME HasFollowUp(cur, v) PROVE row[FollowUp(cur)].st = "absent"
    <3>1. ChildOK(cur) /\ spawned \in [Task -> Nat]
      BY <2>1 DEF SInv, RowsOK, HasFollowUp, TypeInv, TypeOK
    <3>. QED BY <1>1, <3>1 DEF ChildOK, LoadedOK
  <2>. QED BY <2>1, Ids DEF HasFollowUp
<1>. HIDE DEF m, child
<1>4. CASE HasFollowUp(cur, v)
  <2>1. /\ row' = [[row EXCEPT ![cur] = m] EXCEPT ![FollowUp(cur)] = child]
        /\ view' = [view EXCEPT ![cur] = NoRow, ![FollowUp(cur)] = child]
        /\ next' = FollowUp(cur)
    BY <1>4 DEF PersistArtifact, m, child
  <2>. DEFINE born == {FollowUp(cur)}
  <2>2. /\ row'[cur] = m
        /\ \A q \in born : row[q].st = "absent" /\ row'[q] = child /\ view'[q] = child
        /\ \A q \in Task \ born : q # cur => row'[q] = row[q] /\ view'[q] = view[q]
    BY <1>1, <1>3, <1>4, <2>1
  <2>3. Loaded' = todo \cup born /\ born \in SUBSET (Task \ {cur}) /\ next' \in born
    BY <1>3, <1>4, <2>1, Ids DEF Loaded
  <2>. HIDE DEF born
  <2>4. \E S \in SUBSET (Task \ {cur}) :
           /\ \A q \in S : row[q].st = "absent" /\ row'[q] = child /\ view'[q] = child
           /\ \A q \in Task \ S : q # cur => row'[q] = row[q] /\ view'[q] = view[q]
           /\ Loaded' = todo \cup S /\ (next' # None => next' \in S)
    BY <2>2, <2>3
  <2>. QED BY <1>2, <2>2, <2>4 DEF m, child
<1>5. CASE ~HasFollowUp(cur, v)
  <2>1. row' = [row EXCEPT ![cur] = m] /\ view' = [view EXCEPT ![cur] = NoRow] /\ next' = None
    BY <1>5 DEF PersistArtifact, m
  <2>2. /\ row'[cur] = m
        /\ \A q \in Task : q # cur => row'[q] = row[q] /\ view'[q] = view[q]
        /\ Loaded' = todo /\ {} \in SUBSET (Task \ {cur})
    BY <1>1, <2>1 DEF Loaded
  <2>3. \E S \in SUBSET (Task \ {cur}) :
           /\ \A q \in S : row[q].st = "absent" /\ row'[q] = child /\ view'[q] = child
           /\ \A q \in Task \ S : q # cur => row'[q] = row[q] /\ view'[q] = view[q]
           /\ Loaded' = todo \cup S /\ (next' # None => next' \in S)
    BY <2>1, <2>2
  <2>. QED BY <1>2, <2>2, <2>3 DEF m, child
<1>. QED BY <1>4, <1>5

(* The heart: an artifact is stored from a source that exists, so the flag   *)
(* cannot be set behind the copy's back; and its id was nobody's source.     *)
LEMMA PersistArtifactHonours ==
    ASSUME SInv, SkipInv, Handling, NEW v \in Row, SameTask(view[cur], v),
           row[cur].st # "purged", ~v.skip, SourceResolves(v),
           PersistArtifact(cur, v), pc' = "cleanup", UNCHANGED <<delVars, todo, cur>>
    PROVE  SkipInv' /\ Honours
PROOF
<1>. USE HandlingFacts
<1>. DEFINE new == Detached(Charged(Stored(v)))
            m == Merge(row[cur], view[cur], new)
            child == NewRow("summarize", cur, FALSE)
<1>1. /\ row \in [Task -> Row] /\ view \in [Task -> Row] /\ row[cur] \in Row
      /\ made \in [Task -> Nat] /\ new \in Row
  BY SettledFields DEF SInv, TypeInv, TypeOK
<1>2. ~row[cur].skip
  <2>1. SkipViewOK(cur)
    BY DEF SkipInv
  <2>2. None \notin Source
    BY Ids, IdAssumption DEF Source
  <2>. QED BY <2>1, <2>2 DEF SkipViewOK, SameTask, SourceResolves
<1>3. m.src = row[cur].src /\ m.skip = row[cur].skip
  BY <1>1, MergeFields
<1>4. /\ row'[cur] = m
      /\ made'[cur] = 1 /\ \A q \in Task : q # cur => made'[q] = made[q]
      /\ \E born \in SUBSET (Task \ {cur}) :
            /\ \A q \in born : row[q].st = "absent" /\ row'[q] = child /\ view'[q] = child
            /\ \A q \in Task \ born : q # cur => row'[q] = row[q] /\ view'[q] = view[q]
            /\ Loaded' = todo \cup born
  BY PersistArtifactEffect, Zenon
<1>5. Honours
  BY <1>2, <1>4 DEF Honours
<1>6. child.src = cur /\ child.skip = FALSE
  BY DEF NewRow
<1>. HIDE DEF m, child
<1>8. PICK born \in SUBSET (Task \ {cur}) :
         /\ \A q \in born : row[q].st = "absent" /\ row'[q] = child /\ view'[q] = child
         /\ \A q \in Task \ born : q # cur => row'[q] = row[q] /\ view'[q] = view[q]
         /\ Loaded' = todo \cup born
  BY <1>4
<1>10. alive \subseteq alive' /\ alive' \subseteq alive \cup {cur} /\ UNCHANGED <<del, plan>>
  BY DEF PersistArtifact, delVars
<1>11. \A s : SourceKnown(s) => SourceKnown(s)'
  BY <1>4 DEF SourceKnown
<1>12. SourceKnown(cur)'
  BY <1>4 DEF SourceKnown
<1>13. \A s \in alive' : SourceKnown(s)'
  BY <1>10, <1>11, <1>12 DEF SkipInv
<1>14. ASSUME NEW t \in Task PROVE SkipRowOK(t)'
  <2>1. SkipRowOK(t) /\ RowOK(t)
    BY DEF SkipInv, SInv, RowsOK
  <2>2. CASE t \in born
    <3>1. row'[t] = child /\ plan[t] = "none"
      <4>1. plan[t] = "none"
        BY <1>8, <2>1, <2>2 DEF RowOK
      <4>. QED BY <1>8, <2>2, <4>1
    <3>. QED BY <1>6, <1>10, <1>12, <3>1 DEF SkipRowOK
  <2>3. CASE t \notin born /\ t = cur
    <3>1. row'[t] = m
      BY <1>4, <2>3
    <3>2. plan[t] = "skip" => del # None /\ row[t].src = del
      BY <2>1, <2>3 DEF SkipRowOK
    <3>. QED BY <1>2, <1>3, <1>10, <1>11, <2>1, <2>3, <3>1, <3>2 DEF SkipRowOK
  <2>4. CASE t \notin born /\ t # cur
    BY <1>8, <1>10, <1>11, <2>1, <2>4 DEF SkipRowOK
  <2>. QED BY <2>2, <2>3, <2>4
<1>15. ASSUME NEW t \in Loaded' PROVE SkipViewOK(t)'
  <2>1. CASE t \in born
    <3>1. row'[t] = child /\ view'[t] = child
      BY <1>8, <2>1
    <3>. QED BY <1>6, <1>12, <3>1 DEF SkipViewOK
  <2>2. CASE t \notin born
    <3>1. t \in todo /\ t \in Task /\ t # cur /\ t \in Loaded
      BY <1>8, <2>2
    <3>2. SkipViewOK(t) /\ row'[t] = row[t] /\ view'[t] = view[t]
      BY <1>8, <2>2, <3>1 DEF SkipInv
    <3>3. view[t].src # cur
      BY <1>1, <3>2 DEF SkipViewOK, SourceKnown, LoadedOK
    <3>. QED BY <1>10, <1>11, <3>2, <3>3 DEF SkipViewOK
  <2>. QED BY <2>1, <2>2
<1>. QED BY <1>5, <1>13, <1>14, <1>15 DEF SkipInv

LEMMA OnWorkerSuccessHonours ==
    ASSUME SInv, SkipInv, Handling, NEW v \in Row, SameTask(view[cur], v),
           OnWorkerSuccess(cur, v), UNCHANGED delVars
    PROVE  SkipInv' /\ Honours
PROOF
<1>1. CASE Rollback
  BY <1>1, RollbackKeeps, KeepsSkipInv
<1>2. CASE /\ row[cur].st # "purged" /\ v.skip /\ SkipArtifact(cur, v)
           /\ pc' = "cleanup" /\ UNCHANGED <<todo, cur>>
  BY <1>2, SkipArtifactKeeps, KeepsSkipInv
<1>3. CASE /\ row[cur].st # "purged" /\ ~v.skip /\ SourceResolves(v) /\ PersistArtifact(cur, v)
           /\ pc' = "cleanup" /\ UNCHANGED <<todo, cur>>
  BY <1>3, PersistArtifactHonours
<1>. QED BY <1>1, <1>2, <1>3 DEF OnWorkerSuccess

(* A tick loads copies that agree with their rows. *)
LEMMA LoadHonours ==
    ASSUME SInv, SkipInv, NEW S \in SUBSET Task, Load(S)
    PROVE  SkipInv' /\ Honours
PROOF
<1>1. /\ UNCHANGED <<row, alive, made, del, plan>> /\ pc' = "loop" /\ todo' = S
      /\ \A t \in S : view'[t] = row[t]
  BY DEF Load, dbVars, histVars, delVars
<1>2. Loaded' = S
  BY <1>1 DEF Loaded
<1>3. \A t \in S : SkipViewOK(t)'
  BY <1>1 DEF SkipInv, SkipRowOK, SkipViewOK, SourceKnown
<1>4. /\ \A s \in alive' : SourceKnown(s)'
      /\ \A t \in Task : SkipRowOK(t)'
  BY <1>1 DEF SkipInv, SkipRowOK, SourceKnown
<1>. QED BY <1>1, <1>2, <1>3, <1>4 DEF SkipInv, Honours

(* Steps that touch neither rows nor copies. *)
LEMMA MoveKeeps ==
    ASSUME UNCHANGED <<row, alive, made, del, plan, view>>, Loaded' \subseteq Loaded
    PROVE  KeepsSources
  BY DEF KeepsSources

LEMMA SelectUnboundKeeps ==
    ASSUME SInv, NEW t \in Task, SelectUnbound(t)
    PROVE  KeepsSources
PROOF
<1>. DEFINE new == IF mode = "recovery" THEN Requeued(view[t]) ELSE view[t]
<1>1. t \in Loaded /\ view[t] \in Row /\ pc = "loop" /\ t \in todo /\ UNCHANGED delVars
  BY DEF SelectUnbound, Loaded, SInv, TypeInv, TypeOK
<1>2. new \in Row
  BY <1>1, RowTypes
<1>3. CASE Flushable(t, new)
  <2>1. /\ Commit(t, new) /\ todo' = todo \ {t} /\ view' = [view EXCEPT ![t] = NoRow]
        /\ UNCHANGED <<alive, made, del, plan, pc>>
    BY <1>1, <1>3 DEF SelectUnbound, histVars, delVars
  <2>. HIDE DEF new
  <2>2. \A q \in Task : /\ row'[q].src = row[q].src /\ row'[q].skip = row[q].skip
                        /\ row[q].st = "purged" => row'[q].st = "purged"
    BY <1>2, <1>3, <2>1, CommitKeeps DEF Flushable
  <2>3. Loaded' = todo \ {t} /\ todo \subseteq Loaded
    BY <1>1, <2>1 DEF Loaded
  <2>4. \A q \in todo \ {t} : view'[q] = view[q]
    BY <2>1 DEF SInv, TypeInv, TypeOK
  <2>. QED BY <2>1, <2>2, <2>3, <2>4 DEF KeepsSources
<1>4. CASE ~Flushable(t, new)
  BY <1>1, <1>4, RollbackKeeps DEF SelectUnbound
<1>. QED BY <1>3, <1>4

LEMMA PollNotFoundKeeps ==
    ASSUME SInv, PollNotFound
    PROVE  KeepsSources
PROOF
<1>. DEFINE v == view[cur]
            new == IF v.prod THEN Detached(v) ELSE Requeued(v)
<1>0. Handling /\ UNCHANGED delVars /\ pc = "poll"
  BY DEF PollNotFound, Polling, Handling
<1>. USE <1>0, HandlingFacts
<1>1. new \in Row /\ SameSource(v, new)
  BY RowTypes, SourceUpdates
<1>2. CASE mode = "recovery" \/ v.prod
  <2>1. FinishTask(cur, new)
    BY <1>2 DEF PollNotFound
  <2>. QED BY <1>1, <2>1, FinishTaskKeeps
<1>3. CASE ~(mode = "recovery" \/ v.prod) /\ Flushable(cur, new)
  <2>1. /\ Commit(cur, new) /\ view' = [view EXCEPT ![cur] = new]
        /\ pc' = "dispatch" /\ todo' = todo /\ cur' = cur
        /\ UNCHANGED <<alive, made, del, plan>>
    BY <1>3 DEF PollNotFound, histVars, delVars
  <2>. HIDE DEF new
  <2>2. \A q \in Task : /\ row'[q].src = row[q].src /\ row'[q].skip = row[q].skip
                        /\ row[q].st = "purged" => row'[q].st = "purged"
    BY <1>1, <1>3, <2>1, CommitKeeps DEF Flushable
  <2>3. Loaded' = todo \cup {cur}
    BY <2>1 DEF Loaded
  <2>4. view'[cur] = new /\ \A q \in todo : view'[q] = view[q]
    BY <2>1 DEF SInv, TypeInv, TypeOK
  <2>. QED BY <1>1, <2>1, <2>2, <2>3, <2>4 DEF KeepsSources, SameSource
<1>4. CASE ~(mode = "recovery" \/ v.prod) /\ ~Flushable(cur, new)
  BY <1>4, RollbackKeeps DEF PollNotFound
<1>. QED BY <1>2, <1>3, <1>4

LEMMA ProgressHonours ==
    ASSUME SInv, SkipInv, TickAll \/ (\E t \in Task : TickOne(t)) \/ Progress
    PROVE  SkipInv' /\ Honours
PROOF
<1>1. CASE TickAll \/ (\E t \in Task : TickOne(t)) \/ RecoverBegin
  BY <1>1, LoadHonours DEF TickAll, TickOne, RecoverBegin
<1>2. CASE TickEnd \/ DispatchSend \/ \E t \in Task : SelectPoll(t) \/ SelectDispatch(t)
  <2>1. UNCHANGED <<row, alive, made, del, plan, view>> /\ Loaded' \subseteq Loaded
    <3>1. CASE TickEnd
      BY <3>1 DEF TickEnd, Loaded, dbVars, histVars, delVars
    <3>2. CASE DispatchSend
      BY <3>2 DEF DispatchSend, Dispatching, Loaded, dbVars, histVars, delVars
    <3>3. ASSUME NEW t \in Task, SelectPoll(t) \/ SelectDispatch(t)
          PROVE  UNCHANGED <<row, alive, made, del, plan, view>> /\ Loaded' \subseteq Loaded
      <4>1. t \in todo /\ todo' = todo \ {t} /\ cur' = t /\ pc' \in {"poll", "dispatch"}
        BY <3>3 DEF SelectPoll, SelectDispatch, Select
      <4>. QED BY <3>3, <4>1 DEF SelectPoll, SelectDispatch, Select, Loaded, dbVars, histVars, delVars
    <3>. QED BY <1>2, <3>1, <3>2, <3>3
  <2>. QED BY <2>1, MoveKeeps, KeepsSkipInv
<1>3. ASSUME NEW t \in Task, SelectUnbound(t)
      PROVE  SkipInv' /\ Honours
  BY <1>3, SelectUnboundKeeps, KeepsSkipInv
<1>4. CASE DispatchWaiting \/ DispatchEmptyPool \/ DispatchSourceGone \/ DispatchUnfit
  <2>1. Handling /\ UNCHANGED delVars
    BY <1>4 DEF DispatchWaiting, DispatchEmptyPool, DispatchSourceGone, DispatchUnfit,
       Dispatching, Handling
  <2>2. view[cur] \in Row
    BY <2>1, HandlingFacts
  <2>3. PICK new \in Row : FinishTask(cur, new)
    BY <1>4, <2>2, RowTypes
    DEF DispatchWaiting, DispatchEmptyPool, DispatchSourceGone, DispatchUnfit, Code
  <2>. QED BY <2>1, <2>3, FinishTaskKeeps, KeepsSkipInv
<1>5. CASE PollBusy \/ PollSilent \/ PollSuccess \/ PollError
  <2>1. Handling /\ UNCHANGED delVars
    BY <1>5 DEF PollBusy, PollSilent, PollSuccess, PollError, Polling, Handling
  <2>2. view[cur] \in Row /\ view[cur].st \in Active
    BY <2>1, HandlingFacts
  <2>3. CASE PollBusy \/ PollSilent
    <3>1. PICK new \in Row : FinishTask(cur, new)
      BY <2>2, <2>3, RowTypes DEF PollBusy, PollSilent
    <3>. QED BY <2>1, <3>1, FinishTaskKeeps, KeepsSkipInv
  <2>4. CASE PollSuccess
    BY <2>1, <2>2, <2>4, OnWorkerSuccessHonours DEF PollSuccess, SameTask
  <2>5. CASE PollError
    <3>1. PICK c \in Code : OnWorkerError(cur, view[cur], c)
      BY <2>5 DEF PollError, Code
    <3>. QED BY <2>1, <2>2, <3>1, OnWorkerErrorKeeps, KeepsSkipInv
  <2>. QED BY <1>5, <2>3, <2>4, <2>5
<1>6. CASE PollNotFound
  BY <1>6, PollNotFoundKeeps, KeepsSkipInv
<1>7. CASE PostBlobGone
  BY <1>7, RollbackKeeps, KeepsSkipInv DEF PostBlobGone
<1>8. ASSUME NEW n \in Node, PostLost(n) \/ PostBusy(n) \/ PostTooLarge(n) \/ PostRejected(n)
      PROVE  SkipInv' /\ Honours
  <2>1. Handling /\ UNCHANGED delVars /\ pc = "post" /\ large \in BOOLEAN
    BY <1>8 DEF PostLost, PostBusy, PostTooLarge, PostRejected, Posting, Handling,
       SInv, TypeInv, TypeOK
  <2>2. view[cur] \in Row
    BY <2>1, HandlingFacts
  <2>3. CASE PostRejected(n)
    <3>1. PICK new \in Row : FinishTask(cur, new)
      BY <2>2, <2>3, RowTypes DEF PostRejected, Code
    <3>. QED BY <2>1, <3>1, FinishTaskKeeps, KeepsSkipInv
  <2>4. CASE PostLost(n) \/ PostBusy(n) \/ PostTooLarge(n)
    <3>1. PICK v \in Row, b \in BOOLEAN : SameSource(view[cur], v) /\ TryNext(n, v, b)
      <4>. DEFINE w == [view[cur] EXCEPT !.rwt = TRUE]
      <4>1. w \in Row /\ SameSource(view[cur], w) /\ SameSource(view[cur], view[cur])
        BY <2>2, RowTypes, SourceUpdates
      <4>2. TryNext(n, view[cur], FALSE) \/ TryNext(n, w, FALSE) \/ TryNext(n, view[cur], large)
        BY <2>4 DEF PostLost, PostBusy, PostTooLarge
      <4>. HIDE DEF w
      <4>. QED BY <2>1, <2>2, <4>1, <4>2
    <3>. QED BY <2>1, <3>1, TryNextKeeps, KeepsSkipInv
  <2>. QED BY <1>8, <2>3, <2>4
<1>9. ASSUME NEW n \in Node, NEW j \in Job, PostAccepted(n, j) \/ PostDone(n, j)
      PROVE  SkipInv' /\ Honours
  <2>1. Handling /\ UNCHANGED delVars
    BY <1>9 DEF PostAccepted, PostDone, Posting, Handling
  <2>2. view[cur] \in Row /\ view[cur].st \in Active
    BY <2>1, HandlingFacts
  <2>3. CASE PostAccepted(n, j)
    <3>1. PICK new \in Row : FinishTask(cur, new)
      BY <2>2, <2>3, RowTypes DEF PostAccepted
    <3>. QED BY <2>1, <3>1, FinishTaskKeeps, KeepsSkipInv
  <2>4. CASE PostDone(n, j)
    <3>. DEFINE v == Dispatched(view[cur], n, j)
    <3>1. v \in Row
      BY <2>2, RowTypes
    <3>2. SameTask(view[cur], v)
      BY <2>2 DEF Dispatched, SameTask, Row, Active
    <3>3. OnWorkerSuccess(cur, v) \/ \E c \in Code : OnWorkerError(cur, v, c)
      BY <2>4 DEF PostDone, Code
    <3>. HIDE DEF v
    <3>4. CASE OnWorkerSuccess(cur, v)
      BY <2>1, <3>1, <3>2, <3>4, OnWorkerSuccessHonours
    <3>5. CASE \E c \in Code : OnWorkerError(cur, v, c)
      BY <2>1, <3>1, <3>5, OnWorkerErrorKeeps, KeepsSkipInv
    <3>. QED BY <3>3, <3>4, <3>5
  <2>. QED BY <1>9, <2>3, <2>4
<1>10. CASE Cleanup
  <2>1. UNCHANGED <<row, alive, made, del, plan, view>> /\ pc = "cleanup"
    BY <1>10 DEF Cleanup, dbVars, histVars, delVars
  <2>2. Loaded' \subseteq Loaded
    BY <1>10, <2>1 DEF Cleanup, BackToLoop, Loaded
  <2>. QED BY <2>1, <2>2, MoveKeeps, KeepsSkipInv
<1>. QED BY <1>1, <1>2, <1>3, <1>4, <1>5, <1>6, <1>7, <1>8, <1>9, <1>10
         DEF Progress, Answer, Dispatch

(* An endpoint that changes one row: the source stays or the row is new. *)
LEMMA OneRowHonours ==
    ASSUME SInv, SkipInv, NEW t \in Task, NEW new \in Row, row' = [row EXCEPT ![t] = new],
           UNCHANGED <<alive, delVars, apiUnchanged>>,
           new.skip => row[t].skip /\ new.src = None,
           SourceKnown(new.src),
           \/ new.st = "purged" /\ new.src = None
           \/ row[t].st = "absent"
           \/ new.src = row[t].src /\ row[t].st # "purged"
    PROVE  SkipInv' /\ Honours
PROOF
<1>1. row'[t] = new /\ \A q \in Task : q # t => row'[q] = row[q]
  BY DEF SInv, TypeInv, TypeOK
<1>2. UNCHANGED <<alive, made, view, del, plan>> /\ Loaded' = Loaded
  BY DEF delVars, apiUnchanged, tickVars, Loaded
<1>3. \A s : SourceKnown(s)' <=> SourceKnown(s')
  BY <1>2 DEF SourceKnown
<1>4. SkipRowOK(t)'
  <2>1. SkipRowOK(t) /\ RowOK(t)
    BY DEF SkipInv, SInv, RowsOK
  <2>. QED BY <1>1, <1>2, <2>1 DEF SkipRowOK, SourceKnown, RowOK
<1>5. ASSUME NEW q \in Task, q # t PROVE SkipRowOK(q)'
  BY <1>1, <1>2, <1>5 DEF SkipInv, SkipRowOK, SourceKnown
<1>6. ASSUME NEW q \in Loaded PROVE SkipViewOK(q)'
  <2>1. q \in Task /\ SkipViewOK(q) /\ LoadedOK(q)
    BY LoadedTasks DEF SkipInv, SInv, TickOK
  <2>2. CASE q = t
    BY <1>1, <1>2, <2>1, <2>2 DEF SkipViewOK, SourceKnown, LoadedOK
  <2>3. CASE q # t
    BY <1>1, <1>2, <2>1, <2>3 DEF SkipViewOK, SourceKnown
  <2>. QED BY <2>2, <2>3
<1>. QED BY <1>2, <1>4, <1>5, <1>6 DEF SkipInv, SourceKnown, Honours

LEMMA DeleteCommitHonours ==
    ASSUME SInv, SkipInv, DeleteCommit
    PROVE  SkipInv' /\ Honours
PROOF
<1>1. /\ UNCHANGED <<made, view>> /\ Loaded' = Loaded /\ del # None
      /\ del' = None /\ \A t \in Task : plan'[t] = "none"
  BY DEF DeleteCommit, apiUnchanged, tickVars, Loaded, NoPlan
<1>2. CASE UNCHANGED <<row, alive>>
  BY <1>1, <1>2 DEF SkipInv, SkipRowOK, SkipViewOK, SourceKnown, Honours
<1>3. CASE /\ \A t \in Task : plan[t] # "none" => row[t].st # "purged"
           /\ row' = [t \in Task |-> DeleteApply(row[t], t)] /\ alive' = alive \ {del}
  <2>1. ASSUME NEW t \in Task
        PROVE  /\ row'[t].src = IF row[t].src = del THEN None ELSE row[t].src
               /\ row'[t].skip = (row[t].skip \/ plan[t] = "skip")
    <3>. DEFINE q == IF plan[t] = "cancel" THEN Canceled(row[t])
                     ELSE IF plan[t] = "skip" THEN [row[t] EXCEPT !.skip = TRUE] ELSE row[t]
    <3>1. row[t] \in Row /\ Canceled(row[t]) \in Row
      BY RowTypes DEF SInv, TypeInv, TypeOK
    <3>2. q \in Row /\ q.src = row[t].src
      <4>1. Canceled(row[t]).src = row[t].src
        BY <3>1 DEF Canceled, Row
      <4>2. /\ [row[t] EXCEPT !.skip = TRUE] \in Row
            /\ [row[t] EXCEPT !.skip = TRUE].src = row[t].src
        BY <3>1 DEF Row
      <4>. QED BY <3>1, <4>1, <4>2
    <3>3. q.skip = (row[t].skip \/ plan[t] = "skip")
      <4>1. CASE plan[t] = "skip"
        BY <3>1, <4>1 DEF Row
      <4>2. CASE plan[t] = "cancel"
        BY <3>1, <4>2 DEF Canceled, Row
      <4>3. CASE plan[t] \notin {"skip", "cancel"}
        BY <3>1, <4>3 DEF Row
      <4>. QED BY <4>1, <4>2, <4>3
    <3>4. row'[t] = [q EXCEPT !.src = IF @ = del THEN None ELSE @,
                              !.prod = IF t = del THEN FALSE ELSE @]
      BY <1>3 DEF DeleteApply
    <3>. HIDE DEF q
    <3>5. row'[t].src = (IF q.src = del THEN None ELSE q.src) /\ row'[t].skip = q.skip
      BY <3>2, <3>4 DEF Row
    <3>. QED BY <3>2, <3>3, <3>5
  <2>2. None \notin Task
    BY Ids
  <2>3. ASSUME NEW t \in Task PROVE SkipRowOK(t)'
    BY <1>1, <1>3, <2>1, <2>2 DEF SkipInv, SkipRowOK, SourceKnown
  <2>4. ASSUME NEW t \in Loaded PROVE SkipViewOK(t)'
    <3>1. t \in Task /\ SkipRowOK(t) /\ SkipViewOK(t) /\ del \in Source
      BY <1>1, LoadedTasks DEF SkipInv, SInv, TypeInv, TypeOK
    <3>2. CASE plan[t] = "skip"
      <4>1. row[t].src = del /\ view[t].src = del
        BY <1>1, <1>3, <3>1, <3>2 DEF SkipRowOK, SkipViewOK
      <4>. QED BY <1>1, <1>3, <2>1, <3>1, <4>1 DEF SkipViewOK, SourceKnown
    <3>3. CASE plan[t] # "skip"
      BY <1>1, <1>3, <2>1, <3>1, <3>3 DEF SkipViewOK, SourceKnown
    <3>. QED BY <3>2, <3>3
  <2>5. \A s \in alive' : SourceKnown(s)'
    BY <1>1, <1>3 DEF SkipInv, SourceKnown
  <2>. QED BY <1>1, <2>3, <2>4, <2>5 DEF SkipInv, Honours
<1>. QED BY <1>2, <1>3 DEF DeleteCommit

LEMMA ApiHonours ==
    ASSUME SInv, SkipInv, Api
    PROVE  SkipInv' /\ Honours
PROOF
<1>1. /\ \A t \in Task : row[t] \in Row /\ SkipRowOK(t)
      /\ None \notin Source /\ Root \subseteq Task /\ Audio \cap Task = {}
  BY Ids, IdAssumption DEF SInv, TypeInv, TypeOK, SkipInv, Source, Task, FollowUp
<1>2. ASSUME NEW t \in Root, NEW k \in {"transcribe", "summarize"}, NEW s \in alive, NEW b \in BOOLEAN,
             row[t].st = "absent", row' = [row EXCEPT ![t] = NewRow(k, s, b)],
             UNCHANGED <<alive, delVars, apiUnchanged>>
      PROVE  SkipInv' /\ Honours
  <2>1. NewRow(k, s, b) \in Row /\ s \in Source
    BY RowTypes DEF SInv, TypeInv, TypeOK
  <2>2. NewRow(k, s, b).skip = FALSE /\ NewRow(k, s, b).src = s /\ SourceKnown(s)
    BY DEF NewRow, SkipInv
  <2>. QED BY <1>1, <1>2, <2>1, <2>2, OneRowHonours
<1>3. ASSUME NEW t \in Task, CancelTask(t) \/ PurgeTask(t)
      PROVE  SkipInv' /\ Honours
  <2>1. CASE CancelTask(t)
    <3>1. /\ Canceled(row[t]) \in Row /\ Canceled(row[t]).src = row[t].src
          /\ Canceled(row[t]).skip = row[t].skip
      BY <1>1, RowTypes DEF Canceled, Row
    <3>. QED BY <1>1, <2>1, <3>1, OneRowHonours DEF CancelTask, SkipRowOK
  <2>2. CASE PurgeTask(t)
    <3>1. /\ PurgedRow \in Row /\ PurgedRow.src = None /\ PurgedRow.skip = FALSE
          /\ PurgedRow.st = "purged" /\ SourceKnown(None)
      BY <1>1, RowTypes DEF PurgedRow, NoRow, NewRow, SourceKnown, Source
    <3>. QED BY <2>2, <3>1, OneRowHonours DEF PurgeTask
  <2>. QED BY <1>3, <2>1, <2>2
<1>4. ASSUME NEW t \in Task, RetryTask(t)
      PROVE  SkipInv' /\ Honours
  <2>. DEFINE u == Requeued(row[t])
              new == [u EXCEPT !.code = "none", !.prod = FALSE, !.rwt = FALSE, !.skip = FALSE]
  <2>1. u \in Row /\ u.src = row[t].src
    BY <1>1, RowTypes, SourceUpdates DEF SameSource
  <2>2. row' = [row EXCEPT ![t] = new]
    BY <1>4 DEF RetryTask
  <2>. HIDE DEF u
  <2>3. new \in Row /\ new.src = u.src /\ new.skip = FALSE
    BY <2>1 DEF Row, Code
  <2>. HIDE DEF new
  <2>4. /\ SourceKnown(new.src) /\ new.src = row[t].src /\ row[t].st # "purged"
        /\ UNCHANGED <<alive, delVars, apiUnchanged>>
    BY <1>1, <1>4, <2>1, <2>3 DEF RetryTask, SkipRowOK
  <2>. QED BY <2>2, <2>3, <2>4, OneRowHonours
<1>5. ASSUME NEW s \in Source, DeleteRead(s)
      PROVE  SkipInv' /\ Honours
  <2>1. /\ UNCHANGED <<row, alive, made, view>> /\ Loaded' = Loaded /\ del' = s
        /\ \A t \in Task : plan'[t] = "skip" => row[t].src = s
    BY <1>5 DEF DeleteRead, apiUnchanged, tickVars, Loaded
  <2>. QED BY <1>1, <2>1 DEF SkipInv, SkipRowOK, SkipViewOK, SourceKnown, Honours
<1>6. CASE DeleteCommit
  BY <1>6, DeleteCommitHonours
<1>7. ASSUME NEW n \in Node, RemoveNode(n)
      PROVE  SkipInv' /\ Honours
  <2>1. \A t \in Task : /\ row'[t].src = row[t].src /\ row'[t].skip = row[t].skip
                        /\ row'[t].st = row[t].st
    BY <1>1, <1>7 DEF RemoveNode, Row
  <2>2. UNCHANGED <<alive, made, view, del, plan>> /\ Loaded' = Loaded
    BY <1>7 DEF RemoveNode, apiUnchanged, delVars, tickVars, Loaded
  <2>. QED BY <2>1, <2>2, KeepsSkipInv DEF KeepsSources
<1>8. ASSUME NEW t \in Root, NEW a \in Audio, NEW b \in BOOLEAN, CreateTranscribe(t, a, b)
      PROVE  SkipInv' /\ Honours
  BY <1>2, <1>8 DEF CreateTranscribe
<1>9. ASSUME NEW t \in Root, NEW p \in Task, CreateSummarize(t, p)
      PROVE  SkipInv' /\ Honours
  BY <1>2, <1>9 DEF CreateSummarize
<1>. QED BY <1>3, <1>4, <1>5, <1>6, <1>7, <1>8, <1>9 DEF Api

LEMMA OutsideHonours ==
    ASSUME SInv, SkipInv, Crash \/ Restart \/ (\E j \in Job : WorkerFinish(j) \/ WorkerForget(j))
    PROVE  SkipInv' /\ Honours
PROOF
<1>1. CASE Crash
  <2>1. UNCHANGED <<row, alive, made>> /\ Loaded' = {} /\ \A t \in Task : plan'[t] = "none"
    BY <1>1 DEF Crash, Loaded, NoPlan, dbVars, histVars
  <2>. QED BY <2>1 DEF SkipInv, SkipRowOK, SourceKnown, Honours
<1>2. CASE Restart
  <2>1. UNCHANGED <<row, alive, made, del, plan, view>> /\ Loaded' \subseteq Loaded
    BY <1>2 DEF Restart, Loaded, dbVars, histVars, delVars
  <2>. QED BY <2>1, MoveKeeps, KeepsSkipInv
<1>3. CASE \E j \in Job : WorkerFinish(j) \/ WorkerForget(j)
  <2>1. UNCHANGED <<row, alive, made, del, plan, view>> /\ Loaded' \subseteq Loaded
    BY <1>3 DEF WorkerFinish, WorkerForget, Loaded, dbVars, histVars, delVars, tickVars
  <2>. QED BY <2>1, MoveKeeps, KeepsSkipInv
<1>. QED BY <1>1, <1>2, <1>3

LEMMA InitHonours == Init => SkipInv
PROOF
<1>. SUFFICES ASSUME Init PROVE SkipInv
  OBVIOUS
<1>1. Audio \cap Task = {} /\ None \notin Task
  BY Ids, IdAssumption DEF Task, FollowUp
<1>2. NoRow.skip = FALSE /\ NoRow.src = None
  BY DEF NoRow, NewRow
<1>3. \A t \in Task : row[t] = NoRow /\ plan[t] = "none"
  BY DEF Init, NoPlan
<1>4. Loaded = {} /\ alive = Audio
  BY DEF Init, Loaded
<1>. QED BY <1>1, <1>2, <1>3, <1>4 DEF SkipInv, SkipRowOK, SourceKnown

LEMMA NextHonours == SInv /\ SkipInv /\ [Next]_vars => SkipInv' /\ Honours
PROOF
<1>. SUFFICES ASSUME SInv, SkipInv, [Next]_vars PROVE SkipInv' /\ Honours
  OBVIOUS
<1>1. CASE UNCHANGED vars
  <2>1. UNCHANGED <<row, alive, made, del, plan, view>> /\ Loaded' \subseteq Loaded
    BY <1>1 DEF vars, Loaded, dbVars, histVars, delVars, tickVars
  <2>. QED BY <2>1, MoveKeeps, KeepsSkipInv
<1>2. CASE Next
  BY <1>2, ProgressHonours, ApiHonours, OutsideHonours DEF Next
<1>. QED BY <1>1, <1>2

(* No task whose deletion the database has recorded stores an artifact, on   *)
(* whatever stale copy the tick decides (_on_transcribe_success,             *)
(* cancel_queued_for_source).                                                *)
THEOREM DeletionHonoured == Spec => SkipHonoured
PROOF
<1>1. SInv /\ SkipInv /\ [Next]_vars => [\A t \in Task : made'[t] # made[t] => ~row[t].skip]_vars
  BY NextHonours DEF Honours
<1>. QED BY <1>1, InitSettles, InitHonours, NextSettles, NextHonours, PTL DEF Spec, SkipHonoured

-----------------------------------------------------------------------------
(* A running task is bound to its job: RunningIsBound.                       *)

(* The two columns agree: a job's id comes and goes with the status.         *)
Bound(r) == /\ r.st = "running" => r.wtask # None
            /\ r.st = "queued" => r.wtask = None

(* What is dispatched is queued in the session's copy.                       *)
QueuedOK == /\ pc \in {"dispatch", "post"} => view[cur].st = "queued"
            /\ pc = "cleanup" /\ next # None => view[next].st = "queued"

(* A stored artifact is never that of an active task, so no 404 detaches a   *)
(* task that still runs.                                                     *)
BoundInv == /\ \A t \in Task : Bound(row[t]) /\ (row[t].prod => made[t] = 1)
            /\ \A t \in Loaded : Bound(view[t]) /\ ~view[t].prod
            /\ QueuedOK

(* An update of a copy writes both columns or neither.                       *)
Binds(old, new) == /\ Bound(new) /\ (new.prod => old.prod)
                   /\ new.st = old.st => new.wtask = old.wtask

(* The columns of a failed task and of a dispatched one. *)
LEMMA FailedFields ==
    ASSUME NEW v \in Row, NEW c \in Code
    PROVE  /\ Failed(v, c) \in Row
           /\ Failed(v, c).st = "error" /\ Failed(v, c).wtask = None /\ Failed(v, c).prod = v.prod
PROOF
<1>. DEFINE a == [v EXCEPT !.st = "error"]
            b == [a EXCEPT !.code = c]
            d == [b EXCEPT !.worker = None]
            e == [d EXCEPT !.wtask = None]
<1>1. a \in Row /\ a.st = "error" /\ a.prod = v.prod
  BY DEF Row, Status
<1>2. e = Failed(v, c)
  BY Zenon DEF Failed
<1>. HIDE DEF a
<1>3. b \in Row /\ b.st = "error" /\ b.prod = v.prod
  BY <1>1 DEF Row
<1>. HIDE DEF b
<1>4. d \in Row /\ d.st = "error" /\ d.prod = v.prod
  BY <1>3 DEF Row
<1>. HIDE DEF d
<1>5. e \in Row /\ e.st = "error" /\ e.prod = v.prod /\ e.wtask = None
  BY <1>4 DEF Row
<1>. HIDE DEF e
<1>. QED BY <1>2, <1>5

LEMMA DispatchedFields ==
    ASSUME NEW v \in Row, NEW n \in Node, NEW j \in Job
    PROVE  /\ Dispatched(v, n, j) \in Row /\ Dispatched(v, n, j).st = "running"
           /\ Dispatched(v, n, j).wtask = j /\ Dispatched(v, n, j).prod = v.prod
           /\ j # None
PROOF
<1>1. j # None
  BY IdAssumption
<1>2. /\ Dispatched(v, n, j) \in Row /\ Dispatched(v, n, j).st = "running"
      /\ Dispatched(v, n, j).wtask = j /\ Dispatched(v, n, j).prod = v.prod
  BY DEF Dispatched, Row, Status
<1>. QED BY <1>1, <1>2

LEMMA BindingUpdates ==
    ASSUME NEW v \in Row, v.st \in Active, Bound(v), ~v.prod
    PROVE  /\ Binds(v, v) /\ Binds(v, Requeued(v)) /\ Binds(v, [v EXCEPT !.rwt = TRUE])
           /\ Requeued(v).st = "queued" /\ ~Requeued(v).prod /\ Bound(Requeued(v))
PROOF
<1>1. /\ Requeued(v).st = "queued" /\ Requeued(v).wtask = None /\ Requeued(v).prod = v.prod
  BY DEF Requeued, Row
<1>2. /\ [v EXCEPT !.rwt = TRUE].st = v.st /\ [v EXCEPT !.rwt = TRUE].wtask = v.wtask
      /\ [v EXCEPT !.rwt = TRUE].prod = v.prod
  BY DEF Row
<1>. DEFINE q == Requeued(v)
            w == [v EXCEPT !.rwt = TRUE]
<1>. HIDE DEF q, w
<1>3. q.st = "queued" /\ q.wtask = None /\ q.prod = v.prod
  BY <1>1 DEF q
<1>4. w.st = v.st /\ w.wtask = v.wtask /\ w.prod = v.prod
  BY <1>2 DEF w
<1>5. Binds(v, v) /\ Binds(v, q) /\ Binds(v, w) /\ Bound(q) /\ ~q.prod
  BY <1>3, <1>4 DEF Binds, Bound, Active
<1>. QED BY <1>3, <1>5 DEF q, w

(* A failure, of the copy or of what a dispatch made of it. *)
LEMMA FailureBinds ==
    ASSUME NEW old \in Row, old.st \in Active, NEW v \in Row, v.prod = old.prod, NEW c \in Code
    PROVE  Binds(old, Failed(v, c))
PROOF
<1>. DEFINE f == Failed(v, c)
<1>1. f.st = "error" /\ f.prod = v.prod
  BY FailedFields
<1>. HIDE DEF f
<1>2. Binds(old, f)
  BY <1>1 DEF Binds, Bound, Active
<1>. QED BY <1>2 DEF f

(* A commit of such an update binds the row too, whatever the row has become. *)
LEMMA CommitBinds ==
    ASSUME SInv, BoundInv, NEW t \in Loaded, t \in Task, NEW new \in Row, Binds(view[t], new),
           Commit(t, new)
    PROVE  \A q \in Task : Bound(row'[q]) /\ (row'[q].prod => made[q] = 1)
PROOF
<1>. DEFINE m == Merge(row[t], view[t], new)
<1>1. row \in [Task -> Row] /\ view[t] \in Row /\ row[t] \in Row
  BY DEF SInv, TypeInv, TypeOK
<1>2. /\ m.st = Written(view[t].st, new.st, row[t].st)
      /\ m.wtask = Written(view[t].wtask, new.wtask, row[t].wtask)
      /\ m.prod = Written(view[t].prod, new.prod, row[t].prod)
  BY <1>1 DEF Merge, Row
<1>3. row' = [row EXCEPT ![t] = m]
  BY DEF Commit
<1>. HIDE DEF m
<1>4. /\ Bound(row[t]) /\ (row[t].prod => made[t] = 1)
      /\ Bound(view[t]) /\ ~view[t].prod /\ view[t].st \in Active
  BY DEF BoundInv, SInv, TickOK, LoadedOK
<1>5. Bound(m)
  <2>1. CASE new.st = view[t].st
    <3>1. m.st = row[t].st /\ m.wtask = row[t].wtask
      BY <1>2, <2>1 DEF Binds, Written
    <3>. QED BY <1>4, <3>1 DEF Bound
  <2>2. CASE new.st # view[t].st
    <3>1. m.st = new.st
      BY <1>2, <2>2 DEF Written
    <3>. QED BY <1>2, <1>4, <2>2, <3>1 DEF Binds, Bound, Written, Active
  <2>. QED BY <2>1, <2>2
<1>6. m.prod => row[t].prod
  BY <1>1, <1>2, <1>4 DEF Binds, Written, Row
<1>. QED BY <1>1, <1>3, <1>4, <1>5, <1>6 DEF BoundInv

LEMMA RollbackBinds ==
    ASSUME SInv, BoundInv, Rollback
    PROVE  BoundInv'
PROOF
<1>1. UNCHANGED <<row, made>> /\ pc' = "idle" /\ Loaded' = {}
  BY DEF Rollback, Loaded, dbVars, histVars
<1>. QED BY <1>1 DEF BoundInv, QueuedOK

LEMMA FinishTaskBinds ==
    ASSUME SInv, BoundInv, Handling, NEW new \in Row, Binds(view[cur], new), FinishTask(cur, new)
    PROVE  BoundInv'
PROOF
<1>. USE HandlingFacts
<1>1. CASE Flushable(cur, new)
  <2>1. /\ Commit(cur, new) /\ view' = [view EXCEPT ![cur] = NoRow]
        /\ pc' = "loop" /\ todo' = todo /\ made' = made
    BY <1>1 DEF FinishTask, BackToLoop, histVars
  <2>2. \A q \in Task : Bound(row'[q]) /\ (row'[q].prod => made[q] = 1)
    BY <2>1, CommitBinds
  <2>3. Loaded' = todo
    BY <2>1 DEF Loaded
  <2>4. \A q \in todo : view'[q] = view[q]
    BY <2>1 DEF SInv, TypeInv, TypeOK
  <2>. QED BY <2>1, <2>2, <2>3, <2>4 DEF BoundInv, QueuedOK
<1>2. CASE ~Flushable(cur, new)
  BY <1>2, RollbackBinds DEF FinishTask
<1>. QED BY <1>1, <1>2

LEMMA OnWorkerErrorBinds ==
    ASSUME SInv, BoundInv, Handling, NEW v \in Row, NEW c \in Code,
           Binds(view[cur], Failed(v, c)), OnWorkerError(cur, v, c)
    PROVE  BoundInv'
PROOF
<1>. USE HandlingFacts
<1>0. Failed(v, c) \in Row
  BY RowTypes
<1>1. CASE Flushable(cur, Failed(v, c))
  <2>1. /\ Commit(cur, Failed(v, c)) /\ view' = [view EXCEPT ![cur] = NoRow]
        /\ pc' = "cleanup" /\ next' = None /\ todo' = todo /\ made' = made
    BY <1>1 DEF OnWorkerError, histVars
  <2>2. \A q \in Task : Bound(row'[q]) /\ (row'[q].prod => made[q] = 1)
    BY <1>0, <2>1, CommitBinds
  <2>3. Loaded' = todo
    BY <2>1 DEF Loaded
  <2>4. \A q \in todo : view'[q] = view[q]
    BY <2>1 DEF SInv, TypeInv, TypeOK
  <2>. QED BY <2>1, <2>2, <2>3, <2>4 DEF BoundInv, QueuedOK
<1>2. CASE ~Flushable(cur, Failed(v, c))
  BY <1>2, RollbackBinds DEF OnWorkerError
<1>. QED BY <1>1, <1>2

LEMMA TryNextBinds ==
    ASSUME SInv, BoundInv, pc = "post", NEW n \in Node, NEW b \in BOOLEAN,
           NEW v \in {view[cur], [view[cur] EXCEPT !.rwt = TRUE]}, TryNext(n, v, b)
    PROVE  BoundInv'
PROOF
<1>0. Handling
  BY DEF Handling
<1>. USE <1>0, HandlingFacts
<1>. DEFINE w == [view[cur] EXCEPT !.rwt = TRUE]
<1>1. /\ view[cur].st = "queued" /\ Bound(view[cur]) /\ ~view[cur].prod
      /\ w \in Row /\ w.st = view[cur].st /\ w.prod = view[cur].prod /\ Binds(view[cur], w)
  BY RowTypes, BindingUpdates DEF BoundInv, QueuedOK, Row
<1>. HIDE DEF w
<1>2. /\ v \in Row /\ v.st = "queued" /\ ~v.prod /\ Bound(v) /\ Binds(view[cur], v)
  BY <1>1, BindingUpdates DEF w, Binds
<1>3. CASE left = {n}
  <2>1. "unprocessable" \in Code /\ v.st \in Active
    BY <1>2 DEF Code, Active
  <2>. DEFINE f == Failed(v, "unprocessable")
  <2>2. f \in Row /\ f.st = "error" /\ f.prod = v.prod
    BY <1>2, <2>1, FailedFields
  <2>3. FinishTask(cur, f) \/ FinishTask(cur, v)
    BY <1>3 DEF TryNext
  <2>. HIDE DEF f
  <2>4. Binds(view[cur], f)
    BY <1>1, <1>2, <2>2 DEF Binds, Bound
  <2>. QED BY <1>2, <2>2, <2>3, <2>4, FinishTaskBinds
<1>4. CASE left # {n} /\ Flushable(cur, v)
  <2>1. /\ Commit(cur, v) /\ view' = [view EXCEPT ![cur] = v]
        /\ pc' = "post" /\ todo' = todo /\ cur' = cur /\ made' = made
    BY <1>4 DEF TryNext, histVars
  <2>2. \A q \in Task : Bound(row'[q]) /\ (row'[q].prod => made[q] = 1)
    BY <1>2, <2>1, CommitBinds
  <2>3. Loaded' = todo \cup {cur}
    BY <2>1 DEF Loaded
  <2>4. view'[cur] = v /\ \A q \in todo : view'[q] = view[q]
    BY <2>1 DEF SInv, TypeInv, TypeOK
  <2>. QED BY <1>2, <2>1, <2>2, <2>3, <2>4 DEF BoundInv, QueuedOK
<1>5. CASE left # {n} /\ ~Flushable(cur, v)
  BY <1>5, RollbackBinds DEF TryNext
<1>. QED BY <1>3, <1>4, <1>5

LEMMA SkipArtifactBinds ==
    ASSUME SInv, BoundInv, Handling, NEW v \in Row, v.prod = view[cur].prod,
           SkipArtifact(cur, v), pc' = "cleanup", UNCHANGED todo
    PROVE  BoundInv'
PROOF
<1>. USE HandlingFacts
<1>. DEFINE f == Failed(v, "source_deleted")
            new == Charged(f)
<1>0. "source_deleted" \in Code
  BY DEF Code
<1>1. f \in Row /\ f.st = "error" /\ f.prod = v.prod
  BY <1>0, FailedFields
<1>. HIDE DEF f
<1>2. new \in Row /\ new.st = "error" /\ new.prod = v.prod
  BY <1>1 DEF Charged, Row
<1>3. /\ Commit(cur, new) /\ view' = [view EXCEPT ![cur] = NoRow] /\ next' = None /\ made' = made
  BY DEF SkipArtifact, f
<1>. HIDE DEF new
<1>4. Binds(view[cur], new)
  BY <1>2 DEF Binds, Bound, Active
<1>5. \A q \in Task : Bound(row'[q]) /\ (row'[q].prod => made[q] = 1)
  BY <1>2, <1>3, <1>4, CommitBinds
<1>6. Loaded' = todo
  BY <1>3 DEF Loaded
<1>7. \A q \in todo : view'[q] = view[q]
  BY <1>3 DEF SInv, TypeInv, TypeOK
<1>. QED BY <1>3, <1>5, <1>6, <1>7 DEF BoundInv, QueuedOK

(* What is stored is a success, and a follow-up starts queued. *)
LEMMA PersistArtifactBinds ==
    ASSUME SInv, BoundInv, Handling, NEW v \in Row, PersistArtifact(cur, v), pc' = "cleanup",
           UNCHANGED <<todo, cur>>
    PROVE  BoundInv'
PROOF
<1>. USE HandlingFacts
<1>. DEFINE new == Detached(Charged(Stored(v)))
            child == NewRow("summarize", cur, FALSE)
<1>1. new \in Row /\ new.st = "success" /\ new.wtask = None
  BY SettledFields
<1>2. child.st = "queued" /\ child.wtask = None /\ child.prod = FALSE
  BY DEF NewRow
<1>3. /\ row'[cur] = Merge(row[cur], view[cur], new)
      /\ made'[cur] = 1 /\ \A q \in Task : q # cur => made'[q] = made[q]
      /\ \E born \in SUBSET (Task \ {cur}) :
            /\ \A q \in born : row[q].st = "absent" /\ row'[q] = child /\ view'[q] = child
            /\ \A q \in Task \ born : q # cur => row'[q] = row[q] /\ view'[q] = view[q]
            /\ Loaded' = todo \cup born /\ (next' # None => next' \in born)
  BY PersistArtifactEffect, Zenon
<1>. HIDE DEF new, child
<1>4. row'[cur].st = "success"
  <2>1. row[cur] \in Row /\ view[cur].st # "success"
    BY DEF SInv, TypeInv, TypeOK, Active
  <2>. QED BY <1>1, <1>3, <2>1, MergeFields DEF Written
<1>5. PICK born \in SUBSET (Task \ {cur}) :
         /\ \A q \in born : row[q].st = "absent" /\ row'[q] = child /\ view'[q] = child
         /\ \A q \in Task \ born : q # cur => row'[q] = row[q] /\ view'[q] = view[q]
         /\ Loaded' = todo \cup born /\ (next' # None => next' \in born)
  BY <1>3
<1>6. ASSUME NEW q \in Task PROVE (Bound(row[q]) /\ (row[q].prod => made[q] = 1))'
  <2>1. CASE q \in born
    BY <1>2, <1>5, <2>1 DEF Bound
  <2>2. CASE q = cur
    BY <1>3, <1>4, <2>2 DEF Bound
  <2>3. CASE q \notin born /\ q # cur
    BY <1>3, <1>5, <2>3 DEF BoundInv
  <2>. QED BY <2>1, <2>2, <2>3
<1>7. ASSUME NEW q \in Loaded' PROVE (Bound(view[q]) /\ ~view[q].prod)'
  <2>1. CASE q \in born
    BY <1>2, <1>5, <2>1 DEF Bound
  <2>2. CASE q \notin born
    BY <1>5, <2>2 DEF BoundInv
  <2>. QED BY <2>1, <2>2
<1>8. QueuedOK'
  BY <1>2, <1>5 DEF QueuedOK
<1>. QED BY <1>6, <1>7, <1>8 DEF BoundInv

LEMMA OnWorkerSuccessBinds ==
    ASSUME SInv, BoundInv, Handling, NEW v \in Row, v.prod = view[cur].prod,
           OnWorkerSuccess(cur, v)
    PROVE  BoundInv'
PROOF
<1>1. CASE Rollback
  BY <1>1, RollbackBinds
<1>2. CASE SkipArtifact(cur, v) /\ pc' = "cleanup" /\ UNCHANGED todo
  BY <1>2, SkipArtifactBinds
<1>3. CASE PersistArtifact(cur, v) /\ pc' = "cleanup" /\ UNCHANGED <<todo, cur>>
  BY <1>3, PersistArtifactBinds
<1>. QED BY <1>1, <1>2, <1>3 DEF OnWorkerSuccess

(* A tick loads active tasks, which have stored nothing. *)
LEMMA LoadBinds ==
    ASSUME SInv, BoundInv, NEW S \in SUBSET Task, \A t \in S : row[t].st \in Active, Load(S)
    PROVE  BoundInv'
PROOF
<1>1. /\ UNCHANGED <<row, made>> /\ pc' = "loop" /\ todo' = S
      /\ \A t \in S : view'[t] = row[t]
  BY DEF Load, dbVars, histVars
<1>2. Loaded' = S
  BY <1>1 DEF Loaded
<1>3. \A t \in S : ~row[t].prod
  <2>1. ASSUME NEW t \in S PROVE made[t] # 1
    <3>1. RowOK(t) /\ row[t].st \in Active
      BY DEF SInv, RowsOK
    <3>. QED BY <3>1 DEF RowOK, Active
  <2>. QED BY <2>1 DEF BoundInv
<1>. QED BY <1>1, <1>2, <1>3 DEF BoundInv, QueuedOK

(* Steps that touch neither rows nor copies. *)
LEMMA MoveBinds ==
    ASSUME BoundInv, UNCHANGED <<row, made, view>>, Loaded' \subseteq Loaded, QueuedOK'
    PROVE  BoundInv'
  BY DEF BoundInv

(* After a 404 the copy is queued again, and dispatched as such. *)
LEMMA PollNotFoundBinds ==
    ASSUME SInv, BoundInv, PollNotFound
    PROVE  BoundInv'
PROOF
<1>. DEFINE v == view[cur]
            new == Requeued(v)
<1>0. Handling /\ pc = "poll"
  BY DEF PollNotFound, Polling, Handling
<1>. USE <1>0, HandlingFacts
<1>1. v \in Row /\ v.st \in Active /\ Bound(v) /\ ~v.prod
  BY DEF BoundInv
<1>2. new \in Row /\ Binds(v, new) /\ new.st = "queued" /\ ~new.prod /\ Bound(new)
  BY <1>1, BindingUpdates, RowTypes
<1>3. CASE mode = "recovery"
  BY <1>1, <1>2, <1>3, FinishTaskBinds DEF PollNotFound
<1>4. CASE mode # "recovery" /\ Flushable(cur, new)
  <2>1. /\ Commit(cur, new) /\ view' = [view EXCEPT ![cur] = new]
        /\ pc' = "dispatch" /\ todo' = todo /\ cur' = cur /\ made' = made
    BY <1>1, <1>4 DEF PollNotFound, histVars
  <2>. HIDE DEF new
  <2>2. \A q \in Task : Bound(row'[q]) /\ (row'[q].prod => made[q] = 1)
    BY <1>2, <2>1, CommitBinds
  <2>3. Loaded' = todo \cup {cur}
    BY <2>1 DEF Loaded
  <2>4. view'[cur] = new /\ \A q \in todo : view'[q] = view[q]
    BY <2>1 DEF SInv, TypeInv, TypeOK
  <2>. QED BY <1>2, <2>1, <2>2, <2>3, <2>4 DEF BoundInv, QueuedOK
<1>5. CASE mode # "recovery" /\ ~Flushable(cur, new)
  BY <1>1, <1>5, RollbackBinds DEF PollNotFound
<1>. QED BY <1>3, <1>4, <1>5

LEMMA ProgressBinds ==
    ASSUME SInv, BoundInv, "anonymous" \notin Ops,
           TickAll \/ (\E t \in Task : TickOne(t)) \/ Progress
    PROVE  BoundInv'
PROOF
<1>0. ASSUME Handling
      PROVE  /\ view[cur] \in Row /\ view[cur].st \in Active /\ Bound(view[cur]) /\ ~view[cur].prod
             /\ Binds(view[cur], view[cur]) /\ Binds(view[cur], Requeued(view[cur]))
             /\ Binds(view[cur], [view[cur] EXCEPT !.rwt = TRUE])
             /\ \A c \in Code : Failed(view[cur], c) \in Row /\ Binds(view[cur], Failed(view[cur], c))
  <2>1. view[cur] \in Row /\ view[cur].st \in Active /\ Bound(view[cur]) /\ ~view[cur].prod
    BY <1>0, HandlingFacts DEF BoundInv
  <2>. QED BY <2>1, BindingUpdates, FailedFields, FailureBinds
<1>1. CASE TickAll \/ (\E t \in Task : TickOne(t)) \/ RecoverBegin
  BY <1>1, LoadBinds DEF TickAll, TickOne, RecoverBegin, Active
<1>2. CASE TickEnd \/ DispatchSend \/ (\E t \in Task : SelectPoll(t) \/ SelectDispatch(t)) \/ Cleanup
  <2>1. UNCHANGED <<row, made, view>> /\ Loaded' \subseteq Loaded /\ QueuedOK'
    <3>1. CASE TickEnd
      BY <3>1 DEF TickEnd, Loaded, QueuedOK, dbVars, histVars
    <3>2. CASE DispatchSend
      BY <3>2 DEF DispatchSend, Dispatching, Loaded, BoundInv, QueuedOK, dbVars, histVars
    <3>3. ASSUME NEW t \in Task, SelectPoll(t) \/ SelectDispatch(t)
          PROVE  UNCHANGED <<row, made, view>> /\ Loaded' \subseteq Loaded /\ QueuedOK'
      <4>1. /\ t \in todo /\ todo' = todo \ {t} /\ cur' = t /\ UNCHANGED <<row, made, view>>
            /\ pc' = "poll" \/ (pc' = "dispatch" /\ view[t].st = "queued")
        BY <3>3 DEF SelectPoll, SelectDispatch, Select, dbVars, histVars
      <4>2. Loaded' \subseteq Loaded
        BY <4>1 DEF Loaded
      <4>. QED BY <4>1, <4>2 DEF QueuedOK
    <3>4. CASE Cleanup
      <4>1. /\ UNCHANGED <<row, made, view>> /\ pc = "cleanup"
            /\ \/ next = None /\ pc' = "loop" /\ todo' = todo
               \/ next # None /\ pc' = "dispatch" /\ cur' = next /\ todo' = todo
        BY <3>4 DEF Cleanup, BackToLoop, dbVars, histVars
      <4>. QED BY <4>1 DEF Loaded, BoundInv, QueuedOK
    <3>. QED BY <1>2, <3>1, <3>2, <3>3, <3>4
  <2>. QED BY <2>1, MoveBinds
<1>3. ASSUME NEW t \in Task, SelectUnbound(t)
      PROVE  BoundInv'
  <2>1. t \in Loaded /\ view[t].st = "running" /\ view[t].wtask = None
    BY <1>3 DEF SelectUnbound, Loaded
  <2>. QED BY <2>1 DEF BoundInv, Bound
<1>4. CASE DispatchWaiting \/ DispatchEmptyPool \/ DispatchSourceGone \/ DispatchUnfit
  <2>1. Handling
    BY <1>4 DEF DispatchWaiting, DispatchEmptyPool, DispatchSourceGone, DispatchUnfit,
       Dispatching, Handling
  <2>. DEFINE w == [view[cur] EXCEPT !.rwt = TRUE]
  <2>2. w \in Row
    BY <1>0, <2>1, RowTypes
  <2>3. FinishTask(cur, w) \/ FinishTask(cur, view[cur])
        \/ \E c \in Code : FinishTask(cur, Failed(view[cur], c))
    BY <1>4 DEF DispatchWaiting, DispatchEmptyPool, DispatchSourceGone, DispatchUnfit, Code
  <2>. HIDE DEF w
  <2>4. Binds(view[cur], w)
    BY <1>0, <2>1 DEF w
  <2>. QED BY <1>0, <2>1, <2>2, <2>3, <2>4, FinishTaskBinds
<1>5. CASE PollBusy \/ PollSilent \/ PollSuccess \/ PollError
  <2>1. Handling
    BY <1>5 DEF PollBusy, PollSilent, PollSuccess, PollError, Polling, Handling
  <2>2. Requeued(view[cur]) \in Row
    BY <1>0, <2>1, RowTypes
  <2>3. CASE PollBusy \/ PollSilent
    <3>1. FinishTask(cur, view[cur]) \/ FinishTask(cur, Requeued(view[cur]))
      BY <2>3 DEF PollBusy, PollSilent
    <3>. QED BY <1>0, <2>1, <2>2, <3>1, FinishTaskBinds
  <2>4. CASE PollSuccess
    BY <1>0, <2>1, <2>4, OnWorkerSuccessBinds DEF PollSuccess
  <2>5. CASE PollError
    <3>1. PICK c \in Code : OnWorkerError(cur, view[cur], c)
      BY <2>5 DEF PollError, Code
    <3>. QED BY <1>0, <2>1, <3>1, OnWorkerErrorBinds
  <2>. QED BY <1>5, <2>3, <2>4, <2>5
<1>6. CASE PollNotFound
  BY <1>6, PollNotFoundBinds
<1>7. CASE PostBlobGone
  BY <1>7, RollbackBinds DEF PostBlobGone
<1>8. ASSUME NEW n \in Node, PostLost(n) \/ PostBusy(n) \/ PostTooLarge(n) \/ PostRejected(n)
      PROVE  BoundInv'
  <2>1. Handling /\ pc = "post" /\ large \in BOOLEAN
    BY <1>8 DEF PostLost, PostBusy, PostTooLarge, PostRejected, Posting, Handling,
       SInv, TypeInv, TypeOK
  <2>2. CASE PostRejected(n)
    <3>1. PICK c \in Code : FinishTask(cur, Failed(view[cur], c))
      BY <2>2 DEF PostRejected, Code
    <3>. QED BY <1>0, <2>1, <3>1, FinishTaskBinds
  <2>3. CASE PostLost(n) \/ PostBusy(n) \/ PostTooLarge(n)
    <3>. DEFINE w == [view[cur] EXCEPT !.rwt = TRUE]
    <3>1. TryNext(n, view[cur], FALSE) \/ TryNext(n, w, FALSE) \/ TryNext(n, view[cur], large)
      BY <2>3 DEF PostLost, PostBusy, PostTooLarge
    <3>. QED BY <2>1, <3>1, TryNextBinds
  <2>. QED BY <1>8, <2>2, <2>3
<1>9. ASSUME NEW n \in Node, NEW j \in Job, PostAccepted(n, j) \/ PostDone(n, j)
      PROVE  BoundInv'
  <2>. DEFINE v == Dispatched(view[cur], n, j)
  <2>1. Handling /\ view[cur].st = "queued"
    BY <1>9 DEF PostAccepted, PostDone, Posting, Handling, BoundInv, QueuedOK
  <2>2. v \in Row /\ v.st = "running" /\ v.wtask = j /\ j # None /\ v.prod = view[cur].prod
    BY <1>0, <2>1, DispatchedFields
  <2>3. FinishTask(cur, v) \/ OnWorkerSuccess(cur, v) \/ \E c \in Code : OnWorkerError(cur, v, c)
    BY <1>9 DEF PostAccepted, PostDone, Code
  <2>. HIDE DEF v
  <2>4. CASE FinishTask(cur, v)
    <3>1. Binds(view[cur], v)
      BY <1>0, <2>1, <2>2 DEF Binds, Bound
    <3>. QED BY <2>1, <2>2, <2>4, <3>1, FinishTaskBinds
  <2>5. CASE OnWorkerSuccess(cur, v)
    BY <2>1, <2>2, <2>5, OnWorkerSuccessBinds
  <2>6. CASE \E c \in Code : OnWorkerError(cur, v, c)
    <3>1. PICK c \in Code : OnWorkerError(cur, v, c)
      BY <2>6
    <3>2. Binds(view[cur], Failed(v, c))
      BY <1>0, <2>1, <2>2, FailureBinds
    <3>. QED BY <2>1, <2>2, <3>1, <3>2, OnWorkerErrorBinds
  <2>. QED BY <2>3, <2>4, <2>5, <2>6
<1>. QED BY <1>1, <1>2, <1>3, <1>4, <1>5, <1>6, <1>7, <1>8, <1>9
         DEF Progress, Answer, Dispatch

(* An endpoint that changes one row. *)
LEMMA OneRowBinds ==
    ASSUME SInv, BoundInv, NEW t \in Task, NEW new, row' = [row EXCEPT ![t] = new],
           UNCHANGED apiUnchanged, Bound(new), new.prod => row[t].prod
    PROVE  BoundInv'
PROOF
<1>1. row'[t] = new /\ \A q \in Task : q # t => row'[q] = row[q]
  BY DEF SInv, TypeInv, TypeOK
<1>2. UNCHANGED <<made, view, pc, cur, next>> /\ Loaded' = Loaded
  BY DEF apiUnchanged, tickVars, Loaded
<1>3. \A q \in Task : (Bound(row[q]) /\ (row[q].prod => made[q] = 1))'
  BY <1>1, <1>2 DEF BoundInv
<1>. QED BY <1>2, <1>3 DEF BoundInv, QueuedOK

(* A deletion cancels what is not bound yet and leaves the binding alone. *)
LEMMA DeleteCommitBinds ==
    ASSUME SInv, BoundInv, DeleteCommit
    PROVE  BoundInv'
PROOF
<1>1. UNCHANGED <<made, view, pc, cur, next>> /\ Loaded' = Loaded
  BY DEF DeleteCommit, apiUnchanged, tickVars, Loaded
<1>2. CASE UNCHANGED <<row, alive>>
  BY <1>1, <1>2 DEF BoundInv, QueuedOK
<1>3. CASE row' = [t \in Task |-> DeleteApply(row[t], t)]
  <2>1. ASSUME NEW t \in Task
        PROVE  Bound(row'[t]) /\ (row'[t].prod => row[t].prod)
    <3>. DEFINE q == IF plan[t] = "cancel" THEN Canceled(row[t])
                     ELSE IF plan[t] = "skip" THEN [row[t] EXCEPT !.skip = TRUE] ELSE row[t]
    <3>1. row[t] \in Row /\ Canceled(row[t]) \in Row /\ Bound(row[t])
      BY RowTypes DEF SInv, TypeInv, TypeOK, BoundInv
    <3>2. q \in Row /\ Bound(q) /\ q.prod = row[t].prod
      <4>1. Canceled(row[t]).st = "error" /\ Canceled(row[t]).prod = row[t].prod
        BY <3>1 DEF Canceled, Row
      <4>2. /\ [row[t] EXCEPT !.skip = TRUE] \in Row
            /\ [row[t] EXCEPT !.skip = TRUE].st = row[t].st
            /\ [row[t] EXCEPT !.skip = TRUE].wtask = row[t].wtask
            /\ [row[t] EXCEPT !.skip = TRUE].prod = row[t].prod
        BY <3>1 DEF Row
      <4>. QED BY <3>1, <4>1, <4>2 DEF Bound
    <3>3. row'[t] = [q EXCEPT !.src = IF @ = del THEN None ELSE @,
                              !.prod = IF t = del THEN FALSE ELSE @]
      BY <1>3 DEF DeleteApply
    <3>. HIDE DEF q
    <3>4. /\ row'[t].st = q.st /\ row'[t].wtask = q.wtask /\ (row'[t].prod => q.prod)
      BY <3>2, <3>3 DEF Row
    <3>. QED BY <3>2, <3>4 DEF Bound
  <2>2. \A t \in Task : (Bound(row[t]) /\ (row[t].prod => made[t] = 1))'
    BY <1>1, <2>1 DEF BoundInv
  <2>. QED BY <1>1, <2>2 DEF BoundInv, QueuedOK
<1>. QED BY <1>2, <1>3 DEF DeleteCommit

LEMMA ApiBinds ==
    ASSUME SInv, BoundInv, "remove" \notin Ops, Api
    PROVE  BoundInv'
PROOF
<1>1. Root \subseteq Task /\ \A t \in Task : row[t] \in Row
  BY Ids DEF SInv, TypeInv, TypeOK
<1>2. ASSUME NEW t \in Root, NEW k, NEW s, NEW b, row' = [row EXCEPT ![t] = NewRow(k, s, b)],
             UNCHANGED apiUnchanged
      PROVE  BoundInv'
  <2>. DEFINE new == NewRow(k, s, b)
  <2>1. new.st = "queued" /\ new.wtask = None /\ new.prod = FALSE
    BY DEF NewRow
  <2>. HIDE DEF new
  <2>2. row' = [row EXCEPT ![t] = new]
    BY <1>2 DEF new
  <2>3. Bound(new)
    BY <2>1 DEF Bound
  <2>. QED BY <1>1, <1>2, <2>1, <2>2, <2>3, OneRowBinds
<1>3. ASSUME NEW t \in Task, CancelTask(t)
      PROVE  BoundInv'
  <2>. DEFINE new == Canceled(row[t])
  <2>1. new.st = "error" /\ new.prod = row[t].prod
    BY <1>1 DEF Canceled, Row
  <2>2. row' = [row EXCEPT ![t] = new] /\ UNCHANGED apiUnchanged
    BY <1>3 DEF CancelTask
  <2>. HIDE DEF new
  <2>3. Bound(new)
    BY <2>1 DEF Bound
  <2>. QED BY <2>1, <2>2, <2>3, OneRowBinds
<1>4. ASSUME NEW t \in Task, PurgeTask(t)
      PROVE  BoundInv'
  <2>1. PurgedRow.st = "purged" /\ PurgedRow.prod = FALSE
    BY DEF PurgedRow, NoRow, NewRow
  <2>2. row' = [row EXCEPT ![t] = PurgedRow] /\ UNCHANGED apiUnchanged
    BY <1>4 DEF PurgeTask
  <2>3. Bound(PurgedRow)
    BY <2>1 DEF Bound
  <2>. QED BY <2>1, <2>2, <2>3, OneRowBinds
<1>5. ASSUME NEW t \in Task, RetryTask(t)
      PROVE  BoundInv'
  <2>. DEFINE u == Requeued(row[t])
              new == [u EXCEPT !.code = "none", !.prod = FALSE, !.rwt = FALSE, !.skip = FALSE]
  <2>1. u \in Row /\ u.st = "queued" /\ u.wtask = None
    <3>1. u \in Row
      BY <1>1, RowTypes
    <3>2. u.st = "queued" /\ u.wtask = None
      BY <1>1 DEF Requeued, Row
    <3>. QED BY <3>1, <3>2
  <2>2. row' = [row EXCEPT ![t] = new] /\ UNCHANGED apiUnchanged
    BY <1>5 DEF RetryTask
  <2>. HIDE DEF u
  <2>3. new.st = "queued" /\ new.wtask = None /\ new.prod = FALSE
    BY <2>1 DEF Row
  <2>. HIDE DEF new
  <2>4. Bound(new)
    BY <2>3 DEF Bound
  <2>. QED BY <2>2, <2>3, <2>4, OneRowBinds
<1>6. ASSUME NEW s \in Source, DeleteRead(s)
      PROVE  BoundInv'
  <2>1. UNCHANGED <<row, made, view, pc, cur, next>> /\ Loaded' = Loaded
    BY <1>6 DEF DeleteRead, apiUnchanged, tickVars, Loaded
  <2>. QED BY <2>1 DEF BoundInv, QueuedOK
<1>7. ~\E n \in Node : RemoveNode(n)
  BY DEF RemoveNode
<1>8. ASSUME NEW t \in Root, NEW a \in Audio, NEW b \in BOOLEAN, CreateTranscribe(t, a, b)
      PROVE  BoundInv'
  BY <1>2, <1>8 DEF CreateTranscribe
<1>9. ASSUME NEW t \in Root, NEW p \in Task, CreateSummarize(t, p)
      PROVE  BoundInv'
  BY <1>2, <1>9 DEF CreateSummarize
<1>. QED BY <1>3, <1>4, <1>5, <1>6, <1>7, <1>8, <1>9, DeleteCommitBinds DEF Api

LEMMA OutsideBinds ==
    ASSUME BoundInv, Crash \/ Restart \/ (\E j \in Job : WorkerFinish(j) \/ WorkerForget(j))
    PROVE  BoundInv'
PROOF
<1>1. CASE Crash
  <2>1. UNCHANGED <<row, made>> /\ Loaded' = {} /\ pc' = "down"
    BY <1>1 DEF Crash, Loaded, dbVars, histVars
  <2>. QED BY <2>1 DEF BoundInv, QueuedOK
<1>2. CASE Restart
  <2>1. UNCHANGED <<row, made, view>> /\ Loaded' \subseteq Loaded /\ QueuedOK'
    BY <1>2 DEF Restart, Loaded, QueuedOK, dbVars, histVars
  <2>. QED BY <2>1, MoveBinds
<1>3. CASE \E j \in Job : WorkerFinish(j) \/ WorkerForget(j)
  <2>1. UNCHANGED <<row, made, view, pc, cur, next>> /\ Loaded' = Loaded
    BY <1>3 DEF WorkerFinish, WorkerForget, Loaded, dbVars, histVars, tickVars
  <2>. QED BY <2>1 DEF BoundInv, QueuedOK
<1>. QED BY <1>1, <1>2, <1>3

LEMMA InitBinds == Init => BoundInv
PROOF
<1>. SUFFICES ASSUME Init PROVE BoundInv
  OBVIOUS
<1>1. NoRow.st = "absent" /\ NoRow.prod = FALSE
  BY DEF NoRow, NewRow
<1>2. (\A t \in Task : row[t] = NoRow) /\ Loaded = {} /\ pc = "boot"
  BY DEF Init, Loaded
<1>. QED BY <1>1, <1>2 DEF BoundInv, Bound, QueuedOK

LEMMA NextBinds ==
    ASSUME "remove" \notin Ops, "anonymous" \notin Ops
    PROVE  SInv /\ BoundInv /\ [Next]_vars => BoundInv'
PROOF
<1>. SUFFICES ASSUME SInv, BoundInv, [Next]_vars PROVE BoundInv'
  OBVIOUS
<1>1. CASE UNCHANGED vars
  <2>1. UNCHANGED <<row, made, view, pc, cur, next>> /\ Loaded' = Loaded
    BY <1>1 DEF vars, Loaded, dbVars, histVars, tickVars
  <2>. QED BY <2>1 DEF BoundInv, QueuedOK
<1>2. CASE Next
  BY <1>2, ProgressBinds, ApiBinds, OutsideBinds DEF Next
<1>. QED BY <1>1, <1>2

(* While no node is deleted and every worker answers with a task id, a       *)
(* running task always has a job to ask about, whatever stale copy a tick    *)
(* wrote back (dispatch_queued_task, tick_once, recover_orphaned_tasks).     *)
(* Either of the two excluded operations leaves a running task unbound.      *)
THEOREM RunningStaysBound ==
    ASSUME "remove" \notin Ops, "anonymous" \notin Ops
    PROVE  Spec => []RunningIsBound
PROOF
<1>1. SInv /\ BoundInv /\ [Next]_vars => BoundInv'
  BY NextBinds
<1>2. BoundInv => RunningIsBound
  BY DEF BoundInv, Bound, RunningIsBound
<1>. QED BY <1>1, <1>2, InitSettles, InitBinds, NextSettles, PTL DEF Spec
=============================================================================
