----------------------------- MODULE Dispatcher -----------------------------
(***************************************************************************)
(* The hub's queue of transcribe and summarize tasks: the dispatcher tick  *)
(* (app/services/dispatcher.py), the task and library endpoints that touch *)
(* the same rows (app/routers/tasks.py, app/services/artifacts.py,         *)
(* app/services/worker_impact.py) and, as environment, the workers.        *)
(*                                                                         *)
(* A tick loads the active tasks once and works on those ORM objects until *)
(* it ends: sessions use expire_on_commit=False, so `view' is what the     *)
(* session believes and `row' is what the database holds.  A commit writes *)
(* only the attributes the session changed (Merge).  Ticks are serialised  *)
(* by tick_lock; the other endpoints run whenever the tick awaits HTTP.    *)
(* One action is one stretch of code between two awaits; each of them ends *)
(* in a commit (release_connection before HTTP, _commit after a task).     *)
(***************************************************************************)
EXTENDS Naturals, FiniteSets

CONSTANTS
    Root,       \* ids of the tasks created through the API
    Audio,      \* uploaded audios
    Node,       \* worker nodes registered at the start
    Job,        \* worker_task_ids the workers can hand out
    None,       \* a NULL column or variable
    MaxFaults,  \* bound on the faults of one behaviour (see Fault)
    Ops         \* the optional operations an instance explores

OptionalOps == {"cancel", "retry", "delete", "purge", "remove", "anonymous"}

(* A follow-up task has an id of its own, different from every Root id. *)
ASSUME IdAssumption == /\ \A r, q \in Root : r # <<q>>
                       /\ None \notin Root \cup Audio \cup Node \cup Job
                       /\ \A r \in Root : None # <<r>>
                       /\ Audio \cap (Root \cup {<<r>> : r \in Root}) = {}
ASSUME FaultAssumption == MaxFaults \in Nat
ASSUME OpsAssumption == Ops \subseteq OptionalOps

FollowUp(r) == <<r>>
Task == Root \cup {FollowUp(r) : r \in Root}

(* A source is an audio, or the transcript produced by a task. *)
Source == Audio \cup Task

Status == {"absent", "queued", "running", "success", "error", "purged"}

(* "unprocessable" stands for payload_too_large, invalid_file, text_too_long; *)
(* "failed" for the codes a user may retry (pipeline_error, not_found,        *)
(* engine_unavailable, dispatch_timeout).                                     *)
Code == {"none", "canceled", "source_deleted", "unprocessable", "failed"}
NonRetriable == {"canceled", "source_deleted", "unprocessable"}

Row == [st : Status, kind : {"transcribe", "summarize"}, src : Source \cup {None},
        skills : BOOLEAN, code : Code, worker : Node \cup {None},
        wtask : Job \cup {None}, skip : BOOLEAN, rwt : BOOLEAN,
        billed : BOOLEAN, prod : BOOLEAN]

NewRow(kind, src, skills) ==
    [st |-> "queued", kind |-> kind, src |-> src, skills |-> skills,
     code |-> "none", worker |-> None, wtask |-> None, skip |-> FALSE,
     rwt |-> FALSE, billed |-> FALSE, prod |-> FALSE]
NoRow == [NewRow("transcribe", None, FALSE) EXCEPT !.st = "absent"]
PurgedRow == [NoRow EXCEPT !.st = "purged"]

VARIABLES
    row,      \* table tasks
    alive,    \* rows of tables audios and transcripts
    nodes,    \* table worker_nodes
    made,     \* number of artifacts a task ever stored          (history)
    events,   \* number of usage events a task ever produced     (history)
    spawned,  \* number of follow-up tasks a task ever enqueued  (history)
    job,      \* the workers' side: state and owner of every job
    pc,       \* where the dispatcher is
    mode,     \* "tick" or "recovery"
    todo,     \* tasks of the current tick still to be looked at
    view,     \* the tick session's copy of the task rows
    cur,      \* task being processed
    left,     \* candidate nodes not tried yet in this dispatch
    large,    \* every node tried so far answered payload_too_large
    finished, \* worker job to DELETE after a terminal commit
    next,     \* follow-up to dispatch after that
    del,      \* source a library DELETE request is working on, or None
    plan,     \* what that request decided when it read the tasks
    faults    \* faults so far

dbVars == <<row, alive, nodes>>
histVars == <<made, events, spawned>>
tickVars == <<pc, mode, todo, view, cur, left, large, finished, next>>
delVars == <<del, plan>>
vars == <<dbVars, histVars, job, tickVars, delVars, faults>>

Active == {"queued", "running"}
Terminal == {"success", "error"}
NoPlan == [t \in Task |-> "none"]

-----------------------------------------------------------------------------
(* Updates of a task object in memory. *)

(* Variants of definitions that a plausible slip would give (Mut...) stand   *)
(* next to them; no specification uses them.                                 *)
MutRequeued(v) == [v EXCEPT !.worker = None, !.wtask = None]
Requeued(v) == [v EXCEPT !.st = "queued", !.worker = None, !.wtask = None]
Failed(v, c) == [v EXCEPT !.st = "error", !.code = c, !.worker = None, !.wtask = None]
MutDispatched(v, n, j) == [v EXCEPT !.st = "running", !.worker = j, !.wtask = n]
Dispatched(v, n, j) == [v EXCEPT !.st = "running", !.worker = n, !.wtask = j]
Stored(v) == [v EXCEPT !.st = "success", !.code = "none", !.prod = TRUE]
MutCharged(v) == v
Charged(v) == [v EXCEPT !.billed = TRUE]
Canceled(v) == [v EXCEPT !.st = "error", !.code = "canceled"]
Detached(v) == [v EXCEPT !.worker = None, !.wtask = None]

(* UPDATE writes the columns that differ from what the session loaded. *)
Written(loaded, now, stored) == IF now # loaded THEN now ELSE stored
Merge(r, old, new) ==
    [r EXCEPT !.st     = Written(old.st, new.st, r.st),
              !.code   = Written(old.code, new.code, r.code),
              !.worker = Written(old.worker, new.worker, r.worker),
              !.wtask  = Written(old.wtask, new.wtask, r.wtask),
              !.rwt    = Written(old.rwt, new.rwt, r.rwt),
              !.billed = Written(old.billed, new.billed, r.billed),
              !.prod   = Written(old.prod, new.prod, r.prod)]

(* The flush of `new' succeeds: an UPDATE of a purged row matches no row     *)
(* (StaleDataError), and tasks.worker_id references worker_nodes.            *)
Flushable(t, new) == /\ row[t].st # "purged" \/ new = view[t]
                     /\ new.worker = view[t].worker \/ new.worker \in nodes \cup {None}

MutSourceResolves(v) == v.src = v.src  \* foreign keys not enforced

(* transcripts.source_audio_id and summaries.source_transcript_id are        *)
(* foreign keys: an artifact cannot name a source that is gone.              *)
SourceResolves(v) == v.src = None \/ v.src \in alive

Fault == faults < MaxFaults /\ faults' = faults + 1

(* The tick goes back to its loop over the tasks. *)
BackToLoop == /\ pc' = "loop" /\ cur' = None /\ left' = {} /\ large' = FALSE
              /\ finished' = None /\ next' = None
              /\ UNCHANGED <<mode, todo>>

(* An exception leaves the tick: rollback, nothing of this step is stored.   *)
Rollback == /\ pc' = "idle" /\ mode' = "tick" /\ todo' = {} /\ cur' = None
            /\ view' = [t \in Task |-> NoRow] /\ left' = {} /\ large' = FALSE
            /\ finished' = None /\ next' = None
            /\ UNCHANGED <<dbVars, histVars>>

Commit(t, new) == row' = [row EXCEPT ![t] = Merge(@, view[t], new)]

(* Store `new' and leave task t; the session's copy is not used again.       *)
FinishTask(t, new) ==
    IF Flushable(t, new)
    THEN /\ Commit(t, new)
         /\ view' = [view EXCEPT ![t] = NoRow]
         /\ BackToLoop
         /\ UNCHANGED <<alive, nodes, histVars>>
    ELSE Rollback

-----------------------------------------------------------------------------
(* Terminal results reported by a worker. *)

(* _on_worker_terminal_error: fail, commit, then delete the worker's job. *)
OnWorkerError(t, v, c) ==
    IF Flushable(t, Failed(v, c))
    THEN /\ Commit(t, Failed(v, c))
         /\ view' = [view EXCEPT ![t] = NoRow]
         /\ pc' = "cleanup" /\ finished' = v.wtask /\ next' = None
         /\ left' = {} /\ large' = FALSE
         /\ UNCHANGED <<alive, nodes, histVars, mode, todo, cur>>
    ELSE Rollback

(* apply_success_charge: at most one usage event, guarded by task.billed. *)
ApplySuccessCharge(t, v) ==
    events' = [events EXCEPT ![t] = IF v.billed THEN @ ELSE @ + 1]

MutHasFollowUp(t, v) == v.skills /\ v.kind = "summarize" /\ t \in Root

HasFollowUp(t, v) == v.skills /\ v.kind = "transcribe" /\ t \in Root

(* _on_transcribe_success / _on_summarize_success for a task that persists:  *)
(* artifact, charge, follow-up and status in one commit.                     *)
PersistArtifact(t, v) ==
    LET stored == [row EXCEPT ![t] = Merge(@, view[t], Detached(Charged(Stored(v))))]
        child  == NewRow("summarize", t, FALSE)
    IN  /\ made' = [made EXCEPT ![t] = @ + 1]
        /\ ApplySuccessCharge(t, v)
        /\ alive' = IF v.kind = "transcribe" THEN alive \cup {t} ELSE alive
        /\ IF HasFollowUp(t, v)
           THEN /\ row' = [stored EXCEPT ![FollowUp(t)] = child]
                /\ view' = [view EXCEPT ![t] = NoRow, ![FollowUp(t)] = child]
                /\ spawned' = [spawned EXCEPT ![t] = @ + 1]
                /\ next' = FollowUp(t)
           ELSE /\ row' = stored
                /\ view' = [view EXCEPT ![t] = NoRow]
                /\ next' = None
                /\ UNCHANGED spawned

(* The same handlers when skip_persist is set: _fail, and still the charge.  *)
SkipArtifact(t, v) ==
    /\ Commit(t, Charged(Failed(v, "source_deleted")))
    /\ view' = [view EXCEPT ![t] = NoRow]
    /\ ApplySuccessCharge(t, v)
    /\ next' = None
    /\ UNCHANGED <<alive, made, spawned>>

OnWorkerSuccess(t, v) ==
    IF /\ row[t].st # "purged"
       /\ v.skip \/ SourceResolves(v)
       /\ v.skip \/ v.worker = view[t].worker \/ v.worker \in nodes \cup {None}
    THEN /\ IF v.skip THEN SkipArtifact(t, v) ELSE PersistArtifact(t, v)
         /\ pc' = "cleanup" /\ finished' = v.wtask
         /\ left' = {} /\ large' = FALSE
         /\ UNCHANGED <<nodes, mode, todo, cur>>
    ELSE Rollback

-----------------------------------------------------------------------------
(* Start of a tick, of the recovery after a restart, and their loop. *)

Load(S) == /\ pc' = "loop" /\ todo' = S
           /\ view' = [t \in Task |-> IF t \in S THEN row[t] ELSE NoRow]
           /\ UNCHANGED <<dbVars, histVars, job, cur, left, large, finished, next,
                          delVars, faults>>

(* The dispatcher loop's own tick: every active task. *)
TickAll == /\ pc = "idle" /\ mode' = "tick"
           /\ Load({t \in Task : row[t].st \in Active})

(* locked_tick_job(task_id): a poll or an enqueue asks for one task. *)
TickOne(t) == /\ pc = "idle" /\ mode' = "tick" /\ row[t].st \in Active
              /\ Load({t})

(* recover_orphaned_tasks runs before the first tick of a process. *)
RecoverBegin == /\ pc = "boot" /\ mode' = "recovery"
                /\ Load({t \in Task : row[t].st = "running"})

TickEnd == /\ pc = "loop" /\ todo = {}
           /\ pc' = "idle" /\ mode' = "tick"
           /\ UNCHANGED <<dbVars, histVars, job, todo, view, cur, left, large,
                          finished, next, delVars, faults>>

Select(t, where) ==
    /\ pc = "loop" /\ t \in todo /\ todo' = todo \ {t}
    /\ cur' = t /\ pc' = where
    /\ UNCHANGED <<dbVars, histVars, job, mode, view, left, large, finished, next,
                   delVars, faults>>

(* A running task with a worker_task_id is asked about ... *)
SelectPoll(t) == view[t].st = "running" /\ view[t].wtask # None /\ Select(t, "poll")
(* ... a queued one is dispatched ... *)
SelectDispatch(t) == view[t].st = "queued" /\ Select(t, "dispatch")
(* ... a running one without worker_task_id is left alone by a tick and      *)
(* queued again by the recovery.                                             *)
SelectUnbound(t) ==
    /\ pc = "loop" /\ t \in todo
    /\ view[t].st = "running" /\ view[t].wtask = None
    /\ LET new == IF mode = "recovery" THEN Requeued(view[t]) ELSE view[t]
       IN  IF Flushable(t, new)
           THEN /\ Commit(t, new)
                /\ todo' = todo \ {t} /\ view' = [view EXCEPT ![t] = NoRow]
                /\ UNCHANGED <<alive, nodes, histVars, pc, mode, cur, left, large,
                               finished, next>>
           ELSE Rollback
    /\ UNCHANGED <<job, delVars, faults>>

-----------------------------------------------------------------------------
(* The answer to GET /tasks/{worker_task_id}. *)

Polling == pc = "poll"
AskedJob == view[cur].wtask

(* The worker still has the job queued or running. *)
PollBusy == /\ Polling /\ job[AskedJob].st = "busy"
            /\ FinishTask(cur, view[cur])
            /\ UNCHANGED <<job, delVars, faults>>

(* No usable answer: a tick tries again later, the recovery queues again. *)
PollSilent ==
    /\ Polling /\ Fault
    /\ FinishTask(cur, IF mode = "recovery" THEN Requeued(view[cur]) ELSE view[cur])
    /\ UNCHANGED <<job, delVars>>

(* 404: the worker does not know the job.  A tick goes on to dispatch_queued_task *)
(* with the same object; the recovery leaves that to the first tick.              *)
PollNotFound ==
    /\ Polling /\ job[AskedJob].st = "gone"
    /\ LET v   == view[cur]
           new == IF v.prod THEN Detached(v) ELSE Requeued(v)
       IN  IF mode = "recovery" \/ v.prod
           THEN FinishTask(cur, new)
           ELSE IF Flushable(cur, new)
                THEN /\ Commit(cur, new)
                     /\ view' = [view EXCEPT ![cur] = new]
                     /\ pc' = "dispatch"
                     /\ UNCHANGED <<alive, nodes, histVars, mode, todo, cur, left,
                                    large, finished, next>>
                ELSE Rollback
    /\ UNCHANGED <<job, delVars, faults>>

PollSuccess == /\ Polling /\ job[AskedJob].st = "success"
               /\ OnWorkerSuccess(cur, view[cur])
               /\ UNCHANGED <<job, delVars, faults>>

PollError == /\ Polling /\ job[AskedJob].st = "error"
             /\ \E c \in {"failed", "unprocessable"} : OnWorkerError(cur, view[cur], c)
             /\ UNCHANGED <<job, delVars, faults>>

-----------------------------------------------------------------------------
(* dispatch_queued_task: pool state, timeout, source, then POST in turn. *)

Dispatching == pc = "dispatch"

(* Enabled nodes exist but their engines are unavailable. *)
DispatchWaiting ==
    /\ Dispatching /\ view[cur].kind = "transcribe" /\ nodes # {} /\ Fault
    /\ FinishTask(cur, [view[cur] EXCEPT !.rwt = TRUE])
    /\ UNCHANGED <<job, delVars>>

(* No candidate node: _maybe_timeout may fail the task, unless it once waited. *)
DispatchEmptyPool ==
    /\ Dispatching
    /\ IF nodes = {} THEN UNCHANGED faults ELSE Fault
    /\ \/ ~view[cur].rwt /\ FinishTask(cur, Failed(view[cur], "failed"))
       \/ FinishTask(cur, view[cur])
    /\ UNCHANGED <<job, delVars>>

DispatchSourceGone ==
    /\ Dispatching /\ nodes # {}
    /\ view[cur].src \notin alive
    /\ FinishTask(cur, Failed(view[cur], "source_deleted"))
    /\ UNCHANGED <<job, delVars, faults>>

(* A skill was deleted (not_found) or the text is too long. *)
DispatchUnfit ==
    /\ Dispatching /\ nodes # {} /\ view[cur].kind = "summarize"
    /\ view[cur].src \in alive
    /\ \E c \in {"failed", "unprocessable"} : FinishTask(cur, Failed(view[cur], c))
    /\ UNCHANGED <<job, delVars, faults>>

DispatchSend ==
    /\ Dispatching
    /\ view[cur].src \in alive
    /\ \E C \in SUBSET nodes \ {{}} : left' = C
    /\ large' = TRUE /\ pc' = "post"
    /\ UNCHANGED <<dbVars, histVars, job, mode, todo, view, cur, finished, next,
                   delVars, faults>>

Posting == pc = "post"

Created(j, t, st) == /\ job[j].st = "free"
                     /\ job' = [job EXCEPT ![j] = [st |-> st, task |-> t]]

(* 2xx with the job still to be done.  A body without a task id leaves       *)
(* worker_task_id NULL.                                                      *)
PostAccepted(n, j) ==
    /\ Posting /\ n \in left /\ Created(j, cur, "busy")
    /\ \E id \in {j} \cup (IF "anonymous" \in Ops THEN {None} ELSE {}) :
          FinishTask(cur, Dispatched(view[cur], n, id))
    /\ UNCHANGED <<delVars, faults>>

(* 2xx that already carries the result. *)
PostDone(n, j) ==
    /\ Posting /\ n \in left
    /\ \/ Created(j, cur, "success") /\ OnWorkerSuccess(cur, Dispatched(view[cur], n, j))
       \/ /\ Created(j, cur, "error")
          /\ \E c \in {"failed", "unprocessable"} :
                OnWorkerError(cur, Dispatched(view[cur], n, j), c)
    /\ UNCHANGED <<delVars, faults>>

(* The loop over the candidates: next node, or the end of this dispatch. *)
TryNext(n, v, tooLarge) ==
    IF left = {n}
    THEN FinishTask(cur, IF tooLarge THEN Failed(v, "unprocessable") ELSE v)
    ELSE IF Flushable(cur, v)
         THEN /\ Commit(cur, v) /\ view' = [view EXCEPT ![cur] = v]
              /\ left' = left \ {n} /\ large' = tooLarge
              /\ UNCHANGED <<alive, nodes, histVars, pc, mode, todo, cur, finished, next>>
         ELSE Rollback

(* Timeout or connection error; the worker may have taken the job anyway. *)
PostLost(n) ==
    /\ Posting /\ n \in left /\ Fault
    /\ UNCHANGED job \/ \E j \in Job : Created(j, cur, "busy")
    /\ TryNext(n, view[cur], FALSE)
    /\ UNCHANGED delVars

(* 503 queue_full, or engine_unavailable. *)
PostBusy(n) == /\ Posting /\ n \in left /\ Fault
               /\ TryNext(n, [view[cur] EXCEPT !.rwt = TRUE], FALSE)
               /\ UNCHANGED <<job, delVars>>

PostTooLarge(n) == /\ Posting /\ n \in left
                   /\ TryNext(n, view[cur], large)
                   /\ UNCHANGED <<job, delVars, faults>>

PostRejected(n) == /\ Posting /\ n \in left
                   /\ \E c \in {"failed", "unprocessable"} :
                         FinishTask(cur, Failed(view[cur], c))
                   /\ UNCHANGED <<job, delVars, faults>>

(* The audio file vanished with its row: open() raises out of the tick. *)
PostBlobGone == /\ Posting /\ view[cur].kind = "transcribe" /\ view[cur].src \notin alive
                /\ Rollback
                /\ UNCHANGED <<job, delVars, faults>>

(* _finish_worker_cleanup, then _dispatch_follow_up_task on the object that  *)
(* the session still holds.                                                  *)
Cleanup ==
    /\ pc = "cleanup"
    /\ \/ /\ job' = IF finished = None THEN job ELSE [job EXCEPT ![finished].st = "gone"]
          /\ UNCHANGED faults
       \/ finished # None /\ Fault /\ UNCHANGED job
    /\ IF next = None
       THEN BackToLoop
       ELSE /\ pc' = "dispatch" /\ cur' = next /\ next' = None /\ finished' = None
            /\ UNCHANGED <<mode, todo, left, large>>
    /\ UNCHANGED <<dbVars, histVars, view, delVars>>

-----------------------------------------------------------------------------
(* Endpoints.  Those that run in threads (DELETE of artifacts and nodes,     *)
(* purge) may run at any moment while the hub is up; those that run on the   *)
(* event loop (create, cancel, retry) only while the tick awaits something.  *)

Up == pc # "down"
AtAwait == pc \notin {"down", "loop", "dispatch"}
apiUnchanged == <<made, events, spawned, job, tickVars, faults>>

CreateTranscribe(t, a, skills) ==
    /\ AtAwait /\ row[t].st = "absent" /\ a \in alive \cap Audio
    /\ row' = [row EXCEPT ![t] = NewRow("transcribe", a, skills)]
    /\ UNCHANGED <<alive, nodes, delVars, apiUnchanged>>

CreateSummarize(t, p) ==
    /\ AtAwait /\ row[t].st = "absent" /\ p \in alive \cap Task
    /\ row' = [row EXCEPT ![t] = NewRow("summarize", p, FALSE)]
    /\ UNCHANGED <<alive, nodes, delVars, apiUnchanged>>

CancelTask(t) ==
    /\ AtAwait /\ "cancel" \in Ops
    /\ row[t].st = "queued" /\ row[t].wtask = None
    /\ row' = [row EXCEPT ![t] = Canceled(@)]
    /\ UNCHANGED <<alive, nodes, delVars, apiUnchanged>>

MutRetryTask(t) ==
    /\ AtAwait /\ "retry" \in Ops
    /\ row[t].code \notin NonRetriable
    /\ row[t].src \in alive
    /\ row' = [row EXCEPT ![t] = [Requeued(@) EXCEPT !.code = "none", !.prod = FALSE,
                                                     !.rwt = FALSE, !.skip = FALSE]]
    /\ UNCHANGED <<alive, nodes, delVars, apiUnchanged>>

(* Everything is reset, except `billed'. *)
RetryTask(t) ==
    /\ AtAwait /\ "retry" \in Ops
    /\ row[t].st = "error" /\ row[t].code \notin NonRetriable
    /\ row[t].src \in alive
    /\ row' = [row EXCEPT ![t] = [Requeued(@) EXCEPT !.code = "none", !.prod = FALSE,
                                                     !.rwt = FALSE, !.skip = FALSE]]
    /\ UNCHANGED <<alive, nodes, delVars, apiUnchanged>>

(* DELETE of an audio or a transcript runs in a worker thread: the tasks are *)
(* read in one step (cancel_queued_for_source) and written in another.       *)
DeleteRead(s) ==
    /\ Up /\ "delete" \in Ops /\ del = None /\ s \in alive
    /\ del' = s
    /\ plan' = [t \in Task |->
                  IF row[t].src # s \/ row[t].st \notin Active THEN "none"
                  ELSE IF row[t].st = "queued" /\ row[t].wtask = None THEN "cancel"
                  ELSE "skip"]
    /\ UNCHANGED <<row, alive, nodes, apiUnchanged>>

DeleteApply(r, t) ==
    LET q == IF plan[t] = "cancel" THEN Canceled(r)
             ELSE IF plan[t] = "skip" THEN [r EXCEPT !.skip = TRUE]
             ELSE r
    IN  [q EXCEPT !.src  = IF @ = del THEN None ELSE @,   \* ON DELETE SET NULL
                  !.prod = IF t = del THEN FALSE ELSE @]  \* _clear_task_produced_refs

DeleteCommit ==
    /\ del # None
    /\ del' = None /\ plan' = NoPlan
    /\ IF \E t \in Task : plan[t] # "none" /\ row[t].st = "purged"
       THEN UNCHANGED <<row, alive>>                      \* StaleDataError
       ELSE /\ row' = [t \in Task |-> DeleteApply(row[t], t)]
            /\ alive' = alive \ {del}
    /\ UNCHANGED <<nodes, apiUnchanged>>

(* purge_terminal_tasks, by an administrator or by age. *)
PurgeTask(t) ==
    /\ Up /\ "purge" \in Ops /\ row[t].st \in Terminal
    /\ row' = [row EXCEPT ![t] = PurgedRow]
    /\ UNCHANGED <<alive, nodes, delVars, apiUnchanged>>

(* DELETE of a worker node; prepare_worker_node_delete clears the references. *)
RemoveNode(n) ==
    /\ Up /\ "remove" \in Ops /\ n \in nodes
    /\ nodes' = nodes \ {n}
    /\ row' = [t \in Task |->
                 IF row[t].worker # n THEN row[t]
                 ELSE [row[t] EXCEPT !.worker = None,
                                     !.wtask = IF row[t].st = "running" THEN None ELSE @]]
    /\ UNCHANGED <<alive, delVars, apiUnchanged>>

-----------------------------------------------------------------------------
(* Workers, and the death of the hub process. *)

WorkerFinish(j) ==
    /\ job[j].st = "busy"
    /\ \E st \in {"success", "error"} : job' = [job EXCEPT ![j].st = st]
    /\ UNCHANGED <<dbVars, histVars, tickVars, delVars, faults>>

WorkerForget(j) ==
    /\ job[j].st \in {"busy", "success", "error"} /\ Fault
    /\ job' = [job EXCEPT ![j].st = "gone"]
    /\ UNCHANGED <<dbVars, histVars, tickVars, delVars>>

Crash == /\ Up /\ Fault
         /\ pc' = "down" /\ mode' = "tick" /\ todo' = {} /\ cur' = None
         /\ view' = [t \in Task |-> NoRow] /\ left' = {} /\ large' = FALSE
         /\ finished' = None /\ next' = None
         /\ del' = None /\ plan' = NoPlan
         /\ UNCHANGED <<dbVars, histVars, job>>

Restart == /\ pc = "down" /\ pc' = "boot"
           /\ UNCHANGED <<dbVars, histVars, job, mode, todo, view, cur, left, large,
                          finished, next, delVars, faults>>

-----------------------------------------------------------------------------
Init == /\ row = [t \in Task |-> NoRow]
        /\ alive = Audio /\ nodes = Node
        /\ made = [t \in Task |-> 0] /\ events = [t \in Task |-> 0]
        /\ spawned = [t \in Task |-> 0]
        /\ job = [j \in Job |-> [st |-> "free", task |-> None]]
        /\ pc = "boot" /\ mode = "tick" /\ todo = {} /\ cur = None
        /\ view = [t \in Task |-> NoRow] /\ left = {} /\ large = FALSE
        /\ finished = None /\ next = None
        /\ del = None /\ plan = NoPlan
        /\ faults = 0

(* Steps of the dispatcher itself. *)
Answer == \/ PollBusy \/ PollSilent \/ PollNotFound \/ PollSuccess \/ PollError
          \/ PostBlobGone
          \/ \E n \in Node : \/ PostLost(n) \/ PostBusy(n)
                             \/ PostTooLarge(n) \/ PostRejected(n)
                             \/ \E j \in Job : PostAccepted(n, j) \/ PostDone(n, j)
Dispatch == \/ DispatchWaiting \/ DispatchEmptyPool \/ DispatchSourceGone
            \/ DispatchUnfit \/ DispatchSend
Progress == \/ RecoverBegin \/ TickEnd \/ Dispatch \/ Answer \/ Cleanup
            \/ \E t \in Task : SelectPoll(t) \/ SelectDispatch(t) \/ SelectUnbound(t)

Api == \/ \E t \in Root : \/ \E a \in Audio, skills \in BOOLEAN : CreateTranscribe(t, a, skills)
                          \/ \E p \in Task : CreateSummarize(t, p)
       \/ \E t \in Task : CancelTask(t) \/ RetryTask(t) \/ PurgeTask(t)
       \/ \E s \in Source : DeleteRead(s)
       \/ DeleteCommit
       \/ \E n \in Node : RemoveNode(n)

Next == \/ TickAll \/ (\E t \in Task : TickOne(t)) \/ Progress
        \/ Api
        \/ \E j \in Job : WorkerFinish(j) \/ WorkerForget(j)
        \/ Crash \/ Restart

Spec == Init /\ [][Next]_vars

-----------------------------------------------------------------------------
(* Properties. *)

(* Every variable keeps its type; in particular a tick only ever holds       *)
(* registered task ids, nodes and jobs in its locals.                        *)
TypeOK ==
    /\ row \in [Task -> Row] /\ view \in [Task -> Row]
    /\ alive \subseteq Source /\ nodes \subseteq Node
    /\ made \in [Task -> Nat] /\ events \in [Task -> Nat] /\ spawned \in [Task -> Nat]
    /\ job \in [Job -> [st : {"free", "busy", "success", "error", "gone"},
                        task : Task \cup {None}]]
    /\ pc \in {"down", "boot", "idle", "loop", "poll", "dispatch", "post", "cleanup"}
    /\ mode \in {"tick", "recovery"}
    /\ todo \subseteq Task /\ cur \in Task \cup {None} /\ next \in Task \cup {None}
    /\ left \subseteq Node /\ large \in BOOLEAN /\ finished \in Job \cup {None}
    /\ del \in Source \cup {None} /\ plan \in [Task -> {"none", "cancel", "skip"}]
    /\ faults \in 0 .. MaxFaults

(* Retries, 404 redispatches, lost answers, restarts and concurrent edits of *)
(* the row never bill a task twice, and `billed' tells the truth about the   *)
(* usage events (apply_success_charge, dispatcher._charge).                  *)
BilledOnce ==
    \A t \in Task : /\ events[t] <= 1
                    /\ row[t].st # "purged" => (row[t].billed <=> events[t] = 1)

(* However often the work was handed out, a task stores at most one artifact,*)
(* and a success is stored, billed and detached from the worker              *)
(* (_persist_transcript, _persist_summary).                                  *)
OneArtifact ==
    \A t \in Task : /\ made[t] <= 1
                    /\ row[t].st = "success" => made[t] = 1 /\ events[t] = 1 /\ row[t].wtask = None

(* A transcribe task with skills enqueues its summarize task exactly when it *)
(* stores the transcript, and never twice                                    *)
(* (_enqueue_summarize_after_transcribe).                                    *)
FollowUpOnce ==
    \A t \in Root : /\ spawned[t] <= made[t]
                    /\ row[t].st = "success" /\ row[t].skills => spawned[t] = 1
                    /\ row[FollowUp(t)].st # "absent" <=> spawned[t] = 1

(* tasks.md: "running | Dispatched; worker_task_id set".  tick_once only     *)
(* polls running tasks that have one.                                        *)
RunningIsBound == \A t \in Task : row[t].st = "running" => row[t].wtask # None

(* Once the database says skip_persist, no artifact of that task is stored,  *)
(* although the tick may decide on a copy loaded before the flag was set.    *)
SkipHonoured == [][\A t \in Task : made'[t] # made[t] => ~row[t].skip]_vars

(* tasks.md: "error --> [*]".  What the user canceled is never queued, run   *)
(* or stored again.                                                          *)
CanceledIsFinal ==
    [][\A t \in Task : row[t].st = "error" /\ row[t].code = "canceled"
                          => row'[t].st \in {"error", "purged"}]_vars

(* billing.md: "Charges apply only on successful task completion". *)
ChargedOnlyOnSuccess ==
    [][\A t \in Task : events'[t] # events[t] => row'[t].st = "success"]_vars

-----------------------------------------------------------------------------
(* Fairness: the dispatcher loop always runs again (asyncio.Lock is FIFO, so *)
(* ticks for single tasks cannot lock it out), HTTP calls end by timeout,    *)
(* threads and workers finish what they started, the process is restarted.   *)
Fairness == /\ SF_vars(TickAll) /\ WF_vars(Progress) /\ WF_vars(Restart)
            /\ WF_vars(DeleteCommit)
            /\ \A j \in Job : WF_vars(WorkerFinish(j))
LiveSpec == Spec /\ Fairness

(* Every queued or running task reaches a terminal status. *)
EventuallyTerminal ==
    \A t \in Task : row[t].st \in Active ~> row[t].st \notin Active

-----------------------------------------------------------------------------
(* The inductive invariant behind BilledOnce, OneArtifact and FollowUpOnce.  *)

(* Tasks whose session copy the tick will still use. *)
Loaded == todo \cup (IF pc \in {"poll", "dispatch", "post"} THEN {cur} ELSE {})
               \cup (IF pc = "cleanup" /\ next # None THEN {next} ELSE {})

(* A task is looked at once per tick, and a tick outside the loop holds none. *)
LocalsOK == /\ pc \in {"poll", "dispatch", "post", "cleanup"} => cur \in Task /\ cur \notin todo
            /\ pc = "cleanup" => next \notin todo
            /\ pc \in {"down", "boot", "idle"} => todo = {}

(* A copy may be stale in its status, never in what decides a charge: other  *)
(* writers leave `billed' alone, and only this tick could store an artifact. *)
LoadedOK(t) == /\ row[t].st # "absent" /\ view[t].st \in Active /\ made[t] = 0
               /\ row[t].st # "purged" =>
                    /\ view[t].billed = row[t].billed
                    /\ view[t].skills = row[t].skills /\ view[t].kind = row[t].kind
                    /\ row[t].wtask \in {None, view[t].wtask}

(* A task that stored its artifact cannot become active again: it is a       *)
(* success, purged, or overwritten as canceled, which no retry accepts.      *)
RowOK(t) ==
    /\ made[t] <= 1 /\ events[t] <= 1
    /\ row[t].st # "purged" => (row[t].billed <=> events[t] = 1)
    /\ row[t].st = "absent" => ~row[t].billed /\ made[t] = 0
    /\ row[t].st = "success" => made[t] = 1 /\ events[t] = 1 /\ row[t].wtask = None
    /\ made[t] = 1 => \/ row[t].st \in {"success", "purged"}
                      \/ row[t].st = "error" /\ row[t].code = "canceled"
    /\ row[t].skills => row[t].kind = "transcribe" /\ t \in Root
    /\ plan[t] # "none" => row[t].st # "absent"

ChildOK(r) == /\ spawned[r] <= made[r]
              /\ row[FollowUp(r)].st # "absent" <=> spawned[r] = 1
              /\ row[r].st = "success" /\ row[r].skills => spawned[r] = 1

(* Whatever stale copy the tick works on, it never decides a charge or an    *)
(* artifact on a stale fact (dispatcher.tick_once, _on_transcribe_success).  *)
SettlementInv == /\ LocalsOK
                 /\ \A t \in Loaded : LoadedOK(t)
                 /\ \A t \in Task : RowOK(t)
                 /\ \A r \in Root : ChildOK(r)
=============================================================================
