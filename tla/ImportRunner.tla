---------------------------- MODULE ImportRunner ----------------------------
(***************************************************************************)
(* URL imports (app/services/import_runner.py).  An import task is started *)
(* by the dispatcher tick (maybe_start_import) and executed by a thread of *)
(* its own (_run_import_task) that downloads the URL, stores the file and  *)
(* creates the audio.  The thread works on one ORM object from beginning   *)
(* to end, `copy'; so does the tick, `view'.  The sets _active, _cancelled *)
(* and _bg_threads live in the process and are lost when it dies.          *)
(***************************************************************************)
EXTENDS Naturals, FiniteSets

CONSTANTS
    Task,       \* import tasks
    None,       \* no task
    Limit,      \* import_max_concurrent
    MaxFaults,  \* bound on process deaths
    MaxRetries, \* bound on POST /tasks/{id}/retry in one behaviour
    Ops         \* the optional operations an instance explores

ASSUME LimitAssumption == Limit \in Nat \ {0}
ASSUME BoundAssumption == MaxFaults \in Nat /\ MaxRetries \in Nat
ASSUME NoneAssumption == None \notin Task
ASSUME OpsAssumption == Ops \subseteq {"cancel", "purge"}

Status == {"absent", "queued", "running", "success", "error", "purged"}
Active == {"queued", "running"}

(* "refused" stands for the codes no retry accepts (payload_too_large,       *)
(* invalid_file, invalid_url, proxy_unavailable), "failed" for the others.   *)
Code == {"none", "canceled", "refused", "failed"}
NonRetriable == {"canceled", "refused"}

Row == [st : Status, code : Code]
NoRow == [st |-> "absent", code |-> "none"]

VARIABLES
    row,       \* table tasks
    audios,    \* audios a task ever created                     (history)
    spawned,   \* transcribe tasks it ever enqueued              (history)
    active,    \* _active
    cancelled, \* _cancelled
    bg,        \* _bg_threads
    thr,       \* where the thread of a task is, "none" without one
    copy,      \* the thread's ORM object
    pc,        \* the dispatcher: "down", "boot", "idle", "recovery" or "tick"
    todo,      \* tasks of this tick still to be looked at
    view,      \* the tick's ORM objects
    req,       \* task a DELETE request has read and not yet written, or None
    faults, retries

thrVars == <<active, cancelled, bg, thr, copy>>
tickVars == <<pc, todo, view>>
vars == <<row, audios, spawned, thrVars, tickVars, req, faults, retries>>

Working == {"begin", "download", "store"}

-----------------------------------------------------------------------------
(* A commit writes the columns that differ from what the session loaded. *)
Written(loaded, now, stored) == IF now # loaded THEN now ELSE stored
Merge(r, old, new) == [st   |-> Written(old.st, new.st, r.st),
                       code |-> Written(old.code, new.code, r.code)]

(* The row in the table is gone: an UPDATE raises StaleDataError. *)
Gone(t) == row[t].st = "purged"

MutFailed(c) == [st |-> c, code |-> c]
Failed(c) == [st |-> "error", code |-> c]

(* The thread goes to its finally clause. *)
Leave(t) == thr' = [thr EXCEPT ![t] = "leave"]

(* _fail_task on the object the thread holds.  If that raises, the handler   *)
(* reads the row again and finds none.                                       *)
FailHeld(t, c) ==
    /\ row' = IF Gone(t) THEN row
              ELSE [row EXCEPT ![t] = Merge(@, copy[t], Failed(c))]
    /\ Leave(t)

(* The except clauses: rollback, read the row again, _fail_task. *)
FailFresh(t, c) ==
    /\ row' = IF Gone(t) THEN row ELSE [row EXCEPT ![t] = Failed(c)]
    /\ Leave(t)

-----------------------------------------------------------------------------
(* The tick. *)

MutImportConcurrencyAvailable == Cardinality(active) <= Limit
ImportConcurrencyAvailable == Cardinality(active) < Limit

EventLoopFree == req = None   \* cancel_task does not await between read and write

Load(S, where) == /\ pc' = where /\ todo' = S
                  /\ view' = [t \in Task |-> IF t \in S THEN row[t] ELSE NoRow]
                  /\ UNCHANGED <<row, audios, spawned, thrVars, req, faults, retries>>

TickBegin == /\ pc = "idle" /\ EventLoopFree
             /\ Load({t \in Task : row[t].st \in Active}, "tick")

TickEnd == /\ pc = "tick" /\ todo = {} /\ pc' = "idle"
           /\ UNCHANGED <<row, audios, spawned, thrVars, todo, view, req, faults, retries>>

(* An exception leaves tick_once. *)
TickAbort == /\ pc' = "idle" /\ todo' = {}
             /\ view' = [t \in Task |-> NoRow]

MutBusy(t) == t \in active
Busy(t) == t \in active \/ t \in bg

(* maybe_start_import: nothing to do, or no free slot. *)
SkipImport(t) ==
    /\ pc = "tick" /\ EventLoopFree /\ t \in todo
    /\ view[t].st # "queued" \/ Busy(t) \/ ~ImportConcurrencyAvailable
    /\ IF Gone(t) /\ view[t].st = "queued" /\ ~Busy(t)
       THEN TickAbort                                   \* meta.stage is flushed
       ELSE todo' = todo \ {t} /\ UNCHANGED <<pc, view>>
    /\ UNCHANGED <<row, audios, spawned, thrVars, req, faults, retries>>

(* maybe_start_import: take a slot, commit, start the thread. *)
StartImport(t) ==
    /\ pc = "tick" /\ EventLoopFree /\ t \in todo
    /\ view[t].st = "queued" /\ ~Busy(t) /\ ImportConcurrencyAvailable
    /\ active' = active \cup {t}
    /\ IF Gone(t)
       THEN TickAbort /\ UNCHANGED <<row, bg, thr>>
       ELSE /\ row' = [row EXCEPT ![t].st = "running"]
            /\ bg' = bg \cup {t}
            /\ thr' = [thr EXCEPT ![t] = "begin"]
            /\ todo' = todo \ {t} /\ UNCHANGED <<pc, view>>
    /\ UNCHANGED <<audios, spawned, cancelled, copy, req, faults, retries>>

(* recover_orphaned_tasks reads the running tasks and, after asking the      *)
(* workers about the other kinds, queues the imports among them.             *)
RecoverBegin == /\ pc = "boot" /\ EventLoopFree
                /\ Load({t \in Task : row[t].st = "running"}, "recovery")

MutQueueAgain(t) == row[t]
QueueAgain(t) == IF t \in todo THEN [row[t] EXCEPT !.st = "queued"] ELSE row[t]

RecoverCommit ==
    /\ pc = "recovery" /\ EventLoopFree
    /\ row' = IF \E t \in todo : Gone(t) THEN row
              ELSE [t \in Task |-> QueueAgain(t)]
    /\ TickAbort
    /\ UNCHANGED <<audios, spawned, thrVars, req, faults, retries>>

-----------------------------------------------------------------------------
(* The thread. *)

threadUnchanged == <<active, cancelled, bg, tickVars, req, faults, retries>>

(* The task is not running any more: return. *)
ThreadNothing(t) ==
    /\ thr[t] = "begin" /\ row[t].st # "running"
    /\ Leave(t)
    /\ UNCHANGED <<row, audios, spawned, copy, threadUnchanged>>

(* import_disabled, invalid_url, not_found, proxy_unavailable. *)
ThreadRefuse(t) ==
    /\ thr[t] = "begin" /\ row[t].st = "running"
    /\ \E c \in {"failed", "refused"} : FailFresh(t, c)
    /\ UNCHANGED <<audios, spawned, copy, threadUnchanged>>

ThreadDownload(t) ==
    /\ thr[t] = "begin" /\ row[t].st = "running"
    /\ copy' = [copy EXCEPT ![t] = row[t]]
    /\ thr' = [thr EXCEPT ![t] = "download"]
    /\ UNCHANGED <<row, audios, spawned, threadUnchanged>>

(* is_canceled is polled during the download, and once more after it. *)
DownloadCanceled(t) ==
    /\ thr[t] = "download" /\ t \in cancelled
    /\ FailFresh(t, "canceled") \/ FailHeld(t, "canceled")
    /\ UNCHANGED <<audios, spawned, copy, threadUnchanged>>

DownloadFailed(t) ==
    /\ thr[t] = "download"
    /\ \E c \in {"failed", "refused"} : FailFresh(t, c)
    /\ UNCHANGED <<audios, spawned, copy, threadUnchanged>>

DownloadDone(t) ==
    /\ thr[t] = "download" /\ t \notin cancelled
    /\ thr' = [thr EXCEPT ![t] = "store"]
    /\ UNCHANGED <<row, audios, spawned, copy, threadUnchanged>>

(* PayloadTooLarge and InvalidAudioContent; anything else reads again. *)
StoreFailed(t) ==
    /\ thr[t] = "store"
    /\ FailHeld(t, "refused") \/ FailFresh(t, "failed")
    /\ UNCHANGED <<audios, spawned, copy, threadUnchanged>>

(* enqueue_transcribe_after_ingest: only with pipeline_transcribe and only   *)
(* with a positive balance.                                                  *)
EnqueueTranscribe(t) == \/ spawned' = [spawned EXCEPT ![t] = @ + 1]
                        \/ UNCHANGED spawned

(* Audio, success and follow-up in one commit. *)
StoreDone(t) ==
    /\ thr[t] = "store"
    /\ IF Gone(t)
       THEN UNCHANGED <<row, audios, spawned>>
       ELSE /\ row' = [row EXCEPT ![t] =
                          Merge(@, copy[t], [st |-> "success", code |-> "none"])]
            /\ audios' = [audios EXCEPT ![t] = @ + 1]
            /\ EnqueueTranscribe(t)
    /\ Leave(t)
    /\ UNCHANGED <<copy, threadUnchanged>>

(* finally: the flags first, the table of threads last. *)
ThreadLeave(t) ==
    /\ thr[t] = "leave"
    /\ active' = active \ {t} /\ cancelled' = cancelled \ {t}
    /\ thr' = [thr EXCEPT ![t] = "last"]
    /\ UNCHANGED <<row, audios, spawned, bg, copy, tickVars, req, faults, retries>>

ThreadLast(t) ==
    /\ thr[t] = "last"
    /\ bg' = bg \ {t}
    /\ thr' = [thr EXCEPT ![t] = "none"]
    /\ copy' = [copy EXCEPT ![t] = NoRow]
    /\ UNCHANGED <<row, audios, spawned, active, cancelled, tickVars, req, faults, retries>>

Thread(t) == \/ ThreadNothing(t) \/ ThreadRefuse(t) \/ ThreadDownload(t)
             \/ DownloadCanceled(t) \/ DownloadFailed(t) \/ DownloadDone(t)
             \/ StoreFailed(t) \/ StoreDone(t) \/ ThreadLeave(t) \/ ThreadLast(t)

-----------------------------------------------------------------------------
(* Endpoints, and the death of the process. *)

Up == pc # "down"

CreateImport(t) ==
    /\ Up /\ EventLoopFree /\ row[t].st = "absent"
    /\ row' = [row EXCEPT ![t].st = "queued"]
    /\ UNCHANGED <<audios, spawned, thrVars, tickVars, req, faults, retries>>

(* DELETE /tasks/{id}: the row is read and checked, the flag raised ... *)
CancelRead(t) ==
    /\ Up /\ EventLoopFree /\ "cancel" \in Ops /\ row[t].st \in Active
    /\ req' = t /\ cancelled' = cancelled \cup {t}
    /\ UNCHANGED <<row, audios, spawned, active, bg, thr, copy, tickVars, faults, retries>>

(* ... and the row written; the import's thread may have moved on meanwhile. *)
CancelCommit ==
    /\ req # None
    /\ row' = IF Gone(req) THEN row ELSE [row EXCEPT ![req] = Failed("canceled")]
    /\ req' = None
    /\ UNCHANGED <<audios, spawned, thrVars, tickVars, faults, retries>>

MutRetryTask(t) ==
    /\ Up /\ EventLoopFree /\ retries < MaxRetries
    /\ row[t].code \notin NonRetriable
    /\ row' = [row EXCEPT ![t] = [st |-> "queued", code |-> "none"]]
    /\ retries' = retries + 1
    /\ UNCHANGED <<audios, spawned, thrVars, tickVars, req, faults>>

RetryTask(t) ==
    /\ Up /\ EventLoopFree /\ retries < MaxRetries
    /\ row[t].st = "error" /\ row[t].code \notin NonRetriable
    /\ row' = [row EXCEPT ![t] = [st |-> "queued", code |-> "none"]]
    /\ retries' = retries + 1
    /\ UNCHANGED <<audios, spawned, thrVars, tickVars, req, faults>>

(* purge_terminal_tasks. *)
PurgeTask(t) ==
    /\ Up /\ "purge" \in Ops /\ row[t].st \in {"success", "error"}
    /\ row' = [row EXCEPT ![t] = [st |-> "purged", code |-> "none"]]
    /\ UNCHANGED <<audios, spawned, thrVars, tickVars, req, faults, retries>>

Crash == /\ Up /\ faults < MaxFaults /\ faults' = faults + 1
         /\ pc' = "down" /\ todo' = {} /\ view' = [t \in Task |-> NoRow]
         /\ active' = {} /\ cancelled' = {} /\ bg' = {} /\ req' = None
         /\ thr' = [t \in Task |-> "none"] /\ copy' = [t \in Task |-> NoRow]
         /\ UNCHANGED <<row, audios, spawned, retries>>

Restart == /\ pc = "down" /\ pc' = "boot"
           /\ UNCHANGED <<row, audios, spawned, thrVars, todo, view, req, faults, retries>>

-----------------------------------------------------------------------------
Init == /\ row = [t \in Task |-> NoRow]
        /\ audios = [t \in Task |-> 0] /\ spawned = [t \in Task |-> 0]
        /\ active = {} /\ cancelled = {} /\ bg = {}
        /\ thr = [t \in Task |-> "none"] /\ copy = [t \in Task |-> NoRow]
        /\ pc = "boot" /\ todo = {} /\ view = [t \in Task |-> NoRow]
        /\ req = None /\ faults = 0 /\ retries = 0

Tick == \/ TickEnd \/ RecoverBegin \/ RecoverCommit
        \/ \E t \in Task : SkipImport(t) \/ StartImport(t)

Api == \/ \E t \in Task : CreateImport(t) \/ CancelRead(t) \/ RetryTask(t) \/ PurgeTask(t)
       \/ CancelCommit

Next == TickBegin \/ Tick \/ (\E t \in Task : Thread(t)) \/ Api \/ Crash \/ Restart

Spec == Init /\ [][Next]_vars

-----------------------------------------------------------------------------
(* Properties. *)

(* Every variable keeps its type. *)
TypeOK == /\ row \in [Task -> Row] /\ copy \in [Task -> Row] /\ view \in [Task -> Row]
          /\ audios \in [Task -> Nat] /\ spawned \in [Task -> Nat]
          /\ active \subseteq Task /\ cancelled \subseteq Task /\ bg \subseteq Task
          /\ thr \in [Task -> Working \cup {"none", "leave", "last"}]
          /\ pc \in {"down", "boot", "idle", "recovery", "tick"}
          /\ todo \subseteq Task /\ req \in Task \cup {None}
          /\ faults \in 0 .. MaxFaults /\ retries \in 0 .. MaxRetries

(* A task never has two threads, even when it is retried while its first     *)
(* thread is still in its finally clause (maybe_start_import).               *)
NoSecondThread == [][\A t \in Task : thr'[t] = "begin" => thr[t] \in {"none", "begin"}]_vars

(* import_max_concurrent bounds the threads that download or store.          *)
AtMostLimit == Cardinality({t \in Task : thr[t] \in Working}) <= Limit

(* However often an import is retried, or restarted by a recovery, it yields *)
(* at most one audio and one transcribe task, and a success has its audio    *)
(* (_run_import_task).                                                       *)
OneAudio == \A t \in Task : /\ audios[t] <= 1 /\ spawned[t] <= audios[t]
                            /\ row[t].st = "success" => audios[t] = 1

(* api/tasks.md on DELETE of an import in queued or running:                 *)
(* "Success: status: "error", error.code: "canceled"": what was canceled     *)
(* does not turn into a success with an audio in the library.                *)
CanceledStays ==
    [][\A t \in Task : row[t].st = "error" /\ row[t].code = "canceled"
                          => row'[t].st # "success"]_vars

-----------------------------------------------------------------------------
(* Fairness: the dispatcher loop ticks again and again, a download ends by   *)
(* itself or by its timeout, request handlers finish, the process restarts.  *)
Fairness == /\ WF_vars(TickBegin) /\ WF_vars(Tick) /\ WF_vars(Restart)
            /\ WF_vars(CancelCommit)
            /\ \A t \in Task : WF_vars(Thread(t))
LiveSpec == Spec /\ Fairness

(* A slot of _active that no thread will give back: maybe_start_import took  *)
(* it and then raised, because the task had been purged.                     *)
SlotLeaked == \E t \in active : thr[t] = "none"

(* As long as no slot leaks, every import reaches a terminal status, however *)
(* it is interrupted, retried or kept waiting for a slot.                    *)
EventuallyTerminal ==
    \A t \in Task : row[t].st \in Active ~> (row[t].st \notin Active \/ SlotLeaked)
=============================================================================
