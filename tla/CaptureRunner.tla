--------------------------- MODULE CaptureRunner ----------------------------
(***************************************************************************)
(* Meeting captures (app/services/capture_runner.py).  A capture task has  *)
(* a thread (_run_capture_task) that posts the meeting to a worker, polls  *)
(* it, downloads the recording and creates the audio.  The dispatcher tick *)
(* also looks at every running capture (try_finish_capture_task) and may   *)
(* persist the recording itself; a lock per task decides who does.  Thread *)
(* and tick each work on an ORM object of their own, `obj', which they     *)
(* refresh at the points where the code calls db.refresh.                  *)
(***************************************************************************)
EXTENDS Naturals, FiniteSets

CONSTANTS
    Task, Job,  \* capture tasks, and the ids the workers can hand out
    None,
    Slots,      \* captures the workers can run at once
    Pool,       \* whether /health reports workers.available
    MaxFaults,  \* bound on crashes and failed calls
    Ops         \* the optional operations an instance explores

Actor == {"thread", "tick"}

ASSUME SlotsAssumption == Slots \in Nat \ {0} /\ Pool \in BOOLEAN /\ MaxFaults \in Nat
ASSUME NoneAssumption == None \notin Task \cup Job \cup Actor
ASSUME OpsAssumption == Ops \subseteq {"cancel", "stop", "rebind"}

Status == {"absent", "queued", "running", "success", "error"}
Active == {"queued", "running"}

(* meta.stage; "accepted" is stage capturing while the worker says queued.   *)
Stage == {"queued", "joining", "accepted", "capturing", "finalizing", "downloading",
          "done", "error"}
DispatchedStages == {"joining", "accepted", "capturing", "finalizing", "downloading"}

Row == [st : Status, code : {"none", "canceled", "no_worker", "failed"}, audio : BOOLEAN,
        bound : BOOLEAN, wtask : Job \cup {None}, meta : [stage : Stage, stop : BOOLEAN]]
NoRow == [st |-> "absent", code |-> "none", audio |-> FALSE, bound |-> FALSE,
          wtask |-> None, meta |-> [stage |-> "queued", stop |-> FALSE]]

VARIABLES
    row,       \* table tasks
    audios,    \* audios a task ever created                     (history)
    job,       \* state of every worker job
    free,      \* what the last /health said about capacity
    cancelled, stopping,  \* _cancelled, _stop_requested
    at,        \* where thread and tick are with a task
    obj,       \* their ORM objects
    lock,      \* holder of a task's persist lock, or None
    pc,        \* the dispatcher: "down", "boot", "recovery", "idle" or "tick"
    req,       \* a DELETE request between its read and its write, or None
    faults

memVars == <<cancelled, stopping>>
actVars == <<at, obj, lock>>
vars == <<row, audios, job, free, memVars, actVars, pc, req, faults>>

Fault == faults < MaxFaults /\ faults' = faults + 1
NoFault == UNCHANGED faults

-----------------------------------------------------------------------------
(* A commit writes the columns that differ from what the session loaded;     *)
(* meta_json is one column.                                                  *)
Written(loaded, now, stored) == IF now # loaded THEN now ELSE stored
Merge(r, old, new) ==
    [c \in DOMAIN r |-> Written(old[c], new[c], r[c])]
Commit(a, t, new) == /\ row' = [row EXCEPT ![t] = Merge(@, obj[a][t], new)]
                     /\ obj' = [obj EXCEPT ![a][t] = new]

Goto(a, t, where) == at' = [at EXCEPT ![a][t] = where]

MutFailedRow(v, c) == [v EXCEPT !.st = c, !.code = c, !.meta.stage = "error"]
FailedRow(v, c) == [v EXCEPT !.st = "error", !.code = c, !.meta.stage = "error"]

(* Where an actor goes when it is done with a task: the thread to its        *)
(* finally clause, the tick to maybe_start_capture.                          *)
Exit(a) == IF a = "thread" THEN "leave" ELSE "start"

Alive(t) == at["thread"][t] # "none"
Pending(a, t) == t \in stopping \/ obj[a][t].meta.stop   \* capture_stop_pending

LiveJob == {"queued", "capturing", "finalizing", "ready"}
Ready(j) == job[j] = "ready"      \* _artifact_ready_in_poll

(* forward_capture_stop: the worker finalizes; a failed call is only logged. *)
ForwardStop(j) ==
    \/ /\ job' = [job EXCEPT ![j] = IF @ \in {"queued", "capturing"} THEN "finalizing" ELSE @]
       /\ NoFault
    \/ UNCHANGED job /\ Fault

(* forward_capture_cancel and delete_capture_task. *)
DeleteJob(j) == \/ job' = [job EXCEPT ![j] = "gone"] /\ NoFault
                \/ UNCHANGED job /\ Fault

(* _fail_task on the object an actor holds, or (handler of exceptions) on a  *)
(* row read again.                                                           *)
Fail(a, t, c) == Commit(a, t, FailedRow(obj[a][t], c)) /\ Goto(a, t, Exit(a))
FailFresh(t, c) == /\ row' = [row EXCEPT ![t] = FailedRow(@, c)]
                   /\ obj' = [obj EXCEPT !["thread"][t] = FailedRow(row[t], c)]
                   /\ Goto("thread", t, "leave")

-----------------------------------------------------------------------------
(* Capacity. *)

Now == Cardinality({j \in Job : job[j] \in LiveJob \ {"ready"}}) < Slots

HeldByOther(t) == \E q \in Task \ {t} : row[q].bound /\ (row[q].st = "running" \/ Alive(q))

(* capture_worker_capacity_available, for the task as its caller holds it:   *)
(* a task without a node has none.                                           *)
Capacity(t, v) == v.bound /\ free /\ (Pool \/ ~HeldByOther(t))

-----------------------------------------------------------------------------
(* The tick. *)

(* No event-loop step may run while another one is between two awaits.       *)
TickInStride(t) == at["tick"][t] \in {"enter", "start"}
RequestInStride == IF req = None THEN FALSE ELSE req.sync
EventLoopFree == /\ pc # "down" /\ ~RequestInStride
                 /\ \A t \in Task : ~TickInStride(t)
Turn(t) == /\ ~RequestInStride
           /\ \A q \in Task \ {t} : at["tick"][q] \in {"none", "todo"}

Load(S) == /\ at' = [at EXCEPT !["tick"] = [t \in Task |-> IF t \in S THEN "todo" ELSE "none"]]
           /\ obj' = [obj EXCEPT !["tick"] = [t \in Task |-> row[t]]]

tickUnchanged == <<memVars, free, req>>

(* The health of the nodes is refreshed at most every few seconds. *)
TickBegin ==
    /\ pc = "idle" /\ EventLoopFree
    /\ pc' = "tick"
    /\ \/ free' = (IF Pool THEN Now ELSE TRUE) /\ NoFault
       \/ UNCHANGED <<free, faults>>
       \/ free' = FALSE /\ Fault
    /\ Load({t \in Task : row[t].st \in Active})
    /\ UNCHANGED <<row, audios, job, memVars, lock, req>>

TickEnd == /\ pc = "tick" /\ \A t \in Task : at["tick"][t] = "none"
           /\ pc' = "idle"
           /\ UNCHANGED <<row, audios, job, free, memVars, actVars, req, faults>>

(* try_finish_capture_task: nothing to ask about, or GET the worker's job. *)
TickLook(t) ==
    /\ pc = "tick" /\ Turn(t) /\ at["tick"][t] = "todo"
    /\ LET v == obj["tick"][t]
       IN  Goto("tick", t, IF v.st = "running" /\ ~v.audio /\ v.wtask # None /\ v.bound
                           THEN "ask" ELSE "start")
    /\ UNCHANGED <<row, audios, job, obj, lock, pc, tickUnchanged, faults>>

(* Worker status to stage, as the hub shows it. *)
StageOf(s) == CASE s = "queued" -> "accepted" [] s = "capturing" -> "capturing"
                [] s = "ready" -> "downloading" [] OTHER -> "finalizing"

TickAnswer(t) ==
    /\ pc = "tick" /\ Turn(t) /\ at["tick"][t] = "ask"
    /\ LET v == obj["tick"][t]
           s == job[v.wtask]
       IN  \/ /\ s = "ready" /\ Goto("tick", t, "enter") /\ NoFault
              /\ UNCHANGED <<row, obj>>
           \/ /\ s \in {"queued", "capturing", "finalizing"} /\ NoFault
              /\ Commit("tick", t, [v EXCEPT !.meta.stage = StageOf(s)])
              /\ Goto("tick", t, "start")
           \/ /\ IF s \in {"error", "gone", "canceled"} THEN NoFault ELSE Fault
              /\ Goto("tick", t, "start") /\ UNCHANGED <<row, obj>>
    /\ UNCHANGED <<audios, job, lock, pc, tickUnchanged>>

MutMaybeStartCapture(t) ==
    /\ pc = "tick" /\ Turn(t) /\ at["tick"][t] = "start"
    /\ LET v == obj["tick"][t]
       IN  IF v.st \notin Active \/ v.audio
           THEN Goto("tick", t, "none") /\ UNCHANGED <<row, obj>>
           ELSE /\ Commit("tick", t, [v EXCEPT !.st = "running"])
                /\ at' = [at EXCEPT !["tick"][t] = "none", !["thread"][t] = "begin"]
    /\ UNCHANGED <<audios, job, lock, pc, tickUnchanged, faults>>

(* maybe_start_capture, on the object loaded when the tick began. *)
MaybeStartCapture(t) ==
    /\ pc = "tick" /\ Turn(t) /\ at["tick"][t] = "start"
    /\ LET v == obj["tick"][t]
       IN  IF v.st \notin Active \/ v.audio \/ Alive(t)
           THEN Goto("tick", t, "none") /\ UNCHANGED <<row, obj>>
           ELSE IF ~Capacity(t, v)
           THEN /\ Commit("tick", t, FailedRow(v, "no_worker"))
                /\ Goto("tick", t, "none")
           ELSE /\ Commit("tick", t, IF v.st = "queued"
                                     THEN [v EXCEPT !.st = "running", !.meta.stage = "queued"]
                                     ELSE v)
                /\ at' = [at EXCEPT !["tick"][t] = "none", !["thread"][t] = "begin"]
    /\ UNCHANGED <<audios, job, lock, pc, tickUnchanged, faults>>

-----------------------------------------------------------------------------
(* recover_capture_task, once per process, before the first tick. *)

RecoverBegin == /\ pc = "boot" /\ EventLoopFree /\ pc' = "recovery"
                /\ Load({t \in Task : row[t].st = "running"})
                /\ UNCHANGED <<row, audios, job, free, memVars, lock, req, faults>>

RecoverEnd == /\ pc = "recovery" /\ \A t \in Task : at["tick"][t] = "none"
              /\ pc' = "idle"
              /\ UNCHANGED <<row, audios, job, free, memVars, actVars, req, faults>>

(* _lose_capture_worker_link *)
LoseLink(v) == IF v.meta.stage \in DispatchedStages THEN FailedRow(v, "failed")
               ELSE [v EXCEPT !.st = "queued", !.bound = FALSE, !.wtask = None,
                              !.meta.stage = "queued"]

Recover(t) ==
    /\ pc = "recovery" /\ Turn(t) /\ at["tick"][t] = "todo"
    /\ LET v == obj["tick"][t]
           s == job[v.wtask]
       IN  \/ /\ v.wtask = None \/ ~v.bound
              /\ Commit("tick", t, LoseLink(v)) /\ UNCHANGED job /\ NoFault
           \/ /\ v.wtask # None /\ v.bound /\ Fault             \* unreachable: keep running
              /\ UNCHANGED <<row, obj, job>>
           \/ /\ v.wtask # None /\ v.bound /\ s = "gone"
              /\ Commit("tick", t, LoseLink(v)) /\ UNCHANGED job /\ NoFault
           \/ /\ v.wtask # None /\ v.bound /\ s = "error"
              /\ Commit("tick", t, FailedRow(v, "failed")) /\ UNCHANGED job /\ NoFault
           \/ /\ v.wtask # None /\ v.bound /\ s = "canceled"
              /\ Commit("tick", t, IF Pending("tick", t) THEN [v EXCEPT !.meta.stage = "finalizing"]
                                   ELSE FailedRow(v, "canceled"))
              /\ UNCHANGED job /\ NoFault
           \/ /\ v.wtask # None /\ v.bound /\ s \in LiveJob
              /\ IF Pending("tick", t) /\ s # "ready"
                 THEN /\ ForwardStop(v.wtask)
                      /\ Commit("tick", t, [v EXCEPT !.meta.stage = "finalizing"])
                 ELSE /\ Commit("tick", t, [v EXCEPT !.meta.stage = StageOf(s)])
                      /\ UNCHANGED job /\ NoFault
    /\ Goto("tick", t, "none")
    /\ UNCHANGED <<audios, lock, pc, tickUnchanged>>

-----------------------------------------------------------------------------
(* _persist_capture_artifact, by the thread or by the tick. *)

persistUnchanged == <<job, free, memVars, pc, req, faults>>
MyTurn(a, t) == a = "thread" \/ Turn(t)

MutPersistEnter(a, t) ==
    /\ MyTurn(a, t) /\ at[a][t] = "enter"
    /\ IF row[t].audio \/ row[t].st # "running"
       THEN /\ obj' = [obj EXCEPT ![a][t] = row[t]]
            /\ Goto(a, t, Exit(a)) /\ UNCHANGED <<row, lock>>
       ELSE /\ row' = [row EXCEPT ![t].meta.stage = "downloading"]
            /\ obj' = [obj EXCEPT ![a][t] = row'[t]]
            /\ Goto(a, t, "download") /\ UNCHANGED lock
    /\ UNCHANGED <<audios, persistUnchanged>>

(* Take the lock, refresh, and go on only with a task that still runs. *)
PersistEnter(a, t) ==
    /\ MyTurn(a, t) /\ at[a][t] = "enter" /\ lock[t] = None
    /\ IF row[t].audio \/ row[t].st # "running"
       THEN /\ obj' = [obj EXCEPT ![a][t] = row[t]]
            /\ Goto(a, t, Exit(a)) /\ UNCHANGED <<row, lock>>
       ELSE /\ row' = [row EXCEPT ![t].meta.stage = "downloading"]
            /\ obj' = [obj EXCEPT ![a][t] = row'[t]]
            /\ Goto(a, t, "download") /\ lock' = [lock EXCEPT ![t] = a]
    /\ UNCHANGED <<audios, persistUnchanged>>

(* The recording could not be fetched or stored. *)
PersistFail(a, t) ==
    /\ MyTurn(a, t) /\ at[a][t] \in {"download", "save"}
    /\ Fail(a, t, "failed")
    /\ lock' = [lock EXCEPT ![t] = None]
    /\ UNCHANGED <<audios, persistUnchanged>>

MutPersistRaise(a, t) ==
    /\ MyTurn(a, t) /\ at[a][t] \in {"download", "save"} /\ Fault
    /\ UNCHANGED lock
    /\ IF a = "thread"
       THEN FailFresh(t, "failed") /\ UNCHANGED pc
       ELSE Load({}) /\ pc' = "idle" /\ UNCHANGED row
    /\ UNCHANGED <<audios, job, free, memVars, req>>

(* A call or the storage raised: the thread's handler fails the task, the    *)
(* tick is over for every task.                                              *)
PersistRaise(a, t) ==
    /\ MyTurn(a, t) /\ at[a][t] \in {"download", "save"} /\ Fault
    /\ lock' = [lock EXCEPT ![t] = None]
    /\ IF a = "thread"
       THEN FailFresh(t, "failed") /\ UNCHANGED pc
       ELSE Load({}) /\ pc' = "idle" /\ UNCHANGED row
    /\ UNCHANGED <<audios, job, free, memVars, req>>

(* Fetched: refresh once more before the file is stored. *)
PersistFetched(a, t) ==
    /\ MyTurn(a, t) /\ at[a][t] = "download"
    /\ obj' = [obj EXCEPT ![a][t] = row[t]]
    /\ IF row[t].audio \/ row[t].st # "running"
       THEN Goto(a, t, Exit(a)) /\ lock' = [lock EXCEPT ![t] = None]
       ELSE Goto(a, t, "save") /\ UNCHANGED lock
    /\ UNCHANGED <<row, audios, persistUnchanged>>

(* Stored: audio, success and follow-up in one commit. *)
PersistSaved(a, t) ==
    /\ MyTurn(a, t) /\ at[a][t] = "save"
    /\ Commit(a, t, [obj[a][t] EXCEPT !.st = "success", !.code = "none", !.audio = TRUE,
                                      !.meta.stage = "done"])
    /\ audios' = [audios EXCEPT ![t] = @ + 1]
    /\ Goto(a, t, Exit(a)) /\ lock' = [lock EXCEPT ![t] = None]
    /\ UNCHANGED persistUnchanged

-----------------------------------------------------------------------------
(* The thread. *)

threadUnchanged == <<audios, free, memVars, lock, pc, req>>

(* The checks before the POST; capture_disabled and unresolvable targets.    *)
ThreadQuit(t) ==
    /\ at["thread"][t] = "begin"
    /\ IF row[t].st # "running" \/ row[t].audio
       THEN Goto("thread", t, "leave") /\ UNCHANGED <<row, obj>>
       ELSE FailFresh(t, IF t \in cancelled THEN "canceled" ELSE "failed")
    /\ UNCHANGED <<job, threadUnchanged, faults>>

(* _bind_capture_worker: keep the node while it has capacity, else pick one  *)
(* again and forget the job there.                                           *)
Bind(t, v) == /\ v.st = "running" /\ ~v.audio /\ t \notin cancelled
              /\ Capacity(t, v) \/ "rebind" \in Ops

ThreadPost(t) ==
    /\ at["thread"][t] = "begin" /\ Bind(t, row[t])
    /\ row[t].wtask = None \/ ~Capacity(t, row[t])
    /\ row' = [row EXCEPT ![t].bound = TRUE, ![t].wtask = None, ![t].meta.stage = "joining"]
    /\ obj' = [obj EXCEPT !["thread"][t] = row'[t]]
    /\ Goto("thread", t, "post")
    /\ UNCHANGED <<job, threadUnchanged, faults>>

(* A worker job exists already: go on polling it. *)
ThreadResume(t) ==
    /\ at["thread"][t] = "begin" /\ Bind(t, row[t])
    /\ row[t].wtask # None /\ Capacity(t, row[t])
    /\ IF t \in stopping \/ row[t].meta.stop
       THEN /\ ForwardStop(row[t].wtask)
            /\ row' = [row EXCEPT ![t].meta.stage = "finalizing"]
       ELSE UNCHANGED <<row, job>> /\ NoFault
    /\ obj' = [obj EXCEPT !["thread"][t] = row'[t]]
    /\ Goto("thread", t, "loop")
    /\ UNCHANGED threadUnchanged

(* post_capture answered; a stop that came meanwhile is forwarded at once.   *)
PostAccepted(t, j) ==
    /\ at["thread"][t] = "post" /\ job[j] = "free"
    /\ LET v == [obj["thread"][t] EXCEPT !.wtask = j, !.meta.stage =
                    IF Pending("thread", t) THEN "finalizing" ELSE "accepted"]
           s == IF Pending("thread", t) THEN {"finalizing"} ELSE {"queued", "capturing"}
       IN  /\ Commit("thread", t, v)
           /\ \E st \in s : job' = [job EXCEPT ![j] = st]
    /\ Goto("thread", t, "loop")
    /\ UNCHANGED <<threadUnchanged, faults>>

(* Canceled just before the POST, refused, timed out or answered with an     *)
(* error; after a timeout the worker may well be recording.                  *)
PostFailed(t) ==
    /\ at["thread"][t] = "post"
    /\ \E c \in {"failed"} \cup {x \in {"canceled"} : t \in cancelled} : Fail("thread", t, c)
    /\ \/ UNCHANGED job /\ NoFault
       \/ /\ Fault
          /\ \E j \in Job : job[j] = "free" /\ job' = [job EXCEPT ![j] = "capturing"]
    /\ UNCHANGED threadUnchanged

(* Top of the loop: refresh, look at the cancel flag, GET the job. *)
LoopTop(t) ==
    /\ at["thread"][t] = "loop"
    /\ obj' = [obj EXCEPT !["thread"][t] = row[t]]
    /\ Goto("thread", t, IF t \in cancelled THEN "salvage" ELSE "ask")
    /\ UNCHANGED <<row, job, threadUnchanged, faults>>

Held(t) == obj["thread"][t].wtask

(* Canceled: a finished recording ends the loop, any other job is deleted.   *)
Salvage(t) ==
    /\ at["thread"][t] = "salvage"
    /\ IF Ready(Held(t))
       THEN /\ Goto("thread", t, "after") /\ NoFault
            /\ UNCHANGED <<row, obj, job>>
       ELSE DeleteJob(Held(t)) /\ Fail("thread", t, "canceled")
    /\ UNCHANGED threadUnchanged

(* The call itself failed: the handler of exceptions reads the row again.    *)
AskFailed(t) ==
    /\ at["thread"][t] \in {"ask", "salvage"} /\ Fault
    /\ FailFresh(t, "failed")
    /\ UNCHANGED <<job, threadUnchanged>>

AskActive(t) ==
    /\ at["thread"][t] = "ask"
    /\ LET v == obj["thread"][t]
           s == job[Held(t)]
           stop == Pending("thread", t)
       IN  /\ s \in {"queued", "capturing", "finalizing"}
           /\ IF stop /\ s # "finalizing" THEN ForwardStop(Held(t)) ELSE UNCHANGED job /\ NoFault
           /\ \/ /\ Commit("thread", t, [v EXCEPT !.meta.stage = IF stop THEN "finalizing"
                                                                ELSE StageOf(s)])
                 /\ Goto("thread", t, "loop")
              \/ /\ stop \/ s = "finalizing"        \* FINALIZING_STUCK_SEC is over
                 /\ Fail("thread", t, "failed")
    /\ UNCHANGED threadUnchanged

AskTerminal(t) ==
    /\ at["thread"][t] = "ask"
    /\ job[Held(t)] \in {"error", "gone"}
    /\ Fail("thread", t, "failed")
    /\ UNCHANGED <<job, threadUnchanged, faults>>

(* Canceled on the worker, without a recording: after a stop the hub waits   *)
(* for one, otherwise it gives up.                                           *)
AskCanceled(t) ==
    /\ at["thread"][t] = "ask" /\ job[Held(t)] = "canceled"
    /\ IF Pending("thread", t)
       THEN /\ Commit("thread", t, [obj["thread"][t] EXCEPT !.meta.stage = "finalizing"])
            /\ Goto("thread", t, "loop")
       ELSE Fail("thread", t, "canceled")
    /\ UNCHANGED <<job, threadUnchanged, faults>>

(* The recording is ready: the stop request has been served. *)
AskReady(t) ==
    /\ at["thread"][t] = "ask" /\ Ready(Held(t))
    /\ Commit("thread", t, [obj["thread"][t] EXCEPT !.meta.stage = "downloading",
                                                    !.meta.stop = FALSE])
    /\ Goto("thread", t, "after")
    /\ UNCHANGED <<job, threadUnchanged, faults>>

(* After the loop: refresh, and persist what still runs. *)
AfterLoop(t) ==
    /\ at["thread"][t] = "after"
    /\ obj' = [obj EXCEPT !["thread"][t] = row[t]]
    /\ Goto("thread", t, IF row[t].audio \/ row[t].st # "running" THEN "leave" ELSE "enter")
    /\ UNCHANGED <<row, job, threadUnchanged, faults>>

(* finally: delete the job of a success, drop the flags. *)
ThreadLeave(t) ==
    /\ at["thread"][t] = "leave"
    /\ IF obj["thread"][t].st = "success" /\ Held(t) # None
       THEN DeleteJob(Held(t)) ELSE UNCHANGED job /\ NoFault
    /\ cancelled' = cancelled \ {t} /\ stopping' = stopping \ {t}
    /\ Goto("thread", t, "none")
    /\ obj' = [obj EXCEPT !["thread"][t] = NoRow]
    /\ UNCHANGED <<row, audios, free, lock, pc, req>>

Thread(t) == \/ ThreadQuit(t) \/ ThreadPost(t) \/ ThreadResume(t) \/ PostFailed(t)
             \/ \E j \in Job : PostAccepted(t, j)
             \/ LoopTop(t) \/ Salvage(t) \/ AskFailed(t) \/ AskActive(t) \/ AskTerminal(t)
             \/ AskCanceled(t) \/ AskReady(t) \/ AfterLoop(t) \/ ThreadLeave(t)

Persist(a, t) == \/ PersistEnter(a, t) \/ PersistFail(a, t) \/ PersistRaise(a, t)
                 \/ PersistFetched(a, t) \/ PersistSaved(a, t)

-----------------------------------------------------------------------------
(* Endpoints, workers, and the death of the hub. *)

(* POST /tasks/capture: the node's health is refreshed, and must allow it.   *)
CreateCapture(t) ==
    /\ EventLoopFree /\ row[t].st = "absent"
    /\ IF Pool THEN Now ELSE ~HeldByOther(t)
    /\ free' = TRUE
    /\ row' = [row EXCEPT ![t] = [NoRow EXCEPT !.st = "queued", !.bound = TRUE]]
    /\ UNCHANGED <<audios, job, memVars, actVars, pc, req, faults>>

(* POST /tasks/{id}/stop: flag and meta; without a thread the hub forwards.  *)
StopCapture(t) ==
    /\ EventLoopFree /\ "stop" \in Ops /\ row[t].st = "running"
    /\ stopping' = stopping \cup {t}
    /\ row' = [row EXCEPT ![t].meta = [stop |-> TRUE,
                  stage |-> IF @.stage \in {"downloading", "done"} THEN @.stage ELSE "finalizing"]]
    /\ IF ~Alive(t) /\ row[t].wtask # None /\ row[t].bound
       THEN ForwardStop(row[t].wtask) ELSE UNCHANGED job /\ NoFault
    /\ UNCHANGED <<audios, free, cancelled, actVars, pc, req>>

(* DELETE /tasks/{id}: read and raise the flag ... *)
CancelRead(t) ==
    /\ EventLoopFree /\ req = None /\ "cancel" \in Ops /\ row[t].st \in Active
    /\ cancelled' = cancelled \cup {t}
    /\ req' = [t |-> t, sync |-> Alive(t), seen |-> row[t]]
    /\ UNCHANGED <<row, audios, job, free, stopping, actVars, pc, faults>>

(* ... call the worker if no thread will, then write. *)
CancelCommit ==
    /\ req # None
    /\ IF ~req.sync /\ req.seen.wtask # None /\ req.seen.bound
       THEN DeleteJob(req.seen.wtask) ELSE UNCHANGED job /\ NoFault
    /\ row' = [row EXCEPT ![req.t] = Merge(@, req.seen,
                  [req.seen EXCEPT !.st = "error", !.code = "canceled"])]
    /\ req' = None
    /\ UNCHANGED <<audios, free, memVars, actVars, pc>>

WorkerStep(j) ==
    /\ job' = [job EXCEPT ![j] =
                  CASE @ = "queued" -> "capturing" [] @ = "capturing" -> "finalizing"
                    [] OTHER -> "ready"]
    /\ job[j] \in {"queued", "capturing", "finalizing"}
    /\ UNCHANGED <<row, audios, free, memVars, actVars, pc, req, faults>>

WorkerFail(j) ==
    /\ job[j] \in LiveJob /\ Fault
    /\ \E st \in {"error", "gone", "canceled"} : job' = [job EXCEPT ![j] = st]
    /\ UNCHANGED <<row, audios, free, memVars, actVars, pc, req>>

NoActors == /\ at' = [a \in Actor |-> [t \in Task |-> "none"]]
            /\ obj' = [a \in Actor |-> [t \in Task |-> NoRow]]
            /\ lock' = [t \in Task |-> None]

Crash == /\ pc # "down" /\ Fault /\ pc' = "down"
         /\ cancelled' = {} /\ stopping' = {} /\ req' = None /\ NoActors
         /\ UNCHANGED <<row, audios, job, free>>

Restart == /\ pc = "down" /\ pc' = "boot"
           /\ UNCHANGED <<row, audios, job, free, memVars, actVars, req, faults>>

-----------------------------------------------------------------------------
Init == /\ row = [t \in Task |-> NoRow] /\ audios = [t \in Task |-> 0]
        /\ job = [j \in Job |-> "free"] /\ free = TRUE
        /\ cancelled = {} /\ stopping = {}
        /\ at = [a \in Actor |-> [t \in Task |-> "none"]]
        /\ obj = [a \in Actor |-> [t \in Task |-> NoRow]]
        /\ lock = [t \in Task |-> None]
        /\ pc = "boot" /\ req = None /\ faults = 0

Tick == \/ TickEnd \/ RecoverBegin \/ RecoverEnd
        \/ \E t \in Task : TickLook(t) \/ TickAnswer(t) \/ MaybeStartCapture(t) \/ Recover(t)
                           \/ Persist("tick", t)

Api == (\E t \in Task : CreateCapture(t) \/ StopCapture(t) \/ CancelRead(t)) \/ CancelCommit

Next == \/ TickBegin \/ Tick \/ Api \/ Crash \/ Restart
        \/ \E t \in Task : Thread(t) \/ Persist("thread", t)
        \/ \E j \in Job : WorkerStep(j) \/ WorkerFail(j)

Spec == Init /\ [][Next]_vars

-----------------------------------------------------------------------------
(* Properties. *)

(* Every variable keeps its type. *)
TypeOK ==
    /\ row \in [Task -> Row] /\ obj \in [Actor -> [Task -> Row]]
    /\ audios \in [Task -> Nat] /\ free \in BOOLEAN
    /\ job \in [Job -> LiveJob \cup {"free", "error", "gone", "canceled"}]
    /\ cancelled \subseteq Task /\ stopping \subseteq Task
    /\ at["thread"] \in [Task -> {"none", "begin", "post", "loop", "ask", "salvage", "after",
                                  "enter", "download", "save", "leave"}]
    /\ at["tick"] \in [Task -> {"none", "todo", "ask", "enter", "download", "save", "start"}]
    /\ lock \in [Task -> Actor \cup {None}]
    /\ pc \in {"down", "boot", "recovery", "idle", "tick"}
    /\ req = None \/ req \in [t : Task, sync : BOOLEAN, seen : Row]
    /\ faults \in 0 .. MaxFaults

(* Thread and tick both see the finished recording and both may persist it:  *)
(* the meeting still yields one audio (_persist_capture_artifact_locked).    *)
OneAudio == \A t \in Task : audios[t] <= 1

(* A capture never gets a second thread while the first one lives            *)
(* (maybe_start_capture).                                                    *)
NoSecondThread ==
    [][\A t \in Task : at'["thread"][t] = "begin" => at["thread"][t] \in {"none", "begin"}]_vars

(* tasks.md: "success --> [*]". *)
SuccessIsFinal == [][\A t \in Task : row[t].st = "success" => row'[t].st = "success"]_vars

(* recover_capture_task: "Reattach hub capture tasks to icapture-worker after *)
(* process restart": a capture whose worker goes on recording is not failed  *)
(* for want of a worker.                                                     *)
Reattached ==
    [][\A t \in Task : /\ row[t].st = "running" /\ row[t].wtask # None
                       /\ job[row[t].wtask] \in LiveJob
                       => row'[t].code # "no_worker"]_vars

-----------------------------------------------------------------------------
(* Fairness: the loop ticks, HTTP calls end, threads and workers go on, the  *)
(* process is restarted.                                                     *)
Fairness == /\ WF_vars(TickBegin) /\ WF_vars(Tick) /\ WF_vars(Restart) /\ WF_vars(CancelCommit)
            /\ \A t \in Task : WF_vars(Thread(t) \/ Persist("thread", t))
            /\ \A j \in Job : WF_vars(WorkerStep(j))
LiveSpec == Spec /\ Fairness

(* Every capture ends (workers.md: "until the artifact is ready or           *)
(* FINALIZING_STUCK_SEC elapses").                                           *)
EventuallyTerminal == \A t \in Task : row[t].st \in Active ~> row[t].st \notin Active

(* The one exception: after a stop, a worker that reports its job canceled   *)
(* and has no recording is polled for ever.                                  *)
Abandoned(t) == /\ row[t].wtask # None /\ (t \in stopping \/ row[t].meta.stop)
                /\ job[row[t].wtask] = "canceled"

(* Every other capture ends, whatever crashes, fails, is stopped or canceled *)
(* meanwhile; in particular thread and tick never wait for each other's      *)
(* persist lock for ever.                                                    *)
EndsUnlessAbandoned ==
    \A t \in Task : row[t].st \in Active ~> (row[t].st \notin Active \/ Abandoned(t))
=============================================================================
