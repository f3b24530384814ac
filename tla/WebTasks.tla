------------------------------- MODULE WebTasks -------------------------------
(* The task pages of the web client: the list with its poller                 *)
(* (useTasksListPoll, TasksPage) and the page of one task with its poller     *)
(* (useTaskPoll, TaskPage), against a hub that carries a capture out and      *)
(* queues the transcription that follows it.                                  *)
EXTENDS Naturals

CONSTANTS MaxHub,     \* steps of the hub on its own
          MaxClicks,  \* buttons pressed and filters changed
          MaxLost,    \* answers replaced by an error
          None,       \* nothing: no request, no answer, no page
          Refused     \* the answer to a request that failed

Task == {"capture", "transcribe"}
Status == {"none", "queued", "running", "success", "failed", "canceled", "gone"}
Filter == {"all", "error"}

VARIABLES
    st,      \* status of each task at the hub; "none" before it exists, "gone" once purged
    ver,     \* how often the hub's tasks have changed
    chain,   \* meta.pipeline_transcribe of the capture
    page,    \* "list", "task", or "result": the artifact the task page ends at
    rid,     \* the task id in the URL of the task page
    shown,   \* useTaskPoll: task
    loop,    \* its polling loop: the id it follows, where it is, the answer
    filt,    \* the status filter of the list
    rows,    \* active and done of useTasksListPoll
    tick,    \* the request of the list's poller, and the one of reload()
    reload,
    latest,  \* which of the two took fetchSeq last
    timer,   \* the poller's timeout is set
    call,    \* the button handler in flight
    hubs, clicks, lost

hubVars == <<st, ver, chain, hubs>>
taskVars == <<rid, shown, loop>>
listVars == <<filt, rows, tick, reload, latest, timer>>
tVars == <<st, ver, chain, page, rid, shown, loop, filt, rows, tick, reload, latest, timer, call,
           hubs, clicks, lost>>
-----------------------------------------------------------------------------
(* Helpers of taskPoll.ts, taskStage.ts and util.tsx *)

Active(s) == s \in {"queued", "running"}
CanCancel(t, s) == IF t = "capture" THEN Active(s) ELSE s = "queued"
Retriable(s) == s = "failed"
FollowUp(t, s) == IF t = "capture" /\ s = "success" /\ chain THEN "transcribe" ELSE None

Snapshot(t) == [id |-> t, s |-> st[t], ver |-> ver]
NoLoop == [id |-> None, at |-> "end", ans |-> None]
Poll(t) == [id |-> t, at |-> "fetch", ans |-> None]
Request(f) == [filt |-> f, ans |-> None]
Clicked == clicks < MaxClicks /\ clicks' = clicks + 1
-----------------------------------------------------------------------------
(* The hub *)

Change(t, s) == st' = [st EXCEPT ![t] = s] /\ ver' = ver + 1
HubStep(t) ==
    /\ hubs < MaxHub /\ hubs' = hubs + 1
    /\ \/ st[t] = "queued" /\ Change(t, "running")
       \/ Active(st[t]) /\ Change(t, "failed")
       \/ st[t] = "running" /\ FollowUp(t, "success") = None /\ Change(t, "success")
       \/ /\ st[t] = "running" /\ FollowUp(t, "success") # None     \* one commit
          /\ st' = [st EXCEPT ![t] = "success", ![FollowUp(t, "success")] = "queued"]
          /\ ver' = ver + 1
    /\ UNCHANGED <<chain, page, taskVars, listVars, call, clicks, lost>>

Terminal(s) == s \in {"success", "failed", "canceled"}
HubAccepts(c) ==
    \/ c.op = "cancel" /\ CanCancel(c.id, st[c.id]) /\ Change(c.id, "canceled")
    \/ c.op = "retry" /\ c.id # "capture" /\ Retriable(st[c.id]) /\ Change(c.id, "queued")
    \/ c.op = "stop" /\ c.id = "capture" /\ st[c.id] = "running" /\ UNCHANGED <<st, ver>>
    \/ /\ c.op = "purge" /\ ver' = ver + 1
       /\ st' = [t \in Task |-> IF Terminal(st[t]) THEN "gone" ELSE st[t]]
HubRefuses(c) ==
    \/ c.op = "cancel" /\ ~CanCancel(c.id, st[c.id])
    \/ c.op = "retry" /\ (c.id = "capture" \/ ~Retriable(st[c.id]))
    \/ c.op = "stop" /\ (c.id # "capture" \/ st[c.id] # "running")
ServeCall ==
    /\ call # None /\ call.ans = None
    /\ \/ /\ HubAccepts(call)
          /\ call' = [call EXCEPT !.ans = IF call.op = "purge" THEN [id |-> None]
                                          ELSE [id |-> call.id, s |-> st'[call.id], ver |-> ver']]
       \/ HubRefuses(call) /\ call' = [call EXCEPT !.ans = Refused] /\ UNCHANGED <<st, ver>>
    /\ UNCHANGED <<chain, hubs, page, taskVars, listVars, clicks, lost>>
ServeTask ==
    /\ loop.at = "fetch" /\ loop.ans = None
    /\ loop' = [loop EXCEPT !.ans = IF st[loop.id] = "gone" THEN Refused ELSE Snapshot(loop.id)]
    /\ UNCHANGED <<hubVars, page, rid, shown, listVars, call, clicks, lost>>
List(f) == [filt |-> f, ver |-> ver,
            st |-> [t \in Task |-> IF f = "error" /\ st[t] = "success" THEN "none" ELSE st[t]]]
ServeTick ==
    /\ tick # None /\ tick.ans = None /\ tick' = [tick EXCEPT !.ans = List(tick.filt)]
    /\ UNCHANGED <<hubVars, page, taskVars, filt, rows, reload, latest, timer, call, clicks, lost>>
ServeReload ==
    /\ reload # None /\ reload.ans = None /\ reload' = [reload EXCEPT !.ans = List(reload.filt)]
    /\ UNCHANGED <<hubVars, page, taskVars, filt, rows, tick, latest, timer, call, clicks, lost>>
\* any request may fail after the hub has answered it
Lose ==
    /\ lost < MaxLost /\ lost' = lost + 1
    /\ \/ loop.ans # None /\ loop' = [loop EXCEPT !.ans = Refused] /\ UNCHANGED <<tick, reload, call>>
       \/ /\ tick # None /\ tick.ans # None /\ tick' = [tick EXCEPT !.ans = Refused]
          /\ UNCHANGED <<loop, reload, call>>
       \/ /\ reload # None /\ reload.ans # None /\ reload' = [reload EXCEPT !.ans = Refused]
          /\ UNCHANGED <<loop, tick, call>>
    /\ UNCHANGED <<hubVars, page, rid, shown, filt, rows, latest, timer, clicks>>
-----------------------------------------------------------------------------
(* Mounting and leaving the pages *)

\* a handler that is in flight outlives the page it was started on
Left == IF call = None THEN None ELSE [call EXCEPT !.here = FALSE]
ListOff == tick' = None /\ reload' = None /\ timer' = FALSE /\ UNCHANGED <<filt, rows, latest>>
MutTaskOff == shown' = None /\ loop' = NoLoop /\ UNCHANGED rid
TaskOff == rid' = None /\ shown' = None /\ loop' = NoLoop
\* the effect of the list hook runs: a new tick, no timer
ListOn(f) ==
    /\ tick' = Request(f) /\ latest' = "tick" /\ timer' = FALSE /\ filt' = f
OpenTask(t, initial) ==
    /\ page' = "task" /\ rid' = t /\ shown' = initial /\ loop' = Poll(t) /\ ListOff
OpenList ==
    /\ page' = "list" /\ ListOn("all") /\ reload' = None /\ rows' = None /\ TaskOff

\* a row of the list links to the page of its task unless an artifact exists
FollowRow(t) ==
    /\ page = "list" /\ rows # None /\ rows.st[t] \in {"queued", "running", "failed", "canceled"}
    /\ Clicked /\ OpenTask(t, None) /\ call' = Left /\ UNCHANGED <<hubVars, lost>>
BackToList ==
    /\ page \in {"task", "result"} /\ Clicked /\ OpenList /\ call' = Left /\ UNCHANGED <<hubVars, lost>>
-----------------------------------------------------------------------------
(* useTaskPoll *)

MutNext(t, s) == None
Next_(t, s) == FollowUp(t, s)

KeepRest == UNCHANGED <<hubVars, rid, listVars, call, clicks, lost>>
PollFailed ==
    /\ loop.ans = Refused /\ loop' = [loop EXCEPT !.at = "sleep", !.ans = None]
    /\ UNCHANGED <<page, shown>> /\ KeepRest
PollActive ==
    /\ loop.ans \notin {None, Refused} /\ Active(loop.ans.s)
    /\ shown' = loop.ans /\ loop' = [loop EXCEPT !.at = "sleep", !.ans = None]
    /\ UNCHANGED page /\ KeepRest
PollEnds ==
    /\ loop.ans \notin {None, Refused} /\ loop.ans.s \in {"failed", "canceled"}
    /\ shown' = loop.ans /\ loop' = [loop EXCEPT !.at = "end", !.ans = None]
    /\ UNCHANGED page /\ KeepRest
PollFollowUp ==
    /\ loop.ans \notin {None, Refused} /\ loop.ans.s = "success" /\ Next_(loop.id, "success") # None
    /\ shown' = loop.ans /\ loop' = Poll(Next_(loop.id, "success"))
    /\ UNCHANGED page /\ KeepRest
\* onSuccess: redirectAfterTaskSuccess
PollRedirects ==
    /\ loop.ans \notin {None, Refused} /\ loop.ans.s = "success" /\ Next_(loop.id, "success") = None
    /\ page' = "result" /\ TaskOff /\ call' = Left
    /\ UNCHANGED <<hubVars, listVars, clicks, lost>>
MutWake ==
    /\ loop.at = "sleep" /\ shown # None
    /\ loop' = [loop EXCEPT !.at = "fetch"] /\ UNCHANGED <<page, shown>> /\ KeepRest
Wake ==
    /\ loop.at = "sleep" /\ loop' = [loop EXCEPT !.at = "fetch"] /\ UNCHANGED <<page, shown>> /\ KeepRest
-----------------------------------------------------------------------------
(* The buttons; the model has one handler in flight at a time *)

Press(op, t, s) ==
    /\ call = None /\ Clicked
    /\ call' = [op |-> op, id |-> t, shown |-> s, from |-> page, filt |-> filt,
               here |-> TRUE, ans |-> None]
    /\ UNCHANGED <<hubVars, page, taskVars, listVars, lost>>
TaskOffers(op) ==
    /\ page = "task" /\ shown # None
    /\ CASE op = "cancel" -> CanCancel(shown.id, shown.s)
         [] op = "retry" -> Retriable(shown.s)
         [] op = "stop" -> shown.id = "capture" /\ shown.s = "running"
PressTask(op) == TaskOffers(op) /\ Press(op, rid, shown.id)
ListOffers(op, t) ==
    /\ page = "list" /\ rows # None
    /\ CASE op = "cancel" -> CanCancel(t, rows.st[t])
         [] op = "retry" -> Retriable(rows.st[t])
PressRow(op, t) == ListOffers(op, t) /\ Press(op, t, t)
PressPurge ==
    /\ page = "list" /\ rows # None /\ \E t \in Task : Terminal(rows.st[t])
    /\ Press("purge", None, None)

CallFailed ==
    /\ call # None /\ call.ans = Refused /\ call' = None
    /\ UNCHANGED <<hubVars, page, taskVars, listVars, clicks, lost>>
\* cancel on the task page leaves it, wherever the user is by then
CanceledOnPage ==
    /\ call # None /\ call.ans \notin {None, Refused} /\ call.from = "task" /\ call.op = "cancel"
    /\ call' = None
    /\ IF page = "list" THEN UNCHANGED <<page, taskVars, listVars>> ELSE OpenList
    /\ UNCHANGED <<hubVars, clicks, lost>>
StoppedOnPage ==
    /\ call # None /\ call.ans \notin {None, Refused} /\ call.from = "task" /\ call.op = "stop"
    /\ call' = None
    /\ shown' = IF call.here THEN call.ans ELSE shown
    /\ UNCHANGED <<hubVars, page, rid, loop, listVars, clicks, lost>>
\* a retry starts a new generation of the poller
RetriedOnPage ==
    /\ call # None /\ call.ans \notin {None, Refused} /\ call.from = "task" /\ call.op = "retry"
    /\ call' = None
    /\ IF call.here THEN shown' = call.ans /\ loop' = Poll(rid)
                    ELSE UNCHANGED <<shown, loop>>
    /\ UNCHANGED <<hubVars, page, rid, listVars, clicks, lost>>
\* reload() with the filter of the render that was clicked
DoneInList ==
    /\ call # None /\ call.ans \notin {None, Refused} /\ call.from = "list"
    /\ call' = None
    /\ IF call.here THEN reload' = Request(call.filt) /\ latest' = "reload"
                    ELSE UNCHANGED <<reload, latest>>
    /\ UNCHANGED <<hubVars, page, taskVars, filt, rows, tick, timer, clicks, lost>>
-----------------------------------------------------------------------------
(* useTasksListPoll *)

ListRest == UNCHANGED <<hubVars, page, taskVars, filt, reload, call, clicks, lost>>
TickApplied ==
    /\ tick # None /\ tick.ans \notin {None, Refused} /\ latest = "tick"
    /\ rows' = tick.ans /\ timer' = TRUE /\ tick' = None /\ UNCHANGED latest /\ ListRest
MutTickFailed ==
    /\ tick # None /\ tick.ans = Refused /\ latest = "tick"
    /\ timer' = FALSE /\ tick' = None /\ UNCHANGED <<rows, latest>> /\ ListRest
TickFailed ==
    /\ tick # None /\ tick.ans = Refused /\ latest = "tick"
    /\ timer' = TRUE /\ tick' = None /\ UNCHANGED <<rows, latest>> /\ ListRest
\* a reload has taken fetchSeq meanwhile: nothing is applied and no timeout is set
TickOvertaken ==
    /\ tick # None /\ tick.ans # None /\ latest = "reload"
    /\ tick' = None /\ UNCHANGED <<rows, timer, latest>> /\ ListRest
Timeout ==
    /\ timer /\ timer' = FALSE /\ tick' = Request(filt) /\ latest' = "tick" /\ UNCHANGED rows /\ ListRest
MutReloadIsLatest == TRUE
ReloadIsLatest == latest = "reload"
ReloadDone ==
    /\ reload # None /\ reload.ans # None /\ reload' = None
    /\ rows' = IF reload.ans # Refused /\ ReloadIsLatest THEN reload.ans ELSE rows
    /\ UNCHANGED <<hubVars, page, taskVars, filt, tick, latest, timer, call, clicks, lost>>
SetFilter(f) ==
    /\ page = "list" /\ f # filt /\ Clicked /\ ListOn(f)
    /\ UNCHANGED <<hubVars, page, taskVars, rows, reload, call, lost>>
-----------------------------------------------------------------------------
Init ==
    /\ st = [t \in Task |-> IF t = "capture" THEN "queued" ELSE "none"] /\ ver = 0
    /\ chain \in BOOLEAN
    /\ \/ /\ page = "list" /\ tick = Request("all") /\ rid = None /\ shown = None /\ loop = NoLoop
       \/ /\ page = "task" /\ tick = None /\ rid = "capture" /\ loop = Poll("capture")
          /\ shown \in {None, [id |-> "capture", s |-> "queued", ver |-> 0]}
    /\ filt = "all" /\ rows = None /\ reload = None /\ latest = "tick" /\ timer = FALSE
    /\ call = None /\ hubs = 0 /\ clicks = 0 /\ lost = 0

Serve == ServeCall \/ ServeTask \/ ServeTick \/ ServeReload
TaskDeliver == PollFailed \/ PollActive \/ PollEnds \/ PollFollowUp \/ PollRedirects \/ Wake
ListDeliver == TickApplied \/ TickFailed \/ TickOvertaken \/ Timeout \/ ReloadDone
CallDeliver == CallFailed \/ CanceledOnPage \/ StoppedOnPage \/ RetriedOnPage \/ DoneInList
User ==
    \/ \E t \in Task : FollowRow(t) \/ \E op \in {"cancel", "retry"} : PressRow(op, t)
    \/ \E op \in {"cancel", "retry", "stop"} : PressTask(op)
    \/ PressPurge
    \/ BackToList
    \/ \E f \in Filter : SetFilter(f)
Next ==
    \/ \E t \in Task : HubStep(t)
    \/ Serve
    \/ Lose
    \/ TaskDeliver
    \/ ListDeliver
    \/ CallDeliver
    \/ User
Spec == Init /\ [][Next]_tVars
-----------------------------------------------------------------------------
(* Properties *)

TypeOK ==
    /\ st \in [Task -> Status] /\ ver \in Nat /\ chain \in BOOLEAN
    /\ page \in {"list", "task", "result"} /\ rid \in Task \cup {None}
    /\ loop.at \in {"fetch", "sleep", "end"} /\ filt \in Filter /\ timer \in BOOLEAN
    /\ latest \in {"tick", "reload"} /\ (page = "task") = (rid # None)
    /\ (shown # None => shown.id \in Task) /\ (rows # None => rows.filt \in Filter)

(* The list implements Mirror: it shows the hub's tasks as of some moment and never goes back to
   older rows, in whatever order the answers of the poller and of reload() arrive (fetchSeq). *)
M == INSTANCE Mirror WITH now <- ver, seen <- IF rows = None THEN None ELSE rows.ver
ListIsMirror == M!Spec

(* While the list is on the screen its poller has a request or a timeout pending, unless a
   reload() took the sequence number from it: failures and filter changes never end it. *)
PollsUnlessOvertaken == page = "list" => tick # None \/ timer \/ latest = "reload"

(* The task page leaves for the artifact only when the whole chain has succeeded. *)
ChainDone == [][page = "task" /\ page' = "result" =>
                   \A t \in Task : st[t] \in {"none", "success", "gone"}]_tVars

(* The poller of the task page does not stop before it has seen its task in a final state:
   it is never stuck beside a finished task. *)
WatchEnds == []<>(page # "task" \/ loop.at = "end" \/ st[loop.id] \in {"queued", "running", "gone"})

(* "You can cancel while waiting": a cancel of a task that is shown as waiting is refused only
   if that task is no longer queued. *)
CancelWhileWaiting ==
    call # None /\ call.op = "cancel" /\ call.ans = Refused => st[call.shown] # "queued"
=============================================================================
