------------------------------ MODULE WebClient -------------------------------
(* The parts of the web client that poll, upload or record, each against the    *)
(* hub: the task pages, the ingest page, the recording dialog, the filtered     *)
(* lists and the linking with Telegram.  They share no state in the browser, so *)
(* one of them is on the screen and the others rest in their initial states.    *)
EXTENDS Naturals

CONSTANTS None, Refused, NoStream, Stream,
          MaxHub, MaxClicks, MaxLost,        \* WebTasks
          MaxFlows, MaxInputs,               \* WebIngest
          MaxPauses,                         \* WebRecorder
          MaxPicks,                          \* WebQueries
          MaxActs, MaxBots, MaxFlight        \* WebTelegram

ASSUME ClientBounds ==
    {MaxHub, MaxClicks, MaxLost, MaxFlows, MaxInputs, MaxPauses, MaxPicks, MaxActs, MaxBots, MaxFlight}
        \subseteq Nat

VARIABLES
    part,  \* the part on the screen
    st, ver, chain, page, rid, shown, loop, filt, rows, tick, reload, latest, timer, call, hubs, clicks, lost,
    wpage, panel, pipe, run, tags, flows, made, offers, count,
    open, gen, ref, recorder, rec, live, chunks, recording, paused, starting, switching, saving,
    hasAudio, start, save, upload, raced, pauses,
    list, scope, person, listPage, listRows, queries, newest, overrun, pickCount,
    bot, linked, code, status, awaiting, stored, lastBot, section, asked, tgCount

\* the parts, one of them with what is proved about it
Tasks == INSTANCE WebTasks
Ingest == INSTANCE WebIngest_proofs WITH MaxClicks <- MaxInputs
Recorder == INSTANCE WebRecorder
Lists == INSTANCE WebQueries WITH page <- listPage, rows <- listRows, latest <- newest,
                                  MaxUnheard <- MaxLost
Telegram == INSTANCE WebTelegram WITH MaxLosses <- MaxLost

tasksVars == <<st, ver, chain, page, rid, shown, loop, filt, rows, tick, reload, latest, timer,
               call, hubs, clicks, lost>>
ingestVars == <<wpage, panel, pipe, run, tags, flows, made, offers, count>>
recorderVars == <<open, gen, ref, recorder, rec, live, chunks, recording, paused, starting,
                  switching, saving, hasAudio, start, save, upload, raced, pauses>>
listsVars == <<list, scope, person, listPage, listRows, queries, newest, overrun, pickCount>>
telegramVars == <<bot, linked, code, status, awaiting, stored, lastBot, section, asked, tgCount>>
vars == <<part, tasksVars, ingestVars, recorderVars, listsVars, telegramVars>>
-----------------------------------------------------------------------------
Init ==
    /\ part \in {"tasks", "ingest", "recorder", "lists", "telegram"}
    /\ Tasks!Init /\ Ingest!Init /\ Recorder!Init /\ Lists!InitQueries /\ Telegram!InitTelegram
    /\ part # "tasks" => page = "list" /\ ~chain
    /\ part # "ingest" => pipe = "off"
    /\ part # "lists" => list = "library"

Rest(p) ==
    /\ p # "tasks" => UNCHANGED tasksVars
    /\ p # "ingest" => UNCHANGED ingestVars
    /\ p # "recorder" => UNCHANGED recorderVars
    /\ p # "lists" => UNCHANGED listsVars
    /\ p # "telegram" => UNCHANGED telegramVars
OnScreen(p, A) == part = p /\ A /\ Rest(p) /\ UNCHANGED part
Next ==
    \/ OnScreen("tasks", Tasks!Next)
    \/ OnScreen("ingest", Ingest!Next)
    \/ OnScreen("recorder", Recorder!Next)
    \/ OnScreen("lists", Lists!Next)
    \/ OnScreen("telegram", Telegram!Next)
Spec == Init /\ [][Next]_vars

\* The hub serves every kind of request, the browser runs every handler whose answer is there,
\* and timers fire; the user need not do anything and nothing has to be lost.
TasksFair ==
    /\ WF_vars(OnScreen("tasks", Tasks!ServeTask)) /\ WF_vars(OnScreen("tasks", Tasks!ServeTick))
    /\ WF_vars(OnScreen("tasks", Tasks!ServeReload)) /\ WF_vars(OnScreen("tasks", Tasks!ServeCall))
    /\ WF_vars(OnScreen("tasks", Tasks!TaskDeliver))
    /\ WF_vars(OnScreen("tasks", Tasks!ListDeliver))
    /\ WF_vars(OnScreen("tasks", Tasks!CallDeliver))
TelegramFair ==
    /\ WF_vars(OnScreen("telegram", Telegram!Tick))
    /\ \A k \in Telegram!Kind : /\ WF_vars(OnScreen("telegram", Telegram!ServeKind(k)))
                                /\ WF_vars(OnScreen("telegram", Telegram!TakeKind(k)))
LiveSpec == Spec /\ TasksFair /\ TelegramFair
-----------------------------------------------------------------------------
(* Properties of the parts *)

(* Every part keeps its types. *)
TypeOK ==
    /\ Tasks!TypeOK /\ Ingest!TypeOK /\ Recorder!TypeOK /\ Lists!TypeOK /\ Telegram!TypeOK

(* The task list implements Mirror: it shows the tasks as of some moment and never falls back. *)
ListIsMirror == Tasks!ListIsMirror
(* The poller of the task list is never lost to a failure or a filter change. *)
PollsUnlessOvertaken == Tasks!PollsUnlessOvertaken
(* The task page goes to an artifact only when the whole chain has succeeded. *)
ChainDone == Tasks!ChainDone
(* The task page is never stuck beside a task that has ended. *)
WatchEnds == part = "tasks" => Tasks!WatchEnds

(* Every task carries the pipeline that was set when its flow was started. *)
PipelineHonoured == Ingest!PipelineHonoured
(* Extra tags are cleared only when something that carries them is stored. *)
TagsSpent == Ingest!TagsSpent

(* An uploaded recording is one take. *)
OneTake == Recorder!OneTake
(* One dialog never holds two microphone streams. *)
OneMicrophone == Recorder!OneMicrophone
(* A dialog that is closed and settled has the microphone off. *)
MicrophoneOff == Recorder!MicrophoneOff

(* A list whose requests have all been answered in order shows what its filters say. *)
ListSettles == Lists!ListSettles

(* A client that waits for the Telegram bot notices that it has linked the account. *)
LinkNoticed == Telegram!LinkNoticed
=============================================================================
