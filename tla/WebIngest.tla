------------------------------- MODULE WebIngest ------------------------------
(* The ingest page of the web client (IngestPanel, IngestPipelinePanel), the   *)
(* microphone button of the shell and what they keep in the browser's storage: *)
(* the pipeline, the run in progress and the extra tags.  A flow (link, file,   *)
(* microphone) goes on when the user leaves the page it was started on.         *)
EXTENDS Naturals, FiniteSets

CONSTANTS MaxFlows,   \* submissions
          MaxClicks,  \* other inputs: fields, settings, pages
          MaxLost,    \* requests that fail
          None

Flow == {"link", "file", "mic", "shell"}
Slot == {"link", "file", "mic"}
SlotOf(f) == IF f = "shell" THEN "mic" ELSE f
Pipeline == {"off", "transcribe", "full"}        \* nothing, transcribe, and one skill
Url == {"none", "bad", "video", "jitsi", "telemost"}
Page == {"ingest", "task", "library", "other"}

VARIABLES
    wpage,    \* the page of the shell
    panel,    \* IngestPanel's state, None when it is not mounted
    pipe,     \* localStorage idigest-ingest-pipeline
    run,      \* sessionStorage idigest-ingest-pipeline-run
    tags,     \* localStorage idigest-ingest-extra-tags-*: 0 is empty, n the n-th choice
    flows,    \* the flows in flight
    made,     \* what the hub has stored: audios and tasks
    offers,   \* what the hub offers: imports ("on", "off", "blocked") and captures
    count     \* flows, inputs, failures so far

wVars == <<wpage, panel, pipe, run, tags, flows, made, offers, count>>

Idle == [at |-> "idle", pipe |-> "off", chosen |-> "off", tags |-> 0, here |-> FALSE,
         capture |-> FALSE, url |-> "none", pin |-> FALSE]
Mounted == [url |-> "none", pin |-> FALSE, busy |-> FALSE, imports |-> None, captures |-> None,
            tags |-> tags]

Input == count.clicks < MaxClicks /\ count' = [count EXCEPT !.clicks = @ + 1]
Fault == count.lost < MaxLost /\ count' = [count EXCEPT !.lost = @ + 1]
Started == count.flows < MaxFlows /\ count' = [count EXCEPT !.flows = @ + 1]

\* Leaving the ingest page unmounts the panel; entering it mounts a new one.
Orphaned(fs) == [f \in Flow |-> [fs[f] EXCEPT !.here = FALSE]]
Show(p, fs) ==
    /\ wpage' = p
    /\ IF p = wpage THEN flows' = fs /\ UNCHANGED panel
       ELSE flows' = Orphaned(fs) /\ panel' = IF p = "ingest" THEN Mounted ELSE None
-----------------------------------------------------------------------------
(* Links (captureHost.ts) *)

Meeting(u) == u \in {"jitsi", "telemost"}
CapturesOn == panel.captures = "on"
ToCapture(u) == CapturesOn /\ Meeting(u)
AsksPin(u) == CapturesOn /\ u = "jitsi"
LinkReady == /\ panel.url \notin {"none", "bad"}
             /\ ToCapture(panel.url) \/ panel.imports = "on"
LinkShown == panel.imports \in {"on", "blocked"} \/ CapturesOn
-----------------------------------------------------------------------------
(* Inputs on the page; they are disabled while the panel is busy *)

Editable == wpage = "ingest" /\ ~panel.busy /\ Input
Same == UNCHANGED <<wpage, run, flows, made, offers>>
SetUrl(u) == /\ Editable /\ LinkShown /\ panel' = [panel EXCEPT !.url = u]
             /\ UNCHANGED <<pipe, tags>> /\ Same
SetPin == /\ wpage = "ingest" /\ ~panel.busy /\ AsksPin(panel.url)
          /\ panel' = [panel EXCEPT !.pin = TRUE] /\ UNCHANGED <<pipe, tags, count>> /\ Same
PickTags(s) ==
    /\ Editable /\ (s = "link" => LinkShown)
    /\ tags' = [tags EXCEPT ![s] = count'.clicks]
    /\ panel' = [panel EXCEPT !.tags[s] = count'.clicks] /\ UNCHANGED pipe /\ Same
\* the pipeline panel stays enabled during an upload; without transcription there is no skill
SetPipeline(p) ==
    /\ wpage = "ingest" /\ Input /\ p # pipe /\ (p = "full" => pipe = "transcribe")
    /\ pipe' = p /\ UNCHANGED <<panel, tags>> /\ Same

LoadPlatforms ==
    /\ wpage = "ingest" /\ panel.imports # offers.imports
    /\ panel' = [panel EXCEPT !.imports = offers.imports] /\ UNCHANGED <<pipe, tags, count>> /\ Same
LoadCapturePlatforms ==
    /\ wpage = "ingest" /\ panel.captures = None
    /\ panel' = [panel EXCEPT !.captures = offers.captures] /\ UNCHANGED <<pipe, tags, count>> /\ Same
Admin ==
    /\ Input /\ \E o \in [imports : {"on", "off", "blocked"}, captures : {"on", "off"}] :
                   o # offers /\ offers' = o
    /\ UNCHANGED <<wpage, panel, pipe, run, tags, flows, made>>
Go(p) == /\ Input /\ p # wpage /\ p # "task" /\ Show(p, flows)
         /\ UNCHANGED <<pipe, run, tags, made, offers>>
-----------------------------------------------------------------------------
(* Submitting *)

Begin(f, at) ==
    /\ flows[f].at = "idle" /\ Started /\ run' = pipe
    /\ flows' = [flows EXCEPT ![f] =
           [Idle EXCEPT !.at = at, !.pipe = pipe, !.chosen = pipe, !.here = f # "shell",
                        !.tags = IF f = "shell" THEN tags.mic ELSE panel.tags[f],
                        !.capture = f = "link" /\ ToCapture(panel.url),
                        !.url = IF f = "link" THEN panel.url ELSE "none",
                        !.pin = f = "link" /\ ToCapture(panel.url) /\ panel.pin]]
    /\ UNCHANGED <<wpage, pipe, tags, made, offers>>
SetBusy == panel' = [panel EXCEPT !.busy = TRUE]
SubmitLink == /\ wpage = "ingest" /\ ~panel.busy /\ LinkShown /\ LinkReady
              /\ SetBusy /\ Begin("link", "post")
\* a file is chosen, or the recording dialog of the page hands one over
Upload(f) == /\ f \in {"file", "mic"} /\ wpage = "ingest" /\ ~panel.busy
             /\ SetBusy /\ Begin(f, "upload")
ShellRecords == Begin("shell", "upload") /\ UNCHANGED panel
-----------------------------------------------------------------------------
(* The hub *)

Obj(k, f, p) == [kind |-> k, pipe |-> p, chosen |-> flows[f].chosen, slot |-> SlotOf(f),
                 tags |-> IF k = "transcribe" THEN 0 ELSE flows[f].tags,
                 pin |-> flows[f].pin, url |-> flows[f].url]
Reach(f, at) == flows' = [flows EXCEPT ![f].at = at]
Stored(f, o, at) == /\ made' = made \cup {o} /\ Reach(f, at)
                    /\ UNCHANGED <<wpage, panel, pipe, run, tags, offers, count>>
LinkAccepted == IF flows["link"].capture THEN offers.captures = "on" ELSE offers.imports = "on"
HubLink == /\ flows["link"].at = "post" /\ LinkAccepted
           /\ Stored("link", Obj(IF flows["link"].capture THEN "capture" ELSE "import", "link", flows["link"].pipe),
                     "done")
HubRefuses == /\ flows["link"].at = "post" /\ ~LinkAccepted /\ Reach("link", "failed")
              /\ UNCHANGED <<wpage, panel, pipe, run, tags, made, offers, count>>
HubAudio(f) == /\ flows[f].at = "upload"
               /\ Stored(f, Obj("audio", f, "off"), IF flows[f].pipe = "off" THEN "kept" ELSE "uploaded")
MutTranscribeRequest(f) == IF run = None THEN pipe ELSE run
TranscribeRequest(f) == flows[f].pipe
HubTranscribe(f) == /\ flows[f].at = "transcribe"
                    /\ Stored(f, Obj("transcribe", f, TranscribeRequest(f)), "done")
\* a request fails before the hub has handled it, or its answer is lost
Lose(f) ==
    /\ flows[f].at \notin {"idle", "failed"} /\ Fault /\ Reach(f, "failed")
    /\ UNCHANGED <<wpage, panel, pipe, run, tags, made, offers>>
-----------------------------------------------------------------------------
(* The answers *)

End(f) == [flows EXCEPT ![f] = Idle]
\* a flow that succeeds goes to its page, wherever the user is by then, and the extra tags of
\* its slot are used up
Succeed(f, p) == Show(p, End(f)) /\ tags' = [tags EXCEPT ![SlotOf(f)] = 0]
                 /\ UNCHANGED <<pipe, made, offers, count>>
TaskCreated(f) == flows[f].at = "done" /\ Succeed(f, "task") /\ UNCHANGED run
AudioKept(f) == flows[f].at = "kept" /\ Succeed(f, "library") /\ run' = None
AudioThenTask(f) ==
    /\ flows[f].at = "uploaded" /\ Reach(f, "transcribe")
    /\ UNCHANGED <<wpage, panel, pipe, run, tags, made, offers, count>>
Unbusy(f) == IF flows[f].here THEN [panel EXCEPT !.busy = FALSE] ELSE panel
MutFailTags(f) == [tags EXCEPT ![SlotOf(f)] = 0]
FailTags(f) == tags
FlowFailed(f) ==
    /\ flows[f].at = "failed"
    /\ flows' = End(f) /\ panel' = Unbusy(f) /\ tags' = FailTags(f)
    /\ UNCHANGED <<wpage, pipe, run, made, offers, count>>

\* the page of the task ends the run when its chain has succeeded or the task is canceled
TaskEnds == /\ wpage = "task" /\ Input /\ run' = None
            /\ \E p \in {"library", "other"} : Show(p, flows)
            /\ UNCHANGED <<pipe, tags, made, offers>>
-----------------------------------------------------------------------------
Init ==
    /\ wpage = "ingest" /\ pipe \in Pipeline /\ run = None
    /\ tags = [s \in Slot |-> 0] /\ panel = [Mounted EXCEPT !.tags = [s \in Slot |-> 0]]
    /\ flows = [f \in Flow |-> Idle] /\ made = {}
    /\ offers = [imports |-> "on", captures |-> "on"]
    /\ count = [flows |-> 0, clicks |-> 0, lost |-> 0]

HubStep(f) == (f = "link" /\ (HubLink \/ HubRefuses)) \/ (f # "link" /\ (HubAudio(f) \/ HubTranscribe(f)))
Deliver(f) == TaskCreated(f) \/ AudioKept(f) \/ AudioThenTask(f) \/ FlowFailed(f)
User ==
    \/ \E u \in Url : SetUrl(u)
    \/ SetPin
    \/ \E s \in Slot : PickTags(s)
    \/ \E p \in Pipeline : SetPipeline(p)
    \/ SubmitLink
    \/ \E f \in {"file", "mic"} : Upload(f)
    \/ ShellRecords
    \/ \E p \in Page : Go(p)
    \/ TaskEnds
Next ==
    \/ User
    \/ LoadPlatforms
    \/ LoadCapturePlatforms
    \/ Admin
    \/ \E f \in Flow : HubStep(f) \/ Lose(f) \/ Deliver(f)
Spec == Init /\ [][Next]_wVars
-----------------------------------------------------------------------------
(* Properties *)

FlowAt == {"idle", "post", "upload", "uploaded", "kept", "transcribe", "done", "failed"}
TypeOK ==
    /\ wpage \in Page /\ pipe \in Pipeline /\ run \in Pipeline \cup {None}
    /\ (panel # None) = (wpage = "ingest")
    /\ panel # None => panel.url \in Url /\ panel.busy \in BOOLEAN /\ DOMAIN panel.tags = Slot
    /\ DOMAIN tags = Slot /\ \A s \in Slot : tags[s] \in 0..MaxClicks
    /\ \A f \in Flow : flows[f].at \in FlowAt /\ flows[f].pipe \in Pipeline
    /\ offers \in [imports : {"on", "off", "blocked"}, captures : {"on", "off"}]

(* Every task the hub gets carries the pipeline that was set when its flow was started, even if
   the settings or the stored run changed while the file was uploaded. *)
PipelineHonoured == \A o \in made : o.kind # "audio" => o.pipe = o.chosen

(* A choice of extra tags is cleared only when the hub has stored something that carries it; the
   exception is a flow that outlived its panel, which clears whatever was chosen since. *)
TagsSpent == [][\A s \in Slot : tags[s] # 0 /\ tags'[s] = 0 =>
                   \/ \E o \in made : o.tags = tags[s] /\ o.slot = s
                   \/ \E f \in Flow : SlotOf(f) = s /\ flows[f].at # "idle" /\ ~flows[f].here]_wVars

(* "Jitsi lobby PIN field - not used for Telemost." *)
PinOnlyJitsi == \A o \in made : o.pin => o.url = "jitsi"
=============================================================================
