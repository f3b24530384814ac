----------------------------- MODULE WebRecorder ------------------------------
(* The dialog that records from the microphone (MicrophoneRecordModal): one    *)
(* instance, from the moment it is mounted until everything it started is      *)
(* over.  The browser's part (getUserMedia, MediaRecorder) answers later, in    *)
(* any order with the user's clicks.                                            *)
EXTENDS Naturals, FiniteSets

CONSTANTS Stream,       \* microphone streams the browser may hand out
          MaxPauses,    \* pauses
          NoStream

StartAt == {"idle", "stopping", "media"}
SaveAt == {"idle", "stopping", "uploaded"}
RecState == {"none", "recording", "paused", "inactive"}

VARIABLES
    open,      \* the dialog is mounted
    gen,       \* captureGenerationRef
    ref,       \* streamRef
    recorder,  \* recorderRef: the stream it records, or nothing
    rec,       \* state of the recorder of each stream
    live,      \* streams whose tracks have not been stopped
    chunks,    \* the streams chunksRef holds audio of
    recording, paused, starting, switching, saving, hasAudio,  \* React state
    start,     \* startCapture: where it waits, and the generation it has read
    save,      \* handleSave: where it waits
    upload,    \* the streams the uploaded file holds audio of
    raced,     \* the dialog was closed while a recorder was being stopped
    pauses

refs == <<gen, ref, recorder, rec, live, chunks>>
flags == <<recording, paused, starting, switching, saving, hasAudio>>
rVars == <<open, gen, ref, recorder, rec, live, chunks, recording, paused, starting, switching,
           saving, hasAudio, start, save, upload, raced, pauses>>

Unused == {s \in Stream : rec[s] = "none" /\ s \notin live}
-----------------------------------------------------------------------------
(* releaseCapture: the recorder is detached at once and stopped later *)

Stopping == recorder # NoStream /\ rec[recorder] # "inactive"
Detach == recorder' = NoStream /\ gen' = gen + 1
\* the part of releaseCapture after the recorder has stopped
Dropped == chunks' = {}
MutKeepsChunks(r) ==
    /\ UNCHANGED chunks /\ hasAudio' = FALSE /\ live' = live \ {ref} /\ ref' = NoStream
    /\ rec' = r /\ recording' = FALSE /\ paused' = FALSE
MutKeepsTracks(r) ==
    /\ Dropped /\ hasAudio' = FALSE /\ ref' = NoStream /\ UNCHANGED live
    /\ rec' = r /\ recording' = FALSE /\ paused' = FALSE
Released(r) ==
    /\ Dropped /\ hasAudio' = FALSE /\ live' = live \ {ref} /\ ref' = NoStream
    /\ rec' = r /\ recording' = FALSE /\ paused' = FALSE
Quiet(r) == IF r = NoStream THEN rec ELSE [rec EXCEPT ![r] = "inactive"]

\* startCapture asks for the stream and remembers the generation
Ask(g) == start' = [at |-> "media", gen |-> g, rec |-> NoStream] /\ starting' = TRUE
StartCapture ==
    IF Stopping
    THEN /\ Detach /\ start' = [at |-> "stopping", gen |-> 0, rec |-> recorder]
         /\ UNCHANGED <<ref, rec, live, chunks, recording, paused, starting, hasAudio>>
    ELSE Detach /\ Released(rec) /\ Ask(gen + 1)
RecorderStopped ==
    /\ start.at = "stopping" /\ Released(Quiet(start.rec)) /\ Ask(gen)
    /\ UNCHANGED <<open, gen, recorder, switching, saving, save, upload, raced, pauses>>

\* Unmounting releases once more; nothing is left to be stopped then.
Leave ==
    /\ open' = FALSE /\ Detach /\ Dropped /\ ref' = NoStream /\ live' = live \ {ref}
    /\ rec' = Quiet(recorder)
    /\ UNCHANGED <<recording, paused, saving, hasAudio>>
-----------------------------------------------------------------------------
(* The browser *)

NoStart == [at |-> "idle", gen |-> 0, rec |-> NoStream]
MutStale == FALSE
Stale == start.gen # gen
Granted(s) ==
    /\ start.at = "media" /\ s \in Unused /\ ~Stale
    /\ ref' = s /\ recorder' = s /\ live' = live \cup {s} /\ rec' = [rec EXCEPT ![s] = "recording"]
    /\ recording' = TRUE /\ paused' = FALSE /\ starting' = FALSE /\ switching' = FALSE
    /\ start' = NoStart
    /\ UNCHANGED <<open, gen, chunks, saving, hasAudio, save, upload, raced, pauses>>
GrantedTooLate ==
    /\ start.at = "media" /\ Stale /\ start' = NoStart /\ switching' = FALSE
    /\ UNCHANGED <<open, refs, recording, paused, starting, saving, hasAudio, save, upload, raced, pauses>>
\* an error closes the dialog
Denied ==
    /\ start.at = "media" /\ start' = NoStart /\ starting' = FALSE /\ switching' = FALSE
    /\ IF open THEN Leave
       ELSE UNCHANGED <<open, refs, recording, paused, saving, hasAudio>>
    /\ UNCHANGED <<save, upload, raced, pauses>>

\* A timeslice of audio arrives; a detached recorder has no handler.
Chunk ==
    /\ recorder # NoStream /\ rec[recorder] = "recording"
    /\ chunks' = chunks \cup {recorder} /\ hasAudio' = TRUE
    /\ UNCHANGED <<open, gen, ref, recorder, rec, live, recording, paused, starting, switching,
                   saving, start, save, upload, raced, pauses>>
\* the device disappears: the recorder ends by itself and nobody listens
Unplug ==
    /\ recorder # NoStream /\ rec[recorder] # "inactive"
    /\ rec' = [rec EXCEPT ![recorder] = "inactive"] /\ live' = live \ {recorder}
    /\ UNCHANGED <<open, gen, ref, recorder, chunks, flags, start, save, upload, raced, pauses>>
-----------------------------------------------------------------------------
(* The user *)

Transport == ~starting /\ ~switching /\ ~saving
Pause ==
    /\ open /\ recording /\ Transport /\ pauses < MaxPauses /\ pauses' = pauses + 1
    /\ recorder # NoStream /\ rec[recorder] = "recording"
    /\ rec' = [rec EXCEPT ![recorder] = "paused"] /\ recording' = FALSE /\ paused' = TRUE
    /\ UNCHANGED <<open, gen, ref, recorder, live, chunks, starting, switching, saving, hasAudio,
                   start, save, upload, raced>>
Resume ==
    /\ open /\ ~recording /\ paused /\ Transport
    /\ recorder # NoStream /\ rec[recorder] = "paused"
    /\ rec' = [rec EXCEPT ![recorder] = "recording"] /\ recording' = TRUE /\ paused' = FALSE
    /\ UNCHANGED <<open, gen, ref, recorder, live, chunks, starting, switching, saving, hasAudio,
                   start, save, upload, raced, pauses>>
SwitchDevice ==
    /\ open /\ Transport /\ start.at = "idle"
    /\ Unused # {} /\ switching' = TRUE /\ StartCapture
    /\ UNCHANGED <<open, saving, save, upload, raced, pauses>>

Save ==
    /\ open /\ (hasAudio \/ recording) /\ Transport
    /\ saving' = TRUE /\ recording' = FALSE /\ paused' = FALSE /\ Detach
    /\ save' = [at |-> "stopping", rec |-> IF Stopping THEN recorder ELSE NoStream]
    /\ UNCHANGED <<open, ref, rec, live, chunks, starting, switching, hasAudio, start, upload,
                   raced, pauses>>
\* the blob is big enough: onSave unmounts the dialog and uploads it
BigEnough == chunks # {}
Uploads ==
    /\ save.at = "stopping" /\ BigEnough
    /\ save' = [at |-> "uploaded", rec |-> NoStream] /\ upload' = chunks
    /\ open' = FALSE /\ gen' = gen + 1 /\ recorder' = NoStream /\ rec' = Quiet(save.rec)
    /\ live' = live \ {ref} /\ ref' = NoStream /\ chunks' = {}
    /\ UNCHANGED <<flags, start, raced, pauses>>
\* too short, or the recorder failed: record again
Again == saving' = FALSE
TooShort ==
    /\ save.at = "stopping"
    /\ save' = [at |-> "idle", rec |-> NoStream] /\ Again
    /\ gen' = gen + 1 /\ recorder' = NoStream /\ Released(Quiet(save.rec)) /\ Ask(gen + 1)
    /\ UNCHANGED <<open, switching, upload, raced, pauses>>

\* Cancel is disabled while saving, the dialog's X and Escape are not.
Close ==
    /\ open /\ Leave /\ raced' = (raced \/ start.at = "stopping" \/ save.at = "stopping")
    /\ UNCHANGED <<starting, switching, start, save, upload, pauses>>
-----------------------------------------------------------------------------
\* mounted, startCapture has asked for the default microphone
Init ==
    /\ open = TRUE /\ gen = 1 /\ ref = NoStream /\ recorder = NoStream
    /\ rec = [s \in Stream |-> "none"] /\ live = {} /\ chunks = {}
    /\ recording = FALSE /\ paused = FALSE /\ starting = TRUE /\ switching = FALSE
    /\ saving = FALSE /\ hasAudio = FALSE
    /\ start = [at |-> "media", gen |-> 1, rec |-> NoStream] /\ save = [at |-> "idle", rec |-> NoStream]
    /\ upload = {} /\ raced = FALSE /\ pauses = 0

Browser == RecorderStopped \/ (\E s \in Stream : Granted(s)) \/ GrantedTooLate \/ Denied
Next ==
    \/ Browser
    \/ Chunk
    \/ Unplug
    \/ Pause
    \/ Resume
    \/ SwitchDevice
    \/ Save
    \/ Uploads
    \/ TooShort
    \/ Close
Spec == Init /\ [][Next]_rVars
-----------------------------------------------------------------------------
(* Properties *)

TypeOK ==
    /\ open \in BOOLEAN /\ gen \in Nat /\ ref \in Stream \cup {NoStream}
    /\ recorder \in Stream \cup {NoStream} /\ rec \in [Stream -> RecState]
    /\ live \subseteq Stream /\ chunks \subseteq Stream /\ upload \subseteq Stream
    /\ {recording, paused, starting, switching, saving, hasAudio, raced} \subseteq BOOLEAN
    /\ start.at \in StartAt /\ save.at \in SaveAt /\ pauses \in 0..MaxPauses

(* An uploaded recording is one take: what was recorded before the microphone was switched, or
   before a failed save, is not in it. *)
OneTake == Cardinality(upload) <= 1 /\ (open => Cardinality(chunks) <= 1)

(* The browser never holds two microphone streams open for one dialog. *)
OneMicrophone == Cardinality(live) <= 1

(* Once the dialog is closed and nothing is pending the microphone is off, except when it was
   closed while a recorder was being stopped. *)
Settled == start.at = "idle" /\ save.at # "stopping"
MicrophoneOff == ~open /\ Settled /\ ~raced => live = {}

(* A recording that was dismissed is never uploaded. *)
DismissedStays == [][~open => upload' = upload]_rVars

(* "Recording starts when you open this dialog": no recording starts once it is closed. *)
RecordsWhileOpen == [][\A s \in Stream : rec[s] = "none" /\ rec'[s] = "recording" => open]_rVars
=============================================================================
