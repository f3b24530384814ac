-------------------------- MODULE CaptureRunner_proofs -------------------------
(* Theorems about meeting captures, for any set of tasks and of worker jobs,    *)
(* any number of slots and of faults: thread and tick both persist the          *)
(* recording, and the persist lock together with what they read again under it  *)
(* makes that one audio.                                                        *)
EXTENDS CaptureRunner, TLAPS
-----------------------------------------------------------------------------
(* The inductive invariant *)

\* who fetches or stores a recording holds the lock of its task, and has read again under
\* the lock that there is no audio yet
PersistOK(a, t) ==
    /\ at[a][t] \in {"download", "save"} => lock[t] = a
    /\ at[a][t] = "save" => /\ audios[t] = 0
                            /\ obj[a][t].st = "running" /\ obj[a][t].audio = FALSE

\* an audio is known to the row from the commit that created it on
AudioOK(t) ==
    /\ audios[t] \in {0, 1}
    /\ row[t].audio = TRUE <=> audios[t] = 1
    /\ audios[t] = 1 => row[t].st # "absent"

(* TypeOK in three parts *)
ThreadPlace == {"none", "begin", "post", "loop", "ask", "salvage", "after", "enter", "download",
                "save", "leave"}
TickPlace == {"none", "todo", "ask", "enter", "download", "save", "start"}
AtTyped == at \in [Actor -> [Task -> ThreadPlace \cup TickPlace]]
RowsTyped == row \in [Task -> Row] /\ obj \in [Actor -> [Task -> Row]]
PlacesTyped == AtTyped /\ at["thread"] \in [Task -> ThreadPlace] /\ at["tick"] \in [Task -> TickPlace]
RestTyped ==
    /\ audios \in [Task -> Nat] /\ free \in BOOLEAN
    /\ job \in [Job -> LiveJob \cup {"free", "error", "gone", "canceled"}]
    /\ cancelled \subseteq Task /\ stopping \subseteq Task
    /\ lock \in [Task -> Actor \cup {None}]
    /\ pc \in {"down", "boot", "recovery", "idle", "tick"}
    /\ req = None \/ req \in [t : Task, sync : BOOLEAN, seen : Row]
    /\ faults \in 0 .. MaxFaults

IInv == TypeOK /\ AtTyped /\ (\A a \in Actor, t \in Task : PersistOK(a, t))
               /\ (\A t \in Task : AudioOK(t))

-----------------------------------------------------------------------------
(* What a step may do *)

\* what every step but the last one of a persist keeps of a row
RowKept == \A t \in Task : /\ row'[t].audio = row[t].audio
                           /\ row'[t].st = "absent" => row[t].st = "absent"
\* actor a has worked on task t, and only there
RowStep(a, t) ==
    /\ RowsTyped' /\ RowKept
    /\ \A b \in Actor, u \in Task : b # a \/ u # t => obj'[b][u] = obj[b][u]
PlaceStep(a, t) ==
    /\ PlacesTyped'
    /\ \A b \in Actor, u \in Task : at'[b][u] \in {"download", "save"} =>
           at'[b][u] = at[b][u] /\ (b # a \/ u # t)
\* nobody has entered a persist, and who is in one goes on undisturbed
HoldersKept ==
    \A b \in Actor, u \in Task : at'[b][u] \in {"download", "save"} =>
        at'[b][u] = at[b][u] /\ obj'[b][u] = obj[b][u] /\ lock'[u] = lock[u]
-----------------------------------------------------------------------------
(* Lemmas about rows and commits *)

LEMMA MergeTyped ==
    ASSUME NEW r \in Row, NEW old \in Row, NEW new \in Row
    PROVE  /\ Merge(r, old, new) \in Row
           /\ Merge(r, old, new).audio = Written(old.audio, new.audio, r.audio)
           /\ Merge(r, old, new).st = Written(old.st, new.st, r.st)
<1>1. DOMAIN r = {"st", "code", "audio", "bound", "wtask", "meta"}
    BY DEF Row
<1>2. \A c \in {"st", "code", "audio", "bound", "wtask", "meta"} :
          Merge(r, old, new)[c] = Written(old[c], new[c], r[c])
    BY <1>1 DEF Merge
<1>3. Merge(r, old, new) = [st |-> Written(old.st, new.st, r.st),
                            code |-> Written(old.code, new.code, r.code),
                            audio |-> Written(old.audio, new.audio, r.audio),
                            bound |-> Written(old.bound, new.bound, r.bound),
                            wtask |-> Written(old.wtask, new.wtask, r.wtask),
                            meta |-> Written(old.meta, new.meta, r.meta)]
    BY <1>1, <1>2 DEF Merge
<1> QED BY <1>3 DEF Row, Written

LEMMA TypeParts == TypeOK /\ AtTyped <=> RowsTyped /\ PlacesTyped /\ RestTyped
BY DEF TypeOK, RowsTyped, PlacesTyped, RestTyped, ThreadPlace, TickPlace

(* A commit of an object that keeps the audio and is of a known status keeps the row. *)
LEMMA CommitStep ==
    ASSUME RowsTyped, NEW a \in Actor, NEW t \in Task, NEW new \in Row, Commit(a, t, new),
           new.audio = obj[a][t].audio, new.st = obj[a][t].st \/ new.st # "absent"
    PROVE  RowStep(a, t)
<1> DEFINE m == Merge(row[t], obj[a][t], new)
<1>1. m \in Row /\ m.audio = row[t].audio /\ (m.st = "absent" => row[t].st = "absent")
    BY MergeTyped DEF RowsTyped, Written
<1>2. row' = [row EXCEPT ![t] = m] /\ obj' = [obj EXCEPT ![a][t] = new]
    BY DEF Commit
<1> HIDE DEF m
<1> QED BY <1>1, <1>2 DEF RowStep, RowKept, RowsTyped

LEMMA FailedTyped ==
    ASSUME NEW v \in Row, NEW c \in {"canceled", "no_worker", "failed"}
    PROVE  /\ FailedRow(v, c) \in Row /\ FailedRow(v, c).audio = v.audio
           /\ FailedRow(v, c).st = "error"
BY DEF FailedRow, Row, Status, Stage

LEMMA StageTyped ==
    ASSUME NEW v \in Row, NEW x \in Stage
    PROVE  /\ [v EXCEPT !.meta.stage = x] \in Row
           /\ [v EXCEPT !.meta.stage = x].audio = v.audio
           /\ [v EXCEPT !.meta.stage = x].st = v.st
BY DEF Row

LEMMA StagesOf == \A s : StageOf(s) \in Stage
BY DEF StageOf, Stage

LEMMA FailStep ==
    ASSUME RowsTyped, NEW a \in Actor, NEW t \in Task, NEW c \in {"canceled", "failed"},
           Fail(a, t, c)
    PROVE  RowStep(a, t)
<1> DEFINE v == FailedRow(obj[a][t], c)
<1>1. v \in Row /\ v.audio = obj[a][t].audio /\ v.st = "error"
    BY FailedTyped DEF RowsTyped
<1>2. Commit(a, t, v)
    BY DEF Fail
<1> HIDE DEF v
<1> QED BY <1>1, <1>2, CommitStep

LEMMA FailFreshStep ==
    ASSUME RowsTyped, NEW t \in Task, NEW c \in {"canceled", "failed"}, FailFresh(t, c)
    PROVE  RowStep("thread", t)
<1> DEFINE v == FailedRow(row[t], c)
<1>1. v \in Row /\ v.audio = row[t].audio /\ v.st = "error"
    BY FailedTyped DEF RowsTyped
<1>2. row' = [row EXCEPT ![t] = v] /\ obj' = [obj EXCEPT !["thread"][t] = v]
    BY DEF FailFresh
<1> HIDE DEF v
<1> QED BY <1>1, <1>2 DEF RowStep, RowKept, RowsTyped, Actor

(* The actor has only read the row again. *)
LEMMA ReadStep ==
    ASSUME RowsTyped, NEW a \in Actor, NEW t \in Task, UNCHANGED row,
           UNCHANGED obj \/ obj' = [obj EXCEPT ![a][t] = row[t]]
    PROVE  RowStep(a, t)
BY DEF RowStep, RowKept, RowsTyped

LEMMA GotoStep ==
    ASSUME PlacesTyped, NEW a \in Actor, NEW t \in Task, NEW w, Goto(a, t, w),
           w \in (IF a = "thread" THEN ThreadPlace ELSE TickPlace) \ {"download", "save"}
    PROVE  PlaceStep(a, t)
<1>1. w \in ThreadPlace \cup TickPlace
    OBVIOUS
<1>2. AtTyped'
    BY <1>1 DEF PlacesTyped, AtTyped, Goto
<1>3. \A b \in Actor, u \in Task : at'[b][u] = IF b = a /\ u = t THEN w ELSE at[b][u]
    BY DEF PlacesTyped, AtTyped, Goto
<1>4. at'["thread"] \in [Task -> ThreadPlace] /\ at'["tick"] \in [Task -> TickPlace]
    BY DEF PlacesTyped, AtTyped, Goto, Actor
<1> QED BY <1>2, <1>3, <1>4 DEF PlaceStep, PlacesTyped

LEMMA QuietKeeps ==
    ASSUME IInv, RowsTyped', RowKept, PlacesTyped', RestTyped', UNCHANGED audios, HoldersKept
    PROVE  IInv'
<1>1. TypeOK' /\ AtTyped'
    BY TypeParts DEF TypeOK, RowsTyped, PlacesTyped, RestTyped, ThreadPlace, TickPlace
<1>2. ASSUME NEW a \in Actor, NEW t \in Task PROVE PersistOK(a, t)'
    BY DEF IInv, PersistOK, HoldersKept
<1>3. ASSUME NEW t \in Task PROVE AudioOK(t)'
    BY DEF IInv, AudioOK, RowKept
<1> QED BY <1>1, <1>2, <1>3 DEF IInv

LEMMA StepKeepsHolders ==
    ASSUME NEW a \in Actor, NEW t \in Task, RowStep(a, t), PlaceStep(a, t), UNCHANGED lock
    PROVE  RowsTyped' /\ RowKept /\ PlacesTyped' /\ HoldersKept
BY DEF RowStep, PlaceStep, HoldersKept

LEMMA TickLookKeeps == ASSUME IInv, NEW t \in Task, TickLook(t) PROVE IInv'
<1> USE SlotsAssumption, TypeParts DEF TickLook, tickUnchanged, memVars
<1>0. RowsTyped /\ PlacesTyped /\ RestTyped
    BY DEF IInv
<1>1. RowStep("tick", t)
    BY <1>0, ReadStep DEF Actor
<1>2. PlaceStep("tick", t) /\ UNCHANGED lock
    BY <1>0, GotoStep DEF Actor, ThreadPlace, TickPlace
<1>3. RestTyped' /\ UNCHANGED audios
    BY <1>0 DEF RestTyped, Fault, NoFault, Actor
<1> QED BY <1>1, <1>2, <1>3, QuietKeeps, StepKeepsHolders DEF Actor

LEMMA TickAnswerKeeps == ASSUME IInv, NEW t \in Task, TickAnswer(t) PROVE IInv'
<1> USE SlotsAssumption, TypeParts DEF TickAnswer, tickUnchanged, memVars, NoFault, Fault
<1>0. RowsTyped /\ PlacesTyped /\ RestTyped
    BY DEF IInv
<1>1. RowStep("tick", t)
  <2> DEFINE v == obj["tick"][t]
  <2>1. v \in Row
    BY <1>0 DEF RowsTyped, Actor
  <2>2. CASE Commit("tick", t, [v EXCEPT !.meta.stage = StageOf(job[v.wtask])])
    <3> DEFINE w == [v EXCEPT !.meta.stage = StageOf(job[v.wtask])]
    <3>1. w \in Row /\ w.audio = v.audio /\ w.st = v.st
      BY <2>1, StageTyped, StagesOf
    <3>2. Commit("tick", t, w)
      BY <2>2
    <3> HIDE DEF w
    <3> QED BY <1>0, <3>1, <3>2, CommitStep DEF Actor
  <2>3. CASE UNCHANGED <<row, obj>>
    BY <1>0, <2>3, ReadStep DEF Actor
  <2> QED BY <2>2, <2>3
<1>2. PlaceStep("tick", t) /\ UNCHANGED lock
    BY <1>0, GotoStep DEF Actor, ThreadPlace, TickPlace
<1>3. RestTyped' /\ UNCHANGED audios
    BY <1>0 DEF RestTyped, Fault, NoFault, Actor
<1> QED BY <1>1, <1>2, <1>3, QuietKeeps, StepKeepsHolders DEF Actor

LEMMA LoopTopKeeps == ASSUME IInv, NEW t \in Task, LoopTop(t) PROVE IInv'
<1> USE SlotsAssumption, TypeParts DEF LoopTop, threadUnchanged, memVars, NoFault, Fault
<1>0. RowsTyped /\ PlacesTyped /\ RestTyped
    BY DEF IInv
<1>1. RowStep("thread", t)
    BY <1>0, ReadStep DEF Actor
<1>2. PlaceStep("thread", t) /\ UNCHANGED lock
    BY <1>0, GotoStep DEF Actor, ThreadPlace, TickPlace
<1>3. RestTyped' /\ UNCHANGED audios
    BY <1>0 DEF RestTyped, Fault, NoFault, Actor
<1> QED BY <1>1, <1>2, <1>3, QuietKeeps, StepKeepsHolders DEF Actor

LEMMA AfterLoopKeeps == ASSUME IInv, NEW t \in Task, AfterLoop(t) PROVE IInv'
<1> USE SlotsAssumption, TypeParts DEF AfterLoop, threadUnchanged, memVars, NoFault, Fault
<1>0. RowsTyped /\ PlacesTyped /\ RestTyped
    BY DEF IInv
<1>1. RowStep("thread", t)
    BY <1>0, ReadStep DEF Actor
<1>2. PlaceStep("thread", t) /\ UNCHANGED lock
    BY <1>0, GotoStep DEF Actor, ThreadPlace, TickPlace
<1>3. RestTyped' /\ UNCHANGED audios
    BY <1>0 DEF RestTyped, Fault, NoFault, Actor
<1> QED BY <1>1, <1>2, <1>3, QuietKeeps, StepKeepsHolders DEF Actor

LEMMA ThreadQuitKeeps == ASSUME IInv, NEW t \in Task, ThreadQuit(t) PROVE IInv'
<1> USE SlotsAssumption, TypeParts DEF ThreadQuit, threadUnchanged, memVars, NoFault, Fault
<1>0. RowsTyped /\ PlacesTyped /\ RestTyped
    BY DEF IInv
<1>1. RowStep("thread", t)
    BY <1>0, FailStep, FailFreshStep, ReadStep DEF Actor
<1>2. PlaceStep("thread", t) /\ UNCHANGED lock
  <2>1. \E w \in {"leave"} : Goto("thread", t, w)
    BY DEF FailFresh
  <2> QED BY <1>0, <2>1, GotoStep DEF Actor, ThreadPlace
<1>3. RestTyped' /\ UNCHANGED audios
    BY <1>0 DEF RestTyped, Fault, NoFault, Actor
<1> QED BY <1>1, <1>2, <1>3, QuietKeeps, StepKeepsHolders DEF Actor

LEMMA PostFailedKeeps == ASSUME IInv, NEW t \in Task, PostFailed(t) PROVE IInv'
<1> USE SlotsAssumption, TypeParts DEF PostFailed, threadUnchanged, memVars, NoFault, Fault
<1>0. RowsTyped /\ PlacesTyped /\ RestTyped
    BY DEF IInv
<1>1. RowStep("thread", t)
    BY <1>0, FailStep, FailFreshStep, ReadStep DEF Actor
<1>2. PlaceStep("thread", t) /\ UNCHANGED lock
  <2>1. \E w \in {"leave", "loop", "after"} : Goto("thread", t, w)
    BY DEF FailFresh, Fail, Exit
  <2> QED BY <1>0, <2>1, GotoStep DEF Actor, ThreadPlace
<1>3. RestTyped' /\ UNCHANGED audios
    BY <1>0 DEF RestTyped, Fault, NoFault, Actor, ForwardStop, DeleteJob, LiveJob
<1> QED BY <1>1, <1>2, <1>3, QuietKeeps, StepKeepsHolders DEF Actor

LEMMA SalvageKeeps == ASSUME IInv, NEW t \in Task, Salvage(t) PROVE IInv'
<1> USE SlotsAssumption, TypeParts DEF Salvage, threadUnchanged, memVars, NoFault, Fault
<1>0. RowsTyped /\ PlacesTyped /\ RestTyped
    BY DEF IInv
<1>1. RowStep("thread", t)
    BY <1>0, FailStep, FailFreshStep, ReadStep DEF Actor
<1>2. PlaceStep("thread", t) /\ UNCHANGED lock
  <2>1. \E w \in {"leave", "loop", "after"} : Goto("thread", t, w)
    BY DEF FailFresh, Fail, Exit
  <2> QED BY <1>0, <2>1, GotoStep DEF Actor, ThreadPlace
<1>3. RestTyped' /\ UNCHANGED audios
    BY <1>0 DEF RestTyped, Fault, NoFault, Actor, ForwardStop, DeleteJob, LiveJob
<1> QED BY <1>1, <1>2, <1>3, QuietKeeps, StepKeepsHolders DEF Actor

LEMMA AskFailedKeeps == ASSUME IInv, NEW t \in Task, AskFailed(t) PROVE IInv'
<1> USE SlotsAssumption, TypeParts DEF AskFailed, threadUnchanged, memVars, NoFault, Fault
<1>0. RowsTyped /\ PlacesTyped /\ RestTyped
    BY DEF IInv
<1>1. RowStep("thread", t)
    BY <1>0, FailStep, FailFreshStep, ReadStep DEF Actor
<1>2. PlaceStep("thread", t) /\ UNCHANGED lock
  <2>1. \E w \in {"leave", "loop", "after"} : Goto("thread", t, w)
    BY DEF FailFresh, Fail, Exit
  <2> QED BY <1>0, <2>1, GotoStep DEF Actor, ThreadPlace
<1>3. RestTyped' /\ UNCHANGED audios
    BY <1>0 DEF RestTyped, Fault, NoFault, Actor
<1> QED BY <1>1, <1>2, <1>3, QuietKeeps, StepKeepsHolders DEF Actor

LEMMA AskTerminalKeeps == ASSUME IInv, NEW t \in Task, AskTerminal(t) PROVE IInv'
<1> USE SlotsAssumption, TypeParts DEF AskTerminal, threadUnchanged, memVars, NoFault, Fault
<1>0. RowsTyped /\ PlacesTyped /\ RestTyped
    BY DEF IInv
<1>1. RowStep("thread", t)
    BY <1>0, FailStep, FailFreshStep, ReadStep DEF Actor
<1>2. PlaceStep("thread", t) /\ UNCHANGED lock
  <2>1. \E w \in {"leave", "loop", "after"} : Goto("thread", t, w)
    BY DEF FailFresh, Fail, Exit
  <2> QED BY <1>0, <2>1, GotoStep DEF Actor, ThreadPlace
<1>3. RestTyped' /\ UNCHANGED audios
    BY <1>0 DEF RestTyped, Fault, NoFault, Actor
<1> QED BY <1>1, <1>2, <1>3, QuietKeeps, StepKeepsHolders DEF Actor

LEMMA AskActiveKeeps == ASSUME IInv, NEW t \in Task, AskActive(t) PROVE IInv'
<1> USE SlotsAssumption, TypeParts DEF AskActive, threadUnchanged, memVars, NoFault, Fault
<1>0. RowsTyped /\ PlacesTyped /\ RestTyped
    BY DEF IInv
<1>1. RowStep("thread", t)
  <2>1. CASE Commit("thread", t, [obj["thread"][t] EXCEPT
                 !.meta.stage = IF Pending("thread", t) THEN "finalizing" ELSE StageOf(job[Held(t)])])
    <3> DEFINE x == IF Pending("thread", t) THEN "finalizing" ELSE StageOf(job[Held(t)])
             w == [obj["thread"][t] EXCEPT !.meta.stage = x]
    <3>1. x \in Stage
      <4>1. CASE Pending("thread", t)
        BY <4>1 DEF Stage
      <4>2. CASE ~Pending("thread", t)
        BY <4>2, StagesOf
      <4> QED BY <4>1, <4>2
    <3> HIDE DEF x
    <3>2. w \in Row /\ w.audio = obj["thread"][t].audio /\ w.st = obj["thread"][t].st
      BY <1>0, <3>1, StageTyped DEF RowsTyped, Actor
    <3>3. Commit("thread", t, w)
      BY <2>1 DEF x
    <3> HIDE DEF w
    <3> QED BY <1>0, <3>2, <3>3, CommitStep DEF Actor
  <2>2. CASE Fail("thread", t, "failed")
    BY <1>0, <2>2, FailStep DEF Actor
  <2> QED BY <2>1, <2>2
<1>2. PlaceStep("thread", t) /\ UNCHANGED lock
  <2>1. \E w \in {"leave", "loop", "after"} : Goto("thread", t, w)
    BY DEF FailFresh, Fail, Exit
  <2> QED BY <1>0, <2>1, GotoStep DEF Actor, ThreadPlace
<1>3. RestTyped' /\ UNCHANGED audios
    BY <1>0 DEF RestTyped, Fault, NoFault, Actor, ForwardStop, DeleteJob, LiveJob
<1> QED BY <1>1, <1>2, <1>3, QuietKeeps, StepKeepsHolders DEF Actor

LEMMA AskCanceledKeeps == ASSUME IInv, NEW t \in Task, AskCanceled(t) PROVE IInv'
<1> USE SlotsAssumption, TypeParts DEF AskCanceled, threadUnchanged, memVars, NoFault, Fault
<1>0. RowsTyped /\ PlacesTyped /\ RestTyped
    BY DEF IInv
<1>1. RowStep("thread", t)
  <2>1. CASE Commit("thread", t, [obj["thread"][t] EXCEPT
                 !.meta.stage = "finalizing"])
    <3> DEFINE x == "finalizing"
             w == [obj["thread"][t] EXCEPT !.meta.stage = x]
    <3>1. x \in Stage
      BY DEF Stage
    <3> HIDE DEF x
    <3>2. w \in Row /\ w.audio = obj["thread"][t].audio /\ w.st = obj["thread"][t].st
      BY <1>0, <3>1, StageTyped DEF RowsTyped, Actor
    <3>3. Commit("thread", t, w)
      BY <2>1 DEF x
    <3> HIDE DEF w
    <3> QED BY <1>0, <3>2, <3>3, CommitStep DEF Actor
  <2>2. CASE Fail("thread", t, "canceled")
    BY <1>0, <2>2, FailStep DEF Actor
  <2> QED BY <2>1, <2>2
<1>2. PlaceStep("thread", t) /\ UNCHANGED lock
  <2>1. \E w \in {"leave", "loop", "after"} : Goto("thread", t, w)
    BY DEF FailFresh, Fail, Exit
  <2> QED BY <1>0, <2>1, GotoStep DEF Actor, ThreadPlace
<1>3. RestTyped' /\ UNCHANGED audios
    BY <1>0 DEF RestTyped, Fault, NoFault, Actor
<1> QED BY <1>1, <1>2, <1>3, QuietKeeps, StepKeepsHolders DEF Actor

LEMMA WriteStep ==
    ASSUME RowsTyped, NEW a \in Actor, NEW t \in Task, NEW w \in Row,
           w.audio = row[t].audio, w.st = "absent" => row[t].st = "absent",
           row' = [row EXCEPT ![t] = w], UNCHANGED obj \/ obj' = [obj EXCEPT ![a][t] = w]
    PROVE  RowStep(a, t)
BY DEF RowStep, RowKept, RowsTyped

LEMMA LoadStep ==
    ASSUME RowsTyped, PlacesTyped, NEW S, Load(S), UNCHANGED row
    PROVE  /\ RowsTyped' /\ RowKept /\ PlacesTyped'
           /\ \A b \in Actor, u \in Task : at'[b][u] \in {"download", "save"} =>
                  b # "tick" /\ at'[b][u] = at[b][u] /\ obj'[b][u] = obj[b][u]
<1>1. RowsTyped' /\ RowKept
    BY DEF Load, RowsTyped, RowKept
<1>2. PlacesTyped'
    BY DEF Load, PlacesTyped, AtTyped, ThreadPlace, TickPlace, Actor
<1>3. \A u \in Task : at'["tick"][u] \in {"todo", "none"} /\ at'["thread"] = at["thread"]
                        /\ obj'["thread"] = obj["thread"]
    BY DEF Load, PlacesTyped, AtTyped, RowsTyped, Actor
<1> QED BY <1>1, <1>2, <1>3 DEF Actor

LEMMA FreeKeeps ==
    ASSUME IInv, NEW a \in Actor, NEW t \in Task, at[a][t] \in {"download", "save"},
           lock' = [lock EXCEPT ![t] = None],
           \A b \in Actor, u \in Task : at'[b][u] \in {"download", "save"} =>
               at'[b][u] = at[b][u] /\ obj'[b][u] = obj[b][u] /\ (b # a \/ u # t)
    PROVE  HoldersKept
BY DEF IInv, PersistOK, HoldersKept, TypeOK

LEMMA ThreadPostKeeps == ASSUME IInv, NEW t \in Task, ThreadPost(t) PROVE IInv'
<1> USE SlotsAssumption, TypeParts DEF ThreadPost, threadUnchanged, memVars, NoFault, Fault
<1>0. RowsTyped /\ PlacesTyped /\ RestTyped
    BY DEF IInv
<1>1. RowStep("thread", t)
  <2> DEFINE v == row[t]
             w == [v EXCEPT !.bound = TRUE, !.wtask = None, !.meta.stage = "joining"]
  <2>0. v \in Row
    BY <1>0 DEF RowsTyped
  <2>1. w \in Row /\ w.audio = v.audio /\ w.st = v.st
    BY <2>0 DEF Row, Stage
  <2>2. row' = [row EXCEPT ![t] = w]
    BY <1>0 DEF RowsTyped
  <2>3. obj' = [obj EXCEPT !["thread"][t] = w]
    BY <1>0, <2>2 DEF RowsTyped
  <2> HIDE DEF w, ThreadPost
  <2> QED BY <1>0, <2>1, <2>2, <2>3, WriteStep DEF Actor
<1>2. PlaceStep("thread", t) /\ UNCHANGED lock
    BY <1>0, GotoStep DEF Actor, ThreadPlace, TickPlace
<1>3. RestTyped' /\ UNCHANGED audios
    BY <1>0 DEF RestTyped, Fault, NoFault, Actor
<1> QED BY <1>1, <1>2, <1>3, QuietKeeps, StepKeepsHolders DEF Actor

LEMMA ThreadResumeKeeps == ASSUME IInv, NEW t \in Task, ThreadResume(t) PROVE IInv'
<1> USE SlotsAssumption, TypeParts DEF ThreadResume, threadUnchanged, memVars, NoFault, Fault
<1>0. RowsTyped /\ PlacesTyped /\ RestTyped
    BY DEF IInv
<1>1. RowStep("thread", t)
  <2>1. CASE t \in stopping \/ row[t].meta.stop
    <3> DEFINE w == [row[t] EXCEPT !.meta.stage = "finalizing"]
    <3>1. w \in Row /\ w.audio = row[t].audio /\ w.st = row[t].st
      BY <1>0, StageTyped DEF RowsTyped, Stage
    <3>2. row' = [row EXCEPT ![t] = w]
      BY <2>1
    <3>3. obj' = [obj EXCEPT !["thread"][t] = w]
      BY <1>0, <3>2 DEF RowsTyped
    <3> HIDE DEF w
    <3> QED BY <1>0, <3>1, <3>2, <3>3, WriteStep DEF Actor
  <2>2. CASE ~(t \in stopping \/ row[t].meta.stop)
    BY <1>0, <2>2, ReadStep DEF Actor
  <2> QED BY <2>1, <2>2
<1>2. PlaceStep("thread", t) /\ UNCHANGED lock
    BY <1>0, GotoStep DEF Actor, ThreadPlace, TickPlace
<1>3. RestTyped' /\ UNCHANGED audios
    BY <1>0 DEF RestTyped, Fault, NoFault, Actor, ForwardStop, DeleteJob, LiveJob
<1> QED BY <1>1, <1>2, <1>3, QuietKeeps, StepKeepsHolders DEF Actor

LEMMA PostAcceptedKeeps == ASSUME IInv, NEW t \in Task, NEW j \in Job, PostAccepted(t, j) PROVE IInv'
<1> USE SlotsAssumption, TypeParts DEF PostAccepted, threadUnchanged, memVars, NoFault, Fault
<1>0. RowsTyped /\ PlacesTyped /\ RestTyped
    BY DEF IInv
<1>1. RowStep("thread", t)
  <2> DEFINE x == IF Pending("thread", t) THEN "finalizing" ELSE "accepted"
             v == obj["thread"][t]
             w == [v EXCEPT !.wtask = j, !.meta.stage = x]
  <2>1. v \in Row /\ x \in Stage
    BY <1>0 DEF RowsTyped, Actor, Stage
  <2>2. w \in Row /\ w.audio = v.audio /\ w.st = v.st
    BY <2>1 DEF Row
  <2>3. Commit("thread", t, w)
    OBVIOUS
  <2> HIDE DEF w
  <2> QED BY <1>0, <2>2, <2>3, CommitStep DEF Actor
<1>2. PlaceStep("thread", t) /\ UNCHANGED lock
    BY <1>0, GotoStep DEF Actor, ThreadPlace
<1>3. RestTyped' /\ UNCHANGED audios
    BY <1>0 DEF RestTyped, Fault, NoFault, Actor, ForwardStop, DeleteJob, LiveJob
<1> QED BY <1>1, <1>2, <1>3, QuietKeeps, StepKeepsHolders DEF Actor

LEMMA AskReadyKeeps == ASSUME IInv, NEW t \in Task, AskReady(t) PROVE IInv'
<1> USE SlotsAssumption, TypeParts DEF AskReady, threadUnchanged, memVars, NoFault, Fault
<1>0. RowsTyped /\ PlacesTyped /\ RestTyped
    BY DEF IInv
<1>1. RowStep("thread", t)
  <2> DEFINE v == obj["thread"][t]
             w == [v EXCEPT !.meta.stage = "downloading", !.meta.stop = FALSE]
  <2>1. v \in Row
    BY <1>0 DEF RowsTyped, Actor
  <2>2. w \in Row /\ w.audio = v.audio /\ w.st = v.st
    BY <2>1 DEF Row, Stage
  <2>3. Commit("thread", t, w)
    OBVIOUS
  <2> HIDE DEF w
  <2> QED BY <1>0, <2>2, <2>3, CommitStep DEF Actor
<1>2. PlaceStep("thread", t) /\ UNCHANGED lock
    BY <1>0, GotoStep DEF Actor, ThreadPlace, TickPlace
<1>3. RestTyped' /\ UNCHANGED audios
    BY <1>0 DEF RestTyped, Fault, NoFault, Actor
<1> QED BY <1>1, <1>2, <1>3, QuietKeeps, StepKeepsHolders DEF Actor

LEMMA ThreadLeaveKeeps == ASSUME IInv, NEW t \in Task, ThreadLeave(t) PROVE IInv'
<1> USE SlotsAssumption, TypeParts DEF ThreadLeave, DeleteJob, Fault, NoFault
<1>0. RowsTyped /\ PlacesTyped /\ RestTyped
    BY DEF IInv
<1>1. RowStep("thread", t)
  <2>1. NoRow \in Row
    BY DEF NoRow, Row, Status, Stage
  <2> QED BY <1>0, <2>1 DEF RowStep, RowKept, RowsTyped
<1>2. PlaceStep("thread", t) /\ UNCHANGED lock
    BY <1>0, GotoStep DEF Actor, ThreadPlace, TickPlace
<1>3. RestTyped' /\ UNCHANGED audios
    BY <1>0 DEF RestTyped, Fault, NoFault, Actor, ForwardStop, DeleteJob, LiveJob
<1> QED BY <1>1, <1>2, <1>3, QuietKeeps, StepKeepsHolders DEF Actor

LEMMA MaybeStartCaptureKeeps == ASSUME IInv, NEW t \in Task, MaybeStartCapture(t) PROVE IInv'
<1> USE SlotsAssumption, TypeParts DEF MaybeStartCapture, tickUnchanged, memVars
<1>0. RowsTyped /\ PlacesTyped /\ RestTyped
    BY DEF IInv
<1>1. RowStep("tick", t)
  <2> DEFINE v == obj["tick"][t]
             started == [v EXCEPT !.st = "running", !.meta.stage = "queued"]
             failed == FailedRow(v, "no_worker")
  <2>1. v \in Row
    BY <1>0 DEF RowsTyped, Actor
  <2>2. started \in Row /\ started.audio = v.audio /\ started.st = "running"
    BY <2>1 DEF Row, Status, Stage
  <2>3. failed \in Row /\ failed.audio = v.audio /\ failed.st = "error"
    BY <2>1, FailedTyped
  <2>4. \/ UNCHANGED <<row, obj>>
        \/ Commit("tick", t, v) \/ Commit("tick", t, started) \/ Commit("tick", t, failed)
    OBVIOUS
  <2> HIDE DEF started, failed
  <2> QED BY <1>0, <2>1, <2>2, <2>3, <2>4, CommitStep, ReadStep DEF Actor
<1>2. PlaceStep("tick", t) /\ UNCHANGED lock
  <2>1. CASE Goto("tick", t, "none")
    BY <1>0, <2>1, GotoStep DEF Actor, TickPlace
  <2>2. CASE at' = [at EXCEPT !["tick"][t] = "none", !["thread"][t] = "begin"]
    BY <1>0, <2>2 DEF PlaceStep, PlacesTyped, AtTyped, ThreadPlace, TickPlace, Actor
  <2> QED BY <2>1, <2>2
<1>3. RestTyped' /\ UNCHANGED audios
    BY <1>0 DEF RestTyped, Fault, NoFault, Actor
<1> QED BY <1>1, <1>2, <1>3, QuietKeeps, StepKeepsHolders DEF Actor

LEMMA LostTyped ==
    ASSUME NEW v \in Row
    PROVE  LoseLink(v) \in Row /\ LoseLink(v).audio = v.audio /\ LoseLink(v).st \in {"error", "queued"}
<1>1. CASE v.meta.stage \in DispatchedStages
    BY <1>1, FailedTyped DEF LoseLink
<1>2. CASE v.meta.stage \notin DispatchedStages
    BY <1>2 DEF LoseLink, Row, Status, Stage
<1> QED BY <1>1, <1>2

LEMMA RecoverKeeps == ASSUME IInv, NEW t \in Task, Recover(t) PROVE IInv'
<1> USE SlotsAssumption, TypeParts DEF Recover, tickUnchanged, memVars
<1>0. RowsTyped /\ PlacesTyped /\ RestTyped
    BY DEF IInv
<1>1. RowStep("tick", t)
  <2> DEFINE v == obj["tick"][t]
             lost == LoseLink(v)
             failed(c) == FailedRow(v, c)
             seen(x) == [v EXCEPT !.meta.stage = x]
  <2>1. v \in Row
    BY <1>0 DEF RowsTyped, Actor
  <2>2. lost \in Row /\ lost.audio = v.audio /\ lost.st # "absent"
    BY <2>1, LostTyped
  <2>3. \A c \in {"failed", "canceled"} :
            failed(c) \in Row /\ failed(c).audio = v.audio /\ failed(c).st # "absent"
    BY <2>1, FailedTyped
  <2>4. \A x \in Stage : seen(x) \in Row /\ seen(x).audio = v.audio /\ seen(x).st = v.st
    BY <2>1, StageTyped
  <2>5. \/ UNCHANGED <<row, obj>> \/ Commit("tick", t, lost)
        \/ \E c \in {"failed", "canceled"} : Commit("tick", t, failed(c))
        \/ \E x \in Stage : Commit("tick", t, seen(x))
    BY StagesOf DEF Stage
  <2> HIDE DEF lost, failed, seen
  <2> QED BY <1>0, <2>2, <2>3, <2>4, <2>5, CommitStep, ReadStep DEF Actor
<1>2. PlaceStep("tick", t) /\ UNCHANGED lock
    BY <1>0, GotoStep DEF Actor, ThreadPlace, TickPlace
<1>3. RestTyped' /\ UNCHANGED audios
    BY <1>0 DEF RestTyped, Fault, NoFault, Actor, ForwardStop, DeleteJob, LiveJob
<1> QED BY <1>1, <1>2, <1>3, QuietKeeps, StepKeepsHolders DEF Actor

LEMMA ExitStep ==
    ASSUME PlacesTyped, NEW a \in Actor, NEW t \in Task, Goto(a, t, Exit(a))
    PROVE  PlaceStep(a, t)
<1>1. Exit(a) \in (IF a = "thread" THEN ThreadPlace ELSE TickPlace) \ {"download", "save"}
    BY DEF Exit, ThreadPlace, TickPlace
<1> QED BY <1>1, GotoStep

(* Entering: the lock was free, so the other actor is not in a persist of this task. *)
LEMMA PersistEnterKeeps ==
    ASSUME IInv, NEW a \in Actor, NEW t \in Task, PersistEnter(a, t)
    PROVE  IInv'
<1> USE TypeParts
<1>0. RowsTyped /\ PlacesTyped /\ RestTyped
    BY DEF IInv
<1>1. CASE row[t].audio \/ row[t].st # "running"
  <2>1. RowStep(a, t)
    BY <1>0, <1>1, ReadStep DEF PersistEnter
  <2>2. PlaceStep(a, t) /\ UNCHANGED lock
    BY <1>0, <1>1, ExitStep DEF PersistEnter
  <2>3. RestTyped' /\ UNCHANGED audios
    BY <1>0, <2>2 DEF PersistEnter, RestTyped, persistUnchanged, memVars
  <2> QED BY <2>1, <2>2, <2>3, QuietKeeps, StepKeepsHolders
<1>2. CASE ~(row[t].audio \/ row[t].st # "running")
  <2> DEFINE w == [row[t] EXCEPT !.meta.stage = "downloading"]
  <2>1. w \in Row /\ w.audio = row[t].audio /\ w.st = row[t].st
    BY <1>0, StageTyped DEF RowsTyped, Stage
  <2>2. row' = [row EXCEPT ![t] = w]
    BY <1>2 DEF PersistEnter
  <2>3. obj' = [obj EXCEPT ![a][t] = w]
    BY <1>0, <1>2, <2>2 DEF PersistEnter, RowsTyped
  <2>4. /\ Goto(a, t, "download") /\ lock' = [lock EXCEPT ![t] = a] /\ lock[t] = None
        /\ UNCHANGED <<audios, job, free, cancelled, stopping, pc, req, faults>>
    BY <1>2 DEF PersistEnter, persistUnchanged, memVars
  <2> HIDE DEF w
  <2>5. RowStep(a, t)
    BY <1>0, <2>1, <2>2, <2>3, WriteStep
  <2>6. PlacesTyped'
    BY <1>0, <2>4 DEF PlacesTyped, AtTyped, Goto, ThreadPlace, TickPlace, Actor
  <2>7. RestTyped'
    BY <1>0, <2>4 DEF RestTyped
  <2>8. ASSUME NEW b \in Actor, NEW u \in Task PROVE PersistOK(b, u)'
    <3>1. at'[b][u] = IF b = a /\ u = t THEN "download" ELSE at[b][u]
      BY <1>0, <2>4 DEF PlacesTyped, AtTyped, Goto
    <3>2. b # a \/ u # t => obj'[b][u] = obj[b][u]
      BY <2>5 DEF RowStep
    <3>3. lock'[u] = IF u = t THEN a ELSE lock[u]
      BY <1>0, <2>4 DEF RestTyped
    <3>4. lock[t] # b
      BY <2>4, NoneAssumption
    <3> QED BY <2>4, <3>1, <3>2, <3>3, <3>4 DEF IInv, PersistOK
  <2>9. ASSUME NEW u \in Task PROVE AudioOK(u)'
    BY <2>4, <2>5 DEF IInv, AudioOK, RowStep, RowKept
  <2> QED BY <2>5, <2>6, <2>7, <2>8, <2>9, TypeParts DEF IInv, RowStep, TypeOK, RowsTyped, PlacesTyped,
                                               RestTyped, ThreadPlace, TickPlace
<1> QED BY <1>1, <1>2

LEMMA PersistFailKeeps ==
    ASSUME IInv, NEW a \in Actor, NEW t \in Task, PersistFail(a, t)
    PROVE  IInv'
<1> USE TypeParts
<1>0. RowsTyped /\ PlacesTyped /\ RestTyped
    BY DEF IInv
<1>1. RowStep(a, t)
    BY <1>0, FailStep DEF PersistFail
<1>2. PlaceStep(a, t)
    BY <1>0, ExitStep DEF PersistFail, Fail
<1>3. RestTyped' /\ UNCHANGED audios
    BY <1>0 DEF PersistFail, RestTyped, persistUnchanged, memVars
<1>4. HoldersKept
    BY <1>1, <1>2, FreeKeeps DEF PersistFail, RowStep, PlaceStep
<1> QED BY <1>1, <1>2, <1>3, <1>4, QuietKeeps DEF RowStep, PlaceStep

LEMMA PersistRaiseKeeps ==
    ASSUME IInv, NEW a \in Actor, NEW t \in Task, PersistRaise(a, t)
    PROVE  IInv'
<1> USE TypeParts
<1>0. RowsTyped /\ PlacesTyped /\ RestTyped
    BY DEF IInv
<1>1. RestTyped' /\ UNCHANGED audios
  <2>1. pc' \in {pc, "idle"} /\ faults' \in 0 .. MaxFaults
    BY <1>0, SlotsAssumption DEF PersistRaise, RestTyped, Fault
  <2> QED BY <1>0, <2>1 DEF PersistRaise, RestTyped, memVars
<1>2. CASE a = "thread"
  <2>1. RowStep(a, t)
    BY <1>0, <1>2, FailFreshStep DEF PersistRaise
  <2>2. PlaceStep(a, t)
    BY <1>0, <1>2, GotoStep DEF PersistRaise, FailFresh, ThreadPlace
  <2>3. HoldersKept
    BY <2>1, <2>2, FreeKeeps DEF PersistRaise, RowStep, PlaceStep
  <2> QED BY <1>1, <2>1, <2>2, <2>3, QuietKeeps DEF RowStep, PlaceStep
<1>3. CASE a = "tick"
  <2>1. Load({}) /\ UNCHANGED row
    BY <1>3 DEF PersistRaise
  <2>2. HoldersKept
    <3>1. \A b \in Actor, u \in Task : at'[b][u] \in {"download", "save"} =>
              at'[b][u] = at[b][u] /\ obj'[b][u] = obj[b][u] /\ (b # a \/ u # t)
      BY <1>0, <1>3, <2>1, LoadStep
    <3>2. at[a][t] \in {"download", "save"} /\ lock' = [lock EXCEPT ![t] = None]
      BY DEF PersistRaise
    <3> QED BY <3>1, <3>2, FreeKeeps
  <2> QED BY <1>0, <1>1, <2>1, <2>2, LoadStep, QuietKeeps
<1> QED BY <1>2, <1>3 DEF Actor

(* Fetched: the object is read again while the lock is held. *)
LEMMA PersistFetchedKeeps ==
    ASSUME IInv, NEW a \in Actor, NEW t \in Task, PersistFetched(a, t)
    PROVE  IInv'
<1> USE TypeParts
<1>0. RowsTyped /\ PlacesTyped /\ RestTyped
    BY DEF IInv
<1>1. RowStep(a, t)
    BY <1>0, ReadStep DEF PersistFetched
<1>2. RestTyped' /\ UNCHANGED audios
    BY <1>0 DEF PersistFetched, RestTyped, persistUnchanged, memVars
<1>3. CASE row[t].audio \/ row[t].st # "running"
  <2>1. PlaceStep(a, t)
    BY <1>0, <1>3, ExitStep DEF PersistFetched
  <2>2. HoldersKept
    BY <1>1, <1>3, <2>1, FreeKeeps DEF PersistFetched, RowStep, PlaceStep
  <2> QED BY <1>1, <1>2, <2>1, <2>2, QuietKeeps DEF RowStep, PlaceStep
<1>4. CASE ~(row[t].audio \/ row[t].st # "running")
  <2>1. Goto(a, t, "save") /\ UNCHANGED lock /\ obj' = [obj EXCEPT ![a][t] = row[t]]
    BY <1>4 DEF PersistFetched
  <2>2. PlacesTyped'
    BY <1>0, <2>1 DEF PlacesTyped, AtTyped, Goto, ThreadPlace, TickPlace, Actor
  <2>3. ASSUME NEW b \in Actor, NEW u \in Task PROVE PersistOK(b, u)'
    <3>1. at'[b][u] = IF b = a /\ u = t THEN "save" ELSE at[b][u]
      BY <1>0, <2>1 DEF PlacesTyped, AtTyped, Goto
    <3>2. CASE b = a /\ u = t
      <4>1. obj'[b][u] = row[t] /\ lock'[u] = b
        BY <1>0, <2>1, <3>2 DEF RowsTyped, PersistFetched, IInv, PersistOK
      <4>2. row[t].audio = FALSE /\ row[t].st = "running"
        BY <1>0, <1>4 DEF RowsTyped, Row
      <4>3. audios'[t] = 0
        BY <1>2, <4>2 DEF IInv, AudioOK
      <4> QED BY <3>2, <4>1, <4>2, <4>3 DEF PersistOK
    <3>3. CASE ~(b = a /\ u = t)
      BY <1>1, <1>2, <2>1, <3>1, <3>3 DEF IInv, PersistOK, RowStep
    <3> QED BY <3>2, <3>3
  <2>4. ASSUME NEW u \in Task PROVE AudioOK(u)'
    BY <1>1, <1>2 DEF IInv, AudioOK, RowStep, RowKept
  <2> QED BY <1>1, <1>2, <2>2, <2>3, <2>4, TypeParts DEF IInv, RowStep, TypeOK, RowsTyped, PlacesTyped,
                                                    RestTyped, ThreadPlace, TickPlace
<1> QED BY <1>3, <1>4

(* Stored: only the holder of the lock gets here, and it has seen no audio. *)
LEMMA PersistSavedKeeps ==
    ASSUME IInv, NEW a \in Actor, NEW t \in Task, PersistSaved(a, t)
    PROVE  IInv'
<1> DEFINE v == obj[a][t]
           w == [v EXCEPT !.st = "success", !.code = "none", !.audio = TRUE, !.meta.stage = "done"]
           m == Merge(row[t], v, w)
<1> USE TypeParts
<1>0. RowsTyped /\ PlacesTyped /\ RestTyped
    BY DEF IInv
<1>1. /\ at[a][t] = "save" /\ lock[t] = a /\ audios[t] = 0
      /\ v.st = "running" /\ v.audio = FALSE
    BY DEF PersistSaved, IInv, PersistOK
<1>2. v \in Row
    BY <1>0 DEF RowsTyped
<1>3. w \in Row /\ w.audio = TRUE /\ w.st = "success"
    BY <1>2 DEF Row, Status, Stage
<1>4. row' = [row EXCEPT ![t] = m] /\ obj' = [obj EXCEPT ![a][t] = w]
    BY DEF PersistSaved, Commit
<1> HIDE DEF w
<1>5. m \in Row /\ m.audio = TRUE /\ m.st = "success"
    BY <1>0, <1>1, <1>2, <1>3, MergeTyped DEF RowsTyped, Written
<1> HIDE DEF m, v
<1>6. RowsTyped'
    BY <1>0, <1>3, <1>4, <1>5 DEF RowsTyped
<1>7. PlaceStep(a, t)
    BY <1>0, ExitStep DEF PersistSaved
<1>8. audios' = [audios EXCEPT ![t] = 1]
    BY <1>0, <1>1 DEF PersistSaved, RestTyped
<1>9. lock' = [lock EXCEPT ![t] = None]
    BY DEF PersistSaved
<1>10. RestTyped'
    BY <1>0, <1>8, <1>9 DEF PersistSaved, RestTyped, persistUnchanged, memVars
<1>11. ASSUME NEW b \in Actor, NEW u \in Task PROVE PersistOK(b, u)'
  <2>1. CASE u = t
    BY <1>1, <1>7, <2>1 DEF IInv, PersistOK, PlaceStep
  <2>2. CASE u # t
    <3>1. obj'[b][u] = obj[b][u] /\ lock'[u] = lock[u] /\ audios'[u] = audios[u]
      BY <1>0, <1>4, <1>8, <1>9, <2>2 DEF RowsTyped, RestTyped
    <3> QED BY <1>7, <3>1 DEF IInv, PersistOK, PlaceStep
  <2> QED BY <2>1, <2>2
<1>12. ASSUME NEW u \in Task PROVE AudioOK(u)'
  <2>1. CASE u = t
    BY <1>0, <1>4, <1>5, <1>8, <2>1 DEF AudioOK, RowsTyped, RestTyped
  <2>2. CASE u # t
    BY <1>0, <1>4, <1>8, <2>2 DEF IInv, AudioOK, RowsTyped, RestTyped
  <2> QED BY <2>1, <2>2
<1> QED BY <1>6, <1>7, <1>10, <1>11, <1>12, TypeParts DEF IInv, PlaceStep, TypeOK, RowsTyped, PlacesTyped,
                                                     RestTyped, ThreadPlace, TickPlace

(* Endpoints, workers and the death of the process leave thread and tick where they are. *)
LEMMA StillHolders ==
    ASSUME UNCHANGED <<at, obj, lock>>
    PROVE  HoldersKept
BY DEF HoldersKept

LEMMA StillPlaces == PlacesTyped /\ UNCHANGED at => PlacesTyped'
BY DEF PlacesTyped, AtTyped

LEMMA RowWritten ==
    ASSUME RowsTyped, NEW t \in Task, NEW w \in Row, row' = [row EXCEPT ![t] = w], UNCHANGED obj,
           w.audio = row[t].audio, w.st # "absent"
    PROVE  RowsTyped' /\ RowKept
BY DEF RowsTyped, RowKept

LEMMA CreateCaptureKeeps == ASSUME IInv, NEW t \in Task, CreateCapture(t) PROVE IInv'
<1> USE SlotsAssumption, TypeParts DEF CreateCapture, actVars, memVars
<1>0. RowsTyped /\ PlacesTyped /\ RestTyped
    BY DEF IInv
<1>1. RowsTyped' /\ RowKept
  <2> DEFINE w == [NoRow EXCEPT !.st = "queued", !.bound = TRUE]
  <2>1. w \in Row /\ w.audio = FALSE /\ w.st = "queued"
    BY DEF NoRow, Row, Status, Stage
  <2>2. row[t].audio = FALSE
    <3>1. row[t].audio # TRUE
      BY DEF IInv, AudioOK
    <3> QED BY <1>0, <3>1 DEF RowsTyped, Row
  <2>3. row' = [row EXCEPT ![t] = w] /\ UNCHANGED obj
    OBVIOUS
  <2> HIDE DEF w
  <2> QED BY <1>0, <2>1, <2>2, <2>3, RowWritten
<1>2. PlacesTyped' /\ HoldersKept
    BY <1>0, StillPlaces, StillHolders
<1>3. RestTyped' /\ UNCHANGED audios
    BY <1>0 DEF RestTyped, Fault, NoFault, Actor
<1> QED BY <1>1, <1>2, <1>3, QuietKeeps

LEMMA StopCaptureKeeps == ASSUME IInv, NEW t \in Task, StopCapture(t) PROVE IInv'
<1> USE SlotsAssumption, TypeParts DEF StopCapture, actVars, memVars
<1>0. RowsTyped /\ PlacesTyped /\ RestTyped
    BY DEF IInv
<1>1. RowsTyped' /\ RowKept
  <2> DEFINE v == row[t]
             x == IF v.meta.stage \in {"downloading", "done"} THEN v.meta.stage ELSE "finalizing"
             w == [v EXCEPT !.meta = [stop |-> TRUE, stage |-> x]]
  <2>1. v \in Row
    BY <1>0 DEF RowsTyped
  <2>2. w \in Row /\ w.audio = v.audio /\ w.st = "running"
    BY <2>1 DEF Row, Stage
  <2>3. row' = [row EXCEPT ![t] = w] /\ UNCHANGED obj
    OBVIOUS
  <2> HIDE DEF w
  <2> QED BY <1>0, <2>2, <2>3, RowWritten
<1>2. PlacesTyped' /\ HoldersKept
    BY <1>0, StillPlaces, StillHolders
<1>3. RestTyped' /\ UNCHANGED audios
    BY <1>0 DEF RestTyped, Fault, NoFault, Actor, ForwardStop, DeleteJob, LiveJob
<1> QED BY <1>1, <1>2, <1>3, QuietKeeps

LEMMA CancelReadKeeps == ASSUME IInv, NEW t \in Task, CancelRead(t) PROVE IInv'
<1> USE SlotsAssumption, TypeParts DEF CancelRead, actVars, memVars
<1>0. RowsTyped /\ PlacesTyped /\ RestTyped
    BY DEF IInv
<1>1. RowsTyped' /\ RowKept
    BY <1>0 DEF RowsTyped, RowKept
<1>2. PlacesTyped' /\ HoldersKept
    BY <1>0, StillPlaces, StillHolders
<1>3. RestTyped' /\ UNCHANGED audios
  <2>1. req' \in [t : Task, sync : BOOLEAN, seen : Row]
    BY <1>0 DEF RowsTyped, Alive
  <2> QED BY <1>0, <2>1 DEF RestTyped
<1> QED BY <1>1, <1>2, <1>3, QuietKeeps

LEMMA CancelCommitKeeps == ASSUME IInv, CancelCommit PROVE IInv'
<1> USE SlotsAssumption, TypeParts DEF CancelCommit, actVars, memVars
<1>0. RowsTyped /\ PlacesTyped /\ RestTyped
    BY DEF IInv
<1>1. RowsTyped' /\ RowKept
  <2> DEFINE t == req.t
             v == req.seen
             w == [v EXCEPT !.st = "error", !.code = "canceled"]
             m == Merge(row[t], v, w)
  <2>1. t \in Task /\ v \in Row
    BY <1>0 DEF RestTyped
  <2>2. w \in Row /\ w.audio = v.audio /\ w.st = "error"
    BY <2>1 DEF Row, Status
  <2>3. row' = [row EXCEPT ![t] = m] /\ UNCHANGED obj
    OBVIOUS
  <2> HIDE DEF w, v, t
  <2>4. m \in Row /\ m.audio = row[t].audio /\ (m.st = "absent" => row[t].st = "absent")
    BY <1>0, <2>1, <2>2, MergeTyped DEF RowsTyped, Written
  <2> HIDE DEF m
  <2> QED BY <1>0, <2>1, <2>3, <2>4 DEF RowsTyped, RowKept
<1>2. PlacesTyped' /\ HoldersKept
    BY <1>0, StillPlaces, StillHolders
<1>3. RestTyped' /\ UNCHANGED audios
    BY <1>0 DEF RestTyped, Fault, NoFault, Actor, ForwardStop, DeleteJob, LiveJob
<1> QED BY <1>1, <1>2, <1>3, QuietKeeps

LEMMA WorkerStepKeeps == ASSUME IInv, NEW j \in Job, WorkerStep(j) PROVE IInv'
<1> USE SlotsAssumption, TypeParts DEF WorkerStep, actVars, memVars
<1>0. RowsTyped /\ PlacesTyped /\ RestTyped
    BY DEF IInv
<1>1. RowsTyped' /\ RowKept
    BY <1>0 DEF RowsTyped, RowKept
<1>2. PlacesTyped' /\ HoldersKept
    BY <1>0, StillPlaces, StillHolders
<1>3. RestTyped' /\ UNCHANGED audios
    BY <1>0 DEF RestTyped, Fault, NoFault, Actor, ForwardStop, DeleteJob, LiveJob
<1> QED BY <1>1, <1>2, <1>3, QuietKeeps

LEMMA WorkerFailKeeps == ASSUME IInv, NEW j \in Job, WorkerFail(j) PROVE IInv'
<1> USE SlotsAssumption, TypeParts DEF WorkerFail, actVars, memVars
<1>0. RowsTyped /\ PlacesTyped /\ RestTyped
    BY DEF IInv
<1>1. RowsTyped' /\ RowKept
    BY <1>0 DEF RowsTyped, RowKept
<1>2. PlacesTyped' /\ HoldersKept
    BY <1>0, StillPlaces, StillHolders
<1>3. RestTyped' /\ UNCHANGED audios
    BY <1>0 DEF RestTyped, Fault, NoFault, Actor, ForwardStop, DeleteJob, LiveJob
<1> QED BY <1>1, <1>2, <1>3, QuietKeeps

LEMMA TickEndKeeps == ASSUME IInv, TickEnd PROVE IInv'
<1> USE SlotsAssumption, TypeParts DEF TickEnd, actVars, memVars
<1>0. RowsTyped /\ PlacesTyped /\ RestTyped
    BY DEF IInv
<1>1. RowsTyped' /\ RowKept
    BY <1>0 DEF RowsTyped, RowKept
<1>2. PlacesTyped' /\ HoldersKept
    BY <1>0, StillPlaces, StillHolders
<1>3. RestTyped' /\ UNCHANGED audios
    BY <1>0 DEF RestTyped, Fault, NoFault, Actor
<1> QED BY <1>1, <1>2, <1>3, QuietKeeps

LEMMA RecoverEndKeeps == ASSUME IInv, RecoverEnd PROVE IInv'
<1> USE SlotsAssumption, TypeParts DEF RecoverEnd, actVars, memVars
<1>0. RowsTyped /\ PlacesTyped /\ RestTyped
    BY DEF IInv
<1>1. RowsTyped' /\ RowKept
    BY <1>0 DEF RowsTyped, RowKept
<1>2. PlacesTyped' /\ HoldersKept
    BY <1>0, StillPlaces, StillHolders
<1>3. RestTyped' /\ UNCHANGED audios
    BY <1>0 DEF RestTyped, Fault, NoFault, Actor
<1> QED BY <1>1, <1>2, <1>3, QuietKeeps

LEMMA RestartKeeps == ASSUME IInv, Restart PROVE IInv'
<1> USE SlotsAssumption, TypeParts DEF Restart, actVars, memVars
<1>0. RowsTyped /\ PlacesTyped /\ RestTyped
    BY DEF IInv
<1>1. RowsTyped' /\ RowKept
    BY <1>0 DEF RowsTyped, RowKept
<1>2. PlacesTyped' /\ HoldersKept
    BY <1>0, StillPlaces, StillHolders
<1>3. RestTyped' /\ UNCHANGED audios
    BY <1>0 DEF RestTyped, Fault, NoFault, Actor
<1> QED BY <1>1, <1>2, <1>3, QuietKeeps

LEMMA StutterKeeps == ASSUME IInv, UNCHANGED vars PROVE IInv'
<1> USE SlotsAssumption, TypeParts DEF vars, actVars, memVars
<1>0. RowsTyped /\ PlacesTyped /\ RestTyped
    BY DEF IInv
<1>1. RowsTyped' /\ RowKept
    BY <1>0 DEF RowsTyped, RowKept
<1>2. PlacesTyped' /\ HoldersKept
    BY <1>0, StillPlaces, StillHolders
<1>3. RestTyped' /\ UNCHANGED audios
    BY <1>0 DEF RestTyped, Fault, NoFault, Actor
<1> QED BY <1>1, <1>2, <1>3, QuietKeeps

LEMMA TickBeginKeeps == ASSUME IInv, TickBegin PROVE IInv'
<1> USE SlotsAssumption, TypeParts DEF TickBegin, actVars, memVars
<1>0. RowsTyped /\ PlacesTyped /\ RestTyped
    BY DEF IInv
<1>1. RowsTyped' /\ RowKept
  <2>1. \E S : Load(S) /\ UNCHANGED row
    OBVIOUS
  <2> QED BY <1>0, <2>1, LoadStep
<1>2. PlacesTyped' /\ HoldersKept
  <2>1. \E S : Load(S) /\ UNCHANGED row
    OBVIOUS
  <2> QED BY <1>0, <2>1, LoadStep DEF HoldersKept
<1>3. RestTyped' /\ UNCHANGED audios
  <2>1. Now \in BOOLEAN /\ TRUE \in BOOLEAN /\ FALSE \in BOOLEAN
    BY DEF Now
  <2>2. free' \in BOOLEAN
    <3>1. free' = (IF Pool THEN Now ELSE TRUE) \/ free' = free \/ free' = FALSE
      OBVIOUS
    <3>2. (IF Pool THEN Now ELSE TRUE) \in BOOLEAN
      BY <2>1, Zenon
    <3> QED BY <1>0, <2>1, <3>1, <3>2, Zenon DEF RestTyped
  <2>3. faults' \in 0 .. MaxFaults
    <3>1. faults' = faults \/ (faults < MaxFaults /\ faults' = faults + 1)
      BY Zenon DEF Fault, NoFault
    <3> HIDE DEF TickBegin
    <3> QED BY <1>0, <3>1 DEF RestTyped
  <2> QED BY <1>0, <2>2, <2>3 DEF RestTyped
<1> QED BY <1>1, <1>2, <1>3, QuietKeeps

LEMMA RecoverBeginKeeps == ASSUME IInv, RecoverBegin PROVE IInv'
<1> USE SlotsAssumption, TypeParts DEF RecoverBegin, actVars, memVars
<1>0. RowsTyped /\ PlacesTyped /\ RestTyped
    BY DEF IInv
<1>1. RowsTyped' /\ RowKept
  <2>1. \E S : Load(S) /\ UNCHANGED row
    OBVIOUS
  <2> QED BY <1>0, <2>1, LoadStep
<1>2. PlacesTyped' /\ HoldersKept
  <2>1. \E S : Load(S) /\ UNCHANGED row
    OBVIOUS
  <2> QED BY <1>0, <2>1, LoadStep DEF HoldersKept
<1>3. RestTyped' /\ UNCHANGED audios
    BY <1>0 DEF RestTyped, Fault, NoFault, Actor
<1> QED BY <1>1, <1>2, <1>3, QuietKeeps

LEMMA CrashKeeps == ASSUME IInv, Crash PROVE IInv'
<1> USE SlotsAssumption, TypeParts DEF Crash, NoActors
<1>0. RowsTyped /\ PlacesTyped /\ RestTyped
    BY DEF IInv
<1>1. RowsTyped' /\ RowKept
  <2>1. NoRow \in Row
    BY DEF NoRow, Row, Status, Stage
  <2> QED BY <1>0, <2>1 DEF RowsTyped, RowKept
<1>2. PlacesTyped' /\ HoldersKept
    BY DEF PlacesTyped, AtTyped, HoldersKept, ThreadPlace, TickPlace, Actor
<1>3. RestTyped' /\ UNCHANGED audios
    BY <1>0 DEF RestTyped, Fault, NoFault, Actor
<1> QED BY <1>1, <1>2, <1>3, QuietKeeps

LEMMA InitInvariant == Init => IInv
<1> SUFFICES ASSUME Init PROVE IInv
    OBVIOUS
<1> USE SlotsAssumption DEF Init
<1>1. NoRow \in Row
    BY DEF NoRow, Row, Status, Stage
<1>2. RowsTyped
    BY <1>1 DEF RowsTyped
<1>3. PlacesTyped
    BY DEF PlacesTyped, AtTyped, ThreadPlace, TickPlace, Actor
<1>4. RestTyped
    BY DEF RestTyped
<1>5. ASSUME NEW a \in Actor, NEW t \in Task PROVE PersistOK(a, t)
    BY DEF PersistOK
<1>6. ASSUME NEW t \in Task PROVE AudioOK(t)
    BY DEF AudioOK, NoRow
<1> QED BY <1>2, <1>3, <1>4, <1>5, <1>6, TypeParts DEF IInv

LEMMA PersistKeeps == ASSUME IInv, NEW a \in Actor, NEW t \in Task, Persist(a, t) PROVE IInv'
BY PersistEnterKeeps, PersistFailKeeps, PersistRaiseKeeps, PersistFetchedKeeps, PersistSavedKeeps
DEF Persist

LEMMA StepKeeps == IInv /\ [Next]_vars => IInv'
<1> SUFFICES ASSUME IInv, [Next]_vars PROVE IInv'
    OBVIOUS
<1>1. CASE Tick
    BY <1>1, TickEndKeeps, RecoverBeginKeeps, RecoverEndKeeps, TickLookKeeps, TickAnswerKeeps,
       MaybeStartCaptureKeeps, RecoverKeeps, PersistKeeps DEF Tick, Actor
<1>2. CASE Api
    BY <1>2, CreateCaptureKeeps, StopCaptureKeeps, CancelReadKeeps, CancelCommitKeeps DEF Api
<1>3. ASSUME NEW t \in Task, Thread(t) PROVE IInv'
    BY <1>3, ThreadQuitKeeps, ThreadPostKeeps, ThreadResumeKeeps, PostFailedKeeps, PostAcceptedKeeps,
       LoopTopKeeps, SalvageKeeps, AskFailedKeeps, AskActiveKeeps, AskTerminalKeeps,
       AskCanceledKeeps, AskReadyKeeps, AfterLoopKeeps, ThreadLeaveKeeps DEF Thread
<1>4. ASSUME NEW t \in Task, Persist("thread", t) PROVE IInv'
    BY <1>4, PersistKeeps DEF Actor
<1> QED
    BY <1>1, <1>2, <1>3, <1>4, TickBeginKeeps, CrashKeeps, RestartKeeps, StutterKeeps,
       WorkerStepKeeps, WorkerFailKeeps DEF Next
-----------------------------------------------------------------------------
(* The theorems *)

(* The strengthening that the others rest on: the persist lock, what its holder has read again
   under it, and what the row says of the audio. *)
THEOREM CaptureInvariant == Spec => []IInv
<1>1. Init => IInv
    BY InitInvariant
<1>2. IInv /\ [Next]_vars => IInv'
    BY StepKeeps
<1> QED BY <1>1, <1>2, PTL DEF Spec

(* Every variable of the capture runner keeps its type. *)
THEOREM CaptureTypeCorrect == Spec => []TypeOK
<1>1. IInv => TypeOK
    BY DEF IInv
<1> QED BY <1>1, CaptureInvariant, PTL

(* _persist_capture_artifact_locked reads the row again after it has got the lock and once more
   before it stores, so of thread and tick one creates the audio, in any interleaving with
   cancels, stops, restarts and failed calls. *)
THEOREM CapturesOneAudio == Spec => []OneAudio
<1>1. IInv => OneAudio
    BY DEF IInv, AudioOK, OneAudio
<1> QED BY <1>1, CaptureInvariant, PTL

(* maybe_start_capture starts no thread for a task whose thread is in _bg_threads. *)
THEOREM OneCaptureThread == Spec => NoSecondThread
<1>1. IInv /\ [Next]_vars =>
          [\A t \in Task : at'["thread"][t] = "begin" => at["thread"][t] \in {"none", "begin"}]_vars
  <2> SUFFICES ASSUME IInv, Next, NEW u \in Task, at'["thread"][u] = "begin"
               PROVE  at["thread"][u] \in {"none", "begin"}
    OBVIOUS
  <2>0. AtTyped /\ "thread" \in Actor
    BY DEF IInv, Actor
  <2> USE <2>0 DEF AtTyped, actVars
  <2>1. ASSUME NEW t \in Task, MaybeStartCapture(t) PROVE at["thread"][u] \in {"none", "begin"}
    BY <2>1 DEF MaybeStartCapture, Alive, Goto
  <2>2. ASSUME NEW a \in Actor, NEW t \in Task, Persist(a, t) PROVE at["thread"][u] = "begin"
    BY <2>2 DEF Persist, PersistEnter, PersistFail, PersistRaise, PersistFetched, PersistSaved,
       Fail, FailFresh, Goto, Exit, Load, Actor
  <2>3. CASE Tick
    BY <2>1, <2>2, <2>3 DEF Tick, TickEnd, RecoverBegin, RecoverEnd, Load, TickLook, TickAnswer,
       Recover, Goto, Actor
  <2>4. ASSUME NEW t \in Task, Thread(t) PROVE at["thread"][u] = "begin"
    <3>1. CASE ThreadQuit(t)
      BY <3>1 DEF ThreadQuit, Fail, FailFresh, Goto, Exit
    <3>2. CASE ThreadPost(t)
      BY <3>2 DEF ThreadPost, Fail, FailFresh, Goto, Exit
    <3>3. CASE ThreadResume(t)
      BY <3>3 DEF ThreadResume, Fail, FailFresh, Goto, Exit
    <3>4. CASE PostFailed(t)
      BY <3>4 DEF PostFailed, Fail, FailFresh, Goto, Exit
    <3>5. CASE LoopTop(t)
      BY <3>5 DEF LoopTop, Fail, FailFresh, Goto, Exit
    <3>6. CASE Salvage(t)
      BY <3>6 DEF Salvage, Fail, FailFresh, Goto, Exit
    <3>7. CASE AskFailed(t)
      BY <3>7 DEF AskFailed, Fail, FailFresh, Goto, Exit
    <3>8. CASE AskActive(t)
      BY <3>8 DEF AskActive, Fail, FailFresh, Goto, Exit
    <3>9. CASE AskTerminal(t)
      BY <3>9 DEF AskTerminal, Fail, FailFresh, Goto, Exit
    <3>10. CASE AskCanceled(t)
      BY <3>10 DEF AskCanceled, Fail, FailFresh, Goto, Exit
    <3>11. CASE AskReady(t)
      BY <3>11 DEF AskReady, Fail, FailFresh, Goto, Exit
    <3>12. CASE AfterLoop(t)
      BY <3>12 DEF AfterLoop, Fail, FailFresh, Goto, Exit
    <3>13. CASE ThreadLeave(t)
      BY <3>13 DEF ThreadLeave, Fail, FailFresh, Goto, Exit
    <3>14. ASSUME NEW j \in Job, PostAccepted(t, j) PROVE at["thread"][u] = "begin"
      BY <3>14 DEF PostAccepted, Goto
    <3> QED BY <2>4, <3>1, <3>2, <3>3, <3>4, <3>5, <3>6, <3>7, <3>8, <3>9, <3>10, <3>11, <3>12, <3>13, <3>14 DEF Thread
  <2>5. CASE Api
    BY <2>5 DEF Api, CreateCapture, StopCapture, CancelRead, CancelCommit
  <2>6. CASE TickBegin
    BY <2>6 DEF TickBegin, Load, Actor
  <2>7. CASE Crash
    BY <2>7 DEF Crash, NoActors
  <2>8. ASSUME NEW j \in Job, WorkerStep(j) \/ WorkerFail(j) PROVE at["thread"][u] = "begin"
    BY <2>8 DEF WorkerStep, WorkerFail
  <2> QED
    BY <2>2, <2>3, <2>4, <2>5, <2>6, <2>7, <2>8 DEF Next, Restart
<1> QED BY <1>1, CaptureInvariant, PTL DEF Spec, NoSecondThread

=============================================================================
