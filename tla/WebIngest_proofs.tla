-------------------------- MODULE WebIngest_proofs ----------------------------
(* Proofs about the ingest page for any number of flows, inputs and failures. *)
EXTENDS WebIngest, TLAPS

FlowRec == [at : FlowAt, pipe : Pipeline, chosen : Pipeline, tags : Nat, here : BOOLEAN,
            capture : BOOLEAN, url : Url, pin : BOOLEAN]
PanelRec == [url : Url, pin : BOOLEAN, busy : BOOLEAN, imports : {"on", "off", "blocked", None},
             captures : {"on", "off", None}, tags : [Slot -> Nat]]

Typed ==
    /\ wpage \in Page /\ pipe \in Pipeline /\ tags \in [Slot -> Nat]
    /\ wpage = "ingest" => panel \in PanelRec /\ panel.tags = tags
    /\ flows \in [Flow -> FlowRec]
    /\ offers \in [imports : {"on", "off", "blocked"}, captures : {"on", "off"}]
    /\ count \in [flows : Nat, clicks : Nat, lost : Nat]

(* A flow keeps the pipeline it was started with, and so does what it stores. *)
Kept(fl) == fl.pipe = fl.chosen
PipeOK == (\A f \in Flow : Kept(flows[f])) /\ PipelineHonoured

(* What a flow of the mounted panel is about to clear: it locks the panel, so  *)
(* the tags of its slot are still its own, unless another flow cleared them.   *)
Carried(fl, s) == \E o \in made : o.tags = fl.tags /\ o.slot = s
Mine(f) == /\ wpage = "ingest" /\ panel.busy
           /\ tags[SlotOf(f)] \in {0, flows[f].tags}
           /\ flows[f].at # "idle" /\ f # "shell"
StoredOK(f) == flows[f].at \in {"uploaded", "kept", "transcribe", "done"} => Carried(flows[f], SlotOf(f))
HereOK == /\ \A f \in Flow : flows[f].here => Mine(f)
          /\ \A f \in Flow : StoredOK(f)
          /\ \A f, g \in Flow : flows[f].here /\ flows[g].here => f = g

IInv == Typed /\ PipeOK /\ HereOK
-----------------------------------------------------------------------------
Storing == {"uploaded", "kept", "transcribe", "done"}

LEMMA FlowFields ==
    /\ Idle \in FlowRec /\ Idle.at = "idle" /\ Idle.here = FALSE /\ Kept(Idle)
    /\ \A fl \in FlowRec :
          LET o == [fl EXCEPT !.here = FALSE]
          IN  /\ o \in FlowRec /\ o.here = FALSE /\ o.at = fl.at /\ o.tags = fl.tags
              /\ o.pipe = fl.pipe /\ o.chosen = fl.chosen
    /\ \A fl \in FlowRec, a \in FlowAt :
          LET o == [fl EXCEPT !.at = a]
          IN  /\ o \in FlowRec /\ o.at = a /\ o.here = fl.here /\ o.tags = fl.tags
              /\ o.pipe = fl.pipe /\ o.chosen = fl.chosen
PROOF
<1>1. Idle \in FlowRec /\ Idle.at = "idle" /\ Idle.here = FALSE /\ Kept(Idle)
  BY DEF Idle, FlowRec, FlowAt, Pipeline, Url, Kept
<1>2. ASSUME NEW fl \in FlowRec
      PROVE  LET o == [fl EXCEPT !.here = FALSE]
             IN  /\ o \in FlowRec /\ o.here = FALSE /\ o.at = fl.at /\ o.tags = fl.tags
                 /\ o.pipe = fl.pipe /\ o.chosen = fl.chosen
  BY DEF FlowRec
<1>3. ASSUME NEW fl \in FlowRec, NEW a \in FlowAt
      PROVE  LET o == [fl EXCEPT !.at = a]
             IN  /\ o \in FlowRec /\ o.at = a /\ o.here = fl.here /\ o.tags = fl.tags
                 /\ o.pipe = fl.pipe /\ o.chosen = fl.chosen
  BY DEF FlowRec
<1>. QED BY <1>1, <1>2, <1>3

LEMMA Counted ==
    ASSUME Typed, UNCHANGED count \/ Input \/ Fault \/ Started
    PROVE  /\ count' \in [flows : Nat, clicks : Nat, lost : Nat]
           /\ Input => count'.clicks \in Nat \ {0}
  BY DEF Typed, Input, Fault, Started

LEMMA MountedPanel == Typed => Mounted \in PanelRec /\ Mounted.tags = tags
  BY DEF Typed, Mounted, PanelRec, Url

(* The user turns to another page: no flow is at home any more. *)
LEMMA LeaveHolds ==
    ASSUME IInv, NEW p \in Page, p # wpage, NEW fs \in [Flow -> FlowRec], Show(p, fs),
           \A f \in Flow : Kept(fs[f]) /\ (fs[f] = flows[f] \/ fs[f].at = "idle"),
           made' = made, tags' \in [Slot -> Nat], p = "ingest" => tags' = tags, UNCHANGED <<pipe, offers>>,
           count' \in [flows : Nat, clicks : Nat, lost : Nat]
    PROVE  IInv'
PROOF
<1>1. wpage' = p /\ flows' = Orphaned(fs) /\ panel' = IF p = "ingest" THEN Mounted ELSE None
  BY DEF Show
<1>2. \A f \in Flow : /\ flows'[f] \in FlowRec /\ flows'[f].here = FALSE
                      /\ flows'[f].at = fs[f].at /\ flows'[f].tags = fs[f].tags
                      /\ flows'[f].pipe = fs[f].pipe /\ flows'[f].chosen = fs[f].chosen
  BY <1>1, FlowFields DEF Orphaned
<1>3. Typed'
  <2>1. flows' \in [Flow -> FlowRec]
    BY <1>1, <1>2 DEF Orphaned
  <2>2. wpage' = "ingest" => panel' \in PanelRec /\ panel'.tags = tags'
    BY <1>1, MountedPanel DEF IInv
  <2>. QED BY <1>1, <2>1, <2>2 DEF IInv, Typed
<1>4. PipeOK'
  BY <1>2 DEF IInv, PipeOK, PipelineHonoured, Kept
<1>5. HereOK'
  <2>1. ASSUME NEW f \in Flow PROVE StoredOK(f)'
    BY <1>2 DEF IInv, HereOK, StoredOK, Carried
  <2>. QED BY <1>2, <2>1 DEF HereOK
<1>. QED BY <1>3, <1>4, <1>5 DEF IInv

(* A flow gets on, fails or has something stored. *)
LEMMA ReachHolds ==
    ASSUME IInv, NEW f \in Flow, NEW a \in FlowAt, a # "idle", flows[f].at # "idle", Reach(f, a),
           UNCHANGED <<wpage, panel, pipe, tags, offers>>, made \subseteq made',
           \A o \in made' \ made : o.kind # "audio" => o.pipe = o.chosen,
           a \in Storing => \E o \in made' : o.tags = flows[f].tags /\ o.slot = SlotOf(f),
           count' \in [flows : Nat, clicks : Nat, lost : Nat]
    PROVE  IInv'
PROOF
<1>1. /\ flows \in [Flow -> FlowRec] /\ flows' = [flows EXCEPT ![f] = [flows[f] EXCEPT !.at = a]]
  BY DEF IInv, Typed, Reach
<1>2. /\ flows' \in [Flow -> FlowRec] /\ flows'[f].at = a
      /\ \A g \in Flow : g # f => flows'[g] = flows[g]
      /\ \A g \in Flow : /\ flows'[g].here = flows[g].here /\ flows'[g].tags = flows[g].tags
                         /\ flows'[g].pipe = flows[g].pipe /\ flows'[g].chosen = flows[g].chosen
  BY <1>1, FlowFields
<1>3. Typed'
  BY <1>2 DEF IInv, Typed
<1>4. PipeOK'
  BY <1>2 DEF IInv, PipeOK, PipelineHonoured, Kept
<1>5. \A g \in Flow : Carried(flows[g], SlotOf(g)) => Carried(flows[g], SlotOf(g))'
  BY <1>2 DEF Carried
<1>6. \A g \in Flow : StoredOK(g)'
  BY <1>2, <1>5 DEF IInv, HereOK, StoredOK, Carried, Storing
<1>7. \A g \in Flow : flows'[g].here => Mine(g)'
  BY <1>2 DEF IInv, HereOK, Mine
<1>8. \A g, h \in Flow : flows'[g].here /\ flows'[h].here => g = h
  BY <1>2 DEF IInv, HereOK
<1>. QED BY <1>3, <1>4, <1>6, <1>7, <1>8 DEF IInv, HereOK

(* A flow ends on the page that is shown. *)
LEMMA EndHolds ==
    ASSUME IInv, NEW f \in Flow, flows' = End(f), made' = made,
           UNCHANGED <<wpage, pipe, offers>>,
           wpage = "ingest" => panel' \in PanelRec /\ panel'.tags = tags',
           flows[f].here \/ panel' = panel,
           \A s \in Slot : tags'[s] \in {0, tags[s]}, tags' \in [Slot -> Nat],
           count' \in [flows : Nat, clicks : Nat, lost : Nat]
    PROVE  IInv'
PROOF
<1>1. /\ flows \in [Flow -> FlowRec] /\ flows'[f] = Idle /\ flows' \in [Flow -> FlowRec]
      /\ \A g \in Flow : g # f => flows'[g] = flows[g]
  BY FlowFields DEF IInv, Typed, End
<1>2. Typed'
  BY <1>1 DEF IInv, Typed
<1>3. PipeOK'
  BY <1>1, FlowFields DEF IInv, PipeOK, PipelineHonoured, Kept
<1>4. ASSUME NEW g \in Flow PROVE StoredOK(g)'
  BY <1>1, FlowFields DEF IInv, HereOK, StoredOK, Carried
<1>5. ASSUME NEW g \in Flow, flows'[g].here PROVE Mine(g)' /\ g # f /\ flows[g].here
  <2>1. g # f /\ flows'[g] = flows[g] /\ flows[g].here
    BY <1>1, <1>5, FlowFields
  <2>2. panel' = panel /\ Mine(g)
    BY <2>1 DEF IInv, HereOK
  <2>3. SlotOf(g) \in Slot
    BY DEF Flow, Slot, SlotOf
  <2>. QED BY <2>1, <2>2, <2>3 DEF Mine
<1>6. \A g, h \in Flow : flows'[g].here /\ flows'[h].here => g = h
  BY <1>5 DEF IInv, HereOK
<1>. QED BY <1>2, <1>3, <1>4, <1>5, <1>6 DEF IInv, HereOK

(* An input on the page, or an answer to one of its loads, concerns no flow. *)
LEMMA InputHolds ==
    ASSUME IInv, UNCHANGED <<wpage, flows, made>>, pipe' \in Pipeline,
           offers' \in [imports : {"on", "off", "blocked"}, captures : {"on", "off"}],
           wpage = "ingest" => panel' \in PanelRec /\ panel'.busy = panel.busy /\ panel'.tags = tags',
           tags' = tags \/ (wpage = "ingest" /\ ~panel.busy /\ tags' \in [Slot -> Nat]),
           count' \in [flows : Nat, clicks : Nat, lost : Nat]
    PROVE  IInv'
PROOF
<1>1. Typed'
  BY DEF IInv, Typed
<1>2. PipeOK'
  BY DEF IInv, PipeOK, PipelineHonoured, Kept
<1>3. HereOK'
  <2>1. \A f \in Flow : flows'[f].here => Mine(f)'
    BY DEF IInv, HereOK, Mine
  <2>2. \A f \in Flow : StoredOK(f)'
    BY DEF IInv, HereOK, StoredOK, Carried
  <2>. QED BY <2>1, <2>2 DEF IInv, HereOK
<1>. QED BY <1>1, <1>2, <1>3 DEF IInv

(* The row of a flow that begins. *)
NewRow(a, p, h, t, c, u, q) ==
    [Idle EXCEPT !.at = a, !.pipe = p, !.chosen = p, !.here = h, !.tags = t, !.capture = c,
                 !.url = u, !.pin = q]
RowIs(w, a, h, t) == w \in FlowRec /\ w.at = a /\ w.here = h /\ w.tags = t /\ Kept(w)

LEMMA NewFlow ==
    ASSUME NEW a \in FlowAt, NEW p \in Pipeline, NEW h \in BOOLEAN, NEW t \in Nat,
           NEW c \in BOOLEAN, NEW u \in Url, NEW q \in BOOLEAN
    PROVE  RowIs(NewRow(a, p, h, t, c, u, q), a, h, t)
PROOF
<1>. DEFINE n1 == [Idle EXCEPT !.at = a]      n2 == [n1 EXCEPT !.pipe = p]
            n3 == [n2 EXCEPT !.chosen = p]    n4 == [n3 EXCEPT !.here = h]
            n5 == [n4 EXCEPT !.tags = t]      n6 == [n5 EXCEPT !.capture = c]
            n7 == [n6 EXCEPT !.url = u]       n8 == [n7 EXCEPT !.pin = q]
<1>1. n1 \in FlowRec /\ n1.at = a
  BY FlowFields
<1>. HIDE DEF n1
<1>2. n2 \in FlowRec /\ n2.at = a /\ n2.pipe = p
  BY <1>1 DEF FlowRec
<1>. HIDE DEF n2
<1>3. n3 \in FlowRec /\ n3.at = a /\ Kept(n3)
  BY <1>2 DEF FlowRec, Kept
<1>. HIDE DEF n3
<1>4. n4 \in FlowRec /\ n4.at = a /\ n4.here = h /\ Kept(n4)
  BY <1>3 DEF FlowRec, Kept
<1>. HIDE DEF n4
<1>5. n5 \in FlowRec /\ n5.at = a /\ n5.here = h /\ n5.tags = t /\ Kept(n5)
  BY <1>4 DEF FlowRec, Kept
<1>. HIDE DEF n5
<1>6. n6 \in FlowRec /\ n6.at = a /\ n6.here = h /\ n6.tags = t /\ Kept(n6)
  BY <1>5 DEF FlowRec, Kept
<1>. HIDE DEF n6
<1>7. n7 \in FlowRec /\ n7.at = a /\ n7.here = h /\ n7.tags = t /\ Kept(n7)
  BY <1>6 DEF FlowRec, Kept
<1>. HIDE DEF n7
<1>8. n8 \in FlowRec /\ n8.at = a /\ n8.here = h /\ n8.tags = t /\ Kept(n8)
  BY <1>7 DEF FlowRec, Kept
<1>. QED BY <1>8, Zenon DEF RowIs, NewRow, n1, n2, n3, n4, n5, n6, n7, n8

(* A flow is started: by the panel, which it locks, or by the shell's button. *)
LEMMA BeginHolds ==
    ASSUME IInv, NEW f \in Flow, NEW a \in {"post", "upload"}, Begin(f, a),
           IF f = "shell" THEN UNCHANGED panel ELSE wpage = "ingest" /\ ~panel.busy /\ SetBusy
    PROVE  IInv'
PROOF
<1>. DEFINE t == IF f = "shell" THEN tags.mic ELSE panel.tags[f]
            c == f = "link" /\ ToCapture(panel.url)
            u == IF f = "link" THEN panel.url ELSE "none"
            p == f = "link" /\ ToCapture(panel.url) /\ panel.pin
            home == f # "shell"
            new == NewRow(a, pipe, home, t, c, u, p)
<1>1. /\ flows' = [flows EXCEPT ![f] = new] /\ flows[f].at = "idle" /\ Started
      /\ UNCHANGED <<wpage, pipe, tags, made, offers>>
  BY DEF Begin, NewRow
<1>2. /\ t \in Nat /\ u \in Url /\ c \in BOOLEAN /\ p \in BOOLEAN
      /\ f # "shell" => panel \in PanelRec /\ t = panel.tags[f]
  <2>1. f = "shell" => tags.mic \in Nat
    BY DEF IInv, Typed, Slot
  <2>2. f # "shell" => panel \in PanelRec /\ f \in Slot
    BY DEF IInv, Typed, Flow, Slot
  <2>3. f # "shell" => panel.tags[f] \in Nat /\ panel.url \in Url /\ panel.pin \in BOOLEAN
    BY <2>2 DEF PanelRec
  <2>4. c \in BOOLEAN /\ p \in BOOLEAN
    BY DEF ToCapture, CapturesOn, Meeting
  <2>. QED BY <2>1, <2>2, <2>3, <2>4 DEF Url
<1>. HIDE DEF t, u, c, p, home
<1>4. /\ new \in FlowRec /\ new.at = a /\ new.here = (f # "shell") /\ new.tags = t /\ Kept(new)
  <2>1. pipe \in Pipeline /\ a \in FlowAt /\ home \in BOOLEAN
    BY DEF IInv, Typed, FlowAt, home
  <2>2. RowIs(new, a, home, t)
    BY ONLY <1>2, <2>1, NewFlow, Zenon DEF new
  <2>. QED BY <2>2 DEF RowIs, home
<1>5. /\ flows' \in [Flow -> FlowRec] /\ flows'[f] = new
      /\ \A g \in Flow : g # f => flows'[g] = flows[g]
  BY <1>1, <1>4 DEF IInv, Typed
<1>6. wpage = "ingest" => panel' \in PanelRec /\ panel'.tags = panel.tags /\ (f # "shell" => panel'.busy)
  BY DEF IInv, Typed, PanelRec, SetBusy
<1>7. Typed'
  BY <1>1, <1>5, <1>6, Counted DEF IInv, Typed
<1>8. PipeOK'
  BY <1>1, <1>4, <1>5 DEF IInv, PipeOK, PipelineHonoured, Kept
<1>9. \A g \in Flow : StoredOK(g)'
  BY <1>1, <1>4, <1>5 DEF IInv, HereOK, StoredOK, Carried
<1>10. ASSUME NEW g \in Flow, flows'[g].here PROVE Mine(g)'
  <2>1. CASE g # f
    <3>1. flows[g].here /\ Mine(g)
      BY <1>5, <1>10, <2>1 DEF IInv, HereOK
    <3>2. f = "shell" /\ panel' = panel
      BY <3>1 DEF Mine
    <3>. QED BY <1>1, <1>5, <2>1, <3>1, <3>2 DEF Mine
  <2>2. CASE g = f
    <3>1. f # "shell"
      BY <1>4, <1>5, <1>10, <2>2
    <3>2. tags[SlotOf(f)] = panel.tags[f] /\ wpage = "ingest"
      BY <3>1 DEF IInv, Typed, SlotOf
    <3>. QED BY <1>1, <1>2, <1>4, <1>5, <1>6, <2>2, <3>1, <3>2 DEF Mine, FlowAt
  <2>. QED BY <2>1, <2>2
<1>11. \A g, h \in Flow : flows'[g].here /\ flows'[h].here => g = h
  BY <1>4, <1>5 DEF IInv, HereOK, Mine
<1>. QED BY <1>7, <1>8, <1>9, <1>10, <1>11 DEF IInv, HereOK
-----------------------------------------------------------------------------
LEMMA InitHolds == Init => IInv
PROOF
<1>. SUFFICES ASSUME Init PROVE IInv
  OBVIOUS
<1>1. \A f \in Flow : flows[f] = Idle
  BY DEF Init
<1>2. /\ Mounted \in PanelRec /\ Mounted.tags = tags /\ panel = Mounted
  <2>1. tags \in [Slot -> Nat] /\ tags = [s \in Slot |-> 0]
    BY DEF Init
  <2>2. panel = [Mounted EXCEPT !.tags = tags]
    BY DEF Init
  <2>. QED BY <2>1, <2>2 DEF Mounted, PanelRec, Url
<1>3. Typed
  BY <1>1, <1>2, FlowFields DEF Init, Typed, Page
<1>4. PipeOK
  BY <1>1, FlowFields DEF Init, PipeOK, PipelineHonoured
<1>5. HereOK
  BY <1>1, FlowFields DEF HereOK, StoredOK
<1>. QED BY <1>3, <1>4, <1>5 DEF IInv

LEMMA InputSteps ==
    ASSUME IInv,
           \/ \E u \in Url : SetUrl(u)
           \/ SetPin
           \/ \E s \in Slot : PickTags(s)
           \/ \E p \in Pipeline : SetPipeline(p)
           \/ LoadPlatforms \/ LoadCapturePlatforms \/ Admin
    PROVE  IInv' /\ \A s \in Slot : tags[s] # 0 => tags'[s] # 0
PROOF
<1>. USE DEF IInv, Typed
<1>1. CASE \E u \in Url : SetUrl(u)
  <2>1. wpage = "ingest" /\ panel' \in PanelRec /\ panel'.busy = panel.busy /\ panel'.tags = panel.tags
    BY <1>1 DEF SetUrl, Editable, PanelRec
  <2>2. UNCHANGED <<wpage, flows, made, pipe, tags, offers>> /\ Input
    BY <1>1 DEF SetUrl, Editable, Same
  <2>. QED BY <2>1, <2>2, InputHolds, Counted
<1>2. CASE SetPin
  <2>1. wpage = "ingest" /\ panel' \in PanelRec /\ panel'.busy = panel.busy /\ panel'.tags = panel.tags
    BY <1>2 DEF SetPin, PanelRec
  <2>2. UNCHANGED <<wpage, flows, made, pipe, tags, offers, count>>
    BY <1>2 DEF SetPin, Same
  <2>. QED BY <2>1, <2>2, InputHolds
<1>3. CASE \E s \in Slot : PickTags(s)
  <2>1. PICK s \in Slot : PickTags(s)
    BY <1>3
  <2>2. /\ wpage = "ingest" /\ ~panel.busy /\ Input
        /\ UNCHANGED <<wpage, flows, made, pipe, offers>>
        /\ tags' = [tags EXCEPT ![s] = count'.clicks]
        /\ panel' = [panel EXCEPT !.tags[s] = count'.clicks]
    BY <2>1 DEF PickTags, Editable, Same
  <2>3. /\ count' \in [flows : Nat, clicks : Nat, lost : Nat]
        /\ count'.clicks \in Nat \ {0}
    BY <2>2, Counted
  <2>4. tags' \in [Slot -> Nat] /\ \A r \in Slot : tags[r] # 0 => tags'[r] # 0
    BY <2>2, <2>3
  <2>5. panel' \in PanelRec /\ panel'.busy = panel.busy /\ panel'.tags = tags'
    BY <2>2, <2>3, <2>4 DEF PanelRec
  <2>. QED BY <2>2, <2>3, <2>4, <2>5, InputHolds
<1>4. CASE \E p \in Pipeline : SetPipeline(p)
  <2>1. UNCHANGED <<wpage, flows, made, panel, tags, offers>> /\ Input /\ pipe' \in Pipeline
    BY <1>4 DEF SetPipeline, Same
  <2>. QED BY <2>1, InputHolds, Counted
<1>5. CASE LoadPlatforms
  <2>1. wpage = "ingest" /\ panel' \in PanelRec /\ panel'.busy = panel.busy /\ panel'.tags = panel.tags
    <3>1. offers.imports \in {"on", "off", "blocked", None}
      OBVIOUS
    <3>. QED BY <1>5, <3>1 DEF LoadPlatforms, PanelRec
  <2>2. UNCHANGED <<wpage, flows, made, pipe, tags, offers, count>>
    BY <1>5 DEF LoadPlatforms, Same
  <2>. QED BY <2>1, <2>2, InputHolds
<1>6. CASE LoadCapturePlatforms
  <2>1. wpage = "ingest" /\ panel' \in PanelRec /\ panel'.busy = panel.busy /\ panel'.tags = panel.tags
    <3>1. offers.captures \in {"on", "off", None}
      OBVIOUS
    <3>. QED BY <1>6, <3>1 DEF LoadCapturePlatforms, PanelRec
  <2>2. UNCHANGED <<wpage, flows, made, pipe, tags, offers, count>>
    BY <1>6 DEF LoadCapturePlatforms, Same
  <2>. QED BY <2>1, <2>2, InputHolds
<1>7. CASE Admin
  <2>1. /\ UNCHANGED <<wpage, flows, made, panel, pipe, tags>> /\ Input
        /\ offers' \in [imports : {"on", "off", "blocked"}, captures : {"on", "off"}]
    BY <1>7 DEF Admin
  <2>. QED BY <2>1, InputHolds, Counted
<1>. QED BY <1>1, <1>2, <1>3, <1>4, <1>5, <1>6, <1>7

LEMMA LeaveSteps ==
    ASSUME IInv, (\E p \in Page : Go(p)) \/ TaskEnds
    PROVE  IInv' /\ tags' = tags
PROOF
<1>. USE DEF IInv, Typed
<1>1. PICK p \in Page : p # wpage /\ Show(p, flows) /\ Input
  BY DEF Go, TaskEnds, Page
<1>2. UNCHANGED <<pipe, tags, made, offers>>
  BY DEF Go, TaskEnds
<1>3. \A f \in Flow : Kept(flows[f])
  BY DEF PipeOK
<1>. QED BY <1>1, <1>2, <1>3, LeaveHolds, Counted

LEMMA BeginSteps ==
    ASSUME IInv, SubmitLink \/ (\E f \in {"file", "mic"} : Upload(f)) \/ ShellRecords
    PROVE  IInv' /\ tags' = tags
PROOF
<1>1. CASE SubmitLink
  BY <1>1, BeginHolds DEF SubmitLink, Begin, Flow
<1>2. CASE \E f \in {"file", "mic"} : Upload(f)
  <2>1. PICK f \in {"file", "mic"} : Upload(f)
    BY <1>2
  <2>2. f \in Flow /\ f # "shell"
    BY DEF Flow
  <2>. QED BY <2>1, <2>2, BeginHolds DEF Upload, Begin
<1>3. CASE ShellRecords
  BY <1>3, BeginHolds DEF ShellRecords, Begin, Flow
<1>. QED BY <1>1, <1>2, <1>3

(* What the hub stores for a flow. *)
LEMMA StoredSteps ==
    ASSUME IInv, NEW f \in Flow, NEW k, NEW p, NEW a \in FlowAt, a # "idle",
           flows[f].at # "idle", Stored(f, Obj(k, f, p), a),
           k = "audio" \/ p = flows[f].pipe,
           a \in Storing => k # "transcribe" \/ flows[f].at = "transcribe"
    PROVE  IInv' /\ tags' = tags
PROOF
<1>. DEFINE o == Obj(k, f, p)
<1>1. /\ made' = made \cup {o} /\ Reach(f, a)
      /\ UNCHANGED <<wpage, panel, pipe, tags, offers, count>>
  BY DEF Stored
<1>2. /\ o.kind = k /\ o.pipe = p /\ o.chosen = flows[f].chosen /\ o.slot = SlotOf(f)
      /\ k # "transcribe" => o.tags = flows[f].tags
  BY DEF Obj
<1>. HIDE DEF o
<1>3. \A x \in made' \ made : x.kind # "audio" => x.pipe = x.chosen
  BY <1>1, <1>2 DEF IInv, PipeOK, Kept
<1>4. a \in Storing => \E x \in made' : x.tags = flows[f].tags /\ x.slot = SlotOf(f)
  <2>1. CASE k # "transcribe"
    BY <1>1, <1>2, <2>1
  <2>2. CASE flows[f].at = "transcribe"
    BY <1>1, <2>2 DEF IInv, HereOK, StoredOK, Carried
  <2>. QED BY <2>1, <2>2
<1>5. count' \in [flows : Nat, clicks : Nat, lost : Nat]
  BY <1>1 DEF IInv, Typed
<1>. QED BY <1>1, <1>3, <1>4, <1>5, ReachHolds

LEMMA HubSteps ==
    ASSUME IInv, NEW f \in Flow, HubStep(f) \/ Lose(f) \/ AudioThenTask(f)
    PROVE  IInv' /\ tags' = tags
PROOF
<1>1. CASE HubStep(f)
  <2>1. CASE f = "link" /\ HubLink
    <3>. DEFINE k == IF flows["link"].capture THEN "capture" ELSE "import"
    <3>1. k # "transcribe" /\ flows[f].at # "idle" /\ Stored(f, Obj(k, f, flows[f].pipe), "done")
      BY <2>1 DEF HubLink
    <3>2. "done" \in FlowAt
      BY DEF FlowAt
    <3>. HIDE DEF k
    <3>. QED BY <3>1, <3>2, StoredSteps
  <2>2. CASE f = "link" /\ HubRefuses
    <3>1. /\ flows[f].at # "idle" /\ Reach(f, "failed") /\ "failed" \in FlowAt \ Storing
          /\ UNCHANGED <<wpage, panel, pipe, tags, offers, made, count>>
      BY <2>2 DEF HubRefuses, FlowAt, Storing
    <3>2. count' \in [flows : Nat, clicks : Nat, lost : Nat]
      BY <3>1 DEF IInv, Typed
    <3>. QED BY <3>1, <3>2, ReachHolds
  <2>3. CASE f # "link" /\ HubAudio(f)
    <3>. DEFINE a == IF flows[f].pipe = "off" THEN "kept" ELSE "uploaded"
    <3>1. a \in FlowAt /\ a # "idle" /\ flows[f].at # "idle" /\ Stored(f, Obj("audio", f, "off"), a)
      BY <2>3 DEF HubAudio, FlowAt
    <3>. HIDE DEF a
    <3>. QED BY <3>1, StoredSteps
  <2>4. CASE f # "link" /\ HubTranscribe(f)
    <3>1. /\ "done" \in FlowAt /\ flows[f].at = "transcribe"
          /\ Stored(f, Obj("transcribe", f, flows[f].pipe), "done")
      BY <2>4 DEF HubTranscribe, TranscribeRequest, FlowAt
    <3>. QED BY <3>1, StoredSteps
  <2>. QED BY <1>1, <2>1, <2>2, <2>3, <2>4 DEF HubStep
<1>2. CASE Lose(f)
  <2>1. /\ flows[f].at # "idle" /\ Reach(f, "failed") /\ "failed" \in FlowAt \ Storing /\ Fault
        /\ UNCHANGED <<wpage, panel, pipe, tags, offers, made>>
    BY <1>2 DEF Lose, FlowAt, Storing
  <2>2. count' \in [flows : Nat, clicks : Nat, lost : Nat]
    BY <2>1, Counted DEF IInv
  <2>. QED BY <2>1, <2>2, ReachHolds
<1>3. CASE AudioThenTask(f)
  <2>1. /\ flows[f].at = "uploaded" /\ Reach(f, "transcribe") /\ "transcribe" \in FlowAt
        /\ UNCHANGED <<wpage, panel, pipe, tags, offers, made, count>>
    BY <1>3 DEF AudioThenTask, FlowAt
  <2>2. \E o \in made' : o.tags = flows[f].tags /\ o.slot = SlotOf(f)
    BY <2>1 DEF IInv, HereOK, StoredOK, Carried
  <2>3. count' \in [flows : Nat, clicks : Nat, lost : Nat]
    BY <2>1 DEF IInv, Typed
  <2>. QED BY <2>1, <2>2, <2>3, ReachHolds
<1>. QED BY <1>1, <1>2, <1>3

(* A flow that has succeeded uses its tags up and shows its page. *)
LEMMA SucceedHolds ==
    ASSUME IInv, NEW f \in Flow, flows[f].at \in {"kept", "done"}, NEW p \in {"task", "library"},
           Succeed(f, p)
    PROVE  /\ IInv'
           /\ \A s \in Slot : tags[s] # 0 /\ tags'[s] = 0 =>
                 \/ \E o \in made : o.tags = tags[s] /\ o.slot = s
                 \/ SlotOf(f) = s /\ ~flows[f].here
PROOF
<1>1. /\ Show(p, End(f)) /\ tags' = [tags EXCEPT ![SlotOf(f)] = 0]
      /\ UNCHANGED <<pipe, made, offers, count>>
  BY DEF Succeed
<1>2. SlotOf(f) \in Slot /\ p \in Page /\ p # "ingest"
  BY DEF Flow, Slot, SlotOf, Page
<1>3. tags' \in [Slot -> Nat] /\ \A s \in Slot : tags'[s] \in {0, tags[s]}
  BY <1>1, <1>2 DEF IInv, Typed
<1>4. count' \in [flows : Nat, clicks : Nat, lost : Nat]
  BY <1>1 DEF IInv, Typed
<1>5. /\ End(f) \in [Flow -> FlowRec]
      /\ \A g \in Flow : Kept(End(f)[g]) /\ (End(f)[g] = flows[g] \/ End(f)[g].at = "idle")
  BY FlowFields DEF End, IInv, Typed, PipeOK
<1>6. IInv'
  <2>1. CASE p = wpage
    <3>1. flows' = End(f) /\ panel' = panel /\ wpage' = wpage
      BY <1>1, <2>1 DEF Show
    <3>. QED BY <1>1, <1>2, <1>3, <1>4, <2>1, <3>1, EndHolds
  <2>2. CASE p # wpage
    BY <1>1, <1>2, <1>3, <1>4, <1>5, <2>2, LeaveHolds
  <2>. QED BY <2>1, <2>2
<1>7. ASSUME NEW s \in Slot, tags[s] # 0, tags'[s] = 0, flows[f].here
      PROVE  \E o \in made : o.tags = tags[s] /\ o.slot = s
  <2>1. s = SlotOf(f) /\ tags[s] = flows[f].tags
    BY <1>1, <1>2, <1>7 DEF IInv, Typed, HereOK, Mine
  <2>. QED BY <2>1 DEF IInv, HereOK, StoredOK, Carried
<1>8. \A s \in Slot : tags[s] # 0 /\ tags'[s] = 0 => s = SlotOf(f)
  BY <1>1 DEF IInv, Typed
<1>. QED BY <1>6, <1>7, <1>8

LEMMA FailHolds ==
    ASSUME IInv, NEW f \in Flow, FlowFailed(f)
    PROVE  IInv' /\ tags' = tags
PROOF
<1>1. /\ flows[f].at = "failed" /\ flows' = End(f) /\ panel' = Unbusy(f) /\ tags' = tags
      /\ UNCHANGED <<wpage, pipe, made, offers, count>>
  BY DEF FlowFailed, FailTags
<1>2. wpage = "ingest" => panel' \in PanelRec /\ panel'.tags = tags'
  BY <1>1 DEF IInv, Typed, Unbusy, PanelRec
<1>3. flows[f].here \/ panel' = panel
  BY <1>1 DEF Unbusy
<1>4. count' \in [flows : Nat, clicks : Nat, lost : Nat] /\ tags' \in [Slot -> Nat]
  BY <1>1 DEF IInv, Typed
<1>. QED BY <1>1, <1>2, <1>3, <1>4, EndHolds

(* A step that clears a choice of tags has its reason. *)
Spends == \A s \in Slot : tags[s] # 0 /\ tags'[s] = 0 =>
              \/ \E o \in made : o.tags = tags[s] /\ o.slot = s
              \/ \E f \in Flow : SlotOf(f) = s /\ flows[f].at # "idle" /\ ~flows[f].here

LEMMA StepHolds == IInv /\ [Next]_wVars => IInv' /\ Spends
PROOF
<1>. SUFFICES ASSUME IInv, [Next]_wVars PROVE IInv' /\ Spends
  OBVIOUS
<1>1. CASE UNCHANGED wVars
  <2>1. UNCHANGED <<wpage, flows, made, panel, pipe, tags, offers, count>>
    BY <1>1 DEF wVars
  <2>. QED BY <2>1, InputHolds DEF IInv, Typed, Spends
<1>2. CASE User
  BY <1>2, InputSteps, LeaveSteps, BeginSteps DEF User, Spends
<1>3. CASE LoadPlatforms \/ LoadCapturePlatforms \/ Admin
  BY <1>3, InputSteps DEF Spends
<1>4. ASSUME NEW f \in Flow, HubStep(f) \/ Lose(f) \/ AudioThenTask(f) PROVE IInv' /\ Spends
  BY <1>4, HubSteps DEF Spends
<1>5. ASSUME NEW f \in Flow, TaskCreated(f) \/ AudioKept(f) PROVE IInv' /\ Spends
  <2>1. PICK p \in {"task", "library"} : Succeed(f, p)
    BY <1>5 DEF TaskCreated, AudioKept
  <2>2. flows[f].at \in {"kept", "done"}
    BY <1>5 DEF TaskCreated, AudioKept
  <2>. QED BY <2>1, <2>2, SucceedHolds DEF Spends
<1>6. ASSUME NEW f \in Flow, FlowFailed(f) PROVE IInv' /\ Spends
  BY <1>6, FailHolds DEF Spends
<1>. QED BY <1>1, <1>2, <1>3, <1>4, <1>5, <1>6 DEF Next, Deliver

(* Every task carries the pipeline its flow was started with: Begin takes the   *)
(* settings of that moment into the flow's own variables, and no later change   *)
(* of the settings or of the stored run reaches them.                           *)
THEOREM KeepsThePipeline == Spec => []PipelineHonoured
PROOF
<1>1. IInv => PipelineHonoured
  BY DEF IInv, PipeOK
<1>. QED BY InitHolds, StepHolds, <1>1, PTL DEF Spec

(* A choice of extra tags is cleared only for something stored that carries it, *)
(* or by a flow that outlived its panel: the panel is locked while its own flow *)
(* runs, so nobody can have chosen other tags meanwhile.                        *)
THEOREM SpendsTagsOnce == Spec => TagsSpent
PROOF
<1>1. IInv /\ [Next]_wVars => [Spends]_wVars
  BY StepHolds
<1>2. Spec => [][Spends]_wVars
  BY InitHolds, StepHolds, <1>1, PTL DEF Spec
<1>. QED BY <1>2 DEF TagsSpent, Spends
-----------------------------------------------------------------------------
(* Types: the panel exists on the ingest page only, the stored run is a        *)
(* pipeline, and a choice of tags is one of the inputs so far.                 *)
Around ==
    /\ run \in Pipeline \cup {None} /\ (wpage # "ingest" => panel = None)
    /\ count.clicks <= MaxClicks /\ \A s \in Slot : tags[s] <= MaxClicks

LEMMA ClicksBounded ==
    ASSUME MaxClicks \in Nat, Typed, Around, UNCHANGED count \/ Input \/ Fault \/ Started
    PROVE  count'.clicks <= MaxClicks
  BY DEF Typed, Around, Input, Fault, Started

LEMMA ShowsPanel ==
    ASSUME Around, NEW p, NEW fs, Show(p, fs)
    PROVE  wpage' # "ingest" => panel' = None
  BY DEF Around, Show

LEMMA AroundHolds ==
    ASSUME MaxClicks \in Nat, IInv, Around, [Next]_wVars
    PROVE  Around'
PROOF
<1>1. ASSUME UNCHANGED <<wpage, run>>, wpage = "ingest" \/ UNCHANGED panel,
             \/ UNCHANGED tags
             \/ \E s \in Slot : tags' = [tags EXCEPT ![s] = count'.clicks],
             UNCHANGED count \/ Input \/ Fault \/ Started
      PROVE  Around'
  <2>1. count'.clicks <= MaxClicks /\ tags \in [Slot -> Nat]
    BY <1>1, ClicksBounded DEF IInv, Typed
  <2>2. \A s \in Slot : tags'[s] <= MaxClicks
    BY <1>1, <2>1 DEF Around
  <2>. QED BY <1>1, <2>1, <2>2 DEF Around
<1>2. CASE UNCHANGED wVars
  BY <1>1, <1>2 DEF wVars
<1>3. CASE User
  <2>1. ASSUME NEW u \in Url, SetUrl(u) PROVE Around'
    BY <1>1, <2>1 DEF SetUrl, Editable, Same
  <2>2. CASE SetPin
    BY <1>1, <2>2 DEF SetPin, Same
  <2>3. ASSUME NEW s \in Slot, PickTags(s) PROVE Around'
    BY <1>1, <2>3 DEF PickTags, Editable, Same
  <2>4. ASSUME NEW p \in Pipeline, SetPipeline(p) PROVE Around'
    BY <1>1, <2>4 DEF SetPipeline, Same
  <2>5. ASSUME NEW f, NEW at, Begin(f, at), wpage = "ingest" \/ UNCHANGED panel PROVE Around'
    <3>1. /\ UNCHANGED <<wpage, tags>> /\ Started /\ run' = pipe /\ pipe \in Pipeline
      BY <2>5 DEF Begin, IInv, Typed
    <3>. QED BY <2>5, <3>1, ClicksBounded DEF Around, IInv
  <2>6. ASSUME NEW p \in Page, Go(p) PROVE Around'
    <3>1. UNCHANGED <<run, tags>> /\ Input /\ Show(p, flows)
      BY <2>6 DEF Go
    <3>. QED BY <3>1, ShowsPanel, ClicksBounded DEF Around, IInv
  <2>7. CASE TaskEnds
    <3>1. UNCHANGED tags /\ run' = None /\ Input /\ \E p : Show(p, flows)
      BY <2>7 DEF TaskEnds
    <3>. QED BY <3>1, ShowsPanel, ClicksBounded DEF Around, IInv
  <2>. QED BY <1>3, <2>1, <2>2, <2>3, <2>4, <2>5, <2>6, <2>7
           DEF User, SubmitLink, Upload, ShellRecords
<1>4. CASE LoadPlatforms \/ LoadCapturePlatforms \/ Admin
  BY <1>1, <1>4 DEF LoadPlatforms, LoadCapturePlatforms, Admin, Same
<1>5. ASSUME NEW f \in Flow, HubStep(f) \/ Lose(f) \/ AudioThenTask(f) PROVE Around'
  BY <1>1, <1>5 DEF HubStep, HubLink, HubRefuses, HubAudio, HubTranscribe, Stored, Lose, AudioThenTask
<1>6. ASSUME NEW f \in Flow, TaskCreated(f) \/ AudioKept(f) PROVE Around'
  <2>1. /\ tags' = [tags EXCEPT ![SlotOf(f)] = 0] /\ run' \in {run, None} /\ UNCHANGED count
        /\ \E p : Show(p, End(f))
    BY <1>6 DEF TaskCreated, AudioKept, Succeed
  <2>2. \A s \in Slot : tags'[s] <= MaxClicks
    BY <2>1 DEF Around, IInv, Typed
  <2>. QED BY <2>1, <2>2, ShowsPanel DEF Around
<1>7. ASSUME NEW f \in Flow, FlowFailed(f) PROVE Around'
  <2>1. UNCHANGED <<wpage, run, tags, count>> /\ panel' = Unbusy(f)
    BY <1>7 DEF FlowFailed, FailTags
  <2>2. wpage = "ingest" \/ UNCHANGED panel
    BY <2>1 DEF Unbusy, IInv, HereOK, Mine
  <2>. QED BY <1>1, <2>1, <2>2
<1>. QED BY <1>2, <1>3, <1>4, <1>5, <1>6, <1>7 DEF Next, Deliver

(* The ingest page and the browser storage it shares with the shell keep their *)
(* types: the panel is mounted exactly on its page, and what it locks or shows *)
(* is never left behind (IngestPanel).                                         *)
THEOREM IngestTyped == MaxClicks \in Nat /\ None \notin PanelRec /\ Spec => []TypeOK
PROOF
<1>. SUFFICES ASSUME MaxClicks \in Nat, None \notin PanelRec PROVE Spec => []TypeOK
  OBVIOUS
<1>1. Init => Around
  BY DEF Init, Around
<1>2. IInv /\ Around /\ [Next]_wVars => Around'
  BY AroundHolds
<1>3. IInv /\ [Next]_wVars => IInv'
  BY StepHolds
<1>4. IInv /\ Around => TypeOK
  <2>. SUFFICES ASSUME IInv, Around PROVE TypeOK
    OBVIOUS
  <2>1. Typed /\ Around
    BY DEF IInv
  <2>2. (panel # None) = (wpage = "ingest")
    BY <2>1 DEF Typed, Around
  <2>3. panel # None => panel.url \in Url /\ panel.busy \in BOOLEAN /\ DOMAIN panel.tags = Slot
    BY <2>1, <2>2 DEF Typed, PanelRec
  <2>4. DOMAIN tags = Slot /\ \A s \in Slot : tags[s] \in 0..MaxClicks
    BY <2>1 DEF Typed, Around
  <2>5. \A f \in Flow : flows[f].at \in FlowAt /\ flows[f].pipe \in Pipeline
    BY <2>1 DEF Typed, FlowRec
  <2>. QED BY <2>1, <2>2, <2>3, <2>4, <2>5 DEF TypeOK, Typed, Around
<1>. QED BY <1>1, <1>2, <1>3, <1>4, InitHolds, PTL DEF Spec
=============================================================================
