------------------------------- MODULE WebPages -------------------------------
(* The pages and tabs of the web client that show something of the hub and let  *)
(* the user change it: one panel, its requests in flight, and the hub.  What    *)
(* each button does is in LibraryPanels, AdminPanels and ProfilePanels; here is *)
(* how every handler runs: click, write, answer, read again, answer.            *)
EXTENDS Naturals, FiniteSets, LibraryPanels, AdminPanels, ProfilePanels

CONSTANTS MaxClicks,   \* buttons that write
          MaxEdits,    \* forms that are filled in
          MaxFaults,   \* requests that fail
          None         \* nothing

ASSUME PagesBounds == MaxClicks \in Nat /\ MaxEdits \in Nat /\ MaxFaults \in Nat

Panels ==
    [transcript |-> TranscriptPage, summary |-> SummaryPage, audio |-> AudioPage,
     skill |-> SkillPage, newSkill |-> SkillCreatePage, share |-> ShareDialog, tags |-> TagsPanel,
     manageTags |-> TagManageDialog, links |-> LibraryLinksTab, skills |-> LibrarySkillsTab,
     public |-> PublicSummaryPage, settings |-> InstanceSettingsTab,
     workers |-> InstanceWorkersTab, tariffs |-> InstanceTariffsTab,
     legal |-> InstanceLegalDocumentsTab, orgs |-> InstanceOrgsTab,
     baseSkills |-> InstanceBaseSkillsTab, encryption |-> EncryptionTab, org |-> OrgPage,
     profile |-> ProfilePage]

VARIABLES
    panel, role,   \* what is on the screen, and who looks at it
    up, loaded,    \* it is still there; its first load has been answered
    hub,           \* the changes each resource at the hub holds
    shown,         \* and those the view shows of it
    gone,          \* the object of the page has been deleted
    draft,         \* what is typed into each form and not saved: 0, or its number
    busy,          \* the busy flags that are set
    calls,         \* the handlers in flight
    ask,           \* the dialog with the consequences
    told,          \* the changes whose handlers have ended well
    spent,         \* the drafts they have carried
    back,          \* some answer took a change of the hub's out of the view
    did            \* clicks, edits, faults so far

pageVars == <<panel, role, up, loaded, hub, shown, gone, draft, busy, calls, ask, told, spent,
              back, did>>

P == Panels[panel]
Op(c) == IF c.op \in DOMAIN P.ops THEN P.ops[c.op] ELSE Plain
Without(c) == calls \ {c}
Becomes(c, d) == calls' = Without(c) \cup {d}
-----------------------------------------------------------------------------
(* The user *)

\* handlers that only load again (a dialog over the page is closed) write nothing
Writes(o) == o.reads = {} \/ o.adds \cup o.puts \cup o.shows # {} \/ o.removes
Start(n, o) ==
    /\ did.clicks < MaxClicks /\ did' = [did EXCEPT !.clicks = @ + 1]
    /\ busy' = busy \cup o.busy
    /\ calls' = calls \cup
           {[op |-> n, id |-> did'.clicks, at |-> IF Writes(o) THEN "write" ELSE "read",
             base |-> [r \in o.puts \cup o.keeps |-> shown[r]],
             rs |-> IF Writes(o) THEN {} ELSE o.reads, ans |-> None, ok |-> TRUE,
             draft |-> IF o.form = "none" THEN 0 ELSE draft[o.form]]}
    /\ UNCHANGED <<panel, role, up, loaded, hub, shown, gone, draft, told, spent, back>>
Enabled(o) ==
    /\ up /\ loaded /\ role \in o.who /\ busy \cap o.off = {}
    /\ o.form # "none" => draft[o.form] # 0
Click(n) == /\ ask = None /\ Enabled(P.ops[n]) /\ ~P.ops[n].asks
            /\ Start(n, P.ops[n]) /\ UNCHANGED ask
\* a field of a form that is not locked
Edit(f) ==
    /\ up /\ loaded /\ ask = None /\ busy \cap P.forms[f].lock = {}
    /\ did.edits < MaxEdits /\ did' = [did EXCEPT !.edits = @ + 1]
    /\ draft' = [draft EXCEPT ![f] = did'.edits]
    /\ UNCHANGED <<panel, role, up, loaded, hub, shown, gone, busy, calls, ask, told, spent, back>>
-----------------------------------------------------------------------------
(* The dialog with the consequences: its effect runs again whenever the page    *)
(* that holds it is drawn again, for onClose is a new function every time.      *)

Fetch(n) == [op |-> n, at |-> "fetch", seen |-> None]
MutRedrawn == ask
Redrawn == IF ask = None THEN None ELSE Fetch(ask.op)
AskRest == UNCHANGED <<panel, role, up, loaded, hub, shown, gone, draft, busy, calls, told, spent, back>>
OpenDialog(n) ==
    /\ ask = None /\ Enabled(P.ops[n]) /\ P.ops[n].asks /\ did.clicks < MaxClicks
    /\ ask' = Fetch(n) /\ AskRest /\ UNCHANGED did
ImpactServed ==
    /\ ask # None /\ ask.at = "fetch"
    /\ ask' = IF gone THEN [ask EXCEPT !.at = "failed"]
                      ELSE [ask EXCEPT !.at = "served", !.seen = hub]
    /\ AskRest /\ UNCHANGED did
ImpactAnswered ==
    /\ ask # None /\ ask.at \in {"served", "failed"}
    /\ ask' = IF ask.at = "served" THEN [ask EXCEPT !.at = "shown"] ELSE None
    /\ AskRest /\ UNCHANGED did
CancelDialog == /\ ask # None /\ ask.at = "shown" /\ "impact" \notin busy
                /\ ask' = None /\ AskRest /\ UNCHANGED did
\* the page's own flag draws the page again, the dialog's does not
Confirm ==
    /\ ask # None /\ ask.at = "shown" /\ Enabled(P.ops[ask.op])
    /\ Start(ask.op, P.ops[ask.op])
    /\ ask' = IF P.ops[ask.op].busy = {"impact"} THEN ask ELSE Redrawn
-----------------------------------------------------------------------------
(* The hub *)

HubRest == UNCHANGED <<panel, role, up, loaded, shown, draft, busy, ask, told, spent, back, did>>
Written(c, r) == LET o == Op(c) IN
    IF r \in o.puts THEN c.base[r] \cup {c.id} ELSE IF r \in o.adds THEN hub[r] \cup {c.id} ELSE hub[r]
HubWrite(c) ==
    /\ c.at = "write" /\ ~gone
    /\ hub' = [r \in DOMAIN hub |-> Written(c, r)] /\ gone' = Op(c).removes
    /\ Becomes(c, [c EXCEPT !.at = "wrote", !.ans = [r \in Op(c).shows |-> hub'[r]]]) /\ HubRest
HubRead(c) ==
    /\ c.at = "read" /\ ~(gone /\ "item" \in c.rs)
    /\ Becomes(c, [c EXCEPT !.at = "got", !.ans = [r \in c.rs |-> hub[r]]])
    /\ UNCHANGED <<hub, gone>> /\ HubRest
\* the object is not there any more
HubRefuses(c) ==
    /\ gone /\ (c.at = "write" \/ (c.at = "read" /\ "item" \in c.rs))
    /\ Becomes(c, [c EXCEPT !.at = "failed"]) /\ UNCHANGED <<hub, gone>> /\ HubRest
\* a request fails: it is refused, or it or its answer is lost
Lose(c) ==
    /\ c.at # "failed" /\ did.faults < MaxFaults /\ did' = [did EXCEPT !.faults = @ + 1]
    /\ Becomes(c, [c EXCEPT !.at = "failed"])
    /\ UNCHANGED <<panel, role, up, loaded, hub, shown, gone, draft, busy, ask, told, spent, back>>
-----------------------------------------------------------------------------
(* The answers; a page that has been left takes none *)

View(f) ==
    /\ shown' = IF up THEN f ELSE shown
    /\ back' = (back \/ \E r \in DOMAIN hub : ~((shown[r] \cap hub[r]) \subseteq shown'[r]))
MutFilled(forms) == draft' = [f \in DOMAIN draft |-> IF f \in forms THEN None ELSE draft[f]]
Filled(forms) == draft' = [f \in DOMAIN draft |-> IF f \in forms THEN 0 ELSE draft[f]]
Ended(c) ==
    /\ busy' = busy \ Op(c).busy
    /\ told' = [r \in DOMAIN told |-> IF c.ok /\ r \in Op(c).adds \cup Op(c).puts
                                   THEN told[r] \cup {c.id} ELSE told[r]]
    /\ spent' = IF c.ok THEN spent \cup {c.draft} ELSE spent
    /\ up' = (up /\ ~Op(c).leaves)
    /\ ask' = IF up' /\ ~Op(c).asks THEN Redrawn ELSE None
Reload(c, rs) == IF rs = {} THEN {}
                 ELSE {[c EXCEPT !.op = "load", !.at = "read", !.rs = rs, !.ans = None, !.draft = 0]}
WriteAnswered(c) ==
    /\ c.at = "wrote"
    /\ LET o == Op(c) IN
       /\ View([r \in DOMAIN shown |->
                  IF r \in o.shows THEN c.ans[r] ELSE IF r \in o.marks THEN shown[r] \cup {c.id}
                  ELSE IF r \in o.keeps THEN c.base[r] ELSE shown[r]])
       /\ Filled(o.fills)
       /\ IF o.reads = {}
          THEN calls' = Without(c) \cup Reload(c, o.also) /\ Ended(c)
          ELSE /\ Becomes(c, [c EXCEPT !.at = "read", !.rs = o.reads, !.ans = None])
               /\ ask' = IF o.busy = {"impact"} THEN ask ELSE Redrawn
               /\ UNCHANGED <<busy, told, spent, up>>
    /\ UNCHANGED <<panel, role, loaded, hub, gone, did>>
ReadAnswered(c) ==
    /\ c.at = "got"
    /\ View([r \in DOMAIN shown |-> IF r \in c.rs THEN c.ans[r] ELSE shown[r]])
    /\ Filled({f \in DOMAIN draft : P.forms[f].from \in c.rs})
    /\ loaded' = (loaded \/ P.loads \subseteq c.rs)
    /\ calls' = Without(c) \cup Reload(c, Op(c).also) /\ Ended(c)
    /\ UNCHANGED <<panel, role, hub, gone, did>>
Unbusy(c) == busy \ Op(c).busy
Failed(c) ==
    /\ c.at = "failed" /\ ~(Op(c).anyway /\ c.rs = {})
    /\ busy' = Unbusy(c) /\ calls' = Without(c)
    /\ ask' = IF Op(c).stays THEN ask ELSE IF Op(c).asks THEN None ELSE Redrawn
    /\ UNCHANGED <<panel, role, up, loaded, hub, shown, gone, draft, told, spent, back, did>>
FailedReads(c) ==
    /\ c.at = "failed" /\ Op(c).anyway /\ c.rs = {}
    /\ Becomes(c, [c EXCEPT !.at = "read", !.rs = Op(c).reads, !.ok = FALSE])
    /\ UNCHANGED <<panel, role, up, loaded, hub, shown, gone, draft, busy, ask, told, spent, back, did>>
-----------------------------------------------------------------------------
FirstLoad(rs) == [op |-> "load", id |-> 0, at |-> "read", base |-> [r \in {} |-> {}], rs |-> rs,
                  ans |-> None, ok |-> TRUE, draft |-> 0]
Init ==
    /\ panel \in DOMAIN Panels /\ role \in Panels[panel].roles
    /\ up = TRUE /\ loaded = (P.loads = {})
    /\ hub = [r \in Resources(P) |-> {}] /\ shown = hub /\ told = hub
    /\ gone = FALSE /\ draft = [f \in DOMAIN P.forms |-> 0] /\ busy = {}
    /\ calls = IF P.loads = {} THEN {} ELSE {FirstLoad(P.loads)}
    /\ ask = None /\ spent = {} /\ back = FALSE
    /\ did = [clicks |-> 0, edits |-> 0, faults |-> 0]

User ==
    \/ \E n \in DOMAIN P.ops : Click(n)
    \/ \E n \in DOMAIN P.ops : OpenDialog(n)
    \/ \E f \in DOMAIN draft : Edit(f)
    \/ CancelDialog
    \/ Confirm
Hub == \E c \in calls : HubWrite(c) \/ HubRead(c) \/ HubRefuses(c)
Answer == \E c \in calls : WriteAnswered(c) \/ ReadAnswered(c) \/ Failed(c) \/ FailedReads(c)
Next ==
    \/ User
    \/ ImpactServed
    \/ ImpactAnswered
    \/ Hub
    \/ \E c \in calls : Lose(c)
    \/ Answer
Spec == Init /\ [][Next]_pageVars
-----------------------------------------------------------------------------
(* Properties *)

Change == 1..MaxClicks
TypeOK ==
    /\ panel \in DOMAIN Panels /\ role \in P.roles /\ {up, loaded, gone, back} \subseteq BOOLEAN
    /\ hub \in [Resources(P) -> SUBSET Change] /\ shown \in [Resources(P) -> SUBSET Change]
    /\ told \in [Resources(P) -> SUBSET Change] /\ draft \in [DOMAIN P.forms -> 0..MaxEdits]
    /\ busy \subseteq Flags(P) /\ spent \subseteq 0..MaxEdits
    /\ \A c \in calls : c.at \in {"write", "wrote", "read", "got", "failed"} /\ c.id \in 0..MaxClicks
    /\ ask # None => ask.at \in {"fetch", "served", "failed", "shown"}

(* When everything has been answered, the page shows every change its user made on it: each
   handler refreshes all it has changed.  The exceptions are a request that failed and an answer
   that overtook another. *)
OwnEditsShown ==
    up /\ calls = {} /\ did.faults = 0 /\ ~back => \A r \in P.loads : told[r] \cap hub[r] \subseteq shown[r]

(* A change that was saved is never undone by another save from the same page, although some
   write a whole list from what the view showed; only the meeting hosts of OrgPage, which have no
   busy flag, can lose one. *)
EditsKept == ~back => \A r \in DOMAIN hub \ {"hosts"} : told[r] \subseteq hub[r]

(* What is typed into a form that creates something is sent once: no second click sends it again
   while the first is on its way or after it has been accepted. *)
Creating == {"picked", "new", "name", "tariff", "clone", "org", "confirm", "skill", "token"}
SubmittedOnce ==
    [][\A c \in calls' \ calls : c.id \notin {d.id : d \in calls} /\ c.draft # 0 /\ Op(c).form \in Creating =>
           c.draft \notin spent \cup {d.draft : d \in calls}]_pageVars

(* The consequences shown when a deletion is confirmed include every change the page had
   reported by then. *)
ImpactCurrent ==
    [][\A c \in calls' \ calls : c.at = "write" /\ Op(c).asks =>
           \A r \in DOMAIN told : told[r] \subseteq ask.seen[r]]_pageVars
=============================================================================
