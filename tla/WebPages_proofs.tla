--------------------------- MODULE WebPages_proofs ----------------------------
(* Theorems about the pages that show something of the hub and change it: for   *)
(* every panel, every role and any number of clicks, edits and failures.  First *)
(* what the tables of the panels say, one panel after the other; then the shape *)
(* of a handler in flight and the types; then what each property rests on.      *)
EXTENDS WebPages, TLAPS

-----------------------------------------------------------------------------
(* What the tables say, panel by panel *)

(* No operation whose handler sets the flag can be started while it is set. *)
Exclusive(p, f) == \A n \in DOMAIN p.ops : f \in p.ops[n].busy => f \in p.ops[n].off

(* Buttons, forms and the reloading handler have names of their own. *)
Named(p) ==
    /\ "load" \notin DOMAIN p.ops
    /\ \A n \in DOMAIN p.ops : p.ops[n].form = "none" \/ p.ops[n].form \in DOMAIN p.forms
(* What a handler changes is in the view before it is done. *)
Refreshes(p) ==
    \A n \in DOMAIN p.ops : LET o == p.ops[n] IN
        /\ p.loads \cap o.adds \subseteq o.shows \cup o.marks \cup o.reads \cup o.also
        /\ p.loads \cap o.puts \subseteq o.shows
(* A page whose object is deleted is left; nothing reads the object before. *)
Removes(p) ==
    \A n \in DOMAIN p.ops : LET o == p.ops[n] IN
        /\ o.removes \in BOOLEAN
        /\ o.removes => o.leaves /\ "item" \notin o.reads
(* What is written whole is written by one handler at a time, which takes its answer into *)
(* the view (OrgPage has no flag for the meeting hosts).                                  *)
PutsAlone(p) ==
    \A n, m \in DOMAIN p.ops : \A r \in p.ops[n].puts \ {"hosts"} :
        /\ r \in p.ops[n].shows /\ r \notin p.ops[m].adds
        /\ \E f \in p.ops[n].busy :
               Exclusive(p, f) /\ \A k \in DOMAIN p.ops : r \in p.ops[k].puts => f \in p.ops[k].busy
(* A form that creates something has one button, with a flag; what it creates is a change, *)
(* and then the form is cleared or left.                                                   *)
CreatesOnce(p) ==
    \A n \in DOMAIN p.ops : LET o == p.ops[n] IN
        o.form \in Creating =>
            /\ o.adds # {} /\ (o.form \in o.fills \/ o.leaves)
            /\ \E f \in o.busy :
                   Exclusive(p, f)
                   /\ \A k \in DOMAIN p.ops : p.ops[k].form = o.form => f \in p.ops[k].busy
(* Where a dialog comes first nothing is written whole. *)
AsksFirst(p) == \A n, m \in DOMAIN p.ops : p.ops[n].asks => p.ops[m].puts = {}

PanelOK(p) ==
    Named(p) /\ Refreshes(p) /\ Removes(p) /\ PutsAlone(p) /\ CreatesOnce(p) /\ AsksFirst(p)
(* The same, button by button: W is what some button writes whole, lock the flag of such a *)
(* resource or of a form that creates something.                                           *)
Orderly(o, L, F, W, lock) ==
    /\ o.form \in F \cup {"none"}
    /\ L \cap o.adds \subseteq o.shows \cup o.marks \cup o.reads \cup o.also
    /\ o.removes \in BOOLEAN
    /\ o.removes => o.leaves /\ "item" \notin o.reads
    /\ o.puts \subseteq W \cap o.shows /\ W \cap o.adds = {} /\ (o.asks => W = {})
    /\ \A f \in DOMAIN lock : lock[f] \in o.busy => lock[f] \in o.off
    /\ \A r \in o.puts \ {"hosts"} : r \in DOMAIN lock /\ lock[r] \in o.busy
    /\ o.form \in Creating => /\ o.adds # {} /\ (o.form \in o.fills \/ o.leaves)
                              /\ o.form \in DOMAIN lock /\ lock[o.form] \in o.busy

LEMMA OrderlyPanel ==
    ASSUME NEW p, NEW W, NEW lock, "load" \notin DOMAIN p.ops,
           \A n \in DOMAIN p.ops : Orderly(p.ops[n], p.loads, DOMAIN p.forms, W, lock)
    PROVE  PanelOK(p)
PROOF
<1>1. Named(p) /\ Refreshes(p) /\ Removes(p)
  BY DEF Named, Refreshes, Removes, Orderly
<1>2. \A f \in DOMAIN lock : Exclusive(p, lock[f])
  BY DEF Exclusive, Orderly
<1>3. PutsAlone(p)
  <2>. SUFFICES ASSUME NEW n \in DOMAIN p.ops, NEW m \in DOMAIN p.ops, NEW r \in p.ops[n].puts \ {"hosts"}
                PROVE  /\ r \in p.ops[n].shows /\ r \notin p.ops[m].adds
                       /\ \E f \in p.ops[n].busy :
                              /\ Exclusive(p, f)
                              /\ \A k \in DOMAIN p.ops : r \in p.ops[k].puts => f \in p.ops[k].busy
    BY DEF PutsAlone
  <2>. QED BY <1>2 DEF Orderly
<1>4. CreatesOnce(p)
  <2>. SUFFICES ASSUME NEW n \in DOMAIN p.ops, p.ops[n].form \in Creating
                PROVE  /\ p.ops[n].adds # {}
                       /\ p.ops[n].form \in p.ops[n].fills \/ p.ops[n].leaves
                       /\ \E f \in p.ops[n].busy :
                              /\ Exclusive(p, f)
                              /\ \A k \in DOMAIN p.ops :
                                     p.ops[k].form = p.ops[n].form => f \in p.ops[k].busy
    BY DEF CreatesOnce
  <2>. QED BY <1>2 DEF Orderly
<1>5. AsksFirst(p)
  BY DEF AsksFirst, Orderly
<1>. QED BY <1>1, <1>3, <1>4, <1>5 DEF PanelOK

LEMMA PlainFields ==
    /\ Plain.off = {} /\ Plain.busy = {} /\ Plain.form = "none" /\ Plain.adds = {} /\ Plain.puts = {}
    /\ Plain.shows = {} /\ Plain.marks = {} /\ Plain.keeps = {} /\ Plain.reads = {} /\ Plain.also = {}
    /\ Plain.fills = {}
    /\ Plain.asks = FALSE /\ Plain.leaves = FALSE /\ Plain.removes = FALSE
    /\ DOMAIN Plain = {"who", "off", "busy", "form", "adds", "puts", "shows", "marks", "keeps", "reads",
                       "also", "fills", "asks", "leaves", "removes", "anyway", "stays"}
  BY DEF Plain

LEMMA NoForm == DOMAIN NoForms = {}
  BY DEF NoForms

LEMMA TranscriptOK == PanelOK(TranscriptPage)
PROOF
<1>. DEFINE Ok(o) == Orderly(o, TranscriptLoad, {}, {}, NoForms)
<1>1. Ok(TranscriptHide) /\ Ok(TranscriptRename) /\ Ok(TranscriptDelete) /\
      Ok(TranscriptSummarize) /\ Ok(TranscriptShared)
  <2>. USE PlainFields, NoForm
       DEF Orderly, Creating, TranscriptLoad, TranscriptHide, TranscriptRename,
           TranscriptDelete, TranscriptSummarize, TranscriptShared
  <2>1. Ok(TranscriptHide) /\ Ok(TranscriptRename)
    OBVIOUS
  <2>2. Ok(TranscriptDelete) /\ Ok(TranscriptSummarize)
    OBVIOUS
  <2>3. Ok(TranscriptShared)
    OBVIOUS
  <2>. QED BY <2>1, <2>2, <2>3
<1>. HIDE DEF Ok
<1>2. \A n \in DOMAIN TranscriptPage.ops : Ok(TranscriptPage.ops[n])
  BY <1>1 DEF TranscriptPage
<1>3. /\ TranscriptPage.loads = TranscriptLoad /\ DOMAIN TranscriptPage.forms = {}
      /\ "load" \notin DOMAIN TranscriptPage.ops
  BY NoForm DEF TranscriptPage
<1>. QED BY <1>2, <1>3, OrderlyPanel DEF Ok

LEMMA SummaryOK == PanelOK(SummaryPage)
PROOF
<1>. DEFINE Ok(o) == Orderly(o, SummaryLoad, {"body"}, {}, NoForms)
<1>1. Ok(SummarySave) /\ Ok(SummaryHide) /\ Ok(SummaryRename) /\ Ok(SummaryDelete) /\
      Ok(SummaryShared)
  <2>. USE PlainFields, NoForm
       DEF Orderly, Creating, SummaryLoad, TranscriptRename, TranscriptDelete, SummarySave,
           SummaryHide, SummaryRename, SummaryDelete, SummaryShared
  <2>1. Ok(SummarySave) /\ Ok(SummaryHide)
    OBVIOUS
  <2>2. Ok(SummaryRename) /\ Ok(SummaryDelete)
    OBVIOUS
  <2>3. Ok(SummaryShared)
    OBVIOUS
  <2>. QED BY <2>1, <2>2, <2>3
<1>. HIDE DEF Ok
<1>2. \A n \in DOMAIN SummaryPage.ops : Ok(SummaryPage.ops[n])
  BY <1>1 DEF SummaryPage
<1>3. /\ SummaryPage.loads = SummaryLoad /\ DOMAIN SummaryPage.forms = {"body"}
      /\ "load" \notin DOMAIN SummaryPage.ops
  BY NoForm DEF SummaryPage
<1>. QED BY <1>2, <1>3, OrderlyPanel DEF Ok

LEMMA AudioOK == PanelOK(AudioPage)
PROOF
<1>. DEFINE Ok(o) == Orderly(o, AudioLoad, {}, {}, NoForms)
<1>1. Ok(AudioTranscribe) /\ Ok(AudioHide) /\ Ok(AudioDelete) /\ Ok(AudioShared)
  <2>. USE PlainFields, NoForm
       DEF Orderly, Creating, AudioLoad, TranscriptDelete, AudioTranscribe, AudioHide,
           AudioDelete, AudioShared
  <2>1. Ok(AudioTranscribe) /\ Ok(AudioHide)
    OBVIOUS
  <2>2. Ok(AudioDelete) /\ Ok(AudioShared)
    OBVIOUS
  <2>. QED BY <2>1, <2>2
<1>. HIDE DEF Ok
<1>2. \A n \in DOMAIN AudioPage.ops : Ok(AudioPage.ops[n])
  BY <1>1 DEF AudioPage
<1>3. /\ AudioPage.loads = AudioLoad /\ DOMAIN AudioPage.forms = {}
      /\ "load" \notin DOMAIN AudioPage.ops
  BY NoForm DEF AudioPage
<1>. QED BY <1>2, <1>3, OrderlyPanel DEF Ok

LEMMA SkillOK == PanelOK(SkillPage)
PROOF
<1>. DEFINE lock == [item |-> "busy"]
            Ok(o) == Orderly(o, SkillLoad, {"body"}, {"item"}, lock)
<1>0. /\ DOMAIN lock = {"item"}
      /\ lock["item"] = "busy"
  OBVIOUS
<1>. HIDE DEF lock
<1>1. Ok(SkillSave) /\ Ok(SkillRename) /\ Ok(SkillRemove) /\ Ok(SkillCopy) /\ Ok(SkillDecline)
      /\ Ok(SkillShared)
  <2>. USE PlainFields, <1>0
       DEF Orderly, Creating, SkillLoad, SkillSave, SkillRename, SkillRemove, SkillCopy,
           SkillDecline, SkillShared
  <2>1. Ok(SkillSave)
    OBVIOUS
  <2>2. Ok(SkillRename)
    BY ZenonT(60)
  <2>3. Ok(SkillRemove)
    OBVIOUS
  <2>4. Ok(SkillCopy)
    OBVIOUS
  <2>5. Ok(SkillDecline)
    OBVIOUS
  <2>6. Ok(SkillShared)
    OBVIOUS
  <2>. QED BY <2>1, <2>2, <2>3, <2>4, <2>5, <2>6
<1>. HIDE DEF Ok
<1>2. \A n \in DOMAIN SkillPage.ops : Ok(SkillPage.ops[n])
  BY <1>1 DEF SkillPage
<1>3. /\ SkillPage.loads = SkillLoad /\ DOMAIN SkillPage.forms = {"body"}
      /\ "load" \notin DOMAIN SkillPage.ops
  BY NoForm DEF SkillPage
<1>. QED BY <1>2, <1>3, OrderlyPanel DEF Ok

LEMMA ShareOK == PanelOK(ShareDialog)
PROOF
<1>. DEFINE lock == [picked |-> "busy"]
            Ok(o) == Orderly(o, ShareLoad, {"picked", "pin"}, {}, lock)
<1>0. /\ DOMAIN lock = {"picked"}
      /\ lock["picked"] = "busy"
  OBVIOUS
<1>. HIDE DEF lock
<1>1. Ok(ShareSubmit) /\ Ok(ShareRevoke) /\ Ok(LinkCreate) /\ Ok(LinkRevoke)
  <2>. USE PlainFields, <1>0
       DEF Orderly, Creating, ShareLoad, ShareSubmit, ShareRevoke, LinkCreate, LinkRevoke
  <2>1. Ok(ShareSubmit)
    OBVIOUS
  <2>2. Ok(ShareRevoke)
    OBVIOUS
  <2>3. Ok(LinkCreate)
    OBVIOUS
  <2>4. Ok(LinkRevoke)
    OBVIOUS
  <2>. QED BY <2>1, <2>2, <2>3, <2>4
<1>. HIDE DEF Ok
<1>2. \A n \in DOMAIN ShareDialog.ops : Ok(ShareDialog.ops[n])
  BY <1>1 DEF ShareDialog
<1>3. /\ ShareDialog.loads = ShareLoad /\ DOMAIN ShareDialog.forms = {"picked", "pin"}
      /\ "load" \notin DOMAIN ShareDialog.ops
  BY NoForm DEF ShareDialog
<1>. QED BY <1>2, <1>3, OrderlyPanel DEF Ok

LEMMA TagsOK == PanelOK(TagsPanel)
PROOF
<1>. DEFINE lock == [tags |-> "tagsBusy"]
            Ok(o) == Orderly(o, {"item", "tags", "catalog"}, {}, {"tags"}, lock)
<1>0. /\ DOMAIN lock = {"tags"}
      /\ lock["tags"] = "tagsBusy"
  OBVIOUS
<1>. HIDE DEF lock
<1>1. Ok(TagsSave) /\ Ok(TranscriptRename)
  <2>. USE PlainFields, <1>0
       DEF Orderly, Creating, TagsSave, TranscriptRename
  <2>1. Ok(TagsSave)
    BY ZenonT(60)
  <2>2. Ok(TranscriptRename)
    OBVIOUS
  <2>. QED BY <2>1, <2>2
<1>. HIDE DEF Ok
<1>2. \A n \in DOMAIN TagsPanel.ops : Ok(TagsPanel.ops[n])
  BY <1>1 DEF TagsPanel
<1>3. /\ TagsPanel.loads = {"item", "tags", "catalog"} /\ DOMAIN TagsPanel.forms = {}
      /\ "load" \notin DOMAIN TagsPanel.ops
  BY NoForm DEF TagsPanel
<1>. QED BY <1>2, <1>3, OrderlyPanel DEF Ok

LEMMA TagManageOK == PanelOK(TagManageDialog)
PROOF
<1>. DEFINE lock == [name |-> "busy"]
            Ok(o) == Orderly(o, TagDialogLoad, {"name"}, {}, lock)
<1>0. /\ DOMAIN lock = {"name"}
      /\ lock["name"] = "busy"
  OBVIOUS
<1>. HIDE DEF lock
<1>1. Ok(TagRename) /\ Ok(TagDelete)
  <2>. USE PlainFields, <1>0
       DEF Orderly, Creating, TagDialogLoad, TagRename, TagDelete
  <2>1. Ok(TagRename)
    OBVIOUS
  <2>2. Ok(TagDelete)
    OBVIOUS
  <2>. QED BY <2>1, <2>2
<1>. HIDE DEF Ok
<1>2. \A n \in DOMAIN TagManageDialog.ops : Ok(TagManageDialog.ops[n])
  BY <1>1 DEF TagManageDialog
<1>3. /\ TagManageDialog.loads = TagDialogLoad /\ DOMAIN TagManageDialog.forms = {"name"}
      /\ "load" \notin DOMAIN TagManageDialog.ops
  BY NoForm DEF TagManageDialog
<1>. QED BY <1>2, <1>3, OrderlyPanel DEF Ok

LEMMA LinksOK == PanelOK(LibraryLinksTab)
PROOF
<1>. DEFINE Ok(o) == Orderly(o, {"links"}, {}, {}, NoForms)
<1>1. Ok(LinksRevoke)
  BY PlainFields, NoForm
  DEF Orderly, Creating, LinksRevoke
<1>. HIDE DEF Ok
<1>2. \A n \in DOMAIN LibraryLinksTab.ops : Ok(LibraryLinksTab.ops[n])
  BY <1>1 DEF LibraryLinksTab
<1>3. /\ LibraryLinksTab.loads = {"links"} /\ DOMAIN LibraryLinksTab.forms = {}
      /\ "load" \notin DOMAIN LibraryLinksTab.ops
  BY NoForm DEF LibraryLinksTab
<1>. QED BY <1>2, <1>3, OrderlyPanel DEF Ok

LEMMA SkillsOK == PanelOK(LibrarySkillsTab)
PROOF
<1>. DEFINE Ok(o) == Orderly(o, {"skills"}, {}, {}, NoForms)
<1>1. Ok(SkillsDecline)
  BY PlainFields, NoForm
  DEF Orderly, Creating, SkillsDecline
<1>. HIDE DEF Ok
<1>2. \A n \in DOMAIN LibrarySkillsTab.ops : Ok(LibrarySkillsTab.ops[n])
  BY <1>1 DEF LibrarySkillsTab
<1>3. /\ LibrarySkillsTab.loads = {"skills"} /\ DOMAIN LibrarySkillsTab.forms = {}
      /\ "load" \notin DOMAIN LibrarySkillsTab.ops
  BY NoForm DEF LibrarySkillsTab
<1>. QED BY <1>2, <1>3, OrderlyPanel DEF Ok

LEMMA PublicOK == PanelOK(PublicSummaryPage)
PROOF
<1>. DEFINE Ok(o) == Orderly(o, {"item"}, {"pin"}, {}, NoForms)
<1>1. Ok(PublicUnlock)
  BY PlainFields, NoForm
  DEF Orderly, Creating, PublicUnlock
<1>. HIDE DEF Ok
<1>2. \A n \in DOMAIN PublicSummaryPage.ops : Ok(PublicSummaryPage.ops[n])
  BY <1>1 DEF PublicSummaryPage
<1>3. /\ PublicSummaryPage.loads = {"item"} /\ DOMAIN PublicSummaryPage.forms = {"pin"}
      /\ "load" \notin DOMAIN PublicSummaryPage.ops
  BY NoForm DEF PublicSummaryPage
<1>. QED BY <1>2, <1>3, OrderlyPanel DEF Ok

LEMMA SettingsOK == PanelOK(InstanceSettingsTab)
PROOF
<1>. DEFINE lock == [settings |-> "saveBusy"]
            Ok(o) == Orderly(o, SettingsLoad, {"settings"}, {"settings"}, lock)
<1>0. /\ DOMAIN lock = {"settings"}
      /\ lock["settings"] = "saveBusy"
  OBVIOUS
<1>. HIDE DEF lock
<1>1. Ok(SettingsSave) /\ Ok(SmtpTest) /\ Ok(TelegramTest)
  <2>. USE PlainFields, <1>0
       DEF Orderly, Creating, SettingsLoad, ForAdmins, SettingsSave, SmtpTest, TelegramTest
  <2>1. Ok(SettingsSave)
    OBVIOUS
  <2>2. Ok(SmtpTest)
    OBVIOUS
  <2>3. Ok(TelegramTest)
    OBVIOUS
  <2>. QED BY <2>1, <2>2, <2>3
<1>. HIDE DEF Ok
<1>2. \A n \in DOMAIN InstanceSettingsTab.ops : Ok(InstanceSettingsTab.ops[n])
  BY <1>1 DEF InstanceSettingsTab
<1>3. /\ InstanceSettingsTab.loads = SettingsLoad /\ DOMAIN InstanceSettingsTab.forms = {"settings"}
      /\ "load" \notin DOMAIN InstanceSettingsTab.ops
  BY NoForm DEF InstanceSettingsTab
<1>. QED BY <1>2, <1>3, OrderlyPanel DEF Ok

LEMMA WorkersOK == PanelOK(InstanceWorkersTab)
PROOF
<1>. DEFINE Ok(o) == Orderly(o, WorkersLoad, {"worker"}, {}, NoForms)
<1>1. Ok(WorkerProbe) /\ Ok(WorkerCreate) /\ Ok(WorkerChange) /\ Ok(WorkerDelete)
  <2>. USE PlainFields, NoForm
       DEF Orderly, Creating, WorkersLoad, ForAdmins, WorkerProbe, WorkerCreate,
           WorkerChange, WorkerDelete
  <2>1. Ok(WorkerProbe)
    OBVIOUS
  <2>2. Ok(WorkerCreate)
    OBVIOUS
  <2>3. Ok(WorkerChange)
    OBVIOUS
  <2>4. Ok(WorkerDelete)
    OBVIOUS
  <2>. QED BY <2>1, <2>2, <2>3, <2>4
<1>. HIDE DEF Ok
<1>2. \A n \in DOMAIN InstanceWorkersTab.ops : Ok(InstanceWorkersTab.ops[n])
  BY <1>1 DEF InstanceWorkersTab
<1>3. /\ InstanceWorkersTab.loads = WorkersLoad /\ DOMAIN InstanceWorkersTab.forms = {"worker"}
      /\ "load" \notin DOMAIN InstanceWorkersTab.ops
  BY NoForm DEF InstanceWorkersTab
<1>. QED BY <1>2, <1>3, OrderlyPanel DEF Ok

LEMMA TariffsOK == PanelOK(InstanceTariffsTab)
PROOF
<1>. DEFINE lock == [tariff |-> "saveBusy", clone |-> "cloneBusy"]
            Ok(o) == Orderly(o, TariffsLoad, {"tariff", "clone"}, {}, lock)
<1>0. /\ DOMAIN lock = {"tariff", "clone"}
      /\ lock["tariff"] = "saveBusy" /\ lock["clone"] = "cloneBusy"
  OBVIOUS
<1>. HIDE DEF lock
<1>1. Ok(TariffSave) /\ Ok(TariffClone) /\ Ok(TariffArchive) /\ Ok(TariffDelete) /\
      Ok(TariffDeleteEdited)
  <2>. USE PlainFields, <1>0
       DEF Orderly, Creating, TariffsLoad, ForAdmins, WorkerDelete, TariffSave, TariffClone,
           TariffArchive, TariffDelete, TariffDeleteEdited
  <2>1. Ok(TariffSave)
    OBVIOUS
  <2>2. Ok(TariffClone)
    OBVIOUS
  <2>3. Ok(TariffArchive)
    OBVIOUS
  <2>4. Ok(TariffDelete)
    OBVIOUS
  <2>5. Ok(TariffDeleteEdited)
    OBVIOUS
  <2>. QED BY <2>1, <2>2, <2>3, <2>4, <2>5
<1>. HIDE DEF Ok
<1>2. \A n \in DOMAIN InstanceTariffsTab.ops : Ok(InstanceTariffsTab.ops[n])
  BY <1>1 DEF InstanceTariffsTab
<1>3. /\ InstanceTariffsTab.loads = TariffsLoad /\ DOMAIN InstanceTariffsTab.forms = {"tariff", "clone"}
      /\ "load" \notin DOMAIN InstanceTariffsTab.ops
  BY NoForm DEF InstanceTariffsTab
<1>. QED BY <1>2, <1>3, OrderlyPanel DEF Ok

LEMMA LegalOK == PanelOK(InstanceLegalDocumentsTab)
PROOF
<1>. DEFINE Ok(o) == Orderly(o, LegalLoad, {"legal", "footer"}, {}, NoForms)
<1>1. Ok(LegalSave) /\ Ok(FooterSave)
  <2>. USE PlainFields, NoForm
       DEF Orderly, Creating, LegalLoad, ForAdmins, LegalForms, LegalSave, FooterSave
  <2>1. Ok(LegalSave)
    OBVIOUS
  <2>2. Ok(FooterSave)
    OBVIOUS
  <2>. QED BY <2>1, <2>2
<1>. HIDE DEF Ok
<1>2. \A n \in DOMAIN InstanceLegalDocumentsTab.ops : Ok(InstanceLegalDocumentsTab.ops[n])
  BY <1>1 DEF InstanceLegalDocumentsTab, LegalForms
<1>3. /\ InstanceLegalDocumentsTab.loads = LegalLoad /\ DOMAIN InstanceLegalDocumentsTab.forms = {"legal", "footer"}
      /\ "load" \notin DOMAIN InstanceLegalDocumentsTab.ops
  BY NoForm DEF InstanceLegalDocumentsTab, LegalForms
<1>. QED BY <1>2, <1>3, OrderlyPanel DEF Ok

LEMMA OrgsOK == PanelOK(InstanceOrgsTab)
PROOF
<1>. DEFINE lock == [org |-> "createBusy", confirm |-> "deleteBusy"]
            Ok(o) == Orderly(o, OrgsLoad, {"confirm", "org", "wallet"}, {}, lock)
<1>0. /\ DOMAIN lock = {"org", "confirm"}
      /\ lock["org"] = "createBusy" /\ lock["confirm"] = "deleteBusy"
  OBVIOUS
<1>. HIDE DEF lock
<1>1. Ok(OrgsCreate) /\ Ok(OrgsResetMfa) /\ Ok(OrgsHide) /\ Ok(OrgsDelete) /\ Ok(OrgsRole) /\
      Ok(OrgsPassword) /\ Ok(OrgsImpersonate) /\ Ok(OrgsApply)
  <2>. USE PlainFields, <1>0
       DEF Orderly, Creating, OrgsLoad, ForAdmins, OrgsCreate, OrgsResetMfa, OrgsHide,
           OrgsDelete, OrgsRole, OrgsPassword, OrgsImpersonate, OrgsApply
  <2>1. Ok(OrgsCreate) /\ Ok(OrgsResetMfa)
    OBVIOUS
  <2>2. Ok(OrgsHide) /\ Ok(OrgsDelete)
    OBVIOUS
  <2>3. Ok(OrgsRole) /\ Ok(OrgsPassword)
    OBVIOUS
  <2>4. Ok(OrgsImpersonate) /\ Ok(OrgsApply)
    OBVIOUS
  <2>. QED BY <2>1, <2>2, <2>3, <2>4
<1>. HIDE DEF Ok
<1>2. \A n \in DOMAIN InstanceOrgsTab.ops : Ok(InstanceOrgsTab.ops[n])
  BY <1>1 DEF InstanceOrgsTab, InstanceOrgList, OrgMembersTable, OrgDetailPanel, ++
<1>3. /\ InstanceOrgsTab.loads = OrgsLoad /\ DOMAIN InstanceOrgsTab.forms = {"confirm", "org", "wallet"}
      /\ "load" \notin DOMAIN InstanceOrgsTab.ops
  BY NoForm DEF InstanceOrgsTab, InstanceOrgList, OrgMembersTable, OrgDetailPanel, ++
<1>. QED BY <1>2, <1>3, OrderlyPanel DEF Ok

LEMMA BaseSkillsOK == PanelOK(InstanceBaseSkillsTab)
PROOF
<1>. DEFINE lock == [skill |-> "saveBusy"]
            Ok(o) == Orderly(o, {"skills"}, {"skill"}, {}, lock)
<1>0. /\ DOMAIN lock = {"skill"}
      /\ lock["skill"] = "saveBusy"
  OBVIOUS
<1>. HIDE DEF lock
<1>1. Ok(BaseSkillSave)
  BY PlainFields, <1>0
  DEF Orderly, Creating, ForAdmins, BaseSkillSave
<1>. HIDE DEF Ok
<1>2. \A n \in DOMAIN InstanceBaseSkillsTab.ops : Ok(InstanceBaseSkillsTab.ops[n])
  BY <1>1 DEF InstanceBaseSkillsTab
<1>3. /\ InstanceBaseSkillsTab.loads = {"skills"} /\ DOMAIN InstanceBaseSkillsTab.forms = {"skill"}
      /\ "load" \notin DOMAIN InstanceBaseSkillsTab.ops
  BY NoForm DEF InstanceBaseSkillsTab
<1>. QED BY <1>2, <1>3, OrderlyPanel DEF Ok

LEMMA EncryptionOK == PanelOK(EncryptionTab)
PROOF
<1>. DEFINE Ok(o) == Orderly(o, CryptoLoad, {}, {}, NoForms)
<1>1. Ok(DekAdd) /\ Ok(Reencrypt) /\ Ok(JobCancel)
  <2>. USE PlainFields, NoForm
       DEF Orderly, Creating, CryptoLoad, ForAdmins, DekAdd, Reencrypt, JobCancel
  <2>1. Ok(DekAdd)
    OBVIOUS
  <2>2. Ok(Reencrypt)
    OBVIOUS
  <2>3. Ok(JobCancel)
    OBVIOUS
  <2>. QED BY <2>1, <2>2, <2>3
<1>. HIDE DEF Ok
<1>2. \A n \in DOMAIN EncryptionTab.ops : Ok(EncryptionTab.ops[n])
  BY <1>1 DEF EncryptionTab
<1>3. /\ EncryptionTab.loads = CryptoLoad /\ DOMAIN EncryptionTab.forms = {}
      /\ "load" \notin DOMAIN EncryptionTab.ops
  BY NoForm DEF EncryptionTab
<1>. QED BY <1>2, <1>3, OrderlyPanel DEF Ok

LEMMA OrgOK == PanelOK(OrgPage)
PROOF
<1>. DEFINE F == {"profile", "orgTariff", "sso", "botName", "host", "user"}
            Ok(o) == Orderly(o, OrgLoad, F, {"hosts"}, NoForms)
<1>1. Ok(OrgProfile) /\ Ok(OrgTariff) /\ Ok(HostSave) /\ Ok(HostRemove) /\ Ok(BotNameSave) /\
      Ok(OrgSso) /\ Ok(UserAdd) /\ Ok(UserChange) /\ Ok(UserResetMfa) /\ Ok(UserImpersonate)
  <2>. USE PlainFields, NoForm
       DEF Orderly, Creating, OrgLoad, ForAdmins, HostsPut, OrgsImpersonate, OrgProfile,
           OrgTariff, HostSave, HostRemove, BotNameSave, OrgSso, UserAdd, UserChange,
           UserResetMfa, UserImpersonate
  <2>1. Ok(OrgProfile) /\ Ok(OrgTariff)
    OBVIOUS
  <2>2. Ok(HostSave) /\ Ok(HostRemove)
    OBVIOUS
  <2>3. Ok(BotNameSave) /\ Ok(OrgSso)
    OBVIOUS
  <2>4. Ok(UserAdd) /\ Ok(UserChange)
    OBVIOUS
  <2>5. Ok(UserResetMfa) /\ Ok(UserImpersonate)
    OBVIOUS
  <2>. QED BY <2>1, <2>2, <2>3, <2>4, <2>5
<1>. HIDE DEF Ok
<1>2. \A n \in DOMAIN OrgPage.ops : Ok(OrgPage.ops[n])
  BY <1>1 DEF OrgPage, OrgForms, OrgSettings, OrgCapture, OrgAccess, OrgMembers, OrgDialogs, ++
<1>3. /\ OrgPage.loads = OrgLoad /\ DOMAIN OrgPage.forms = F
      /\ "load" \notin DOMAIN OrgPage.ops
  BY NoForm DEF OrgPage, OrgForms, OrgSettings, OrgCapture, OrgAccess, OrgMembers, OrgDialogs, ++
<1>. QED BY <1>2, <1>3, OrderlyPanel DEF Ok

LEMMA ProfileOK == PanelOK(ProfilePage)
PROOF
<1>. DEFINE lock == [token |-> "creating"]
            F == {"route", "dateTime", "transcribe", "summarize", "names", "botName", "password",
                  "token", "mfa", "delete"}
            Ok(o) == Orderly(o, {"tokens", "me"}, F, {}, lock)
<1>0. /\ DOMAIN lock = {"token"}
      /\ lock["token"] = "creating"
  OBVIOUS
<1>. HIDE DEF lock
<1>1. Ok(SaveRoute) /\ Ok(SaveDateTime) /\ Ok(SaveTranscribe) /\ Ok(SaveSummarize) /\
      Ok(SaveNames) /\ Ok(SaveBotName) /\ Ok(ChangePw) /\ Ok(TokenCreate) /\ Ok(TokenRevoke) /\
      Ok(MfaDisable) /\ Ok(AccountDelete) /\ Ok(BackupRestore) /\ Ok(BackupDownload) /\
      Ok(ShellPrefs)
  <2>. USE PlainFields, <1>0
       DEF Orderly, Creating, ForOwner, SaveMe, SaveRoute, SaveDateTime, SaveTranscribe,
           SaveSummarize, SaveNames, SaveBotName, ChangePw, TokenCreate, TokenRevoke,
           MfaDisable, AccountDelete, BackupRestore, BackupDownload, ShellPrefs
  <2>1. Ok(SaveRoute) /\ Ok(SaveDateTime)
    OBVIOUS
  <2>2. Ok(SaveTranscribe) /\ Ok(SaveSummarize)
    OBVIOUS
  <2>3. Ok(SaveNames) /\ Ok(SaveBotName)
    OBVIOUS
  <2>4. Ok(ChangePw) /\ Ok(TokenCreate)
    OBVIOUS
  <2>5. Ok(TokenRevoke) /\ Ok(MfaDisable)
    OBVIOUS
  <2>6. Ok(AccountDelete) /\ Ok(BackupRestore)
    OBVIOUS
  <2>7. Ok(BackupDownload) /\ Ok(ShellPrefs)
    OBVIOUS
  <2>. QED BY <2>1, <2>2, <2>3, <2>4, <2>5, <2>6, <2>7
<1>. HIDE DEF Ok
<1>2. \A n \in DOMAIN ProfilePage.ops : Ok(ProfilePage.ops[n])
  <2>. DEFINE All(h) == \A n \in DOMAIN h : Ok(h[n])
              names == [names |-> SaveNames]
  <2>1. All(names) /\ All(ProfileGeneralTab) /\ All(ProfileModelsTab)
    BY <1>1 DEF ProfileGeneralTab, ProfileModelsTab
  <2>2. All(ProfileSecurityTab) /\ All(ProfileDataTab) /\ All(ProfileDeleteModal)
    BY <1>1 DEF ProfileSecurityTab, ProfileDataTab, ProfileDeleteModal
  <2>3. \A f, g : All(f) /\ All(g) => All(f ++ g)
    BY DEF ++
  <2>4. ProfilePage.ops = names ++ ProfileGeneralTab ++ ProfileModelsTab ++ ProfileSecurityTab
                          ++ ProfileDataTab ++ ProfileDeleteModal
    BY DEF ProfilePage
  <2>. HIDE DEF All, names
  <2>5. All(ProfilePage.ops)
    BY <2>1, <2>2, <2>3, <2>4
  <2>. QED BY <2>5 DEF All
<1>3. /\ ProfilePage.loads = {"tokens", "me"} /\ DOMAIN ProfilePage.forms = F
      /\ "load" \notin DOMAIN ProfilePage.ops
  BY NoForm DEF ProfilePage, TokensLoad, ProfileForms, ProfileGeneralTab,
      ProfileModelsTab, ProfileSecurityTab, ProfileDataTab, ProfileDeleteModal, ++
<1>. QED BY <1>2, <1>3, OrderlyPanel DEF Ok

LEMMA SkillCreateOK == PanelOK(SkillCreatePage)
PROOF
<1>. DEFINE lock == [new |-> "busy"]
            create == [Plain EXCEPT !.off = {"busy"}, !.busy = {"busy"}, !.form = "new",
                                    !.adds = {"skills"}, !.leaves = TRUE]
            Ok(o) == Orderly(o, {}, {"new"}, {}, lock)
<1>0. DOMAIN lock = {"new"} /\ lock["new"] = "busy"
  OBVIOUS
<1>. HIDE DEF lock
<1>1. Ok(create)
  BY PlainFields, <1>0
  DEF Orderly, Creating
<1>. HIDE DEF Ok
<1>2. \A n \in DOMAIN SkillCreatePage.ops : Ok(SkillCreatePage.ops[n])
  BY <1>1 DEF SkillCreatePage
<1>3. /\ SkillCreatePage.loads = {} /\ DOMAIN SkillCreatePage.forms = {"new"}
      /\ "load" \notin DOMAIN SkillCreatePage.ops
  BY DEF SkillCreatePage
<1>. QED BY <1>2, <1>3, OrderlyPanel DEF Ok

LEMMA PanelsOK == \A x \in DOMAIN Panels : PanelOK(Panels[x])
  BY TranscriptOK, SummaryOK, AudioOK, SkillOK, SkillCreateOK, ShareOK, TagsOK, TagManageOK,
      LinksOK,
     SkillsOK, PublicOK, SettingsOK, WorkersOK, TariffsOK, LegalOK, OrgsOK, BaseSkillsOK,
     EncryptionOK,
     OrgOK, ProfileOK
  DEF Panels
-----------------------------------------------------------------------------
(* A handler in flight and what each step makes of it *)

Fields == {"op", "id", "at", "base", "rs", "ans", "ok", "draft"}
Of(p, c) == IF c.op \in DOMAIN p.ops THEN p.ops[c.op] ELSE Plain

Alike(c, d) == /\ DOMAIN d = Fields /\ d.op = c.op /\ d.id = c.id /\ d.base = c.base
               /\ d.draft = c.draft
Moved(c, d) == calls' = (calls \ {c}) \cup {d} /\ Alike(c, d)

LEMMA ReloadIs ==
    ASSUME NEW c, DOMAIN c = Fields, NEW rs, rs # {}
    PROVE  \E d : /\ Reload(c, rs) = {d} /\ DOMAIN d = Fields /\ d.op = "load" /\ d.id = c.id
                  /\ d.at = "read" /\ d.rs = rs /\ d.draft = 0 /\ d.ok = c.ok
PROOF
<1>. DEFINE d == [c EXCEPT !.op = "load", !.at = "read", !.rs = rs, !.ans = None, !.draft = 0]
<1>1. Reload(c, rs) = {d}
  BY DEF Reload
<1>2. /\ DOMAIN d = Fields /\ d.op = "load" /\ d.id = c.id
      /\ d.at = "read" /\ d.rs = rs /\ d.draft = 0 /\ d.ok = c.ok
  BY DEF Fields
<1>. QED BY <1>1, <1>2

LEMMA HubWriteIs ==
    ASSUME NEW c \in calls, DOMAIN c = Fields, HubWrite(c)
    PROVE  \E d : /\ Moved(c, d) /\ d.at = "wrote" /\ d.ok = c.ok /\ d.rs = c.rs
                  /\ d.ans = [r \in Op(c).shows |-> hub'[r]]
PROOF
<1>. DEFINE a == [r \in Op(c).shows |-> hub'[r]]
            d == [c EXCEPT !.at = "wrote", !.ans = a]
<1>. HIDE DEF a
<1>1. Alike(c, d) /\ d.at = "wrote" /\ d.ok = c.ok /\ d.rs = c.rs /\ d.ans = a
  BY DEF Fields, Alike
<1>2. calls' = (calls \ {c}) \cup {d}
  BY DEF HubWrite, Becomes, Without, a
<1>. HIDE DEF d
<1>. QED BY <1>1, <1>2 DEF Moved, a

LEMMA HubReadIs ==
    ASSUME NEW c \in calls, DOMAIN c = Fields, HubRead(c)
    PROVE  \E d : /\ Moved(c, d) /\ d.at = "got" /\ d.ok = c.ok /\ d.rs = c.rs
                  /\ d.ans = [r \in c.rs |-> hub[r]]
PROOF
<1>. DEFINE a == [r \in c.rs |-> hub[r]]
            d == [c EXCEPT !.at = "got", !.ans = a]
<1>. HIDE DEF a
<1>1. Alike(c, d) /\ d.at = "got" /\ d.ok = c.ok /\ d.rs = c.rs /\ d.ans = a
  BY DEF Fields, Alike
<1>2. calls' = (calls \ {c}) \cup {d}
  BY DEF HubRead, Becomes, Without, a
<1>. HIDE DEF d
<1>. QED BY <1>1, <1>2 DEF Moved, a

LEMMA FailsIs ==
    ASSUME NEW c \in calls, DOMAIN c = Fields, HubRefuses(c) \/ Lose(c)
    PROVE  \E d : Moved(c, d) /\ d.at = "failed" /\ d.ok = c.ok /\ d.rs = c.rs
PROOF
<1>. DEFINE d == [c EXCEPT !.at = "failed"]
<1>1. Alike(c, d) /\ d.at = "failed" /\ d.ok = c.ok /\ d.rs = c.rs
  BY DEF Fields, Alike
<1>2. calls' = (calls \ {c}) \cup {d}
  BY DEF HubRefuses, Lose, Becomes, Without
<1>. HIDE DEF d
<1>. QED BY <1>1, <1>2 DEF Moved

LEMMA WriteReadsIs ==
    ASSUME NEW c \in calls, DOMAIN c = Fields, WriteAnswered(c), Op(c).reads # {}
    PROVE  \E d : Moved(c, d) /\ d.at = "read" /\ d.ok = c.ok /\ d.rs = Op(c).reads
PROOF
<1>. DEFINE rs == Op(c).reads
            d == [c EXCEPT !.at = "read", !.rs = rs, !.ans = None]
<1>. HIDE DEF rs
<1>1. Alike(c, d) /\ d.at = "read" /\ d.ok = c.ok /\ d.rs = rs
  BY DEF Fields, Alike
<1>2. calls' = (calls \ {c}) \cup {d}
  BY DEF WriteAnswered, Becomes, Without, rs
<1>. HIDE DEF d
<1>. QED BY <1>1, <1>2 DEF Moved, rs

LEMMA FailedReadsIs ==
    ASSUME NEW c \in calls, DOMAIN c = Fields, FailedReads(c)
    PROVE  \E d : Moved(c, d) /\ d.at = "read" /\ d.ok = FALSE /\ d.rs = Op(c).reads
PROOF
<1>. DEFINE rs == Op(c).reads
            d == [c EXCEPT !.at = "read", !.rs = rs, !.ok = FALSE]
<1>. HIDE DEF rs
<1>1. Alike(c, d) /\ d.at = "read" /\ d.ok = FALSE /\ d.rs = rs
  BY DEF Fields, Alike
<1>2. calls' = (calls \ {c}) \cup {d}
  BY DEF FailedReads, Becomes, Without, rs
<1>. HIDE DEF d
<1>. QED BY <1>1, <1>2 DEF Moved, rs

Started(n, o, d) ==
    /\ calls' = calls \cup {d} /\ DOMAIN d = Fields
    /\ d.op = n /\ d.id = did.clicks + 1 /\ d.ok = TRUE
    /\ d.at = IF Writes(o) THEN "write" ELSE "read"
    /\ d.base = [r \in o.puts \cup o.keeps |-> shown[r]]
    /\ d.rs = IF Writes(o) THEN {} ELSE o.reads
    /\ d.draft = IF o.form = "none" THEN 0 ELSE draft[o.form]

LEMMA StartIs ==
    ASSUME NEW n, NEW o, Start(n, o), did \in [clicks : Nat, edits : Nat, faults : Nat]
    PROVE  /\ busy' = busy \cup o.busy
           /\ did' \in [clicks : Nat, edits : Nat, faults : Nat]
           /\ did'.clicks = did.clicks + 1 /\ did'.edits = did.edits /\ did'.faults = did.faults
           /\ \E d : Started(n, o, d)
PROOF
<1>. DEFINE d == [op |-> n, id |-> did'.clicks, at |-> IF Writes(o) THEN "write" ELSE "read",
                  base |-> [r \in o.puts \cup o.keeps |-> shown[r]],
                  rs |-> IF Writes(o) THEN {} ELSE o.reads, ans |-> None, ok |-> TRUE,
                  draft |-> IF o.form = "none" THEN 0 ELSE draft[o.form]]
<1>1. /\ did' \in [clicks : Nat, edits : Nat, faults : Nat]
      /\ did'.clicks = did.clicks + 1 /\ did'.edits = did.edits /\ did'.faults = did.faults
  BY DEF Start
<1>2. calls' = calls \cup {d} /\ busy' = busy \cup o.busy
  BY DEF Start
<1>3. /\ DOMAIN d = Fields
      /\ d.op = n /\ d.id = did'.clicks /\ d.ok = TRUE
      /\ d.at = IF Writes(o) THEN "write" ELSE "read"
      /\ d.base = [r \in o.puts \cup o.keeps |-> shown[r]]
      /\ d.rs = IF Writes(o) THEN {} ELSE o.reads
      /\ d.draft = IF o.form = "none" THEN 0 ELSE draft[o.form]
  BY DEF Fields
<1>. HIDE DEF d
<1>. QED BY <1>1, <1>2, <1>3 DEF Started

-----------------------------------------------------------------------------
(* Types *)

Dialog(p, a) == /\ DOMAIN a = {"op", "at", "seen"} /\ a.at \in {"fetch", "served", "failed", "shown"}
                /\ a.op \in DOMAIN p.ops /\ p.ops[a.op].asks
View3 == [Resources(P) -> SUBSET Change]
Typed ==
    /\ panel \in DOMAIN Panels /\ role \in P.roles
    /\ up \in BOOLEAN /\ loaded \in BOOLEAN /\ gone \in BOOLEAN /\ back \in BOOLEAN
    /\ hub \in View3 /\ shown \in View3 /\ told \in View3
    /\ draft \in [DOMAIN P.forms -> 0..MaxEdits]
    /\ busy \subseteq Flags(P) /\ spent \subseteq 0..MaxEdits
    /\ did \in [clicks : 0..MaxClicks, edits : 0..MaxEdits, faults : 0..MaxFaults]
    /\ ask = None \/ Dialog(P, ask)
CallOK(p, c) ==
    /\ DOMAIN c = Fields /\ c.id \in 0..MaxClicks /\ c.draft \in 0..MaxEdits /\ c.ok \in BOOLEAN
    /\ c.at \in {"write", "wrote", "read", "got", "failed"} /\ c.rs \subseteq Resources(p)
    /\ \/ c.op \in DOMAIN p.ops /\ c.id \in Change
       \/ c.op = "load" /\ c.at \notin {"write", "wrote"}
    /\ \A r \in Resources(p) :
           /\ r \in Of(p, c).puts \cup Of(p, c).keeps => c.base[r] \subseteq Change
           /\ c.at = "wrote" /\ r \in Of(p, c).shows => c.ans[r] \subseteq Change
           /\ c.at = "got" /\ r \in c.rs => c.ans[r] \subseteq Change
TypeInv == Typed /\ \A c \in calls : CallOK(P, c)

LEMMA SamePanel ==
    ASSUME [Next]_pageVars
    PROVE  panel' = panel /\ role' = role /\ P' = P
PROOF
<1>1. panel' = panel /\ role' = role
  BY DEF Next, User, Hub, Answer, Click, OpenDialog, Edit, CancelDialog, Confirm, Start, AskRest,
         ImpactServed, ImpactAnswered, HubWrite, HubRead, HubRefuses, HubRest, Lose, WriteAnswered,
         ReadAnswered, Failed, FailedReads, pageVars
<1>. QED BY <1>1 DEF P

LEMMA ThisPanelOK == ASSUME panel \in DOMAIN Panels PROVE PanelOK(P)
  BY PanelsOK DEF P

LEMMA OfIs == \A c : Op(c) = Of(P, c)
  BY DEF Op, Of

(* What an operation names is a resource or a flag of its panel. *)
LEMMA OpNames ==
    ASSUME NEW n \in DOMAIN P.ops
    PROVE  /\ P.ops[n].adds \cup P.ops[n].puts \cup P.ops[n].reads \cup P.ops[n].also \subseteq Resources(P)
           /\ P.ops[n].busy \subseteq Flags(P)
  BY DEF Resources, Flags

LEMMA OfNames ==
    ASSUME NEW c
    PROVE  /\ Of(P, c).reads \cup Of(P, c).also \subseteq Resources(P)
           /\ Of(P, c).busy \subseteq Flags(P)
PROOF
<1>1. CASE c.op \in DOMAIN P.ops
  BY <1>1, OpNames DEF Of
<1>2. CASE c.op \notin DOMAIN P.ops
  BY <1>2, PlainFields DEF Of
<1>. QED BY <1>1, <1>2

(* The user starts a handler. *)
LEMMA TypeStart ==
    ASSUME TypeInv, NEW n \in DOMAIN P.ops, Start(n, P.ops[n]), P' = P,
           ask' = None \/ Dialog(P, ask')
    PROVE  TypeInv'
PROOF
<1>. DEFINE o == P.ops[n]
<1>0. /\ Start(n, o) /\ o.busy \subseteq Flags(P) /\ o.reads \subseteq Resources(P)
      /\ o.form = "none" \/ o.form \in DOMAIN P.forms
  BY OpNames, ThisPanelOK DEF TypeInv, Typed, PanelOK, Named
<1>00. \A d : d.op = n => Of(P, d) = o
  BY DEF Of
<1>. HIDE DEF o
<1>1. did \in [clicks : Nat, edits : Nat, faults : Nat] /\ did.clicks \in 0..MaxClicks
  BY PagesBounds DEF TypeInv, Typed
<1>2. did.clicks < MaxClicks
  BY <1>0 DEF Start
<1>3. /\ busy' = busy \cup o.busy
      /\ did' \in [clicks : Nat, edits : Nat, faults : Nat]
      /\ did'.clicks = did.clicks + 1 /\ did'.edits = did.edits /\ did'.faults = did.faults
  BY <1>0, <1>1, StartIs
<1>4a. PICK d : Started(n, o, d)
  BY <1>0, <1>1, StartIs
<1>4. /\ calls' = calls \cup {d} /\ DOMAIN d = Fields
      /\ d.op = n /\ d.id = did.clicks + 1 /\ d.ok = TRUE
      /\ d.at = IF Writes(o) THEN "write" ELSE "read"
      /\ d.base = [r \in o.puts \cup o.keeps |-> shown[r]]
      /\ d.rs = IF Writes(o) THEN {} ELSE o.reads
      /\ d.draft = IF o.form = "none" THEN 0 ELSE draft[o.form]
  BY <1>4a DEF Started
<1>5. did' \in [clicks : 0..MaxClicks, edits : 0..MaxEdits, faults : 0..MaxFaults]
  <2>1. did'.clicks \in 0..MaxClicks /\ did'.edits \in 0..MaxEdits /\ did'.faults \in 0..MaxFaults
    BY <1>1, <1>2, <1>3, PagesBounds DEF TypeInv, Typed
  <2>. QED BY <1>3, <2>1
<1>6. CallOK(P, d)
  <2>1. d.id \in Change
    BY <1>1, <1>2, <1>4, PagesBounds DEF Change
  <2>2. d.draft \in 0..MaxEdits
    <3>1. CASE o.form = "none"
      BY <1>4, <3>1, PagesBounds
    <3>2. CASE o.form \in DOMAIN P.forms
      BY <1>4, <1>0, <3>2, PagesBounds DEF TypeInv, Typed
    <3>. QED BY <1>0, <3>1, <3>2
  <2>3. d.rs \subseteq Resources(P)
    BY <1>0, <1>4
  <2>4. Of(P, d) = o
    BY <1>00, <1>4
  <2>5. ASSUME NEW r \in Resources(P), r \in o.puts \cup o.keeps PROVE d.base[r] \subseteq Change
    BY <1>4, <2>5 DEF TypeInv, Typed, View3
  <2>6. d.id \in 0..MaxClicks
    BY <2>1 DEF Change
  <2>7. DOMAIN d = Fields /\ d.op \in DOMAIN P.ops /\ d.ok \in BOOLEAN /\ d.at \in {"write", "read"}
    BY <1>4
  <2>. QED BY <2>1, <2>2, <2>3, <2>4, <2>5, <2>6, <2>7 DEF CallOK
<1>7. Typed'
  <2>1. UNCHANGED <<panel, role, up, loaded, hub, shown, gone, draft, told, spent, back>>
    BY <1>0 DEF Start
  <2>2. busy' \subseteq Flags(P)
    BY <1>0, <1>3 DEF TypeInv, Typed
  <2>. QED BY <1>5, <2>1, <2>2 DEF TypeInv, Typed, View3
<1>. QED BY <1>4, <1>6, <1>7 DEF TypeInv

(* A handler in flight goes on, and nothing else of it changes. *)
LEMMA TypeMoved ==
    ASSUME TypeInv, P' = P, NEW c \in calls, NEW d, Moved(c, d), CallOK(P, d), Typed'
    PROVE  TypeInv'
  BY DEF TypeInv, Moved

LEMMA TypeUser ==
    ASSUME TypeInv, P' = P, \/ \E n \in DOMAIN P.ops : Click(n) \/ OpenDialog(n)
                            \/ \E f \in DOMAIN draft : Edit(f)
                            \/ CancelDialog \/ Confirm \/ ImpactServed \/ ImpactAnswered
    PROVE  TypeInv'
PROOF
<1>1. ASSUME NEW n \in DOMAIN P.ops, Click(n) PROVE TypeInv'
  BY <1>1, TypeStart DEF Click, TypeInv, Typed
<1>2. ASSUME NEW n \in DOMAIN P.ops, OpenDialog(n) PROVE TypeInv'
  <2>1. Dialog(P, ask') /\ AskRest /\ UNCHANGED did
    BY <1>2 DEF OpenDialog, Fetch, Dialog
  <2>. QED BY <2>1 DEF AskRest, TypeInv, Typed, View3
<1>3. ASSUME NEW f \in DOMAIN draft, Edit(f) PROVE TypeInv'
  <2>1. did.edits < MaxEdits /\ did' = [did EXCEPT !.edits = @ + 1] /\ draft' = [draft EXCEPT ![f] = did'.edits]
        /\ UNCHANGED <<panel, role, up, loaded, hub, shown, gone, busy, calls, ask, told, spent, back>>
    BY <1>3 DEF Edit
  <2>2. did' \in [clicks : 0..MaxClicks, edits : 0..MaxEdits, faults : 0..MaxFaults]
    BY <2>1, PagesBounds DEF TypeInv, Typed
  <2>3. draft' \in [DOMAIN P.forms -> 0..MaxEdits]
    BY <2>1, <2>2 DEF TypeInv, Typed
  <2>. QED BY <2>1, <2>2, <2>3 DEF TypeInv, Typed, View3
<1>4. CASE ImpactServed
  <2>1. ask' = (IF gone THEN [ask EXCEPT !.at = "failed"]
                       ELSE [ask EXCEPT !.at = "served", !.seen = hub])
        /\ ask # None /\ AskRest /\ UNCHANGED did
    BY <1>4 DEF ImpactServed
  <2>2. Dialog(P, ask')
    BY <2>1 DEF TypeInv, Typed, Dialog
  <2>. QED BY <2>1, <2>2 DEF AskRest, TypeInv, Typed, View3
<1>5. CASE ImpactAnswered \/ CancelDialog
  <2>1. /\ ask' = None \/ ask' = [ask EXCEPT !.at = "shown"]
        /\ ask # None /\ AskRest /\ UNCHANGED did
    BY <1>5 DEF ImpactAnswered, CancelDialog
  <2>2. ask' = None \/ Dialog(P, ask')
    BY <2>1 DEF TypeInv, Typed, Dialog
  <2>. QED BY <2>1, <2>2 DEF AskRest, TypeInv, Typed, View3
<1>6. CASE Confirm
  <2>1. ask # None /\ Start(ask.op, P.ops[ask.op]) /\ ask' \in {ask, Redrawn}
    BY <1>6 DEF Confirm
  <2>2. ask' = None \/ Dialog(P, ask')
    BY <2>1 DEF TypeInv, Typed, Redrawn, Fetch, Dialog
  <2>3. ask.op \in DOMAIN P.ops
    BY <2>1 DEF TypeInv, Typed, Dialog
  <2>. QED BY <2>1, <2>2, <2>3, TypeStart
<1>. QED BY <1>1, <1>2, <1>3, <1>4, <1>5, <1>6

LEMMA TypeHub ==
    ASSUME TypeInv, P' = P, NEW c \in calls, HubWrite(c) \/ HubRead(c) \/ HubRefuses(c) \/ Lose(c)
    PROVE  TypeInv'
PROOF
<1>1. CallOK(P, c) /\ DOMAIN c = Fields
  BY DEF TypeInv, CallOK
<1>2. \A d : Alike(c, d) => Of(P, d) = Of(P, c)
  BY DEF Alike, Of
<1>3. CASE HubWrite(c)
  <2>1. PICK d : /\ Moved(c, d) /\ d.at = "wrote" /\ d.ok = c.ok /\ d.rs = c.rs
                 /\ d.ans = [r \in Op(c).shows |-> hub'[r]]
    BY <1>1, <1>3, HubWriteIs
  <2>2. c.at = "write" /\ c.op \in DOMAIN P.ops /\ c.id \in Change
    BY <1>1, <1>3 DEF HubWrite, CallOK
  <2>3. hub' \in View3
    <3>1. hub' = [r \in Resources(P) |-> Written(c, r)]
      BY <1>3 DEF HubWrite, TypeInv, Typed, View3
    <3>2. ASSUME NEW r \in Resources(P) PROVE Written(c, r) \subseteq Change
      BY <1>1, <2>2, OfIs DEF Written, CallOK, TypeInv, Typed, View3
    <3>. QED BY <3>1, <3>2 DEF View3
  <2>4. CallOK(P, d)
    <3>1. \A r \in Resources(P) : r \in Of(P, d).shows => d.ans[r] \subseteq Change
      BY <1>2, <2>1, <2>3, OfIs DEF Moved, View3
    <3>. QED BY <1>1, <1>2, <2>1, <2>2, <3>1 DEF CallOK, Moved, Alike
  <2>5. gone' \in BOOLEAN
    <3>1. Op(c) = P.ops[c.op]
      BY <2>2 DEF Op
    <3>. QED BY <1>3, <2>2, <3>1, ThisPanelOK DEF HubWrite, PanelOK, Removes, TypeInv, Typed
  <2>6. Typed'
    BY <1>3, <2>3, <2>5 DEF HubWrite, HubRest, TypeInv, Typed, View3
  <2>. QED BY <2>1, <2>4, <2>6, TypeMoved
<1>4. CASE HubRead(c)
  <2>1. PICK d : /\ Moved(c, d) /\ d.at = "got" /\ d.ok = c.ok /\ d.rs = c.rs
                 /\ d.ans = [r \in c.rs |-> hub[r]]
    BY <1>1, <1>4, HubReadIs
  <2>2. CallOK(P, d)
    <3>1. \A r \in Resources(P) : r \in d.rs => d.ans[r] \subseteq Change
      BY <2>1 DEF TypeInv, Typed, View3
    <3>. QED BY <1>1, <1>2, <2>1, <3>1 DEF CallOK, Moved, Alike
  <2>3. Typed'
    BY <1>4 DEF HubRead, HubRest, TypeInv, Typed, View3
  <2>. QED BY <2>1, <2>2, <2>3, TypeMoved
<1>5. CASE HubRefuses(c) \/ Lose(c)
  <2>1. PICK d : Moved(c, d) /\ d.at = "failed" /\ d.ok = c.ok /\ d.rs = c.rs
    BY <1>1, <1>5, FailsIs
  <2>2. CallOK(P, d)
    BY <1>1, <1>2, <2>1 DEF CallOK, Moved, Alike
  <2>3. did' \in [clicks : 0..MaxClicks, edits : 0..MaxEdits, faults : 0..MaxFaults]
    BY <1>5, PagesBounds DEF HubRefuses, HubRest, Lose, TypeInv, Typed
  <2>4. Typed'
    BY <1>5, <2>3 DEF HubRefuses, HubRest, Lose, TypeInv, Typed, View3
  <2>. QED BY <2>1, <2>2, <2>4, TypeMoved
<1>. QED BY <1>3, <1>4, <1>5

(* An answer replaces what the view shows, clears forms and may end its handler. *)
Shows(f) == f \in View3 /\ View(f)

LEMMA TypeAnswered ==
    ASSUME TypeInv, P' = P, panel' = panel, role' = role, NEW c \in calls, NEW f, Shows(f),
           NEW forms, Filled(forms), loaded' \in BOOLEAN, hub' = hub, gone' = gone, did' = did,
           Ended(c) \/ (UNCHANGED <<busy, told, spent, up>> /\ ask' \in {ask, Redrawn})
    PROVE  Typed'
PROOF
<1>1. shown' \in View3 /\ back' \in BOOLEAN
  BY DEF Shows, View, TypeInv, Typed
<1>2. draft' \in [DOMAIN P.forms -> 0..MaxEdits]
  BY PagesBounds DEF Filled, TypeInv, Typed
<1>3. Redrawn = None \/ Dialog(P, Redrawn)
  BY DEF Redrawn, Fetch, Dialog, TypeInv, Typed
<1>4. /\ busy' \subseteq Flags(P) /\ told' \in View3 /\ spent' \subseteq 0..MaxEdits /\ up' \in BOOLEAN
      /\ ask' = None \/ Dialog(P, ask')
  <2>1. CASE Ended(c)
    <3>1. /\ busy' = busy \ Op(c).busy /\ spent' \in {spent, spent \cup {c.draft}}
          /\ up' = (up /\ ~Op(c).leaves) /\ ask' \in {Redrawn, None}
      BY <2>1 DEF Ended
    <3>2. told' \in View3
      <4>1. told' = [r \in DOMAIN told |-> IF c.ok /\ r \in Op(c).adds \cup Op(c).puts
                                           THEN told[r] \cup {c.id} ELSE told[r]]
        BY <2>1 DEF Ended
      <4>2. Op(c).adds \cup Op(c).puts # {} => c.id \in Change
        <5>1. "load" \notin DOMAIN P.ops
          BY ThisPanelOK DEF TypeInv, Typed, PanelOK, Named
        <5>2. CallOK(P, c)
          BY DEF TypeInv
        <5>. QED BY <5>1, <5>2, PlainFields DEF Op, CallOK
      <4>. QED BY <4>1, <4>2 DEF TypeInv, Typed, View3
    <3>. QED BY <1>3, <3>1, <3>2 DEF TypeInv, Typed, CallOK
  <2>2. CASE UNCHANGED <<busy, told, spent, up>> /\ ask' \in {ask, Redrawn}
    BY <1>3, <2>2 DEF TypeInv, Typed
  <2>. QED BY <2>1, <2>2
<1>. QED BY <1>1, <1>2, <1>4 DEF TypeInv, Typed, View3

LEMMA TypeReload ==
    ASSUME TypeInv, P' = P, NEW c \in calls, calls' = Without(c) \cup Reload(c, Op(c).also), Typed'
    PROVE  TypeInv'
PROOF
<1>1. CallOK(P, c)
  BY DEF TypeInv
<1>2. CASE Op(c).also = {}
  BY <1>2 DEF Without, Reload, TypeInv
<1>3. CASE Op(c).also # {}
  <2>1. PICK d : /\ Reload(c, Op(c).also) = {d} /\ DOMAIN d = Fields /\ d.op = "load" /\ d.id = c.id
                 /\ d.at = "read" /\ d.rs = Op(c).also /\ d.draft = 0 /\ d.ok = c.ok
    BY <1>1, <1>3, ReloadIs DEF CallOK
  <2>2. CallOK(P, d)
    <3>1. "load" \notin DOMAIN P.ops
      BY ThisPanelOK DEF TypeInv, Typed, PanelOK, Named
    <3>2. Of(P, d) = Plain
      BY <2>1, <3>1 DEF Of
    <3>3. d.rs \subseteq Resources(P)
      BY <2>1, OfIs, OfNames
    <3>4. d.id \in 0..MaxClicks /\ d.draft \in 0..MaxEdits /\ d.ok \in BOOLEAN
      BY <1>1, <2>1, PagesBounds DEF CallOK
    <3>5. \A r \in Resources(P) : r \notin Of(P, d).puts \cup Of(P, d).keeps
      BY <3>2, PlainFields
    <3>. QED BY <2>1, <3>3, <3>4, <3>5 DEF CallOK
  <2>. QED BY <2>1, <2>2 DEF TypeInv, Without
<1>. QED BY <1>2, <1>3

LEMMA TypeAnswer ==
    ASSUME TypeInv, P' = P, panel' = panel, role' = role, NEW c \in calls,
           WriteAnswered(c) \/ ReadAnswered(c) \/ Failed(c) \/ FailedReads(c)
    PROVE  TypeInv'
PROOF
<1>1. CallOK(P, c) /\ DOMAIN c = Fields
  BY DEF TypeInv, CallOK
<1>2. \A d : Alike(c, d) => Of(P, d) = Of(P, c)
  BY DEF Alike, Of
<1>3. Of(P, c).reads \subseteq Resources(P)
  BY OfNames
<1>4. CASE WriteAnswered(c)
  <2>. DEFINE o == Op(c)
              f == [r \in DOMAIN shown |->
                      IF r \in o.shows THEN c.ans[r] ELSE IF r \in o.marks THEN shown[r] \cup {c.id}
                      ELSE IF r \in o.keeps THEN c.base[r] ELSE shown[r]]
  <2>1. c.at = "wrote" /\ c.op \in DOMAIN P.ops /\ c.id \in Change
    BY <1>1, <1>4 DEF WriteAnswered, CallOK
  <2>2. Shows(f)
    <3>1. DOMAIN shown = Resources(P)
      BY DEF TypeInv, Typed, View3
    <3>2. ASSUME NEW r \in Resources(P) PROVE f[r] \subseteq Change
      BY <1>1, <2>1, <3>1, OfIs DEF CallOK, TypeInv, Typed, View3
    <3>3. f \in View3
      BY <3>1, <3>2 DEF View3
    <3>. QED BY <1>4, <3>3 DEF WriteAnswered, Shows
  <2>. HIDE DEF f
  <2>3. Filled(o.fills) /\ UNCHANGED <<panel, role, loaded, hub, gone, did>>
    BY <1>4 DEF WriteAnswered
  <2>4. CASE o.reads = {}
    <3>1. calls' = Without(c) \cup Reload(c, o.also) /\ Ended(c)
      BY <1>4, <2>4 DEF WriteAnswered
    <3>2. Typed'
      BY <2>2, <2>3, <3>1, TypeAnswered DEF TypeInv, Typed
    <3>. QED BY <3>1, <3>2, TypeReload
  <2>5. CASE o.reads # {}
    <3>1. UNCHANGED <<busy, told, spent, up>> /\ ask' \in {ask, Redrawn}
      BY <1>4, <2>5 DEF WriteAnswered
    <3>2. Typed'
      BY <2>2, <2>3, <3>1, TypeAnswered DEF TypeInv, Typed
    <3>3. PICK d : Moved(c, d) /\ d.at = "read" /\ d.ok = c.ok /\ d.rs = o.reads
      BY <1>1, <1>4, <2>5, WriteReadsIs
    <3>4. CallOK(P, d)
      BY <1>1, <1>2, <1>3, <2>1, <3>3, OfIs DEF CallOK, Moved, Alike
    <3>. QED BY <3>2, <3>3, <3>4, TypeMoved
  <2>. QED BY <2>4, <2>5
<1>5. CASE ReadAnswered(c)
  <2>. DEFINE f == [r \in DOMAIN shown |-> IF r \in c.rs THEN c.ans[r] ELSE shown[r]]
              forms == {g \in DOMAIN draft : P.forms[g].from \in c.rs}
  <2>1. Shows(f)
    <3>1. DOMAIN shown = Resources(P)
      BY DEF TypeInv, Typed, View3
    <3>2. ASSUME NEW r \in Resources(P) PROVE f[r] \subseteq Change
      BY <1>1, <1>5, <3>1 DEF ReadAnswered, CallOK, TypeInv, Typed, View3
    <3>3. f \in View3
      BY <3>1, <3>2 DEF View3
    <3>. QED BY <1>5, <3>3 DEF ReadAnswered, Shows
  <2>2. /\ Filled(forms) /\ UNCHANGED <<panel, role, hub, gone, did>> /\ Ended(c)
        /\ calls' = Without(c) \cup Reload(c, Op(c).also) /\ loaded' \in BOOLEAN
    BY <1>5 DEF ReadAnswered
  <2>. HIDE DEF f, forms
  <2>3. Typed'
    BY <2>1, <2>2, TypeAnswered
  <2>. QED BY <2>2, <2>3, TypeReload
<1>6. CASE Failed(c)
  <2>1. /\ busy' \subseteq busy /\ calls' = calls \ {c} /\ ask' \in {ask, None, Redrawn}
        /\ UNCHANGED <<panel, role, up, loaded, hub, shown, gone, draft, told, spent, back, did>>
    BY <1>6 DEF Failed, Unbusy, Without
  <2>2. ask' = None \/ Dialog(P, ask')
    BY <2>1 DEF Redrawn, Fetch, TypeInv, Typed, Dialog
  <2>3. Typed'
    BY <2>1, <2>2 DEF TypeInv, Typed, View3
  <2>. QED BY <2>1, <2>3 DEF TypeInv
<1>7. CASE FailedReads(c)
  <2>1. PICK d : Moved(c, d) /\ d.at = "read" /\ d.ok = FALSE /\ d.rs = Op(c).reads
    BY <1>1, <1>7, FailedReadsIs
  <2>2. CallOK(P, d)
    BY <1>1, <1>2, <1>3, <2>1, OfIs DEF CallOK, Moved, Alike
  <2>3. Typed'
    BY <1>7 DEF FailedReads, TypeInv, Typed, View3
  <2>. QED BY <2>1, <2>2, <2>3, TypeMoved
<1>. QED BY <1>4, <1>5, <1>6, <1>7

LEMMA FirstLoadIs ==
    ASSUME NEW rs
    PROVE  /\ DOMAIN FirstLoad(rs) = Fields /\ FirstLoad(rs).op = "load" /\ FirstLoad(rs).id = 0
           /\ FirstLoad(rs).at = "read" /\ FirstLoad(rs).rs = rs /\ FirstLoad(rs).draft = 0
           /\ FirstLoad(rs).ok = TRUE
  BY DEF FirstLoad, Fields

LEMMA TypeInit == Init => TypeInv
PROOF
<1>. SUFFICES ASSUME Init PROVE TypeInv
  OBVIOUS
<1>1. panel \in DOMAIN Panels /\ "load" \notin DOMAIN P.ops
  BY ThisPanelOK DEF Init, PanelOK, Named
<1>2. Typed
  <2>1. hub = [r \in Resources(P) |-> {}] /\ shown = hub /\ told = hub
    BY DEF Init
  <2>2. hub \in View3 /\ shown \in View3 /\ told \in View3
    BY <2>1 DEF View3
  <2>3. /\ did \in [clicks : 0..MaxClicks, edits : 0..MaxEdits, faults : 0..MaxFaults]
        /\ draft \in [DOMAIN P.forms -> 0..MaxEdits]
    BY PagesBounds DEF Init
  <2>. QED BY <1>1, <2>2, <2>3 DEF Init, P, Typed
<1>3. ASSUME NEW c \in calls PROVE CallOK(P, c)
  <2>1. c = FirstLoad(P.loads)
    BY DEF Init
  <2>. HIDE DEF FirstLoad
  <2>2. Of(P, c) = Plain
    <3>1. c.op = "load"
      BY <2>1, FirstLoadIs
    <3>. QED BY <1>1, <3>1 DEF Of
  <2>3. P.loads \subseteq Resources(P)
    BY DEF Resources
  <2>4. /\ DOMAIN c = Fields /\ c.op = "load" /\ c.id = 0 /\ c.at = "read" /\ c.rs = P.loads
        /\ c.draft = 0 /\ c.ok = TRUE
    BY <2>1, FirstLoadIs
  <2>5. c.id \in 0..MaxClicks /\ c.draft \in 0..MaxEdits
    BY <2>4, PagesBounds
  <2>6. \A r \in Resources(P) : r \notin Of(P, c).puts \cup Of(P, c).keeps
    BY <2>2, PlainFields
  <2>. QED BY <2>3, <2>4, <2>5, <2>6 DEF CallOK
<1>. QED BY <1>2, <1>3 DEF TypeInv

LEMMA TypeNext == TypeInv /\ [Next]_pageVars => TypeInv'
PROOF
<1>. SUFFICES ASSUME TypeInv, [Next]_pageVars PROVE TypeInv'
  OBVIOUS
<1>1. P' = P /\ panel' = panel /\ role' = role
  BY SamePanel
<1>2. CASE UNCHANGED pageVars
  BY <1>1, <1>2 DEF pageVars, TypeInv, Typed, View3
<1>3. CASE User \/ ImpactServed \/ ImpactAnswered
  BY <1>1, <1>3, TypeUser DEF User
<1>4. CASE Hub \/ \E c \in calls : Lose(c)
  BY <1>1, <1>4, TypeHub DEF Hub
<1>5. CASE Answer
  BY <1>1, <1>5, TypeAnswer DEF Answer
<1>. QED BY <1>2, <1>3, <1>4, <1>5 DEF Next

(* Whatever page, role, failures and order of answers: the view, the hub and what the user was *)
(* told hold changes of this page only, and no draft or flag is left that the page has not.    *)
THEOREM PagesTyped == Spec => []TypeOK
PROOF
<1>1. TypeInv => TypeOK
  BY DEF TypeInv, Typed, View3, CallOK, Dialog, TypeOK
<1>. QED BY <1>1, TypeInit, TypeNext, PTL DEF Spec

-----------------------------------------------------------------------------
(* The steps of a handler, as the invariants below need them *)

LEMMA Shaped == ASSUME TypeInv, NEW c \in calls PROVE DOMAIN c = Fields /\ CallOK(P, c)
  BY DEF TypeInv, CallOK

(* Steps that no handler takes. *)
Still ==
    /\ UNCHANGED <<up, hub, shown, gone, busy, calls, told, spent, back>>
    /\ did'.clicks = did.clicks /\ did'.faults = did.faults
Starts(n) == n \in DOMAIN P.ops /\ Enabled(P.ops[n]) /\ Start(n, P.ops[n])

LEMMA UserIs ==
    ASSUME TypeInv, User \/ ImpactServed \/ ImpactAnswered \/ UNCHANGED pageVars
    PROVE  Still \/ \E n \in DOMAIN P.ops : Starts(n)
PROOF
<1>1. ASSUME NEW n \in DOMAIN P.ops, Click(n) PROVE Starts(n)
  BY <1>1 DEF Click, Starts
<1>2. ASSUME Confirm PROVE Starts(ask.op)
  BY <1>2 DEF Confirm, Starts, TypeInv, Typed, Dialog
<1>3. ASSUME NEW f, Edit(f) PROVE Still
  BY <1>3 DEF Edit, Still, TypeInv, Typed
<1>4. CASE \/ CancelDialog \/ ImpactServed \/ ImpactAnswered \/ UNCHANGED pageVars
           \/ \E n \in DOMAIN P.ops : OpenDialog(n)
  BY <1>4 DEF CancelDialog, ImpactServed, ImpactAnswered, OpenDialog, AskRest, pageVars, Still
<1>5. ask.op \in DOMAIN P.ops \/ ~Confirm
  BY DEF Confirm, TypeInv, Typed, Dialog
<1>. QED BY <1>1, <1>2, <1>3, <1>4, <1>5 DEF User

(* A handler that is done leaves nothing behind, or one that only loads. *)
Loading(c, d) == /\ DOMAIN d = Fields /\ d.op = "load" /\ d.id = c.id /\ d.at = "read"
                 /\ d.rs = Op(c).also /\ d.draft = 0 /\ d.ok = c.ok
Leaves(c, S) == /\ calls' = (calls \ {c}) \cup S /\ busy' = busy \ Op(c).busy
                /\ IF Op(c).also = {} THEN S = {} ELSE \E d : S = {d} /\ Loading(c, d)

LEMMA EndedIs ==
    ASSUME TypeInv, NEW c \in calls,
           (WriteAnswered(c) /\ Op(c).reads = {}) \/ ReadAnswered(c)
    PROVE  Ended(c) /\ \E S : Leaves(c, S)
PROOF
<1>1. Ended(c) /\ calls' = Without(c) \cup Reload(c, Op(c).also)
  BY DEF WriteAnswered, ReadAnswered
<1>2. busy' = busy \ Op(c).busy
  BY <1>1 DEF Ended
<1>3. CASE Op(c).also = {}
  <2>1. Reload(c, Op(c).also) = {}
    BY <1>3 DEF Reload
  <2>. QED BY <1>1, <1>2, <1>3, <2>1 DEF Without, Leaves
<1>4. CASE Op(c).also # {}
  <2>1. PICK d : Reload(c, Op(c).also) = {d} /\ Loading(c, d)
    BY <1>4, Shaped, ReloadIs DEF Loading
  <2>2. Leaves(c, {d})
    BY <1>1, <1>2, <1>4, <2>1 DEF Without, Leaves
  <2>. QED BY <1>1, <2>2
<1>. QED BY <1>3, <1>4

LEMMA HubIs ==
    ASSUME TypeInv, NEW c \in calls, HubWrite(c)
    PROVE  \A r \in Resources(P) : hub'[r] = Written(c, r)
  BY DEF HubWrite, TypeInv, Typed, View3

LEMMA ToldIs ==
    ASSUME TypeInv, NEW c \in calls, Ended(c)
    PROVE  \A r \in Resources(P) :
               told'[r] = IF c.ok /\ r \in Of(P, c).adds \cup Of(P, c).puts
                          THEN told[r] \cup {c.id} ELSE told[r]
  BY OfIs DEF Ended, TypeInv, Typed, View3

(* An answer of which nothing is said takes no change of the hub's out of the view. *)
LEMMA ViewIs ==
    ASSUME TypeInv, NEW f, View(f), ~back'
    PROVE  ~back /\ \A r \in Resources(P) : shown[r] \cap hub[r] \subseteq shown'[r]
  BY DEF View, TypeInv, Typed, View3

(* Only WriteAnswered and ReadAnswered change the view, only they tell the user something. *)
LEMMA OthersAre ==
    ASSUME TypeInv, NEW c \in calls,
           HubWrite(c) \/ HubRead(c) \/ HubRefuses(c) \/ Lose(c) \/ Failed(c) \/ FailedReads(c)
    PROVE  /\ UNCHANGED <<up, shown, draft, told, spent, back>> /\ did'.clicks = did.clicks
           /\ ~HubWrite(c) => UNCHANGED <<hub, gone>>
           /\ ~Failed(c) => UNCHANGED busy
PROOF
<1>1. did' = did \/ did' = [did EXCEPT !.faults = @ + 1]
  BY DEF HubWrite, HubRead, HubRefuses, HubRest, Lose, Failed, FailedReads
<1>2. did'.clicks = did.clicks
  BY <1>1 DEF TypeInv, Typed
<1>. QED BY <1>2 DEF HubWrite, HubRead, HubRefuses, HubRest, Lose, Failed, FailedReads

LEMMA OfAlike == ASSUME NEW c, NEW d, Alike(c, d) PROVE Of(P, d) = Of(P, c)
  BY DEF Alike, Of

LEMMA OfLoading == ASSUME TypeInv, NEW c, NEW d, Loading(c, d) PROVE Of(P, d) = Plain
  BY ThisPanelOK DEF TypeInv, Typed, PanelOK, Named, Loading, Of

LEMMA OfStarted == ASSUME NEW n \in DOMAIN P.ops, NEW d, d.op = n PROVE Of(P, d) = P.ops[n]
  BY DEF Of

-----------------------------------------------------------------------------
(* Handlers are told apart by the click they began with, and a flag that disables every *)
(* button that sets it is set for one of them.                                          *)

Numbered ==
    /\ \A c \in calls : c.id <= did.clicks
    /\ \A c, d \in calls : c.id = d.id => c = d
Locked ==
    \A f : Exclusive(P, f) =>
        /\ \A c \in calls : f \in Of(P, c).busy => f \in busy
        /\ \A c, d \in calls : f \in Of(P, c).busy /\ f \in Of(P, d).busy => c = d

LEMMA HandStart ==
    ASSUME TypeInv, Numbered, Locked, P' = P, NEW n \in DOMAIN P.ops, Starts(n)
    PROVE  Numbered' /\ Locked'
PROOF
<1>. DEFINE o == P.ops[n]
<1>1. did \in [clicks : Nat, edits : Nat, faults : Nat] /\ busy \cap o.off = {} /\ Start(n, o)
  BY PagesBounds DEF TypeInv, Typed, Starts, Enabled
<1>2. \A d : d.op = n => Of(P, d) = o
  BY OfStarted
<1>3. \A f \in o.busy : Exclusive(P, f) => f \in o.off
  BY DEF Exclusive
<1>. HIDE DEF o
<1>4. busy' = busy \cup o.busy /\ did'.clicks = did.clicks + 1
  BY <1>1, StartIs
<1>5. PICK d : Started(n, o, d)
  BY <1>1, StartIs
<1>6. calls' = calls \cup {d} /\ d.id = did.clicks + 1 /\ Of(P, d) = o
  BY <1>2, <1>5 DEF Started
<1>7. \A c \in calls : c.id \in Nat /\ c.id < d.id
  BY <1>1, <1>6, PagesBounds DEF Numbered, TypeInv, CallOK
<1>8. Numbered'
  BY <1>1, <1>4, <1>6, <1>7 DEF Numbered
<1>9. ASSUME NEW f, Exclusive(P, f), f \in o.busy PROVE \A c \in calls : f \notin Of(P, c).busy
  BY <1>1, <1>3, <1>9 DEF Locked
<1>10. Locked'
  BY <1>4, <1>6, <1>9 DEF Locked
<1>. QED BY <1>8, <1>10

LEMMA HandMoved ==
    ASSUME Numbered, Locked, P' = P, NEW c \in calls, NEW d, Moved(c, d), busy' = busy,
           did'.clicks = did.clicks
    PROVE  Numbered' /\ Locked'
PROOF
<1>1. calls' = (calls \ {c}) \cup {d} /\ d.id = c.id /\ Of(P, d) = Of(P, c)
  BY OfAlike DEF Moved, Alike
<1>. QED BY <1>1 DEF Numbered, Locked

LEMMA HandLeaves ==
    ASSUME TypeInv, Numbered, Locked, P' = P, NEW c \in calls, NEW S, Leaves(c, S),
           did'.clicks = did.clicks
    PROVE  Numbered' /\ Locked'
PROOF
<1>1. calls' = (calls \ {c}) \cup S /\ busy' = busy \ Of(P, c).busy
  BY OfIs DEF Leaves
<1>2. ASSUME NEW d \in S PROVE d.id = c.id /\ Of(P, d).busy = {} /\ S = {d}
  BY OfLoading, PlainFields DEF Leaves, Loading
<1>. QED BY <1>1, <1>2 DEF Numbered, Locked

HandInv == TypeInv /\ Numbered /\ Locked

LEMMA HandNext == HandInv /\ [Next]_pageVars => HandInv'
PROOF
<1>. SUFFICES ASSUME HandInv, [Next]_pageVars PROVE HandInv'
  OBVIOUS
<1>1. TypeInv /\ Numbered /\ Locked /\ P' = P /\ TypeInv'
  BY TypeNext, SamePanel DEF HandInv
<1>2. CASE User \/ ImpactServed \/ ImpactAnswered \/ UNCHANGED pageVars
  <2>1. CASE Still
    BY <1>1, <2>1 DEF Still, Numbered, Locked, HandInv
  <2>. QED BY <1>1, <1>2, <2>1, UserIs, HandStart DEF HandInv
<1>3. ASSUME NEW c \in calls, HubWrite(c) \/ HubRead(c) \/ HubRefuses(c) \/ Lose(c) \/ FailedReads(c)
      PROVE  HandInv'
  <2>1. busy' = busy /\ did'.clicks = did.clicks
    BY <1>1, <1>3, OthersAre DEF HubWrite, HubRead, HubRefuses, HubRest, Lose, FailedReads
  <2>2. \E d : Moved(c, d)
    BY <1>1, <1>3, Shaped, HubWriteIs, HubReadIs, FailsIs, FailedReadsIs
  <2>. QED BY <1>1, <2>1, <2>2, HandMoved DEF HandInv
<1>4. ASSUME NEW c \in calls, WriteAnswered(c), Op(c).reads # {} PROVE HandInv'
  <2>1. busy' = busy /\ did'.clicks = did.clicks
    BY <1>4 DEF WriteAnswered
  <2>2. \E d : Moved(c, d)
    BY <1>1, <1>4, Shaped, WriteReadsIs
  <2>. QED BY <1>1, <2>1, <2>2, HandMoved DEF HandInv
<1>5. ASSUME NEW c \in calls, (WriteAnswered(c) /\ Op(c).reads = {}) \/ ReadAnswered(c)
      PROVE  HandInv'
  <2>1. did'.clicks = did.clicks
    BY <1>5 DEF WriteAnswered, ReadAnswered
  <2>. QED BY <1>1, <1>5, <2>1, EndedIs, HandLeaves DEF HandInv
<1>6. ASSUME NEW c \in calls, Failed(c) PROVE HandInv'
  <2>1. calls' = calls \ {c} /\ busy' = busy \ Of(P, c).busy /\ did' = did
    BY <1>6, OfIs DEF Failed, Unbusy, Without
  <2>. QED BY <1>1, <2>1 DEF Numbered, Locked, HandInv
<1>. QED BY <1>2, <1>3, <1>4, <1>5, <1>6 DEF Next, Hub, Answer

LEMMA HandInit == Init => HandInv
PROOF
<1>. SUFFICES ASSUME Init PROVE HandInv
  OBVIOUS
<1>1. TypeInv
  BY TypeInit
<1>2. ASSUME NEW c \in calls PROVE c = FirstLoad(P.loads) /\ c.id = 0 /\ Of(P, c).busy = {}
  <2>1. c = FirstLoad(P.loads)
    BY DEF Init
  <2>2. c.op = "load" /\ c.id = 0
    BY <2>1, FirstLoadIs
  <2>3. Of(P, c) = Plain
    BY <1>1, <2>2, ThisPanelOK DEF TypeInv, Typed, PanelOK, Named, Of
  <2>. QED BY <2>1, <2>2, <2>3, PlainFields
<1>3. did.clicks = 0
  BY DEF Init
<1>4. Numbered /\ Locked
  BY <1>2, <1>3 DEF Numbered, Locked
<1>. QED BY <1>1, <1>4 DEF HandInv

-----------------------------------------------------------------------------
(* Saved changes stay saved.  A resource that no handler writes whole only grows.  One that is *)
(* written whole is written by one handler at a time, from a view that holds what was told.    *)

Puttable(p, r) == \E n \in DOMAIN p.ops : r \in p.ops[n].puts
Grown(r) ==
    /\ told[r] \subseteq hub[r]
    /\ \A c \in calls : r \in Of(P, c).adds /\ c.ok /\ c.at \in {"wrote", "read", "got"} => c.id \in hub[r]
Replaced(r) ==
    /\ told[r] \subseteq hub[r]
    /\ up => told[r] \subseteq shown[r]
    /\ \A c \in calls : r \in Of(P, c).puts =>
           /\ c.at = "write" => told[r] \subseteq c.base[r]
           /\ c.at = "wrote" => c.ans[r] = hub[r] /\ c.id \in hub[r]
           /\ c.at \in {"read", "got"} /\ c.ok => c.id \in hub[r] /\ (up => c.id \in shown[r])
EditInv ==
    \A r \in Resources(P) : IF Puttable(P, r) THEN r = "hosts" \/ back \/ Replaced(r) ELSE Grown(r)

LEMMA NotPuttable ==
    ASSUME NEW r, ~Puttable(P, r) PROVE \A c : r \notin Of(P, c).puts
  BY PlainFields DEF Puttable, Of

LEMMA GrownStart ==
    ASSUME TypeInv, P' = P, NEW r \in Resources(P), Grown(r), NEW n \in DOMAIN P.ops, Starts(n)
    PROVE  Grown(r)'
PROOF
<1>1. did \in [clicks : Nat, edits : Nat, faults : Nat] /\ Start(n, P.ops[n])
  BY PagesBounds DEF TypeInv, Typed, Starts
<1>2. PICK d : Started(n, P.ops[n], d)
  BY <1>1, StartIs
<1>3. calls' = calls \cup {d} /\ Of(P, d) = P.ops[n] /\ (d.at = "write" \/ ~Writes(P.ops[n]))
  BY <1>2, OfStarted DEF Started
<1>4. r \in P.ops[n].adds => Writes(P.ops[n])
  BY DEF Writes
<1>5. d.at \in {"wrote", "read", "got"} => r \notin Of(P, d).adds
  BY <1>3, <1>4
<1>6. UNCHANGED <<hub, told>>
  BY <1>1 DEF Start
<1>. QED BY <1>3, <1>5, <1>6 DEF Grown

LEMMA GrownMoved ==
    ASSUME P' = P, NEW r, Grown(r), NEW c \in calls, NEW d, Moved(c, d),
           told' = told, hub[r] \subseteq hub'[r], c.ok \in BOOLEAN, d.ok \in BOOLEAN,
           \/ d.at = "failed" \/ ~d.ok
           \/ (d.ok = c.ok /\ c.at \in {"wrote", "read", "got"})
           \/ (r \in Of(P, c).adds => c.id \in hub'[r])
    PROVE  Grown(r)'
PROOF
<1>1. calls' = (calls \ {c}) \cup {d} /\ d.id = c.id /\ Of(P, d) = Of(P, c)
  BY OfAlike DEF Moved, Alike
<1>. QED BY <1>1 DEF Grown

LEMMA GrownLeaves ==
    ASSUME TypeInv, P' = P, NEW r \in Resources(P), Grown(r), ~Puttable(P, r), NEW c \in calls,
           NEW S, Leaves(c, S), Ended(c), c.at \in {"wrote", "got"}, hub' = hub
    PROVE  Grown(r)'
PROOF
<1>1. calls' = (calls \ {c}) \cup S
  BY DEF Leaves
<1>2. \A d \in S : r \notin Of(P, d).adds
  BY OfLoading, PlainFields DEF Leaves
<1>3. told'[r] = IF c.ok /\ r \in Of(P, c).adds THEN told[r] \cup {c.id} ELSE told[r]
  BY ToldIs, NotPuttable
<1>. QED BY <1>1, <1>2, <1>3 DEF Grown

LEMMA GrownNext ==
    ASSUME TypeInv, [Next]_pageVars, NEW r \in Resources(P), Grown(r), ~Puttable(P, r)
    PROVE  Grown(r)'
PROOF
<1>1. P' = P
  BY SamePanel
<1>2. CASE User \/ ImpactServed \/ ImpactAnswered \/ UNCHANGED pageVars
  <2>1. CASE Still
    BY <1>1, <2>1 DEF Still, Grown
  <2>. QED BY <1>1, <1>2, <2>1, UserIs, GrownStart
<1>3. ASSUME NEW c \in calls, HubWrite(c) PROVE Grown(r)'
  <2>1. PICK d : Moved(c, d) /\ d.at = "wrote" /\ d.ok = c.ok
    BY <1>3, Shaped, HubWriteIs
  <2>2. hub'[r] = IF r \in Of(P, c).adds THEN hub[r] \cup {c.id} ELSE hub[r]
    BY <1>3, HubIs, NotPuttable, OfIs DEF Written
  <2>3. told' = told /\ c.ok \in BOOLEAN
    BY <1>3, OthersAre, Shaped DEF CallOK
  <2>. QED BY <1>1, <2>1, <2>2, <2>3, GrownMoved
<1>4. ASSUME NEW c \in calls, HubRead(c) \/ HubRefuses(c) \/ Lose(c) \/ FailedReads(c) PROVE Grown(r)'
  <2>1. PICK d : Moved(c, d) /\ (d.at = "failed" \/ ~d.ok \/ (d.ok = c.ok /\ c.at = "read")) /\ d.ok \in BOOLEAN
    <3>1. DOMAIN c = Fields /\ c.ok \in BOOLEAN
      BY Shaped DEF CallOK
    <3>2. CASE HubRead(c)
      <4>1. c.at = "read"
        BY <3>2 DEF HubRead
      <4>. QED BY <3>1, <3>2, <4>1, HubReadIs
    <3>3. CASE HubRefuses(c) \/ Lose(c)
      BY <3>1, <3>3, FailsIs
    <3>4. CASE FailedReads(c)
      BY <3>1, <3>4, FailedReadsIs
    <3>. QED BY <1>4, <3>2, <3>3, <3>4
  <2>2. told' = told /\ hub' = hub /\ c.ok \in BOOLEAN
    BY <1>4, OthersAre, Shaped DEF CallOK, HubRead, HubRefuses, Lose, FailedReads
  <2>. QED BY <1>1, <2>1, <2>2, GrownMoved
<1>5. ASSUME NEW c \in calls, WriteAnswered(c), Op(c).reads # {} PROVE Grown(r)'
  <2>1. PICK d : Moved(c, d) /\ d.ok = c.ok
    BY <1>5, Shaped, WriteReadsIs
  <2>2. told' = told /\ hub' = hub /\ c.at = "wrote" /\ c.ok \in BOOLEAN
    BY <1>5, Shaped DEF CallOK, WriteAnswered
  <2>. QED BY <1>1, <2>1, <2>2, GrownMoved
<1>6. ASSUME NEW c \in calls, (WriteAnswered(c) /\ Op(c).reads = {}) \/ ReadAnswered(c)
      PROVE  Grown(r)'
  <2>1. hub' = hub /\ c.at \in {"wrote", "got"}
    BY <1>6 DEF WriteAnswered, ReadAnswered
  <2>. QED BY <1>1, <1>6, <2>1, EndedIs, GrownLeaves
<1>7. ASSUME NEW c \in calls, Failed(c) PROVE Grown(r)'
  BY <1>1, <1>7 DEF Failed, Without, Grown
<1>. QED BY <1>2, <1>3, <1>4, <1>5, <1>6, <1>7 DEF Next, Hub, Answer

LEMMA OneWriter ==
    ASSUME TypeInv, Locked, NEW r \in Resources(P), Puttable(P, r), r # "hosts"
    PROVE  /\ \A c : r \notin Of(P, c).adds /\ (r \in Of(P, c).puts => r \in Of(P, c).shows)
           /\ \A c, d \in calls : r \in Of(P, c).puts /\ r \in Of(P, d).puts => c = d
PROOF
<1>1. PutsAlone(P)
  BY ThisPanelOK DEF TypeInv, Typed, PanelOK
<1>2. \A c : r \in Of(P, c).puts => Of(P, c).puts = P.ops[c.op].puts /\ c.op \in DOMAIN P.ops
  BY PlainFields DEF Of
<1>3. \A c : r \notin Of(P, c).adds /\ (r \in Of(P, c).puts => r \in Of(P, c).shows)
  BY <1>1, PlainFields DEF PutsAlone, Puttable, Of
<1>4. PICK n \in DOMAIN P.ops : r \in P.ops[n].puts
  BY DEF Puttable
<1>5. PICK f : Exclusive(P, f) /\ \A k \in DOMAIN P.ops : r \in P.ops[k].puts => f \in P.ops[k].busy
  BY <1>1, <1>4 DEF PutsAlone
<1>6. \A c : r \in Of(P, c).puts => f \in Of(P, c).busy
  BY <1>2, <1>5 DEF Of
<1>. QED BY <1>3, <1>5, <1>6 DEF Locked

LEMMA ReplacedStart ==
    ASSUME TypeInv, P' = P, NEW r \in Resources(P), Replaced(r), NEW n \in DOMAIN P.ops, Starts(n)
    PROVE  Replaced(r)'
PROOF
<1>1. did \in [clicks : Nat, edits : Nat, faults : Nat] /\ Start(n, P.ops[n]) /\ up
  BY PagesBounds DEF TypeInv, Typed, Starts, Enabled
<1>2. PICK d : Started(n, P.ops[n], d)
  BY <1>1, StartIs
<1>3. calls' = calls \cup {d} /\ Of(P, d) = P.ops[n]
  BY <1>2, OfStarted DEF Started
<1>4. r \in Of(P, d).puts => d.at = "write" /\ d.base[r] = shown[r]
  BY <1>2, <1>3 DEF Started, Writes
<1>5. UNCHANGED <<hub, told, shown, up>>
  BY <1>1 DEF Start
<1>. QED BY <1>1, <1>3, <1>4, <1>5 DEF Replaced

(* A handler goes on: what it has written or answered is what is said of where it is now. *)
ReplacedAs(r, d) == r \in Of(P, d).puts =>
    /\ d.at = "write" => told'[r] \subseteq d.base[r]
    /\ d.at = "wrote" => d.ans[r] = hub'[r] /\ d.id \in hub'[r]
    /\ d.at \in {"read", "got"} /\ d.ok => d.id \in hub'[r] /\ (up' => d.id \in shown'[r])

LEMMA ReplacedMoved ==
    ASSUME P' = P, NEW r, Replaced(r), NEW c \in calls, NEW d, Moved(c, d), ReplacedAs(r, d),
           told' = told, up' = up, told[r] \subseteq hub'[r], up => told[r] \subseteq shown'[r],
           \A e \in calls \ {c} : r \in Of(P, e).puts =>
               /\ hub'[r] = hub[r]
               /\ up /\ e.id \in shown[r] /\ e.id \in hub[r] => e.id \in shown'[r]
    PROVE  Replaced(r)'
PROOF
<1>1. calls' = (calls \ {c}) \cup {d}
  BY DEF Moved
<1>2. ReplacedAs(r, d)
  OBVIOUS
<1>3. ASSUME NEW e \in calls \ {c} PROVE ReplacedAs(r, e)
  BY <1>3 DEF Replaced, ReplacedAs
<1>. QED BY <1>1, <1>2, <1>3 DEF Replaced, ReplacedAs

LEMMA ReplacedLeaves ==
    ASSUME TypeInv, Locked, P' = P, NEW r \in Resources(P), Replaced(r), Puttable(P, r), r # "hosts",
           NEW c \in calls, NEW S, Leaves(c, S), Ended(c), hub' = hub, up' => up,
           r \in Of(P, c).puts /\ c.ok => c.id \in hub[r] /\ (up => c.id \in shown'[r]),
           up => shown[r] \cap hub[r] \subseteq shown'[r]
    PROVE  Replaced(r)'
PROOF
<1>1. calls' = (calls \ {c}) \cup S
  BY DEF Leaves
<1>2. \A d \in S : r \notin Of(P, d).puts
  BY OfLoading, PlainFields DEF Leaves
<1>3. told'[r] = IF c.ok /\ r \in Of(P, c).puts THEN told[r] \cup {c.id} ELSE told[r]
  BY ToldIs, OneWriter
<1>4. told'[r] \subseteq hub'[r] /\ (up' => told'[r] \subseteq shown'[r])
  BY <1>3 DEF Replaced
<1>5. ASSUME NEW e \in calls \ {c}, r \in Of(P, e).puts
      PROVE  /\ told'[r] = told[r]
             /\ ReplacedAs(r, e)
  <2>1. told'[r] = told[r]
    BY <1>3, <1>5, OneWriter
  <2>. QED BY <1>5, <2>1 DEF Replaced, ReplacedAs
<1>. QED BY <1>1, <1>2, <1>4, <1>5 DEF Replaced, ReplacedAs

(* What an answer leaves in the view of a page that is still there. *)
LEMMA WriteShows ==
    ASSUME TypeInv, NEW c \in calls, WriteAnswered(c)
    PROVE  /\ ~back' => ~back /\ \A r \in Resources(P) : shown[r] \cap hub[r] \subseteq shown'[r]
           /\ up => \A r \in Resources(P) :
                        shown'[r] = IF r \in Op(c).shows THEN c.ans[r]
                                    ELSE IF r \in Op(c).marks THEN shown[r] \cup {c.id}
                                    ELSE IF r \in Op(c).keeps THEN c.base[r] ELSE shown[r]
           /\ hub' = hub /\ gone' = gone /\ c.at = "wrote" /\ did' = did
           /\ Filled(Op(c).fills)
PROOF
<1>. DEFINE f == [r \in DOMAIN shown |->
                    IF r \in Op(c).shows THEN c.ans[r] ELSE IF r \in Op(c).marks THEN shown[r] \cup {c.id}
                    ELSE IF r \in Op(c).keeps THEN c.base[r] ELSE shown[r]]
<1>1. View(f) /\ hub' = hub /\ gone' = gone /\ c.at = "wrote" /\ did' = did /\ Filled(Op(c).fills)
  BY DEF WriteAnswered
<1>2. DOMAIN shown = Resources(P)
  BY DEF TypeInv, Typed, View3
<1>3. up => \A r \in Resources(P) : shown'[r] = f[r]
  BY <1>1, <1>2 DEF View
<1>4. \A r \in Resources(P) :
          f[r] = IF r \in Op(c).shows THEN c.ans[r]
                 ELSE IF r \in Op(c).marks THEN shown[r] \cup {c.id}
                 ELSE IF r \in Op(c).keeps THEN c.base[r] ELSE shown[r]
  BY <1>2
<1>. HIDE DEF f
<1>5. ~back' => ~back /\ \A r \in Resources(P) : shown[r] \cap hub[r] \subseteq shown'[r]
  BY <1>1, ViewIs
<1>. QED BY <1>1, <1>3, <1>4, <1>5

LEMMA ReadShows ==
    ASSUME TypeInv, NEW c \in calls, ReadAnswered(c)
    PROVE  /\ ~back' => ~back /\ \A r \in Resources(P) : shown[r] \cap hub[r] \subseteq shown'[r]
           /\ up => \A r \in Resources(P) : shown'[r] = IF r \in c.rs THEN c.ans[r] ELSE shown[r]
           /\ hub' = hub /\ gone' = gone /\ c.at = "got" /\ did' = did
           /\ Filled({f \in DOMAIN draft : P.forms[f].from \in c.rs})
PROOF
<1>. DEFINE f == [r \in DOMAIN shown |-> IF r \in c.rs THEN c.ans[r] ELSE shown[r]]
<1>1. /\ View(f) /\ hub' = hub /\ gone' = gone /\ c.at = "got" /\ did' = did
      /\ Filled({g \in DOMAIN draft : P.forms[g].from \in c.rs})
  BY DEF ReadAnswered
<1>2. DOMAIN shown = Resources(P)
  BY DEF TypeInv, Typed, View3
<1>3. up => \A r \in Resources(P) : shown'[r] = f[r]
  BY <1>1, <1>2 DEF View
<1>4. \A r \in Resources(P) : f[r] = IF r \in c.rs THEN c.ans[r] ELSE shown[r]
  BY <1>2
<1>. HIDE DEF f
<1>5. ~back' => ~back /\ \A r \in Resources(P) : shown[r] \cap hub[r] \subseteq shown'[r]
  BY <1>1, ViewIs
<1>. QED BY <1>1, <1>3, <1>4, <1>5

LEMMA ReplacedNext ==
    ASSUME HandInv, [Next]_pageVars, NEW r \in Resources(P), Replaced(r), Puttable(P, r),
           r # "hosts", ~back'
    PROVE  Replaced(r)'
PROOF
<1>1. P' = P /\ TypeInv /\ Locked
  BY SamePanel DEF HandInv
<1>2. CASE User \/ ImpactServed \/ ImpactAnswered \/ UNCHANGED pageVars
  <2>1. CASE Still
    BY <1>1, <2>1 DEF Still, Replaced
  <2>. QED BY <1>1, <1>2, <2>1, UserIs, ReplacedStart
<1>3. ASSUME NEW c \in calls, HubWrite(c) PROVE Replaced(r)'
  <2>1. PICK d : Moved(c, d) /\ d.at = "wrote" /\ d.ans = [q \in Op(c).shows |-> hub'[q]]
    BY <1>1, <1>3, Shaped, HubWriteIs
  <2>2. UNCHANGED <<told, up, shown>> /\ c.at = "write"
    BY <1>1, <1>3, OthersAre DEF HubWrite
  <2>3. hub'[r] = IF r \in Of(P, c).puts THEN c.base[r] \cup {c.id} ELSE hub[r]
    BY <1>1, <1>3, HubIs, OneWriter, OfIs DEF Written
  <2>4. Of(P, d) = Of(P, c) /\ d.id = c.id
    BY <2>1, OfAlike DEF Moved, Alike
  <2>5. r \in Of(P, c).puts => d.ans[r] = hub'[r] /\ d.id \in hub'[r]
    BY <1>1, <2>1, <2>3, <2>4, OneWriter, OfIs
  <2>6. ReplacedAs(r, d)
    BY <2>1, <2>4, <2>5 DEF ReplacedAs
  <2>7. told[r] \subseteq hub'[r] /\ (up => told[r] \subseteq shown'[r])
    BY <2>2, <2>3 DEF Replaced
  <2>8. \A e \in calls \ {c} : r \in Of(P, e).puts =>
               /\ hub'[r] = hub[r]
               /\ up /\ e.id \in shown[r] /\ e.id \in hub[r] => e.id \in shown'[r]
    BY <1>1, <2>2, <2>3, OneWriter
  <2>. QED BY <1>1, <2>1, <2>2, <2>6, <2>7, <2>8, ReplacedMoved
<1>4. ASSUME NEW c \in calls, HubRead(c) \/ HubRefuses(c) \/ Lose(c) \/ FailedReads(c)
      PROVE  Replaced(r)'
  <2>1. PICK d : /\ Moved(c, d) /\ d.at \in {"got", "failed", "read"}
                 /\ (d.at = "failed" \/ ~d.ok \/ (d.ok = c.ok /\ c.at = "read"))
    <3>1. DOMAIN c = Fields
      BY <1>1, Shaped
    <3>2. CASE HubRead(c)
      <4>1. c.at = "read"
        BY <3>2 DEF HubRead
      <4>. QED BY <3>1, <3>2, <4>1, HubReadIs
    <3>3. CASE HubRefuses(c) \/ Lose(c)
      BY <3>1, <3>3, FailsIs
    <3>4. CASE FailedReads(c)
      BY <3>1, <3>4, FailedReadsIs
    <3>. QED BY <1>4, <3>2, <3>3, <3>4
  <2>2. UNCHANGED <<told, up, shown, hub>>
    BY <1>1, <1>4, OthersAre DEF HubRead, HubRefuses, Lose, FailedReads
  <2>3. Of(P, d) = Of(P, c) /\ d.id = c.id
    BY <2>1, OfAlike DEF Moved, Alike
  <2>4. ReplacedAs(r, d)
    BY <2>1, <2>2, <2>3 DEF ReplacedAs, Replaced
  <2>. QED BY <1>1, <2>1, <2>2, <2>4, ReplacedMoved DEF Replaced
<1>5. ASSUME NEW c \in calls, WriteAnswered(c), Op(c).reads # {} PROVE Replaced(r)'
  <2>1. PICK d : Moved(c, d) /\ d.at = "read"
    BY <1>1, <1>5, Shaped, WriteReadsIs
  <2>2. UNCHANGED <<told, up, hub>>
    BY <1>5 DEF WriteAnswered
  <2>3. Of(P, d) = Of(P, c) /\ d.id = c.id
    BY <2>1, OfAlike DEF Moved, Alike
  <2>4. /\ shown[r] \cap hub[r] \subseteq shown'[r] /\ c.at = "wrote"
        /\ up /\ r \in Of(P, c).shows => shown'[r] = c.ans[r]
    BY <1>1, <1>5, WriteShows, OfIs
  <2>5. ReplacedAs(r, d)
    BY <1>1, <2>1, <2>2, <2>3, <2>4, OneWriter DEF ReplacedAs, Replaced
  <2>6. /\ told[r] \subseteq hub'[r] /\ (up => told[r] \subseteq shown'[r])
        /\ \A e \in calls \ {c} : r \in Of(P, e).puts =>
               /\ hub'[r] = hub[r]
               /\ up /\ e.id \in shown[r] /\ e.id \in hub[r] => e.id \in shown'[r]
    BY <2>2, <2>4 DEF Replaced
  <2>. QED BY <1>1, <2>1, <2>2, <2>5, <2>6, ReplacedMoved
<1>6. ASSUME NEW c \in calls, (WriteAnswered(c) /\ Op(c).reads = {}) \/ ReadAnswered(c)
      PROVE  Replaced(r)'
  <2>1. /\ hub' = hub /\ shown[r] \cap hub[r] \subseteq shown'[r]
        /\ c.at = "wrote" /\ up /\ r \in Of(P, c).shows => shown'[r] = c.ans[r]
        /\ c.at \in {"wrote", "got"}
    BY <1>1, <1>6, WriteShows, ReadShows, OfIs
  <2>2. r \in Of(P, c).puts /\ c.ok => c.id \in hub[r] /\ (up => c.id \in shown'[r])
    BY <1>1, <2>1, OneWriter DEF Replaced
  <2>3. PICK S : Ended(c) /\ Leaves(c, S)
    BY <1>1, <1>6, EndedIs
  <2>4. up' => up
    BY <2>3 DEF Ended
  <2>. QED BY <1>1, <2>1, <2>2, <2>3, <2>4, ReplacedLeaves
<1>7. ASSUME NEW c \in calls, Failed(c) PROVE Replaced(r)'
  BY <1>1, <1>7 DEF Failed, Without, Replaced
<1>. QED BY <1>2, <1>3, <1>4, <1>5, <1>6, <1>7 DEF Next, Hub, Answer

LEMMA EditInit == Init => EditInv
PROOF
<1>. SUFFICES ASSUME Init PROVE EditInv
  OBVIOUS
<1>1. hub = [r \in Resources(P) |-> {}] /\ shown = hub /\ told = hub
  BY DEF Init
<1>2. ASSUME NEW c \in calls PROVE Of(P, c).adds = {} /\ Of(P, c).puts = {}
  <2>0. c = FirstLoad(P.loads)
    BY DEF Init
  <2>1. c.op = "load" /\ "load" \notin DOMAIN P.ops
    BY <2>0, FirstLoadIs, ThisPanelOK DEF Init, PanelOK, Named
  <2>2. Of(P, c) = Plain
    BY <2>1 DEF Of
  <2>. QED BY <2>2, PlainFields
<1>. QED BY <1>1, <1>2 DEF EditInv, Replaced, Grown

LEMMA EditNext == HandInv /\ EditInv /\ [Next]_pageVars => EditInv'
PROOF
<1>. SUFFICES ASSUME HandInv, EditInv, [Next]_pageVars PROVE EditInv'
  OBVIOUS
<1>1. P' = P /\ TypeInv
  BY SamePanel DEF HandInv
<1>2. back => back'
  BY DEF Next, User, Hub, Answer, Click, OpenDialog, Edit, CancelDialog, Confirm, Start, AskRest,
         ImpactServed, ImpactAnswered, HubWrite, HubRead, HubRefuses, HubRest, Lose, WriteAnswered,
         ReadAnswered, View, Failed, FailedReads, pageVars
<1>3. ASSUME NEW r \in Resources(P), Puttable(P, r) PROVE r = "hosts" \/ back' \/ Replaced(r)'
  BY <1>2, <1>3, ReplacedNext DEF EditInv
<1>4. ASSUME NEW r \in Resources(P), ~Puttable(P, r) PROVE Grown(r)'
  BY <1>1, <1>4, GrownNext DEF EditInv
<1>. QED BY <1>1, <1>3, <1>4 DEF EditInv

(* Whatever the page, the number of clicks, and the requests that fail: no save undoes another *)
(* save the user was told of, except the meeting hosts of OrgPage.                             *)
THEOREM SavesSurvive == Spec => []EditsKept
PROOF
<1>1. HandInv /\ EditInv => EditsKept
  BY DEF HandInv, EditInv, Replaced, Grown, EditsKept, TypeInv, Typed, View3
<1>. QED BY <1>1, HandInit, HandNext, EditInit, EditNext, PTL DEF Spec

(* What no handler of the page writes whole keeps every change the user was told of, even when *)
(* answers overtake each other: the hub changes it in place.                                   *)
THEOREM InPlaceSurvives ==
    Spec => [](\A r \in DOMAIN hub : ~Puttable(P, r) => told[r] \subseteq hub[r])
PROOF
<1>1. HandInv /\ EditInv => \A r \in DOMAIN hub : ~Puttable(P, r) => told[r] \subseteq hub[r]
  BY DEF HandInv, EditInv, Grown, TypeInv, Typed, View3
<1>. QED BY <1>1, HandInit, HandNext, EditInit, EditNext, PTL DEF Spec

-----------------------------------------------------------------------------
(* The consequences a dialog shows were read after the last change the user was told of: the *)
(* step that tells the user draws the page again, and the dialog reads them again.           *)

Warned == ask # None /\ ask.at \in {"served", "shown"} => \A r \in Resources(P) : told[r] \subseteq ask.seen[r]

LEMMA AskedGrown ==
    ASSUME TypeInv, EditInv, ask # None
    PROVE  \A r \in Resources(P) : told[r] \subseteq hub[r]
PROOF
<1>1. AsksFirst(P) /\ Dialog(P, ask)
  BY ThisPanelOK DEF TypeInv, Typed, PanelOK
<1>2. \A r : ~Puttable(P, r)
  BY <1>1 DEF AsksFirst, Dialog, Puttable
<1>. QED BY <1>2 DEF EditInv, Grown

LEMMA WarnedNext ==
    ASSUME TypeInv, EditInv, Warned, [Next]_pageVars PROVE Warned'
PROOF
<1>1. P' = P
  BY SamePanel
<1>2. Redrawn = None \/ Redrawn.at = "fetch"
  BY DEF Redrawn, Fetch
<1>3. CASE told' = told /\ ask' \in {ask, None, Redrawn}
  BY <1>1, <1>2, <1>3 DEF Warned
<1>4. CASE ask' \in {None, Redrawn}
  BY <1>2, <1>4 DEF Warned
<1>5. CASE \/ UNCHANGED pageVars \/ CancelDialog \/ Confirm
           \/ \E n \in DOMAIN P.ops : Click(n)
           \/ \E f \in DOMAIN draft : Edit(f)
  BY <1>3, <1>5 DEF pageVars, Click, Edit, CancelDialog, AskRest, Confirm, Start
<1>6. ASSUME NEW n \in DOMAIN P.ops, OpenDialog(n) PROVE Warned'
  <2>1. ask'.at = "fetch"
    BY <1>6 DEF OpenDialog, Fetch
  <2>. QED BY <2>1 DEF Warned
<1>7. CASE ImpactServed
  <2>1. /\ ask # None /\ told' = told
        /\ ask' = IF gone THEN [ask EXCEPT !.at = "failed"]
                          ELSE [ask EXCEPT !.at = "served", !.seen = hub]
    BY <1>7 DEF ImpactServed, AskRest
  <2>2. DOMAIN ask = {"op", "at", "seen"}
    BY <2>1 DEF TypeInv, Typed, Dialog
  <2>3. ask'.at = "failed" \/ ask'.seen = hub
    BY <2>1, <2>2
  <2>. QED BY <1>1, <2>1, <2>3, AskedGrown DEF Warned
<1>8. CASE ImpactAnswered
  <2>1. /\ ask # None /\ told' = told
        /\ ask' = None \/ (ask.at = "served" /\ ask' = [ask EXCEPT !.at = "shown"])
    BY <1>8 DEF ImpactAnswered, AskRest
  <2>2. DOMAIN ask = {"op", "at", "seen"}
    BY <2>1 DEF TypeInv, Typed, Dialog
  <2>. QED BY <1>1, <2>1, <2>2 DEF Warned
<1>9. ASSUME NEW c \in calls, HubWrite(c) \/ HubRead(c) \/ HubRefuses(c) \/ Lose(c) \/ Failed(c) \/ FailedReads(c)
      PROVE  Warned'
  BY <1>3, <1>9 DEF HubWrite, HubRead, HubRefuses, HubRest, Lose, Failed, FailedReads
<1>10. ASSUME NEW c \in calls, WriteAnswered(c), Op(c).reads # {} PROVE Warned'
  BY <1>3, <1>10 DEF WriteAnswered
<1>11. ASSUME NEW c \in calls, (WriteAnswered(c) /\ Op(c).reads = {}) \/ ReadAnswered(c)
       PROVE  Warned'
  BY <1>4, <1>11, EndedIs DEF Ended
<1>. QED BY <1>5, <1>6, <1>7, <1>8, <1>9, <1>10, <1>11 DEF Next, User, Hub, Answer

(* Only the user starts a handler that is going to write. *)
LEMMA OnlyStarts ==
    ASSUME TypeInv, [Next]_pageVars, NEW d \in calls' \ calls,
           d.at = "write" \/ d.id \notin {c.id : c \in calls}
    PROVE  (\E n \in DOMAIN P.ops : Click(n)) \/ Confirm
PROOF
<1>1. ASSUME NEW c \in calls, HubWrite(c) PROVE FALSE
  <2>1. \E e : Moved(c, e) /\ e.at = "wrote"
    BY <1>1, Shaped, HubWriteIs
  <2>. QED BY <2>1 DEF Moved, Alike
<1>2. ASSUME NEW c \in calls, HubRead(c) PROVE FALSE
  <2>1. \E e : Moved(c, e) /\ e.at = "got"
    BY <1>2, Shaped, HubReadIs
  <2>. QED BY <2>1 DEF Moved, Alike
<1>3. ASSUME NEW c \in calls, HubRefuses(c) \/ Lose(c) PROVE FALSE
  <2>1. \E e : Moved(c, e) /\ e.at = "failed"
    BY <1>3, Shaped, FailsIs
  <2>. QED BY <2>1 DEF Moved, Alike
<1>4. ASSUME NEW c \in calls, WriteAnswered(c), Op(c).reads # {} PROVE FALSE
  <2>1. \E e : Moved(c, e) /\ e.at = "read"
    BY <1>4, Shaped, WriteReadsIs
  <2>. QED BY <2>1 DEF Moved, Alike
<1>5. ASSUME NEW c \in calls, FailedReads(c) PROVE FALSE
  <2>1. \E e : Moved(c, e) /\ e.at = "read"
    BY <1>5, Shaped, FailedReadsIs
  <2>. QED BY <2>1 DEF Moved, Alike
<1>6. ASSUME NEW c \in calls, (WriteAnswered(c) /\ Op(c).reads = {}) \/ ReadAnswered(c) PROVE FALSE
  <2>1. \E S : Leaves(c, S)
    BY <1>6, EndedIs
  <2>. QED BY <2>1 DEF Leaves, Loading
<1>7. ASSUME NEW c \in calls, Failed(c) PROVE FALSE
  BY <1>7 DEF Failed, Without
<1>8. UNCHANGED calls => FALSE
  OBVIOUS
<1>9. CASE UNCHANGED pageVars \/ (\E f \in DOMAIN draft : Edit(f)) \/ CancelDialog \/ ImpactServed \/ ImpactAnswered
           \/ (\E n \in DOMAIN P.ops : OpenDialog(n))
  BY <1>8, <1>9 DEF pageVars, Edit, CancelDialog, ImpactServed, ImpactAnswered, OpenDialog, AskRest
<1>. QED BY <1>1, <1>2, <1>3, <1>4, <1>5, <1>6, <1>7, <1>9 DEF Next, User, Hub, Answer

(* The call a button adds. *)
LEMMA StartAdds ==
    ASSUME TypeInv, NEW n \in DOMAIN P.ops, Start(n, P.ops[n]), NEW d \in calls' \ calls
    PROVE  Started(n, P.ops[n], d) /\ Op(d) = P.ops[n]
PROOF
<1>1. did \in [clicks : Nat, edits : Nat, faults : Nat]
  BY PagesBounds DEF TypeInv, Typed
<1>2. PICK e : Started(n, P.ops[n], e)
  BY <1>1, StartIs
<1>3. d = e
  BY <1>2 DEF Started
<1>. QED BY <1>2, <1>3, OfStarted, OfIs DEF Started

(* What a dialog warned of when its deletion was confirmed includes every change the page had *)
(* reported by then.                                                                          *)
THEOREM ConsequencesCurrent == Spec => ImpactCurrent
PROOF
<1>1. ASSUME TypeInv, Warned, [Next]_pageVars, NEW d \in calls' \ calls, d.at = "write", Op(d).asks
      PROVE  \A r \in DOMAIN told : told[r] \subseteq ask.seen[r]
  <2>1. CASE Confirm
    <3>1. ask # None /\ ask.at = "shown"
      BY <2>1 DEF Confirm
    <3>. QED BY <1>1, <3>1 DEF Warned, TypeInv, Typed, View3
  <2>2. ASSUME NEW n \in DOMAIN P.ops, Click(n) PROVE FALSE
    <3>1. Start(n, P.ops[n]) /\ ~P.ops[n].asks
      BY <2>2 DEF Click
    <3>. QED BY <1>1, <3>1, StartAdds
  <2>. QED BY <1>1, <2>1, <2>2, OnlyStarts
<1>2. Init => Warned
  BY DEF Init, Warned
<1>3. HandInv /\ EditInv /\ Warned /\ [Next]_pageVars => Warned'
  BY WarnedNext DEF HandInv
<1>4. HandInv /\ Warned /\ [Next]_pageVars =>
          [\A c \in calls' \ calls : c.at = "write" /\ Op(c).asks =>
               \A r \in DOMAIN told : told[r] \subseteq ask.seen[r]]_pageVars
  BY <1>1 DEF HandInv
<1>. QED BY <1>2, <1>3, <1>4, HandInit, HandNext, EditInit, EditNext, PTL DEF Spec, ImpactCurrent

-----------------------------------------------------------------------------
(* What is typed into a form that creates something is sent once: a handler in flight that     *)
(* carries a draft belongs to the form that still shows it, and a draft that has been accepted *)
(* is in no such form of a page that is still there.                                           *)

Drafts ==
    /\ \A f \in DOMAIN draft : draft[f] <= did.edits
    /\ \A f, g \in DOMAIN draft : draft[f] = draft[g] /\ draft[f] # 0 => f = g
Carried(c) == c.draft # 0 =>
    /\ c.draft <= did.edits
    /\ \A g \in DOMAIN draft : draft[g] = c.draft => g = Of(P, c).form
    /\ Of(P, c).form \in Creating /\ c.at \in {"read", "got"} /\ c.ok =>
           Of(P, c).leaves \/ \A g \in DOMAIN draft : draft[g] # c.draft
Accepted(s) == s # 0 =>
    s <= did.edits /\ (up => \A g \in DOMAIN draft : g \in Creating => draft[g] # s)
Sent == Drafts /\ (\A c \in calls : Carried(c)) /\ (\A s \in spent : Accepted(s))

(* Steps that fill in no form. *)
Quiet ==
    /\ DOMAIN draft' = DOMAIN draft /\ \A g \in DOMAIN draft : draft'[g] \in {0, draft[g]}
    /\ did'.edits = did.edits /\ (up' => up)

LEMMA QuietKeeps ==
    ASSUME TypeInv, P' = P, Quiet
    PROVE  /\ Drafts => Drafts'
           /\ \A s : Accepted(s) => Accepted(s)'
           /\ \A c, d : /\ Alike(c, d) /\ Carried(c)
                        /\ Of(P, c).form \in Creating /\ d.at \in {"read", "got"} /\ d.ok /\ c.draft # 0 =>
                               \/ c.at \in {"read", "got"} /\ c.ok
                               \/ Of(P, c).leaves
                               \/ draft'[Of(P, c).form] = 0
                        => Carried(d)'
           /\ \A c : Carried(c) => Carried(c)'
PROOF
<1>1. Drafts => Drafts'
  <2>1. did.edits \in Nat /\ did'.edits = did.edits
    BY DEF TypeInv, Typed, Quiet
  <2>2. 0 <= did.edits
    BY <2>1
  <2>. QED BY <2>1, <2>2 DEF Drafts, Quiet
<1>2. \A s : Accepted(s) => Accepted(s)'
  BY DEF Accepted, Quiet
<1>3. ASSUME NEW c, Carried(c) PROVE Carried(c)'
  BY <1>3 DEF Carried, Quiet
<1>4. ASSUME NEW c, NEW d, Alike(c, d), Carried(c),
             Of(P, c).form \in Creating /\ d.at \in {"read", "got"} /\ d.ok /\ c.draft # 0 =>
                 \/ c.at \in {"read", "got"} /\ c.ok
                 \/ Of(P, c).leaves
                 \/ draft'[Of(P, c).form] = 0
      PROVE  Carried(d)'
  <2>1. Of(P, d) = Of(P, c) /\ d.draft = c.draft
    BY <1>4, OfAlike DEF Alike
  <2>. SUFFICES ASSUME c.draft # 0 PROVE Carried(d)'
    BY <2>1 DEF Carried
  <2>2. /\ c.draft <= did'.edits
        /\ \A g \in DOMAIN draft' : draft'[g] = c.draft => g = Of(P, c).form /\ draft[g] = c.draft
    BY <1>4 DEF Carried, Quiet
  <2>3. Of(P, c).form \in Creating /\ d.at \in {"read", "got"} /\ d.ok =>
           Of(P, c).leaves \/ \A g \in DOMAIN draft' : draft'[g] # c.draft
    BY <1>4, <2>2 DEF Carried, Quiet
  <2>. QED BY <2>1, <2>2, <2>3 DEF Carried
<1>. QED BY <1>1, <1>2, <1>3, <1>4

LEMMA NextQuiet ==
    ASSUME TypeInv, [Next]_pageVars, ~\E f \in DOMAIN draft : Edit(f) PROVE Quiet
PROOF
<1>1. CASE draft' = draft /\ did'.edits = did.edits /\ up' = up
  BY <1>1 DEF Quiet
<1>2. ASSUME NEW forms, Filled(forms), did' = did, up' => up PROVE Quiet
  BY <1>2 DEF Filled, Quiet
<1>3. CASE UNCHANGED pageVars \/ CancelDialog \/ ImpactServed \/ ImpactAnswered
           \/ (\E n \in DOMAIN P.ops : OpenDialog(n))
  BY <1>1, <1>3 DEF pageVars, CancelDialog, ImpactServed, ImpactAnswered, OpenDialog, AskRest
<1>4. CASE (\E n \in DOMAIN P.ops : Click(n)) \/ Confirm
  <2>1. draft' = draft /\ up' = up /\ did' = [did EXCEPT !.clicks = @ + 1]
    BY <1>4 DEF Click, Confirm, Start
  <2>. QED BY <1>1, <2>1 DEF TypeInv, Typed
<1>5. ASSUME NEW c \in calls, HubWrite(c) \/ HubRead(c) \/ HubRefuses(c) \/ Lose(c) \/ Failed(c) \/ FailedReads(c)
      PROVE  Quiet
  <2>1. draft' = draft /\ up' = up /\ (did' = did \/ did' = [did EXCEPT !.faults = @ + 1])
    BY <1>5 DEF HubWrite, HubRead, HubRefuses, HubRest, Lose, Failed, FailedReads
  <2>. QED BY <1>1, <2>1 DEF TypeInv, Typed
<1>6. ASSUME NEW c \in calls, WriteAnswered(c) \/ ReadAnswered(c) PROVE Quiet
  <2>1. (\E forms : Filled(forms)) /\ did' = did
    BY <1>6, WriteShows, ReadShows
  <2>2. up' => up
    BY <1>6 DEF WriteAnswered, ReadAnswered, Ended
  <2>. QED BY <1>2, <2>1, <2>2
<1>. QED BY <1>3, <1>4, <1>5, <1>6 DEF Next, User, Hub, Answer

LEMMA SentEdit ==
    ASSUME TypeInv, P' = P, Sent, NEW f \in DOMAIN draft, Edit(f) PROVE Sent'
PROOF
<1>1. /\ did' = [did EXCEPT !.edits = @ + 1] /\ draft' = [draft EXCEPT ![f] = did'.edits]
      /\ UNCHANGED <<up, calls, spent>>
  BY DEF Edit
<1>2. did.edits \in Nat /\ did'.edits = did.edits + 1
  BY <1>1, PagesBounds DEF TypeInv, Typed
<1>3. /\ DOMAIN draft' = DOMAIN draft /\ draft'[f] = did.edits + 1
      /\ \A g \in DOMAIN draft \ {f} : draft'[g] = draft[g]
  BY <1>1, <1>2
<1>4. /\ \A g \in DOMAIN draft : draft[g] \in Nat
      /\ \A c \in calls : c.draft \in Nat
      /\ \A s \in spent : s \in Nat
  BY PagesBounds DEF TypeInv, Typed, CallOK
<1>5. Drafts'
  BY <1>2, <1>3, <1>4 DEF Sent, Drafts
<1>6. ASSUME NEW c \in calls PROVE Carried(c)'
  BY <1>2, <1>3, <1>4 DEF Sent, Carried
<1>7. ASSUME NEW s \in spent PROVE Accepted(s)'
  BY <1>1, <1>2, <1>3, <1>4 DEF Sent, Accepted
<1>. QED BY <1>1, <1>5, <1>6, <1>7 DEF Sent

LEMMA SentStart ==
    ASSUME TypeInv, P' = P, Quiet, Sent, NEW n \in DOMAIN P.ops, Starts(n) PROVE Sent'
PROOF
<1>1. did \in [clicks : Nat, edits : Nat, faults : Nat] /\ Start(n, P.ops[n])
  BY PagesBounds DEF TypeInv, Typed, Starts
<1>2. PICK d : Started(n, P.ops[n], d)
  BY <1>1, StartIs
<1>3. calls' = calls \cup {d} /\ Of(P, d) = P.ops[n] /\ UNCHANGED <<draft, spent>>
  BY <1>1, <1>2, OfStarted DEF Started, Start
<1>4. P.ops[n].form = "none" \/ P.ops[n].form \in DOMAIN draft
  BY ThisPanelOK DEF TypeInv, Typed, PanelOK, Named
<1>5. P.ops[n].form \in Creating => d.at = "write"
  <2>1. P.ops[n].form \in Creating => P.ops[n].adds # {}
    BY ThisPanelOK DEF TypeInv, Typed, PanelOK, CreatesOnce
  <2>. QED BY <1>2, <2>1 DEF Started, Writes
<1>6. Carried(d)'
  BY <1>2, <1>3, <1>4, <1>5 DEF Sent, Drafts, Carried, Started, Quiet
<1>. QED BY <1>3, <1>6, QuietKeeps DEF Sent

LEMMA SentMoved ==
    ASSUME TypeInv, P' = P, Quiet, Sent, NEW c \in calls, NEW d, Moved(c, d), spent' = spent,
           Of(P, c).form \in Creating /\ d.at \in {"read", "got"} /\ d.ok /\ c.draft # 0 =>
               \/ c.at \in {"read", "got"} /\ c.ok
               \/ Of(P, c).leaves
               \/ draft'[Of(P, c).form] = 0
    PROVE  Sent'
PROOF
<1>1. calls' = (calls \ {c}) \cup {d} /\ Alike(c, d)
  BY DEF Moved
<1>2. Carried(d)'
  BY <1>1, QuietKeeps DEF Sent
<1>. QED BY <1>1, <1>2, QuietKeeps DEF Sent

LEMMA SentLeaves ==
    ASSUME TypeInv, P' = P, Quiet, Sent, NEW c \in calls, NEW S, Leaves(c, S), Ended(c),
           Of(P, c).form \in Creating /\ c.ok /\ c.draft # 0 =>
               \/ c.at = "got"
               \/ Of(P, c).leaves
               \/ draft'[Of(P, c).form] = 0
    PROVE  Sent'
PROOF
<1>1. calls' = (calls \ {c}) \cup S /\ \A d \in S : d.draft = 0
  BY DEF Leaves, Loading
<1>2. \A d \in S : Carried(d)'
  BY <1>1 DEF Carried
<1>3. spent' = (IF c.ok THEN spent \cup {c.draft} ELSE spent) /\ (up' => ~Of(P, c).leaves)
  BY OfIs DEF Ended
<1>4. ASSUME c.ok PROVE Accepted(c.draft)'
  BY <1>3, <1>4 DEF Sent, Carried, Accepted, Quiet
<1>. QED BY <1>1, <1>2, <1>3, <1>4, QuietKeeps DEF Sent

(* The write of a form that creates something clears it, or leaves the page. *)
LEMMA WriteClears ==
    ASSUME TypeInv, NEW c \in calls, WriteAnswered(c), Of(P, c).form \in Creating
    PROVE  Of(P, c).leaves \/ draft'[Of(P, c).form] = 0
PROOF
<1>1. c.op \in DOMAIN P.ops
  BY DEF WriteAnswered, TypeInv, CallOK
<1>2. Of(P, c) = P.ops[c.op]
  BY <1>1 DEF Of
<1>3. Of(P, c).leaves \/ Of(P, c).form \in Of(P, c).fills
  BY <1>1, <1>2, ThisPanelOK DEF TypeInv, Typed, PanelOK, CreatesOnce
<1>4. Of(P, c).form \in DOMAIN draft
  BY <1>1, <1>2, ThisPanelOK DEF TypeInv, Typed, PanelOK, Named, Creating
<1>. QED BY <1>3, <1>4, WriteShows, OfIs DEF Filled

LEMMA SentNext ==
    ASSUME TypeInv, Sent, [Next]_pageVars PROVE Sent'
PROOF
<1>1. P' = P
  BY SamePanel
<1>2. ASSUME NEW f \in DOMAIN draft, Edit(f) PROVE Sent'
  BY <1>1, <1>2, SentEdit
<1>. SUFFICES ASSUME ~\E f \in DOMAIN draft : Edit(f) PROVE Sent'
  BY <1>2
<1>3. Quiet
  BY NextQuiet
<1>4. CASE calls' = calls /\ spent' = spent
  BY <1>1, <1>3, <1>4, QuietKeeps DEF Sent
<1>5. CASE User \/ ImpactServed \/ ImpactAnswered \/ UNCHANGED pageVars
  <2>1. CASE Still
    BY <1>4, <2>1 DEF Still
  <2>. QED BY <1>1, <1>3, <1>5, <2>1, UserIs, SentStart
<1>6. ASSUME NEW c \in calls,
             HubWrite(c) \/ HubRead(c) \/ HubRefuses(c) \/ Lose(c) \/ FailedReads(c)
      PROVE  Sent'
  <2>1. spent' = spent
    BY <1>6, OthersAre
  <2>2. DOMAIN c = Fields
    BY Shaped
  <2>3. CASE HubWrite(c)
    <3>1. PICK d : Moved(c, d) /\ d.at = "wrote"
      BY <2>2, <2>3, HubWriteIs
    <3>. QED BY <1>1, <1>3, <2>1, <3>1, SentMoved
  <2>4. CASE HubRead(c)
    <3>1. PICK d : Moved(c, d) /\ d.ok = c.ok
      BY <2>2, <2>4, HubReadIs
    <3>2. c.at = "read"
      BY <2>4 DEF HubRead
    <3>. QED BY <1>1, <1>3, <2>1, <3>1, <3>2, SentMoved
  <2>5. CASE HubRefuses(c) \/ Lose(c)
    <3>1. PICK d : Moved(c, d) /\ d.at = "failed"
      BY <2>2, <2>5, FailsIs
    <3>. QED BY <1>1, <1>3, <2>1, <3>1, SentMoved
  <2>6. CASE FailedReads(c)
    <3>1. PICK d : Moved(c, d) /\ d.ok = FALSE
      BY <2>2, <2>6, FailedReadsIs
    <3>. QED BY <1>1, <1>3, <2>1, <3>1, SentMoved
  <2>. QED BY <1>6, <2>3, <2>4, <2>5, <2>6
<1>7. ASSUME NEW c \in calls, WriteAnswered(c), Op(c).reads # {} PROVE Sent'
  <2>1. PICK d : Moved(c, d)
    BY <1>7, Shaped, WriteReadsIs
  <2>2. spent' = spent
    BY <1>7 DEF WriteAnswered
  <2>. QED BY <1>1, <1>3, <1>7, <2>1, <2>2, SentMoved, WriteClears
<1>8. ASSUME NEW c \in calls, (WriteAnswered(c) /\ Op(c).reads = {}) \/ ReadAnswered(c) PROVE Sent'
  <2>1. PICK S : Ended(c) /\ Leaves(c, S)
    BY <1>8, EndedIs
  <2>2. c.at = "got" \/ WriteAnswered(c)
    BY <1>8 DEF ReadAnswered
  <2>. QED BY <1>1, <1>3, <2>1, <2>2, SentLeaves, WriteClears
<1>9. ASSUME NEW c \in calls, Failed(c) PROVE Sent'
  <2>1. calls' \subseteq calls /\ spent' = spent
    BY <1>9 DEF Failed, Without
  <2>. QED BY <1>1, <1>3, <2>1, QuietKeeps DEF Sent
<1>. QED BY <1>5, <1>6, <1>7, <1>8, <1>9 DEF Next, Hub, Answer

LEMMA SentInit == Init => Sent
PROOF
<1>. SUFFICES ASSUME Init PROVE Sent
  OBVIOUS
<1>1. draft = [f \in DOMAIN P.forms |-> 0] /\ did.edits = 0 /\ spent = {}
  BY DEF Init
<1>2. ASSUME NEW c \in calls PROVE c.draft = 0
  <2>1. c = FirstLoad(P.loads)
    BY DEF Init
  <2>. QED BY <2>1, FirstLoadIs
<1>. QED BY <1>1, <1>2 DEF Sent, Drafts, Carried

(* Whatever the user clicks and whatever fails: no second click sends again what a form that   *)
(* creates something holds, while the first is on its way or after it has been accepted.       *)
THEOREM CreatedOnce == Spec => SubmittedOnce
PROOF
<1>1. ASSUME HandInv, Sent, [Next]_pageVars, NEW d \in calls' \ calls,
             d.id \notin {e.id : e \in calls}, d.draft # 0, Op(d).form \in Creating
      PROVE  d.draft \notin spent \cup {e.draft : e \in calls}
  <2>1. TypeInv /\ Locked /\ CreatesOnce(P)
    BY <1>1, ThisPanelOK DEF HandInv, TypeInv, Typed, PanelOK
  <2>2. (\E n \in DOMAIN P.ops : Click(n)) \/ Confirm
    BY <1>1, <2>1, OnlyStarts
  <2>3. PICK n \in DOMAIN P.ops : Enabled(P.ops[n]) /\ Start(n, P.ops[n])
    BY <2>1, <2>2 DEF Click, Confirm, TypeInv, Typed, Dialog
  <2>4. Started(n, P.ops[n], d) /\ Op(d) = P.ops[n]
    BY <1>1, <2>1, <2>3, StartAdds
  <2>5. P.ops[n].form \in DOMAIN draft /\ d.draft = draft[P.ops[n].form]
    BY <1>1, <2>1, <2>4, ThisPanelOK DEF TypeInv, Typed, PanelOK, Named, Creating, Started
  <2>6. d.draft \notin spent
    BY <1>1, <2>3, <2>4, <2>5 DEF Sent, Accepted, Enabled
  <2>7. ASSUME NEW e \in calls, e.draft = d.draft PROVE FALSE
    <3>1. Of(P, e).form = P.ops[n].form
      BY <1>1, <2>5, <2>7 DEF Sent, Carried
    <3>2. e.op \in DOMAIN P.ops /\ Of(P, e) = P.ops[e.op]
      BY <1>1, <2>4, <3>1, PlainFields DEF Of, Creating
    <3>3. PICK f \in P.ops[n].busy : Exclusive(P, f) /\ f \in Of(P, e).busy
      BY <1>1, <2>1, <2>4, <3>1, <3>2 DEF CreatesOnce
    <3>4. f \in busy /\ f \in P.ops[n].off
      BY <2>1, <3>3 DEF Locked, Exclusive
    <3>. QED BY <2>3, <3>4 DEF Enabled
  <2>. QED BY <2>6, <2>7
<1>2. HandInv /\ Sent /\ [Next]_pageVars =>
          [\A c \in calls' \ calls : c.id \notin {d.id : d \in calls} /\ c.draft # 0 /\ Op(c).form \in Creating =>
               c.draft \notin spent \cup {d.draft : d \in calls}]_pageVars
  BY <1>1
<1>3. HandInv /\ Sent /\ [Next]_pageVars => Sent'
  BY SentNext DEF HandInv
<1>. QED BY <1>2, <1>3, HandInit, HandNext, SentInit, PTL DEF Spec, SubmittedOnce

-----------------------------------------------------------------------------
(* As long as nothing fails and no answer overtakes another, every change the hub holds is in *)
(* the view, or some handler in flight is going to bring it; an object that has been deleted   *)
(* has a handler in flight that leaves its page.                                               *)

Brings(c, r, e) ==
    \/ /\ c.at = "wrote"
       /\ \/ r \in Of(P, c).shows /\ e \in c.ans[r]
          \/ r \notin Of(P, c).shows /\ r \in Of(P, c).marks /\ e = c.id
          \/ r \in Of(P, c).reads \cup Of(P, c).also
    \/ c.at = "read" /\ r \in c.rs \cup Of(P, c).also
    \/ c.at = "got" /\ ((r \in c.rs /\ e \in c.ans[r]) \/ r \in Of(P, c).also)
Seen(r, e) == e \in shown[r] \/ \E c \in calls : Brings(c, r, e)
Smooth == up /\ did.faults = 0 /\ ~back /\ ~gone
Coming == Smooth => \A r \in P.loads : \A e \in hub[r] : Seen(r, e)
Leaving(c) == /\ Of(P, c).removes /\ c.at \in {"wrote", "read", "got"}
              /\ c.at = "read" => "item" \notin c.rs
Departing == up /\ did.faults = 0 /\ gone => \E c \in calls : Leaving(c)

LEMMA OnlyWorse ==
    ASSUME TypeInv, [Next]_pageVars
    PROVE  /\ up' => up
           /\ ~back' => ~back
           /\ ~gone' => ~gone
           /\ did'.faults = 0 => did.faults = 0
PROOF
<1>0. did.faults \in Nat
  BY DEF TypeInv, Typed
<1>1. CASE User \/ ImpactServed \/ ImpactAnswered \/ UNCHANGED pageVars
  <2>1. CASE Still
    BY <2>1 DEF Still
  <2>2. ASSUME NEW n \in DOMAIN P.ops, Starts(n) PROVE UNCHANGED <<up, back, gone>> /\ did'.faults = did.faults
    BY <2>2, PagesBounds, StartIs DEF Starts, Start, TypeInv, Typed
  <2>. QED BY <1>1, <2>1, <2>2, UserIs
<1>2. CASE \E c \in calls : HubWrite(c) \/ HubRead(c) \/ HubRefuses(c) \/ Failed(c) \/ FailedReads(c)
  BY <1>2 DEF HubWrite, HubRead, HubRefuses, HubRest, Failed, FailedReads
<1>3. ASSUME NEW c \in calls, Lose(c) PROVE UNCHANGED <<up, back, gone>> /\ did'.faults = did.faults + 1
  BY <1>3 DEF Lose, TypeInv, Typed
<1>4. ASSUME NEW c \in calls, WriteAnswered(c) \/ ReadAnswered(c)
      PROVE  (up' => up) /\ (~back' => ~back) /\ gone' = gone /\ did' = did
  <2>1. up' => up
    BY <1>4 DEF WriteAnswered, ReadAnswered, Ended
  <2>. QED BY <1>4, <2>1, WriteShows, ReadShows
<1>. QED BY <1>0, <1>1, <1>2, <1>3, <1>4 DEF Next, Hub, Answer

(* One handler goes on: what it was to bring it has brought, or still brings. *)
LEMMA SeenKeeps ==
    ASSUME NEW r, NEW e, Seen(r, e), NEW c \in calls, calls \ {c} \subseteq calls',
           e \in shown[r] => e \in shown'[r],
           Brings(c, r, e) => e \in shown'[r] \/ \E d \in calls' : Brings(d, r, e)
    PROVE  e \in shown'[r] \/ \E d \in calls' : Brings(d, r, e)
  BY DEF Seen

LEMMA ComingSame ==
    ASSUME P' = P, Coming, Smooth' => Smooth, hub' = hub, shown' = shown, calls \subseteq calls'
    PROVE  Coming'
PROOF
<1>1. \A r, e : Seen(r, e) => Seen(r, e)'
  <2>. SUFFICES ASSUME NEW r, NEW e, Seen(r, e) PROVE Seen(r, e)'
    OBVIOUS
  <2>1. \A c : Brings(c, r, e) <=> Brings(c, r, e)'
    BY DEF Brings
  <2>. QED BY <2>1 DEF Seen
<1>. QED BY <1>1 DEF Coming

LEMMA BringsSame == ASSUME P' = P, NEW c, NEW r, NEW e PROVE Brings(c, r, e)' <=> Brings(c, r, e)
  BY DEF Brings

LEMMA ComingWrite ==
    ASSUME TypeInv, P' = P, Coming, Smooth' => Smooth, NEW c \in calls, HubWrite(c)
    PROVE  Coming'
PROOF
<1>. SUFFICES ASSUME Smooth, NEW r \in P.loads, NEW e \in hub'[r]
              PROVE  e \in shown'[r] \/ \E d \in calls' : Brings(d, r, e)
  BY BringsSame DEF Coming, Seen
<1>1. PICK d : Moved(c, d) /\ d.at = "wrote" /\ d.ans = [q \in Op(c).shows |-> hub'[q]]
  BY Shaped, HubWriteIs
<1>2. d \in calls' /\ calls \ {c} \subseteq calls' /\ Of(P, d) = Of(P, c) /\ d.id = c.id
  BY <1>1, OfAlike DEF Moved, Alike
<1>3. shown' = shown /\ c.at = "write" /\ r \in Resources(P)
  BY OthersAre DEF HubWrite, Resources
<1>4. hub'[r] = Written(c, r)
  BY <1>3, HubIs
<1>5. /\ r \in Of(P, c).puts => r \in Of(P, c).shows
      /\ r \in Of(P, c).adds => r \in Of(P, c).shows \cup Of(P, c).marks \cup Of(P, c).reads \cup Of(P, c).also
  BY ThisPanelOK, PlainFields DEF TypeInv, Typed, PanelOK, Refreshes, Of
<1>6. CASE r \in Of(P, c).shows
  BY <1>1, <1>2, <1>6, OfIs DEF Brings
<1>7. CASE r \notin Of(P, c).shows /\ e \in hub[r]
  <2>1. Seen(r, e)
    BY <1>7 DEF Coming
  <2>2. ~Brings(c, r, e)
    BY <1>3 DEF Brings
  <2>. QED BY <1>2, <1>3, <2>1, <2>2, SeenKeeps
<1>8. CASE r \notin Of(P, c).shows /\ e \notin hub[r]
  <2>1. r \in Of(P, c).adds /\ e = c.id
    BY <1>4, <1>5, <1>8, OfIs DEF Written
  <2>. QED BY <1>1, <1>2, <1>5, <1>8, <2>1 DEF Brings
<1>. QED BY <1>6, <1>7, <1>8

LEMMA ComingRead ==
    ASSUME TypeInv, P' = P, Coming, Smooth' => Smooth, NEW c \in calls, HubRead(c)
    PROVE  Coming'
PROOF
<1>. SUFFICES ASSUME Smooth, NEW r \in P.loads, NEW e \in hub'[r]
              PROVE  e \in shown'[r] \/ \E d \in calls' : Brings(d, r, e)
  BY BringsSame DEF Coming, Seen
<1>1. PICK d : Moved(c, d) /\ d.at = "got" /\ d.rs = c.rs /\ d.ans = [q \in c.rs |-> hub[q]]
  BY Shaped, HubReadIs
<1>2. d \in calls' /\ calls \ {c} \subseteq calls' /\ Of(P, d) = Of(P, c)
  BY <1>1, OfAlike DEF Moved
<1>3. shown' = shown /\ c.at = "read" /\ hub' = hub
  BY OthersAre DEF HubRead
<1>4. Brings(c, r, e) => Brings(d, r, e)
  BY <1>1, <1>2, <1>3 DEF Brings
<1>5. Seen(r, e)
  BY <1>3 DEF Coming
<1>. QED BY <1>2, <1>3, <1>4, <1>5, SeenKeeps

LEMMA ComingWriteReads ==
    ASSUME TypeInv, P' = P, Coming, Smooth' => Smooth, NEW c \in calls, WriteAnswered(c), Op(c).reads # {}
    PROVE  Coming'
PROOF
<1>. SUFFICES ASSUME Smooth', Smooth, NEW r \in P.loads, NEW e \in hub'[r]
              PROVE  e \in shown'[r] \/ \E d \in calls' : Brings(d, r, e)
  BY BringsSame DEF Coming, Seen
<1>1. PICK d : Moved(c, d) /\ d.at = "read" /\ d.rs = Op(c).reads
  BY Shaped, WriteReadsIs
<1>2. d \in calls' /\ calls \ {c} \subseteq calls' /\ Of(P, d) = Of(P, c)
  BY <1>1, OfAlike DEF Moved
<1>3. r \in Resources(P)
  BY DEF Resources
<1>4. /\ shown[r] \cap hub[r] \subseteq shown'[r] /\ hub' = hub /\ c.at = "wrote"
      /\ shown'[r] = IF r \in Of(P, c).shows THEN c.ans[r]
                     ELSE IF r \in Of(P, c).marks THEN shown[r] \cup {c.id}
                     ELSE IF r \in Of(P, c).keeps THEN c.base[r] ELSE shown[r]
  BY <1>3, WriteShows, OfIs DEF Smooth
<1>5. Brings(c, r, e) => e \in shown'[r] \/ Brings(d, r, e)
  BY <1>1, <1>2, <1>4, OfIs DEF Brings
<1>6. Seen(r, e)
  BY <1>4 DEF Coming
<1>. QED BY <1>2, <1>4, <1>5, <1>6, SeenKeeps

LEMMA ComingEnded ==
    ASSUME TypeInv, P' = P, Coming, Smooth' => Smooth, NEW c \in calls,
           (WriteAnswered(c) /\ Op(c).reads = {}) \/ ReadAnswered(c)
    PROVE  Coming'
PROOF
<1>. SUFFICES ASSUME Smooth', Smooth, NEW r \in P.loads, NEW e \in hub'[r]
              PROVE  e \in shown'[r] \/ \E d \in calls' : Brings(d, r, e)
  BY BringsSame DEF Coming, Seen
<1>1. PICK S : Leaves(c, S)
  BY EndedIs
<1>2. calls \ {c} \subseteq calls' /\ (r \in Of(P, c).also => \E d \in calls' : Brings(d, r, e))
  BY <1>1, OfIs DEF Leaves, Loading, Brings
<1>3. r \in Resources(P)
  BY DEF Resources
<1>4. shown[r] \cap hub[r] \subseteq shown'[r] /\ hub' = hub
  BY <1>3, WriteShows, ReadShows DEF Smooth
<1>5. Brings(c, r, e) => e \in shown'[r] \/ r \in Of(P, c).also
  <2>1. CASE WriteAnswered(c) /\ Op(c).reads = {}
    BY <1>3, <2>1, WriteShows, OfIs DEF Brings, Smooth
  <2>2. CASE ReadAnswered(c)
    BY <1>3, <2>2, ReadShows DEF Brings, Smooth
  <2>. QED BY <2>1, <2>2
<1>6. Seen(r, e)
  BY <1>4 DEF Coming
<1>. QED BY <1>2, <1>4, <1>5, <1>6, SeenKeeps

LEMMA ComingNext ==
    ASSUME TypeInv, Coming, [Next]_pageVars PROVE Coming'
PROOF
<1>1. P' = P /\ (Smooth' => Smooth)
  BY SamePanel, OnlyWorse DEF Smooth
<1>2. CASE User \/ ImpactServed \/ ImpactAnswered \/ UNCHANGED pageVars
  <2>1. CASE Still
    BY <1>1, <2>1, ComingSame DEF Still
  <2>2. ASSUME NEW n \in DOMAIN P.ops, Starts(n) PROVE Coming'
    <3>1. UNCHANGED <<hub, shown>> /\ calls \subseteq calls'
      BY <2>2 DEF Starts, Start
    <3>. QED BY <1>1, <3>1, ComingSame
  <2>. QED BY <1>2, <2>1, <2>2, UserIs
<1>3. ASSUME NEW c \in calls, HubRefuses(c) \/ Lose(c) PROVE Coming'
  <2>1. did'.faults # 0 \/ gone'
    BY <1>3 DEF HubRefuses, Lose, TypeInv, Typed
  <2>. QED BY <2>1 DEF Coming, Smooth
<1>4. ASSUME NEW c \in calls, Failed(c) \/ FailedReads(c) PROVE Coming'
  <2>1. UNCHANGED <<hub, shown>> /\ calls \ {c} \subseteq calls' /\ c.at = "failed"
    BY <1>4 DEF Failed, FailedReads, Becomes, Without
  <2>2. \A r, e : ~Brings(c, r, e)
    BY <2>1 DEF Brings
  <2>3. \A r, e : Seen(r, e) => Seen(r, e)'
    BY <1>1, <2>1, <2>2, BringsSame DEF Seen
  <2>. QED BY <1>1, <2>1, <2>3 DEF Coming
<1>. QED BY <1>1, <1>2, <1>3, <1>4, ComingWrite, ComingRead, ComingWriteReads, ComingEnded
         DEF Next, Hub, Answer

LEMMA DepartingMoved ==
    ASSUME P' = P, Departing, (up' => up) /\ (did'.faults = 0 => did.faults = 0), gone' = gone,
           NEW c \in calls, NEW d, Moved(c, d), did'.faults = 0 /\ Leaving(c) => Leaving(d)
    PROVE  Departing'
PROOF
<1>1. calls' = (calls \ {c}) \cup {d}
  BY DEF Moved
<1>2. \A e : Leaving(e)' <=> Leaving(e)
  BY DEF Leaving
<1>. QED BY <1>1, <1>2 DEF Departing

LEMMA DepartingNext ==
    ASSUME TypeInv, Departing, [Next]_pageVars PROVE Departing'
PROOF
<1>1. /\ P' = P
      /\ (up' => up) /\ (did'.faults = 0 => did.faults = 0)
  BY SamePanel, OnlyWorse
<1>2. \A e : Leaving(e)' <=> Leaving(e)
  BY <1>1 DEF Leaving
<1>3. \A c : Of(P, c).removes => Of(P, c).leaves /\ "item" \notin Of(P, c).reads
  BY ThisPanelOK, PlainFields DEF TypeInv, Typed, PanelOK, Removes, Of
<1>4. CASE User \/ ImpactServed \/ ImpactAnswered \/ UNCHANGED pageVars
  <2>1. CASE Still
    BY <1>1, <1>2, <2>1 DEF Still, Departing
  <2>2. ASSUME NEW n \in DOMAIN P.ops, Starts(n) PROVE Departing'
    <3>1. calls \subseteq calls' /\ gone' = gone
      BY <2>2 DEF Starts, Start
    <3>. QED BY <1>1, <1>2, <3>1 DEF Departing
  <2>. QED BY <1>4, <2>1, <2>2, UserIs
<1>5. ASSUME NEW c \in calls, HubWrite(c) PROVE Departing'
  <2>1. PICK d : Moved(c, d) /\ d.at = "wrote"
    BY <1>5, Shaped, HubWriteIs
  <2>2. gone' = Of(P, c).removes /\ d \in calls' /\ Of(P, d) = Of(P, c)
    BY <1>5, <2>1, OfIs, OfAlike DEF HubWrite, Moved
  <2>3. gone' => Leaving(d)
    BY <2>1, <2>2 DEF Leaving
  <2>. QED BY <1>2, <2>2, <2>3 DEF Departing
<1>6. ASSUME NEW c \in calls, HubRead(c) PROVE Departing'
  <2>1. PICK d : Moved(c, d) /\ d.at = "got"
    BY <1>6, Shaped, HubReadIs
  <2>2. gone' = gone /\ (Leaving(c) => Leaving(d))
    BY <1>6, <2>1, OfAlike DEF HubRead, Moved, Leaving
  <2>. QED BY <1>1, <1>6, <2>1, <2>2, DepartingMoved
<1>7. ASSUME NEW c \in calls, HubRefuses(c) PROVE Departing'
  <2>1. PICK d : Moved(c, d)
    BY <1>7, Shaped, FailsIs
  <2>2. gone' = gone /\ ~Leaving(c)
    BY <1>7 DEF HubRefuses, Leaving
  <2>. QED BY <1>1, <2>1, <2>2, DepartingMoved
<1>8. ASSUME NEW c \in calls, Lose(c) PROVE Departing'
  <2>1. did'.faults # 0
    BY <1>8 DEF Lose, TypeInv, Typed
  <2>. QED BY <2>1 DEF Departing
<1>9. ASSUME NEW c \in calls, WriteAnswered(c), Op(c).reads # {} PROVE Departing'
  <2>1. PICK d : Moved(c, d) /\ d.at = "read" /\ d.rs = Op(c).reads
    BY <1>9, Shaped, WriteReadsIs
  <2>2. gone' = gone /\ (Leaving(c) => Leaving(d))
    BY <1>3, <1>9, <2>1, OfIs, OfAlike DEF WriteAnswered, Moved, Leaving
  <2>. QED BY <1>1, <2>1, <2>2, DepartingMoved
<1>10. ASSUME NEW c \in calls, (WriteAnswered(c) /\ Op(c).reads = {}) \/ ReadAnswered(c)
       PROVE  Departing'
  <2>1. PICK S : Ended(c) /\ Leaves(c, S)
    BY <1>10, EndedIs
  <2>2. calls \ {c} \subseteq calls' /\ (Leaving(c) => ~up') /\ gone' = gone
    BY <1>3, <1>10, <2>1, OfIs DEF Leaves, Leaving, Ended, WriteAnswered, ReadAnswered
  <2>. QED BY <1>1, <1>2, <2>2 DEF Departing
<1>11. ASSUME NEW c \in calls, Failed(c) \/ FailedReads(c) PROVE Departing'
  <2>1. calls \ {c} \subseteq calls' /\ ~Leaving(c) /\ gone' = gone
    BY <1>11 DEF Failed, FailedReads, Becomes, Without, Leaving
  <2>. QED BY <1>1, <1>2, <2>1 DEF Departing
<1>. QED BY <1>4, <1>5, <1>6, <1>7, <1>8, <1>9, <1>10, <1>11 DEF Next, Hub, Answer

(* Whatever the page and however many handlers run at once: when everything has been answered, *)
(* nothing has failed and no answer has overtaken another, the page shows what its user did.    *)
THEOREM NothingForgotten == Spec => []OwnEditsShown
PROOF
<1>1. Init => Coming /\ Departing
  <2>. SUFFICES ASSUME Init PROVE Coming /\ Departing
    OBVIOUS
  <2>1. \A r \in P.loads : hub[r] = {}
    BY DEF Init, Resources
  <2>. QED BY <2>1 DEF Init, Coming, Departing
<1>2. HandInv /\ Coming /\ Departing /\ [Next]_pageVars => Coming' /\ Departing'
  BY ComingNext, DepartingNext DEF HandInv
<1>3. HandInv /\ Coming /\ Departing => OwnEditsShown
  <2>. SUFFICES ASSUME HandInv, Coming, Departing, up, calls = {}, did.faults = 0, ~back
                PROVE  \A r \in P.loads : told[r] \cap hub[r] \subseteq shown[r]
    BY DEF OwnEditsShown
  <2>1. ~gone
    BY DEF Departing
  <2>. QED BY <2>1 DEF Coming, Smooth, Seen
<1>. QED BY <1>1, <1>2, <1>3, HandInit, HandNext, PTL DEF Spec

==============================================================================
