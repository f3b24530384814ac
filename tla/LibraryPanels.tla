---------------------------- MODULE LibraryPanels -----------------------------
(* The pages of the library, in the vocabulary of PanelOps: what each button    *)
(* does.  "item" is the object of the page; conditions on its data (hidden or   *)
(* not, a list that is empty) are left open.                                    *)
EXTENDS PanelOps

(* Transcript: TranscriptPage *)
TranscriptLoad == {"item", "skills", "tags"}
TranscriptHide == [Plain EXCEPT !.adds = {"item"}, !.reads = TranscriptLoad]
TranscriptRename == [Plain EXCEPT !.who = Managers, !.off = {"busy"},
    !.busy = {"busy"}, !.adds = {"item"}, !.shows = {"item", "tags"}]
TranscriptDelete == [Plain EXCEPT !.who = Managers, !.off = {"impact"},
    !.busy = {"busy", "impact"}, !.asks = TRUE, !.leaves = TRUE, !.removes = TRUE]
TranscriptSummarize == [Plain EXCEPT !.off = {"busy"}, !.busy = {"busy"}, !.adds = {"tasks"},
    !.leaves = TRUE]
\* the share dialog (a panel of its own) is closed: the page loads again
TranscriptShared == [Plain EXCEPT !.who = {"owner"}, !.reads = TranscriptLoad]
TranscriptPage ==
    [roles |-> Role, loads |-> TranscriptLoad, forms |-> NoForms,
     ops |-> [hide |-> TranscriptHide, rename |-> TranscriptRename, delete |-> TranscriptDelete,
              summarize |-> TranscriptSummarize, share |-> TranscriptShared]]

(* Summary: SummaryPage *)
SummaryLoad == {"item", "tags"}
SummarySave == [Plain EXCEPT !.who = Managers, !.off = {"busy"},
    !.busy = {"busy"}, !.form = "body", !.adds = {"item"}, !.shows = SummaryLoad, !.fills = {"body"}]
SummaryHide == [Plain EXCEPT !.adds = {"item"}, !.reads = SummaryLoad]
SummaryRename == [TranscriptRename EXCEPT !.shows = SummaryLoad]
SummaryDelete == [TranscriptDelete EXCEPT !.leaves = TRUE]
SummaryShared == [Plain EXCEPT !.who = {"owner"}, !.reads = SummaryLoad]
SummaryPage ==
    [roles |-> Role, loads |-> SummaryLoad, forms |-> [body |-> Form("item", {})],
     ops |-> [save |-> SummarySave, hide |-> SummaryHide, rename |-> SummaryRename,
              delete |-> SummaryDelete, share |-> SummaryShared]]

(* Audio: AudioPage *)
AudioLoad == {"item", "tags"}
AudioTranscribe == [Plain EXCEPT !.off = {"busy"}, !.busy = {"busy"}, !.adds = {"tasks"},
    !.leaves = TRUE]
AudioHide == [Plain EXCEPT !.adds = {"item"}, !.reads = AudioLoad]
\* the session is refreshed (the storage quota) before the page is left
AudioDelete == [TranscriptDelete EXCEPT !.reads = {"me"}]
AudioShared == [Plain EXCEPT !.who = {"owner"}, !.reads = AudioLoad]
AudioPage ==
    [roles |-> Role, loads |-> AudioLoad, forms |-> NoForms,
     ops |-> [transcribe |-> AudioTranscribe, hide |-> AudioHide, delete |-> AudioDelete,
              share |-> AudioShared]]

(* Skill: SkillPage, SkillCreatePage.  The owner sees a skill of his own, the   *)
(* admin one of the organization, the reader one that is shared with him.       *)
SkillSave == [Plain EXCEPT !.who = Managers, !.off = {"busy"},
    !.busy = {"busy"}, !.form = "body", !.puts = {"item"}, !.shows = {"item"}, !.fills = {"body"}]
SkillRename == [SkillSave EXCEPT !.who = {"owner"}, !.form = "none", !.fills = {}]
SkillRemove == [Plain EXCEPT !.who = Managers, !.removes = TRUE, !.leaves = TRUE]
SkillCopy == [Plain EXCEPT !.adds = {"skills"}, !.leaves = TRUE]
SkillDecline == [Plain EXCEPT !.who = {"reader"}, !.off = {"busy"},
    !.busy = {"busy"}, !.removes = TRUE, !.leaves = TRUE]
SkillShared == [Plain EXCEPT !.who = {"owner"}, !.reads = {"item"}]
SkillLoad == {"item"}
SkillPage ==
    [roles |-> Role, loads |-> SkillLoad, forms |-> [body |-> Form("item", {})],
     ops |-> [save |-> SkillSave, rename |-> SkillRename, remove |-> SkillRemove,
              copy |-> SkillCopy, decline |-> SkillDecline, share |-> SkillShared]]
SkillCreatePage ==
    [roles |-> Role, loads |-> {}, forms |-> [new |-> Form("none", {"busy"})],
     ops |-> [create |-> [Plain EXCEPT !.off = {"busy"}, !.busy = {"busy"}, !.form = "new",
                          !.adds = {"skills"}, !.leaves = TRUE]]]

(* ShareDialog, of an object the user owns *)
ShareLoad == {"users", "shares", "link"}
ShareSubmit == [Plain EXCEPT !.off = {"busy"}, !.busy = {"busy"}, !.form = "picked",
    !.adds = {"shares"}, !.reads = {"shares"}, !.fills = {"picked"}]
\* the row is taken out of the list; another row can be revoked meanwhile
ShareRevoke == [Plain EXCEPT !.busy = {"revoking"}, !.adds = {"shares"}, !.marks = {"shares"}]
LinkCreate == [Plain EXCEPT !.off = {"publicBusy"}, !.busy = {"publicBusy"}, !.adds = {"link"},
    !.shows = {"link"}, !.fills = {"pin"}]
LinkRevoke == [LinkCreate EXCEPT !.shows = {}, !.marks = {"link"}]
ShareDialog ==
    [roles |-> {"owner"}, loads |-> ShareLoad,
     forms |-> [picked |-> Form("none", {}), pin |-> Form("none", {})],
     ops |-> [submit |-> ShareSubmit, revoke |-> ShareRevoke, create |-> LinkCreate,
              revokeLink |-> LinkRevoke]]

(* UserTagsEditor on a page: the whole list is written, and the page takes it   *)
(* over with setItem({...item, user_tags})                                      *)
MutTagsSave == [Plain EXCEPT !.busy = {"tagsBusy"}, !.puts = {"tags"}, !.shows = {"tags"},
    !.keeps = {"item"}, !.reads = {"catalog"}]
TagsSave == [Plain EXCEPT !.off = {"tagsBusy"}, !.busy = {"tagsBusy"}, !.puts = {"tags"},
    !.shows = {"tags"}, !.keeps = {"item"}, !.reads = {"catalog"}]
TagsPanel ==
    [roles |-> Role, loads |-> {"item", "tags", "catalog"}, forms |-> NoForms,
     ops |-> [add |-> TagsSave, remove |-> TagsSave, rename |-> TranscriptRename]]

(* TagManageDialog, LibraryLinksTab, LibrarySkillsTab, PublicSummaryPage *)
TagRename == [Plain EXCEPT !.off = {"busy"}, !.busy = {"busy"}, !.form = "name",
    !.adds = {"catalog"}, !.fills = {"name"}, !.reads = {"catalog"}, !.also = {"userTags"}]
TagDelete == [Plain EXCEPT !.off = {"busy"}, !.busy = {"busy"}, !.adds = {"catalog"},
    !.reads = {"catalog"}, !.also = {"userTags"}]
TagDialogLoad == {"catalog"}
TagManageDialog ==
    [roles |-> Role, loads |-> TagDialogLoad, forms |-> [name |-> Form("none", {"busy"})],
     ops |-> [rename |-> TagRename, delete |-> TagDelete]]
LinksRevoke == [Plain EXCEPT !.busy = {"revoking"}, !.adds = {"links"}, !.reads = {"links"}]
LibraryLinksTab ==
    [roles |-> Managers, loads |-> {"links"}, forms |-> NoForms, ops |-> [revoke |-> LinksRevoke]]
SkillsDecline == [Plain EXCEPT !.busy = {"declining"}, !.adds = {"skills"}, !.reads = {"skills"}]
LibrarySkillsTab ==
    [roles |-> Role, loads |-> {"skills"}, forms |-> NoForms, ops |-> [decline |-> SkillsDecline]]
PublicUnlock == [Plain EXCEPT !.busy = {"busy"}, !.off = {"busy"}, !.form = "pin",
    !.shows = {"item"}]
PublicSummaryPage ==
    [roles |-> {"reader"}, loads |-> {"item"}, forms |-> [pin |-> Form("none", {})],
     ops |-> [unlock |-> PublicUnlock]]
=============================================================================
