---------------------------- MODULE ProfilePanels -----------------------------
(* The profile page (useProfilePageModel and its tabs), in the vocabulary of    *)
(* PanelOps: most saves patch the account and then refresh the session, whose   *)
(* effect fills every form of the page again.                                   *)
EXTENDS PanelOps

Owners == {"owner"}
ForOwner == [Plain EXCEPT !.who = Owners]

MeForm == Form("me", {})
TokensLoad == {"tokens"}
SaveMe(f) == [ForOwner EXCEPT !.form = f, !.adds = {"me"}, !.reads = {"me"}]
SaveRoute == SaveMe("route")
SaveDateTime == SaveMe("dateTime")
SaveTranscribe == SaveMe("transcribe")
SaveSummarize == SaveMe("summarize")
SaveNames == SaveMe("names")
SaveBotName == SaveMe("botName")
ChangePw == [ForOwner EXCEPT !.form = "password", !.adds = {"me"}, !.fills = {"password"},
    !.reads = {"me"}]
MutTokenCreate == [ForOwner EXCEPT !.form = "token", !.adds = {"tokens"}, !.fills = {"token"},
    !.reads = {"tokens"}]
TokenCreate == [ForOwner EXCEPT !.off = {"creating"}, !.busy = {"creating"}, !.form = "token",
    !.adds = {"tokens"}, !.fills = {"token"}, !.reads = {"tokens"}]
TokenRevoke == [ForOwner EXCEPT !.adds = {"tokens"}, !.reads = {"tokens"}]
MfaDisable == [ForOwner EXCEPT !.off = {"mfaBusy"}, !.busy = {"mfaBusy"}, !.form = "mfa",
    !.fills = {"mfa"}, !.leaves = TRUE]
\* its dialog loads the preview once and asks for the password
AccountDelete == [ForOwner EXCEPT !.form = "delete", !.off = {"deleteBusy"},
    !.busy = {"deleteBusy"}, !.leaves = TRUE, !.removes = TRUE]
BackupRestore == [ForOwner EXCEPT !.off = {"restoring"}, !.busy = {"restoring"},
    !.adds = {"library"}]
BackupDownload == [ForOwner EXCEPT !.off = {"backing"}, !.busy = {"backing"}]
ShellPrefs == [ForOwner EXCEPT !.off = {"busy"}, !.busy = {"busy"}, !.adds = {"me"},
    !.reads = {"me"}]

ProfileGeneralTab == [route |-> SaveRoute, dateTime |-> SaveDateTime, shell |-> ShellPrefs]
ProfileModelsTab ==
    [transcribe |-> SaveTranscribe, summarize |-> SaveSummarize, botName |-> SaveBotName]
ProfileSecurityTab == [password |-> ChangePw, mfa |-> MfaDisable]
ProfileDataTab ==
    [create |-> TokenCreate, revoke |-> TokenRevoke, restore |-> BackupRestore,
     backup |-> BackupDownload]
ProfileDeleteModal == [delete |-> AccountDelete]
ProfileForms ==
    [f \in {"route", "dateTime", "transcribe", "summarize", "names", "botName"} |-> MeForm]
    ++ [password |-> Form("none", {}), token |-> Form("none", {}), mfa |-> Form("none", {}),
        delete |-> Form("none", {})]
ProfilePage ==
    [roles |-> Owners, loads |-> TokensLoad \cup {"me"}, forms |-> ProfileForms,
     ops |-> [names |-> SaveNames] ++ ProfileGeneralTab ++ ProfileModelsTab
             ++ ProfileSecurityTab ++ ProfileDataTab ++ ProfileDeleteModal]
=============================================================================
