----------------------------- MODULE AdminPanels ------------------------------
(* The tabs of the instance administrator and the page of an organization, in   *)
(* the vocabulary of PanelOps.                                                  *)
EXTENDS PanelOps

Admins == {"admin"}
ForAdmins == [Plain EXCEPT !.who = Admins]

(* InstanceSettingsTab: one form, saved whole *)
SettingsLoad == {"settings"}
SettingsSave == [ForAdmins EXCEPT !.off = {"saveBusy"}, !.busy = {"saveBusy"},
    !.form = "settings", !.puts = {"settings"}, !.shows = {"settings"}, !.fills = {"settings"},
    !.reads = {"me"}]
SmtpTest == [ForAdmins EXCEPT !.off = {"smtpTesting"}, !.busy = {"smtpTesting"}]
\* the answer is put beside the settings as they were at the click
TelegramTest == [ForAdmins EXCEPT !.off = {"telegramTesting"}, !.busy = {"telegramTesting"},
    !.keeps = {"settings"}]
InstanceSettingsTab ==
    [roles |-> Admins, loads |-> SettingsLoad, forms |-> [settings |-> Form("settings", {})],
     ops |-> [save |-> SettingsSave, smtp |-> SmtpTest, telegram |-> TelegramTest]]

(* InstanceWorkersTab, WorkerImpactModal *)
WorkersLoad == {"workers"}
WorkerProbe == [ForAdmins EXCEPT !.off = {"probing"}, !.busy = {"probing"}]
WorkerCreate == [ForAdmins EXCEPT !.form = "worker", !.adds = {"workers"}, !.reads = {"workers"},
    !.fills = {"worker"}]
MutWorkerChange == [WorkerCreate EXCEPT !.asks = TRUE, !.off = {"impact"}, !.busy = {"impact"},
    !.stays = TRUE, !.reads = {}]
WorkerChange == [WorkerCreate EXCEPT !.asks = TRUE, !.off = {"impact"}, !.busy = {"impact"},
    !.stays = TRUE]
WorkerDelete == [ForAdmins EXCEPT !.asks = TRUE, !.off = {"impact"}, !.busy = {"impact"},
    !.stays = TRUE, !.adds = {"workers"}, !.reads = {"workers"}]
InstanceWorkersTab ==
    [roles |-> Admins, loads |-> WorkersLoad, forms |-> [worker |-> Form("none", {})],
     ops |-> [probe |-> WorkerProbe, create |-> WorkerCreate, change |-> WorkerChange,
              delete |-> WorkerDelete]]

(* InstanceTariffsTab, TariffImpactModal *)
TariffsLoad == {"tariffs"}
TariffSave == [ForAdmins EXCEPT !.off = {"saveBusy"}, !.busy = {"saveBusy"}, !.form = "tariff",
    !.adds = {"tariffs"}, !.fills = {"tariff"}, !.reads = {"tariffs"}]
TariffClone == [ForAdmins EXCEPT !.off = {"cloneBusy"}, !.busy = {"cloneBusy"}, !.form = "clone",
    !.adds = {"tariffs"}, !.fills = {"clone"}, !.reads = {"tariffs"}]
TariffArchive == [ForAdmins EXCEPT !.adds = {"tariffs"}, !.reads = {"tariffs"}]
TariffDelete == [WorkerDelete EXCEPT !.adds = {"tariffs"}, !.reads = {"tariffs"}]
TariffDeleteEdited == [TariffDelete EXCEPT !.fills = {"tariff"}]
InstanceTariffsTab ==
    [roles |-> Admins, loads |-> TariffsLoad,
     forms |-> [tariff |-> Form("none", {"saveBusy"}), clone |-> Form("none", {"cloneBusy"})],
     ops |-> [save |-> TariffSave, clone |-> TariffClone, archive |-> TariffArchive,
              delete |-> TariffDelete, deleteEdited |-> TariffDeleteEdited]]

(* InstanceLegalDocumentsTab: two forms over one settings object; the answer to *)
(* either save fills both.                                                      *)
LegalLoad == {"settings"}
LegalForms == {"legal", "footer"}
LegalSave == [ForAdmins EXCEPT !.off = {"legalBusy"}, !.busy = {"legalBusy"}, !.form = "legal",
    !.adds = {"settings"}, !.shows = {"settings"}, !.fills = LegalForms, !.reads = {"me"}]
FooterSave == [ForAdmins EXCEPT !.off = {"footerBusy"}, !.busy = {"footerBusy"},
    !.form = "footer", !.adds = {"settings"}, !.shows = {"settings"}, !.fills = LegalForms]
InstanceLegalDocumentsTab ==
    [roles |-> Admins, loads |-> LegalLoad,
     forms |-> [f \in LegalForms |-> Form("settings", {})],
     ops |-> [legal |-> LegalSave, footer |-> FooterSave]]

(* InstanceOrgsTab, InstanceOrgList *)
OrgsLoad == {"orgs", "tariffs"}
OrgsHide == [ForAdmins EXCEPT !.adds = {"orgs"}, !.reads = OrgsLoad]
OrgsDelete == [ForAdmins EXCEPT !.off = {"deleteBusy"}, !.busy = {"deleteBusy"},
    !.form = "confirm", !.adds = {"orgs"}, !.fills = {"confirm"}, !.reads = OrgsLoad]
OrgsCreate == [ForAdmins EXCEPT !.off = {"createBusy"}, !.busy = {"createBusy"}, !.form = "org",
    !.adds = {"orgs"}, !.fills = {"org"}, !.reads = OrgsLoad]
OrgsResetMfa == [ForAdmins EXCEPT !.off = {"mfaBusy"}, !.busy = {"mfaBusy"}, !.adds = {"orgs"},
    !.reads = OrgsLoad, !.anyway = TRUE]
\* the tariff and the top-up of the wallet
OrgsApply == [ForAdmins EXCEPT !.form = "wallet", !.adds = {"orgs"}, !.fills = {"wallet"},
    !.reads = OrgsLoad]
OrgsRole == OrgsHide
OrgsPassword == ForAdmins
OrgsImpersonate == [ForAdmins EXCEPT !.adds = {"me"}, !.reads = {"me"}, !.leaves = TRUE]
OrgMembersTable ==
    [role |-> OrgsRole, password |-> OrgsPassword, impersonate |-> OrgsImpersonate]
OrgDetailPanel == [apply |-> OrgsApply]
InstanceOrgList ==
    [hide |-> OrgsHide, delete |-> OrgsDelete]
InstanceOrgsTab ==
    [roles |-> Admins, loads |-> OrgsLoad,
     forms |-> [confirm |-> Form("none", {"deleteBusy"}), org |-> Form("none", {}),
                wallet |-> Form("none", {})],
     ops |-> [o \in {"create", "mfa"} |-> IF o = "create" THEN OrgsCreate ELSE OrgsResetMfa]
             ++ InstanceOrgList ++ OrgMembersTable ++ OrgDetailPanel]

(* InstanceBaseSkillsTab, EncryptionTab *)
BaseSkillSave == [ForAdmins EXCEPT !.off = {"saveBusy"}, !.busy = {"saveBusy"}, !.form = "skill",
    !.adds = {"skills"}, !.fills = {"skill"}, !.reads = {"skills"}]
InstanceBaseSkillsTab ==
    [roles |-> Admins, loads |-> {"skills"}, forms |-> [skill |-> Form("none", {"saveBusy"})],
     ops |-> [save |-> BaseSkillSave]]
CryptoLoad == {"deks", "job"}
DekAdd == [ForAdmins EXCEPT !.off = {"busy"}, !.busy = {"busy"}, !.adds = {"deks"},
    !.also = CryptoLoad]
Reencrypt == [ForAdmins EXCEPT !.off = {"busy"}, !.busy = {"busy"}, !.adds = {"job"},
    !.shows = {"job"}, !.also = CryptoLoad]
JobCancel == [DekAdd EXCEPT !.adds = {"job"}]
EncryptionTab ==
    [roles |-> Admins, loads |-> CryptoLoad, forms |-> NoForms,
     ops |-> [add |-> DekAdd, start |-> Reencrypt, cancel |-> JobCancel]]
-----------------------------------------------------------------------------
(* OrgPage: the organization, its members, its tariff, its single sign-on and   *)
(* its meeting hosts are loaded together, which fills every form again.         *)
OrgLoad == {"org", "users", "hosts"}
OrgProfile == [ForAdmins EXCEPT !.form = "profile", !.adds = {"org"}, !.reads = OrgLoad]
OrgTariff == [ForAdmins EXCEPT !.form = "orgTariff", !.adds = {"org"}, !.reads = OrgLoad]
OrgSso == [ForAdmins EXCEPT !.form = "sso", !.adds = {"org"}, !.reads = OrgLoad]
HostsPut == [ForAdmins EXCEPT !.puts = {"hosts"}, !.shows = {"hosts"}]
HostSave == [HostsPut EXCEPT !.form = "host", !.fills = {"host"}]
HostRemove == HostsPut
BotNameSave == [HostsPut EXCEPT !.form = "botName", !.fills = {"botName"}]
UserAdd == [ForAdmins EXCEPT !.form = "user", !.adds = {"users"}, !.fills = {"user"},
    !.reads = OrgLoad]
UserChange == [ForAdmins EXCEPT !.adds = {"users"}, !.reads = OrgLoad]
UserResetMfa == [UserChange EXCEPT !.off = {"mfaBusy"}, !.busy = {"mfaBusy"}, !.anyway = TRUE]
UserImpersonate == OrgsImpersonate
OrgMembers == [role |-> UserChange, password |-> UserChange, mfa |-> UserResetMfa,
               impersonate |-> UserImpersonate]
OrgDialogs == [offboard |-> UserChange]
OrgForms ==
    [f \in {"profile", "orgTariff", "sso"} |-> Form("org", {})]
    ++ [botName |-> Form("hosts", {}), host |-> Form("none", {}), user |-> Form("none", {})]
OrgSettings == [profile |-> OrgProfile, tariff |-> OrgTariff]
OrgCapture == [saveHost |-> HostSave, removeHost |-> HostRemove, botName |-> BotNameSave]
OrgAccess == [sso |-> OrgSso, add |-> UserAdd]
OrgPage ==
    [roles |-> {"admin", "reader"}, loads |-> OrgLoad, forms |-> OrgForms,
     ops |-> OrgSettings ++ OrgCapture ++ OrgAccess ++ OrgMembers ++ OrgDialogs]
=============================================================================
