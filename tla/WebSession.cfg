SPECIFICATION LiveSpec
CONSTANTS
    s1 = s1
    s2 = s2
    None = None
    Accounts <- MCAccounts
    Targets <- MCTargets
    Slot = {s1, s2}
    MaxSessions = 2
    MaxEnv = 1
    MaxClicks = 1
    Env = {"reload", "sso", "lost", "expire", "tab", "admin"}
INVARIANTS TypeOK HomeOffered AppliedOnce
PROPERTIES NoRedirectLoop BusyEnds
CHECK_DEADLOCK FALSE
