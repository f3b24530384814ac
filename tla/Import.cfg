\* Two imports and one slot; every endpoint, one crash, one retry.
SPECIFICATION LiveSpec
CONSTANTS
    Task = {t1, t2}
    None = None
    Limit = 1
    MaxFaults = 1
    MaxRetries = 1
    Ops = {"cancel", "purge"}
INVARIANTS
    TypeOK
    AtMostLimit
    OneAudio
PROPERTIES
    NoSecondThread
    EventuallyTerminal
CHECK_DEADLOCK FALSE
