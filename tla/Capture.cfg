\* One capture, two worker jobs; every endpoint and one crash or failed call.
SPECIFICATION LiveSpec
CONSTANTS
    Task = {t1}
    Job = {j1, j2}
    None = None
    Slots = 1
    Pool = TRUE
    MaxFaults = 1
    Ops = {"cancel", "stop", "rebind"}
INVARIANTS
    TypeOK
    OneAudio
PROPERTIES
    NoSecondThread
    EndsUnlessAbandoned
CHECK_DEADLOCK FALSE
