SPECIFICATION LiveSpec
CONSTANTS
    Task = {t1}
    Job = {j1}
    None = None
    Slots = 1
    Pool = TRUE
    MaxFaults = 1
    Ops = {"stop"}
PROPERTIES EventuallyTerminal
CHECK_DEADLOCK FALSE
