SPECIFICATION Spec
CONSTANTS
    None = None
    MaxActs = 4
    MaxBots = 0
    MaxLosses = 1
    MaxFlight = 2

PROPERTIES WaitKept
CHECK_DEADLOCK FALSE
