\* Liveness with faults, cancels, retries and deletes.
CONSTANTS
    None = None
    Root = {t1}
    Audio = {a1}
    Node = {n1}
    Job = {j1, j2, j3}
    MaxFaults = 1
    Ops = {"cancel", "retry", "delete"}
SPECIFICATION LiveSpec
PROPERTIES
    EventuallyTerminal
