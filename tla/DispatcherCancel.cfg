\* The user cancels while the POST to the worker is in flight.
CONSTANTS
    None = None
    Root = {t1}
    Audio = {a1}
    Node = {n1}
    Job = {j1, j2}
    MaxFaults = 0
    Ops = {"cancel"}
SPECIFICATION Spec
PROPERTIES
    CanceledIsFinal
