\* Two tasks share one tick; nodes are deleted under running tasks; workers
\* may answer without an id.
CONSTANTS
    None = None
    Root = {t1, t2}
    Audio = {a1}
    Node = {n1}
    Job = {j1, j2}
    MaxFaults = 1
    Ops = {"delete", "remove", "anonymous"}
SPECIFICATION Spec
SYMMETRY Symmetry
PROPERTIES
    SkipHonoured
