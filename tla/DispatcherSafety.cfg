\* One task and its follow-up, every endpoint but the removal of nodes.
CONSTANTS
    None = None
    Root = {t1}
    Audio = {a1}
    Node = {n1, n2}
    Job = {j1, j2, j3}
    MaxFaults = 2
    Ops = {"cancel", "retry", "delete", "purge"}
SPECIFICATION Spec
SYMMETRY Symmetry
INVARIANTS
    TypeOK
    BilledOnce
    OneArtifact
    FollowUpOnce
    RunningIsBound
