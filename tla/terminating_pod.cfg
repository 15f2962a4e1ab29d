SPECIFICATION Spec
CONSTANTS
    n1 = n1
    n2 = n2
    Nodes = {n1, n2}
    Backend = Backend
    FaultKinds = {}
    MaxFaults = 0
    MaxAttaches = 2
INVARIANTS
    AttachedHasPod
CHECK_DEADLOCK FALSE
