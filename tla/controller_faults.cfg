SPECIFICATION FairSpec
CONSTANTS
    n1 = n1
    n2 = n2
    Nodes = {n1, n2}
    Backend = Backend
    FaultKinds = {"api", "lost", "slow", "watch", "timeout", "crash", "stray", "overtake"}
    MaxFaults = 3
    MaxAttaches = 4
INVARIANTS
    TypeOK
    NothingLeftBehind
PROPERTIES
    ProtectionKept
    DeletionCompletes
    CreationCompletes
CHECK_DEADLOCK FALSE
