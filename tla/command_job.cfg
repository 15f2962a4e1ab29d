SPECIFICATION FairSpec
CONSTANTS
    a1 = a1
    a2 = a2
    Callers = {a1, a2}
    Commands <- MCCommands
    MaxName = 3
    BackoffLimit = 1
    FaultKinds = {"api", "lost", "watch", "slow", "casadm", "crash"}
    MaxFaults = 2
INVARIANTS
    TypeOK
    DoneMeansCarriedOut
    WaitedJobStays
PROPERTIES
    CommandsDone
    CommandsExclusive
CHECK_DEADLOCK FALSE
