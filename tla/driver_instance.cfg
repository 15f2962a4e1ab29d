SPECIFICATION FairSpec
CONSTANTS
    l1 = l1
    l2 = l2
    c1 = c1
    c2 = c2
    Kinds = {"namespace", "configMap", "deployment"}
    Labels = {l1, l2}
    Configs = {c1, c2}
    UserSpecs <- MCUserSpecs
    Strayed = {"namespace", "configMap", "deployment"}
    FaultKinds = {"api", "crash"}
    MaxCreates = 2
    MaxTroubles = 1
    MaxEdits = 1
INVARIANTS
    TypeOK
    SettledMeansDeployed
PROPERTIES
    CreatedAfterItsRefs
    ReleasedLast
    DriverDeployed
    DriverRemoved
CHECK_DEADLOCK FALSE
