SPECIFICATION Spec
CONSTANTS
    CacheIds = {1}
    d1 = d1
    d2 = d2
    c4 = c4
    wt = wt
    v1 = v1
    v2 = v2
    Devices = {d1}
    LineSizes = {c4}
    CacheModes = {wt}
    Volumes = {v1, v2}
    BlockVolumes = {}
    DefaultLineSize = c4
    DefaultMode = wt
    Unset = Unset
    NoId = NoId
    NoLabel = NoLabel
    EmptyLabel = EmptyLabel
    Directory = Directory
    CoreIds = {1, 2}
    FaultKinds = {"late", "local", "timeout", "crash", "forget", "reuse"}
    MaxFaults = 2
    MaxPods = 2
    MaxChanges = 3
    MaxReboots = 0
INVARIANTS
    StagedIsReady
    PublishedIsVolume
PROPERTIES
    DataSurvives
SYMMETRY VolumesAlike
CHECK_DEADLOCK FALSE
