SPECIFICATION FairSpec
CONSTANTS
    CacheIds = {1, 2}
    d1 = d1
    d2 = d2
    c4 = c4
    wt = wt
    v1 = v1
    v2 = v2
    Devices = {d1, d2}
    LineSizes = {c4}
    CacheModes = {wt}
    Volumes = {v1}
    BlockVolumes = {}
    DefaultLineSize = c4
    DefaultMode = wt
    Unset = Unset
    NoId = NoId
    NoLabel = NoLabel
    EmptyLabel = EmptyLabel
    Directory = Directory
    CoreIds = {1, 2}
    FaultKinds = {"job", "late", "local", "timeout", "crash", "detach", "pv", "cut"}
    MaxFaults = 1
    MaxPods = 2
    MaxChanges = 3
    MaxReboots = 1
PROPERTIES
    UnstageCompletes
    StageCompletes
CHECK_DEADLOCK FALSE
