SPECIFICATION Spec
CONSTANTS
    CacheIds = {1}
    d1 = d1
    d2 = d2
    c4 = c4
    wt = wt
    v1 = v1
    v2 = v2
    Devices = {d1}
    LineSizes = {c4}
    CacheModes = {wt}
    Volumes = {v1, v2}
    BlockVolumes = {v2}
    DefaultLineSize = c4
    DefaultMode = wt
    Unset = Unset
    NoId = NoId
    NoLabel = NoLabel
    EmptyLabel = EmptyLabel
    Directory = Directory
    CoreIds = {1, 2}
    FaultKinds = {"job", "late", "local", "timeout", "overtake", "reuse"}
    MaxFaults = 2
    MaxPods = 2
    MaxChanges = 3
    MaxReboots = 0
INVARIANTS
    CleanWhenUnstaged
    TypeOK
CHECK_DEADLOCK FALSE
