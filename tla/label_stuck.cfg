SPECIFICATION Spec
CONSTANTS
    CacheIds = {1, 2, 3}
    d1 = d1
    d2 = d2
    c4 = c4
    c8 = c8
    wt = wt
    pt = pt
    Devices = {d1, d2}
    LineSizes = {c4, c8}
    CacheModes = {wt, pt}
    Volumes = {v1}
    DefaultLineSize = c4
    DefaultMode = wt
    Unset = Unset
    NoId = NoId
    NoLabel = NoLabel
    EmptyLabel = EmptyLabel
    UserSpecs <- MCEditSpecs
    FaultKinds = {}
    MaxFaults = 0
    MaxEdits = 3
    MaxStages = 1
    MaxOutages = 0
INVARIANTS
    EmptyLabelIsTransient
CHECK_DEADLOCK FALSE
