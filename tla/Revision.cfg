CONSTANTS
    a = a
    b = b
    fs = fs
    o1 = o1
    s1 = s1
    s2 = s2
    full = full
    partial = partial
    floor = floor
    Capabilities = {a, b}
    Vocabulary = {a, b}
    Obligations = {o1}
    SchemaBytes = {s1, s2}
    Categories = {fs}
    Bounds = {1, 2}
    Notes = {1, 2}
    Undeclared = Undeclared
    TierNames = {full, partial, floor}
    Versions <- MCVersions
    MaxVersions = 3
    NoConsumer = NoConsumer
SPECIFICATION Spec
CHECK_DEADLOCK FALSE
INVARIANTS
    TypeOK
    ChainsNeverAddUp
    UpgradesKeepResolution
