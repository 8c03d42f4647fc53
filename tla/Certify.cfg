CONSTANTS
    md = md
    abi = abi
    inv = inv
    eff = eff
    deg = deg
    base = base
    other = other
    v1 = v1
    v2 = v2
    junk = junk
    fit = fit
    floor = floor
    cover = cover
    Locked = {md, abi, inv, eff, deg, base, other}
    Ephemeral = {}
    Contents = {v1, v2, junk}
    NoFile = NoFile
    Empty = Empty
    Torn = Torn
    Runtimes = {}
    EvidenceFiles = {}
    Missing = Missing
    SkillMd = md
    Abi = abi
    Invariants = inv
    Effects = eff
    Degradation = deg
    Bindings = {base, other}
    Schemas = {}
    Broken = {junk}
    Cases = {fit, floor, cover}
    CoverCases = {cover}
    Profiled = {fit}
    Own <- MCOwn
    Listed <- MCListed
    Passes <- MCPasses
    NoCert = NoCert
    Initial <- MCInitial
    Choices <- MCChoices
    LockChoices <- MCLockChoices
    MaxChanges = 2
SPECIFICATION Spec
INVARIANTS
    TypeOK
    ClassReflectsJudgement
    ValidWitnessed
    InvalidJustified
PROPERTIES
    OnlyCompleteRunsReplace
    CertifyNeverStartsOver
