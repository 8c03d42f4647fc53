CONSTANTS
    md = md
    abi = abi
    inv = inv
    eff = eff
    deg = deg
    bind = bind
    sch = sch
    good = good
    bad = bad
    floor = floor
    cover = cover
    Locked = {md, abi, inv, eff, deg, bind, sch}
    Ephemeral = {}
    Contents = {good, bad}
    NoFile = NoFile
    Empty = Empty
    Torn = Torn
    Missing = Missing
    Engineer = Engineer
    Procs = {Engineer}
    NoProc = NoProc
    NoTable = NoTable
    StrayTables = {}
    SkillMd = md
    Abi = abi
    Invariants = inv
    Effects = eff
    Degradation = deg
    Bindings = {bind}
    Schemas = {sch}
    Broken = {}
    Cases = {floor, cover}
    CoverCases = {cover}
    Profiled = {}
    Own <- MCOwn
    Listed <- MCListed
    Passes <- MCPasses
    NoCert = NoCert
    Initial <- MCInitial
    Choices <- MCChoices
    MaxEdits = 2
SPECIFICATION ReleaseSpec
INVARIANTS
    ReleaseIsConsistent
    EvaluatedReleaseConforms
PROPERTIES
    ReleaseEnds
CHECK_DEADLOCK FALSE
