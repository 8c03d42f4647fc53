CONSTANTS
    mdFile = mdFile
    abiFile = abiFile
    ioFile = ioFile
    effFile = effFile
    degFile = degFile
    sh = sh
    v1 = v1
    v2 = v2
    weak = weak
    odd = odd
    broken = broken
    a = a
    b = b
    x = x
    SkillMd = mdFile
    Abi = abiFile
    Effects = effFile
    Degrade = degFile
    Schemas = {ioFile}
    Locked <- MCLocked
    Ephemeral = {}
    Contents <- MCContents
    Broken = {broken}
    Faulty = {weak}
    ManifestOf <- MCManifestOf
    RequiredOf <- MCRequiredOf
    TiersOf <- MCTiersOf
    Position <- MCPosition
    Capabilities = {a, b, x}
    Vocabulary = {a, b}
    Procs = {sh}
    Shell = sh
    NoFile = NoFile
    NoProc = NoProc
    NoTable = NoTable
    Empty = Empty
    Torn = Torn
    StrayTables <- MCStrayTables
    InitialFiles <- MCInitialFiles
    Drafts <- MCDrafts
    MaxEdits = 2
SPECIFICATION SessionSpec
CHECK_DEADLOCK FALSE
INVARIANTS
    SessionTypeOK
    LevelProven
    HighestLevel
    ObjectWitnessed
    PublishedObjectConforms
    
