CONSTANTS
    f1 = f1
    f2 = f2
    e1 = e1
    c1 = c1
    c2 = c2
    p1 = p1
    p2 = p2
    Locked = {f1, f2}
    Ephemeral = {e1}
    Contents = {c1, c2}
    Procs = {p1}
    NoFile = NoFile
    NoProc = NoProc
    NoTable = NoTable
    Empty = Empty
    Torn = Torn
    StrayTables <- MCStrayTables
SPECIFICATION Spec
INVARIANTS
    AcceptanceSound
    ErrorOnlyOnRace
PROPERTIES
    CommandsEnd
    NeverStartsOver
    ImplementsContract
