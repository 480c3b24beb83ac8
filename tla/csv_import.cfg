SPECIFICATION Spec
CONSTANTS
    c1 = c1
    c2 = c2
    i1 = i1
    i2 = i2
    Campaigns = {c1, c2}
    Importers = {i1, i2}
    Files <- MCFiles
    Ids = {1, 2, 3, 4}
    Tables <- MCTables
    Phones = {"p1", "p2"}
    Emails = {"e1", "e2"}
    MaxAborts = 1
SYMMETRY Symmetry
INVARIANTS
    TypeOK
    ConstraintsNeverRefuse
    ReportedAreJoined
PROPERTIES
    DuplicatesRepeat
    OptedOutUntouched
    ContactedNotReset
    OverwritingJoins
CHECK_DEADLOCK FALSE
