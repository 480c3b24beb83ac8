SPECIFICATION Spec
CONSTANTS
    r1 = r1
    r2 = r2
    p1 = p1
    p2 = p2
    p3 = p3
    Runs = {r1, r2}
    Phones = {p1, p2, p3}
    Inputs <- MCInputs
    MaxMessages = 2
    Failures = {"log", "crash", "send"}
    Overlap = TRUE
SYMMETRY Symmetry
INVARIANTS
    TypeOK
    OncePerRun
    SessionLimitKept
    RepeatsAreLostEntries
    ListedAreSpared
CHECK_DEADLOCK FALSE
