CONSTANTS
    v0 = v0
    v1 = v1
    v2 = v2
    a = a
    b = b
    portal = portal
    Runs = {a, b}
    Others = {portal}
    Processes = {a, b, portal}
    Base = v0
    Candidate <- MCCandidate
    Drills = {b}
    SameConfig = {a, b}
    MaxFaults = 2
SPECIFICATION Spec
INVARIANTS HolderHasFile ReportIsTrue StandsOnKnownGround
CHECK_DEADLOCK FALSE
