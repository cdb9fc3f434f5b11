SPECIFICATION FairSpec
CONSTANTS
    Leaders <- MCLeaders
    Web <- MCWeb
    MaxFaults = 1
INVARIANTS
    GateHolds
PROPERTIES
    SubmittedIsSettled
    LedFlowIsOverdue
