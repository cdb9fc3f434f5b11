SPECIFICATION RefreshSpec
CONSTANTS
    AllowedFlows = {1, 2}
    HiddenFlows = {2}
    FlowStep = 70
    StationLimit = 2
    WorkorderLimit = 1
    ProcessLimit = 1
    Periods <- MCPeriods
    NormalMinutes = 6
    MinCoverage = 50
    Candidates <- MCCandidates
    Opening <- MCOpening
    People <- MCPeople
    StepTable <- MCStepTable
    Styles <- MCStyles
    Catalog <- MCCatalog
    MonthStart = 1
    FirstDay = 2
    LastDay = 3
    MaxChanges = 1
    Selections <- MCSelections
    Filters <- MCFilters
    PageSize = 1
CHECK_DEADLOCK FALSE
INVARIANTS
    RefusedOnlyForRowsWithoutLine
PROPERTIES
    SnapshotIsOneInstant
    MonthEndsWithToday
    SelectionsAgree
    KanbanAgrees
    HistoryKeepsTheDay
