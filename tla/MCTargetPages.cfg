SPECIFICATION PagesSpec
CONSTANTS
    AllowedFlows = {1, 2}
    HiddenFlows = {}
    FlowStep = 70
    Periods <- MCPeriods
    NormalMinutes = 600
    WorkStart = 450
    WorkEnd = 1110
    Breaks <- MCBreaks
    Hour = 60
    DefaultWorkMinutes = 600
    Requests = {w1, w2}
    Flow = 1
    Moments <- MCMoments
    Goals <- MCGoals
    Forms <- MCForms
    Opening <- MCOpening
    Earlier = {}
    Lines <- MCLines
    StepTimes <- MCStepTimes
    Styles <- MCStyles
    LastDay = 2
    MaxSaves = 2
    MaxRefusals = 1
SYMMETRY Symmetry
INVARIANTS
    PageShowsWhatIsStored
PROPERTIES
    SharesAddUp
    StylesAgreeWithFlows
    TodayAddsUp
