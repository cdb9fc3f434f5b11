SPECIFICATION Spec
CONSTANTS
    Leaders <- MCLeaders
    Web <- MCWeb
    MaxFaults = 0
INVARIANT LastRemovalExcuses
