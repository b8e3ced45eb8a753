SPECIFICATION Spec
CONSTANTS
    Programs = {"opt", "vcopt", "md", "qe", "elk", "octopus", "gamessus", "nwchem"}
    MaxSteps = 2
    MaxPasses = 2
    MaxRuns = 2
    MaxTurns = 3
INVARIANTS
    ListsRepeat
PROPERTIES
    Sequential
    SavedStructure
CHECK_DEADLOCK FALSE
