SPECIFICATION Spec
CONSTANTS
    Programs <- MCPrograms
    Lines <- MCLines
    Items <- MCItems
    Crystals <- MCCrystals
    AtomsOf <- MCAtomsOf
    Paths <- MCPaths
    MaxCalls <- MCMaxCalls
INVARIANTS
    CustomReachesInput
    StructureInEveryInput
    PathReachesInput
    StepsInOrder
    FailureNeedsCause
    HeaderTakesCommandLine
CHECK_DEADLOCK FALSE
