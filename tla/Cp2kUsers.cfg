\* Scripts of a few calls and every command line, for every class.
SPECIFICATION CliSpec
CONSTANTS
    Structures <- MCStructures
    Kpaths <- MCKpaths
    ImageLists <- MCImageLists
    Entries <- MCEntries
    Shorts <- MCShorts
    Values <- MCValues
    Settings <- Cp2kClasses
    Customs <- MCCustoms
    MaxCalls = 12
    ScriptClasses = {"Phonopy", "Neb"}
    ScriptCalls = 5
INVARIANTS
    CrashNeedsCause
    SetIsKept
    StructureIsComplete
    KpointSetsFollowPath
    CustomReachesInput
CHECK_DEADLOCK FALSE
