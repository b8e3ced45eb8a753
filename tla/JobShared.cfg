\* Two calculators and two working directories.
SPECIFICATION Spec
CONSTANTS
    Proc = {"pwscf", "cp2k"}
    Dir = {"work", "work2"}
    NoDir = "nowhere"
    Server = {"pbs"}
    Level = {1, 3}
    MaxRuns = 2
    Clearing <- MCClearing
    Blocks <- MCBlocks
    Uses <- UsesAll
    XyzHome <- HomeInside
    XyzName <- MCXyzName
INVARIANTS
    TypeOK
    OneRunPerScript
    DeliveredRun
PROPERTIES
    ThrowNeedsCause
