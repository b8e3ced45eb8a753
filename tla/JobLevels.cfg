\* One calculator, every level and every server of the command line, bash
\* and the batch system.
SPECIFICATION FairSpec
CONSTANTS
    Proc = {"pwscf"}
    Dir = {"work"}
    NoDir = "nowhere"
    Server <- CliServers
    Level = {0, 1, 2, 3, 4, 5, 6}
    MaxRuns = 3
    Clearing <- MCClearing
    Blocks <- MCBlocks
    Uses <- UsesAll
    XyzHome <- HomeElsewhere
    XyzName <- MCXyzName
INVARIANTS
    SubmittedIsOwn
    DeliveredRun
PROPERTIES
    LevelThreeDelivers
