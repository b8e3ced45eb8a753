\* Any order of five calls on one object, and every calculation of the
\* command line with up to two custom parameters.
SPECIFICATION CliSpec
CONSTANTS
    Tols <- MCTols
    Electrons <- MCElectrons
    Ions <- MCIons
    Dfpt <- MCDfpt
    Misc <- MCMisc
    Basic <- MCBasic
    DfptBasic = {"rfdir"}
    KpointKeys = {"kptopt", "ngkpt", "nshiftk", "shiftk"}
    Pots = {"ncpp", "paw"}
    DefaultTol = "tolvrs"
    DefaultPot = "ncpp"
    Element = {"Li", "O", "Ti"}
    Structures <- MCStructures
    MaxNdtset = 3
    MaxCalls = 40
    Customs <- AllGroupsButDfpt
    ScriptKeys = {"toldfe", "tolvrs", "tolwfr", "ecut", "ionmov", "ngkpt"}
    ScriptNdtset = 2
    ScriptCalls = 5
INVARIANTS
    TypeOK
    DatasetsInEffectExist
    OneUsedTolerance
    SystemOfDatasetZero
    TypesCountElements
    SettingsReachInput
CHECK_DEADLOCK FALSE
