\* Seven programs, six classes for phonons and six for densities of states,
\* paths with breaks, an object of each side used again.
SPECIFICATION Spec
CONSTANTS
    Paths <- MCPaths
    Others <- MCOthers
    Programs = {"abinit", "siesta", "qe", "vasp", "cp2k", "octopus", "elk",
                "phonopy_vasp", "phonopy_qe", "phonopy_abinit", "phonopy_siesta",
                "phonopy_cp2k", "phonopy_elk",
                "dos_abinit", "dos_qe", "dos_siesta", "dos_vasp", "dos_cp2k", "dos_elk"}
    Crystals <- MCCrystals
    Counts = {1, 999, 1000, 10000}
    MaxCalls = 4
INVARIANTS
    AxisFollowsPath
    TicsNameStops
    ForcesOfThisCalculation
    ProjectionsAddUp
CHECK_DEADLOCK FALSE
