\* The phonopy script of VASP, executed again after phonopy had failed.
SPECIFICATION Spec
CONSTANTS
    Calculators = {"vasp_phonopy"}
    MaxStructures = 2
    MaxPasses = 2
INVARIANTS
    CalculationInWorkDir
CHECK_DEADLOCK FALSE
