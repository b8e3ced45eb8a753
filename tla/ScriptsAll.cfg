\* Every calculator, executed up to three times, two supercells.
SPECIFICATION Spec
CONSTANTS
    Calculators <- AllCalculators
    MaxStructures = 2
    MaxPasses = 3
INVARIANTS
    LeavesOnlyAfterFailedPhonopy
    InputsAreThere
    CleanEnd
CHECK_DEADLOCK FALSE
