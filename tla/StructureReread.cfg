\* Every calculator, three structure files into one object.
SPECIFICATION Spec
CONSTANTS
    Calculators = {"PwScf", "PwPhonopy", "Octopus", "NWChem", "Siesta", "SiestaPhonopy", "Vasp", "Elk", "Cp2k", "Orca", "QChem", "GamessUS"}
    ElementOrder <- MCElementOrder
    Number <- MCNumber
    Potentials = {"C", "H"}
    Cells = {1, 2}
    MaxAtoms = 2
    MaxReads = 3
INVARIANTS
    GroupedIsFile
    StaleAtomsFollow
    SpeciesServeAtoms
PROPERTIES
    CalculatesFile
CHECK_DEADLOCK FALSE
