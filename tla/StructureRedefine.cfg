CONSTANTS
    Number <- MCNumber
    Structures <- MCStructures
    Layers <- MCLayers
    Counts <- MCCounts
    Rows <- MCRows
    Directions <- MCDirections
    Thicknesses <- MCThicknesses
    Distances <- MCDistances
    Moves <- MCMoves
    Roundings <- MCRoundings
    Points <- MCPoints
    MaxSteps <- MCSteps
    MaxAtoms <- MCAtoms
SPECIFICATION Spec
PROPERTIES RedefineKeepsAtoms
CHECK_DEADLOCK FALSE
