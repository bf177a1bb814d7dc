CONSTANTS
    Reader = reader
    Movers = {m1, m2}
    Coords = {latitude, longitude}
    Fixes = {here, there, nowhere}
    ValidFixes = {here, there}
    Initial = initial
    None = none
SYMMETRY Symmetry
SPECIFICATION Spec
INVARIANTS InvalidNotAnsweredUndisturbed PositionWhole
