CONSTANTS
    Setups <- AllSetups
    Positions <- MCPositions
    Emit <- MCEmit
    Warps = 2
    SeedsCap = 4
SPECIFICATION Spec
INVARIANTS TypeOK OctavesFresh BatchCorrect
