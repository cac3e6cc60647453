CONSTANTS
    Setups <- FittingOnly
    Positions <- MCPositions
    Emit <- MCEmit
    Warps = 2
    SeedsCap = 2
SPECIFICATION Spec
INVARIANTS BatchExact
