CONSTANTS
    Setups <- OverflowingOnly
    Positions <- MCPositions
    Emit <- MCEmit
    Warps = 1
    SeedsCap = 2
SPECIFICATION Spec
INVARIANTS OverflowIsReported
