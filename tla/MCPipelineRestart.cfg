CONSTANTS
    Gpus = {g1, g2}
    Cpus = {c1}
    SeedSpace = 5
    Batch = 2
    StartSeeds = {0, 4}
    FinalMaxLen = 1
    HasUploader = TRUE
    MaxClaims = 2
    MaxKills = 1
    Positions <- MCPositions
    Process <- MCProcess
    NoOutput = NoOutput
SYMMETRY Alike
SPECIFICATION Spec
INVARIANTS TypeOK PostedIsOnFile IInv ClaimsTile
