CONSTANTS
    Gpus = {g1}
    Cpus = {c1, c2}
    SeedSpace = 3
    Batch = 2
    StartSeeds = {0}
    FinalMaxLen = 3
    HasUploader = TRUE
    MaxClaims = 1
    MaxKills = 0
    Positions <- MCPositions
    Process <- MCProcess
    NoOutput = NoOutput
SPECIFICATION FairSpec
INVARIANTS NoFindLost OneLinePerKey LinesWereFound UploadedOnce
PROPERTIES FindsAreWritten WrittenIsUploaded
