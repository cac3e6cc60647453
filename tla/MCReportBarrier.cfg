CONSTANTS
    Gpus = {g1, g2, g3}
    Interval = 2
    MaxRounds = 3
SPECIFICATION FairSpec
INVARIANTS ReportsComplete NoLapping IInv
PROPERTIES PrintedBeforeCleared RoundsSpec SubmitReturns
