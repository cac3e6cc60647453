CONSTANTS
    k1 = k1
    k2 = k2
    w1 = w1
    w2 = w2
    Keys <- MCKeys
    Old <- MCOld
    Broken <- MCBroken
    Workers <- MCWorkers
    Starter = starter
    Nobody = Nobody
    NoKey = NoKey
    Limit = 2
    MaxDeletes = 1
    MaxFaults = 2
SPECIFICATION Spec
INVARIANTS AnsweredIsStored
CHECK_DEADLOCK FALSE
