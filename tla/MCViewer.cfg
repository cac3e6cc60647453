CONSTANTS
    Rows <- MCRows
    OldRows <- MCOldRows
    Order <- MCOrder
    FirstFilter = "all"
    PageSize = 2
    Fits = 1
    Unmounted = Unmounted
    Worlds <- MCWorlds
    NoWorld = "none"
    Tiles = {t1}
    NumWorkers = 2
    MaxEvents = 3
    WorldOf <- MCWorldOf
    List = List
    NoRow = NoRow
SPECIFICATION FairSpec
INVARIANTS OwnFilter NothingSkipped ShownExactly MapOfRoute
PROPERTIES ListEnds MapGetsTiles
CHECK_DEADLOCK FALSE
