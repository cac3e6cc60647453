CONSTANTS
    Candidates <- MCCandidates
    MinSize = 12
    CoarseWidth = 4
    CoarseHeight = 3
    CoarseArea = 3
    Tol = 2
    Range4 = 16
    RadiusOf <- MCRadiusOf
    OriginRadius = 1
    MaxRadius = 7
SPECIFICATION Spec
INVARIANTS StackFits CentersComplete WindowExact LargestMeasured ReportedIsIsland OriginExact
