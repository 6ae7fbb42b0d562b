CONSTANTS
    Vars = {1, 2, 3}
    UintMax = 1000000
    MinOnlySets <- MCMinOnlySets
    Assigns <- MCAssigns
    Intervals <- MCIntervals
    Guards <- MCGuards
    Renamings <- MCRenamings
    Values <- MCValues
    MaxOps = 3
SPECIFICATION Spec
VIEW View
INVARIANTS RepresentationOK TestsSound BoundsClosed
PROPERTIES SoundSteps BoundsByTest
CHECK_DEADLOCK FALSE
