SPECIFICATION Spec
CONSTANTS
    MaxLabel = 4
    Labels <- MCLabels
    Entry = 0
    Graphs <- MCGraphs
    TailCalls <- MCTailCalls
    ChainLimits = {1, 2}
INVARIANTS
    ResultIsWto
    CyclesAreStronglyConnected
    NestingsExact
    UnwrapsSucceed
    ChainBoundExact
PROPERTY
    EventuallyDone
