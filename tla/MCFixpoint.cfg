SPECIFICATION Spec
CONSTANTS
    MaxVal = 4
    LoopBound = 2
    Labels = {0, 1, 2, 3, 4, 5}
    Entry = 0
    Exit = 5
    Programs <- MCPrograms
    Instr <- MCInstr
    Dom <- MCDom
    Bot <- MCBot
    Fails <- MCFails
    Leq <- MCLeq
    Join <- MCJoin
    JoinAll <- MCJoinAll
    Widen <- MCWiden
    Meet <- MCMeet
    Narrow <- MCNarrow
    Transfer <- MCTransfer
    Check <- MCCheck
    IsCounter <- MCIsCounter
    InitCounters <- MCInitCounters
    EntryInv <- MCTop
    DescendingIterations = 2
    State <- MCState
    Gamma <- MCGamma
    Step <- MCStep
    Safe <- MCSafe
INVARIANTS
    WalkStructure
    NoFault
    InvariantsHold
PROPERTIES
    NarrowingDescends
    EventuallyDone
