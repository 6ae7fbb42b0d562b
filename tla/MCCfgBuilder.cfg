SPECIFICATION Spec
CONSTANTS
    Inputs <- MCAll
    ChainLimit = 1
INVARIANTS
    GraphFollowsMachine
    FramesMatchMachine
    EveryLoopCounted
    CallbackExitsExact
