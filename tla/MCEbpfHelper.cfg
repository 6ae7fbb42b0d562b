CONSTANTS
    W64 = 4
    W32 = 2
    W16 = 2
    W8 = 2
    Vars <- MCVars
    UintMax = 15
    TotalStack = 8
    WordBytes = 2
    Frame = 4
    PtrMax = 11
    MinPacketAddress = 2
    MaxPacketSize = 4
    Context <- MCContext
    Maps <- MCMaps
    Bytes <- MCBytes
    Contracts <- MCContracts
    Privileged = FALSE
    AllowDivByZero = FALSE
    Strict = TRUE
    LoopLimit = 3
    SocketLayout = {}
    CallbackTargets = {}
    CallbacksWithExit = {}
    Inputs = {0, 1, 11}
    PacketSizes = {0, 2}
    Metas <- MCMetas
    Address <- MCAddress
    Loops = {1}
    Programs <- MCHelperPrograms
SPECIFICATION Spec
INVARIANT TypesCovered
CHECK_DEADLOCK FALSE
