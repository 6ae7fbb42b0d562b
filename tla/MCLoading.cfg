SPECIFICATION LoadingSpec
CONSTANTS
    Inputs <- MCRecursive
    ChainLimit = 1
    Files <- MCFiles
    Options <- MCOptions
INVARIANTS
    LoadingTypeOK
    LinkedFollowsFile
    LoadedInOrder
PROPERTY
    EventuallyDecided
