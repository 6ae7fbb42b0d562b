SPECIFICATION Spec
CONSTANTS
    Inputs <- MCJumpsAndCalls
    ChainLimit = 1
PROPERTY
    ReturnsToFallthrough
