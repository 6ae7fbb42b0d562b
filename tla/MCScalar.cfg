CONSTANTS
    W64 = 4
    W32 = 2
    W16 = 1
    W8 = 1
    Vars = {33, 34, 65, 66}
    UintMax = 15
    Registers = {1, 2}
    Length = 4
    Instructions <- MCInstructions
SPECIFICATION Spec
INVARIANT NoPanic
PROPERTIES StepsCoverMachine ConstantsStayKnown
CHECK_DEADLOCK FALSE
