SPECIFICATION Spec
CONSTANTS
    Labels = {0, 1, 2, 3, 4, 5}
    Entry = 0
    Registers = {0, 1, 6, 10}
    Args = {1}
    Saved = {6}
    Slots <- MCSlots
    StackBytes <- MCStackBytes
    None = 99
    Inputs <- MCInputs
INVARIANTS
    RelevanceExact
    SliceComplete
    StepsBounded
PROPERTY
    EventuallyDone
