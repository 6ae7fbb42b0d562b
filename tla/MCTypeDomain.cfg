CONSTANTS
    Vars = {1, 2, 3}
    NumTypes = 3
    Masks <- MCMasks
    Renamings <- MCRenamings
    MaxOps = 3
SPECIFICATION Spec
VIEW View
INVARIANTS RepresentationOK AnswersExact
PROPERTIES ImplementsTypeValuations
CHECK_DEADLOCK FALSE
