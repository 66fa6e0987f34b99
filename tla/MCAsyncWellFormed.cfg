CONSTANTS
    Funcs <- MCFuncs
    Root = "P"
    Programs <- MCPrograms
SPECIFICATION Spec
INVARIANTS WellFormedTraces
CHECK_DEADLOCK FALSE
