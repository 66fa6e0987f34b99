CONSTANTS
    Funcs <- MCFuncs
    Root = "P"
    Programs <- MCPrograms
SPECIFICATION Spec
INVARIANTS TraceMatchesSpec
CHECK_DEADLOCK FALSE
