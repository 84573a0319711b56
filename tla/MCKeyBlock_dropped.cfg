CONSTANTS
    Refused = Refused
    Garbage = Garbage
    Imports <- DroppedImports
SPECIFICATION Spec
INVARIANT KeysRepaired
CHECK_DEADLOCK FALSE
