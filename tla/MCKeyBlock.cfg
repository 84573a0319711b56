CONSTANTS
    Refused = Refused
    Garbage = Garbage
    Imports <- MCImports
SPECIFICATION Spec
INVARIANTS
    WalkTiles
    RepairExact
    CutSeen
    EntryFaithful
CHECK_DEADLOCK FALSE
