SPECIFICATION Spec
CONSTANTS
    Kinds = {"RT", "SC"}
    Err = {"e1"}
    Runner = {"r1", "r2"}
    MaxErrors = 1
    RestoreApply = TRUE
INVARIANTS TypeOK LayersInOrder InitIsComplete QuietUnlessStarted OneRunThread RpcJoinEnds
