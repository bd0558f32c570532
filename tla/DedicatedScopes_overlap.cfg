\* Two handlers awaiting at once, every request succeeding: the client
\* captured by onDeleteMapper is stale when its setClient runs.
CONSTANTS
    Mappers = {"m1", "m2", "m3"}
    Undef = Undef
    MaxOps = 3
    MaxPending = 2
    MayFail = {FALSE}
    MaxLeaves = 0
SPECIFICATION Spec
CHECK_DEADLOCK FALSE
INVARIANTS
    MappersShownExist
