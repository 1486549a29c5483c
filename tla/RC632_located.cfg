\* Is a collision reported with its position?
SPECIFICATION Spec
CONSTANTS
    FIFO = 3
    TxLens = {1}
    RespLens = {2}
    Rooms = {3}
    Errors = {"COL"}
    Kinds = {"acf"}
    Timeouts = {250}
    MaxCalls = 1
    MaxFaults = 0
INVARIANTS CollisionLocated
CHECK_DEADLOCK FALSE
