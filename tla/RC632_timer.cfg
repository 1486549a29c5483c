\* Does the timer cover a time limit that a T=CL card of FWI 9 is given?
SPECIFICATION Spec
CONSTANTS
    FIFO = 3
    TxLens = {1}
    RespLens = {2}
    Rooms = {3}
    Errors = {}
    Kinds = {"ab"}
    Timeouts = {154624}
    MaxCalls = 1
    MaxFaults = 0
INVARIANTS AnyLimitCovered
CHECK_DEADLOCK FALSE
