\* Three calls of any kind, two failing accesses, errors in the answers: a call
\* after one that was abandoned halfway, and whether every one of them ends.
SPECIFICATION FairSpec
CONSTANTS
    FIFO = 3
    TxLens = {2, 4}
    RespLens = {0, 2}
    Rooms = {1, 3}
    Errors = {"COL"}
    Kinds = {"ab", "acf", "sf", "key", "auth"}
    Timeouts = {1, 99999, 154624}
    MaxCalls = 3
    MaxFaults = 2
INVARIANTS TypeOK AnswerIsOurs TimeoutIsReal CollisionNotMissed TimerCovers
PROPERTIES ExchangeReturns
CHECK_DEADLOCK FALSE
