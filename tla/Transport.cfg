\* Both transports, more accesses than sequence numbers.
SPECIFICATION FairSpec
CONSTANTS
    Drivers = {"openpcd", "ccid"}
    SeqMod = 3
    MaxCalls = 6
    MaxWtx = 2
INVARIANTS TypeOK OwnReply
PROPERTIES AccessSpec AccessReturns
CHECK_DEADLOCK FALSE
