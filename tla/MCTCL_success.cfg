\* One lost block: a later call succeeds without data.
SPECIFICATION Spec
CONSTANTS
    MTU = 64
    MRU = 64
    ReaderDI = {1, 2}
    BeyondTable = {}
    ATSs <- PlainCards
    TxLens = {40, 100}
    RespLens = {70}
    WTXMs = {5}
    ForeignCid = FALSE
    OpensFirst = TRUE
    MaxCalls = 2
    MaxLoss = 1
    MaxWtx = 0
INVARIANT SuccessMeansDone
