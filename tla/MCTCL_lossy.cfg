\* Any application, any order of calls, a link that loses up to two blocks.
SPECIFICATION Spec
CONSTANTS
    MTU = 64
    MRU = 64
    ReaderDI = {1, 2}
    BeyondTable = {}
    ATSs <- LossyCards
    TxLens = {0, 40}
    RespLens = {70}
    WTXMs = {0, 5}
    ForeignCid = FALSE
    OpensFirst = FALSE
    MaxCalls = 3
    MaxLoss = 2
    MaxWtx = 1
INVARIANTS TypeOK ToggleParity RAckIsFresh SpeedAgreement SyncedExchange
PROPERTIES ExchangeSpec
