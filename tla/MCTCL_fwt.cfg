\* A card whose ATS goes on behind TL and has no TB.
SPECIFICATION Spec
CONSTANTS
    MTU = 64
    MRU = 64
    ReaderDI = {1, 2}
    BeyondTable = {}
    ATSs <- NoTBCards
    TxLens = {10}
    RespLens = {70}
    WTXMs = {5}
    ForeignCid = FALSE
    OpensFirst = TRUE
    MaxCalls = 1
    MaxLoss = 0
    MaxWtx = 0
INVARIANT DefaultFwi
