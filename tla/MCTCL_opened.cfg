\* Every kind of card, an application that opens before it transceives, and
\* at most one loss, failed register write or foreign CID.
SPECIFICATION FairSpec
CONSTANTS
    MTU = 64
    MRU = 64
    ReaderDI = {1, 2}
    BeyondTable = {0, 30, 5000}
    ATSs <- AllCards
    TxLens = {10, 70}
    RespLens = {0, 130}
    WTXMs = {59}
    ForeignCid = TRUE
    OpensFirst = TRUE
    MaxCalls = 2
    MaxLoss = 1
    MaxWtx = 1
INVARIANTS EndToEnd DeadlineMet FrameFits SpeedAgreement
PROPERTIES ExchangeSpec CallsReturn
