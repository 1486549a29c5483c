\* Tags of all UID sizes, three opens, one failing exchange.
SPECIFICATION FairSpec
CONSTANTS
    a = a
    b = b
    c = c
    d = d
    e = e
    f = f
    g = g
    Tags = {b, c, d, e, f, g}
    UID <- MCUID
    Bitframe = {c, d, e, f, g}
    TclTags = {c}
    UidBits = 4
    HdrBits = 2
    MaxOpens = 3
    MaxLoss = 1
INVARIANTS TypeOK SelectsOne
PROPERTIES NvbGrows NoRevival OpenReturns
