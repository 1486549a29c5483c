\* Inventory, select, read and write, over a link that fails twice.
SPECIFICATION FairSpec
CONSTANTS
    a = a
    b = b
    c = c
    d = d
    Tags = {a, b, c, d}
    UID <- MCUID
    DSFID <- MCDSFID
    SelectTags = {a, b}
    ByteBits = 3
    UidBits = 4
    Slots = 2
    SlotBits = 1
    MaxOpens = 2
    MaxLoss = 2
INVARIANTS TypeOK OpenFindsTag OwnTagOnly
PROPERTIES MaskGrows OpenReturns
