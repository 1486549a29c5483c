\* Every kind of card; two operations on it, one frame or access that fails.
SPECIFICATION Spec
CONSTANTS
    Cards = {"mini", "1k", "4k", "ul"}
    Access <- MCAccess
    Ops <- MCOps
    MaxOps = 2
    MaxTrouble = 1
INVARIANTS TypeOK WriteOutcome ReadOutcome AccessShown
CHECK_DEADLOCK FALSE
