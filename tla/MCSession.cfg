\* Eleven command lines, tags of all kinds; two failures, movements or
\* interrupts.
SPECIFICATION Spec
CONSTANTS
    Tag <- MCTag
    Kind <- MCKind
    Tools <- MCTools
    Reader = "openpcd"
    Fields <- MCFields
    Cuts <- MCCuts
    Garbage <- MCGarbage
    MaxTrouble = 2
INVARIANTS TypeOK FrameConfig LibraryKeepsNothing
PROPERTY FoundAgain
