SPECIFICATION FairSpec
CONSTANTS
    Table = {"customers"}
    Key = {"k1"}
    Overlap = 2
    MaxLag = 1
    MaxClock = 6
CHECK_DEADLOCK FALSE
INVARIANTS
    NoRowIsLost
PROPERTIES
    EveryRowArrives
