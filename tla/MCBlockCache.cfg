SPECIFICATION FairSpec
CONSTANTS
    Keys = {1, 2, 3}
    b1 = b1
    b2 = b2
    b3 = b3
    bBig = bBig
    Blocks <- MCBlocks
    BlockLen <- MCBlockLen
    Cap = 4
    TickMod = 7
    TickBound = 6
    None = None
INVARIANTS TypeOK Accounting CapRespected BreakIsSafe
PROPERTIES IsLRU InsertReturns
CHECK_DEADLOCK FALSE
