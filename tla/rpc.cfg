SPECIFICATION FairSpec
CONSTANTS
    Calls = {c1, c2, c3}
    Own = c1
    NoCall = NoCall
    WriteFails = TRUE
INVARIANT TypeOK
INVARIANT TwiceOnlyAfterCleanup
PROPERTY KeepsContract
PROPERTY CallsReturn
CHECK_DEADLOCK FALSE
