SPECIFICATION AwardFairSpec
CONSTANTS
    Awards = {award}
    Entries = {entry}
    Hide = Hide
    MaxRetries = 3
    MaxUnloads = 1
INVARIANTS
    IndicatorTimed
PROPERTIES
    DisconnectedJustified
    PostsSettle
CHECK_DEADLOCK FALSE
