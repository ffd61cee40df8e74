SPECIFICATION FairSpec
CONSTANTS
    cart = cart
    disc = disc
    Games <- MCGames
    Foldered <- MCFoldered
    Nil = Nil
    BatchSize = 2
    MaxChanges = 2
INVARIANTS Fresh EnrichedShown QueuedOnce
PROPERTY CatchesUp
CHECK_DEADLOCK FALSE
