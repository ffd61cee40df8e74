SPECIFICATION Spec
CONSTANTS
    Logins = {host, guest}
    Loads = {first, second}
    RomOf <- MCRomOf
    MaxCalls = 3
    Nil = Nil
SYMMETRY Interchangeable
INVARIANTS
    GameIsLatest
    PanicExplained
    OkMeansDone
    NobodyForgotten
CHECK_DEADLOCK FALSE
