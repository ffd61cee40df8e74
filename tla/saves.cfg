SPECIFICATION FairSaveSpec
CONSTANTS
    s1 = s1
    s2 = s2
    s3 = s3
    States <- MCTwo
    NoState = NoState
    Torn = Torn
    Options <- MCEvery
    MaxKills = 1
    MaxFaults = 1
INVARIANTS NoCrashLoop NeverOlder
PROPERTY GameStarts
CHECK_DEADLOCK FALSE
