SPECIFICATION Spec
CONSTANTS
    N = 3
    time = time
    rings = rings
    Values = {time, rings}
    Games <- MCGames
    HitValues = {time}
    Readings = {0, 1}
    Burst = 1
    MaxHits = 2
    Fragile = {1}
INVARIANTS
    ReferencesCounted
    ScreenCurrent
    TrackerTells
CHECK_DEADLOCK FALSE
