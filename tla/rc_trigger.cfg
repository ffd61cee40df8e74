SPECIFICATION TriggerSpec
CONSTANTS
    MeasuredMax = 2
    MaxTally = 2
    Definitions <- MCDefinitions
INVARIANTS
    MeaningKept
    NoFireAtOnce
    MeasuredBacked
