SPECIFICATION MemorySpec
CONSTANTS
    NibbleBits = 1
    PointerBits = 5
    BitAnd <- MCAnd
    BitXor <- MCXor
    Contents <- MCContents
    Conditions <- MCConditions
INVARIANTS
    SumKept
    PriorKept
    VerdictKept
