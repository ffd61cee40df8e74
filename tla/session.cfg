SPECIFICATION Spec
CONSTANTS
    Users = {u1, u2}
    Games = {g1, g2}
    Archived = {g2}
    Unreadable = {g2}
    Rooms = {r1, r2, r3}
    NoRoom = NoRoom
    Nil = Nil
    MaxCalls = 2
    MaxTimeouts = 1
SYMMETRY Interchangeable
INVARIANT TypeOK
 
INVARIANT SlotHeld
INVARIANT NoConcurrentCreation
INVARIANT StrayWasHydrated
INVARIANT AnswerUnderway
CHECK_DEADLOCK FALSE
