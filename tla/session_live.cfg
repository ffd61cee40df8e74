SPECIFICATION FairSpec
CONSTANTS
    Users = {u1, u2}
    Games = {g2}
    Archived = {g2}
    Unreadable = {g2}
    Rooms = {r1, r2}
    NoRoom = NoRoom
    Nil = Nil
    MaxCalls = 2
    MaxTimeouts = 0
PROPERTY RequestsEnd
INVARIANT OneOpenRoom
CHECK_DEADLOCK FALSE
