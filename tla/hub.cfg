SPECIFICATION Spec
CONSTANTS
    Workers = {w1, w2}
    Users = {u1, u2}
    Games = {g1}
    NoRoom = NoRoom
    Nil = Nil
    MaxRequests = 2
SYMMETRY Interchangeable
INVARIANT SessionsLinked
INVARIANT SessionsCovered
CHECK_DEADLOCK FALSE
