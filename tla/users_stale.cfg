SPECIFICATION Spec
CONSTANTS
    Ids = {u1}
    Emails = {e1}
    Spellings = {e1, capitals, malformed}
    Normalised <- Typed
    e1 = e1
    capitals = capitals
    malformed = malformed
    Requests = {r1, r2, r3}
    Origin = Origin
    Null = Null
    Absent = Absent
    RedisFails = FALSE
    Droppable = {}
SYMMETRY RequestSymmetry
INVARIANTS
    GetIsFresh
CHECK_DEADLOCK FALSE
