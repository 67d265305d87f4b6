SPECIFICATION FairSpec
CONSTANTS
    Ids = {u1, u2}
    Emails = {e1}
    Spellings = {e1, capitals, malformed}
    Normalised <- Typed
    e1 = e1
    capitals = capitals
    malformed = malformed
    Requests = {r1, r2, r3}
    Origin = Origin
    Null = Null
    Absent = Absent
    RedisFails = TRUE
    Droppable = {u1}
INVARIANTS
    TypeOK
    EmailsUnique
    NoServerError
    ServedNamesWereCommitted
PROPERTIES
    StaleEntriesExpire
CHECK_DEADLOCK FALSE
