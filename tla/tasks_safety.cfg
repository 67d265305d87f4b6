SPECIFICATION FairSpec
CONSTANTS
    Users = {u1}
    Requests = {r1, r2, r3}
    Tasks = {t1}
    Ages = {"past"}
    Origin = Origin
    Null = Null
    Absent = Absent
INVARIANTS
    TypeOK
    OwnerIntegrity
    RejectedLeaveNoTrace
    AcknowledgedCreationStays
PROPERTIES
    UndisturbedCommitKeepsPromise
    EveryRequestAnswered
CHECK_DEADLOCK FALSE
