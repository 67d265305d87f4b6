SPECIFICATION SerialSpec
CONSTANTS
    Users = {u1}
    Requests = {r1, r2, r3}
    Tasks = {t1}
    Ages = {"past"}
    Origin = Origin
    Null = Null
    Absent = Absent
INVARIANTS
    StoredTasksReadable
    DeletedStaysDeleted
PROPERTIES
    KeepsPromise
    FirstCompletionKept
CHECK_DEADLOCK FALSE
