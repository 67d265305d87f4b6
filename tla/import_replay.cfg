SPECIFICATION Spec
CONSTANTS
    t1 = t1
    t2 = t2
    o1 = o1
    o2 = o2
    e1 = e1
    e2 = e2
    Owners = {o1, o2, x}
    Emails = {e1, e2}
    Tasks = {t1, t2}
    Absent = Absent
    Documents <- MCDocuments
    BatchSize = 2
    Before = {x}
    Runs = 2
    Disturbances = 0
INVARIANTS
    ReplayInsertsNothing
CHECK_DEADLOCK FALSE
