SPECIFICATION Spec
CONSTANTS
    Users = {u1}
    Requests = {r1, r2}
    Tasks = {t1}
    Ages = {"past"}
    Origin = Origin
    Null = Null
    Absent = Absent
SYMMETRY RequestSymmetry
INVARIANTS
    StoredTasksReadable
CHECK_DEADLOCK FALSE
