SPECIFICATION Spec
CONSTANTS
    Exports = {e1, e2}
    Tasks = {t1, t2}
    PoolSize = 1
    Batch = 1
SYMMETRY ExportSymmetry
INVARIANTS
    ConnectionsFollowRequests
CHECK_DEADLOCK FALSE
