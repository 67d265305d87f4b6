SPECIFICATION Spec
CONSTANTS
    Exports = {e1, e2}
    Tasks = {t1, t2}
    PoolSize = 1
    Batch = 1
INVARIANTS
    TypeOK
    SavedMissesOnlyNewcomers
    RowsMetInTheTable
PROPERTIES
    EveryExportEnds
CHECK_DEADLOCK FALSE
