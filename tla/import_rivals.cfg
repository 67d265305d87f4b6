SPECIFICATION FairSpec
CONSTANTS
    t1 = t1
    t2 = t2
    t3 = t3
    o1 = o1
    o2 = o2
    Imports = {p1, p2}
    Tasks = {t1, t2, t3}
    Owners = {o1, o2}
    OwnerOf <- MCOwnerOf
    Files <- MCFiles
    BatchSizes = {1, 2, 3}
INVARIANTS
    TypeOK
    ReportedFilesAreStored
    RowsCreditedOnce
    OnlyCrossedOrdersDeadlock
PROPERTIES
    EveryImportEnds
CHECK_DEADLOCK FALSE
