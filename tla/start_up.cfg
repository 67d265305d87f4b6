SPECIFICATION FairSpec
CONSTANTS
    w1 = w1
    w2 = w2
    w3 = w3
    Workers = {w1, w2, w3}
    PodOf <- MCPodOf
    Upgrades = {m1, m2}
    Failures = 1
    Outages = 1
    None = None
INVARIANTS
    TypeOK
    SchemaHasOneMaker
PROPERTIES
    EveryWorkerServes
CHECK_DEADLOCK FALSE
