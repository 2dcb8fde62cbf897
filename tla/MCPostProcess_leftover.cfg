\* A batch that outlives its closed session.
CONSTANTS
    s1 = s1
    s2 = s2
    Sessions <- MCSessions
    Workers = {w1, w2}
    LateWorkers = {}
    MaxPackets <- Packets21
    DevBacklog = 2
    PpBudget = 2
    MaxBatchSize = 2
    Extras = {0}
    None = None
SPECIFICATION Spec
PROPERTIES
    NoSendAfterGate
CHECK_DEADLOCK FALSE
