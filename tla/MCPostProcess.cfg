\* Producers, workers and Close of two sessions interleave; postQueue, the
\* batch and the budget all reach their limits; one worker starts late.  What
\* happens once two workers share a batch (BatchOwned) is a data race and is
\* not explored.  Every packet of an open session is sent.  Producers may stop.
CONSTANTS
    s1 = s1
    s2 = s2
    Sessions <- MCSessions
    Workers = {w1, w2}
    LateWorkers = {w2}
    MaxPackets <- Packets31
    DevBacklog = 2
    PpBudget = 2
    MaxBatchSize = 2
    Extras = {0}
    None = None
SPECIFICATION FairSpec
CONSTRAINT BatchOwned
INVARIANTS
    ExclusiveClaim
    FifoPerSession
    NoStrandedPacket
    ClosedStaysEmpty
    CloseWaitsForSend
PROPERTIES
    Drained
CHECK_DEADLOCK FALSE
