\* Three tasks, put at any time for any of four instants; Close at any time,
\* after which the shard may stop.
CONSTANTS
    MaxPuts = 3
    MaxTime = 3
    Slack = 1
    None = None
SPECIFICATION FairSpec
INVARIANTS
    NoLostWakeup
    EachTaskOnce
PROPERTIES
    NeverEarly
    EveryTaskRuns
CHECK_DEADLOCK FALSE
