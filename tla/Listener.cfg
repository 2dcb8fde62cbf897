\* Two addresses and two conversations, so that a session is replaced by another
\* of its address while a third has one of its own; a backlog of one.  The
\* number of sessions is bounded, so the system may stop.
CONSTANTS
    Addrs = {a1, a2}
    Convs = {c1, c2}
    None = None
    Modes = {"own", "served", "pushed"}
    AcceptBacklog = 1
    MaxSessions = 4
SPECIFICATION FairSpec
INVARIANTS
    MapHasOpen
    ReceiverAsNeeded
    AllTold
PROPERTIES
    InputReturns
CHECK_DEADLOCK FALSE
