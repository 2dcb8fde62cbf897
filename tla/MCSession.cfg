\* Two callers: two that read, one that reads and one that polls, or two that
\* write.  Messages of one and two bytes, slices of one and two bytes; a window
\* that one Write may overrun.  The session may be closed, so it may stop.
CONSTANTS
    c1 = c1
    c2 = c2
    Callers <- MCCallers
    Roles <- MCRoles
    BufLens = {1, 2}
    MsgSizes = {1, 2}
    MaxBytes = 3
    SndWnd = 1
    Segments = {1, 2}
SPECIFICATION FairSpec
ACTION_CONSTRAINT Noticed
INVARIANTS
    NoReaderSleeps
    BytesInOrder
    OneGateOwner
PROPERTIES
    WriteEnds
    Interruptible
CHECK_DEADLOCK FALSE
