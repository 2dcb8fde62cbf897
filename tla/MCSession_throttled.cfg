\* Two callers that write under a rate limit whose tokens may take any time.
CONSTANTS
    c1 = c1
    c2 = c2
    Callers <- MCCallers
    Roles <- MCWriters
    BufLens = {1, 2}
    MsgSizes = {1, 2}
    MaxBytes = 3
    SndWnd = 1
    Segments = {1, 2}
SPECIFICATION SlowSpec
ACTION_CONSTRAINT Noticed
PROPERTY ThrottledInterruptible
CHECK_DEADLOCK FALSE
