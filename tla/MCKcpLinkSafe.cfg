\* One writer.  The constants are those of the setting "data": data segments are
\* reordered, lost and duplicated, and the reader may shrink its receive window
\* under what it holds.  MCKcpLinkSafe says what differs in the setting "acks".
\* The writer's messages are all sent and read, so the system may stop.
CONSTANTS
    cli = cli
    srv = srv
    Peers <- MCPeers
    FragCounts = {1, 2}
    MaxFrags <- Frags30
    SndWnds = {2}
    RcvWnds = {1}
    SndWndInit = 2
    RcvWndInit = 2
    RmtWndInit = 2
    CwndChoices = {2}
    AckClock = 2
    AckNoDelay = TRUE
    WndMod = 65536
    NetCap <- Net12
    MaxFaults = 1
    Ordered = FALSE
    Coalesce = TRUE
    FecRecovery = FALSE
SPECIFICATION SafeSpec
ACTION_CONSTRAINTS
    InputFirst
    OneIsLong
    RebuiltMatters
    ResizedInUse
INVARIANTS
    DeliveredInOrder
    WholeMessages
    NothingStranded
    SafeRelease
    WirePayload
PROPERTIES
    ChannelSpec
    NoRegress
CHECK_DEADLOCK FALSE
