\* As in MCKcpLink_live, with reordering of what the receiver sends back.
CONSTANTS
    cli = cli
    srv = srv
    Peers <- MCPeers
    FragCounts = {1}
    MaxFrags <- Frags40
    SndWnds = {2}
    RcvWnds = {1}
    SndWndInit = 2
    RcvWndInit = 1
    RmtWndInit = 2
    CwndChoices = {2}
    AckClock = 2
    AckNoDelay = TRUE
    WndMod = 65536
    NetCap <- Net21
    MaxFaults = 1
    Ordered = FALSE
    Coalesce = TRUE
    FecRecovery = FALSE
SPECIFICATION Spec
ACTION_CONSTRAINT InputFirst
INVARIANTS
    QuietWhenDelivered
CHECK_DEADLOCK FALSE
