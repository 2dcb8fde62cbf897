\* FIFO network with finitely many losses, small receive window: everything
\* written is read, and no receiver holds more than its window.
CONSTANTS
    cli = cli
    srv = srv
    Peers <- MCPeers
    FragCounts = {1}
    MaxFrags <- Frags30
    SndWnds = {2}
    RcvWnds = {1}
    SndWndInit = 2
    RcvWndInit = 1
    RmtWndInit = 2
    CwndChoices = {2}
    AckClock = 2
    AckNoDelay = TRUE
    WndMod = 65536
    NetCap <- Net11
    MaxFaults = 1
    Ordered = TRUE
    Coalesce = TRUE
    FecRecovery = FALSE
SPECIFICATION FairSpec
INVARIANTS
    WindowRespected
    TypeOK
    LinkInv
PROPERTIES
    Delivery
CHECK_DEADLOCK FALSE
