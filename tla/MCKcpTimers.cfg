SPECIFICATION Spec
CONSTANTS
  Word = 14
  IKCP_RTO_NDL = 1
  IKCP_RTO_MIN = 1
  IKCP_RTO_DEF = 2
  IKCP_RTO_MAX = 2
  IKCP_PROBE_INIT = 2
  IKCP_PROBE_LIMIT = 3
  IKCP_THRESH_MIN = 2
  interval = 2
  mss = 1
  snd_wnd = 2
  RmtWnds = {0, 2}
  Options <- MCOptions
  MaxQueue = 1
  MaxRto = 4
  MaxRtt = 1
VIEW Seen
ACTION_CONSTRAINTS
  ConfiguredFirst
  HeadInFlight
INVARIANTS
  RetransmitOnTime
  ProbeOnTime
PROPERTY
  WindowSane
