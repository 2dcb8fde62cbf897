\* Groups of two data and one parity shard.  Of 26 sequence numbers 24 are used:
\* 16 groups are two rounds.  A decoder remembers as many packets as a group has
\* and two more, as maxAutoTuneSamples allows for the largest.
CONSTANTS
    EncDS = 2
    EncPS = 1
    DecParams <- AnyParams
    MaxShardSets = 2
    MaxTotal = 4
    MaxSamples = 5
    Copies = TRUE
    Mod = 26
    Garbage = Garbage
    MaxGroups = 16
    MaxLag = 1
    MaxAhead = 1
SPECIFICATION Spec
VIEW Seen
ACTION_CONSTRAINT TuneSoon
INVARIANTS
    RecoveredIsSent
    EnoughIsRecovered
    NoSpuriousTune
PROPERTIES
    TunesRight
CHECK_DEADLOCK FALSE
