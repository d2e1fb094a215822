\* Game instances at the first and the last of three ports; c0 is the default
\* channel, c2 has no host in the configuration.
CONSTANTS
    CDP_PORT_START = 1
    CDP_PORT_END = 3
    MAX_CLIENTS = 3
    Ports = {1, 3}
    Channels = {c1, c2}
    Known = {c1}
    Default = c0
    MaxMoves = 2
    MaxFrames = 1
    MaxFaults = 1
SPECIFICATION Spec
CHECK_DEADLOCK FALSE
INVARIANTS SyncedFramesRight MoveIsFollowed OnePerMegaphone ScopeIsTrue
PROPERTY StopEnds
