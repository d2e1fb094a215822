\* One game instance that moves once.
CONSTANTS
    CDP_PORT_START = 1
    CDP_PORT_END = 1
    MAX_CLIENTS = 1
    Ports = {1}
    Channels = {c1}
    Known = {c1}
    Default = c0
    MaxMoves = 1
    MaxFrames = 1
    MaxFaults = 0
SPECIFICATION Spec
CHECK_DEADLOCK FALSE
PROPERTY FollowsTheGame
