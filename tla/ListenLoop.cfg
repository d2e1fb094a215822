\* Half seconds: an interval of three seconds and a timeout of one.
CONSTANTS
    HEARTBEAT_INTERVAL = 6
    RecvTimeout = 2
    MaxAge = 12
    MaxOwed = 2
SPECIFICATION SpecLoop
CHECK_DEADLOCK FALSE
INVARIANT HeartbeatInTime
