\* A denial in the second phase of the handshake.
CONSTANTS
    c1 = c1  c2 = c2  k1 = k1  k2 = k2
    Channels = {c1}
    TokenOf <- OwnTokens
    RECONNECT_MIN = 2
    RECONNECT_MAX = 3
    AuthTries = 2
    InitTries = 1
    MaxFaults = 1
SPECIFICATION Spec
CHECK_DEADLOCK FALSE
PROPERTY DenialStops
