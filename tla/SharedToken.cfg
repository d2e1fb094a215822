\* Two channels with one token.
CONSTANTS
    c1 = c1  c2 = c2  k1 = k1  k2 = k2
    Channels = {c1, c2}
    TokenOf <- SharedToken
    RECONNECT_MIN = 2
    RECONNECT_MAX = 3
    AuthTries = 2
    InitTries = 1
    MaxFaults = 0
SPECIFICATION Spec
CHECK_DEADLOCK FALSE
PROPERTY EventuallyConnected
