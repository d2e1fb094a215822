\* A connection that is established and lost again.
CONSTANTS
    c1 = c1  c2 = c2  k1 = k1  k2 = k2
    Channels = {c1}
    TokenOf <- OwnTokens
    RECONNECT_MIN = 2
    RECONNECT_MAX = 3
    AuthTries = 2
    InitTries = 1
    MaxFaults = 2
SPECIFICATION Spec
CHECK_DEADLOCK FALSE
INVARIANT BackoffResets
