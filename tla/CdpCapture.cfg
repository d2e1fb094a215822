\* One unit of time is a minute: recv waits for two.
CONSTANTS
    CAPTURE_TIMEOUT = 2
    MaxRequests = 2
    MaxInbox = 2
SPECIFICATION Spec
CHECK_DEADLOCK FALSE
INVARIANT ListHasAddress
PROPERTIES SwitchIsEnough SilenceEnds
