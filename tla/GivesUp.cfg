CONSTANTS
    CAPTURE_TIMEOUT = 2
    MaxRequests = 1
    MaxInbox = 1
SPECIFICATION Spec
CHECK_DEADLOCK FALSE
INVARIANTS GivesUp
