\* One connected channel and one that is only listed.
CONSTANTS
    Connected = {c1}
    Listed = {c1, c2}
    EXCLUDED_CHANNELS = {}
    Channels = {c1, c2, c3}
    Streams = {s1}
    MaxChanges = 2
    MaxMessages = 1
    MaxBreaks = 0
SPECIFICATION Spec
CHECK_DEADLOCK FALSE
INVARIANT AllTabShowsAll
