\* A channel that is listed, an excluded one that is connected all the same, and
\* an excluded one that is only listed.
CONSTANTS
    Connected = {x}
    Listed = {c1, y}
    EXCLUDED_CHANNELS = {x, y}
    Channels = {c1, x, y}
    Streams = {s1, s2}
    MaxChanges = 2
    MaxMessages = 1
    MaxBreaks = 1
SPECIFICATION Spec
CHECK_DEADLOCK FALSE
INVARIANTS ShownIsCurrent TabForEach
SYMMETRY Perms
