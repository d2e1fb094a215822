\* The core channel, another and an excluded one.
CONSTANTS
    Channels = {c1, c2, x}
    Selections = {{c1, x}}
    Lists = {{c1}, {x}, {c1, text}, {c1, c2, x}}
    Text = text
    Hostless = {{}, {c2}}
    EXCLUDED_CHANNELS = {x}
    CORE_CHANNEL = c1
SPECIFICATION Spec
CHECK_DEADLOCK FALSE
INVARIANTS ConnectionsAllowed NoneForgotten OneSessionPerToken NextRunKnows NoOtherCrash
PROPERTY StartEnds
