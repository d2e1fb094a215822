\* The core channel, another and an excluded one.
CONSTANTS
    Channels = {c1, x}
    Selections = {{c1, x}}
    Lists = {{c1}, {x}, {c1, x}}
    Text = text
    Hostless = {{}}
    EXCLUDED_CHANNELS = {x}
    CORE_CHANNEL = c1
SPECIFICATION Spec
CHECK_DEADLOCK FALSE
INVARIANT ExcludedNeverConnected
