\* The page in server mode: one thread, two messages, two streams; and in test
\* mode, where a message after every two is a global one.
CONSTANTS
    t1 = t1  t2 = t2  x1 = x1  x2 = x2  q1 = q1  q2 = q2  s1 = s1  s2 = s2
    c1 = c1  c2 = c2  m1 = m1  m2 = m2
    Threads = {t1}
    Channels = {c1}
    Texts = {x1}
    MsgIds = {m1, m2}
    Queues = {q1, q2}
    Streams = {s1, s2}
    MSG_ID_TTL = 3
    GLOBAL_DEDUP_WINDOW = 2
    MAX_MESSAGES_PER_CHANNEL = 2
    maxBuffer = 2
    Limit = 2
    MaxClock = 0
    MaxRestarts = 0
    MaxCalls = 2
    GlobalEvery = 2
    MaxTicks = 5
    MaxClicks = 4
SPECIFICATION SpecMonitor
SYMMETRY Perms
CHECK_DEADLOCK FALSE
INVARIANTS SeesAllSinceOpen CompleteAfterOverlap SimulationInHand
