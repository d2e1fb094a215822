\* One stream, buffers of one message that overflow, no symmetry (liveness).
CONSTANTS
    t1 = t1  t2 = t2  x1 = x1  x2 = x2  q1 = q1  q2 = q2  s1 = s1  s2 = s2
    c1 = c1  c2 = c2  m1 = m1  m2 = m2
    Threads = {t1}
    Channels = {c1, c2}
    Texts = {x1, x2}
    MsgIds = {m1}
    Queues = {q1}
    Streams = {s1}
    MSG_ID_TTL = 3
    GLOBAL_DEDUP_WINDOW = 2
    MAX_MESSAGES_PER_CHANNEL = 1
    maxBuffer = 1
    Limit = 1
    MaxClock = 0
    MaxRestarts = 1
    MaxCalls = 3
SPECIFICATION FairPage
CHECK_DEADLOCK FALSE
INVARIANTS PageIndex RecentIsNewest ScopeFollows
PROPERTIES EventuallyShown
