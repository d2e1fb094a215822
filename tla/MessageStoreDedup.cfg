\* Two threads, no subscribers: the locked section of add() and its clocks.
CONSTANTS
    t1 = t1  t2 = t2  x1 = x1  x2 = x2  q1 = q1  q2 = q2
    c1 = c1  c2 = c2  c3 = c3  m1 = m1  m2 = m2
    Threads = {t1, t2}
    Channels = {c1, c2, c3}
    Texts = {x1}
    MsgIds = {m1, m2}
    Queues = {}
    MSG_ID_TTL = 3
    GLOBAL_DEDUP_WINDOW = 2
    MAX_MESSAGES_PER_CHANNEL = 2
    MaxClock = 3
    MaxCalls = 4
SPECIFICATION Spec
SYMMETRY Perms
CHECK_DEADLOCK FALSE
INVARIANTS DequesKeepNewest DedupConsistent RetransmitWindow GlobalWindow
PROPERTIES PromotionEarned
