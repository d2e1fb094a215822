\* Two threads, each with a call or one of them with two; two subscribers; no
\* symmetry (liveness).
CONSTANTS
    t1 = t1  t2 = t2  x1 = x1  x2 = x2  q1 = q1  q2 = q2
    c1 = c1  c2 = c2  c3 = c3  m1 = m1  m2 = m2
    Threads = {t1, t2}
    Channels = {c1, c2}
    Texts = {x1, x2}
    MsgIds = {m1}
    Queues = {q1, q2}
    MSG_ID_TTL = 1
    GLOBAL_DEDUP_WINDOW = 1
    MAX_MESSAGES_PER_CHANNEL = 1
    MaxClock = 0
    MaxCalls = 2
SPECIFICATION Spec
CHECK_DEADLOCK FALSE
INVARIANTS AnnouncedOnce NoSubscriberMissed
PROPERTIES ImplementsFeed EveryMessageReaches
