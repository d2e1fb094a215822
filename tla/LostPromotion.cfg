\* Two threads and one subscriber: the order of the puts.
CONSTANTS
    t1 = t1  t2 = t2  x1 = x1  x2 = x2  q1 = q1  q2 = q2
    c1 = c1  c2 = c2  c3 = c3  m1 = m1  m2 = m2
    Threads = {t1, t2}
    Channels = {c1, c2}
    Texts = {x1}
    MsgIds = {m1, m2}
    Queues = {q1}
    MSG_ID_TTL = 3
    GLOBAL_DEDUP_WINDOW = 2
    MAX_MESSAGES_PER_CHANNEL = 2
    MaxClock = 0
    MaxCalls = 3
SPECIFICATION Spec
CHECK_DEADLOCK FALSE
INVARIANT SubscriberSeesScope
