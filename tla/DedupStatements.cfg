\* Statements about duplicates that do not hold: interleaved repeats of one text
\* on two channels, and a thread that gets the lock with an old reading of the
\* clock.  TLC stops at the first: each is shown when the other is taken out.
CONSTANTS
    t1 = t1  t2 = t2  x1 = x1  x2 = x2  q1 = q1  q2 = q2
    c1 = c1  c2 = c2  c3 = c3  m1 = m1  m2 = m2
    Threads = {t1, t2}
    Channels = {c1, c2}
    Texts = {x1}
    MsgIds = {m1, m2}
    Queues = {}
    MSG_ID_TTL = 2
    GLOBAL_DEDUP_WINDOW = 2
    MAX_MESSAGES_PER_CHANNEL = 2
    MaxClock = 3
    MaxCalls = 3
SPECIFICATION Spec
CHECK_DEADLOCK FALSE
SYMMETRY Perms
INVARIANTS TwoChannelsAreGlobal FullWindows
