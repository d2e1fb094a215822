\* A message stored while flush() runs.
CONSTANTS
    t1 = t1  t2 = t2  main = main  c1 = c1  c2 = c2
    Threads = {t1}
    Main = main
    Channels = {c1, c2}
    MAX_MESSAGES_PER_CHANNEL = 2
    MAX_PERSISTED = 0
    PERSIST_INTERVAL = 1
    DiskMayFail = FALSE
    MaxClock = 0
    MaxBorn = 2
    MaxStops = 1
SPECIFICATION Spec
SYMMETRY Perms
CHECK_DEADLOCK FALSE
PROPERTY FlushPersistsTail
