\* Two threads that save, a flush, a failing disk, one end of the process.
CONSTANTS
    t1 = t1  t2 = t2  main = main  c1 = c1  c2 = c2
    Threads = {t1, t2}
    Main = main
    Channels = {c1, c2}
    MAX_MESSAGES_PER_CHANNEL = 2
    MAX_PERSISTED = 0
    PERSIST_INTERVAL = 1
    DiskMayFail = TRUE
    MaxClock = 1
    MaxBorn = 3
    MaxStops = 1
SPECIFICATION Spec
SYMMETRY Perms
CHECK_DEADLOCK FALSE
INVARIANTS NumbersAhead WholeFileIsComplete
