SPECIFICATION FairSpec
CONSTANTS
    Threads = {t1, t2, t3}
    Callers = {c1, c2}
    Waiters = {c1}
    None = None
    MaxJobs = 3
INVARIANTS TypeOK NoStranded DestroyedIsQuiet
PROPERTIES WaitsForAll CallsReturn ImplementsJobQueue
CHECK_DEADLOCK FALSE
