SPECIFICATION MCSpec
CONSTANTS
    Parts = {"watches", "connections"}
    Conns = {"conn1", "conn2"}
    Servers = {"server"}
    Watches <- AllWatches
    NoWatch = NoWatch
    Fd <- AllFd
    Flags <- AllFlags
    Timeouts = {t1, t2}
    Failing = {t2}
    MaxInbox = 2
    MaxWakeups = 2
    Habits = {"removeHandled"}
INVARIANTS
    MirrorInv
PROPERTIES
    LoopServes
