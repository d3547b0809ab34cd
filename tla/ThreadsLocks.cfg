SPECIFICATION FairSpec
CONSTANTS
    Threads = {gui, w1}
    Owner = gui
    NoThread = NoThread
    Proxies = {p1, p2}
    NoProxy = NoProxy
    MaxCalls = 1
    Habits = {"connect", "disconnect"}
INVARIANTS
    IInv
    NoMutualWait
    NoHashRace
PROPERTIES
    OperationsEnd
