SPECIFICATION Spec
CONSTANTS
    Threads = {gui, w1, w2}
    Owner = gui
    NoThread = NoThread
    Proxies = {p1, p2}
    NoProxy = NoProxy
    MaxCalls = 1
    Habits = {"connect", "collect"}
INVARIANTS
    DestructorAssert
PROPERTIES
    DisabledIgnored
SYMMETRY Others
