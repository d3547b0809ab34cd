SPECIFICATION FairSpec
CONSTANTS
    Transmitters = {t1}
    NoTx = NoTx
    Signals = {sig, destroyed}
    Destroyed = destroyed
    Slots = {method}
    MethodSlots = {method}
    Proxies = {1}
    MaxDepth = 5
    MaxQueue = 1
    Features = {"nest", "queued", "singleShot", "queuedDestroyed", "reenter", "noCheck", "failConnect", "reuse"}
INVARIANTS
    InductiveInv
PROPERTIES
    ProxiesReclaimed
