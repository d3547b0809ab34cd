SPECIFICATION Spec
CONSTANTS
    Transmitters = {t1}
    NoTx = NoTx
    Signals = {sig, destroyed}
    Destroyed = destroyed
    Slots = {method}
    MethodSlots = {method}
    Proxies = {1, 2}
    MaxDepth = 6
    MaxQueue = 1
    Features = {"nest", "queued"}
INVARIANTS
    ExecutingAlive
    WatchedAndFiled
PROPERTIES
    DisabledForGood
    ConnectionPromise
