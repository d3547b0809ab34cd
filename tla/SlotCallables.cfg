SPECIFICATION Spec
CONSTANTS
    Transmitters = {t1}
    NoTx = NoTx
    Signals = {sig, destroyed}
    Destroyed = destroyed
    Slots = {func}
    MethodSlots = {}
    Proxies = {1, 2}
    MaxDepth = 6
    MaxQueue = 1
    Features = {"nest", "queued", "singleShot"}
INVARIANTS
    FindIsConnected
    DestroyedSlotRuns
    SingleShotOnce
