SPECIFICATION Spec
CONSTANTS
    Transmitters = {t1}
    NoTx = NoTx
    Signals = {sig, destroyed}
    Destroyed = destroyed
    Slots = {method}
    MethodSlots = {method}
    Proxies = {1}
    MaxDepth = 6
    MaxQueue = 1
    Features = {"nest", "reenter"}
INVARIANTS
    ExecutingAlive
