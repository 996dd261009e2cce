CONSTANTS
    NConn = 3
    FifoLen = 2
    RxqLen = 2
    Backlog = 1
    k1 = k1
    k2 = k2
    k3 = k3
    Keys <- MCKeys
    EphemeralKeys = {}
    NoKey = NoKey
    Kinds = {"plain", "rdp", "returning"}
    RouterPriority = 0
    EarlyTraffic = TRUE
    MaxFrames = 4
SPECIFICATION Spec
INVARIANTS PostedOnce NoMisdelivery
PROPERTY ImplementsService
