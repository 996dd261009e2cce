CONSTANTS
    NConn = 3
    FifoLen = 2
    RxqLen = 2
    Backlog = 1
    k1 = k1
    k2 = k2
    k3 = k3
    Keys <- MCKeys
    EphemeralKeys <- MCEphemeral
    NoKey = NoKey
    Kinds = {"plain", "rejected", "foreign"}
    RouterPriority = 1
    EarlyTraffic = FALSE
    MaxFrames = 4
SPECIFICATION FairSpec

INVARIANTS TypeOK NoConnLeak ClosedIsEmpty
PROPERTIES ConnsComeBack ImplementsFairService
