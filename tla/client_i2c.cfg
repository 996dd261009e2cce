CONSTANTS
    Tasks = {t1, t2}
    None = None
    NConn = 2
    MinPort = 2
    MaxPort = 5
    NBuffers = 2
    RxqLen = 1
    InterfaceFrees = FALSE
    Starts = {4}
    NetLen = 2
    MaxCalls = 5
SPECIFICATION Spec
INVARIANT OnePlace
