CONSTANTS
    SeqMod = 16
    Window = 2
    AckCount = 1
    RxqLen = 5
    TxqLen = 4
    Rand <- MCRand
    MayClose = {}
    MaxWork = 6
    SendWork = 1
    TurnWork = 7
SPECIFICATION Spec
INVARIANTS NothingForgotten
CHECK_DEADLOCK FALSE
