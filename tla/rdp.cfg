CONSTANTS
    SeqMod = 16
    Window = 2
    AckCount = 1
    RxqLen = 5
    TxqLen = 5
    Rand <- MCRand
    MayClose = {"client"}
    MaxWork = 8
    SendWork = 2
    TurnWork = 3
SPECIFICATION Spec
INVARIANTS QueuesOK OrderlyDelivery OpenToEachOther NothingForgotten
CHECK_DEADLOCK FALSE
