CONSTANTS
    Length = 4
    Decimation = 1
    Points = 8
    Samples <- MCSamples
    Unknown = 7
    HkBytes <- MCHkBytes
    Commands = {"processAll", "sendSignal", "sendFFT", "echoBack", "freeHeap", "houseKeeping", "unused"}
    QueueLen = 2
    InTime = FALSE
    Hoisted = TRUE
    MaxCommands = 4
    Modulus = 17
    Omega = 2
SPECIFICATION SpectrumSpec
INVARIANTS TypeOK SpiExclusive ReportsRawOrTested LoopInvariant ReadsTransformOfLatest
PROPERTIES ClockResumes CommandsEnd
