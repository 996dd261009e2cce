CONSTANTS
    Buffer = 3
    SendBuffer = 1
    Header = 2
    NoByte = NoByte
    MayRead = TRUE
    MayRepeat = TRUE
    MayFail = TRUE
    MayBeLate = TRUE
    MaxBytes = 4
    MaxTransactions = 3
    FifoLen = 2
SPECIFICATION LifeSpec
INVARIANTS LifeTypeOK BeginsOneWrite WritesArrive RoutedWhole
