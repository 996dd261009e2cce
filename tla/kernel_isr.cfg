CONSTANTS
    idle = idle
    low = low
    high = high
    Tasks <- MCTasks
    Idle = idle
    Priority <- MCPriority
    End = End
    Length = 1
    Width = 4
    Epochs = 2
    Operations <- MCDelays
    BlockTimes = {2, 3}
    TaskApi = TRUE
    MaxPended = 1
    MaxLock = 1
SPECIFICATION FairSpec
PROPERTY TopWakes
