CONSTANTS
    idle = idle
    low = low
    high = high
    Tasks <- MCTasks
    Idle = idle
    Priority <- MCPriority
    End = End
    Length = 1
    Width = 4
    Epochs = 2
    Operations <- MCOperations
    BlockTimes = {0, 2, 3}
    TaskApi = FALSE
    MaxPended = 1
    MaxLock = 1
SPECIFICATION FairSpec
INVARIANTS ListsOK NoLostWakeup HighestRuns TimedOutHonestly WakesOnTime
PROPERTY TopWakesIfInterruptsReturn
