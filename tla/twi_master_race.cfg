CONSTANTS
    csp = csp
    main = main
    None = None
    Tasks <- MCTasks
    ToWrite <- MCToWrite
    ToRead <- MCOnlyWrite
    ReadBuffer = 2
    Preemptive = TRUE
    MaxCalls = 1
SPECIFICATION Spec
INVARIANT AcceptedIsSent
