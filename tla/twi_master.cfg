CONSTANTS
    csp = csp
    main = main
    None = None
    Tasks <- MCTasks
    ToWrite <- MCToWrite
    ToRead <- MCToRead
    ReadBuffer = 2
    Preemptive = FALSE
    MaxCalls = 3
SPECIFICATION FairSpec
INVARIANTS TypeOK SentWhole ReadIsFresh
PROPERTIES ImplementsLink BecomesReady
