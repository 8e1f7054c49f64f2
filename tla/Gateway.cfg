SPECIFICATION FairSpec
CONSTANTS
    Methods <- MCMethods
    MaxSent = 3
    MaxChatter = 1
    MaxBursts = 1
INVARIANTS TypeOK OnlyPassedCallsReachServer AnsweredOnce InStep
PROPERTY RequestsAreAnswered
CHECK_DEADLOCK FALSE
