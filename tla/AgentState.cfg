SPECIFICATION FairSpec
CONSTANTS
    None = None
    Threads = {"w1", "w2", "q"}
    Deployments <- MCDeployments
    Works <- MCWorks
    Window = 1
    Threshold = 2
    Limit = 2
    MaxTime = 2
    MaxCalls = 1
INVARIANTS TypeOK AnswersAreBracketed SeesWholeBatches
PROPERTY CallsReturn
CHECK_DEADLOCK FALSE
