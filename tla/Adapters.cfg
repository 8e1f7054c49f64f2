SPECIFICATION FairSpec
CONSTANTS
    None = None
    Tasks = {"t1", "t2", "t3"}
    Configured = {"t1", "t2"}
    Adapter <- MCAdapter
    Tools <- MCTools
    Script <- MCScript
    Turns <- MCTurns
    Policy <- MCPolicy
    Grantable <- MCGrantable
    MaxAttempts <- MCMaxAttempts
INVARIANTS TypeOK OneByOne ResultsMatchCalls
PROPERTY InvocationsEnd
CHECK_DEADLOCK FALSE
