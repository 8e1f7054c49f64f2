SPECIFICATION ReplaySpec
CONSTANTS
    None = None
    PolicyVerdict <- MCPolicyVerdict
    SimulatedVerdict <- MCSimulatedVerdict
    Traces <- MCTraces
    Mode = "enforce"
    Asks <- MCAsks
    Ttls = {1}
    GrantTerms <- MCGrantTerms
    Operators = {}
    Secret = "k1"
    DefaultGrant = 1
    DefaultTtl = 1
    MaxTime = 2
    MaxGrants = 1
    MaxRequests = 1
INVARIANTS ReplayTypeOK AuthorizesNothingNew RepeatsOnlyLose
CHECK_DEADLOCK FALSE
