SPECIFICATION Spec
CONSTANTS
    None = None
    Calls = {"c1", "c2"}
    Events <- MCEvents
    Carries <- MCCarries
    NonAsciiEvents = {}
    PolicyVerdict <- MCPolicyVerdict
    ModeOf <- MCModeOf
    GrantTerms <- MCGrantTerms
    Secret = "k1"
    DefaultGrant = 1
    DefaultTtl = 1
    MaxTime = 2
    MaxGrants = 1
    MaxRequests = 2
INVARIANTS TypeOK AuditedBeforeInvoked InvokedOnlyWithCause BlockedAskIsQueued
           TrueDecisionIsRecorded
PROPERTY ImplementsGate
CHECK_DEADLOCK FALSE
