SPECIFICATION Spec
CONSTANTS
    None = None
    Calls = {"c1", "c2"}
    Events <- MCEvents
    Carries <- AnyCarries
    NonAsciiEvents = {}
    PolicyVerdict <- MCPolicyVerdict
    ModeOf <- AllEnforce
    GrantTerms <- MCGrantTerms
    Secret = "k1"
    DefaultGrant = 1
    DefaultTtl = 1
    MaxTime = 2
    MaxGrants = 1
    MaxRequests = 2
INVARIANT ApprovalIsScoped
CHECK_DEADLOCK FALSE
