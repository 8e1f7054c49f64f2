SPECIFICATION Spec
CONSTANTS
    None = None
    Asks <- MCAsks
    Ttls <- MCTtls
    GrantTerms <- MCGrantTerms
    Operators = {o1}
    Secret = "k1"
    DefaultGrant = 2
    MaxTime = 2
    MaxGrants = 1
    MaxRequests = 2
PROPERTY OverdueIsNotApproved
