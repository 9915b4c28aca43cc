SPECIFICATION Spec
CONSTANTS
    User = {u1}
    RegTokenName = {k1, k2}
    FirstToken = k1
    SessionId = {s1, s2}
    Privilege = {"ISSUE_TOKENS"}
    Offer <- MCOffer
    IdleLimit = 1
    None = None
INVARIANTS
    TypeOK
    UsesWithinLimit
    UsesAreStages
    SessionsNameSpentToken
    ClosedMeansToken
PROPERTIES
    AbandonedSessionsRemoved
    PrivilegesFromTokens
