SPECIFICATION Spec
CONSTANTS
    User = {u1}
    Device = {d1, d2}
    Password = {p1}
    AccessToken = {a1, a2, a3}
    RefreshToken = {r1, r2}
    None = None
SYMMETRY Symmetry
CHECK_DEADLOCK FALSE
INVARIANTS
    TypeOK
    KnownTokensIndexed
    KnownRefreshTokensNamed
    LocksReturned
    AnswersKeepPromises
PROPERTIES
    ImplementsTokens
    ImplementsSessions
