SPECIFICATION Spec
CONSTANTS
    User = {u1, u2}
    Device = {d1, d2}
    Password = {p1, p2}
    AccessToken = {a1, a2, a3, a4}
    RefreshToken = {r1, r2}
    None = None
SYMMETRY Symmetry
CHECK_DEADLOCK FALSE
INVARIANTS
    TypeOK
    AccessTokensIndexed
    DevicesHaveTokens
    RefreshTokensIndexed
    SessionsKeepIdentity
    NoInternalError
    AnswersKeepPromises
PROPERTY ImplementsSessions
