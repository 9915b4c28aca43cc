SPECIFICATION Spec
CONSTANTS
    User = {u1, u2}
    Device = {d1}
    Password = {p1}
    AccessToken = {a1, a2}
    RefreshToken = {r1}
    None = None
SYMMETRY Symmetry
CHECK_DEADLOCK FALSE
INVARIANT DeactivatedLoggedOut
