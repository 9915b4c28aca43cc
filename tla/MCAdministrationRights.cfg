SPECIFICATION Spec
CONSTANTS
    u1 = u1
    u2 = u2
    s1 = s1
    s2 = s2
    a1 = a1
    a2 = a2
    n1 = n1
    None = None
    User = {u1, u2, u3}
    RegToken = {k1, k2}
    FirstToken = k1
    Thread = {t1, t2}
    Server = {s1, s2}
    Room = {}
    FilterId = {}
    FilterBody = {}
    DisplayName = {}
    Term = {}
    Alias = {}
    ServerPart <- MCNoServer
    PrivilegeList <- MCRights
    ConfigRequest = {}
    InitialConfig <- MCInitialConfig
    NameMatch = {}
    DisplayMatch = {}
SYMMETRY MCRightsSymmetry
INVARIANTS
    PrivilegesAsSaid
PROPERTIES
    RightsNotRegained
