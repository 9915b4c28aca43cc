SPECIFICATION Spec
CONSTANTS
    u1 = u1
    u2 = u2
    s1 = s1
    s2 = s2
    a1 = a1
    a2 = a2
    n1 = n1
    None = None
    User = {u1, u2}
    RegToken = {k1}
    FirstToken = k1
    Thread = {t1, t2}
    Server = {s1, s2}
    Room = {r1, r2}
    FilterId = {f1}
    FilterBody = {b1, b2}
    DisplayName = {n1}
    Term = {"one", "name"}
    Alias = {a1, a2}
    ServerPart <- MCServerPart
    PrivilegeList <- MCPrivilegeList
    ConfigRequest <- MCConfigRequest
    InitialConfig <- MCInitialConfig
    NameMatch <- MCNameMatch
    DisplayMatch <- MCDisplayMatch
INVARIANTS
    TypeOK
    LocksReturned
    AliasIndexesAgree
    FiltersKept
    DirectoryHonest
PROPERTIES
    RequestsFinish
