--------------------------- MODULE Tokens_proofs ---------------------------
(***************************************************************************)
(* Proofs about module Tokens, for any number of users, devices and        *)
(* tokens: the index invariant, what answers promise, and that Tokens      *)
(* implements Sessions.                                                    *)
(***************************************************************************)
EXTENDS Tokens, TLAPS

\* The inductive invariant: the two indexes (device -> token files and token
\* file -> device) agree.  Neither half is inductive alone: a login deletes
\* the files the device object names, so that an unnamed file would survive
\* it, and hands out strings no file must have.
IInv ==
    /\ TypeOK
    /\ AccessTokensIndexed
    /\ DevicesHaveTokens
    /\ RefreshTokensIndexed
    /\ SessionsKeepIdentity

\* User files are never removed and never lose their "devices" key.
UsersGrow ==
    /\ users' \in [User -> UserFile \union {None}]
    /\ \A v \in User : users[v] # None =>
          users'[v] # None /\ (users[v].hasDevices => users'[v].hasDevices)

-----------------------------------------------------------------------------

\* The strings a login is about to hand out have no file yet.
LEMMA FreshTokens ==
  ASSUME IInv
  PROVE  /\ \A t \in AccessToken : FreshAccess(t) => access[t] = None
         /\ \A r \in RefreshToken : FreshRefresh(r) => refresh[r] = None
<1>1. ASSUME NEW t \in AccessToken, FreshAccess(t), access[t] # None
      PROVE  FALSE
  <2>1. access[t] \in AccessFile
    BY <1>1 DEF IInv, TypeOK
  <2>2. SessionOf(t) \in Session
    BY <2>1 DEF SessionOf, Session, AccessFile
  <2> QED
    BY <1>1, <2>2, NoneAssumption DEF IInv, SessionsKeepIdentity, FreshAccess
<1>2. ASSUME NEW r \in RefreshToken, FreshRefresh(r), refresh[r] # None
      PROVE  FALSE
  <2>1. refresh[r] \in AccessToken /\ access[refresh[r]] \in AccessFile
    BY <1>2 DEF IInv, TypeOK, RefreshTokensIndexed
  <2>2. SessionOf(refresh[r]) \in Session
    BY <2>1 DEF SessionOf, Session, AccessFile
  <2> QED
    BY <1>2, <2>2, NoneAssumption DEF IInv, SessionsKeepIdentity, FreshRefresh
<1> QED BY <1>1, <1>2

\* An access token file and a device that name each other are alone in it.
LEMMA IndexIsOneToOne ==
  ASSUME IInv, NEW u \in User, NEW d \in Device, devices[u][d] # None
  PROVE  /\ devices[u][d] \in DeviceObject
         /\ AccessTokensOf(u, {d}) = {devices[u][d].accessToken}
         /\ access[devices[u][d].accessToken] \in AccessFile
         /\ access[devices[u][d].accessToken].user = u
         /\ access[devices[u][d].accessToken].device = d
<1>1. devices[u][d] \in DeviceObject
  BY DEF IInv, TypeOK
<1>2. devices[u][d].accessToken \in AccessToken
  BY <1>1 DEF DeviceObject
<1>3. AccessTokensOf(u, {d}) = {devices[u][d].accessToken}
  BY <1>2 DEF AccessTokensOf
<1>4. /\ access[devices[u][d].accessToken] # None
      /\ SessionOf(devices[u][d].accessToken) = [user |-> u, device |-> d]
  BY DEF IInv, DevicesHaveTokens
<1>5. access[devices[u][d].accessToken] \in AccessFile
  BY <1>2, <1>4 DEF IInv, TypeOK
<1> QED BY <1>1, <1>3, <1>4, <1>5 DEF SessionOf

\* UserLogin keeps the index, whatever the account it is called for had.
LEMMA UserLoginKeepsIndex ==
  ASSUME IInv, UsersGrow, reply' \in Reply,
         NEW u \in User, NEW d \in Device, NEW t \in AccessToken,
         NEW r \in RefreshToken \union {None},
         users'[u] # None, users'[u].hasDevices,
         UserLogin(u, d, t, r)
  PROVE  IInv'
<1> DEFINE old == AccessTokensOf(u, {d})
           oldR == RefreshTokensOf(u, {d})
           new == [accessToken |-> t, refreshToken |-> r]
<1>1. /\ access \in [AccessToken -> AccessFile \union {None}]
      /\ refresh \in [RefreshToken -> AccessToken \union {None}]
      /\ devices \in [User -> [Device -> DeviceObject \union {None}]]
      /\ grantedTo \in [AccessToken -> Session \union {None}]
      /\ renews \in [RefreshToken -> Session \union {None}]
  BY DEF IInv, TypeOK
<1>2. /\ new \in DeviceObject /\ new # None
      /\ [user |-> u, device |-> d] \in Session
      /\ NewAccessFile(u, d, r # None) \in AccessFile
      /\ NewAccessFile(u, d, r # None) # None
      /\ NewAccessFile(u, d, r # None).user = u
      /\ NewAccessFile(u, d, r # None).device = d
  BY NoneAssumption DEF DeviceObject, Session, NewAccessFile, AccessFile
<1>3. /\ \A x \in AccessToken : access'[x] =
           IF x = t THEN NewAccessFile(u, d, r # None)
                    ELSE IF x \in old THEN None ELSE access[x]
      /\ access' \in [AccessToken -> AccessFile \union {None}]
  BY <1>1, <1>2 DEF UserLogin, DbDelete
<1>4. /\ \A x \in RefreshToken : refresh'[x] =
           IF x = r THEN t ELSE IF x \in oldR THEN None ELSE refresh[x]
      /\ refresh' \in [RefreshToken -> AccessToken \union {None}]
  BY <1>1 DEF UserLogin, DbDelete
<1>5. /\ \A v \in User, e \in Device : devices'[v][e] =
           IF v = u /\ e = d THEN new ELSE devices[v][e]
      /\ devices' \in [User -> [Device -> DeviceObject \union {None}]]
  BY <1>1, <1>2 DEF UserLogin
<1>6. /\ \A x \in AccessToken : grantedTo'[x] =
           IF x = t THEN [user |-> u, device |-> d] ELSE grantedTo[x]
      /\ grantedTo' \in [AccessToken -> Session \union {None}]
  BY <1>1, <1>2 DEF UserLogin
<1>7. /\ \A x \in RefreshToken : renews'[x] =
           IF x = r THEN [user |-> u, device |-> d] ELSE renews[x]
      /\ renews' \in [RefreshToken -> Session \union {None}]
  BY <1>1, <1>2 DEF UserLogin
<1>8. /\ access[t] = None
      /\ r # None => r \in RefreshToken /\ refresh[r] = None
  BY FreshTokens DEF UserLogin
<1>9. /\ \A x \in AccessToken : x \in old <=>
            devices[u][d] # None /\ devices[u][d].accessToken = x
      /\ \A x \in RefreshToken : x \in oldR <=>
            devices[u][d] # None /\ devices[u][d].refreshToken = x
  BY DEF AccessTokensOf, RefreshTokensOf
<1>10. TypeOK'
  BY <1>3, <1>4, <1>5, <1>6, <1>7 DEF TypeOK, UsersGrow
\* An access token other than t that survives belongs to another device.
<1>11. ASSUME NEW x \in AccessToken, access'[x] # None, x # t
       PROVE  /\ access'[x] = access[x]
              /\ access[x] \in AccessFile
              /\ ~(access[x].user = u /\ access[x].device = d)
  <2>1. access'[x] = access[x] /\ x \notin old
    BY <1>3, <1>11
  <2>2. access[x] \in AccessFile
    BY <1>1, <1>11, <2>1
  <2>3. ASSUME access[x].user = u, access[x].device = d PROVE FALSE
    BY <2>1, <2>3, <1>9, <1>11 DEF IInv, AccessTokensIndexed
  <2> QED BY <2>1, <2>2, <2>3
<1>12. AccessTokensIndexed'
  <2> SUFFICES ASSUME NEW x \in AccessToken, access'[x] # None
               PROVE  /\ users'[access'[x].user] # None
                      /\ users'[access'[x].user].hasDevices
                      /\ devices'[access'[x].user][access'[x].device] # None
                      /\ devices'[access'[x].user][access'[x].device].accessToken = x
    BY DEF AccessTokensIndexed
  <2>1. CASE x = t
    BY <2>1, <1>2, <1>3, <1>5
  <2>2. CASE x # t
    <3>1. /\ access'[x] = access[x]
          /\ access[x].user \in User /\ access[x].device \in Device
          /\ devices'[access[x].user][access[x].device]
               = devices[access[x].user][access[x].device]
      BY <2>2, <1>5, <1>11 DEF AccessFile
    <3> QED BY <3>1 DEF IInv, AccessTokensIndexed, UsersGrow
  <2> QED BY <2>1, <2>2
<1>13. DevicesHaveTokens'
  <2> SUFFICES ASSUME NEW v \in User, NEW e \in Device, devices'[v][e] # None
               PROVE  LET x == devices'[v][e].accessToken
                          y == devices'[v][e].refreshToken
                      IN  /\ access'[x] # None
                          /\ access'[x].user = v /\ access'[x].device = e
                          /\ y # None => refresh'[y] = x
    BY DEF DevicesHaveTokens, SessionOf
  <2>1. CASE v = u /\ e = d
    BY <2>1, <1>2, <1>3, <1>4, <1>5, <1>8
  <2>2. CASE ~(v = u /\ e = d)
    <3>1. devices'[v][e] = devices[v][e] /\ devices[v][e] # None
      BY <2>2, <1>5
    <3> DEFINE x == devices[v][e].accessToken
               y == devices[v][e].refreshToken
    <3>2. /\ x \in AccessToken /\ y \in RefreshToken \union {None}
          /\ access[x] \in AccessFile
          /\ access[x].user = v /\ access[x].device = e
      BY <3>1, IndexIsOneToOne DEF DeviceObject
    <3>3. y # None => refresh[y] = x
      BY <3>1 DEF IInv, DevicesHaveTokens
    <3>4. x # t
      BY <3>2, <1>8, NoneAssumption
    <3>5. x \notin old
      BY <3>2, <2>2, <1>9, IndexIsOneToOne
    <3>6. access'[x] = access[x]
      BY <1>3, <3>2, <3>4, <3>5
    <3>7. ASSUME y # None PROVE refresh'[y] = x
      <4>1. y \in RefreshToken /\ refresh[y] = x
        BY <3>7, <3>2, <3>3
      <4>2. y # r
        BY <4>1, <1>8, <3>2, NoneAssumption
      <4>3. y \notin oldR
        <5>1. SUFFICES ASSUME y \in oldR PROVE FALSE
          OBVIOUS
        <5>2. devices[u][d] # None /\ devices[u][d].refreshToken = y
          BY <5>1, <4>1, <1>9
        <5>3. refresh[y] = devices[u][d].accessToken
          BY <5>2, <3>7 DEF IInv, DevicesHaveTokens
        <5>4. devices[u][d].accessToken = x
          BY <5>3, <4>1
        <5> HIDE DEF x
        <5> QED BY <5>2, <5>4, <3>2, <2>2, IndexIsOneToOne
      <4> QED BY <1>4, <4>1, <4>2, <4>3
    <3> QED BY <3>1, <3>2, <3>6, <3>7, NoneAssumption
  <2> QED BY <2>1, <2>2
<1>14. RefreshTokensIndexed' /\ SessionsKeepIdentity'
  <2>1. ASSUME NEW y \in RefreshToken, refresh'[y] # None
        PROVE  LET x == refresh'[y]
               IN  /\ access'[x] # None
                   /\ devices'[access'[x].user][access'[x].device] # None
                   /\ devices'[access'[x].user][access'[x].device].refreshToken = y
                   /\ renews'[y] = [user |-> access'[x].user,
                                     device |-> access'[x].device]
    <3>1. CASE y = r
      <4>1. refresh'[y] = t /\ renews'[y] = [user |-> u, device |-> d]
        BY <3>1, <1>4, <1>7
      <4>2. access'[t] = NewAccessFile(u, d, r # None) /\ devices'[u][d] = new
        BY <1>3, <1>5
      <4> HIDE DEF new
      <4>3. new.refreshToken = y
        BY <3>1 DEF new
      <4> QED BY <4>1, <4>2, <4>3, <1>2 DEF SessionOf
    <3>2. CASE y # r
      <4>1. refresh'[y] = refresh[y] /\ y \notin oldR
        BY <3>2, <2>1, <1>4
      <4> DEFINE x == refresh[y]
      <4>2. /\ x \in AccessToken /\ access[x] # None
            /\ devices[access[x].user][access[x].device] # None
            /\ devices[access[x].user][access[x].device].refreshToken = y
            /\ renews[y] = SessionOf(x)
        BY <4>1, <2>1, <1>1 DEF IInv, RefreshTokensIndexed, SessionsKeepIdentity
      <4>3. access[x] \in AccessFile /\ access[x].user \in User
              /\ access[x].device \in Device
        BY <4>2, <1>1 DEF AccessFile
      <4>4. ~(access[x].user = u /\ access[x].device = d)
        BY <4>1, <4>2, <1>9
      <4>5. x # t
        BY <4>2, <1>8
      <4>6. devices[access[x].user][access[x].device].accessToken = x
        BY <4>2 DEF IInv, AccessTokensIndexed
      <4>7. x \notin old
        <5>1. SUFFICES ASSUME x \in old PROVE FALSE
          OBVIOUS
        <5>2. devices[u][d] # None /\ devices[u][d].accessToken = x
          BY <5>1, <4>2, <1>9
        <5>3. /\ access[devices[u][d].accessToken].user = u
              /\ access[devices[u][d].accessToken].device = d
          BY <5>2, IndexIsOneToOne
        <5> HIDE DEF x
        <5> QED BY <5>2, <5>3, <4>4
      <4>8. access'[x] = access[x]
        BY <4>2, <4>5, <4>7, <1>3
      <4>9. devices'[access[x].user][access[x].device]
              = devices[access[x].user][access[x].device]
        BY <4>3, <4>4, <1>5
      <4>10. renews'[y] = renews[y]
        BY <3>2, <1>7
      <4> QED BY <4>1, <4>2, <4>8, <4>9, <4>10 DEF SessionOf
    <3> QED BY <3>1, <3>2
  <2>2. ASSUME NEW x \in AccessToken, access'[x] # None
        PROVE  grantedTo'[x] = SessionOf(x)'
    <3>1. CASE x = t
      BY <3>1, <1>2, <1>3, <1>6 DEF SessionOf
    <3>2. CASE x # t
      BY <3>2, <2>2, <1>6, <1>11 DEF SessionOf, IInv, SessionsKeepIdentity
    <3> QED BY <3>1, <3>2
  <2>3. RefreshTokensIndexed'
    BY <2>1 DEF RefreshTokensIndexed
  <2>4. SessionsKeepIdentity'
    BY <2>1, <2>2 DEF SessionsKeepIdentity, SessionOf
  <2> QED BY <2>3, <2>4
<1> QED BY <1>10, <1>12, <1>13, <1>14 DEF IInv

\* Taking away devices of u together with the files they name keeps the index.
LEMMA RevokeKeepsIndex ==
  ASSUME IInv, UsersGrow, reply' \in Reply,
         NEW u \in User, NEW gone \in SUBSET Device,
         access' = DbDelete(access, AccessTokensOf(u, gone)),
         refresh' = DbDelete(refresh, RefreshTokensOf(u, gone)),
         devices' = [devices EXCEPT ![u] = DbDelete(devices[u], gone)],
         UNCHANGED <<grantedTo, renews>>
  PROVE  IInv'
<1>1. /\ access \in [AccessToken -> AccessFile \union {None}]
      /\ refresh \in [RefreshToken -> AccessToken \union {None}]
      /\ devices \in [User -> [Device -> DeviceObject \union {None}]]
  BY DEF IInv, TypeOK
<1>2. /\ \A x \in AccessToken : access'[x] =
           IF x \in AccessTokensOf(u, gone) THEN None ELSE access[x]
      /\ access' \in [AccessToken -> AccessFile \union {None}]
  BY <1>1 DEF DbDelete
<1>3. /\ \A y \in RefreshToken : refresh'[y] =
           IF y \in RefreshTokensOf(u, gone) THEN None ELSE refresh[y]
      /\ refresh' \in [RefreshToken -> AccessToken \union {None}]
  BY <1>1 DEF DbDelete
<1>4. /\ \A v \in User, e \in Device : devices'[v][e] =
           IF v = u /\ e \in gone THEN None ELSE devices[v][e]
      /\ devices' \in [User -> [Device -> DeviceObject \union {None}]]
  <2>1. DbDelete(devices[u], gone) =
          [e \in Device |-> IF e \in gone THEN None ELSE devices[u][e]]
    BY <1>1 DEF DbDelete
  <2> QED BY <1>1, <2>1
<1>5. TypeOK'
  BY <1>2, <1>3, <1>4 DEF IInv, TypeOK, UsersGrow
\* The files that go are those of the devices that go.
<1>6. ASSUME NEW x \in AccessToken, access[x] # None
      PROVE  /\ access[x].user \in User /\ access[x].device \in Device
             /\ x \in AccessTokensOf(u, gone)
                  <=> access[x].user = u /\ access[x].device \in gone
  <2>1. access[x].user \in User /\ access[x].device \in Device
    BY <1>1, <1>6 DEF AccessFile
  <2>2. ASSUME access[x].user = u, access[x].device \in gone
        PROVE  x \in AccessTokensOf(u, gone)
    BY <1>6, <2>2 DEF IInv, AccessTokensIndexed, AccessTokensOf
  <2>3. ASSUME x \in AccessTokensOf(u, gone)
        PROVE  access[x].user = u /\ access[x].device \in gone
    <3>1. PICK e \in gone : devices[u][e] # None /\ devices[u][e].accessToken = x
      BY <2>3 DEF AccessTokensOf
    <3>2. /\ access[devices[u][e].accessToken].user = u
          /\ access[devices[u][e].accessToken].device = e
      BY <3>1, IndexIsOneToOne
    <3> QED BY <3>1, <3>2
  <2> QED BY <2>1, <2>2, <2>3
<1>7. ASSUME NEW y \in RefreshToken, refresh[y] # None
      PROVE  /\ refresh[y] \in AccessToken /\ access[refresh[y]] # None
             /\ y \in RefreshTokensOf(u, gone)
                  <=> refresh[y] \in AccessTokensOf(u, gone)
  <2>1. /\ refresh[y] \in AccessToken /\ access[refresh[y]] # None
        /\ devices[access[refresh[y]].user][access[refresh[y]].device] # None
        /\ devices[access[refresh[y]].user][access[refresh[y]].device].refreshToken = y
    BY <1>1, <1>7 DEF IInv, RefreshTokensIndexed
  <2>2. ASSUME refresh[y] \in AccessTokensOf(u, gone)
        PROVE  y \in RefreshTokensOf(u, gone)
    BY <2>1, <2>2, <1>6 DEF RefreshTokensOf
  <2>3. ASSUME y \in RefreshTokensOf(u, gone)
        PROVE  refresh[y] \in AccessTokensOf(u, gone)
    <3>1. PICK e \in gone : devices[u][e] # None /\ devices[u][e].refreshToken = y
      BY <2>3 DEF RefreshTokensOf
    <3>2. y # None
      BY NoneAssumption
    <3>3. refresh[y] = devices[u][e].accessToken
      BY <3>1, <3>2 DEF IInv, DevicesHaveTokens
    <3> QED BY <2>1, <3>1, <3>3 DEF AccessTokensOf
  <2> QED BY <2>1, <2>2, <2>3
<1>8. AccessTokensIndexed'
  <2> SUFFICES ASSUME NEW x \in AccessToken, access'[x] # None
               PROVE  /\ users'[access'[x].user] # None
                      /\ users'[access'[x].user].hasDevices
                      /\ devices'[access'[x].user][access'[x].device] # None
                      /\ devices'[access'[x].user][access'[x].device].accessToken = x
    BY DEF AccessTokensIndexed
  <2>1. access'[x] = access[x] /\ access[x] # None
          /\ x \notin AccessTokensOf(u, gone)
    BY <1>2
  <2>2. /\ access[x].user \in User /\ access[x].device \in Device
        /\ devices'[access[x].user][access[x].device]
             = devices[access[x].user][access[x].device]
    BY <2>1, <1>4, <1>6
  <2> QED BY <2>1, <2>2 DEF IInv, AccessTokensIndexed, UsersGrow
<1>9. DevicesHaveTokens'
  <2> SUFFICES ASSUME NEW v \in User, NEW e \in Device, devices'[v][e] # None
               PROVE  LET x == devices'[v][e].accessToken
                          y == devices'[v][e].refreshToken
                      IN  /\ access'[x] # None
                          /\ access'[x].user = v /\ access'[x].device = e
                          /\ y # None => refresh'[y] = x
    BY DEF DevicesHaveTokens, SessionOf
  <2>1. /\ devices'[v][e] = devices[v][e] /\ devices[v][e] # None
        /\ ~(v = u /\ e \in gone)
    BY <1>4
  <2> DEFINE x == devices[v][e].accessToken
             y == devices[v][e].refreshToken
  <2>2. /\ x \in AccessToken /\ y \in RefreshToken \union {None}
        /\ access[x] \in AccessFile /\ access[x] # None
        /\ access[x].user = v /\ access[x].device = e
    <3>1. devices[v][e] \in DeviceObject /\ access[x] \in AccessFile
            /\ access[x].user = v /\ access[x].device = e
      BY <2>1, IndexIsOneToOne
    <3> QED BY <3>1, NoneAssumption DEF DeviceObject
  <2>3. x \notin AccessTokensOf(u, gone) /\ access'[x] = access[x]
    BY <2>1, <2>2, <1>2, <1>6
  <2>4. ASSUME y # None PROVE refresh'[y] = x
    <3>1. y \in RefreshToken /\ refresh[y] = x /\ refresh[y] # None
      BY <2>1, <2>2, <2>4, NoneAssumption DEF IInv, DevicesHaveTokens
    <3> QED BY <3>1, <2>3, <1>3, <1>7
  <2> QED BY <2>1, <2>2, <2>3, <2>4
<1>10. ASSUME NEW y \in RefreshToken, refresh'[y] # None
       PROVE  /\ refresh'[y] = refresh[y] /\ refresh[y] # None
              /\ refresh[y] \in AccessToken
              /\ access'[refresh[y]] = access[refresh[y]]
              /\ access[refresh[y]] # None
  BY <1>10, <1>2, <1>3, <1>7
<1>11. RefreshTokensIndexed'
  <2> SUFFICES ASSUME NEW y \in RefreshToken, refresh'[y] # None
               PROVE  LET x == refresh'[y]
                      IN  /\ access'[x] # None
                          /\ devices'[access'[x].user][access'[x].device] # None
                          /\ devices'[access'[x].user][access'[x].device].refreshToken = y
    BY DEF RefreshTokensIndexed
  <2>1. /\ access[refresh[y]].user \in User /\ access[refresh[y]].device \in Device
        /\ devices'[access[refresh[y]].user][access[refresh[y]].device]
             = devices[access[refresh[y]].user][access[refresh[y]].device]
    BY <1>2, <1>4, <1>6, <1>10
  <2>2. /\ devices[access[refresh[y]].user][access[refresh[y]].device] # None
        /\ devices[access[refresh[y]].user][access[refresh[y]].device].refreshToken = y
    BY <1>10 DEF IInv, RefreshTokensIndexed
  <2> QED BY <2>1, <2>2, <1>10
<1>12. SessionsKeepIdentity'
  <2>1. ASSUME NEW x \in AccessToken, access'[x] # None
        PROVE  grantedTo'[x] = SessionOf(x)'
    <3>1. access'[x] = access[x] /\ access[x] # None
      BY <2>1, <1>2
    <3> QED BY <3>1 DEF IInv, SessionsKeepIdentity, SessionOf
  <2>2. ASSUME NEW y \in RefreshToken, refresh'[y] # None
        PROVE  renews'[y] = [user |-> access'[refresh'[y]].user,
                             device |-> access'[refresh'[y]].device]
    BY <2>2, <1>10 DEF IInv, SessionsKeepIdentity, SessionOf
  <2> QED BY <2>1, <2>2 DEF SessionsKeepIdentity, SessionOf
<1> QED BY <1>5, <1>8, <1>9, <1>11, <1>12 DEF IInv

\* RouteRefresh keeps the index: the refresh token moves from the old to the
\* new access token together with the device object.
LEMMA RefreshKeepsIndex ==
  ASSUME IInv, NEW r \in RefreshToken, NEW t \in AccessToken, Refresh(r, t)
  PROVE  /\ IInv'
         /\ access'[t] # None
         /\ reply'.route = "refresh" /\ reply'.status = 200 /\ reply'.token = t
<1> DEFINE old == refresh[r]
           u == access[old].user
           d == access[old].device
           file == NewAccessFile(u, d, TRUE)
           obj == [accessToken |-> t, refreshToken |-> r]
<1>1. /\ access \in [AccessToken -> AccessFile \union {None}]
      /\ refresh \in [RefreshToken -> AccessToken \union {None}]
      /\ devices \in [User -> [Device -> DeviceObject \union {None}]]
      /\ grantedTo \in [AccessToken -> Session \union {None}]
      /\ renews \in [RefreshToken -> Session \union {None}]
  BY DEF IInv, TypeOK
<1>2. /\ old \in AccessToken /\ access[old] # None /\ access[old] \in AccessFile
      /\ u \in User /\ d \in Device
      /\ devices[u][d] # None /\ devices[u][d].refreshToken = r
      /\ devices[u][d].accessToken = old
      /\ users[u] # None
      /\ renews[r] = [user |-> u, device |-> d]
  <2>1. old \in AccessToken /\ access[old] # None
        /\ devices[u][d] # None /\ devices[u][d].refreshToken = r
        /\ renews[r] = [user |-> u, device |-> d]
    BY <1>1 DEF Refresh, IInv, RefreshTokensIndexed, SessionsKeepIdentity, SessionOf
  <2>2. access[old] \in AccessFile /\ u \in User /\ d \in Device
    BY <2>1, <1>1 DEF AccessFile
  <2>3. devices[u][d].accessToken = old /\ users[u] # None
    BY <2>1 DEF IInv, AccessTokensIndexed
  <2> QED BY <2>1, <2>2, <2>3
<1>3. /\ FreshAccess(t)
      /\ access' = [DbDelete(access, {old}) EXCEPT ![t] = file]
      /\ devices' = [devices EXCEPT ![u][d] =
           [accessToken |-> t,
            refreshToken |-> IF @ = None THEN None ELSE @.refreshToken]]
      /\ refresh' = [refresh EXCEPT ![r] = t]
      /\ grantedTo' = [grantedTo EXCEPT ![t] = renews[r]]
      /\ Answer("refresh", 200, u, t)
      /\ users' = users /\ renews' = renews
  BY <1>2 DEF Refresh
<1>4. access[t] = None /\ t # old
  BY <1>2, <1>3, FreshTokens
<1>5. /\ obj \in DeviceObject /\ obj # None
      /\ file \in AccessFile /\ file # None /\ file.user = u /\ file.device = d
      /\ [user |-> u, device |-> d] \in Session
      /\ reply' \in Reply /\ reply'.status = 200
  <2>1. obj \in DeviceObject /\ obj # None
    BY NoneAssumption DEF DeviceObject
  <2>2. /\ file \in AccessFile /\ file # None /\ file.user = u /\ file.device = d
        /\ [user |-> u, device |-> d] \in Session
    BY <1>2, NoneAssumption DEF NewAccessFile, AccessFile, Session
  <2>3. reply' \in Reply /\ reply'.status = 200
    BY <1>2, <1>3 DEF Answer, Reply
  <2> QED BY <2>1, <2>2, <2>3
<1> HIDE DEF file, obj
<1>6. /\ \A x \in AccessToken : access'[x] =
           IF x = t THEN file ELSE IF x = old THEN None ELSE access[x]
      /\ access' \in [AccessToken -> AccessFile \union {None}]
  BY <1>1, <1>3, <1>5 DEF DbDelete
<1>7. /\ \A y \in RefreshToken : refresh'[y] = IF y = r THEN t ELSE refresh[y]
      /\ refresh' \in [RefreshToken -> AccessToken \union {None}]
  BY <1>1, <1>3
<1>8. /\ \A v \in User, e \in Device : devices'[v][e] =
           IF v = u /\ e = d THEN obj ELSE devices[v][e]
      /\ devices' \in [User -> [Device -> DeviceObject \union {None}]]
  <2>1. devices' = [devices EXCEPT ![u][d] = obj]
    BY <1>1, <1>2, <1>3 DEF obj
  <2> QED BY <2>1, <1>1, <1>2, <1>5
<1>9. /\ \A x \in AccessToken : grantedTo'[x] =
           IF x = t THEN [user |-> u, device |-> d] ELSE grantedTo[x]
      /\ grantedTo' \in [AccessToken -> Session \union {None}]
  BY <1>1, <1>2, <1>3, <1>5
<1>10. TypeOK'
  BY <1>1, <1>3, <1>5, <1>6, <1>7, <1>8, <1>9 DEF IInv, TypeOK
<1> HIDE DEF old, u, d
\* Any other access token left is that of another device.
<1>11. ASSUME NEW x \in AccessToken, x # t, access'[x] # None
       PROVE  /\ access'[x] = access[x] /\ access[x] \in AccessFile
              /\ ~(access[x].user = u /\ access[x].device = d)
  <2>1. access'[x] = access[x] /\ x # old /\ access[x] \in AccessFile
    BY <1>1, <1>6, <1>11
  <2> QED BY <2>1, <1>2, <1>11 DEF IInv, AccessTokensIndexed
<1>12. AccessTokensIndexed'
  <2> SUFFICES ASSUME NEW x \in AccessToken, access'[x] # None
               PROVE  /\ users'[access'[x].user] # None
                      /\ users'[access'[x].user].hasDevices
                      /\ devices'[access'[x].user][access'[x].device] # None
                      /\ devices'[access'[x].user][access'[x].device].accessToken = x
    BY DEF AccessTokensIndexed
  <2>1. CASE x = t
    <3>1. users[u].hasDevices
      BY <1>2 DEF IInv, AccessTokensIndexed, u
    <3>2. obj.accessToken = t
      BY DEF obj
    <3> QED BY <2>1, <3>1, <3>2, <1>2, <1>3, <1>5, <1>6, <1>8
  <2>2. CASE x # t
    <3>1. /\ access'[x] = access[x]
          /\ access[x].user \in User /\ access[x].device \in Device
          /\ devices'[access[x].user][access[x].device]
               = devices[access[x].user][access[x].device]
      BY <2>2, <1>8, <1>11 DEF AccessFile
    <3> QED BY <3>1, <1>3 DEF IInv, AccessTokensIndexed
  <2> QED BY <2>1, <2>2
<1>13. DevicesHaveTokens'
  <2> SUFFICES ASSUME NEW v \in User, NEW e \in Device, devices'[v][e] # None
               PROVE  LET x == devices'[v][e].accessToken
                          y == devices'[v][e].refreshToken
                      IN  /\ access'[x] # None
                          /\ access'[x].user = v /\ access'[x].device = e
                          /\ y # None => refresh'[y] = x
    BY DEF DevicesHaveTokens, SessionOf
  <2>1. CASE v = u /\ e = d
    <3>1. obj.accessToken = t /\ obj.refreshToken = r
      BY DEF obj
    <3> QED BY <2>1, <3>1, <1>5, <1>6, <1>7, <1>8
  <2>2. CASE ~(v = u /\ e = d)
    <3>1. devices'[v][e] = devices[v][e] /\ devices[v][e] # None
      BY <2>2, <1>8
    <3> DEFINE x == devices[v][e].accessToken
               y == devices[v][e].refreshToken
    <3>2. /\ x \in AccessToken /\ y \in RefreshToken \union {None}
          /\ access[x].user = v /\ access[x].device = e /\ access[x] # None
      <4>1. devices[v][e] \in DeviceObject
        BY <3>1, IndexIsOneToOne
      <4>2. access[x] \in AccessFile /\ access[x].user = v /\ access[x].device = e
        BY <3>1, IndexIsOneToOne
      <4> QED BY <4>1, <4>2, NoneAssumption DEF DeviceObject
    <3>3. x # t /\ x # old
      BY <3>2, <2>2, <1>4 DEF u, d
    <3>4. access'[x] = access[x]
      BY <1>6, <3>2, <3>3
    <3>5. ASSUME y # None PROVE refresh'[y] = x
      <4>1. y \in RefreshToken /\ refresh[y] = x
        BY <3>1, <3>2, <3>5 DEF IInv, DevicesHaveTokens
      <4>2. y # r
        BY <4>1, <3>3 DEF old
      <4> QED BY <4>1, <4>2, <1>7
    <3> QED BY <3>1, <3>2, <3>4, <3>5
  <2> QED BY <2>1, <2>2
<1>14. ASSUME NEW y \in RefreshToken, y # r, refresh'[y] # None
       PROVE  /\ refresh'[y] = refresh[y] /\ refresh[y] \in AccessToken
              /\ access[refresh[y]] # None
              /\ access[refresh[y]] \in AccessFile
              /\ access'[refresh[y]] = access[refresh[y]]
              /\ devices[access[refresh[y]].user][access[refresh[y]].device] # None
              /\ devices[access[refresh[y]].user][access[refresh[y]].device].refreshToken = y
              /\ ~(access[refresh[y]].user = u /\ access[refresh[y]].device = d)
  <2> DEFINE x == refresh[y]
  <2>1. /\ refresh'[y] = x /\ x \in AccessToken /\ access[x] # None
        /\ access[x] \in AccessFile
        /\ devices[access[x].user][access[x].device] # None
        /\ devices[access[x].user][access[x].device].refreshToken = y
    BY <1>1, <1>7, <1>14 DEF IInv, RefreshTokensIndexed
  <2> HIDE DEF x
  <2>2. ~(access[x].user = u /\ access[x].device = d)
    BY <2>1, <1>2, <1>14
  <2>3. x # old /\ x # t
    BY <2>1, <2>2, <1>4 DEF u, d
  <2>4. access'[x] = access[x]
    BY <2>1, <2>3, <1>6
  <2> QED BY <2>1, <2>2, <2>4 DEF x
<1>15. RefreshTokensIndexed'
  <2> SUFFICES ASSUME NEW y \in RefreshToken, refresh'[y] # None
               PROVE  LET x == refresh'[y]
                      IN  /\ access'[x] # None
                          /\ devices'[access'[x].user][access'[x].device] # None
                          /\ devices'[access'[x].user][access'[x].device].refreshToken = y
    BY DEF RefreshTokensIndexed
  <2>1. CASE y = r
    <3>1. obj.refreshToken = r
      BY DEF obj
    <3> QED BY <2>1, <3>1, <1>2, <1>5, <1>6, <1>7, <1>8
  <2>2. CASE y # r
    <3>1. devices'[access[refresh[y]].user][access[refresh[y]].device]
            = devices[access[refresh[y]].user][access[refresh[y]].device]
      BY <2>2, <1>8, <1>14 DEF AccessFile
    <3>2. refresh'[y] = refresh[y] /\ access'[refresh[y]] = access[refresh[y]]
      BY <2>2, <1>14
    <3>3. /\ access[refresh[y]] # None
          /\ devices[access[refresh[y]].user][access[refresh[y]].device] # None
          /\ devices[access[refresh[y]].user][access[refresh[y]].device].refreshToken = y
      BY <2>2, <1>14
    <3> QED BY <3>1, <3>2, <3>3
  <2> QED BY <2>1, <2>2
<1>16. SessionsKeepIdentity'
  <2>1. ASSUME NEW x \in AccessToken, access'[x] # None
        PROVE  grantedTo'[x] = SessionOf(x)'
    <3>1. CASE x = t
      BY <3>1, <1>5, <1>6, <1>9 DEF SessionOf
    <3>2. CASE x # t
      BY <2>1, <3>2, <1>9, <1>11 DEF SessionOf, IInv, SessionsKeepIdentity
    <3> QED BY <3>1, <3>2
  <2>2. ASSUME NEW y \in RefreshToken, refresh'[y] # None
        PROVE  renews'[y] = [user |-> access'[refresh'[y]].user,
                             device |-> access'[refresh'[y]].device]
    <3>1. CASE y = r
      <4>1. renews'[r] = [user |-> u, device |-> d]
        BY <1>2, <1>3
      <4>2. refresh'[r] = t
        BY <1>7
      <4>3. access'[t] = file /\ file.user = u /\ file.device = d
        BY <1>5, <1>6
      <4> QED BY <3>1, <4>1, <4>2, <4>3
    <3>2. CASE y # r
      <4>1. refresh[y] # None
        BY <3>2, <2>2, <1>7
      <4>2. renews'[y] = SessionOf(refresh[y])
        BY <4>1, <1>3 DEF IInv, SessionsKeepIdentity
      <4>3. refresh'[y] = refresh[y] /\ access'[refresh[y]] = access[refresh[y]]
        BY <2>2, <3>2, <1>14
      <4> QED BY <4>2, <4>3 DEF SessionOf
    <3> QED BY <3>1, <3>2
  <2> QED BY <2>1, <2>2 DEF SessionsKeepIdentity, SessionOf
<1>17. /\ access'[t] # None
       /\ reply'.route = "refresh" /\ reply'.status = 200 /\ reply'.token = t
  BY <1>3, <1>5, <1>6 DEF Answer
<1> QED BY <1>5, <1>10, <1>12, <1>13, <1>15, <1>16, <1>17 DEF IInv

\* Changes of the user files alone keep the index.
LEMMA UserFilesKeepIndex ==
  ASSUME IInv, UsersGrow, reply' \in Reply,
         UNCHANGED <<devices, access, refresh, grantedTo, renews>>
  PROVE  IInv'
<1>1. TypeOK'
  BY DEF IInv, TypeOK, UsersGrow
<1>2. AccessTokensIndexed'
  <2> SUFFICES ASSUME NEW x \in AccessToken, access[x] # None
               PROVE  /\ users'[access[x].user] # None
                      /\ users'[access[x].user].hasDevices
                      /\ devices[access[x].user][access[x].device] # None
                      /\ devices[access[x].user][access[x].device].accessToken = x
    BY DEF AccessTokensIndexed
  <2>1. access[x].user \in User
    BY DEF IInv, TypeOK, AccessFile
  <2> QED BY <2>1 DEF IInv, AccessTokensIndexed, UsersGrow
<1>3. DevicesHaveTokens' /\ RefreshTokensIndexed' /\ SessionsKeepIdentity'
  BY DEF IInv, DevicesHaveTokens, RefreshTokensIndexed, SessionsKeepIdentity, SessionOf
<1> QED BY <1>1, <1>2, <1>3 DEF IInv

\* UserDeleteTokens keeps the index.
LEMMA DeleteTokensKeepsIndex ==
  ASSUME IInv, UsersGrow, reply' \in Reply, UNCHANGED <<grantedTo, renews>>,
         NEW u \in User, NEW exempt, UserDeleteTokens(u, exempt)
  PROVE  IInv'
<1>1. CASE CanDeleteTokens(u)
  <2> DEFINE gone == {d \in Device : /\ devices[u][d] # None
                                     /\ devices[u][d].accessToken # exempt}
  <2>1. /\ gone \in SUBSET Device
        /\ access' = DbDelete(access, AccessTokensOf(u, gone))
        /\ refresh' = DbDelete(refresh, RefreshTokensOf(u, gone))
        /\ devices' = [devices EXCEPT ![u] = DbDelete(devices[u], gone)]
    BY <1>1 DEF UserDeleteTokens
  <2> HIDE DEF gone
  <2> QED BY <2>1, RevokeKeepsIndex
<1>2. CASE ~CanDeleteTokens(u)
  BY <1>2, UserFilesKeepIndex DEF UserDeleteTokens
<1> QED BY <1>1, <1>2

\* UserDeleteToken keeps the index.
LEMMA DeleteTokenKeepsIndex ==
  ASSUME IInv, UsersGrow, reply' \in Reply, UNCHANGED <<grantedTo, renews>>,
         NEW t \in AccessToken, access[t] # None,
         UserDeleteToken(access[t].user, t)
  PROVE  IInv'
<1> DEFINE u == access[t].user
           d == access[t].device
<1>1. u \in User /\ d \in Device
  BY DEF IInv, TypeOK, AccessFile
<1>2. CASE CanDeleteToken(u, t)
  <2>1. devices[u][d] # None /\ devices[u][d].accessToken = t
    BY DEF IInv, AccessTokensIndexed
  <2>2. AccessTokensOf(u, {d}) = {t}
    BY <1>1, <2>1, IndexIsOneToOne
  <2>3. [devices EXCEPT ![u][d] = None]
          = [devices EXCEPT ![u] = DbDelete(devices[u], {d})]
    <3>1. devices \in [User -> [Device -> DeviceObject \union {None}]]
      BY DEF IInv, TypeOK
    <3>2. [devices[u] EXCEPT ![d] = None] = DbDelete(devices[u], {d})
      BY <1>1, <3>1 DEF DbDelete
    <3> QED BY <1>1, <3>1, <3>2
  <2>4. /\ access' = DbDelete(access, AccessTokensOf(u, {d}))
        /\ refresh' = DbDelete(refresh, RefreshTokensOf(u, {d}))
        /\ devices' = [devices EXCEPT ![u] = DbDelete(devices[u], {d})]
    BY <1>2, <2>2, <2>3 DEF UserDeleteToken
  <2> HIDE DEF u, d
  <2> QED BY <1>1, <2>4, RevokeKeepsIndex
<1>3. CASE ~CanDeleteToken(u, t)
  BY <1>3, UserFilesKeepIndex DEF UserDeleteToken
<1> QED BY <1>2, <1>3

\* Only "expires" of one token changes.
LEMMA ExpireKeepsIndex ==
  ASSUME IInv, NEW t \in AccessToken, Expire(t)
  PROVE  /\ IInv'
         /\ \A x \in AccessToken : access'[x] # None <=> access[x] # None
<1>1. /\ access \in [AccessToken -> AccessFile \union {None}]
      /\ access[t] \in AccessFile
  BY DEF IInv, TypeOK, Expire
<1>2. [access[t] EXCEPT !.expires = "past"] \in AccessFile
  BY <1>1 DEF AccessFile
<1>3. /\ access' \in [AccessToken -> AccessFile \union {None}]
      /\ \A x \in AccessToken :
            /\ access'[x] # None <=> access[x] # None
            /\ access[x] # None => /\ access'[x].user = access[x].user
                                   /\ access'[x].device = access[x].device
  <2>1. access' = [access EXCEPT ![t] = [access[t] EXCEPT !.expires = "past"]]
    BY <1>1 DEF Expire
  <2>2. [access[t] EXCEPT !.expires = "past"].user = access[t].user
          /\ [access[t] EXCEPT !.expires = "past"].device = access[t].device
    BY <1>1 DEF AccessFile
  <2> QED BY <1>1, <1>2, <2>1, <2>2, NoneAssumption
<1>4. UNCHANGED <<users, devices, refresh, grantedTo, renews, reply>>
  BY DEF Expire
<1>5. TypeOK'
  BY <1>3, <1>4 DEF IInv, TypeOK
<1>6. AccessTokensIndexed'
  BY <1>3, <1>4 DEF IInv, AccessTokensIndexed
<1>7. DevicesHaveTokens'
  <2> SUFFICES ASSUME NEW v \in User, NEW e \in Device, devices[v][e] # None
               PROVE  LET x == devices[v][e].accessToken
                          y == devices[v][e].refreshToken
                      IN  /\ access'[x] # None
                          /\ access'[x].user = v /\ access'[x].device = e
                          /\ y # None => refresh[y] = x
    BY <1>4 DEF DevicesHaveTokens, SessionOf
  <2>1. /\ devices[v][e].accessToken \in AccessToken
        /\ access[devices[v][e].accessToken].user = v
        /\ access[devices[v][e].accessToken].device = e
    BY IndexIsOneToOne DEF DeviceObject
  <2>2. /\ access[devices[v][e].accessToken] # None
        /\ devices[v][e].refreshToken # None =>
             refresh[devices[v][e].refreshToken] = devices[v][e].accessToken
    BY DEF IInv, DevicesHaveTokens
  <2> QED BY <2>1, <2>2, <1>3
<1>8. RefreshTokensIndexed' /\ SessionsKeepIdentity'
  <2>1. \A y \in RefreshToken : refresh[y] # None => refresh[y] \in AccessToken
    BY DEF IInv, TypeOK
  <2>2. RefreshTokensIndexed'
    BY <1>3, <1>4, <2>1 DEF IInv, RefreshTokensIndexed
  <2>3. \A x \in AccessToken : access[x] # None =>
           [user |-> access'[x].user, device |-> access'[x].device] = SessionOf(x)
    BY <1>3 DEF SessionOf
  <2>4. SessionsKeepIdentity'
    BY <1>3, <1>4, <2>1, <2>3
       DEF IInv, SessionsKeepIdentity, SessionOf, RefreshTokensIndexed
  <2> QED BY <2>2, <2>4
<1> QED BY <1>3, <1>5, <1>6, <1>7, <1>8 DEF IInv

-----------------------------------------------------------------------------

LEMMA InitIndex == Init => IInv
BY NoneAssumption DEF Init, IInv, TypeOK, Reply, AccessTokensIndexed,
   DevicesHaveTokens, RefreshTokensIndexed, SessionsKeepIdentity

LEMMA NextKeepsIndex == IInv /\ [Next]_vars => IInv'
<1> SUFFICES ASSUME IInv, [Next]_vars PROVE IInv'
  OBVIOUS
<1>1. users \in [User -> UserFile \union {None}]
  BY DEF IInv, TypeOK
<1>2. \A t \in AccessToken : access[t] # None =>
        access[t].user \in User /\ users[access[t].user] \in UserFile
  BY DEF IInv, TypeOK, AccessTokensIndexed, AccessFile
<1>3. CASE UNCHANGED vars
  BY <1>3, UserFilesKeepIndex DEF vars, UsersGrow, IInv, TypeOK
<1>4. ASSUME NEW u \in User, NEW p \in Password, Register(u, p) PROVE IInv'
  <2>1. UsersGrow
    BY <1>1, <1>4, NoneAssumption DEF Register, UsersGrow, UserFile
  <2>2. reply' \in Reply
    BY <1>4 DEF Register, Answer, Reply
  <2> QED BY <1>4, <2>1, <2>2, UserFilesKeepIndex DEF Register
<1>5. ASSUME NEW u \in User, NEW p \in Password, NEW d \in Device,
             NEW t \in AccessToken, NEW r \in RefreshToken \union {None},
             RegisterAndLogin(u, p, d, t, r) \/ Login(u, p, d, t, r)
      PROVE  IInv'
  <2>1. reply' \in Reply /\ UserLogin(u, d, t, r)
    BY <1>5 DEF RegisterAndLogin, Login, Answer, Reply
  <2>2. UsersGrow /\ users'[u] # None /\ users'[u].hasDevices
    <3>1. CASE RegisterAndLogin(u, p, d, t, r)
      <4> DEFINE file == [password |-> p, deactivated |-> FALSE, hasDevices |-> TRUE]
      <4>1. file \in UserFile /\ file.hasDevices
        BY DEF UserFile
      <4>2. users[u] = None /\ users' = [users EXCEPT ![u] = file]
        BY <3>1 DEF RegisterAndLogin
      <4> HIDE DEF file
      <4> QED BY <1>1, <4>1, <4>2, NoneAssumption DEF UsersGrow
    <3>2. CASE Login(u, p, d, t, r)
      <4>1. users[u] \in UserFile
        BY <1>1, <3>2 DEF Login
      <4>2. /\ [users[u] EXCEPT !.hasDevices = TRUE] \in UserFile
            /\ [users[u] EXCEPT !.hasDevices = TRUE].hasDevices
        BY <4>1 DEF UserFile
      <4>3. users' = [users EXCEPT ![u] = [users[u] EXCEPT !.hasDevices = TRUE]]
        BY <3>2 DEF Login
      <4> QED BY <1>1, <4>2, <4>3, NoneAssumption DEF UsersGrow
    <3> QED BY <1>5, <3>1, <3>2
  <2> QED BY <2>1, <2>2, UserLoginKeepsIndex
<1>6. ASSUME NEW r \in RefreshToken, NEW t \in AccessToken, Refresh(r, t)
      PROVE  IInv'
  BY <1>6, RefreshKeepsIndex
<1>7. ASSUME NEW t \in AccessToken, Logout(t) PROVE IInv'
  <2>1. UsersGrow /\ reply' \in Reply /\ access[t] # None
    BY <1>1, <1>2, <1>7 DEF Logout, Authenticates, UsersGrow, Answer, Reply
  <2> QED BY <1>7, <2>1, DeleteTokenKeepsIndex DEF Logout
<1>8. ASSUME NEW t \in AccessToken, LogoutAll(t) PROVE IInv'
  <2>1. UsersGrow /\ reply' \in Reply /\ access[t].user \in User
    BY <1>1, <1>2, <1>8 DEF LogoutAll, Authenticates, UsersGrow, Answer, Reply
  <2> QED BY <1>8, <2>1, DeleteTokensKeepsIndex DEF LogoutAll
<1>9. ASSUME NEW t \in AccessToken, NEW p \in Password,
             NEW logoutDevices \in BOOLEAN, ChangePwd(t, p, logoutDevices)
      PROVE  IInv'
  <2> DEFINE u == access[t].user
             file == [users[u] EXCEPT !.password = p]
  <2>1. u \in User /\ users[u] \in UserFile
    BY <1>2, <1>9 DEF ChangePwd, Authenticates
  <2>2. file \in UserFile /\ file.hasDevices = users[u].hasDevices
    BY <2>1 DEF UserFile
  <2>3. users' = [users EXCEPT ![u] = file]
    BY <1>9 DEF ChangePwd
  <2>4. reply' \in Reply /\ UNCHANGED <<grantedTo, renews>>
    BY <1>9, <2>1 DEF ChangePwd, Answer, Reply
  <2>5. UserDeleteTokens(u, t) \/ UNCHANGED <<access, refresh, devices>>
    BY <1>9 DEF ChangePwd
  <2> HIDE DEF u, file
  <2>6. UsersGrow
    BY <1>1, <2>1, <2>2, <2>3, NoneAssumption DEF UsersGrow
  <2> QED BY <2>1, <2>4, <2>5, <2>6, DeleteTokensKeepsIndex, UserFilesKeepIndex
<1>10. ASSUME NEW t \in AccessToken, Deactivate(t) PROVE IInv'
  <2> DEFINE u == access[t].user
             file == [users[u] EXCEPT !.deactivated = TRUE]
  <2>1. u \in User /\ users[u] \in UserFile
    BY <1>2, <1>10 DEF Deactivate, Authenticates
  <2>2. file \in UserFile /\ file.hasDevices = users[u].hasDevices
    BY <2>1 DEF UserFile
  <2>3. users' = [users EXCEPT ![u] = file] \/ users' = users
    BY <1>10 DEF Deactivate
  <2>4. /\ reply' \in Reply /\ UNCHANGED <<grantedTo, renews>>
        /\ UserDeleteTokens(u, None)
    BY <1>10, <2>1 DEF Deactivate, Answer, Reply
  <2> HIDE DEF u, file
  <2>5. UsersGrow
    BY <1>1, <2>1, <2>2, <2>3, NoneAssumption DEF UsersGrow
  <2> QED BY <2>1, <2>4, <2>5, DeleteTokensKeepsIndex
<1>11. ASSUME NEW t \in AccessToken, NEW v \in User,
              AdminDeactivate(t, v) \/ AdminReactivate(t, v)
       PROVE  IInv'
  <2>1. PICK b \in BOOLEAN : users' = [users EXCEPT ![v].deactivated = b]
    BY <1>11 DEF AdminDeactivate, AdminReactivate
  <2>2. users[v] \in UserFile
    BY <1>1, <1>11 DEF AdminDeactivate, AdminReactivate
  <2> DEFINE file == [users[v] EXCEPT !.deactivated = b]
  <2>3. file \in UserFile /\ file.hasDevices = users[v].hasDevices
    BY <2>2 DEF UserFile
  <2>4. users' = [users EXCEPT ![v] = file]
    BY <2>1
  <2> HIDE DEF file
  <2>5. UsersGrow
    BY <1>1, <2>2, <2>3, <2>4, NoneAssumption DEF UsersGrow
  <2>6. /\ reply' \in Reply
        /\ UNCHANGED <<devices, access, refresh, grantedTo, renews>>
    BY <1>11 DEF AdminDeactivate, AdminReactivate, Answer, Reply
  <2> QED BY <2>5, <2>6, UserFilesKeepIndex
<1>12. ASSUME NEW t \in AccessToken, Expire(t) PROVE IInv'
  BY <1>12, ExpireKeepsIndex
<1> QED BY <1>3, <1>4, <1>5, <1>6, <1>7, <1>8, <1>9, <1>10, <1>11, <1>12 DEF Next

THEOREM IndexInvariant == Spec => []IInv
BY InitIndex, NextKeepsIndex, PTL DEF Spec

\* Type correctness of the accounts, devices and tokens.
THEOREM TypeCorrect == Spec => []TypeOK
<1>1. IInv => TypeOK
  BY DEF IInv
<1> QED BY <1>1, IndexInvariant, PTL

\* No access token file is lost to its user's devices, whatever sequence of
\* logins, refreshes, logouts, password changes and deactivations any number of
\* clients send: there is always a request that revokes it.
THEOREM AccessIndexCorrect == Spec => []AccessTokensIndexed
<1>1. IInv => AccessTokensIndexed
  BY DEF IInv
<1> QED BY <1>1, IndexInvariant, PTL

\* No device names a token file that is missing or another device's.
THEOREM DevicesCorrect == Spec => []DevicesHaveTokens
<1>1. IInv => DevicesHaveTokens
  BY DEF IInv
<1> QED BY <1>1, IndexInvariant, PTL

\* Every refresh token refreshes the token its device names: the repairs of
\* RouteRefresh.c:98-134 are not needed while no request is cut short.
THEOREM RefreshIndexCorrect == Spec => []RefreshTokensIndexed
<1>1. IInv => RefreshTokensIndexed
  BY DEF IInv
<1> QED BY <1>1, IndexInvariant, PTL

\* A token authenticates the session it was handed out for and no other.
THEOREM IdentityKept == Spec => []SessionsKeepIdentity
<1>1. IInv => SessionsKeepIdentity
  BY DEF IInv
<1> QED BY <1>1, IndexInvariant, PTL

-----------------------------------------------------------------------------
(* The answers.  They follow from the index after the step: it is enough to *)
(* know which device objects the step left.                                 *)

\* Where no device object is left, no token is.
LEMMA NoDeviceNoToken ==
  ASSUME IInv', NEW u \in User, NEW ds \in SUBSET Device,
         \A d \in ds : devices'[u][d] = None
  PROVE  Revoked(u, ds)'
<1>1. ASSUME NEW t \in AccessToken, access'[t] # None
      PROVE  ~(access'[t].user = u /\ access'[t].device \in ds)
  BY <1>1 DEF IInv, AccessTokensIndexed
<1>2. ASSUME NEW t \in AccessToken, access'[t] # None, grantedTo'[t].user = u
      PROVE  grantedTo'[t].device \notin ds
  <2>1. grantedTo'[t] = [user |-> access'[t].user, device |-> access'[t].device]
    BY <1>2 DEF IInv, SessionsKeepIdentity, SessionOf
  <2> QED BY <1>1, <1>2, <2>1
<1>3. ASSUME NEW r \in RefreshToken, refresh'[r] # None, renews'[r].user = u
      PROVE  renews'[r].device \notin ds
  <2>1. refresh'[r] \in AccessToken /\ access'[refresh'[r]] # None
    BY <1>3 DEF IInv, TypeOK, RefreshTokensIndexed
  <2>2. renews'[r] = [user |-> access'[refresh'[r]].user,
                      device |-> access'[refresh'[r]].device]
    BY <1>3 DEF IInv, SessionsKeepIdentity, SessionOf
  <2> QED BY <1>1, <1>3, <2>1, <2>2
<1> QED BY <1>2, <1>3 DEF Revoked

\* Two access tokens never share a device.
LEMMA OneTokenPerDevice ==
  ASSUME IInv', NEW t \in AccessToken, NEW x \in AccessToken,
         access'[t] # None, access'[x] # None, grantedTo'[x] = grantedTo'[t]
  PROVE  x = t
<1>1. /\ grantedTo'[t] = [user |-> access'[t].user, device |-> access'[t].device]
      /\ grantedTo'[x] = [user |-> access'[x].user, device |-> access'[x].device]
  BY DEF IInv, SessionsKeepIdentity, SessionOf
<1>2. access'[t].user = access'[x].user /\ access'[t].device = access'[x].device
  BY <1>1
<1> QED BY <1>2 DEF IInv, AccessTokensIndexed

\* The devices UserDeleteTokens leaves.
LEMMA DeleteTokensLeaves ==
  ASSUME IInv, NEW u \in User, NEW exempt, CanDeleteTokens(u),
         UserDeleteTokens(u, exempt), NEW d \in Device, devices'[u][d] # None
  PROVE  /\ devices[u][d] # None
         /\ devices[u][d].accessToken = exempt
         /\ access'[exempt] = access[exempt]
<1> DEFINE gone == {e \in Device : /\ devices[u][e] # None
                                   /\ devices[u][e].accessToken # exempt}
<1>1. /\ access \in [AccessToken -> AccessFile \union {None}]
      /\ devices \in [User -> [Device -> DeviceObject \union {None}]]
  BY DEF IInv, TypeOK
<1>2. /\ access' = DbDelete(access, AccessTokensOf(u, gone))
      /\ devices' = [devices EXCEPT ![u] = DbDelete(devices[u], gone)]
  BY DEF UserDeleteTokens
<1>3. devices'[u][d] = IF d \in gone THEN None ELSE devices[u][d]
  BY <1>1, <1>2 DEF DbDelete
<1>4. devices[u][d] # None /\ devices[u][d].accessToken = exempt
  BY <1>3
<1>5. exempt \in AccessToken
  BY <1>4, IndexIsOneToOne DEF DeviceObject
<1>6. exempt \notin AccessTokensOf(u, gone)
  BY DEF AccessTokensOf
<1>7. access'[exempt] = access[exempt]
  BY <1>1, <1>2, <1>5, <1>6 DEF DbDelete
<1> QED BY <1>4, <1>7

Promises ==
    /\ NoInternalError
    /\ AnswersKeepPromises
    /\ reply.route = "password_logout" => reply.token \in AccessToken

LEMMA InitPromises == Init => Promises
BY DEF Init, Promises, NoInternalError, AnswersKeepPromises

LEMMA NextKeepsPromises ==
  IInv /\ IInv' /\ Promises /\ [Next]_vars => Promises'
<1> SUFFICES ASSUME IInv, IInv', Promises, [Next]_vars PROVE Promises'
  OBVIOUS
<1>1. /\ access \in [AccessToken -> AccessFile \union {None}]
      /\ devices \in [User -> [Device -> DeviceObject \union {None}]]
  BY DEF IInv, TypeOK
<1>2. ASSUME NEW t \in AccessToken, access[t] # None
      PROVE  \E u \in User, d \in Device :
               /\ access[t].user = u /\ access[t].device = d
               /\ CanDeleteTokens(u) /\ CanDeleteToken(u, t)
               /\ grantedTo[t].device = d
               /\ devices[u][d].accessToken = t
  <2>1. access[t].user \in User /\ access[t].device \in Device
    BY <1>1, <1>2 DEF AccessFile
  <2>2. grantedTo[t] = [user |-> access[t].user, device |-> access[t].device]
    BY <1>2 DEF IInv, SessionsKeepIdentity, SessionOf
  <2>3. /\ users[access[t].user].hasDevices
        /\ devices[access[t].user][access[t].device] # None
        /\ devices[access[t].user][access[t].device].accessToken = t
    BY <1>2 DEF IInv, AccessTokensIndexed
  <2> QED BY <2>1, <2>2, <2>3 DEF CanDeleteTokens, CanDeleteToken
<1>3. CASE UNCHANGED vars
  BY <1>3 DEF vars, Promises, NoInternalError, AnswersKeepPromises, Revoked
<1>4. ASSUME NEW u \in User, NEW p \in Password, Register(u, p) PROVE Promises'
  BY <1>4 DEF Register, Answer, Promises, NoInternalError, AnswersKeepPromises
\* After a login or a refresh the new token has a file; it is then alone.
<1>5. ASSUME NEW t \in AccessToken, access'[t] # None,
             reply'.status = 200, reply'.token = t,
             reply'.route \in {"login", "refresh"}
      PROVE  Promises'
  <2>1. \A x \in AccessToken \ {t} : access'[x] # None => grantedTo'[x] # grantedTo'[t]
    BY <1>5, OneTokenPerDevice
  <2> QED BY <1>5, <2>1 DEF Promises, NoInternalError, AnswersKeepPromises
<1>6. ASSUME NEW u \in User, NEW p \in Password, NEW d \in Device,
             NEW t \in AccessToken, NEW r \in RefreshToken \union {None},
             RegisterAndLogin(u, p, d, t, r) \/ Login(u, p, d, t, r)
      PROVE  Promises'
  <2>1. /\ reply'.status = 200 /\ reply'.token = t /\ reply'.route = "login"
        /\ UserLogin(u, d, t, r)
    BY <1>6 DEF RegisterAndLogin, Login, Answer
  <2>2. access'[t] = NewAccessFile(u, d, r # None)
    BY <1>1, <2>1 DEF UserLogin, DbDelete
  <2>3. access'[t] # None
    BY <2>2, NoneAssumption DEF NewAccessFile, AccessFile
  <2> QED BY <1>5, <2>1, <2>3
<1>7. ASSUME NEW r \in RefreshToken, NEW t \in AccessToken, Refresh(r, t)
      PROVE  Promises'
  BY <1>5, <1>7, RefreshKeepsIndex
<1>8. ASSUME NEW t \in AccessToken, Logout(t) PROVE Promises'
  <2>1. PICK u \in User, d \in Device :
          /\ access[t].user = u /\ access[t].device = d
          /\ CanDeleteToken(u, t) /\ grantedTo'[t].device = d
    BY <1>2, <1>8 DEF Logout, Authenticates
  <2>2. /\ reply'.route = "logout" /\ reply'.status = 200
        /\ reply'.user = u /\ reply'.token = t
        /\ devices' = [devices EXCEPT ![u][d] = None]
    BY <1>8, <2>1 DEF Logout, Answer, UserDeleteToken
  <2>3. devices'[u][d] = None
    BY <1>1, <2>1, <2>2
  <2>4. Revoked(u, {d})'
    BY <2>1, <2>3, NoDeviceNoToken
  <2> QED BY <2>1, <2>2, <2>4 DEF Promises, NoInternalError, AnswersKeepPromises
\* /logout/all and /deactivate leave no device.
<1>9. ASSUME NEW u \in User, CanDeleteTokens(u), UserDeleteTokens(u, None),
             reply'.status = 200, reply'.user = u,
             reply'.route \in {"logout_all", "deactivate"}
      PROVE  Promises'
  <2>1. \A d \in Device : devices'[u][d] = None
    <3> SUFFICES ASSUME NEW d \in Device, devices'[u][d] # None PROVE FALSE
      OBVIOUS
    <3>1. devices[u][d] # None /\ devices[u][d].accessToken = None
      BY <1>9, DeleteTokensLeaves
    <3> QED BY <3>1, IndexIsOneToOne, NoneAssumption DEF DeviceObject
  <2>2. Revoked(u, Device)'
    BY <2>1, NoDeviceNoToken
  <2> QED BY <1>9, <2>2 DEF Promises, NoInternalError, AnswersKeepPromises
<1>10. ASSUME NEW t \in AccessToken, LogoutAll(t) \/ Deactivate(t) PROVE Promises'
  <2>1. PICK u \in User : access[t].user = u /\ CanDeleteTokens(u)
    BY <1>2, <1>10 DEF LogoutAll, Deactivate, Authenticates
  <2> QED BY <1>9, <1>10, <2>1 DEF LogoutAll, Deactivate, Answer
<1>11. ASSUME NEW t \in AccessToken, NEW p \in Password,
              NEW logoutDevices \in BOOLEAN, ChangePwd(t, p, logoutDevices)
       PROVE  Promises'
  <2>1. PICK u \in User, d \in Device :
          /\ access[t].user = u /\ access[t].device = d /\ access[t] # None
          /\ CanDeleteTokens(u) /\ grantedTo'[t].device = d
    BY <1>2, <1>11 DEF ChangePwd, Authenticates
  <2>2. CASE ~logoutDevices
    BY <1>11, <2>2 DEF ChangePwd, Answer, Promises, NoInternalError, AnswersKeepPromises
  <2>3. CASE logoutDevices
    <3>1. /\ UserDeleteTokens(u, t)
          /\ reply'.route = "password_logout" /\ reply'.status = 200
          /\ reply'.user = u /\ reply'.token = t
      BY <1>11, <2>1, <2>3 DEF ChangePwd, Answer
    <3>2. \A e \in Device \ {d} : devices'[u][e] = None
      <4> SUFFICES ASSUME NEW e \in Device, devices'[u][e] # None PROVE e = d
        OBVIOUS
      <4>1. devices[u][e] # None /\ devices[u][e].accessToken = t
        BY <2>1, <3>1, DeleteTokensLeaves
      <4> QED BY <4>1, IndexIsOneToOne, <2>1
    <3>3. access'[t] = access[t]
      <4> DEFINE gone == {e \in Device : devices[u][e] # None /\ devices[u][e].accessToken # t}
      <4>1. access' = DbDelete(access, AccessTokensOf(u, gone))
        BY <2>1, <3>1 DEF UserDeleteTokens
      <4>2. t \notin AccessTokensOf(u, gone)
        BY DEF AccessTokensOf
      <4> QED BY <1>1, <4>1, <4>2 DEF DbDelete
    <3>4. Revoked(u, Device \ {d})'
      BY <2>1, <3>2, NoDeviceNoToken
    <3> QED BY <2>1, <3>1, <3>3, <3>4 DEF Promises, NoInternalError, AnswersKeepPromises
  <2> QED BY <2>2, <2>3
<1>12. ASSUME NEW t \in AccessToken, NEW v \in User,
              AdminDeactivate(t, v) \/ AdminReactivate(t, v)
       PROVE  Promises'
  BY <1>12 DEF AdminDeactivate, AdminReactivate, Answer, Promises,
               NoInternalError, AnswersKeepPromises
<1>13. ASSUME NEW t \in AccessToken, Expire(t) PROVE Promises'
  <2>1. \A x \in AccessToken : access'[x] # None <=> access[x] # None
    BY <1>13, ExpireKeepsIndex
  <2>2. /\ UNCHANGED <<refresh, grantedTo, renews, reply>>
    BY <1>13 DEF Expire
  <2>3. AnswersKeepPromises'
    <3>1. CASE reply.route \in {"logout", "logout_all", "deactivate"}
      BY <2>1, <2>2, <3>1 DEF Promises, AnswersKeepPromises, Revoked
    <3>2. CASE reply.route = "password_logout"
      BY <2>1, <2>2, <3>2 DEF Promises, AnswersKeepPromises, Revoked
    <3>3. CASE reply.route \in {"login", "refresh"}
      BY <2>1, <2>2, <3>3 DEF Promises, AnswersKeepPromises
    <3> QED BY <2>2, <3>1, <3>2, <3>3 DEF AnswersKeepPromises
  <2> QED BY <2>2, <2>3 DEF Promises, NoInternalError
<1> QED BY <1>3, <1>4, <1>6, <1>7, <1>8, <1>10, <1>11, <1>12, <1>13 DEF Next

\* No authenticated request ends in an internal error.
THEOREM NoInternalErrors == Spec => []NoInternalError
<1>1. Promises => NoInternalError
  BY DEF Promises
<1> QED BY <1>1, InitPromises, NextKeepsPromises, IndexInvariant, PTL DEF Spec

\* A successful answer means what the client reads in it.
THEOREM AnswersCorrect == Spec => []AnswersKeepPromises
<1>1. Promises => AnswersKeepPromises
  BY DEF Promises
<1> QED BY <1>1, InitPromises, NextKeepsPromises, IndexInvariant, PTL DEF Spec

-----------------------------------------------------------------------------
(* Tokens implements Sessions: the files map to what a client can do with   *)
(* its tokens.  The index invariant says that deleting the files a device   *)
(* names deletes the tokens of the session.                                 *)

\* What the invariant says of the mapped state: a working token means a
\* session of a user and a device, and a refresh token renews the session of
\* the token it names.
Mapped ==
  /\ Working \in [AccessToken -> Session \union {None}]
  /\ Renewable \in [RefreshToken -> Session \union {None}]
  /\ \A t \in AccessToken :
        /\ Working[t] # None <=> access[t] # None
        /\ Working[t] # None =>
             /\ grantedTo[t] = Working[t]
             /\ Working[t] = [user |-> access[t].user, device |-> access[t].device]
             /\ Working[t].user = access[t].user
             /\ Working[t].device = access[t].device
  /\ \A r \in RefreshToken :
        /\ Renewable[r] # None <=> refresh[r] # None
        /\ Renewable[r] # None =>
             /\ renews[r] = Renewable[r]
             /\ refresh[r] \in AccessToken
             /\ Working[refresh[r]] = Renewable[r]
LEMMA MappedState == IInv => Mapped
<1> SUFFICES ASSUME IInv PROVE Mapped
  OBVIOUS
<1>1. \A t \in AccessToken : access[t] # None =>
        SessionOf(t) \in Session /\ grantedTo[t] = SessionOf(t)
  BY DEF IInv, TypeOK, SessionsKeepIdentity, SessionOf, AccessFile, Session
<1>2. \A r \in RefreshToken : refresh[r] # None =>
        /\ refresh[r] \in AccessToken /\ access[refresh[r]] # None
        /\ renews[r] = SessionOf(refresh[r])
  BY DEF IInv, TypeOK, SessionsKeepIdentity, RefreshTokensIndexed
<1>3. \A s \in Session : s # None
  BY NoneAssumption
<1> QED BY <1>1, <1>2, <1>3 DEF Mapped, Working, Renewable, SessionOf

LEMMA MappedNextState == IInv' => Mapped'
BY MappedState, PTL

\* The files a device names are the tokens of its session.
LEMMA SessionTokensAreNamed ==
  ASSUME IInv, NEW u \in User, NEW d \in Device
  PROVE  /\ \A x \in AccessToken : Working[x] = [user |-> u, device |-> d]
               <=> access[x] # None /\ x \in AccessTokensOf(u, {d})
         /\ \A y \in RefreshToken : Renewable[y] = [user |-> u, device |-> d]
               <=> refresh[y] # None /\ y \in RefreshTokensOf(u, {d})
<1> DEFINE s == [user |-> u, device |-> d]
<1>0. s # None /\ s.user = u /\ s.device = d
  BY NoneAssumption DEF Session
<1> HIDE DEF s
<1>1. ASSUME NEW x \in AccessToken
      PROVE  Working[x] = s <=> access[x] # None /\ x \in AccessTokensOf(u, {d})
  <2>1. CASE Working[x] = s
    <3>1. access[x] # None /\ access[x].user = u /\ access[x].device = d
      BY <1>0, <2>1, MappedState DEF Mapped
    <3> QED BY <2>1, <3>1 DEF IInv, AccessTokensIndexed, AccessTokensOf
  <2>2. CASE access[x] # None /\ x \in AccessTokensOf(u, {d})
    <3>1. devices[u][d] # None /\ devices[u][d].accessToken = x
      BY <2>2 DEF AccessTokensOf
    <3>2. access[x].user = u /\ access[x].device = d
      BY <3>1, IndexIsOneToOne
    <3> QED BY <2>2, <3>2 DEF Working, SessionOf, s
  <2> QED BY <2>1, <2>2
<1>2. ASSUME NEW y \in RefreshToken
      PROVE  Renewable[y] = s <=> refresh[y] # None /\ y \in RefreshTokensOf(u, {d})
  <2>1. CASE Renewable[y] = s
    <3>1. refresh[y] # None /\ Working[refresh[y]] = s /\ refresh[y] \in AccessToken
      BY <1>0, <2>1, MappedState DEF Mapped
    <3>2. access[refresh[y]].user = u /\ access[refresh[y]].device = d
      BY <1>0, <3>1, MappedState DEF Mapped
    <3>3. refresh[y] # None
      BY <1>0, <2>1, MappedState DEF Mapped
    <3>4. devices[u][d] # None /\ devices[u][d].refreshToken = y
      BY <3>2, <3>3 DEF IInv, RefreshTokensIndexed
    <3> QED BY <2>1, <3>3, <3>4 DEF RefreshTokensOf
  <2>2. CASE refresh[y] # None /\ y \in RefreshTokensOf(u, {d})
    <3>1. devices[u][d] # None /\ devices[u][d].refreshToken = y
      BY <2>2 DEF RefreshTokensOf
    <3>2. y # None
      BY NoneAssumption
    <3>3. refresh[y] = devices[u][d].accessToken
      BY <3>1, <3>2 DEF IInv, DevicesHaveTokens
    <3>4. SessionOf(refresh[y]) = s
      BY <3>1, <3>3 DEF IInv, DevicesHaveTokens, SessionOf, s
    <3>5. renews[y] = s
      BY <2>2, <3>4 DEF IInv, SessionsKeepIdentity
    <3> QED BY <2>2, <3>5 DEF Renewable
  <2> QED BY <2>1, <2>2
<1> QED BY <1>1, <1>2 DEF s

\* A step that hands nothing out, and after which some tokens of u are gone
\* and the others as before, withdraws tokens of u.
LEMMA WithdrawsOnly ==
  ASSUME IInv, IInv', NEW u \in User, UNCHANGED <<grantedTo, renews>>,
         \A t \in AccessToken : access'[t] # None => access[t] # None,
         \A t \in AccessToken : access[t] # None /\ access'[t] = None =>
            access[t].user = u,
         \A r \in RefreshToken : refresh'[r] # None => refresh[r] # None,
         \A r \in RefreshToken : refresh[r] # None /\ refresh'[r] = None =>
            access[refresh[r]].user = u
  PROVE  S!Withdraw(u)
<1>1. Mapped /\ Mapped'
  BY MappedState, MappedNextState
<1>2. ASSUME NEW t \in AccessToken, Working'[t] # Working[t]
      PROVE  Working[t] # None /\ Working[t].user = u /\ Working'[t] = None
  BY <1>1, <1>2 DEF Mapped
<1>3. ASSUME NEW r \in RefreshToken, Renewable'[r] # Renewable[r]
      PROVE  Renewable[r] # None /\ Renewable[r].user = u /\ Renewable'[r] = None
  BY <1>1, <1>3 DEF Mapped
<1>4. Issued' = Issued /\ IssuedRefresh' = IssuedRefresh
  BY DEF Issued, IssuedRefresh
<1> QED BY <1>1, <1>2, <1>3, <1>4 DEF Mapped, S!Withdraw, S!Session, Session

\* A login grants t and r to the session of u on d, in place of its others.
LEMMA LoginGrants ==
  ASSUME IInv, IInv', NEW u \in User, NEW d \in Device, NEW t \in AccessToken,
         NEW r \in RefreshToken \union {None}, UserLogin(u, d, t, r)
  PROVE  S!Next
<1> DEFINE s == [user |-> u, device |-> d]
           file == NewAccessFile(u, d, r # None)
<1>1. Mapped /\ Mapped'
  BY MappedState, MappedNextState
<1>2. /\ access \in [AccessToken -> AccessFile \union {None}]
      /\ refresh \in [RefreshToken -> AccessToken \union {None}]
      /\ grantedTo \in [AccessToken -> Session \union {None}]
      /\ renews \in [RefreshToken -> Session \union {None}]
  BY DEF IInv, TypeOK
<1>3. /\ s \in Session /\ s # None /\ t # None
      /\ file \in AccessFile /\ file # None /\ file.user = u /\ file.device = d
  BY NoneAssumption DEF Session, NewAccessFile, AccessFile
<1>4. /\ \A x \in AccessToken :
            access'[x] = IF x = t THEN file
                         ELSE IF x \in AccessTokensOf(u, {d}) THEN None ELSE access[x]
      /\ \A y \in RefreshToken :
            refresh'[y] = IF y = r THEN t
                          ELSE IF y \in RefreshTokensOf(u, {d}) THEN None
                          ELSE refresh[y]
      /\ \A x \in AccessToken : grantedTo'[x] = IF x = t THEN s ELSE grantedTo[x]
      /\ \A y \in RefreshToken : renews'[y] = IF y = r THEN s ELSE renews[y]
  BY <1>2 DEF UserLogin, DbDelete
<1>5. grantedTo[t] = None /\ (r # None => renews[r] = None)
  BY DEF UserLogin, FreshAccess, FreshRefresh
<1>6. /\ \A x \in AccessToken : Working[x] = s
               <=> access[x] # None /\ x \in AccessTokensOf(u, {d})
      /\ \A y \in RefreshToken : Renewable[y] = s
               <=> refresh[y] # None /\ y \in RefreshTokensOf(u, {d})
  BY SessionTokensAreNamed
<1>7. s.user = u /\ s.device = d
  OBVIOUS
<1>8. s = [user |-> u, device |-> d]
  OBVIOUS
<1> HIDE DEF s, file
<1>9. \A x \in AccessToken : Working'[x] =
         IF x = t THEN s ELSE IF Working[x] = s THEN None ELSE Working[x]
  BY <1>3, <1>4, <1>6, <1>8 DEF Working, SessionOf
<1>10. \A y \in RefreshToken : Renewable'[y] =
         IF y = r THEN s ELSE IF Renewable[y] = s THEN None ELSE Renewable[y]
  BY <1>3, <1>4, <1>6 DEF Renewable
<1>11. t \notin Issued /\ Issued' = Issued \union {t}
  BY <1>3, <1>4, <1>5 DEF Issued
<1>12. /\ r \notin IssuedRefresh
       /\ IssuedRefresh' = IssuedRefresh \union ({r} \ {None})
  BY <1>3, <1>4, <1>5, NoneAssumption DEF IssuedRefresh
<1>13. /\ Working' = [x \in AccessToken |->
            IF x = t THEN s ELSE IF Working[x] = s THEN None ELSE Working[x]]
       /\ Renewable' = [y \in RefreshToken |->
            IF y = r THEN s ELSE IF Renewable[y] = s THEN None ELSE Renewable[y]]
  BY <1>9, <1>10 DEF Working, Renewable
<1>14. S!Grant(s, t, r)
  BY <1>11, <1>12, <1>13 DEF S!Grant, S!Replace
<1> QED BY <1>3, <1>14 DEF S!Next, S!Session, Session

\* A refresh renews the session of r: the token it replaces is its only one.
LEMMA RefreshRenews ==
  ASSUME IInv, IInv', NEW r \in RefreshToken, NEW t \in AccessToken, Refresh(r, t)
  PROVE  S!Next
<1> DEFINE old == refresh[r]
           u == access[old].user
           d == access[old].device
           s == renews[r]
           file == NewAccessFile(u, d, TRUE)
<1>1. Mapped /\ Mapped'
  BY MappedState, MappedNextState
<1>2. /\ access \in [AccessToken -> AccessFile \union {None}]
      /\ refresh \in [RefreshToken -> AccessToken \union {None}]
      /\ grantedTo \in [AccessToken -> Session \union {None}]
  BY DEF IInv, TypeOK
<1>3. /\ old \in AccessToken /\ access[old] # None /\ users[u] # None
      /\ Renewable[r] = s /\ Working[old] = s /\ s # None
      /\ s = [user |-> u, device |-> d]
  <2>1. refresh[r] # None
    BY DEF Refresh
  <2>2. /\ old \in AccessToken /\ Renewable[r] = s /\ Working[old] = s /\ s # None
        /\ s = [user |-> u, device |-> d]
    BY <1>1, <2>1 DEF Mapped
  <2>3. access[old] # None
    BY <1>1, <2>2 DEF Mapped
  <2> QED BY <2>2, <2>3 DEF IInv, AccessTokensIndexed
<1>4. /\ FreshAccess(t)
      /\ access' = [DbDelete(access, {old}) EXCEPT ![t] = file]
      /\ refresh' = [refresh EXCEPT ![r] = t]
      /\ grantedTo' = [grantedTo EXCEPT ![t] = s]
      /\ renews' = renews
  BY <1>3 DEF Refresh
<1>5. file # None /\ file.user = u /\ file.device = d /\ t # None
  <2>1. access[old] \in AccessFile
    BY <1>2, <1>3
  <2>2. file \in AccessFile
    BY <2>1 DEF AccessFile, NewAccessFile
  <2> QED BY <2>2, NoneAssumption DEF NewAccessFile
<1>6. \A x \in AccessToken : Working[x] = s <=> x = old
  <2>1. ASSUME NEW x \in AccessToken, Working[x] = s PROVE x = old
    <3>1. access[x] # None /\ access[x].user = u /\ access[x].device = d
      <4>1. Working[x] # None
        BY <1>3, <2>1
      <4>2. access[x] # None /\ s = [user |-> access[x].user, device |-> access[x].device]
        BY <1>1, <2>1, <4>1 DEF Mapped
      <4> QED BY <1>3, <4>2
    <3> QED BY <1>3, <3>1 DEF IInv, AccessTokensIndexed
  <2> QED BY <1>3, <2>1
<1> HIDE DEF s, file, u, d
<1>7. \A x \in AccessToken : Working'[x] =
         IF x = t THEN s ELSE IF Working[x] = s THEN None ELSE Working[x]
  BY <1>2, <1>3, <1>4, <1>5, <1>6 DEF Working, SessionOf, DbDelete
<1>8. Renewable' = Renewable
  BY <1>2, <1>3, <1>4, <1>5 DEF Renewable, s
<1>9. t \notin Issued /\ Issued' = Issued \union {t}
  BY <1>2, <1>3, <1>4 DEF Issued, FreshAccess
<1>10. IssuedRefresh' = IssuedRefresh
  BY <1>4 DEF IssuedRefresh
<1>11. Working' = [x \in AccessToken |->
            IF x = t THEN s ELSE IF Working[x] = s THEN None ELSE Working[x]]
  BY <1>7 DEF Working
<1>12. S!Renew(r, t)
  BY <1>3, <1>8, <1>9, <1>10, <1>11 DEF S!Renew, S!Replace
<1> QED BY <1>12 DEF S!Next

-----------------------------------------------------------------------------

\* What the devices of u name belongs to u.
LEMMA NamedTokensAreTheUsers ==
  ASSUME IInv, NEW u \in User, NEW ds \in SUBSET Device
  PROVE  /\ \A x \in AccessTokensOf(u, ds) : access[x].user = u
         /\ \A y \in RefreshTokensOf(u, ds) : access[refresh[y]].user = u
<1>1. ASSUME NEW x \in AccessTokensOf(u, ds) PROVE access[x].user = u
  <2>1. PICK d \in ds : devices[u][d] # None /\ devices[u][d].accessToken = x
    BY DEF AccessTokensOf
  <2> QED BY <2>1, IndexIsOneToOne
<1>2. ASSUME NEW y \in RefreshTokensOf(u, ds) PROVE access[refresh[y]].user = u
  <2>1. PICK d \in ds : devices[u][d] # None /\ devices[u][d].refreshToken = y
    BY DEF RefreshTokensOf
  <2>2. y # None
    BY NoneAssumption DEF RefreshTokensOf
  <2>3. refresh[y] = devices[u][d].accessToken
    BY <2>1, <2>2 DEF IInv, DevicesHaveTokens
  <2>4. access[devices[u][d].accessToken].user = u
    BY <2>1, IndexIsOneToOne
  <2> QED BY <2>3, <2>4
<1> QED BY <1>1, <1>2

LEMMA NothingWithdrawn ==
  ASSUME IInv, IInv', UNCHANGED <<access, refresh, grantedTo, renews>>
  PROVE  UNCHANGED S!vars
BY DEF S!vars, Working, Renewable, Issued, IssuedRefresh, SessionOf

\* UserDeleteTokens and UserDeleteToken withdraw tokens of their user.
LEMMA DeleteTokensWithdraws ==
  ASSUME IInv, IInv', NEW u \in User, NEW exempt, UserDeleteTokens(u, exempt),
         UNCHANGED <<grantedTo, renews>>
  PROVE  S!Next \/ UNCHANGED S!vars
<1> DEFINE gone == {d \in Device : /\ devices[u][d] # None
                                  /\ devices[u][d].accessToken # exempt}
<1>1. CASE UNCHANGED <<access, refresh>>
  BY <1>1, NothingWithdrawn
<1>2. CASE /\ access' = DbDelete(access, AccessTokensOf(u, gone))
           /\ refresh' = DbDelete(refresh, RefreshTokensOf(u, gone))
  <2>1. gone \in SUBSET Device
    OBVIOUS
  <2> HIDE DEF gone
  <2>2. /\ \A x \in AccessToken :
              access'[x] = IF x \in AccessTokensOf(u, gone) THEN None ELSE access[x]
        /\ \A y \in RefreshToken :
              refresh'[y] = IF y \in RefreshTokensOf(u, gone) THEN None ELSE refresh[y]
    BY <1>2 DEF IInv, TypeOK, DbDelete
  <2>3. S!Withdraw(u)
    BY <2>1, <2>2, NamedTokensAreTheUsers, WithdrawsOnly
  <2> QED BY <2>3 DEF S!Next
<1> QED BY <1>1, <1>2 DEF UserDeleteTokens

LEMMA DeleteTokenWithdraws ==
  ASSUME IInv, IInv', NEW t \in AccessToken, access[t] # None,
         UserDeleteToken(access[t].user, t), UNCHANGED <<grantedTo, renews>>
  PROVE  S!Next \/ UNCHANGED S!vars
<1> DEFINE u == access[t].user
           d == access[t].device
<1>1. u \in User /\ d \in Device
  BY DEF IInv, TypeOK, AccessFile
<1>2. CASE UNCHANGED <<access, refresh>>
  BY <1>2, NothingWithdrawn
<1>3. CASE /\ access' = DbDelete(access, {t})
           /\ refresh' = DbDelete(refresh, RefreshTokensOf(u, {d}))
  <2>1. {d} \in SUBSET Device
    BY <1>1
  <2>2. /\ \A x \in AccessToken : access'[x] = IF x = t THEN None ELSE access[x]
        /\ \A y \in RefreshToken :
              refresh'[y] = IF y \in RefreshTokensOf(u, {d}) THEN None ELSE refresh[y]
    BY <1>3 DEF IInv, TypeOK, DbDelete
  <2>3. \A y \in RefreshTokensOf(u, {d}) : access[refresh[y]].user = u
    BY <1>1, <2>1, NamedTokensAreTheUsers
  <2> HIDE DEF d
  <2>4. S!Withdraw(u)
    BY <1>1, <2>2, <2>3, WithdrawsOnly
  <2> QED BY <1>1, <2>4 DEF S!Next
<1> QED BY <1>2, <1>3 DEF UserDeleteToken

LEMMA ExpireIsInvisible ==
  ASSUME IInv, NEW t \in AccessToken, Expire(t)
  PROVE  UNCHANGED S!vars
<1>1. access[t] \in AccessFile /\ access \in [AccessToken -> AccessFile \union {None}]
  BY DEF IInv, TypeOK, Expire
<1>2. /\ [access[t] EXCEPT !.expires = "past"] # None
      /\ [access[t] EXCEPT !.expires = "past"].user = access[t].user
      /\ [access[t] EXCEPT !.expires = "past"].device = access[t].device
  <2>1. [access[t] EXCEPT !.expires = "past"] \in AccessFile
    BY <1>1 DEF AccessFile
  <2> QED BY <1>1, <2>1, NoneAssumption DEF AccessFile
<1>3. /\ access' = [access EXCEPT ![t] = [access[t] EXCEPT !.expires = "past"]]
      /\ access[t] # None
      /\ UNCHANGED <<refresh, grantedTo, renews>>
  BY DEF Expire
<1>4. \A x \in AccessToken : /\ access'[x] = None <=> access[x] = None
                             /\ access'[x].user = access[x].user
                             /\ access'[x].device = access[x].device
  BY <1>1, <1>2, <1>3
<1> QED BY <1>3, <1>4 DEF S!vars, Working, Renewable, Issued, IssuedRefresh, SessionOf

LEMMA NextImplementsSessions ==
  IInv /\ IInv' /\ [Next]_vars => [S!Next]_(S!vars)
<1> SUFFICES ASSUME IInv, IInv', [Next]_vars PROVE S!Next \/ UNCHANGED S!vars
  OBVIOUS
<1>1. \A t \in AccessToken : access[t] # None => access[t].user \in User
  BY DEF IInv, TypeOK, AccessFile
<1>2. CASE UNCHANGED vars
  BY <1>2, NothingWithdrawn DEF vars
<1>3. ASSUME NEW u \in User, NEW p \in Password, Register(u, p)
      PROVE  UNCHANGED S!vars
  BY <1>3, NothingWithdrawn DEF Register
<1>4. ASSUME NEW u \in User, NEW p \in Password, NEW d \in Device,
             NEW t \in AccessToken, NEW r \in RefreshToken \union {None},
             RegisterAndLogin(u, p, d, t, r) \/ Login(u, p, d, t, r)
      PROVE  S!Next
  <2>1. UserLogin(u, d, t, r)
    BY <1>4 DEF RegisterAndLogin, Login
  <2> QED BY <2>1, LoginGrants
<1>5. ASSUME NEW r \in RefreshToken, NEW t \in AccessToken, Refresh(r, t)
      PROVE  S!Next
  BY <1>5, RefreshRenews
<1>6. ASSUME NEW t \in AccessToken, Logout(t) PROVE S!Next \/ UNCHANGED S!vars
  BY <1>6, DeleteTokenWithdraws DEF Logout, Authenticates
<1>7. ASSUME NEW t \in AccessToken, LogoutAll(t) PROVE S!Next \/ UNCHANGED S!vars
  BY <1>1, <1>7, DeleteTokensWithdraws DEF LogoutAll, Authenticates
<1>8. ASSUME NEW t \in AccessToken, NEW p \in Password,
             NEW logoutDevices \in BOOLEAN, ChangePwd(t, p, logoutDevices)
      PROVE  S!Next \/ UNCHANGED S!vars
  <2>1. /\ access[t].user \in User /\ UNCHANGED <<grantedTo, renews>>
        /\ \/ UserDeleteTokens(access[t].user, t)
           \/ UNCHANGED <<access, refresh, devices>>
    BY <1>1, <1>8 DEF ChangePwd, Authenticates
  <2> QED BY <2>1, DeleteTokensWithdraws, NothingWithdrawn
<1>9. ASSUME NEW t \in AccessToken, Deactivate(t) PROVE S!Next \/ UNCHANGED S!vars
  BY <1>1, <1>9, DeleteTokensWithdraws DEF Deactivate, Authenticates
<1>10. ASSUME NEW t \in AccessToken, NEW v \in User,
              AdminDeactivate(t, v) \/ AdminReactivate(t, v)
       PROVE  UNCHANGED S!vars
  BY <1>10, NothingWithdrawn DEF AdminDeactivate, AdminReactivate
<1>11. ASSUME NEW t \in AccessToken, Expire(t) PROVE UNCHANGED S!vars
  BY <1>11, ExpireIsInvisible
<1> QED BY <1>2, <1>3, <1>4, <1>5, <1>6, <1>7, <1>8, <1>9, <1>10, <1>11 DEF Next

\* The requests of clients, however many and in whatever order, are seen by
\* the holders of tokens as the grants, renewals and withdrawals of Sessions:
\* the routes of Tokens keep what that module promises.
THEOREM TokensImplementSessions == Spec => ImplementsSessions
<1>1. Init => S!Init
  BY DEF Init, S!Init, Working, Renewable, Issued, IssuedRefresh
<1>2. IInv /\ IInv' /\ [Next]_vars => [S!Next]_(S!vars)
  BY NextImplementsSessions
<1> QED BY <1>1, <1>2, IndexInvariant, PTL DEF Spec, S!Spec, ImplementsSessions
=============================================================================
