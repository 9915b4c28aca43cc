------------------------------- MODULE Tokens -------------------------------
(***************************************************************************)
(* User accounts, their devices, and the access and refresh tokens of      *)
(* Telodendria (User.c and the routes that log users in and out).          *)
(*                                                                         *)
(* Every route of this module holds one database lock from before its      *)
(* first read to after its last write: RouteRegister, RouteLogin,          *)
(* RouteChangePwd and RouteDeactivate hold the configuration, RouteRefresh *)
(* the refresh token, the others the user that UserAuthenticate locked.    *)
(* Database locking is per thread (docs/CHANGELOG.md:165), so a route is   *)
(* one atomic step with respect to the other request threads.  A crash     *)
(* between its file writes is left out of this module.                     *)
(*                                                                         *)
(* The answer of the last request is kept in "reply": the properties say   *)
(* what an answer promises about the files.  A request refused before      *)
(* anything is touched (no token, bad JSON, wrong password) changes        *)
(* nothing and is not a step.                                              *)
(***************************************************************************)
EXTENDS Naturals

CONSTANTS
    User,          \* localparts
    Device,        \* device ids
    Password,      \* passwords
    AccessToken,   \* the strings StrRandom(64) yields for access tokens
    RefreshToken,  \* the strings StrRandom(64) yields for refresh tokens
    None           \* an absent file or an absent JSON key

VARIABLES
    users,      \* data/users/<name>: the password, deactivated and devices keys
    devices,    \* the objects below the "devices" key of each user
    access,     \* data/tokens/access/<token>
    refresh,    \* data/tokens/refresh/<token>: the "refreshes" key
    grantedTo,  \* history: the session an access token was first handed out for
    renews,     \* history: the session a refresh token was handed out for
    reply       \* the answer of the last request that was carried out

vars == <<users, devices, access, refresh, grantedTo, renews, reply>>

-----------------------------------------------------------------------------
(* Types *)

UserFile == [password: Password, deactivated: BOOLEAN, hasDevices: BOOLEAN]
DeviceObject ==
    [accessToken: AccessToken, refreshToken: RefreshToken \union {None}]
AccessFile ==
    [user: User, device: Device, expires: {"never", "later", "past"}]
Session == [user: User, device: Device]
Reply == [route: {"none", "register", "login", "refresh", "logout",
                  "logout_all", "password", "password_logout", "deactivate",
                  "admin_deactivate", "admin_reactivate"},
          status: {200, 500},
          user: User \union {None},
          token: AccessToken \union {None}]

\* None is no name, no token and no record.
ASSUME NoneAssumption ==
    /\ None \notin User \union Device \union AccessToken \union RefreshToken
    /\ None \notin UserFile \union DeviceObject
    /\ None \notin AccessFile \union Session

TypeOK ==
    /\ users \in [User -> UserFile \union {None}]
    /\ devices \in [User -> [Device -> DeviceObject \union {None}]]
    /\ access \in [AccessToken -> AccessFile \union {None}]
    /\ refresh \in [RefreshToken -> AccessToken \union {None}]
    /\ grantedTo \in [AccessToken -> Session \union {None}]
    /\ renews \in [RefreshToken -> Session \union {None}]
    /\ reply \in Reply

-----------------------------------------------------------------------------
(* Helpers *)

Answer(route, status, u, t) ==
    reply' = [route |-> route, status |-> status, user |-> u, token |-> t]

\* The file with these names is gone; DbDelete of a missing file does nothing.
DbDelete(files, names) ==
    [f \in DOMAIN files |-> IF f \in names THEN None ELSE files[f]]

\* Faulty variants, for the mutants of the runs: the tokens of a device are
\* forgotten.
NoAccessTokensOf(u, ds) == {}
NoRefreshTokensOf(u, ds) == {}

\* The access and refresh token files the given devices of u name.
AccessTokensOf(u, ds) ==
    {t \in AccessToken : \E d \in ds :
        devices[u][d] # None /\ devices[u][d].accessToken = t}
RefreshTokensOf(u, ds) ==
    {r \in RefreshToken : \E d \in ds :
        devices[u][d] # None /\ devices[u][d].refreshToken = r}

\* StrRandom(64) never returns a string it returned before.
FreshAccess(t) == grantedTo[t] = None
FreshRefresh(r) == renews[r] = None

\* UserAuthenticate(db, t) returns a user: the token has a file, its user
\* exists and it has not expired.  Deactivation is not looked at.
Authenticates(t) ==
    /\ access[t] # None
    /\ users[access[t].user] # None
    /\ access[t].expires # "past"

\* Faulty variant: the device is not saved.
NewAccessFileNoDevice(u, d, withRefresh) ==
    [user |-> u, device |-> None,
     expires |-> IF withRefresh THEN "later" ELSE "never"]

\* UserAccessTokenGenerate + UserAccessTokenSave.
NewAccessFile(u, d, withRefresh) ==
    [user |-> u, device |-> d,
     expires |-> IF withRefresh THEN "later" ELSE "never"]

\* The part of UserLogin after the password check: t and r are the new
\* tokens (r = None without refresh_token); those of an existing device d
\* are deleted and its object is reused.  "devices" is created if missing,
\* which the callers put into users.
UserLogin(u, d, t, r) ==
    /\ FreshAccess(t)
    /\ r # None => FreshRefresh(r)
    /\ access' = [DbDelete(access, AccessTokensOf(u, {d})) EXCEPT
                    ![t] = NewAccessFile(u, d, r # None)]
    /\ LET left == DbDelete(refresh, RefreshTokensOf(u, {d}))
       IN  refresh' = [x \in RefreshToken |-> IF x = r THEN t ELSE left[x]]
    /\ devices' = [devices EXCEPT
                     ![u][d] = [accessToken |-> t, refreshToken |-> r]]
    /\ grantedTo' = [grantedTo EXCEPT ![t] = [user |-> u, device |-> d]]
    /\ renews' = [x \in RefreshToken |->
                    IF x = r THEN [user |-> u, device |-> d] ELSE renews[x]]

\* UserDeleteTokens(user, exempt): every device but that of the exempt token
\* goes, with the tokens it names.  It fails, changing nothing, when the user
\* has no "devices" key.
CanDeleteTokens(u) == users[u].hasDevices
UserDeleteTokens(u, exempt) ==
    LET gone == {d \in Device : /\ devices[u][d] # None
                                /\ devices[u][d].accessToken # exempt}
    IN  IF CanDeleteTokens(u)
        THEN /\ access' = DbDelete(access, AccessTokensOf(u, gone))
             /\ refresh' = DbDelete(refresh, RefreshTokensOf(u, gone))
             /\ devices' = [devices EXCEPT ![u] = DbDelete(devices[u], gone)]
        ELSE UNCHANGED <<access, refresh, devices>>

\* UserDeleteToken(user, t), t being a token of u: the refresh token, the
\* device object and then the access token go; it fails when the user file has
\* no device for the token.
CanDeleteToken(u, t) ==
    users[u].hasDevices /\ devices[u][access[t].device] # None
UserDeleteTokenKeepsDevice(u, t) ==  \* faulty variant: step 2 is missing
    /\ refresh' = DbDelete(refresh, RefreshTokensOf(u, {access[t].device}))
    /\ access' = DbDelete(access, {t})
    /\ UNCHANGED devices
UserDeleteToken(u, t) ==
    LET d == access[t].device
    IN  IF CanDeleteToken(u, t)
        THEN /\ refresh' = DbDelete(refresh, RefreshTokensOf(u, {d}))
             /\ devices' = [devices EXCEPT ![u][d] = None]
             /\ access' = DbDelete(access, {t})
        ELSE UNCHANGED <<access, refresh, devices>>

-----------------------------------------------------------------------------
(* The routes *)

\* POST /register, its user-interactive stage completed: the account is
\* created and, unless inhibit_login is set, logged in.
Register(u, p) ==
    /\ users[u] = None
    /\ users' = [users EXCEPT ![u] =
         [password |-> p, deactivated |-> FALSE, hasDevices |-> FALSE]]
    /\ UNCHANGED <<devices, access, refresh, grantedTo, renews>>
    /\ Answer("register", 200, u, None)

RegisterAndLogin(u, p, d, t, r) ==
    /\ users[u] = None
    /\ users' = [users EXCEPT ![u] =
         [password |-> p, deactivated |-> FALSE, hasDevices |-> TRUE]]
    /\ UserLogin(u, d, t, r)
    /\ Answer("login", 200, u, t)

\* POST /login
Login(u, p, d, t, r) ==
    /\ users[u] # None
    /\ ~users[u].deactivated
    /\ users[u].password = p
    /\ users' = [users EXCEPT ![u].hasDevices = TRUE]
    /\ UserLogin(u, d, t, r)
    /\ Answer("login", 200, u, t)

\* POST /refresh with refresh token r; t is the access token it hands out.
\* Neither the expiry of the old token nor deactivation is looked at.
Refresh(r, t) ==
    /\ refresh[r] # None
    /\ LET old == refresh[r]
           u == access[old].user
           d == access[old].device
       IN  IF access[old] = None
           THEN /\ refresh' = DbDelete(refresh, {r})
                /\ UNCHANGED <<devices, access, grantedTo>>
                /\ Answer("refresh", 500, None, None)
           ELSE IF users[u] = None
           THEN /\ refresh' = DbDelete(refresh, {r})
                /\ access' = DbDelete(access, {old})
                /\ UNCHANGED <<devices, grantedTo>>
                /\ Answer("refresh", 500, None, None)
           ELSE /\ FreshAccess(t)
                /\ access' = [DbDelete(access, {old}) EXCEPT
                                ![t] = NewAccessFile(u, d, TRUE)]
                /\ devices' = [devices EXCEPT ![u][d] =
                     [accessToken |-> t,
                      refreshToken |-> IF @ = None THEN None
                                                   ELSE @.refreshToken]]
                /\ refresh' = [refresh EXCEPT ![r] = t]
                /\ grantedTo' = [grantedTo EXCEPT ![t] = renews[r]]
                /\ Answer("refresh", 200, u, t)
    /\ UNCHANGED <<users, renews>>

\* POST /logout
Logout(t) ==
    /\ Authenticates(t)
    /\ LET u == access[t].user
       IN  /\ UserDeleteToken(u, t)
           /\ Answer("logout", IF CanDeleteToken(u, t) THEN 200 ELSE 500, u, t)
    /\ UNCHANGED <<users, grantedTo, renews>>

\* POST /logout/all
LogoutAll(t) ==
    /\ Authenticates(t)
    /\ LET u == access[t].user
       IN  /\ UserDeleteTokens(u, None)
           /\ Answer("logout_all", IF CanDeleteTokens(u) THEN 200 ELSE 500, u, t)
    /\ UNCHANGED <<users, grantedTo, renews>>

\* POST /account/password, its user-interactive stage completed; p is
\* new_password.  The result of UserDeleteTokens is ignored.
ChangePwd(t, p, logoutDevices) ==
    /\ Authenticates(t)
    /\ LET u == access[t].user
       IN  /\ users' = [users EXCEPT ![u].password = p]
           /\ IF logoutDevices
              THEN UserDeleteTokens(u, t) /\ Answer("password_logout", 200, u, t)
              ELSE /\ UNCHANGED <<access, refresh, devices>>
                   /\ Answer("password", 200, u, t)
    /\ UNCHANGED <<grantedTo, renews>>

\* POST /account/deactivate with an access token.
Deactivate(t) ==
    /\ Authenticates(t)
    /\ LET u == access[t].user
       IN  /\ UserDeleteTokens(u, None)
           /\ IF CanDeleteTokens(u)
              THEN /\ users' = [users EXCEPT ![u].deactivated = TRUE]
                   /\ Answer("deactivate", 200, u, t)
              ELSE /\ users' = users
                   /\ Answer("deactivate", 500, u, t)
    /\ UNCHANGED <<grantedTo, renews>>

\* DELETE and PUT /deactivate/<v> of the administrator API by the owner of t,
\* whoever holds the DEACTIVATE privilege at the moment.
AdminDeactivate(t, v) ==
    /\ Authenticates(t)
    /\ users[v] # None
    /\ users' = [users EXCEPT ![v].deactivated = TRUE]
    /\ Answer("admin_deactivate", 200, v, t)
    /\ UNCHANGED <<devices, access, refresh, grantedTo, renews>>

AdminReactivate(t, v) ==
    /\ Authenticates(t)
    /\ users[v] # None
    /\ users' = [users EXCEPT ![v].deactivated = FALSE]
    /\ Answer("admin_reactivate", 200, v, t)
    /\ UNCHANGED <<devices, access, refresh, grantedTo, renews>>

\* A week has passed since the token was saved.
Expire(t) ==
    /\ access[t] # None
    /\ access[t].expires = "later"
    /\ access' = [access EXCEPT ![t].expires = "past"]
    /\ UNCHANGED <<users, devices, refresh, grantedTo, renews, reply>>

-----------------------------------------------------------------------------

Init ==
    /\ users = [u \in User |-> None]
    /\ devices = [u \in User |-> [d \in Device |-> None]]
    /\ access = [t \in AccessToken |-> None]
    /\ refresh = [r \in RefreshToken |-> None]
    /\ grantedTo = [t \in AccessToken |-> None]
    /\ renews = [r \in RefreshToken |-> None]
    /\ reply = [route |-> "none", status |-> 200, user |-> None, token |-> None]

Next ==
    \/ \E u \in User, p \in Password : Register(u, p)
    \/ \E u \in User, p \in Password, d \in Device, t \in AccessToken,
          r \in RefreshToken \union {None} :
            RegisterAndLogin(u, p, d, t, r) \/ Login(u, p, d, t, r)
    \/ \E r \in RefreshToken, t \in AccessToken : Refresh(r, t)
    \/ \E t \in AccessToken : Logout(t) \/ LogoutAll(t)
    \/ \E t \in AccessToken, p \in Password, logoutDevices \in BOOLEAN :
            ChangePwd(t, p, logoutDevices)
    \/ \E t \in AccessToken : Deactivate(t)
    \/ \E t \in AccessToken, v \in User :
            AdminDeactivate(t, v) \/ AdminReactivate(t, v)
    \/ \E t \in AccessToken : Expire(t)

Spec == Init /\ [][Next]_vars

-----------------------------------------------------------------------------
(* Invariants *)

\* The session an access token stands for.
SessionOf(t) == [user |-> access[t].user, device |-> access[t].device]

\* Every access token on disk is the one its user's device names
\* (User.c:276-339, RouteRefresh.c:136-149): a token that the index lost could
\* be revoked by no route.
AccessTokensIndexed ==
    \A t \in AccessToken : access[t] # None =>
        LET u == access[t].user
            d == access[t].device
        IN  /\ users[u] # None
            /\ users[u].hasDevices
            /\ devices[u][d] # None
            /\ devices[u][d].accessToken = t

\* Every device names an access token that exists and is that device's
\* (User.c:338, RouteRefresh.c:142), and is one of a user whose file has the
\* "devices" key.
DevicesHaveTokens ==
    \A u \in User, d \in Device : devices[u][d] # None =>
        LET t == devices[u][d].accessToken
            r == devices[u][d].refreshToken
        IN  /\ access[t] # None
            /\ SessionOf(t) = [user |-> u, device |-> d]
            /\ r # None => refresh[r] = t

\* A refresh token refreshes an access token that exists, and is the one the
\* device of that access token names: the branches of RouteRefresh.c:98-134
\* for dangling tokens are never taken, and logging out finds the token.
RefreshTokensIndexed ==
    \A r \in RefreshToken : refresh[r] # None =>
        LET t == refresh[r]
        IN  /\ access[t] # None
            /\ devices[access[t].user][access[t].device] # None
            /\ devices[access[t].user][access[t].device].refreshToken = r

\* The token a client holds keeps meaning the session it was handed out for,
\* through any chain of refreshes (RouteRefresh.c:114-149): it never
\* authenticates another user or another device.
SessionsKeepIdentity ==
    /\ \A t \in AccessToken : access[t] # None => grantedTo[t] = SessionOf(t)
    /\ \A r \in RefreshToken : refresh[r] # None => renews[r] = SessionOf(refresh[r])

\* No authenticated request runs into the internal errors of RouteLogout.c:77
\* and 89, RouteDeactivate.c:135 and RouteRefresh.c:98 and 115.
NoInternalError == reply.status # 500

\* Whoever holds a token for u on a device of ds, and would still be heard.
Revoked(u, ds) ==
    /\ \A t \in AccessToken : access[t] # None /\ grantedTo[t].user = u =>
            grantedTo[t].device \notin ds
    /\ \A r \in RefreshToken : refresh[r] # None /\ renews[r].user = u =>
            renews[r].device \notin ds

\* What a successful answer promises: after /logout no token of the session
\* works, after /logout/all and /deactivate none of the user does, after a
\* password change with logout_devices only the caller's session is left, and
\* after a login or a refresh the new access token is the only one of its
\* device (User.h:261-263, RouteChangePwd.c:151-156).
AnswersKeepPromises ==
    reply.status = 200 =>
        LET u == reply.user
            d == grantedTo[reply.token].device
        IN  CASE reply.route = "logout" -> Revoked(u, {d})
              [] reply.route \in {"logout_all", "deactivate"} -> Revoked(u, Device)
              [] reply.route = "password_logout" ->
                   /\ access[reply.token] # None
                   /\ Revoked(u, Device \ {d})
              [] reply.route \in {"login", "refresh"} ->
                   \A t \in AccessToken \ {reply.token} :
                      access[t] # None => grantedTo[t] # grantedTo[reply.token]
              [] OTHER -> TRUE

\* What User.h:186-194 says of a deactivated user: "The user is logged out;
\* all access tokens are invalidated."
DeactivatedLoggedOut ==
    \A t \in AccessToken : access[t] # None => ~users[access[t].user].deactivated

-----------------------------------------------------------------------------
(* Refinement *)

\* What all this means to the holders of tokens: Sessions.  A login replaces
\* every token of its session (User.c:290-325), a refresh the access token
\* (RouteRefresh.c:136-149), the other routes only take tokens of the caller's
\* user away, and no string comes back.
Working == [t \in AccessToken |-> IF access[t] = None THEN None ELSE SessionOf(t)]
Renewable == [r \in RefreshToken |-> IF refresh[r] = None THEN None ELSE renews[r]]
Issued == {t \in AccessToken : grantedTo[t] # None}
IssuedRefresh == {r \in RefreshToken : renews[r] # None}
S == INSTANCE Sessions WITH valid <- Working, renewable <- Renewable,
                            issued <- Issued, issuedRefresh <- IssuedRefresh
ImplementsSessions == S!Spec
=============================================================================
