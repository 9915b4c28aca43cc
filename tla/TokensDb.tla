------------------------------ MODULE TokensDb ------------------------------
(***************************************************************************)
(* The requests of Tokens, file by file.  A request is the sequence of     *)
(* calls it makes to the database, in the order of the code; the process   *)
(* may crash between any two of them, and starts again with what is on     *)
(* disk.  What a route changes in the JSON object of a file it has locked  *)
(* reaches the disk when it unlocks the file.                              *)
(*                                                                         *)
(* One request runs at a time: a file that a thread has locked keeps the   *)
(* other threads out of the database (docs/CHANGELOG.md:165), and each     *)
(* route holds one from its first read to its last write.  A lock that is  *)
(* never given back therefore stops the server.                            *)
(*                                                                         *)
(* A client uses the tokens it was given: a string that reached the disk   *)
(* and no client is 64 random characters nobody can guess.  A crash after  *)
(* the last write of a request stands for an answer that gets lost too.    *)
(***************************************************************************)
EXTENDS Naturals, Sequences

CONSTANTS User, Device, Password, AccessToken, RefreshToken, None

VARIABLES
    files,      \* the database: users/<name>, tokens/access/<t>, tokens/refresh/<r>
    held,       \* the files the request has locked
    request,    \* the answer under way, None between requests
    todo,       \* the calls the request has still to make
    before,     \* history: the files when the last request began
    grantedTo,  \* the session a client was given an access token for
    renews,     \* the session a client was given a refresh token for
    reply,      \* the last answer a client received since the last crash
    crashed     \* history: there was a crash

vars ==
    <<files, held, request, todo, before, grantedTo, renews, reply, crashed>>

-----------------------------------------------------------------------------
(* Files *)

UserAt(u) == <<"users", u>>
AccessAt(t) == <<"access", t>>
RefreshAt(r) == <<"refresh", r>>
File == ({"users"} \X User) \union ({"access"} \X AccessToken)
            \union ({"refresh"} \X RefreshToken)

DeviceObject ==
    [accessToken: AccessToken, refreshToken: RefreshToken \union {None}]
UserAccount ==  \* a user file apart from its devices
    [password: Password \union {None}, deactivated: BOOLEAN, hasDevices: BOOLEAN]
UserFile == [password: Password \union {None}, deactivated: BOOLEAN,
             hasDevices: BOOLEAN, devices: [Device -> DeviceObject \union {None}]]
AccessFile == [user: User \union {None}, device: Device \union {None},
               expires: {"never", "later", "past"}]
RefreshFile == [refreshes: AccessToken \union {None}]
Session == [user: User, device: Device]
Content(f) ==
    CASE f[1] = "users" -> UserFile
      [] f[1] = "access" -> AccessFile
      [] f[1] = "refresh" -> RefreshFile

\* An answer, and the tokens it hands out for a session.
Reply == [route: {"none", "register", "login", "refresh", "logout",
                  "logout_all", "password", "password_logout", "deactivate",
                  "admin_deactivate", "admin_reactivate"},
          status: {200, 500},
          user: User \union {None},
          token: AccessToken \union {None}]
UnderWay == [reply: Reply, session: Session \union {None},
             refreshToken: RefreshToken \union {None}]

\* None is no name, no string and no record.
ASSUME NoneAssumption ==
    /\ None \notin User \union Device \union Password
    /\ None \notin AccessToken \union RefreshToken
    /\ None \notin UserFile \union DeviceObject \union AccessFile \union RefreshFile
    /\ None \notin Session \union UnderWay \union UserAccount

\* What DbCreate leaves until the file is unlocked: an object without keys.
Empty(f) ==
    CASE f[1] = "users" -> [password |-> None, deactivated |-> FALSE,
                            hasDevices |-> FALSE, devices |-> [d \in Device |-> None]]
      [] f[1] = "access" -> [user |-> None, device |-> None, expires |-> "never"]
      [] f[1] = "refresh" -> [refreshes |-> None]

Exists(f) == files[f] # None

\* The calls of a request, to be strung together.
DbLock(f) == <<[call |-> "lock", file |-> f, value |-> None]>>
DbCreate(f) == <<[call |-> "create", file |-> f, value |-> Empty(f)]>>
DbUnlock(f, v) == <<[call |-> "unlock", file |-> f, value |-> v]>>
DbDelete(f) == <<[call |-> "delete", file |-> f, value |-> None]>>

-----------------------------------------------------------------------------
(* The functions of User.c *)

NoDevices == [d \in Device |-> None]
NewAccessFile(u, d, withRefresh) ==
    [user |-> u, device |-> d, expires |-> IF withRefresh THEN "later" ELSE "never"]
SaveAccessToken(u, d, t, withRefresh) ==
    DbCreate(AccessAt(t)) \o DbUnlock(AccessAt(t), NewAccessFile(u, d, withRefresh))
SaveRefreshToken(r, t) ==
    IF r = None THEN <<>>
    ELSE DbCreate(RefreshAt(r)) \o DbUnlock(RefreshAt(r), [refreshes |-> t])

\* The files a device object names.
DeleteAccess(o) == IF o = None THEN <<>> ELSE DbDelete(AccessAt(o.accessToken))
DeleteRefresh(o) ==
    IF o = None \/ o.refreshToken = None THEN <<>>
    ELSE DbDelete(RefreshAt(o.refreshToken))

\* StrRandom(64) yields no string of which there is a trace.
FreshAccess(t) ==
    /\ grantedTo[t] = None /\ ~Exists(AccessAt(t))
    /\ \A r \in RefreshToken :
          Exists(RefreshAt(r)) => files[RefreshAt(r)].refreshes # t
    /\ \A u \in User, d \in Device :
          Exists(UserAt(u)) /\ files[UserAt(u)].devices[d] # None
            => files[UserAt(u)].devices[d].accessToken # t
FreshRefresh(r) ==
    /\ r # None => renews[r] = None /\ ~Exists(RefreshAt(r))
    /\ \A u \in User, d \in Device :
          Exists(UserAt(u)) /\ files[UserAt(u)].devices[d] # None
            => r = None \/ files[UserAt(u)].devices[d].refreshToken # r

\* UserAuthenticate accepts t, which its client knows; u is its user, and
\* stays locked.
Authenticates(t, u) ==
    /\ grantedTo[t] # None
    /\ Exists(AccessAt(t))
    /\ files[AccessAt(t)].user = u
    /\ files[AccessAt(t)].expires # "past"
    /\ Exists(UserAt(u))

\* Faulty variants: an old token of the device is forgotten.
UserLoginKeepsAccess(v, u, d, t, r) ==
    SaveAccessToken(u, d, t, r # None) \o SaveRefreshToken(r, t)
        \o DeleteRefresh(v.devices[d])
UserLoginKeepsRefresh(v, u, d, t, r) ==
    SaveAccessToken(u, d, t, r # None) \o SaveRefreshToken(r, t)
        \o DeleteAccess(v.devices[d])

\* UserLogin for a user whose file holds v: the calls, and what becomes of v.
UserLogin(v, u, d, t, r) ==
    SaveAccessToken(u, d, t, r # None) \o SaveRefreshToken(r, t)
        \o DeleteAccess(v.devices[d]) \o DeleteRefresh(v.devices[d])
LoggedInSwapped(v, d, t, r) ==  \* faulty variant
    [v EXCEPT !.hasDevices = TRUE,
              !.devices[d] = [accessToken |-> r, refreshToken |-> t]]
LoggedIn(v, d, t, r) ==
    [v EXCEPT !.hasDevices = TRUE,
              !.devices[d] = [accessToken |-> t, refreshToken |-> r]]

\* The devices UserDeleteTokens visits, and the rest of its loop.
Doomed(v, exempt) ==
    {d \in Device : v.devices[d] # None /\ v.devices[d].accessToken # exempt}
UserDeleteTokens(u, ds) ==
    IF ds = {} THEN <<>>
    ELSE <<[call |-> "visit", file |-> UserAt(u), value |-> ds]>>
WithoutDevices(v, ds) ==
    [v EXCEPT !.devices = [d \in Device |-> IF d \in ds THEN None ELSE @[d]]]

\* UserDeleteToken.  Its early returns leave the token's file locked.
CanDeleteToken(v, d) == v.hasDevices /\ v.devices[d] # None
UserDeleteTokenKeepsLock(v, t, d) ==  \* faulty variant
    DbLock(AccessAt(t)) \o DeleteRefresh(v.devices[d]) \o DbDelete(AccessAt(t))
UserDeleteToken(v, t, d) ==
    DbLock(AccessAt(t)) \o
        IF CanDeleteToken(v, d)
        THEN DeleteRefresh(v.devices[d])
               \o DbUnlock(AccessAt(t), files[AccessAt(t)]) \o DbDelete(AccessAt(t))
        ELSE <<>>

-----------------------------------------------------------------------------
(* Requests *)

NoReply == [route |-> "none", status |-> 200, user |-> None, token |-> None]

\* A request that has locked the files in locks and will make the given calls;
\* its answer hands out the tokens t and r for session s.
Begin(locks, calls, route, status, u, t, s, r) ==
    /\ held' = locks
    /\ todo' = calls
    /\ before' = files
    /\ request' = [reply |-> [route |-> route, status |-> status,
                              user |-> u, token |-> t],
                   session |-> s, refreshToken |-> r]
    /\ UNCHANGED <<files, grantedTo, renews, reply, crashed>>

NewUser(p) == [Empty(<<"users">>) EXCEPT !.password = p]

\* POST /register
Register(u, p) ==
    /\ ~Exists(UserAt(u))
    /\ Begin({}, DbCreate(UserAt(u)) \o DbUnlock(UserAt(u), NewUser(p)),
             "register", 200, u, None, None, None)

RegisterAndLogin(u, p, d, t, r) ==
    /\ ~Exists(UserAt(u))
    /\ FreshAccess(t) /\ FreshRefresh(r)
    /\ Begin({}, DbCreate(UserAt(u)) \o UserLogin(NewUser(p), u, d, t, r)
                   \o DbUnlock(UserAt(u), LoggedIn(NewUser(p), d, t, r)),
             "login", 200, u, t, [user |-> u, device |-> d], r)

\* POST /login
Login(u, p, d, t, r) ==
    LET v == files[UserAt(u)]
    IN  /\ Exists(UserAt(u))
        /\ v.password = p
        /\ ~v.deactivated
        /\ FreshAccess(t) /\ FreshRefresh(r)
        /\ Begin({UserAt(u)}, UserLogin(v, u, d, t, r)
                                \o DbUnlock(UserAt(u), LoggedIn(v, d, t, r)),
                 "login", 200, u, t, [user |-> u, device |-> d], r)

\* POST /refresh with the refresh token of a client.  JsonSet makes the device
\* object if the device has none; it has no effect on a file without devices.
Refreshed(v, d, t) ==
    IF ~v.hasDevices THEN v
    ELSE [v EXCEPT !.devices[d] =
            [accessToken |-> t, refreshToken |-> IF @ = None THEN None
                                                 ELSE @.refreshToken]]
RefreshCallsUserFirst(r, old, u, d, t) ==  \* faulty: the user is saved too early
    SaveAccessToken(u, d, t, TRUE)
        \o DbUnlock(UserAt(u), Refreshed(files[UserAt(u)], d, t))
        \o DbUnlock(AccessAt(old), files[AccessAt(old)])
        \o DbDelete(AccessAt(old))
        \o DbUnlock(RefreshAt(r), [refreshes |-> t])
RefreshCallsStale(r, old, u, d, t) ==  \* faulty: the old token is saved again
    SaveAccessToken(u, d, t, TRUE)
        \o DbDelete(AccessAt(old))
        \o DbUnlock(AccessAt(old), files[AccessAt(old)])
        \o DbUnlock(RefreshAt(r), [refreshes |-> t])
        \o DbUnlock(UserAt(u), Refreshed(files[UserAt(u)], d, t))
RefreshCalls(r, old, u, d, t) ==
    SaveAccessToken(u, d, t, TRUE)
        \o DbUnlock(AccessAt(old), files[AccessAt(old)])
        \o DbDelete(AccessAt(old))
        \o DbUnlock(RefreshAt(r), [refreshes |-> t])
        \o DbUnlock(UserAt(u), Refreshed(files[UserAt(u)], d, t))
Refresh(r, t) ==
    LET old == files[RefreshAt(r)].refreshes
        u == files[AccessAt(old)].user
        d == files[AccessAt(old)].device
    IN  /\ renews[r] # None
        /\ Exists(RefreshAt(r))
        /\ FreshAccess(t)
        /\ IF ~Exists(AccessAt(old))
           THEN Begin({RefreshAt(r)},
                      DbUnlock(RefreshAt(r), files[RefreshAt(r)])
                        \o DbDelete(RefreshAt(r)),
                      "refresh", 500, None, None, None, None)
           ELSE IF ~Exists(UserAt(u))
           THEN Begin({RefreshAt(r), AccessAt(old)},
                      DbUnlock(RefreshAt(r), files[RefreshAt(r)])
                        \o DbDelete(RefreshAt(r))
                        \o DbUnlock(AccessAt(old), files[AccessAt(old)])
                        \o DbDelete(AccessAt(old)),
                      "refresh", 500, None, None, None, None)
           ELSE Begin({RefreshAt(r), AccessAt(old), UserAt(u)},
                      RefreshCalls(r, old, u, d, t),
                      "refresh", 200, u, t, renews[r], None)

\* POST /logout
Logout(t) == \E u \in User :
    LET v == files[UserAt(u)]
        d == files[AccessAt(t)].device
    IN  /\ Authenticates(t, u)
        /\ Begin({UserAt(u)},
                 UserDeleteToken(v, t, d)
                   \o DbUnlock(UserAt(u), WithoutDevices(v, {d})),
                 "logout", IF CanDeleteToken(v, d) THEN 200 ELSE 500, u, t,
                 None, None)

\* POST /logout/all
LogoutAll(t) == \E u \in User :
    LET v == files[UserAt(u)]
    IN  /\ Authenticates(t, u)
        /\ Begin({UserAt(u)},
                 UserDeleteTokens(u, Doomed(v, None))
                   \o DbUnlock(UserAt(u), WithoutDevices(v, Device)),
                 "logout_all", IF v.hasDevices THEN 200 ELSE 500, u, t,
                 None, None)

\* POST /account/password
ChangePwd(t, p, logoutDevices) == \E u \in User :
    LET v == files[UserAt(u)]
        gone == IF logoutDevices THEN Doomed(v, t) ELSE {}
    IN  /\ Authenticates(t, u)
        /\ Begin({UserAt(u)},
                 UserDeleteTokens(u, gone)
                   \o DbUnlock(UserAt(u),
                               [WithoutDevices(v, gone) EXCEPT !.password = p]),
                 IF logoutDevices THEN "password_logout" ELSE "password",
                 200, u, t, None, None)

\* POST /account/deactivate
Deactivate(t) == \E u \in User :
    LET v == files[UserAt(u)]
    IN  /\ Authenticates(t, u)
        /\ Begin({UserAt(u)},
                 UserDeleteTokens(u, Doomed(v, None))
                   \o DbUnlock(UserAt(u), [WithoutDevices(v, Device)
                                    EXCEPT !.deactivated = v.hasDevices \/ @]),
                 "deactivate", IF v.hasDevices THEN 200 ELSE 500, u, t,
                 None, None)

\* DELETE and PUT /deactivate/<w>: the administrator's file is unlocked first.
AdminDeactivate(t, w, deactivated) == \E u \in User :
    /\ Authenticates(t, u)
    /\ Exists(UserAt(w))
    /\ Begin({UserAt(u), UserAt(w)},
             DbUnlock(UserAt(u), files[UserAt(u)])
               \o DbUnlock(UserAt(w), [files[UserAt(w)]
                                         EXCEPT !.deactivated = deactivated]),
             IF deactivated THEN "admin_deactivate" ELSE "admin_reactivate",
             200, w, t, None, None)

-----------------------------------------------------------------------------
(* The life of a request *)

\* The next call to the database.
Step ==
    /\ todo # <<>>
    /\ LET c == Head(todo)
       IN  /\ c.call # "visit"
           /\ files' = IF c.call = "lock" THEN files
                       ELSE [files EXCEPT ![c.file] = c.value]
           /\ held' = CASE c.call \in {"lock", "create"} -> held \union {c.file}
                        [] c.call = "unlock" -> held \ {c.file}
                        [] OTHER -> held
    /\ todo' = Tail(todo)
    /\ UNCHANGED <<request, before, grantedTo, renews, reply, crashed>>

\* UserDeleteTokens takes up another device, in any order: HashMapIterate has
\* none.  Its access token goes first.
VisitKeepsRefresh(f, ds, o) == UserDeleteTokens(f[2], ds)  \* faulty variant
VisitRest(f, ds, o) == DeleteRefresh(o) \o UserDeleteTokens(f[2], ds)
Visit ==
    /\ todo # <<>>
    /\ LET c == Head(todo)
       IN  /\ c.call = "visit"
           /\ \E d \in c.value :
                 LET o == files[c.file].devices[d]
                 IN  /\ files' = [files EXCEPT ![AccessAt(o.accessToken)] = None]
                     /\ todo' = VisitRest(c.file, c.value \ {d}, o) \o Tail(todo)
    /\ UNCHANGED <<held, request, before, grantedTo, renews, reply, crashed>>

\* The client has its answer.
Answer ==
    /\ request # None
    /\ todo = <<>>
    /\ LET t == request.reply.token
           r == request.refreshToken
       IN  IF request.session = None THEN UNCHANGED <<grantedTo, renews>>
           ELSE /\ grantedTo' = [grantedTo EXCEPT ![t] = request.session]
                /\ renews' = [x \in RefreshToken |->
                                IF x = r THEN request.session ELSE renews[x]]
    /\ reply' = request.reply
    /\ request' = None
    /\ before' = files
    /\ UNCHANGED <<files, held, todo, crashed>>

\* The process dies in the middle of a request and is started again.
Crash ==
    /\ request # None
    /\ request' = None
    /\ todo' = <<>>
    /\ held' = {}
    /\ before' = files
    /\ reply' = NoReply
    /\ crashed' = TRUE
    /\ UNCHANGED <<files, grantedTo, renews>>

\* A week has passed since the token was saved.
Expire(t) ==
    /\ request = None
    /\ Exists(AccessAt(t))
    /\ files[AccessAt(t)].expires = "later"
    /\ files' = [files EXCEPT ![AccessAt(t)].expires = "past"]
    /\ before' = files'
    /\ UNCHANGED <<held, request, todo, grantedTo, renews, reply, crashed>>

Init ==
    /\ files = [f \in File |-> None]
    /\ held = {}
    /\ request = None
    /\ todo = <<>>
    /\ before = files
    /\ grantedTo = [t \in AccessToken |-> None]
    /\ renews = [r \in RefreshToken |-> None]
    /\ reply = NoReply
    /\ crashed = FALSE

\* A client sends a request.
Request ==
    \/ \E u \in User, p \in Password : Register(u, p)
    \/ \E u \in User, p \in Password, d \in Device, t \in AccessToken,
          r \in RefreshToken \union {None} :
            RegisterAndLogin(u, p, d, t, r) \/ Login(u, p, d, t, r)
    \/ \E r \in RefreshToken, t \in AccessToken : Refresh(r, t)
    \/ \E t \in AccessToken :
          \/ Logout(t)
          \/ LogoutAll(t)
          \/ \E p \in Password, logoutDevices \in BOOLEAN :
                ChangePwd(t, p, logoutDevices)
          \/ Deactivate(t)
          \/ \E w \in User, deactivated \in BOOLEAN :
                AdminDeactivate(t, w, deactivated)

Next ==
    \/ request = None /\ held = {} /\ Request
    \/ Step
    \/ Visit
    \/ Answer
    \/ Crash
    \/ \E t \in AccessToken : Expire(t)

Spec == Init /\ [][Next]_vars

-----------------------------------------------------------------------------
(* Properties *)

TypeOK ==
    /\ DOMAIN files = File
    /\ \A f \in File : files[f] \in Content(f) \union {None}
    /\ held \subseteq File
    /\ \A i \in DOMAIN todo : todo[i].file \in File
    /\ request \in UnderWay \union {None}
    /\ request = None => todo = <<>>
    /\ reply \in Reply
    /\ grantedTo \in [AccessToken -> Session \union {None}]
    /\ renews \in [RefreshToken -> Session \union {None}]
    /\ crashed \in BOOLEAN

\* The working tokens in the hands of clients.
Known(t) == grantedTo[t] # None /\ Exists(AccessAt(t))
KnownRefresh(r) == renews[r] # None /\ Exists(RefreshAt(r))

\* Wherever the process died, an access token that works in the hands of a
\* client means the session it was given for, and is the token that the
\* device names: it can be revoked, and logging out finds it.  In particular
\* no client has a token of an account that was left incomplete
\* (User.c:219, User.c:276-339, RouteRefresh.c:136-149).
KnownTokensIndexed ==
    request = None => \A t \in AccessToken : Known(t) =>
        LET s == grantedTo[t]
            v == files[UserAt(s.user)]
        IN  /\ files[AccessAt(t)].user = s.user
            /\ files[AccessAt(t)].device = s.device
            /\ v # None
            /\ v.hasDevices
            /\ v.devices[s.device] # None
            /\ v.devices[s.device].accessToken = t

\* A refresh token in the hands of a client is the one its device names, so
\* that a logout deletes it, and it refreshes a token of its own session or,
\* after a crash, one that is gone: RouteRefresh.c:98 then drops it.
KnownRefreshTokensNamed ==
    request = None => \A r \in RefreshToken : KnownRefresh(r) =>
        LET s == renews[r]
            t == files[RefreshAt(r)].refreshes
            v == files[UserAt(s.user)]
        IN  /\ v # None
            /\ v.devices[s.device] # None
            /\ v.devices[s.device].refreshToken = r
            /\ Exists(AccessAt(t)) \/ crashed
            /\ Exists(AccessAt(t)) =>
                  /\ files[AccessAt(t)].user = s.user
                  /\ files[AccessAt(t)].device = s.device

\* No request leaves a lock behind, not even one that finds the files as a
\* crash left them: the early returns of UserDeleteToken (User.c:641 and 655)
\* would keep every other thread out of the database for ever.
LocksReturned == request = None => held = {}

\* Answers keep their promises after crashes as well, for the tokens clients
\* hold: see AnswersKeepPromises of Tokens.
Revoked(u, ds) ==
    /\ \A t \in AccessToken :
          Known(t) => ~(grantedTo[t].user = u /\ grantedTo[t].device \in ds)
    /\ \A r \in RefreshToken :
          KnownRefresh(r) => ~(renews[r].user = u /\ renews[r].device \in ds)
AnswersKeepPromises ==
    request = None /\ reply.status = 200 =>
        LET u == reply.user
            t == reply.token
        IN  CASE reply.route = "logout" -> Revoked(u, {grantedTo[t].device})
              [] reply.route \in {"logout_all", "deactivate"} -> Revoked(u, Device)
              [] reply.route = "password_logout" ->
                   Known(t) /\ Revoked(u, Device \ {grantedTo[t].device})
              [] reply.route \in {"login", "refresh"} ->
                   \A x \in AccessToken \ {t} : Known(x) => grantedTo[x] # grantedTo[t]
              [] OTHER -> TRUE

-----------------------------------------------------------------------------
(* Refinement *)

\* As long as there is no crash this is Tokens: each answer is the atomic
\* route of that module, and the calls before it change nothing a request
\* could see.
Settled == IF request = None THEN files ELSE before
Account(v) == [password |-> v.password, deactivated |-> v.deactivated,
               hasDevices |-> v.hasDevices]
UsersOf(b) ==
    [u \in User |-> IF b[UserAt(u)] = None THEN None ELSE Account(b[UserAt(u)])]
DevicesOf(b) ==
    [u \in User |-> IF b[UserAt(u)] = None THEN NoDevices ELSE b[UserAt(u)].devices]
AccessOf(b) == [t \in AccessToken |-> b[AccessAt(t)]]
RefreshOf(b) ==
    [r \in RefreshToken |->
        IF b[RefreshAt(r)] = None THEN None ELSE b[RefreshAt(r)].refreshes]
T == INSTANCE Tokens WITH
    users <- UsersOf(Settled), devices <- DevicesOf(Settled),
    access <- AccessOf(Settled), refresh <- RefreshOf(Settled)

\* Every step before the first crash is a step of Tokens or changes nothing
\* there: the files are written in an order that makes each request of
\* RouteLogin.c, RouteRefresh.c, RouteLogout.c and the rest look atomic.
ImplementsTokens == T!Init /\ [][crashed' \/ UNCHANGED T!vars \/ T!Next]_vars

\* With any number of crashes: a token of a client means the same session for
\* as long as it works, a session has one working token after each login and
\* refresh, a crash may cost tokens of the user whose request it cut short and
\* of nobody else, and what stopped working never works again.
Working == [t \in AccessToken |->
    IF Known(t) THEN [user |-> files[AccessAt(t)].user,
                      device |-> files[AccessAt(t)].device]
                ELSE None]
Renewable == [r \in RefreshToken |-> IF KnownRefresh(r) THEN renews[r] ELSE None]
Issued == {t \in AccessToken : grantedTo[t] # None}
IssuedRefresh == {r \in RefreshToken : renews[r] # None}
S == INSTANCE Sessions WITH
    valid <- Working, renewable <- Renewable,
    issued <- Issued, issuedRefresh <- IssuedRefresh
ImplementsSessions == S!Spec
=============================================================================
