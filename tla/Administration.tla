--------------------------- MODULE Administration ---------------------------
(***************************************************************************)
(* The routes that share what administrators and users set: privileges and *)
(* the registration tokens that grant them, the configuration, room        *)
(* aliases, profiles, filters, and the search in the user directory,       *)
(* called by the threads of the HTTP servers.                              *)
(*                                                                         *)
(* A thread that has locked a file keeps the others out of the database    *)
(* until it has unlocked all it locked (docs/CHANGELOG.md:165), so what a  *)
(* route does between its first lock and its last unlock is one step.      *)
(* RoutePrivileges lets go of everything on its way and takes two.  held   *)
(* is what a thread keeps locked after its step: a lock that is never      *)
(* given back stops all other threads.                                     *)
(*                                                                         *)
(* The request's access token belongs to user u: see module Tokens.  Which *)
(* registration token a session has spent, and for how many accounts it    *)
(* does, is the subject of module Registration: here it may be any token,  *)
(* any number of times.  A request that is refused changes nothing, and is *)
(* a step of its own only where it may leave something behind.             *)
(***************************************************************************)
EXTENDS Integers, FiniteSets, SequencesExt

CONSTANTS
    User,           \* localparts
    RegToken,       \* names of registration tokens
    FirstToken,     \* the token that Main creates
    Thread, Server, Room, FilterId, FilterBody, DisplayName, Term,
    Alias,          \* the aliases requests name; they parse
    ServerPart,     \* the server an alias names
    PrivilegeList,  \* the lists of privileges in requests, as sets of names
    ConfigRequest,  \* the configurations in requests
    InitialConfig,  \* what ConfigCreateDefault writes
    NameMatch,      \* <<u, s>>: the term s is part of the name u
    DisplayMatch,   \* <<n, s>>: the term s is part of the display name n
    None            \* no value

VARIABLES
    users,          \* who has registered
    privileges,     \* the names in the user's file; {} when there is no key
    grants,         \* the names in a registration token's file
    said, offered,  \* history: what the answered requests gave a user, a token
    config,         \* the JSON object in the file config
    alias, ids,     \* the objects "alias" and "id" of the file aliases
    displayname,    \* the display name in the user's profile
    filters,        \* filters/<user>/<id>
    given,          \* history: the filters that users were given an id for
    phase, held     \* where a thread stands and what it keeps locked

rights == <<users, privileges, grants, said, offered>>
settings == <<config, alias, ids, displayname, filters, given>>
data == <<rights, settings>>
vars == <<data, phase, held>>

-----------------------------------------------------------------------------
(* Privileges: bits in memory, names on file *)

AllPrivileges == {"DEACTIVATE", "ISSUE_TOKENS", "CONFIG", "GRANT_PRIVILEGES",
                  "PROC_CONTROL", "ALIAS"}
PrivilegeName == AllPrivileges \union {"ALL"}

UserDecodePrivileges(names) ==
    IF "ALL" \in names THEN AllPrivileges ELSE names \intersect AllPrivileges
UserEncodePrivilegesOld(ps) ==  \* faulty variant: not told of a privilege
    IF ps = AllPrivileges THEN {"ALL"} ELSE ps \ {"ALIAS"}
UserEncodePrivileges(ps) == IF ps = AllPrivileges THEN {"ALL"} ELSE ps

UserGetPrivileges(u) == UserDecodePrivileges(privileges[u])
Holds(u, p) == p \in UserGetPrivileges(u)

\* What a request says of the privileges of a user who has those in old.
AfterRequest(method, old, list) ==
    CASE method = "POST" -> UserDecodePrivileges(list)
      [] method = "PUT" -> old \union UserDecodePrivileges(list)
      [] method = "DELETE" -> old \ UserDecodePrivileges(list)

-----------------------------------------------------------------------------
(* The configuration: which keys there are, and whether their values do *)

Required == {"listen", "log", "serverName", "federation", "registration"}
ConfigKey == Required \union {"runAs", "baseUrl", "identityServer", "pid", "maxCache"}
ConfigValue == {"good", "bad"} \union Server
ConfigJson == [ConfigKey -> ConfigValue \union {None}]

ConfigParse(c) ==
    /\ \A k \in Required : c[k] # None
    /\ \A k \in ConfigKey : c[k] # "bad"
JsonMerge(c, d) == [k \in ConfigKey |-> IF d[k] = None THEN c[k] ELSE d[k]]

\* What is on file when the server starts parses: module Lifecycle.
ASSUME ConfigAssumption ==
    /\ ConfigRequest \subseteq ConfigJson
    /\ InitialConfig \in ConfigJson
    /\ ConfigParse(InitialConfig)
\* The directory tables/users on disk is finite.
ASSUME UserAssumption == IsFiniteSet(User)
ASSUME TokenAssumption == FirstToken \in RegToken
ASSUME NoneAssumption ==
    /\ None \notin RegToken
    /\ \A names \in SUBSET PrivilegeName : names # None
    /\ None \notin FilterBody
    /\ None \notin [id: Room, createdBy: User]

\* ConfigUnlock returns at once when the configuration did not parse.
ConfigLeak == IF ConfigParse(config) THEN {} ELSE {"config"}

-----------------------------------------------------------------------------
(* Threads *)

File == {"config", "aliases"} \union User

\* The database is free, and thread th waits for a request.
Free(th) == \A other \in Thread \ {th} : held[other] = {}
Starts(th) == phase[th] = "idle" /\ Free(th)
Ends(th, leaked) ==
    /\ phase' = [phase EXCEPT ![th] = "idle"]
    /\ held' = [held EXCEPT ![th] = @ \union leaked]

\* The process dies, and is started again with what is on disk.
Dies ==
    /\ phase' = [th \in Thread |-> "idle"]
    /\ held' = [th \in Thread |-> {}]

-----------------------------------------------------------------------------
(* /_telodendria/admin/v1/privileges *)

\* Sets the privileges of u, which is locked.
SetPrivileges(u) ==
    /\ \E method \in {"POST", "PUT", "DELETE"}, list \in PrivilegeList :
          /\ privileges' = [privileges EXCEPT ![u] = UserEncodePrivileges(
                               AfterRequest(method, UserGetPrivileges(u), list))]
          /\ said' = [said EXCEPT ![u] = AfterRequest(method, @, list)]
    /\ UNCHANGED <<users, grants, offered, settings>>

\* Without a localpart: the caller's own privileges.
RoutePrivilegesOwn(th, u) ==
    /\ Starts(th)
    /\ Holds(u, "GRANT_PRIVILEGES")
    /\ SetPrivileges(u)
    /\ Ends(th, {})

\* With one: the caller is checked and unlocked, then the other user locked.
RoutePrivilegesCheck(th, u) ==
    /\ Starts(th)
    /\ Holds(u, "GRANT_PRIVILEGES")
    /\ phase' = [phase EXCEPT ![th] = "switching"]
    /\ UNCHANGED <<data, held>>
RoutePrivilegesOther(th) ==
    /\ phase[th] = "switching" /\ Free(th)
    /\ \/ \E u \in users : SetPrivileges(u)
       \/ UNCHANGED data                    \* GET, unknown user, bad request
    /\ Ends(th, {})

-----------------------------------------------------------------------------
(* /_telodendria/admin/v1/tokens and /_matrix/client/v3/register *)

\* RegTokenCreate: the request's list on file, as names.
StoreGrants(t, list) ==
    /\ grants[t] = None
    /\ grants' = [grants EXCEPT ![t] =
                     UserEncodePrivileges(UserDecodePrivileges(list))]
    /\ offered' = [offered EXCEPT ![t] = UserDecodePrivileges(list)]
    /\ UNCHANGED <<users, privileges, said, settings>>

RouteAdminTokensCreateUnchecked(th, u, t) ==  \* faulty variant
    /\ Starts(th)
    /\ \E list \in PrivilegeList : StoreGrants(t, list)
    /\ Ends(th, {})
RouteAdminTokensCreate(th, u, t) ==
    /\ Starts(th)
    /\ Holds(u, "ISSUE_TOKENS")
    /\ \E list \in PrivilegeList : StoreGrants(t, list)
    /\ Ends(th, {})

RouteAdminTokensDelete(th, u, t) ==
    /\ Starts(th)
    /\ Holds(u, "ISSUE_TOKENS")
    /\ grants[t] # None
    /\ grants' = [grants EXCEPT ![t] = None]
    /\ offered' = [offered EXCEPT ![t] = {}]
    /\ UNCHANGED <<users, privileges, said, settings>>
    /\ Ends(th, {})

OnFile(t) == t # None /\ grants[t] # None
Granted(t) == IF OnFile(t) THEN UserDecodePrivileges(grants[t]) ELSE {}

\* POST /register as u in a session that names the token t, or none: the
\* token's file is read when the account has been created.
RouteRegister(th, u, t) ==
    /\ Starts(th)
    /\ \/ /\ ConfigParse(config)
          /\ u \notin users
          /\ users' = users \union {u}
          /\ privileges' = [privileges EXCEPT ![u] =
                               UserEncodePrivileges(Granted(t))]
          /\ said' = [said EXCEPT ![u] = IF OnFile(t) THEN offered[t] ELSE {}]
       \/ UNCHANGED <<users, privileges, said>>    \* GET, or refused
    /\ UNCHANGED <<grants, offered, settings>>
    /\ Ends(th, ConfigLeak)

-----------------------------------------------------------------------------
(* /_telodendria/admin/v1/config *)

RouteConfigUnparsed(th, u) ==  \* faulty variant
    /\ Starts(th)
    /\ Holds(u, "CONFIG")
    /\ \E d \in ConfigRequest : config' \in {d, JsonMerge(config, d)}
    /\ UNCHANGED <<rights, alias, ids, displayname, filters, given>>
    /\ Ends(th, ConfigLeak)
RouteConfig(th, u) ==
    /\ Starts(th)
    /\ Holds(u, "CONFIG")
    /\ \/ /\ ConfigParse(config)
          /\ \E d \in ConfigRequest :
                /\ config' \in {d, JsonMerge(config, d)}    \* POST, PUT
                /\ ConfigParse(config')
       \/ UNCHANGED config                  \* GET, or refused
    /\ UNCHANGED <<rights, alias, ids, displayname, filters, given>>
    /\ Ends(th, ConfigLeak)

\* Before ConfigLock has filled it in, ConfigUnlock reads an uninitialized
\* Config: it returns, or unlocks a reference that is none and crashes.
RouteConfigRefused(th) ==
    /\ Starts(th)
    /\ Ends(th, {}) \/ Dies
    /\ UNCHANGED data

-----------------------------------------------------------------------------
(* /directory/room/<alias> *)

\* A configuration that does not parse is used after it was freed.
IsServerName(s) == ConfigParse(config) => s = config["serverName"]

RouteAliasDirectoryPutAnyway(th, u, a, r) ==  \* faulty variant
    /\ Starts(th)
    /\ IsServerName(ServerPart[a])
    /\ alias' = [alias EXCEPT ![a] = [id |-> r, createdBy |-> u]]
    /\ ids' = [ids EXCEPT ![r] = Append(@, a)]
    /\ UNCHANGED <<rights, config, displayname, filters, given>>
    /\ Ends(th, ConfigLeak)
RouteAliasDirectoryPut(th, u, a, r) ==
    /\ Starts(th)
    /\ IsServerName(ServerPart[a])
    /\ alias[a] = None
    /\ alias' = [alias EXCEPT ![a] = [id |-> r, createdBy |-> u]]
    /\ ids' = [ids EXCEPT ![r] = Append(@, a)]
    /\ UNCHANGED <<rights, config, displayname, filters, given>>
    /\ Ends(th, ConfigLeak)

\* The first entry of the list that is a goes.
Without(s, a) ==
    IF \E i \in DOMAIN s : s[i] = a
    THEN RemoveAt(s, CHOOSE i \in DOMAIN s :
                        s[i] = a /\ \A j \in 1..(i - 1) : s[j] # a)
    ELSE s
RouteAliasDirectoryDelete(th, u, a) ==
    /\ Starts(th)
    /\ alias[a] # None
    /\ Holds(u, "ALIAS") \/ alias[a].createdBy = u
    /\ alias' = [alias EXCEPT ![a] = None]
    /\ ids' = [ids EXCEPT ![alias[a].id] = Without(@, a)]
    /\ UNCHANGED <<rights, config, displayname, filters, given>>
    /\ Ends(th, ConfigLeak)

\* GET, or refused.  The room an alias resolves to, and the aliases that GET
\* /rooms/<r>/aliases lists; a room that never had one is unknown there.
RouteAliasDirectoryGet(th) ==
    /\ Starts(th)
    /\ UNCHANGED data
    /\ Ends(th, ConfigLeak)
Resolves(a, r) == alias[a] # None /\ alias[a].id = r
RouteRoomAliases(r) == ids[r]

-----------------------------------------------------------------------------
(* Profiles, filters and the user directory *)

\* PUT /profile/<u>/displayname by u.  A value that is no string is ignored,
\* and avatar_url is set in the same way.
RouteUserProfileAny(th, u) ==  \* faulty variant: and stored
    /\ Starts(th)
    /\ ConfigParse(config)
    /\ \E n \in DisplayName \union {"a number"} :
          displayname' = [displayname EXCEPT ![u] = n]
    /\ UNCHANGED <<rights, config, alias, ids, filters, given>>
    /\ Ends(th, ConfigLeak)
RouteUserProfile(th, u) ==
    /\ Starts(th)
    /\ \/ /\ ConfigParse(config)
          /\ \E n \in DisplayName : displayname' = [displayname EXCEPT ![u] = n]
       \/ UNCHANGED displayname             \* GET, or refused
    /\ UNCHANGED <<rights, config, alias, ids, filters, given>>
    /\ Ends(th, ConfigLeak)

\* POST /user/<u>/filter.  The server name is read under a lock of its own
\* and compared with the user ID in the path; f is random.
RouteFilterOverwrites(th, u, f, b) ==  \* faulty variant
    /\ Starts(th)
    /\ filters' = [filters EXCEPT ![u][f] = b]
    /\ given' = [given EXCEPT ![u] = @ \union {<<f, b>>}]
    /\ UNCHANGED <<rights, config, alias, ids, displayname>>
    /\ Ends(th, ConfigLeak)
RouteFilter(th, u, f, b) ==
    /\ Starts(th)
    /\ IF ConfigParse(config) /\ filters[u][f] = None
       THEN /\ filters' = [filters EXCEPT ![u][f] = b]
            /\ given' = [given EXCEPT ![u] = @ \union {<<f, b>>}]
       ELSE UNCHANGED <<filters, given>>    \* GET, or refused
    /\ UNCHANGED <<rights, config, alias, ids, displayname>>
    /\ Ends(th, ConfigLeak)

\* POST /user_directory/search for the term s, by a caller who has the users
\* listed in the order of list: who is answered, and whether "limited" is set.
Found(u, s) == <<u, s>> \in NameMatch \/ <<displayname[u], s>> \in DisplayMatch
IncludedLeLimit(included, limit) == included <= limit  \* faulty variant
IncludedLtLimit(included, limit) == included < limit
DirectoryResults(list, s, limit) ==
    {list[i] : i \in
        {j \in DOMAIN list :
            /\ Found(list[j], s)
            /\ IncludedLtLimit(
                  Cardinality({k \in 1..(j - 1) : Found(list[k], s)}), limit)}}
DirectoryLimited(list, s, limit) ==
    Cardinality(DirectoryResults(list, s, limit)) = limit

RouteUserDirectory(th) ==
    /\ Starts(th)
    /\ UNCHANGED data
    /\ Ends(th, ConfigLeak)

-----------------------------------------------------------------------------

\* What Main leaves behind on a first start (Main.c:233-266): nobody has
\* registered, and one token grants everything.
Init ==
    /\ users = {}
    /\ privileges = [u \in User |-> {}]
    /\ said = [u \in User |-> {}]
    /\ grants = [t \in RegToken |-> IF t = FirstToken THEN {"ALL"} ELSE None]
    /\ offered = [t \in RegToken |->
                     IF t = FirstToken THEN AllPrivileges ELSE {}]
    /\ config = InitialConfig
    /\ alias = [a \in Alias |-> None]
    /\ ids = [r \in Room |-> <<>>]
    /\ displayname = [u \in User |-> None]
    /\ filters = [u \in User |-> [f \in FilterId |-> None]]
    /\ given = [u \in User |-> {}]
    /\ phase = [th \in Thread |-> "idle"]
    /\ held = [th \in Thread |-> {}]

Privileged(th) ==
    \/ \E u \in users : RoutePrivilegesOwn(th, u) \/ RoutePrivilegesCheck(th, u)
    \/ RoutePrivilegesOther(th)
    \/ \E u \in users, t \in RegToken :
          RouteAdminTokensCreate(th, u, t) \/ RouteAdminTokensDelete(th, u, t)
    \/ \E u \in User, t \in RegToken \union {None} : RouteRegister(th, u, t)
Configuring(th) ==
    RouteConfigRefused(th) \/ \E u \in users : RouteConfig(th, u)
Aliasing(th) ==
    \/ RouteAliasDirectoryGet(th)
    \/ \E u \in users, a \in Alias :
          \/ \E r \in Room : RouteAliasDirectoryPut(th, u, a, r)
          \/ RouteAliasDirectoryDelete(th, u, a)
Personal(th) ==
    \/ RouteUserDirectory(th)
    \/ \E u \in users : RouteUserProfile(th, u)
    \/ \E u \in users, f \in FilterId, b \in FilterBody : RouteFilter(th, u, f, b)

Next == \E th \in Thread :
            Privileged(th) \/ Configuring(th) \/ Aliasing(th) \/ Personal(th)

\* A thread that has begun a request is scheduled until it has answered.
Fairness == \A th \in Thread : WF_vars(RoutePrivilegesOther(th))
Spec == Init /\ [][Next]_vars /\ Fairness

-----------------------------------------------------------------------------
(* Properties *)

TypeOK ==
    /\ users \in SUBSET User
    /\ privileges \in [User -> SUBSET PrivilegeName]
    /\ grants \in [RegToken -> {None} \union SUBSET PrivilegeName]
    /\ said \in [User -> SUBSET AllPrivileges]
    /\ offered \in [RegToken -> SUBSET AllPrivileges]
    /\ config \in ConfigJson
    /\ alias \in [Alias -> [id: Room, createdBy: User] \union {None}]
    /\ ids \in [Room -> Seq(Alias)]
    /\ displayname \in [User -> DisplayName \union {None}]
    /\ filters \in [User -> [FilterId -> FilterBody \union {None}]]
    /\ given \in [User -> SUBSET (FilterId \X FilterBody)]
    /\ phase \in [Thread -> {"idle", "switching"}]
    /\ held \in [Thread -> SUBSET File]

\* What is on file for a user is what the answered requests said, in their
\* order: on the way from a request through bits, names and "ALL" to a token's
\* file, from there to the new account's, and through the changes made to that,
\* no privilege is added or forgotten (User.c:744-900, RouteRegister.c:221-225).
PrivilegesAsSaid == \A u \in User : UserGetPrivileges(u) = said[u]

\* No route keeps a lock: the early returns and no-op unlocks for a
\* configuration that does not parse (Config.c:188) would shut every other
\* thread out of the database, so no request may ever store one.
LocksReturned == \A th \in Thread : held[th] = {}

\* The two indexes of the file aliases agree: an alias resolves to a room
\* exactly when the room lists it, and is listed once (RouteAliasDirectory.c).
AliasIndexesAgree ==
    \A r \in Room :
        /\ \A a \in Alias : Resolves(a, r) <=> a \in Range(RouteRoomAliases(r))
        /\ IsInjective(RouteRoomAliases(r))

\* A filter a user was given an id for stays what it was (RouteFilter.c:170).
FiltersKept ==
    \A u \in User : \A g \in given[u] : filters[u][g[1]] = g[2]

\* The directory says no more than it was asked for, and an answer that is
\* not marked as limited has everybody who matches (RouteUserDirectory.c:133).
\* A negative limit finds nobody and is not marked: it is left out.
DirectoryHonest ==
    \A list \in SetToSeqs(users), s \in Term, limit \in 0..(Cardinality(User) + 1) :
        /\ Cardinality(DirectoryResults(list, s, limit)) <= limit
        /\ ~DirectoryLimited(list, s, limit) =>
              DirectoryResults(list, s, limit) = {u \in users : Found(u, s)}

\* Whoever may grant privileges or issue registration tokens can make others
\* like that, and so can a token that grants either.  Once there are no such
\* users and no such tokens, and no request is left whose caller was checked
\* before that (RoutePrivileges.c:67-72), there are none ever again: users keep
\* what they have, and who registers gets what a token left on file grants.
Power == {"GRANT_PRIVILEGES", "ISSUE_TOKENS"}
NobodyGrants ==
    /\ \A u \in User : UserGetPrivileges(u) \intersect Power = {}
    /\ \A t \in RegToken : Granted(t) \intersect Power = {}
    /\ \A th \in Thread : phase[th] # "switching"
RightsNotRegained ==
    [][NobodyGrants =>
          /\ NobodyGrants'
          /\ \A u \in users : privileges'[u] = privileges[u]
          /\ \A u \in users' \ users :
                \/ privileges'[u] = {}
                \/ \E t \in RegToken : UserGetPrivileges(u)' = Granted(t)]_vars

\* A request on another user's privileges is answered, or the process dies:
\* nobody waits for a lock that a thread has forgotten (RoutePrivileges.c:71).
RequestsFinish ==
    \A th \in Thread : phase[th] = "switching" ~> phase[th] = "idle"
=============================================================================
