# A TLA+ verification of Telodendria

Telodendria is a Matrix home server in C. It keeps everything in one
file database (`Db`, one JSON file per object), answers HTTP requests on a pool
of threads, and runs one scheduled job beside them. This directory holds TLA+
modules that model its core, the configurations that check them with TLC, and
proofs checked by TLAPS. Paths below are relative to the root of the repository
(`src/Uia.c` is the implementation file of that name).

`Cytoplasm/` is a git submodule that this tree does not contain: the database,
the HTTP server and the scheduler are modelled from how `src/` uses them and
from what `docs/` says of them (last section but one).

## 1. Inventory

| Component | Code | State | Operations |
|---|---|---|---|
| Sessions of users | `User.c`, `RouteLogin`, `RouteRegister`, `RouteRefresh`, `RouteLogout`, `RouteChangePwd`, `RouteDeactivate`, `RouteAdminDeactivate` | `users/<name>` with its `devices` index, `tokens/access/<t>`, `tokens/refresh/<t>` | register, log in, refresh, log out (one, all), change the password, deactivate (self, administrator), reactivate; expiry |
| Registration tokens | `RegToken.c`, `RouteAdminTokens`, `RouteTokenValid` | `tokens/registration/<name>`: uses, used, expires_on, grants | create, delete, use, valid?; expiry |
| User-interactive authentication | `Uia.c`, `RouteUiaFallback` | `user_interactive/<session>`: completed, registration_token, last_access | start a session, complete a stage, cleanup job |
| Registration of accounts | `RouteRegister` | the two above, the configuration's `registration` key | POST /register |
| Life of the daemon | `Main.c`, `RouteProcControl` | the servers, the scheduler, `restart`, the configuration lock, first-start files | start, serve, signal, restart, stop, fail, crash |
| Configuration | `Config.c`, `RouteConfig` | `config` | create the default, lock, parse, merge, unlock |
| Privileges | `RoutePrivileges`, `UserSetPrivileges`, `RouteAdminTokens`, `RouteRegister` | a key of the user file, the grants in a registration token's file | grant and revoke on request, issue tokens that grant, register with one |
| Room aliases | `RouteAliasDirectory`, `RouteRoomAliases` | `aliases`, indexed twice | create, delete, resolve |
| Identifiers, canonical JSON | `Parser.c`, `CanonicalJson.c`, `Matrix.c` | none | pure functions |
| Profiles, directory, filters | `RouteUserProfile`, `RouteUserDirectory`, `RouteFilter` | keys of the user file, `filters/...` | single writes, a search |
| Routing, answers, static pages | `Routes.c`, `Route*` that print constants, `Html.c` | none | output |
| Rooms, state resolution | `Room.c`, `State.c`, `RouteCreateRoom` | none yet | stubs |

How they interact. A request thread runs one route. A route that changes
anything first takes a database lock (the configuration, a user file or a
refresh token) and gives it back at its end; a lock a thread holds keeps all other
threads out of the database (`docs/CHANGELOG.md:165`). So **routes are
atomic with respect to each other**, except `RoutePrivileges`, which gives up
one user before it takes another. What interleaves is: the requests of
different clients; a crash and the files a request writes one after the other;
the cleanup job, which takes the lock for each read only
(`src/Uia.c:496-527`); Main's thread with signals, the job and crashes; and
long-lived data, such as a UIA session that one request starts, another
completes and a third spends.

What makes these components correct:

* **Sessions.** The device index and the token files are the same relation
  stored twice. They must agree after any history, or a token exists that no
  logout can revoke. A token never comes to mean another user or device.
  An answer "logged out" is true.
* **Registration tokens and UIA.** A token pays for as many completed stages as
  it has uses. No account without a token while registration is closed; no
  privilege without a token. A session completed for one route or under one
  configuration must not open another. Abandoned sessions go away, others stay.
* **Life of the daemon.** Nobody works on a closed database, nobody waits for a
  lock Main forgot, a signal ends the life it is sent to, a first start gives
  the administrator a way in exactly once.
* **Privileges.** What is on file is what was said, through bits, names and
  `ALL`. There are two ways to rights: a request of a user with
  `GRANT_PRIVILEGES`, and a registration token, which a user with `ISSUE_TOKENS`
  may create with any grants, also those he does not have
  (`src/Routes/RouteAdminTokens.c:164-166`), and which gives them to the new
  account (`src/Routes/RouteRegister.c:221-225`). Without such a user, such a
  token and such a request under way, there are no new rights.
* **Configuration and locks.** Nobody stores a configuration that does not
  parse, because every route that locks one would keep the lock.
* **Room aliases.** The aliases and the lists by room agree.
* **Directory, filters.** An answer not marked as limited is complete; a filter
  stays what it was.
* **Identifiers.** What is well formed is accepted and taken apart in the one
  way there is; a string names the same user however it is written.

`PROJECT.json` lists the hazards line by line, with the properties that cover
them.

## 2. The modules

| Module | Contents |
|---|---|
| `Sessions` | abstract: what holders of tokens are promised, with `Grant`, `Renew` and `Withdraw` |
| `Tokens` | users, devices, access and refresh tokens; one action per route; implements `Sessions` |
| `TokensDb` | the same requests file by file, with crashes; implements `Tokens` until the first crash and `Sessions` for ever |
| `Tokens_proofs` | the index invariant, the promises of answers and the refinement of `Sessions`, proved |
| `TokensDb_proofs` | the inductive invariant of requests cut into calls, and that calls, answers and crashes keep it |
| `TokensDb_requests` | that each route begins with calls the invariant allows; the theorems about crashes and the refinement of `Sessions`, proved |
| `TokensDb_refinement` | that up to the first crash the calls of a request are one step of `Tokens`, proved |
| `Registration` | registration tokens, UIA sessions, accounts, the cleanup job |
| `Registration_proofs` | its limits, "who paid for the account", and that uses counted in a token are stages completed with it, proved |
| `Lifecycle` | Main's thread, signals, the job, crashes and what they leave on disk |
| `Lifecycle_proofs` | its safety properties for any number of listeners, proved |
| `Administration` | privileges and the tokens that grant them, the configuration, aliases, profiles, filters and the directory, by several threads that may keep locks |
| `Administration_proofs` | its invariants and `RightsNotRegained`, proved |
| `Identifiers` | the parsers of `Parser.c` and the name checks of `User.c`, with the grammar they are compared with |
| `Identifiers_proofs` | that the parsers agree with the grammar for every string, proved |
| `MC...` | what TLC needs of each: symmetry, sets of requests, pieces of strings |

`Registration`, `Tokens` and `Administration` meet in the user's file: an account
of `Registration` is a user of `Tokens`, whose access token is what the routes
of `Administration` start from. Each module takes the other's part as given: any
registered user may hold a working access token in `Administration`, and any registration token may
be the one a session has spent there, any number of times; any user may exist in `Tokens`.

### Tokens

`users`, `devices`, `access`, `refresh` are the files; `devices` is the
`devices` key of the user file taken out of `users`, whose `hasDevices` says that
the key is present (a user registered with `inhibit_login` has none, and
`UserDeleteTokens` fails for it). Passwords are themselves, hashing is left
out. `access[t].expires` is `"never"`, `"later"` or `"past"`: a login with
`refresh_token` gives a token a lifetime, and `Expire` is the clock.
`grantedTo` and `renews` are history: which session a string was handed out for.
`reply` is the answer of the last request, so that invariants can say what an
answer promises. A helper with the name of a C function is that function;
`Register`, `Login`, `Refresh`, `Logout`, `LogoutAll`, `ChangePwd`,
`Deactivate`, `AdminDeactivate`, `AdminReactivate` are the routes, including the
branches that answer 500. `StrRandom` yields a string never seen before.
A request that is refused before any file is touched is not a step.

### Sessions and the refinement

`Sessions` knows no files. `valid[t]` is the session a token in a client's hands
means, `renewable[r]` the one a refresh token renews, `issued` and
`issuedRefresh` what was ever handed out. `Grant` (a login) replaces every token of a session,
`Renew` its access token, and `Withdraw` may take away tokens of one user and of
nobody else. `Tokens` maps its files to it (`Working`, `Renewable`, `Issued`).

### TokensDb

A request is the list `todo` of its calls to the database, in the order of the
code: `DbLock`, `DbCreate`, `DbUnlock`, `DbDelete`. What a route changes in the JSON
of a locked file reaches `files` with the unlock. `UserDeleteTokens` is a single
`visit` in that list, with the devices it is still to come by: `HashMapIterate` has no
order, so `Visit` takes any of them, deletes its access token, and puts the deletion of
its refresh token and the rest of the loop before the other calls. `Step` makes the next call,
`Answer` gives the client its tokens, `Crash` forgets the request and every lock and
goes on with the files. So a crash can fall between any two writes, and after
the last one it stands for an answer that is lost. The repair branches of
`RouteRefresh.c:98-134` are reachable here, and only here. `before` is the state of
the files at the last request's start: while a request runs, the refinement of
`Tokens` shows that one, because no other thread can look. `held` is not empty
between requests if a route forgot a lock; then no request can begin.

A token string that reached the disk and no client is treated as never guessed
(64 random characters): `Known` and `KnownRefresh` are the tokens that matter.

### Administration

`held[th]` is what thread `th` keeps after its step; a thread can start only
while the others hold nothing (`Free`). A route is one step from its first lock to its
last unlock, with two exceptions. `RoutePrivileges` with a name in its path unlocks the
caller before it locks the other user: `RoutePrivilegesCheck` and
`RoutePrivilegesOther`, with a step of any other thread in between.
`RouteConfigRefused` is the request refused before `ConfigLock`, whose
`ConfigUnlock` reads an uninitialized variable: it goes on or the process dies.
`SetPrivileges` is what a request does to the user it names, `users` who has
registered, `grants` the key of that name in the file of a registration token.
`RouteAdminTokensCreate` and `RouteAdminTokensDelete` need `ISSUE_TOKENS` and nothing
else. `RouteRegister` makes an account in a session that names some token, and
gives it what that token's file grants *at that moment*, or nothing
if the file is gone. Which sessions may name which token is left open here and
decided in `Registration`; everything `Registration` allows is possible
here. `Init` is what a first start leaves: nobody registered, and one token with
`ALL`.

`ConfigLeak` is what all routes with a `ConfigLock` keep when the configuration
does not parse. A configuration says of each key of
`Schema/Config.json:63-86` whether it is absent, good or bad; `serverName` has a
value. `said`, `offered` and `given` are history: what the answered requests gave.
The directory is an operator over the order in which `DbList` yields the users.

### Identifiers

`ParseX(m, i)` is the C function on the memory `m` from position `i`: its
result, the value it stores and the position it leaves in `*str`. `Memory` is the
string, its NUL and `tail`, what happens to stand behind it, which the
parsers do read (see the observations below). `ParseIPv4` and `ParseIPv6` keep the order of the C
code: an address is tried first, and the position goes back when it is none.
`Limit` is the 255 of the code. The properties compare them with the grammar,
written without positions.

The loop of `ParseIPv6` is `IPv6Read`, one turn from a state `IPv6State` (position and
counters), and `IPv6Loop`, which follows it `MaxReads` times. Where the code goes back for
an IPv4 address that is none, the counter of digits stays (`ReadAgain`), so the next
time it goes back twice as far, and at last to before the string. What is read there is
unknown (`At`), and the length computed from it is refused. If the loop is still under way
after `MaxReads` turns the answer is `Endless`, which nothing accepts; `AddressesEnd` says when that may be.

Three assumptions on the constants: strings have the characters of `Char` and some blank or NUL
stands behind them in memory; `serverName` is a server name (the routes that need it
end the process otherwise, `src/User.c:923-927`); `None` is no string.

### Registration

`regTokens` and `sessions` are files; time is kept as ages (`left` of a token,
`idle` of a session), moved by `Tick`; an idle time beyond `IdleLimit` (15
minutes) is kept as `IdleLimit + 1`. `UiaComplete` is the function with all its
effects on files, whether or not it returns 1; `UiaSucceeds` is its result.
`Register` is POST /register with a session, `StartSession` any request
without one, `Authenticate` the other routes that call `UiaComplete` on the same session
files with their own flow. `CleanupList`, `CleanupInspect` and `CleanupDecide` are
`UiaCleanup`, cut where it gives up the lock: the list is read once, each
session is inspected under the lock, and the decision is taken after the unlock.
`history` remembers what a session spent after its file is gone, which privileges the token granted at
that moment, and whether that very token is still on file (`live`). `Init` is
the state a first start leaves (`src/Main.c:233-266`).

### Lifecycle

`pc` is a position in `Main()`; each action is the code between two positions,
with its error path to the label `finish`. `SignalHandler` may come between any
two steps once the handlers are installed; they stay installed over the jump
back to `start`, while `httpServers` is `Null` for a part of each life. `Crash`
stops the process anywhere and `Boot` starts it with what is on disk:
`configFile`, `tokenFile` and, as history, whether the token was `announced` in
the log. `DbCreate` leaves an incomplete file until it is unlocked. Undefined
behaviour is a choice: stopping a freed server and unlocking a configuration
that was never set either do nothing or kill the process.

### Faulty variants

Beside some definitions stands one marked *faulty variant*: the same operation
with a plausible mistake (`NoRefreshTokensOf`, `RegTokenUseTwice`,
`StopJobsAtOnce`, `RefreshCallsStale`, ...). Nothing uses them; each property of a passing run is
known to fail when one of them takes the place of the real definition
(`mutants` in `PROJECT.json`), which is how we know that the property looks at
the code it is about.

## 3. The runs

| Run (configuration) | Bounds | Shows |
|---|---|---|
| `tokens` (`MCTokens.cfg`) | 2 users, 2 devices, 2 passwords, 4 access tokens, 2 refresh tokens, symmetry; 67 711 states | the index invariants, identity of tokens, absence of internal errors, the promises of answers, and the refinement of `Sessions`, over every order of requests |
| `tokens_db` (`MCTokensDb.cfg`) | 1 user, 2 devices, 1 password, 3 access tokens, 2 refresh tokens, symmetry; 339 893 states | with crashes between any two writes: known tokens are indexed and mean their session, no lock is kept, answers keep their promises; `ImplementsTokens`, `ImplementsSessions` |
| `administration` (`MCAdministration.cfg`) | 2 threads, 2 users, 1 registration token, 2 aliases on 2 servers, 2 rooms, 1 filter id; 74 977 states | no lock kept, alias indexes agree, filters kept, honest directory, and the liveness property `RequestsFinish` |
| `rights` (`MCAdministrationRights.cfg`) | 2 threads, 3 users, 2 registration tokens, 4 lists of privileges, symmetry; 68 501 states | privileges as said, and the action property `RightsNotRegained` |
| `identifiers` (`MCIdentifiers.cfg`) | strings of up to 4 pieces after one of 4 beginnings, `Limit` 12, `MaxReads` 64; 247 312 states | the parsers agree with the grammar; a user has one name; the loop over an address in brackets ends |
| `registration` (`MCRegistration.cfg`) | 1 user, 2 tokens, 2 sessions, 3 kinds of token, `IdleLimit` 1; 244 140 states | uses are counted exactly, sessions name what they spent, no account for nothing, privileges as promised when the token was spent, and the liveness property `AbandonedSessionsRemoved` |
| `lifecycle` (`MCLifecycle.cfg`) | 2 listeners; 2 779 states | at most one administrator token, no job on a closed database, no request behind Main's lock, ready when serving, clean exits, and the liveness property `SignalEndsLife` |
| `deactivated_logged_out` | 2 users, 1 device | **violated**, finding 1 |
| `only_idle_sessions_removed` | 1 user, 2 sessions | **violated**, finding 2 |
| `accounts_within_uses` | 2 users, 2 sessions | **violated**, finding 3 |
| `shutdown_honoured` | 2 listeners | **violated**, finding 4 |
| `admin_token_available` | 2 listeners | **violated**, finding 5 |

Why the bounds are enough. In `tokens` every question is about at most two
sessions at a time: two of one user, or one each of two users. Four access
token strings allow both sessions to be there and one of them to be refreshed
twice, or a device to be logged in again and then refreshed; strings are
never used again, so the bound on them is the bound on the length of a
behaviour (the run stops there, hence `CHECK_DEADLOCK FALSE`). The proofs
remove the bound. In `registration` two sessions are enough to race for a last
use and to carry a completed stage from one registration to another; accounts meet
only through sessions and tokens, so one user is enough (`accounts_within_uses` has
two, and the proofs any number), and three offers
cover one use, no limit, and no use at all (0 is accepted). One tick of idle
time tells "used just now", "at the limit" and "beyond" apart. In `tokens_db` a request touches files of one user only (two in `AdminDeactivate`, which deletes
nothing), two devices are enough for an exempted one, and three access
tokens allow a login, a refresh cut short, and its repetition. In `administration` two threads are
enough for one to keep a lock from the other or to come between the two users of
a request; the requested configurations are a whole one, one without a key, a bad value and a
part to merge. `rights` leaves out what has no part in rights (rooms, filters, changes of the
configuration) and has instead a third user and a second token: enough for one who
grants, one who issues tokens and one who registers with a token of either, while
the first two lose what they had; its lists are `ALL`, each of the two powers (one with an unknown name), and a right that is neither. In
`identifiers` the pieces hold every character class the parsers tell apart, the
boundary numbers 256 and 65536, an address but for its last block, and the delimiters; a
`Limit` of 12 makes the length checks bite within four pieces; 64 turns of the loop are more than
any of these strings needs, and a larger `MaxReads` changes no answer. In `lifecycle` two listeners are the
least number for which a signal can find one server created and another not.

Deadlock is checked in all runs but those of `Tokens` and `TokensDb`, which stop
when the token strings are used up, and of `Identifiers`, where the string is
complete.

### Fairness

* `Registration`: weak fairness of the cleanup steps. The job is a cron job
  every 30 minutes (`src/Main.c:505-518`) on the scheduler's thread, and it takes
  a lock that each holder gives back. Nothing is assumed of requests or of the
  clock.
* `Lifecycle`: weak fairness of Main's steps and of the end of a running job.
  Main is a thread that runs; `Join` is only enabled when the server was told to
  stop. Nothing is assumed of signals, new jobs, crashes or new starts.
* `Administration`: weak fairness of the second half of a request on another
  user's privileges, per thread. It is enabled while no other thread holds the
  database, and `LocksReturned` says that this is always so; nothing is assumed
  of new requests.

### Findings

1. **An administrator's deactivation does not log the user out.**
   `src/Routes/RouteAdminDeactivate.c:99` only sets a key which
   `UserAuthenticate` does not read; `src/include/User.h:186-194` promises that all access
   tokens are invalidated.
2. **The cleanup can delete a session in use.** `UiaCleanup` releases the lock
   (`src/Uia.c:512`) between reading `last_access` and the deletion.
3. **A completed session registers any number of accounts** on one use
   of a token (`src/Uia.c:306`, `RouteRegister` does not delete the session);
   `docs/user/admin/tokens.md:25` calls `uses` the total number of allowed uses.
4. **A shutdown signal can be lost** when a restart is pending or before the
   servers exist (`src/Main.c:74` and `634`).
5. **A database without administrator token.** The configuration is created
   before the token, and only its absence leads to one (`src/Main.c:244`).

### Observations without a run

Met while modelling; nothing in the repository states the opposite, or the
models leave them out on purpose.

* `RoutePrivileges` finishes a request although its caller lost the privilege
  between the two locks (`src/Routes/RoutePrivileges.c:67-72`). No property covers it:
  `RightsNotRegained` begins when no such request is under way.
* For `$` the parser writes `(*str)++` where it means to skip the `:`
  (`src/Parser.c:395`), so no event ID with a server is accepted. The server parses none.
* A local part that ends the string makes `ParseCommonID` read beyond its end
  (`src/Parser.c:413`).
* `ParseIPv6` does not end where a `.` without digits before it is no address
  (`src/Parser.c:195-197`); with digits it goes back twice as far each time, until it
  reads before the string.
* `1.1.1.1a` is the address `1.1.1.1` with something after it, and whatever
  follows a server name is not looked at (`src/Parser.c:292-299`). `WellFormedAccepted` and its
  theorem leave such names out (`CutOff`).
* The limits are off: 256 characters with the sigil (`src/Parser.c:374`), against the
  comment above that line, which counts the sigil; 257 in a user ID (`src/User.c:48`).
* A new account's privileges are read when it is made (`src/Routes/RouteRegister.c:221`), not
  when the token is spent. A session whose token was deleted in between registers an account
  without them, or with those of a new token of that name. What does hold is
  `PrivilegesFromTokens`: while the token stays on file its promise is kept, and a session without a token
  gives nothing. `docs/user/admin/tokens.md:93-96` lets such users still register, and
  does not say with which privileges.
* In a second life the signal handlers are installed while Main still creates its
  servers (`src/Main.c:362-425`): those created after a signal are not stopped, and Main waits
  for them. `SignalEndsLife` speaks of signals that reached the last one.
* The directory answers the display name as `avatar_url`
  (`src/Routes/RouteUserDirectory.c:168`), and a negative limit finds
  nobody without being marked as limited (lines 130 and 189).

## 4. The proofs

`Tokens_proofs` assumes `NoneAssumption` (the value for "absent" is no name
and no record) and nothing about sizes. Its inductive invariant `IInv` is
`TypeOK` with `AccessTokensIndexed`, `DevicesHaveTokens`,
`RefreshTokensIndexed` and `SessionsKeepIdentity`. None of them is inductive
alone: a login deletes the files *the device names*, so a file outside the index
would survive it and contradict the new entry; a refresh follows the file to the
device and back; and a string about to be handed out must have no file, which
is what the history says (`FreshTokens`). `IndexIsOneToOne` turns the two
directions into equality; each helper (`UserLogin`, `UserDeleteTokens`, ...) has
a lemma that it keeps the index, and each route cites the lemma of its helper.
`AnswersCorrect` adds to the invariant, once proved, what the step leaves behind
(`DeleteTokensLeaves`, `NoDeviceNoToken`, `OneTokenPerDevice`): no
internal error, and the promises of answers.

The same module proves `Spec => ImplementsSessions`: the initial files map to
nothing issued, a login to `Grant`, a refresh to `Renew`, each route that
deletes to `Withdraw` of the caller's user, and the rest (password, deactivation by an administrator, expiry)
to a stutter. It uses the index invariant in each step: only because the token
deleted is the one the device names is no other token of the session left.

The modules `TokensDb_...` assume `NoneAssumption` of `TokensDb` (`None` is no name, file or record) and
nothing about sizes or the number of crashes. Their `IInv` was model-checked before it
was proved. Its parts:

* what is on disk at any moment, also in the middle of a request: a token that works in
  a client's hands is named by its device (`NamedInv`) and means its session
  (`AccessInv`, `RefreshInv`), a device object leads to its own session's tokens
  (`DeviceInv`), and a session's working refresh token refreshes its working access token
  (`TwinInv`). The last one is what a refresh needs: it deletes the token *the refresh
  token names*, and then makes the device name the new one. If the device still had another
  working token, that one could never be revoked again;
* what the calls to come will do (`CallsInv`): a file is created where there is
  none and nothing names it; a token file is saved as it was or as a new one; a user
  is saved with another token only when the old one is void or some later call or
  visit deletes it (`Doom`). `OrderInv` is the order of the calls this rests on: the user's file is
  saved after the deletions, what is deleted is not written again, the new
  access token is on disk before anything names it. Every lock has its unlock
  among the calls (`LockInv`);
* what a crash has not done: while there was none, a refresh token on disk whose
  access token goes is deleted or renamed by the calls to come (`DanglingInv`);
* what the answer will say (`GrantInv`, `PromiseInv`): the tokens it hands out are on
  disk, or in the calls to come, under the session it says; the sessions it calls
  ended have no working token that is not doomed.

`TokensDb_proofs` shows that a call, a visit, an answer, a crash and an expiry keep it; no
lemma there looks at which route made the calls. `TokensDb_requests` shows for each
route that the calls it strings together are such calls, with lemmas about
lists put end to end (`Joined`, `Then`). A crash is the short case: it leaves the first
group as it is and empties the others. The five invariants of the run follow, and
`CrashImplementsSessions`: a deletion is a `Withdraw` of one token of its holder, an
answer with tokens a `Grant` or a `Renew`, because `NamedInv` leaves no second token of
the session, and all else, crashes too, changes nothing for the holders of tokens.

`TokensDb_refinement` proves `Spec => ImplementsTokens`: the first crash aside, nobody
can tell that a request is a list of calls. `WorkInv` adds to `IInv` that the files a
request found (`before`) hold what readers expect, and that until a crash the request keeps
`Promised`: there are files `a` that the calls to come lead to, and `a` is
what the route of this answer makes of the files it found. The first half is `Leads`: a
doomed token file is gone in `a`, a file with an unlock to come is what that unlock saves, any other is
as it is now. The administrator's request alone needs `SavesSecond`, since it may save
one file twice, first as it was. The second half is `Carries`, with one disjunct per route, each in
terms of three operators: `Saves` (one user is saved, some of his tokens
are gone), `LogsIn` and `Exchanges`. `TokensDb_requests` establishes `Promised` for each route
as it begins, because the calls are before us there. `CallLeads` and
`VisitLeads` carry it through every order in which `UserDeleteTokens` comes by the devices,
and at the answer no call is left, so the files are `a`. `SavesMapped`, `LogsInMapped` and
`ExchangesMapped` turn the files into the variables of `Tokens`; `AnswerIsAtomic` puts
together one lemma per route. A refresh uses `IInv` once more: before a crash the refresh
token's access token is the one its device names. All other steps stutter.

`Registration_proofs` assumes `RegistrationAssumption` and `NoneAssumption`.
`IInv` strengthens the safety properties with `UnissuedUntouched`: a session
string not issued yet has no file and has spent nothing, without which `StartSession`
might begin with a history. `FirstStage` and `UiaSession` say what one call of
`UiaComplete` can do to a session of one-stage flows; `ClosedSuccess` is the heart
of the matter: if it succeeds while registration is closed, the session has
spent a token. `Tick` and the cleanup only age and remove (`AgeingKeeps`).
`PrivilegesEarned` is an action property and needs one more part, `PromisesKept`: as long as the token a session spent
is on file, it grants what it granted then (`UseKeepsGrants`: a use rewrites the
file and keeps the grants).

For `UsesAreStages` the same module goes on from that invariant with the
library's theorems on finite sets. `CountInv` adds to the property that the live
stages paid with a token are finitely many, whatever `SessionId` is, and that a
token without a file has none: only then may a token created again under an
old name start from 0. `UiaCounts` is the step that matters: the token was valid, so
`RegTokenUse` counts, and the session had spent nothing, so one more session is
counted.

`Lifecycle_proofs` assumes `LifecycleAssumption`, at least one listener. Its `IInv`
says what each position of Main has reached: the database is open from `Open`
to `Close` (`JobInv`), the lock is taken only before there are servers and given
back before the first one runs (`LockInv`), the loops have done the servers below
`index` (`ReadyInv`), and the missing configuration stands for the token
that is still to be created (`TokenOnce`), which is why a crash never makes a second one.
`StopServersKeeps` is the signal handler's part: it changes flags, never the
array. Each conjunct has one lemma, with one step per action.

`Administration_proofs` assumes `ConfigAssumption` (requests are configurations,
the first one parses; the first start writes it, module `Lifecycle`) and
`NoneAssumption`. Its `IInv` strengthens the invariants with
`ConfigParse(config)`: without it `ConfigLeak` is not empty and `LocksReturned`
fails at the next request. `PrivilegesHonest` rests on a lemma that
decoding undoes encoding, and `AliasesConsistent` on two about the list of a room,
what `Append` adds and what `Without` leaves when the list has no entry twice.
For registration tokens `IInv` has the same once more (`TokensAsOffered`): what is on file is what was offered, so
that a new account gets what its history says (`RegisterStep`).
`RightsStayLost` is an action property. From `NobodyGrants` no request that sets privileges
and none that creates a token is enabled (`RightsUntouched`), but accounts
are still made: `RegisterStep` shows that a new one gets what a token grants, through the
decoding and encoding on the way, and so none of the two powers. `DirectoryAnswers` assumes that there are finitely many users
(`UserAssumption`) and counts: the last place taken has fewer than `limit` matches
before it, the first match left out has at least as many (`TakenBounded`, `TakenFull`). The least and the
greatest number of a set come from the well-foundedness of `<`.

`Identifiers_proofs` assumes the three assumptions of `Identifiers`. The state is simple (`IInv`: the
input is a string of `Char`, the memory behind it one of those that may be there);
the theorems are about the operators. They hold for strings of any length, any `Limit` and any
`MaxReads`. The argument:

* `Stands(m, i, s)` says that the text `s` stands at `i` in the memory `m`. `FullStands`,
  `ServerStands` and `SubStands` take a text apart and put it together in these terms, so that
  the rest speaks of positions, as the parsers do.
* Each parser has a lemma on what it accepts (`HostShape`, `PortShape`, `ServerShape`,
  `CommonAccepted`) and one on what it certainly accepts (`HostNamed`, `PortWritten`, `LocalParsed`,
  `WrittenAccepted`). The first kind gives `AcceptedForever`, the second
  `WellFormedForever`.
* `OneNameForever` needs more: that what was accepted *somewhere* is accepted again
  when it is written out elsewhere, with something else behind it. The lemmas named
  `...Moves` say so. They are easy where a parser stops at the first character that
  is not its own (`SkipIs`, `IPv4Moves`). The loop of `ParseIPv6` also goes back and calls
  `ParseIPv4`, which looks beyond the address: `LoopStays` shows that an accepted address never
  read behind its `]`, and `LoopMoves` that on the same characters the loop takes the
  same turns. `HostMoves` adds that no parser tried earlier accepts at the new place.
* The loop is a recursive function over the turns that are left. Its defining equation is proved
  (`LoopUnfolds`), and an induction over the turns is one over the least turn that fails
  (`Induction` takes a set instead of a predicate). The value of a port is a fold that
  is the same on both sides and never unfolded.

Only model-checked: the liveness properties `RequestsFinish`,
`AbandonedSessionsRemoved` and `SignalEndsLife` (out of the prover's reach), and
`AddressesEnd`, which is about a given `MaxReads` and the strings of the run: a longer string
may need more turns.

## 5. What the library is assumed to do

* `DbLock`, `DbCreate`: exclude the other threads until unlocked, recursive for
  the thread; `DbExists` is true of a created file before its first unlock;
  `DbDelete` of a missing file does nothing; `DbList` is a snapshot.
* `HttpServerStop` makes `HttpServerJoin` return; `HttpServerFree` ends the
  server.
* `CronStop` waits for the job under way.
* `Malloc` returns zeroed memory: `ParseIPv4` and `ParseHostname` copy `length`
  bytes and write no terminator (`src/Parser.c:124-125`, `248-249`), and the value the models give
  them ends there.
* `HttpServerStop` on a server that does not run yet is not forgotten.
* `StrRandom` does not repeat itself.

## 6. Not modelled, and why

* Crashes inside a registration: `Registration` takes each request as one
  step. What `/register` writes is in `TokensDb`.
* Two requests of different threads inside one another in `TokensDb`: the lock
  excludes it.
* What a profile or a filter says beyond being kept, and the text of answers.
* `CanonicalJson.c` and `ParserRecomposeCommonID`: nothing in the server calls them.
  `Filter.c` is a stub.
* Characters that are not ASCII or are not in `Char`, which has some of each class.
* POST /register with an empty password: without `inhibit_login` it dereferences missing
  login information (`src/Routes/RouteRegister.c:190-195`) and ends
  the process; left out.
* Deactivation with password UIA: `RouteDeactivate` answers 401 in every case
  (`src/Routes/RouteDeactivate.c:119-126`), so only the way with an access token
  changes files.
* HTTP routing, output, static pages, schema sources and tools: stateless or
  development tools. Rooms and state resolution are stubs in this version.

## 7. Plan

Done, in this order: `Tokens`, `Registration`, `Lifecycle` and their proofs;
`Sessions` and the refinement; `TokensDb`, its invariant and both refinements; `Administration` and its proofs;
`Identifiers` and its proofs.

Left:

1. The composition of `Registration` and `Tokens` in one module, with the crash
   between the creation of an account and the setting of its privileges
   (`src/Routes/RouteRegister.c:176-237`).
2. `CanonicalJson`, once the server uses it: the order of keys and the separators.
