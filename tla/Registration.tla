---------------------------- MODULE Registration ----------------------------
(***************************************************************************)
(* Registration tokens, user-interactive authentication and the creation   *)
(* of accounts: RegToken.c, Uia.c, RouteRegister, RouteAdminTokens,        *)
(* RouteUiaFallback and the periodic UiaCleanup.                           *)
(*                                                                         *)
(* A request route holds the configuration or the user file from start to  *)
(* end, and a lock taken by a thread excludes all others                   *)
(* (docs/CHANGELOG.md:165), so it is one step.  UiaCleanup runs on the     *)
(* scheduler's thread and holds the lock only while it reads a session: it *)
(* is a process of several steps.                                          *)
(*                                                                         *)
(* Time is kept as ages: a session knows how long ago it was last used, a  *)
(* token how long it still lives.  A registration with an empty password   *)
(* and without inhibit_login dereferences the missing login information    *)
(* (RouteRegister.c:190-195) and is left out.                              *)
(***************************************************************************)
EXTENDS Integers, Sequences, FiniteSets

CONSTANTS
    User,          \* localparts
    RegTokenName,  \* names of registration tokens
    FirstToken,    \* the token Main creates with the default configuration
    SessionId,     \* the strings StrRandom(16) yields for UIA sessions
    Privilege,     \* privileges a token can grant
    None,          \* an absent file or key
    Offer,         \* the tokens administrators ask for: uses, lifetime, grants
    IdleLimit      \* 15 minutes, in ticks

Never == -1        \* no expiry; also no limit on the uses

ASSUME RegistrationAssumption ==
    /\ FirstToken \in RegTokenName
    /\ None \notin RegTokenName \union SessionId
    /\ Offer \subseteq [uses: Nat \union {Never}, left: Nat \union {Never},
                        grants: SUBSET Privilege]
    /\ IdleLimit \in Nat

VARIABLES
    regTokens,     \* data/tokens/registration/<name>
    sessions,      \* data/user_interactive/<session>
    accounts,      \* data/users/<name>, with what it was registered with
    registration,  \* the "registration" key of the configuration
    cleanup,       \* the state of the UiaCleanup job
    history        \* what each session was used for, kept after its deletion

vars == <<regTokens, sessions, accounts, registration, cleanup, history>>

-----------------------------------------------------------------------------
(* Types *)

Stage == {"dummy", "password", "registration_token"}
RegTokenFile ==
    [uses: Nat \union {Never}, used: Nat, left: Nat \union {Never},
     grants: SUBSET Privilege]
SessionFile ==
    [completed: Seq(Stage), registrationToken: RegTokenName \union {None},
     idle: 0..(IdleLimit + 1)]  \* IdleLimit + 1: any longer time
Account ==
    [session: SessionId, open: BOOLEAN, privileges: SUBSET Privilege]
Cleanup ==
    [todo: SUBSET SessionId, current: SessionId \union {None},
     idle: 0..(IdleLimit + 1)]
\* spent: the token the session used up; live: that token is not deleted yet;
\* grants: what it granted when it was used
SessionHistory ==
    [issued: BOOLEAN, spent: RegTokenName \union {None}, live: BOOLEAN,
     grants: SUBSET Privilege]

ASSUME NoneAssumption ==
    /\ None \notin RegTokenFile \union SessionFile
    /\ None \notin Account

TypeOK ==
    /\ regTokens \in [RegTokenName -> RegTokenFile \union {None}]
    /\ sessions \in [SessionId -> SessionFile \union {None}]
    /\ accounts \in [User -> Account \union {None}]
    /\ registration \in BOOLEAN
    /\ cleanup \in Cleanup
    /\ history \in [SessionId -> SessionHistory]

-----------------------------------------------------------------------------
(* Registration tokens (RegToken.c) *)

RegTokenValidAnyUses(t) ==     \* faulty variant: no limit
    regTokens[t] # None /\ regTokens[t].left # 0
RegTokenValid(t) ==
    /\ regTokens[t] # None
    /\ regTokens[t].left # 0
    /\ regTokens[t].uses = Never \/ regTokens[t].used < regTokens[t].uses

\* Faulty variants: the use is counted by both calls; the remaining uses are
\* kept where the code keeps those made.
RegTokenUseTwice(t) == [regTokens EXCEPT ![t].used = @ + 2]
RegTokenUseDown(t) == [regTokens EXCEPT ![t].used = @ - 1]

\* RegTokenUse and RegTokenClose
RegTokenUse(t) ==
    IF regTokens[t].uses >= 0 /\ regTokens[t].used >= regTokens[t].uses
    THEN regTokens
    ELSE [regTokens EXCEPT ![t].used = @ + 1]

-----------------------------------------------------------------------------
(* User-interactive authentication (Uia.c).  Flows are sets of sequences of *)
(* stages; those of the routes have one stage each.  An "auth" object names  *)
(* a session, a stage type and, for a registration token, the token; that   *)
(* the password it carries is right is an input.                            *)

Auth ==
    [type: {"dummy"}]
        \union [type: {"password"}, password: BOOLEAN]
        \union [type: {"registration_token"}, token: RegTokenName]

PossibleNext(s, flows) ==
    {f[Len(sessions[s].completed) + 1] :
        f \in {g \in flows : Len(g) > Len(sessions[s].completed)}}

\* Faulty variant: only the number of stages is compared.
AlreadyCompleteByLength(s, flows) ==
    \E f \in flows : Len(f) = Len(sessions[s].completed)

AlreadyComplete(s, flows) == sessions[s].completed \in flows

StageSucceeds(auth) ==
    CASE auth.type = "dummy" -> TRUE
      [] auth.type = "password" -> auth.password
      [] auth.type = "registration_token" -> RegTokenValid(auth.token)

\* Faulty variant: completed stages are not skipped.
CompletesStageAgain(s, flows, auth) ==
    /\ \E f \in flows : auth.type = f[1]
    /\ StageSucceeds(auth)

CompletesStage(s, flows, auth) ==
    /\ ~AlreadyComplete(s, flows)
    /\ auth.type \in PossibleNext(s, flows)
    /\ StageSucceeds(auth)

\* UiaComplete returns 1
UiaSucceeds(s, flows, auth) ==
    \/ AlreadyComplete(s, flows)
    \/ /\ CompletesStage(s, flows, auth)
       /\ \E f \in flows : /\ Len(f) = Len(sessions[s].completed) + 1
                           /\ f[Len(f)] = auth.type

\* What UiaComplete does to the files, whatever it returns: the stage is
\* recorded, a registration token is used up and noted in the session, and
\* "last_access" is renewed.
UiaComplete(s, flows, auth) ==
    LET done == CompletesStage(s, flows, auth)
        uses == done /\ auth.type = "registration_token"
    IN  /\ sessions' = [sessions EXCEPT ![s] =
             [completed |-> IF done THEN Append(@.completed, auth.type)
                                    ELSE @.completed,
              registrationToken |-> IF uses THEN auth.token
                                            ELSE @.registrationToken,
              idle |-> 0]]
        /\ regTokens' = IF uses THEN RegTokenUse(auth.token) ELSE regTokens
        /\ history' = IF uses
             THEN [history EXCEPT ![s] =
                    [issued |-> @.issued, spent |-> auth.token, live |-> TRUE,
                     grants |-> regTokens[auth.token].grants]]
             ELSE history

\* BuildResponse without a session: a request with no "auth", or with a
\* session that has no file, gets a new one.
StartSession(s) ==
    /\ ~history[s].issued
    /\ sessions' = [sessions EXCEPT ![s] =
         [completed |-> <<>>, registrationToken |-> None, idle |-> 0]]
    /\ history' = [history EXCEPT ![s].issued = TRUE]
    /\ UNCHANGED <<regTokens, accounts, registration, cleanup>>

-----------------------------------------------------------------------------
(* Routes *)

RegisterFlows ==
    {<<"registration_token">>} \union
        (IF registration THEN {<<"dummy">>} ELSE {})

\* Faulty variant: no token, no restriction.
GrantedByDefault(t) == IF t = None THEN Privilege ELSE regTokens'[t].grants

\* The privileges RouteRegister.c:212-231 gives the new account: those of the
\* token noted in the session, as its file is now.
GrantedBy(t) ==
    IF t # None /\ regTokens'[t] # None THEN regTokens'[t].grants ELSE {}

\* POST /register with a session.  body: what else the request holds; with
\* anything but "ok" no account comes of it, but UIA has run.
Register(u, s, auth, body) ==
    /\ accounts[u] = None
    /\ sessions[s] # None
    /\ UiaComplete(s, RegisterFlows, auth)
    /\ IF UiaSucceeds(s, RegisterFlows, auth) /\ body = "ok"
       THEN accounts' = [accounts EXCEPT ![u] =
              [session |-> s, open |-> registration,
               privileges |-> GrantedBy(sessions'[s].registrationToken)]]
       ELSE UNCHANGED accounts
    /\ UNCHANGED <<registration, cleanup>>

\* The other routes that take an "auth" object: RouteUiaFallback with any
\* stage, RouteChangePwd with the password and RouteDeactivate with the
\* password or the dummy stage.
Authenticate(s, stage, auth) ==
    /\ sessions[s] # None
    /\ UiaComplete(s, {<<stage>>}, auth)
    /\ UNCHANGED <<accounts, registration, cleanup>>

MayIssueTokens(u) ==
    accounts[u] # None /\ "ISSUE_TOKENS" \in accounts[u].privileges

\* POST /tokens of the administrator API: RegTokenCreate refuses an expiry in
\* the past and a name that exists; 0 uses are allowed.
CreateRegToken(u, t, offer) ==
    /\ MayIssueTokens(u)
    /\ regTokens[t] = None
    /\ regTokens' = [regTokens EXCEPT ![t] =
         [uses |-> offer.uses, used |-> 0, left |-> offer.left,
          grants |-> offer.grants]]
    /\ UNCHANGED <<sessions, accounts, registration, cleanup, history>>

\* DELETE /tokens/<t>
DeleteRegToken(u, t) ==
    /\ MayIssueTokens(u)
    /\ regTokens[t] # None
    /\ regTokens' = [regTokens EXCEPT ![t] = None]
    /\ history' = [s \in SessionId |->
         IF history[s].spent = t THEN [history[s] EXCEPT !.live = FALSE]
                                 ELSE history[s]]
    /\ UNCHANGED <<sessions, accounts, registration, cleanup>>

\* RouteConfig changes "registration".
SetRegistration ==
    /\ registration' = ~registration
    /\ UNCHANGED <<regTokens, sessions, accounts, cleanup, history>>

-----------------------------------------------------------------------------
(* UiaCleanup: DbList once, then for each session a locked read of          *)
(* last_access and, after the lock is gone, the test and the deletion.      *)

CleanupIdle == cleanup.todo = {} /\ cleanup.current = None

CleanupList ==
    /\ CleanupIdle
    /\ cleanup' = [cleanup EXCEPT !.todo = {s \in SessionId : sessions[s] # None}]
    /\ UNCHANGED <<regTokens, sessions, accounts, registration, history>>

CleanupInspect ==
    /\ cleanup.current = None
    /\ \E s \in cleanup.todo :
         cleanup' = IF sessions[s] = None
                    THEN [cleanup EXCEPT !.todo = @ \ {s}]
                    ELSE [todo |-> cleanup.todo \ {s}, current |-> s,
                          idle |-> sessions[s].idle]
    /\ UNCHANGED <<regTokens, sessions, accounts, registration, history>>

CleanupDecideRecent ==         \* faulty variant: the comparison is turned round
    /\ cleanup.current # None
    /\ sessions' = IF cleanup.idle < IdleLimit
                   THEN [sessions EXCEPT ![cleanup.current] = None]
                   ELSE sessions
    /\ cleanup' = [cleanup EXCEPT !.current = None, !.idle = 0]
    /\ UNCHANGED <<regTokens, accounts, registration, history>>

CleanupDecide ==
    /\ cleanup.current # None
    /\ sessions' = IF cleanup.idle > IdleLimit
                   THEN [sessions EXCEPT ![cleanup.current] = None]
                   ELSE sessions
    /\ cleanup' = [cleanup EXCEPT !.current = None, !.idle = 0]
    /\ UNCHANGED <<regTokens, accounts, registration, history>>

Older(idle) == IF idle > IdleLimit THEN idle ELSE idle + 1

\* The clock moves on.
Tick ==
    /\ regTokens' = [t \in RegTokenName |->
         IF regTokens[t] # None /\ regTokens[t].left > 0
         THEN [regTokens[t] EXCEPT !.left = @ - 1] ELSE regTokens[t]]
    /\ sessions' = [s \in SessionId |->
         IF sessions[s] # None
         THEN [sessions[s] EXCEPT !.idle = Older(@)] ELSE None]
    /\ cleanup' = IF cleanup.current # None
                  THEN [cleanup EXCEPT !.idle = Older(@)] ELSE cleanup
    /\ UNCHANGED <<accounts, registration, history>>

-----------------------------------------------------------------------------

\* The state Main leaves behind on a first start: one token, of one use, that
\* grants everything, and closed registration (Main.c:233-266).
Init ==
    /\ regTokens = [t \in RegTokenName |->
         IF t = FirstToken
         THEN [uses |-> 1, used |-> 0, left |-> Never, grants |-> Privilege]
         ELSE None]
    /\ sessions = [s \in SessionId |-> None]
    /\ accounts = [u \in User |-> None]
    /\ registration = FALSE
    /\ cleanup = [todo |-> {}, current |-> None, idle |-> 0]
    /\ history = [s \in SessionId |->
                    [issued |-> FALSE, spent |-> None, live |-> FALSE,
                     grants |-> {}]]

Requests ==
    \/ \E s \in SessionId : StartSession(s)
    \/ \E s \in SessionId, auth \in Auth :
         \/ \E u \in User, body \in {"ok", "refused"} : Register(u, s, auth, body)
         \/ \E stage \in Stage : Authenticate(s, stage, auth)
    \/ \E u \in User, t \in RegTokenName :
         \/ \E offer \in Offer : CreateRegToken(u, t, offer)
         \/ DeleteRegToken(u, t)
    \/ SetRegistration

CleanupStep == CleanupList \/ CleanupInspect \/ CleanupDecide

Next == Requests \/ CleanupStep \/ Tick

\* The scheduler runs the job again and again, and the job takes its steps.
Spec == Init /\ [][Next]_vars /\ WF_vars(CleanupStep)

-----------------------------------------------------------------------------
(* Properties *)

\* docs/user/admin/tokens.md:30: "used should never be greater than uses or
\* less than 0", whatever requests race for the last use of a token.
UsesWithinLimit ==
    \A t \in RegTokenName :
        regTokens[t] # None /\ regTokens[t].uses # Never =>
            regTokens[t].used <= regTokens[t].uses

\* Every use of a token is one completed stage of one session and the reverse:
\* no session uses a token twice, no stage is free (Uia.c:399-442).
UsesAreStages ==
    \A t \in RegTokenName : regTokens[t] # None =>
        regTokens[t].used =
            Cardinality({s \in SessionId : history[s].spent = t /\ history[s].live})

\* The session file tells the truth about what was spent for it, so that the
\* privileges RouteRegister reads from it were paid for (Uia.c:421-442).
SessionsNameSpentToken ==
    \A s \in SessionId : sessions[s] # None =>
        /\ sessions[s].registrationToken = history[s].spent
        /\ (sessions[s].completed = <<"registration_token">>)
             <=> (history[s].spent # None)
        /\ Len(sessions[s].completed) <= 1

\* While registration is closed no account comes into being without a
\* registration token, not even through a session that completed another
\* stage for another route or while registration was open.
ClosedMeansToken ==
    \A u \in User : accounts[u] # None =>
        \/ accounts[u].open
        \/ history[accounts[u].session].spent # None

\* A new account has the privileges that were promised when its session spent
\* a token, in whatever request and however long ago that was: none without a
\* token, and those the token granted then, unless somebody has deleted it
\* since (Uia.c:421-442, RouteRegister.c:212-236).
PrivilegesFromTokens ==
    [][\A u \in User : accounts[u] = None /\ accounts'[u] # None =>
          LET paid == history'[accounts'[u].session]
          IN  /\ paid.spent = None => accounts'[u].privileges = {}
              /\ paid.live => accounts'[u].privileges = paid.grants]_vars

\* Uia.h:73-79: an abandoned session is removed in the end, "so that the
\* database doesn't fill up with old session files".
AbandonedSessionsRemoved ==
    \A s \in SessionId :
        (sessions[s] # None /\ sessions[s].idle > IdleLimit)
            ~> (sessions[s] = None \/ sessions[s].idle <= IdleLimit)

\* Uia.c:514: a session is removed if its "last access was greater than 15
\* minutes ago".
OnlyIdleSessionsRemoved ==
    [][\A s \in SessionId : sessions[s] # None /\ sessions'[s] = None =>
          sessions[s].idle > IdleLimit]_vars

\* docs/user/admin/tokens.md:25: uses is "the total number of allowed uses"
\* for registering users; a token registers no more accounts than that.
AccountsWithinUses ==
    \A t \in RegTokenName :
        regTokens[t] # None /\ regTokens[t].uses # Never =>
            Cardinality({u \in User : /\ accounts[u] # None
                                      /\ history[accounts[u].session].spent = t
                                      /\ history[accounts[u].session].live})
                <= regTokens[t].uses
=============================================================================
