------------------------- MODULE Registration_proofs -------------------------
(***************************************************************************)
(* Theorems about Registration, for every set of names, sessions and        *)
(* offers: the types, the limit on a token's uses, what the uses count, and  *)
(* where accounts and their privileges come from.                           *)
(*                                                                         *)
(* IInv adds to the properties what makes them inductive: a session string   *)
(* is marked as issued before anything else is known of it, a session that   *)
(* has completed nothing has spent nothing, and a token that has not been    *)
(* deleted still grants what it granted when a session spent it.             *)
(***************************************************************************)
EXTENDS Registration, FiniteSetTheorems, TLAPS

UnissuedUntouched ==
    \A s \in SessionId : ~history[s].issued =>
        sessions[s] = None /\ history[s].spent = None

PromisesKept ==
    \A s \in SessionId : history[s].live =>
        /\ history[s].spent \in RegTokenName
        /\ regTokens[history[s].spent] # None
        /\ regTokens[history[s].spent].grants = history[s].grants

IInv ==
    /\ TypeOK
    /\ UsesWithinLimit
    /\ UnissuedUntouched
    /\ SessionsNameSpentToken
    /\ ClosedMeansToken
    /\ PromisesKept

-----------------------------------------------------------------------------
(* The helpers keep their types. *)

LEMMA UseKeepsType ==
    ASSUME TypeOK, NEW t \in RegTokenName, regTokens[t] # None
    PROVE  RegTokenUse(t) \in [RegTokenName -> RegTokenFile \union {None}]
<1>1. regTokens[t] \in RegTokenFile
    BY DEF TypeOK
<1>2. [regTokens[t] EXCEPT !.used = @ + 1] \in RegTokenFile
    BY <1>1 DEF RegTokenFile
<1> QED BY <1>2 DEF TypeOK, RegTokenUse

\* A use neither creates nor deletes a token, and changes no limit.
LEMMA UseKeepsLimit ==
    ASSUME TypeOK, UsesWithinLimit, NEW t \in RegTokenName, regTokens[t] # None,
           NEW x \in RegTokenName, RegTokenUse(t)[x] # None,
           RegTokenUse(t)[x].uses # Never
    PROVE  RegTokenUse(t)[x].used <= RegTokenUse(t)[x].uses
<1>1. regTokens[t] \in RegTokenFile
    BY DEF TypeOK
<1>2. CASE regTokens[t].uses >= 0 /\ regTokens[t].used >= regTokens[t].uses
    BY <1>2 DEF UsesWithinLimit, RegTokenUse
<1>3. CASE x # t
    BY <1>3 DEF UsesWithinLimit, RegTokenUse, TypeOK
<1>4. CASE x = t /\ ~(regTokens[t].uses >= 0 /\ regTokens[t].used >= regTokens[t].uses)
    <2>1. RegTokenUse(t)[x] = [regTokens[t] EXCEPT !.used = @ + 1]
        BY <1>4 DEF RegTokenUse, TypeOK
    <2>2. /\ RegTokenUse(t)[x].used = regTokens[t].used + 1
          /\ RegTokenUse(t)[x].uses = regTokens[t].uses
        BY <2>1, <1>1 DEF RegTokenFile
    <2> QED BY <2>2, <1>1, <1>4 DEF RegTokenFile, Never
<1> QED BY <1>2, <1>3, <1>4

LEMMA AuthTypes ==
    ASSUME NEW auth \in Auth
    PROVE  /\ auth.type \in Stage
           /\ auth.type = "registration_token" => auth.token \in RegTokenName
BY DEF Auth, Stage

-----------------------------------------------------------------------------
(* User-interactive authentication *)

SingleStages == {<<stage>> : stage \in Stage}

\* A stage completed is the first of its session.
LEMMA FirstStage ==
    ASSUME TypeOK, NEW s \in SessionId, sessions[s] # None,
           NEW flows \in SUBSET SingleStages, NEW auth \in Auth,
           CompletesStage(s, flows, auth)
    PROVE  /\ sessions[s].completed = <<>>
           /\ <<auth.type>> \in flows
           /\ auth.type = "registration_token" => regTokens[auth.token] # None
<1>1. sessions[s].completed \in Seq(Stage)
    BY DEF TypeOK, SessionFile
<1>2. PICK g \in flows : /\ Len(g) > Len(sessions[s].completed)
                         /\ auth.type = g[Len(sessions[s].completed) + 1]
    BY DEF CompletesStage, PossibleNext
<1>3. PICK stage \in Stage : g = <<stage>>
    BY DEF SingleStages
<1>4. Len(g) = 1 /\ g[1] = stage
    BY <1>3
<1>5. Len(sessions[s].completed) = 0
    BY <1>1, <1>2, <1>4
<1>6. sessions[s].completed = <<>>
    BY <1>1, <1>5
<1>7. auth.type = stage
    BY <1>2, <1>4, <1>5
<1>8. auth.type = "registration_token" => regTokens[auth.token] # None
    BY DEF CompletesStage, StageSucceeds, RegTokenValid
<1> QED BY <1>3, <1>6, <1>7, <1>8

\* What UiaComplete does to its session and to what is known of it.
LEMMA UiaSession ==
    ASSUME TypeOK, SessionsNameSpentToken, NEW s \in SessionId, sessions[s] # None,
           NEW flows \in SUBSET SingleStages, NEW auth \in Auth,
           UiaComplete(s, flows, auth)
    PROVE  /\ sessions'[s] \in SessionFile
           /\ history'[s] \in SessionHistory
           /\ history'[s].issued = history[s].issued
           /\ sessions'[s].registrationToken = history'[s].spent
           /\ (sessions'[s].completed = <<"registration_token">>)
                <=> (history'[s].spent # None)
           /\ Len(sessions'[s].completed) <= 1
           /\ history[s].spent # None => history'[s].spent # None
           /\ \A x \in SessionId \ {s} :
                sessions'[x] = sessions[x] /\ history'[x] = history[x]
           /\ DOMAIN sessions' = SessionId /\ DOMAIN history' = SessionId
<1> DEFINE done == CompletesStage(s, flows, auth)
           uses == done /\ auth.type = "registration_token"
<1>1. sessions[s] \in SessionFile /\ history[s] \in SessionHistory
    BY DEF TypeOK
<1>2. sessions'[s] = [completed |-> IF done THEN Append(sessions[s].completed, auth.type)
                                           ELSE sessions[s].completed,
                      registrationToken |-> IF uses THEN auth.token
                                            ELSE sessions[s].registrationToken,
                      idle |-> 0]
    BY DEF UiaComplete, TypeOK
<1>3. history'[s] = IF uses
          THEN [issued |-> history[s].issued, spent |-> auth.token, live |-> TRUE,
                grants |-> regTokens[auth.token].grants]
          ELSE history[s]
    <2>1. CASE uses
        BY <2>1 DEF UiaComplete, TypeOK
    <2>2. CASE ~uses
        BY <2>2 DEF UiaComplete
    <2> QED BY <2>1, <2>2
<1>4. /\ \A x \in SessionId \ {s} :
            sessions'[x] = sessions[x] /\ history'[x] = history[x]
      /\ DOMAIN sessions' = SessionId /\ DOMAIN history' = SessionId
    BY DEF UiaComplete, TypeOK
<1>5. /\ sessions[s].registrationToken = history[s].spent
      /\ (sessions[s].completed = <<"registration_token">>) <=> (history[s].spent # None)
      /\ Len(sessions[s].completed) <= 1
    BY DEF SessionsNameSpentToken
<1>6. 0 \in 0..(IdleLimit + 1)
    BY RegistrationAssumption
<1>7. CASE ~done
    <2>1. sessions'[s] = [completed |-> sessions[s].completed,
                          registrationToken |-> sessions[s].registrationToken,
                          idle |-> 0]
        BY <1>2, <1>7
    <2>2. history'[s] = history[s]
        BY <1>3, <1>7
    <2>3. sessions'[s] \in SessionFile
        BY <1>1, <1>6, <2>1 DEF SessionFile
    <2>4. /\ sessions'[s].completed = sessions[s].completed
          /\ sessions'[s].registrationToken = sessions[s].registrationToken
        BY <2>1
    <2> HIDE DEF done, uses
    <2> QED BY <1>1, <1>4, <1>5, <2>2, <2>3, <2>4
<1>8. CASE done
    <2>1. /\ sessions[s].completed = <<>>
          /\ auth.type \in Stage
          /\ auth.type = "registration_token" => auth.token \in RegTokenName
        BY <1>8, FirstStage, AuthTypes
    <2>2. sessions'[s].completed = <<auth.type>>
        BY <1>2, <1>8, <2>1
    <2>3. history[s].spent = None /\ sessions[s].registrationToken = None
        BY <1>5, <2>1
    <2>4. sessions'[s] \in SessionFile
        BY <1>1, <1>2, <1>6, <1>8, <2>1, <2>2 DEF SessionFile
    <2>5. CASE auth.type = "registration_token"
        <3>1. /\ sessions'[s].registrationToken = auth.token
              /\ history'[s] = [issued |-> history[s].issued, spent |-> auth.token,
                                live |-> TRUE,
                                grants |-> regTokens[auth.token].grants]
            BY <1>2, <1>3, <1>8, <2>5
        <3>2. auth.token \in RegTokenName /\ auth.token # None
            BY <2>1, <2>5, RegistrationAssumption
        <3>3. regTokens[auth.token].grants \in SUBSET Privilege
            BY <1>8, <2>5, <3>2, FirstStage DEF TypeOK, RegTokenFile
        <3>4. history'[s] \in SessionHistory
            BY <1>1, <3>1, <3>2, <3>3 DEF SessionHistory
        <3> HIDE DEF done, uses
        <3> QED BY <1>4, <2>2, <2>4, <2>5, <3>1, <3>2, <3>4
    <2>6. CASE auth.type # "registration_token"
        <3>1. /\ sessions'[s].registrationToken = sessions[s].registrationToken
              /\ history'[s] = history[s]
            BY <1>2, <1>3, <2>6
        <3>2. <<auth.type>> # <<"registration_token">>
            BY <2>6
        <3> HIDE DEF done, uses
        <3> QED BY <1>1, <1>4, <2>2, <2>3, <2>4, <3>1, <3>2
    <2> QED BY <2>5, <2>6
<1> QED BY <1>7, <1>8

\* A use of a token leaves alone what it and all others grant.
LEMMA UseKeepsGrants ==
    ASSUME TypeOK, NEW t \in RegTokenName, regTokens[t] # None,
           NEW x \in RegTokenName, regTokens[x] # None
    PROVE  /\ RegTokenUse(t)[x] # None
           /\ RegTokenUse(t)[x].grants = regTokens[x].grants
<1>1. regTokens[t] \in RegTokenFile
    BY DEF TypeOK
<1>2. CASE RegTokenUse(t)[x] = regTokens[x]
    BY <1>2
<1>3. CASE RegTokenUse(t)[x] # regTokens[x]
    <2>1. x = t /\ RegTokenUse(t)[x] = [regTokens[t] EXCEPT !.used = @ + 1]
        BY <1>3 DEF RegTokenUse, TypeOK
    <2>2. /\ [regTokens[t] EXCEPT !.used = @ + 1] \in RegTokenFile
          /\ [regTokens[t] EXCEPT !.used = @ + 1].grants = regTokens[t].grants
        BY <1>1 DEF RegTokenFile
    <2> QED BY <2>1, <2>2, NoneAssumption
<1> QED BY <1>2, <1>3

\* The session that spends a token notes what it grants.
LEMMA UiaPromises ==
    ASSUME TypeOK, SessionsNameSpentToken, PromisesKept,
           NEW s \in SessionId, sessions[s] # None,
           NEW flows \in SUBSET SingleStages, NEW auth \in Auth,
           UiaComplete(s, flows, auth)
    PROVE  PromisesKept'
<1> DEFINE uses == /\ CompletesStage(s, flows, auth)
                   /\ auth.type = "registration_token"
<1>1. CASE ~uses
    <2>1. regTokens' = regTokens /\ history' = history
        BY <1>1 DEF UiaComplete
    <2> QED BY <2>1 DEF PromisesKept
<1>2. CASE uses
    <2>1. auth.token \in RegTokenName /\ regTokens[auth.token] # None
        BY <1>2, FirstStage, AuthTypes
    <2>2. /\ regTokens' = RegTokenUse(auth.token)
          /\ history' = [history EXCEPT ![s] =
                [issued |-> @.issued, spent |-> auth.token, live |-> TRUE,
                 grants |-> regTokens[auth.token].grants]]
        BY <1>2 DEF UiaComplete
    <2>3. \A x \in RegTokenName : regTokens[x] # None =>
             regTokens'[x] # None /\ regTokens'[x].grants = regTokens[x].grants
        BY <2>1, <2>2, UseKeepsGrants
    <2>4. /\ history'[s].spent = auth.token
          /\ history'[s].grants = regTokens[auth.token].grants
          /\ \A x \in SessionId \ {s} : history'[x] = history[x]
        BY <2>2 DEF TypeOK
    <2> QED BY <2>1, <2>3, <2>4 DEF PromisesKept
<1> QED BY <1>1, <1>2

\* What a request with an "auth" object keeps, whatever its flows.
LEMMA UiaKeeps ==
    ASSUME IInv, NEW s \in SessionId, sessions[s] # None,
           NEW flows \in SUBSET SingleStages, NEW auth \in Auth,
           UiaComplete(s, flows, auth)
    PROVE  /\ regTokens' \in [RegTokenName -> RegTokenFile \union {None}]
           /\ sessions' \in [SessionId -> SessionFile \union {None}]
           /\ history' \in [SessionId -> SessionHistory]
           /\ UsesWithinLimit'
           /\ UnissuedUntouched'
           /\ SessionsNameSpentToken'
           /\ PromisesKept'
           /\ \A x \in SessionId : history[x].spent # None => history'[x].spent # None
<1> USE DEF IInv
<1>1. \/ regTokens' = regTokens
      \/ /\ auth.token \in RegTokenName
         /\ regTokens[auth.token] # None
         /\ regTokens' = RegTokenUse(auth.token)
    BY FirstStage, AuthTypes DEF UiaComplete
<1>2. regTokens' \in [RegTokenName -> RegTokenFile \union {None}]
    BY <1>1, UseKeepsType DEF TypeOK
<1>3. UsesWithinLimit'
    <2> SUFFICES ASSUME NEW t \in RegTokenName, regTokens'[t] # None,
                        regTokens'[t].uses # Never
                 PROVE  regTokens'[t].used <= regTokens'[t].uses
        BY DEF UsesWithinLimit
    <2> QED BY <1>1, UseKeepsLimit DEF UsesWithinLimit
<1>4. sessions' \in [SessionId -> SessionFile \union {None}]
    <2>1. \A x \in SessionId : sessions'[x] \in SessionFile \union {None}
        BY UiaSession DEF TypeOK
    <2>2. DOMAIN sessions' = SessionId
        BY UiaSession
    <2>3. sessions' = [x \in SessionId |-> sessions'[x]]
        BY <2>2 DEF UiaComplete, TypeOK
    <2> QED BY <2>1, <2>3
<1>5. history' \in [SessionId -> SessionHistory]
    <2>1. \A x \in SessionId : history'[x] \in SessionHistory
        BY UiaSession DEF TypeOK
    <2>2. history' = [x \in SessionId |-> history'[x]]
        BY DEF UiaComplete, TypeOK
    <2> QED BY <2>1, <2>2
<1>6. UnissuedUntouched'
    BY UiaSession DEF UnissuedUntouched
<1>7. SessionsNameSpentToken'
    BY UiaSession DEF SessionsNameSpentToken
<1>8. \A x \in SessionId : history[x].spent # None => history'[x].spent # None
    BY UiaSession
<1>9. PromisesKept'
    BY UiaPromises
<1> QED BY <1>2, <1>3, <1>4, <1>5, <1>6, <1>7, <1>8, <1>9

-----------------------------------------------------------------------------
(* The routes *)

LEMMA InitIInv == Init => IInv
<1> SUFFICES ASSUME Init PROVE IInv
    OBVIOUS
<1>1. [uses |-> 1, used |-> 0, left |-> Never, grants |-> Privilege] \in RegTokenFile
    BY DEF RegTokenFile, Never
<1>2. [issued |-> FALSE, spent |-> None, live |-> FALSE, grants |-> {}]
          \in SessionHistory
    BY DEF SessionHistory
<1>3. [todo |-> {}, current |-> None, idle |-> 0] \in Cleanup
    BY RegistrationAssumption DEF Cleanup
<1>4. TypeOK
    BY <1>1, <1>2, <1>3 DEF Init, TypeOK
<1>5. UsesWithinLimit
    BY RegistrationAssumption DEF Init, UsesWithinLimit
<1>6. UnissuedUntouched /\ SessionsNameSpentToken /\ ClosedMeansToken /\ PromisesKept
    BY DEF Init, UnissuedUntouched, SessionsNameSpentToken, ClosedMeansToken,
           PromisesKept
<1> QED BY <1>4, <1>5, <1>6 DEF IInv

\* Accounts stay what they are and no session is un-spent: what holds of
\* accounts goes on holding.
LEMMA AccountsKeep ==
    ASSUME TypeOK, ClosedMeansToken,
           \A x \in SessionId : history[x].spent # None => history'[x].spent # None,
           UNCHANGED accounts
    PROVE  ClosedMeansToken'
<1>1. \A u \in User : accounts[u] # None => accounts[u].session \in SessionId
    BY DEF TypeOK, Account
<1> QED BY <1>1 DEF ClosedMeansToken

LEMMA StartSessionKeeps ==
    ASSUME IInv, NEW s \in SessionId, StartSession(s)
    PROVE  IInv'
<1> USE DEF IInv, StartSession
<1> DEFINE new == [completed |-> <<>>, registrationToken |-> None, idle |-> 0]
<1>1. new \in SessionFile
    BY RegistrationAssumption DEF SessionFile
<1>2. history'[s].spent = None /\ history'[s].issued
    BY DEF TypeOK, SessionHistory, UnissuedUntouched
<1>3. \A x \in SessionId :
        /\ history'[x].spent = history[x].spent
        /\ history'[x].live = history[x].live
        /\ history'[x].grants = history[x].grants
        /\ history[x].issued => history'[x].issued
        /\ history'[x] \in SessionHistory
    BY DEF TypeOK, SessionHistory
<1>4. \A x \in SessionId : sessions'[x] = IF x = s THEN new ELSE sessions[x]
    BY DEF TypeOK
<1>5. TypeOK'
    BY <1>1, <1>3 DEF TypeOK
<1>6. UsesWithinLimit'
    BY DEF UsesWithinLimit
<1>7. UnissuedUntouched'
    BY <1>2, <1>3, <1>4 DEF UnissuedUntouched, TypeOK
<1>8. SessionsNameSpentToken'
    <2>1. /\ new.registrationToken = None
          /\ new.completed # <<"registration_token">>
          /\ Len(new.completed) <= 1
        OBVIOUS
    <2> HIDE DEF new
    <2> QED BY <1>2, <1>3, <1>4, <2>1 DEF SessionsNameSpentToken
<1>9. ClosedMeansToken'
    BY <1>3, AccountsKeep
<1>10. PromisesKept'
    BY <1>3 DEF PromisesKept
<1> QED BY <1>5, <1>6, <1>7, <1>8, <1>9, <1>10

LEMMA AuthenticateKeeps ==
    ASSUME IInv, NEW s \in SessionId, NEW stage \in Stage, NEW auth \in Auth,
           Authenticate(s, stage, auth)
    PROVE  IInv'
<1> USE DEF IInv
<1>1. {<<stage>>} \in SUBSET SingleStages
    BY DEF SingleStages
<1>2. /\ regTokens' \in [RegTokenName -> RegTokenFile \union {None}]
      /\ sessions' \in [SessionId -> SessionFile \union {None}]
      /\ history' \in [SessionId -> SessionHistory]
      /\ UsesWithinLimit'
      /\ UnissuedUntouched'
      /\ SessionsNameSpentToken'
      /\ PromisesKept'
      /\ \A x \in SessionId : history[x].spent # None => history'[x].spent # None
    BY <1>1, UiaKeeps DEF Authenticate
<1>3. TypeOK'
    BY <1>2 DEF TypeOK, Authenticate
<1>4. ClosedMeansToken'
    BY <1>2, AccountsKeep DEF Authenticate
<1> QED BY <1>2, <1>3, <1>4

\* With registration closed, success means a token was spent.
LEMMA ClosedSuccess ==
    ASSUME IInv, ~registration, NEW s \in SessionId, sessions[s] # None,
           NEW auth \in Auth, UiaComplete(s, RegisterFlows, auth),
           UiaSucceeds(s, RegisterFlows, auth)
    PROVE  history'[s].spent # None
<1> USE DEF IInv
<1>1. RegisterFlows = {<<"registration_token">>}
    BY DEF RegisterFlows
<1>2. RegisterFlows \in SUBSET SingleStages
    BY <1>1 DEF SingleStages, Stage
<1>3. CASE AlreadyComplete(s, RegisterFlows)
    <2>1. history[s].spent # None
        BY <1>1, <1>3 DEF AlreadyComplete, SessionsNameSpentToken
    <2> QED BY <1>2, <2>1, UiaSession
<1>4. CASE CompletesStage(s, RegisterFlows, auth)
    <2>1. <<auth.type>> \in RegisterFlows
        BY <1>2, <1>4, FirstStage
    <2>2. auth.type = "registration_token"
        BY <1>1, <2>1
    <2>3. auth.token \in RegTokenName
        BY <2>2, AuthTypes
    <2>4. history'[s].spent = auth.token
        BY <1>4, <2>2 DEF UiaComplete, TypeOK
    <2> QED BY <2>3, <2>4, RegistrationAssumption
<1> QED BY <1>3, <1>4 DEF UiaSucceeds

LEMMA RegisterKeeps ==
    ASSUME IInv, NEW u \in User, NEW s \in SessionId, NEW auth \in Auth, NEW body,
           Register(u, s, auth, body)
    PROVE  IInv'
<1> USE DEF IInv
<1>1. RegisterFlows \in SUBSET SingleStages
    BY DEF RegisterFlows, SingleStages, Stage
<1>2. sessions[s] # None /\ UiaComplete(s, RegisterFlows, auth)
    BY DEF Register
<1>3. /\ regTokens' \in [RegTokenName -> RegTokenFile \union {None}]
      /\ sessions' \in [SessionId -> SessionFile \union {None}]
      /\ history' \in [SessionId -> SessionHistory]
      /\ UsesWithinLimit'
      /\ UnissuedUntouched'
      /\ SessionsNameSpentToken'
      /\ PromisesKept'
      /\ \A x \in SessionId : history[x].spent # None => history'[x].spent # None
    BY <1>1, <1>2, UiaKeeps
<1>4. CASE UiaSucceeds(s, RegisterFlows, auth) /\ body = "ok"
    <2> DEFINE token == sessions'[s].registrationToken
               new == [session |-> s, open |-> registration,
                       privileges |-> GrantedBy(token)]
    <2>1. accounts' = [accounts EXCEPT ![u] = new]
        BY <1>4 DEF Register
    <2>2. token \in RegTokenName \union {None} /\ token = history'[s].spent
        BY <1>1, <1>2, UiaSession DEF SessionFile
    <2>3. GrantedBy(token) \in SUBSET Privilege
        <3>1. CASE token # None /\ regTokens'[token] # None
            <4>1. regTokens'[token] \in RegTokenFile
                BY <1>3, <2>2, <3>1
            <4> QED BY <3>1, <4>1 DEF GrantedBy, RegTokenFile
        <3>2. CASE ~(token # None /\ regTokens'[token] # None)
            BY <3>2 DEF GrantedBy
        <3> QED BY <3>1, <3>2
    <2>5. /\ new.session = s
          /\ new.open = registration
          /\ new.privileges = GrantedBy(token)
          /\ new \in Account
        BY <2>3 DEF TypeOK, Account
    <2>6. accounts' \in [User -> Account \union {None}]
        BY <2>1, <2>5 DEF TypeOK
    <2>7. TypeOK'
        BY <1>3, <2>6 DEF TypeOK, Register
    <2>8. \A v \in User : accounts'[v] = IF v = u THEN new ELSE accounts[v]
        BY <2>1 DEF TypeOK
    <2>9. \A v \in User : accounts[v] # None => accounts[v].session \in SessionId
        BY DEF TypeOK, Account
    <2>10. ~registration => history'[s].spent # None
        BY <1>2, <1>4, ClosedSuccess
    <2> HIDE DEF new, token
    <2>11. ClosedMeansToken'
        BY <1>3, <2>5, <2>8, <2>9, <2>10 DEF ClosedMeansToken
    <2> QED BY <1>3, <2>7, <2>11
<1>5. CASE ~(UiaSucceeds(s, RegisterFlows, auth) /\ body = "ok")
    <2>1. UNCHANGED accounts
        BY <1>5 DEF Register
    <2>2. TypeOK'
        BY <1>3, <2>1 DEF TypeOK, Register
    <2>3. ClosedMeansToken'
        BY <1>3, <2>1, AccountsKeep
    <2> QED BY <1>3, <2>2, <2>3
<1> QED BY <1>4, <1>5

LEMMA CreateRegTokenKeeps ==
    ASSUME IInv, NEW u \in User, NEW t \in RegTokenName, NEW offer \in Offer,
           CreateRegToken(u, t, offer)
    PROVE  IInv'
<1> USE DEF IInv, CreateRegToken
<1> DEFINE new == [uses |-> offer.uses, used |-> 0, left |-> offer.left,
                   grants |-> offer.grants]
<1>1. /\ offer.uses \in Nat \union {Never}
      /\ offer.left \in Nat \union {Never}
      /\ offer.grants \in SUBSET Privilege
    BY RegistrationAssumption
<1>2. new \in RegTokenFile
    BY <1>1 DEF RegTokenFile
<1>3. TypeOK'
    BY <1>2 DEF TypeOK
<1>4. UsesWithinLimit'
    <2>1. \A x \in RegTokenName : regTokens'[x] = IF x = t THEN new ELSE regTokens[x]
        BY DEF TypeOK
    <2>2. new.uses # Never => new.used <= new.uses
        BY <1>1
    <2> HIDE DEF new
    <2> QED BY <2>1, <2>2 DEF UsesWithinLimit
<1>5. UnissuedUntouched' /\ SessionsNameSpentToken'
    BY DEF UnissuedUntouched, SessionsNameSpentToken
<1>6. ClosedMeansToken'
    BY DEF ClosedMeansToken
<1>7. PromisesKept'
    <2>1. \A x \in RegTokenName : regTokens[x] # None => regTokens'[x] = regTokens[x]
        BY DEF TypeOK
    <2> QED BY <2>1 DEF PromisesKept
<1> QED BY <1>3, <1>4, <1>5, <1>6, <1>7

LEMMA DeleteRegTokenKeeps ==
    ASSUME IInv, NEW u \in User, NEW t \in RegTokenName, DeleteRegToken(u, t)
    PROVE  IInv'
<1> USE DEF IInv, DeleteRegToken
<1>1. \A s \in SessionId :
        /\ history'[s] \in SessionHistory
        /\ history'[s].spent = history[s].spent
        /\ history'[s].issued = history[s].issued
        /\ history'[s].grants = history[s].grants
        /\ history'[s].live => history[s].live /\ history[s].spent # t
    BY DEF TypeOK, SessionHistory
<1>2. TypeOK'
    BY <1>1 DEF TypeOK
<1>3. UsesWithinLimit'
    BY DEF UsesWithinLimit, TypeOK
<1>4. UnissuedUntouched' /\ SessionsNameSpentToken'
    BY <1>1 DEF UnissuedUntouched, SessionsNameSpentToken
<1>5. ClosedMeansToken'
    BY <1>1, AccountsKeep
<1>6. PromisesKept'
    BY <1>1 DEF PromisesKept, TypeOK
<1> QED BY <1>2, <1>3, <1>4, <1>5, <1>6

LEMMA SetRegistrationKeeps == IInv /\ SetRegistration => IInv'
BY DEF IInv, SetRegistration, TypeOK, UsesWithinLimit, UnissuedUntouched,
       SessionsNameSpentToken, ClosedMeansToken, PromisesKept

-----------------------------------------------------------------------------
(* The cleanup job and the clock *)

\* Steps that only delete or age sessions and age tokens.
LEMMA AgeingKeeps ==
    ASSUME IInv, cleanup' \in Cleanup,
           regTokens' \in [RegTokenName -> RegTokenFile \union {None}],
           \A t \in RegTokenName : regTokens'[t] # None =>
               /\ regTokens[t] # None
               /\ regTokens'[t].uses = regTokens[t].uses
               /\ regTokens'[t].used = regTokens[t].used,
           \A t \in RegTokenName : regTokens[t] # None =>
               /\ regTokens'[t] # None
               /\ regTokens'[t].grants = regTokens[t].grants,
           sessions' \in [SessionId -> SessionFile \union {None}],
           \A s \in SessionId : sessions'[s] # None =>
               /\ sessions[s] # None
               /\ sessions'[s].completed = sessions[s].completed
               /\ sessions'[s].registrationToken = sessions[s].registrationToken,
           UNCHANGED <<accounts, registration, history>>
    PROVE  IInv'
<1> USE DEF IInv
<1>1. TypeOK'
    BY DEF TypeOK
<1>2. UsesWithinLimit'
    BY DEF UsesWithinLimit
<1>3. UnissuedUntouched' /\ SessionsNameSpentToken'
    BY DEF UnissuedUntouched, SessionsNameSpentToken
<1>4. ClosedMeansToken' /\ PromisesKept'
    BY DEF ClosedMeansToken, PromisesKept
<1> QED BY <1>1, <1>2, <1>3, <1>4

LEMMA OlderType ==
    ASSUME NEW idle \in 0..(IdleLimit + 1)
    PROVE  Older(idle) \in 0..(IdleLimit + 1)
BY RegistrationAssumption DEF Older

LEMMA CleanupKeeps == IInv /\ CleanupStep => IInv'
<1> SUFFICES ASSUME IInv, CleanupStep PROVE IInv'
    OBVIOUS
<1> USE DEF IInv
<1>0. 0 \in 0..(IdleLimit + 1)
    BY RegistrationAssumption
<1>1. CASE CleanupList
    <2>1. cleanup' \in Cleanup
        BY <1>1 DEF CleanupList, TypeOK, Cleanup
    <2> QED BY <1>1, <2>1, AgeingKeeps DEF CleanupList, TypeOK
<1>2. CASE CleanupInspect
    <2>1. PICK s \in cleanup.todo :
            cleanup' = IF sessions[s] = None
                       THEN [cleanup EXCEPT !.todo = @ \ {s}]
                       ELSE [todo |-> cleanup.todo \ {s}, current |-> s,
                             idle |-> sessions[s].idle]
        BY <1>2 DEF CleanupInspect
    <2>2. s \in SessionId
        BY DEF TypeOK, Cleanup
    <2>3. sessions[s] # None => sessions[s].idle \in 0..(IdleLimit + 1)
        BY <2>2 DEF TypeOK, SessionFile
    <2>4. cleanup' \in Cleanup
        BY <2>1, <2>2, <2>3 DEF TypeOK, Cleanup
    <2> QED BY <1>2, <2>4, AgeingKeeps DEF CleanupInspect, TypeOK
<1>3. CASE CleanupDecide
    <2>1. cleanup' \in Cleanup
        BY <1>0, <1>3 DEF CleanupDecide, TypeOK, Cleanup
    <2>2. /\ sessions' \in [SessionId -> SessionFile \union {None}]
          /\ \A s \in SessionId : sessions'[s] # None => sessions'[s] = sessions[s]
        BY <1>3 DEF CleanupDecide, TypeOK
    <2> QED BY <1>3, <2>1, <2>2, AgeingKeeps DEF CleanupDecide, TypeOK
<1> QED BY <1>1, <1>2, <1>3 DEF CleanupStep

LEMMA TickKeeps == IInv /\ Tick => IInv'
<1> SUFFICES ASSUME IInv, Tick PROVE IInv'
    OBVIOUS
<1> USE DEF IInv
<1>1. cleanup' \in Cleanup
    BY OlderType DEF Tick, TypeOK, Cleanup
<1>2. /\ regTokens' \in [RegTokenName -> RegTokenFile \union {None}]
      /\ \A t \in RegTokenName : regTokens'[t] # None =>
               /\ regTokens[t] # None
               /\ regTokens'[t].uses = regTokens[t].uses
               /\ regTokens'[t].used = regTokens[t].used
      /\ \A t \in RegTokenName : regTokens[t] # None =>
               /\ regTokens'[t] # None
               /\ regTokens'[t].grants = regTokens[t].grants
    <2> SUFFICES ASSUME NEW t \in RegTokenName
                 PROVE  /\ regTokens'[t] \in RegTokenFile \union {None}
                        /\ regTokens'[t] # None =>
                               /\ regTokens[t] # None
                               /\ regTokens'[t].uses = regTokens[t].uses
                               /\ regTokens'[t].used = regTokens[t].used
                        /\ regTokens[t] # None =>
                               /\ regTokens'[t] # None
                               /\ regTokens'[t].grants = regTokens[t].grants
        BY DEF Tick
    <2>1. regTokens'[t] = IF regTokens[t] # None /\ regTokens[t].left > 0
                          THEN [regTokens[t] EXCEPT !.left = @ - 1] ELSE regTokens[t]
        BY DEF Tick
    <2>2. CASE regTokens[t] # None /\ regTokens[t].left > 0
        <3>1. regTokens[t] \in RegTokenFile
            BY <2>2 DEF TypeOK
        <3>2. regTokens[t].left - 1 \in Nat
            BY <2>2, <3>1 DEF RegTokenFile, Never
        <3>3. /\ regTokens'[t] \in RegTokenFile
              /\ regTokens'[t].uses = regTokens[t].uses
              /\ regTokens'[t].used = regTokens[t].used
              /\ regTokens'[t].grants = regTokens[t].grants
            BY <2>1, <2>2, <3>1, <3>2 DEF RegTokenFile
        <3> QED BY <2>2, <3>3, NoneAssumption
    <2>3. CASE ~(regTokens[t] # None /\ regTokens[t].left > 0)
        BY <2>1, <2>3 DEF TypeOK
    <2> QED BY <2>2, <2>3
<1>3. /\ sessions' \in [SessionId -> SessionFile \union {None}]
      /\ \A s \in SessionId : sessions'[s] # None =>
               /\ sessions[s] # None
               /\ sessions'[s].completed = sessions[s].completed
               /\ sessions'[s].registrationToken = sessions[s].registrationToken
    BY OlderType DEF Tick, TypeOK, SessionFile
<1> QED BY <1>1, <1>2, <1>3, AgeingKeeps DEF Tick

-----------------------------------------------------------------------------

LEMMA NextKeepsIInv == IInv /\ [Next]_vars => IInv'
<1> SUFFICES ASSUME IInv, [Next]_vars PROVE IInv'
    OBVIOUS
<1>1. CASE Requests
    BY <1>1, StartSessionKeeps, RegisterKeeps, AuthenticateKeeps, CreateRegTokenKeeps,
       DeleteRegTokenKeeps, SetRegistrationKeeps DEF Requests
<1>2. CASE CleanupStep
    BY <1>2, CleanupKeeps
<1>3. CASE Tick
    BY <1>3, TickKeeps
<1>4. CASE UNCHANGED vars
    BY <1>4 DEF vars, IInv, TypeOK, UsesWithinLimit, UnissuedUntouched,
       SessionsNameSpentToken, ClosedMeansToken, PromisesKept
<1> QED BY <1>1, <1>2, <1>3, <1>4 DEF Next

\* Whatever requests, cleanups and ticks come in whatever order, the stronger
\* invariant holds.
THEOREM RegistrationInvariant == Spec => []IInv
BY InitIInv, NextKeepsIInv, PTL DEF Spec

\* Every file keeps the form its readers expect.
THEOREM RegistrationTypes == Spec => []TypeOK
<1>1. IInv => TypeOK
    BY DEF IInv
<1> QED BY <1>1, RegistrationInvariant, PTL

\* docs/user/admin/tokens.md:30: the uses made of a token never exceed those
\* it allows (RegToken.c:58-78).
THEOREM LimitKept == Spec => []UsesWithinLimit
<1>1. IInv => UsesWithinLimit
    BY DEF IInv
<1> QED BY <1>1, RegistrationInvariant, PTL

\* The session file says truly which token was spent for it (Uia.c:421-442).
THEOREM SessionsHonest == Spec => []SessionsNameSpentToken
<1>1. IInv => SessionsNameSpentToken
    BY DEF IInv
<1> QED BY <1>1, RegistrationInvariant, PTL

\* No account without a token while registration is closed
\* (RouteRegister.c:133-160).
THEOREM AccountsPaidFor == Spec => []ClosedMeansToken
<1>1. IInv => ClosedMeansToken
    BY DEF IInv
<1> QED BY <1>1, RegistrationInvariant, PTL

\* A new account has no privilege without a token, and with one those that the
\* token granted when the account's session spent it, unless it has been deleted
\* since: whatever other requests, deletions and re-creations lie between the
\* two (Uia.c:421-442, RouteRegister.c:212-236).
THEOREM PrivilegesEarned == Spec => PrivilegesFromTokens
<1> DEFINE Paid ==
        \A u \in User : accounts[u] = None /\ accounts'[u] # None =>
          LET paid == history'[accounts'[u].session]
          IN  /\ paid.spent = None => accounts'[u].privileges = {}
              /\ paid.live => accounts'[u].privileges = paid.grants
<1>1. ASSUME IInv, Next PROVE Paid
    <2>1. SUFFICES ASSUME NEW u \in User, accounts[u] = None, accounts'[u] # None
                   PROVE  LET paid == history'[accounts'[u].session]
                          IN  /\ paid.spent = None => accounts'[u].privileges = {}
                              /\ paid.live => accounts'[u].privileges = paid.grants
        OBVIOUS
    <2>2. TypeOK /\ SessionsNameSpentToken /\ PromisesKept'
        BY <1>1, NextKeepsIInv DEF IInv
    <2>3. PICK v \in User, s \in SessionId, auth \in Auth, body \in {"ok", "refused"} :
             Register(v, s, auth, body)
        BY <1>1, <2>1 DEF Next, Requests, StartSession, Authenticate, CreateRegToken,
               DeleteRegToken, SetRegistration, CleanupStep, CleanupList,
               CleanupInspect, CleanupDecide, Tick
    <2> DEFINE token == sessions'[s].registrationToken
    <2>4. accounts'[u] = [session |-> s, open |-> registration,
                          privileges |-> GrantedBy(token)]
        BY <2>1, <2>2, <2>3 DEF Register, TypeOK
    <2>5. token = history'[s].spent
        <3>1. RegisterFlows \in SUBSET SingleStages
            BY DEF RegisterFlows, SingleStages, Stage
        <3> QED BY <2>2, <2>3, <3>1, UiaSession DEF Register
    <2>6. /\ accounts'[u].session = s
          /\ accounts'[u].privileges = GrantedBy(token)
        BY <2>4
    <2> HIDE DEF token
    <2>7. token = None => GrantedBy(token) = {}
        BY DEF GrantedBy
    <2>8. history'[s].live => GrantedBy(token) = history'[s].grants
        BY <2>2, <2>5, RegistrationAssumption DEF PromisesKept, GrantedBy
    <2> QED BY <2>5, <2>6, <2>7, <2>8
<1>2. IInv /\ [Next]_vars => [Paid]_vars
    BY <1>1
<1> QED BY <1>2, RegistrationInvariant, PTL DEF Spec, PrivilegesFromTokens

-----------------------------------------------------------------------------
(* The uses counted in the file of a registration token are the stages     *)
(* that sessions completed with it.                                        *)

\* CountInv adds that finitely many sessions have used a token, whatever
\* SessionId is, and that a token without a file counts for nothing: only then
\* may RegTokenCreate start from 0 under an old name.

StagesPaidBy(t) == {s \in SessionId : history[s].spent = t /\ history[s].live}

CountInv ==
    \A t \in RegTokenName :
        /\ IsFiniteSet(StagesPaidBy(t))
        /\ regTokens[t] = None => StagesPaidBy(t) = {}
        /\ regTokens[t] # None => regTokens[t].used = Cardinality(StagesPaidBy(t))

-----------------------------------------------------------------------------

LEMMA NothingCounted == Init => CountInv
<1> SUFFICES ASSUME Init, NEW t \in RegTokenName
             PROVE  /\ IsFiniteSet(StagesPaidBy(t))
                    /\ regTokens[t] = None => StagesPaidBy(t) = {}
                    /\ regTokens[t] # None =>
                          regTokens[t].used = Cardinality(StagesPaidBy(t))
    BY DEF CountInv
<1>1. StagesPaidBy(t) = {}
    BY DEF Init, StagesPaidBy
<1>2. regTokens[t] # None => regTokens[t].used = 0
    BY DEF Init
<1> QED BY <1>1, <1>2, FS_EmptySet

\* Steps that leave alone what is counted and what is spent.
LEMMA CountUntouched ==
    ASSUME CountInv,
           \A s \in SessionId : /\ history'[s].spent = history[s].spent
                                /\ history'[s].live = history[s].live,
           \A t \in RegTokenName :
               /\ regTokens'[t] = None <=> regTokens[t] = None
               /\ regTokens[t] # None => regTokens'[t].used = regTokens[t].used
    PROVE  CountInv'
<1>1. \A t \in RegTokenName : StagesPaidBy(t)' = StagesPaidBy(t)
    BY DEF StagesPaidBy
<1> QED BY <1>1 DEF CountInv

\* A stage completed with a token is one more use and one more session.
LEMMA UiaCounts ==
    ASSUME IInv, CountInv, NEW s \in SessionId, sessions[s] # None,
           NEW flows \in SUBSET SingleStages, NEW auth \in Auth,
           UiaComplete(s, flows, auth)
    PROVE  CountInv'
<1> DEFINE used == /\ CompletesStage(s, flows, auth)
                   /\ auth.type = "registration_token"
           token == auth.token
<1>1. TypeOK /\ SessionsNameSpentToken
    BY DEF IInv
<1>2. CASE ~used
    <2>1. regTokens' = regTokens /\ history' = history
        BY <1>2 DEF UiaComplete
    <2> QED BY <2>1, CountUntouched
<1>3. CASE used
    <2>1. /\ token \in RegTokenName
          /\ RegTokenValid(token)
          /\ sessions[s].completed = <<>>
        BY <1>1, <1>3, FirstStage, AuthTypes DEF CompletesStage, StageSucceeds
    <2>2. history[s].spent = None
        <3>1. sessions[s].completed # <<"registration_token">>
            BY <2>1
        <3> QED BY <1>1, <3>1 DEF SessionsNameSpentToken
    <2>3. regTokens[token] \in RegTokenFile
        BY <1>1, <2>1 DEF TypeOK, RegTokenValid
    <2>4. regTokens' = [regTokens EXCEPT ![token].used = @ + 1]
        <3>1. regTokens' = RegTokenUse(token)
            BY <1>3 DEF UiaComplete
        <3>2. ~(regTokens[token].uses >= 0 /\ regTokens[token].used >= regTokens[token].uses)
            BY <2>1, <2>3 DEF RegTokenValid, RegTokenFile, Never
        <3> QED BY <3>1, <3>2 DEF RegTokenUse
    <2>5. /\ \A x \in RegTokenName \ {token} : regTokens'[x] = regTokens[x]
          /\ regTokens'[token] = [regTokens[token] EXCEPT !.used = @ + 1]
        BY <1>1, <2>1, <2>4 DEF TypeOK
    <2>6. regTokens'[token].used = regTokens[token].used + 1
        BY <2>3, <2>5 DEF RegTokenFile
    <2>7. regTokens'[token] # None /\ regTokens[token] # None
        <3>1. regTokens'[token] \in RegTokenFile
            BY <2>3, <2>5 DEF RegTokenFile
        <3> QED BY <2>3, <3>1, NoneAssumption
    <2>8. history' = [history EXCEPT ![s] =
                         [issued |-> @.issued, spent |-> token, live |-> TRUE,
                          grants |-> regTokens[token].grants]]
        BY <1>3 DEF UiaComplete
    <2>9. /\ history'[s].spent = token /\ history'[s].live
          /\ \A x \in SessionId \ {s} : history'[x] = history[x]
        BY <1>1, <2>8 DEF TypeOK
    <2>10. token # None /\ None \notin RegTokenName
        BY <2>1, RegistrationAssumption
    <2> HIDE DEF token, used
    <2>11. /\ StagesPaidBy(token)' = StagesPaidBy(token) \union {s}
           /\ s \notin StagesPaidBy(token)
        BY <2>2, <2>9, <2>10 DEF StagesPaidBy
    <2>12. \A x \in RegTokenName \ {token} : StagesPaidBy(x)' = StagesPaidBy(x)
        BY <2>2, <2>9, <2>10 DEF StagesPaidBy
    <2>13. /\ IsFiniteSet(StagesPaidBy(token))
           /\ regTokens[token].used = Cardinality(StagesPaidBy(token))
        BY <2>1, <2>7 DEF CountInv
    <2>14. /\ IsFiniteSet(StagesPaidBy(token) \union {s})
           /\ Cardinality(StagesPaidBy(token) \union {s})
                = Cardinality(StagesPaidBy(token)) + 1
        BY <2>11, <2>13, FS_AddElement
    <2>15. /\ IsFiniteSet(StagesPaidBy(token)')
           /\ regTokens'[token].used = Cardinality(StagesPaidBy(token)')
        BY <2>6, <2>11, <2>13, <2>14
    <2>16. \A x \in RegTokenName \ {token} :
              regTokens'[x] = regTokens[x] /\ StagesPaidBy(x)' = StagesPaidBy(x)
        BY <2>5, <2>12
    <2> QED BY <2>7, <2>15, <2>16 DEF CountInv
<1> QED BY <1>2, <1>3

LEMMA DeleteCounts ==
    ASSUME IInv, CountInv, NEW u \in User, NEW t \in RegTokenName,
           DeleteRegToken(u, t)
    PROVE  CountInv'
<1>1. TypeOK
    BY DEF IInv
<1>2. \A s \in SessionId :
        /\ history'[s].spent = history[s].spent
        /\ history'[s].live = (history[s].live /\ history[s].spent # t)
    BY <1>1 DEF DeleteRegToken, TypeOK, SessionHistory
<1>3. /\ regTokens'[t] = None
      /\ \A x \in RegTokenName \ {t} : regTokens'[x] = regTokens[x]
    BY <1>1 DEF DeleteRegToken, TypeOK
<1>4. StagesPaidBy(t)' = {}
    BY <1>2 DEF StagesPaidBy
<1>5. \A x \in RegTokenName \ {t} : StagesPaidBy(x)' = StagesPaidBy(x)
    BY <1>2 DEF StagesPaidBy
<1> QED BY <1>3, <1>4, <1>5, FS_EmptySet DEF CountInv

\* A token created under the name of a deleted one starts without uses.
LEMMA CreateCounts ==
    ASSUME IInv, CountInv, NEW u \in User, NEW t \in RegTokenName,
           NEW offer \in Offer, CreateRegToken(u, t, offer)
    PROVE  CountInv'
<1>1. TypeOK
    BY DEF IInv
<1>2. /\ regTokens'[t].used = 0
      /\ \A x \in RegTokenName \ {t} : regTokens'[x] = regTokens[x]
    BY <1>1 DEF CreateRegToken, TypeOK
<1>3. \A x \in RegTokenName : StagesPaidBy(x)' = StagesPaidBy(x)
    BY DEF CreateRegToken, StagesPaidBy
<1>4. StagesPaidBy(t) = {}
    BY DEF CreateRegToken, CountInv
<1> QED BY <1>2, <1>3, <1>4, FS_EmptySet DEF CountInv

LEMMA TickCounts == IInv /\ CountInv /\ Tick => CountInv'
<1> SUFFICES ASSUME IInv, CountInv, Tick PROVE CountInv'
    OBVIOUS
<1>1. \A t \in RegTokenName :
        /\ regTokens'[t] = None <=> regTokens[t] = None
        /\ regTokens[t] # None => regTokens'[t].used = regTokens[t].used
    <2> SUFFICES ASSUME NEW t \in RegTokenName
                 PROVE  /\ regTokens'[t] = None <=> regTokens[t] = None
                        /\ regTokens[t] # None => regTokens'[t].used = regTokens[t].used
        OBVIOUS
    <2>1. CASE regTokens[t] # None /\ regTokens[t].left > 0
        <3>1. regTokens[t] \in RegTokenFile
            BY <2>1 DEF IInv, TypeOK
        <3>2. regTokens'[t] = [regTokens[t] EXCEPT !.left = @ - 1]
            BY <2>1 DEF Tick
        <3>3. regTokens[t].left - 1 \in Nat
            BY <2>1, <3>1 DEF RegTokenFile, Never
        <3>4. regTokens'[t] \in RegTokenFile /\ regTokens'[t].used = regTokens[t].used
            BY <3>1, <3>2, <3>3 DEF RegTokenFile
        <3> QED BY <2>1, <3>4, NoneAssumption
    <2>2. CASE ~(regTokens[t] # None /\ regTokens[t].left > 0)
        BY <2>2 DEF Tick
    <2> QED BY <2>1, <2>2
<1>2. history' = history
    BY DEF Tick
<1> QED BY <1>1, <1>2, CountUntouched

LEMMA StepCounts == IInv /\ CountInv /\ [Next]_vars => CountInv'
<1> SUFFICES ASSUME IInv, CountInv, [Next]_vars PROVE CountInv'
    OBVIOUS
<1>1. ASSUME NEW s \in SessionId, StartSession(s)
      PROVE  CountInv'
    <2>1. \A x \in SessionId : /\ history'[x].spent = history[x].spent
                               /\ history'[x].live = history[x].live
        BY <1>1 DEF StartSession, IInv, TypeOK, SessionHistory
    <2>2. regTokens' = regTokens
        BY <1>1 DEF StartSession
    <2> QED BY <2>1, <2>2, CountUntouched
<1>2. ASSUME NEW u \in User, NEW s \in SessionId, NEW auth \in Auth, NEW body,
             Register(u, s, auth, body)
      PROVE  CountInv'
    <2>1. RegisterFlows \in SUBSET SingleStages
        BY DEF RegisterFlows, SingleStages, Stage
    <2> QED BY <1>2, <2>1, UiaCounts DEF Register
<1>3. ASSUME NEW s \in SessionId, NEW stage \in Stage, NEW auth \in Auth,
             Authenticate(s, stage, auth)
      PROVE  CountInv'
    <2>1. {<<stage>>} \in SUBSET SingleStages
        BY DEF SingleStages
    <2> QED BY <1>3, <2>1, UiaCounts DEF Authenticate
<1>4. CASE SetRegistration \/ CleanupStep \/ UNCHANGED vars
    <2>1. regTokens' = regTokens /\ history' = history
        BY <1>4 DEF SetRegistration, CleanupStep, CleanupList, CleanupInspect,
           CleanupDecide, vars
    <2> QED BY <2>1, CountUntouched
<1>5. CASE Tick
    BY <1>5, TickCounts
<1> QED
    BY <1>1, <1>2, <1>3, <1>4, <1>5, CreateCounts, DeleteCounts DEF Next, Requests

\* For any number of sessions, tokens and concurrent registrations: the uses
\* in a token's file are the sessions that completed a stage with it since it
\* was created, none of them twice and none of them free (Uia.c:399-442).
THEOREM UsesCounted == Spec => []UsesAreStages
<1>1. CountInv => UsesAreStages
    BY DEF CountInv, UsesAreStages, StagesPaidBy
<1> QED
    BY <1>1, NothingCounted, StepCounts, RegistrationInvariant, PTL DEF Spec
=============================================================================
