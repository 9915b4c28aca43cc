------------------------------ MODULE Sessions ------------------------------
(***************************************************************************)
(* What Telodendria promises the holders of tokens, whatever files it      *)
(* keeps: a token means one session for as long as it works, a session has *)
(* at most one working access token, and what stopped working never works  *)
(* again.                                                                  *)
(*                                                                         *)
(* Tokens implements this module request by request, TokensDb file by file *)
(* with crashes in between.                                                *)
(***************************************************************************)
CONSTANTS User, Device, AccessToken, RefreshToken, None

VARIABLES
    valid,         \* the session a working access token in a client's hands means
    renewable,     \* the session a working refresh token renews
    issued,        \* access tokens ever handed out
    issuedRefresh  \* refresh tokens ever handed out

vars == <<valid, renewable, issued, issuedRefresh>>

Session == [user: User, device: Device]

TypeOK ==
    /\ valid \in [AccessToken -> Session \union {None}]
    /\ renewable \in [RefreshToken -> Session \union {None}]
    /\ issued \subseteq AccessToken
    /\ issuedRefresh \subseteq RefreshToken

Init ==
    /\ valid = [t \in AccessToken |-> None]
    /\ renewable = [r \in RefreshToken |-> None]
    /\ issued = {}
    /\ issuedRefresh = {}

\* t becomes the access token of session s, in place of any other.
Replace(s, t) ==
    /\ t \notin issued
    /\ valid' = [x \in AccessToken |->
                   IF x = t THEN s ELSE IF valid[x] = s THEN None ELSE valid[x]]
    /\ issued' = issued \union {t}

\* The user logs in on a device: every older token of the session is void.
\* r is None when the client wants no refresh token.
Grant(s, t, r) ==
    /\ Replace(s, t)
    /\ r \notin issuedRefresh
    /\ renewable' = [x \in RefreshToken |->
                       IF x = r THEN s ELSE IF renewable[x] = s THEN None
                                                                ELSE renewable[x]]
    /\ issuedRefresh' = issuedRefresh \union ({r} \ {None})

\* The client trades the refresh token in for a new access token.
Renew(r, t) ==
    /\ renewable[r] # None
    /\ Replace(renewable[r], t)
    /\ UNCHANGED <<renewable, issuedRefresh>>

\* Some tokens of one user stop working: logging out, or a request that a
\* crash cut short.
Withdraw(u) ==
    /\ valid' \in [AccessToken -> Session \union {None}]
    /\ \A t \in AccessToken : valid'[t] # valid[t] =>
            valid[t] # None /\ valid[t].user = u /\ valid'[t] = None
    /\ renewable' \in [RefreshToken -> Session \union {None}]
    /\ \A r \in RefreshToken : renewable'[r] # renewable[r] =>
            renewable[r] # None /\ renewable[r].user = u /\ renewable'[r] = None
    /\ UNCHANGED <<issued, issuedRefresh>>

Next ==
    \/ \E s \in Session, t \in AccessToken, r \in RefreshToken \union {None} :
            Grant(s, t, r)
    \/ \E r \in RefreshToken, t \in AccessToken : Renew(r, t)
    \/ \E u \in User : Withdraw(u)

Spec == Init /\ [][Next]_vars
=============================================================================
