--------------------------- MODULE TokensDb_proofs ---------------------------
(***************************************************************************)
(* The inductive invariant of TokensDb, and that it is kept by all that    *)
(* happens to a request under way: its calls to the database one by one,   *)
(* its answer, crashes and the passing of time.                            *)
(*                                                                         *)
(* The invariant says three things.  What is on disk: a token that works   *)
(* in a client's hands is the one its device names.  What the calls to     *)
(* come will do to it: a file is created only where there is none and no   *)
(* file names it, and a user is saved with a new token only when the old   *)
(* one is void or to be deleted (Doom).  What the answer is going to say:  *)
(* the tokens it hands out are on disk when the last call has been made.   *)
(* Before is the order of the calls that each of these rests on.           *)
(***************************************************************************)
EXTENDS TokensDb, SequenceTheorems, TLAPS

TokenFile == {AccessAt(t) : t \in AccessToken} \union {RefreshAt(r) : r \in RefreshToken}
IsUser(f) == \E u \in User : f = UserAt(u)

\* The session a client was given the token of file f for.
HolderOf(f) == IF f[1] = "access" THEN grantedTo[f[2]] ELSE renews[f[2]]
KnownFile(f) == f \in TokenFile /\ HolderOf(f) # None /\ Exists(f)

\* The device d of a user file names the token of file f.
Names(v, d, f) ==
    /\ v.devices[d] # None
    /\ f[2] = IF f[1] = "access" THEN v.devices[d].accessToken
                                 ELSE v.devices[d].refreshToken
AccessIs(v, s) == v.user = s.user /\ v.device = s.device

Call == [call: {"lock", "create", "unlock", "delete", "visit"}, file: File,
         value: UserFile \union AccessFile \union RefreshFile \union {None}
                    \union (SUBSET Device)]
CallsIn(s) == {s[i] : i \in DOMAIN s}
Calls == CallsIn(todo)
Unlocks(f) == {c \in Calls : c.call = "unlock" /\ c.file = f}

\* The calls to come delete the file f.
Doom(f) ==
    \E c \in Calls :
        \/ c.call = "delete" /\ c.file = f
        \/ c.call = "visit" /\ \E d \in c.value : Names(files[c.file], d, f)

-----------------------------------------------------------------------------
(* What is on disk, at any moment *)

NamedInv ==
    \A f \in TokenFile : KnownFile(f) =>
        LET s == HolderOf(f)
        IN  Exists(UserAt(s.user)) /\ Names(files[UserAt(s.user)], s.device, f)

AccessInv == \A t \in AccessToken : Known(t) => AccessIs(files[AccessAt(t)], grantedTo[t])

RefreshInv ==
    \A r \in RefreshToken : KnownRefresh(r) =>
        LET t == files[RefreshAt(r)].refreshes
        IN  /\ t \in AccessToken
            /\ Exists(AccessAt(t)) => AccessIs(files[AccessAt(t)], renews[r])

DeviceInv ==
    \A u \in User, d \in Device :
        LET o == files[UserAt(u)].devices[d]
        IN  Exists(UserAt(u)) /\ o # None =>
              /\ files[UserAt(u)].hasDevices
              /\ Exists(AccessAt(o.accessToken)) =>
                    AccessIs(files[AccessAt(o.accessToken)], [user |-> u, device |-> d])

\* The working tokens of a session belong together: its refresh token
\* refreshes its access token.
TwinInv ==
    \A r \in RefreshToken, t \in AccessToken :
        KnownRefresh(r) /\ Known(t) /\ grantedTo[t] = renews[r] =>
            files[RefreshAt(r)].refreshes = t

-----------------------------------------------------------------------------
(* The calls to come *)

\* No file names the access token t.
Unnamed(t) ==
    /\ grantedTo[t] = None
    /\ \A r \in RefreshToken :
          Exists(RefreshAt(r)) => files[RefreshAt(r)].refreshes # t
    /\ \A u \in User, d \in Device :
          Exists(UserAt(u)) => ~Names(files[UserAt(u)], d, AccessAt(t))

NewName(r, v) ==
    /\ request.session # None
    /\ request.session = renews[r]
    /\ v.refreshes = request.reply.token

\* The token that r refreshed so far is void or will be.
Replaced(r) ==
    \A t \in AccessToken : Known(t) /\ grantedTo[t] = renews[r] => Doom(AccessAt(t))

CreateOK(c) ==
    /\ ~Exists(c.file)
    /\ c.value = Empty(c.file)
    /\ \A t \in AccessToken : c.file = AccessAt(t) => Unnamed(t)
    /\ \A r \in RefreshToken : c.file = RefreshAt(r) => renews[r] = None
UnlockOK(c) ==
    /\ c.value \in Content(c.file)
    /\ \A t \in AccessToken : c.file = AccessAt(t) =>
          (Exists(c.file) /\ c.value = files[c.file]) \/ Unnamed(t)
    /\ \A r \in RefreshToken : c.file = RefreshAt(r) =>
          \/ renews[r] = None
          \/ /\ Exists(c.file)
             /\ c.value = files[c.file] \/ (NewName(r, c.value) /\ Replaced(r))
    /\ \A u \in User : c.file = UserAt(u) =>
          /\ \A f \in TokenFile : KnownFile(f) /\ HolderOf(f).user = u =>
                Names(c.value, HolderOf(f).device, f) \/ Doom(f)
          /\ \A d \in Device : c.value.devices[d] # None =>
                /\ c.value.hasDevices
                /\ \/ /\ Exists(c.file)
                      /\ Names(files[c.file], d, AccessAt(c.value.devices[d].accessToken))
                   \/ /\ request.session = [user |-> u, device |-> d]
                      /\ request.reply.token = c.value.devices[d].accessToken
VisitOK(c) ==
    /\ IsUser(c.file)
    /\ Exists(c.file)
    /\ c.value \subseteq Device
    /\ c.value # {}
    /\ \A d \in c.value : files[c.file].devices[d] # None
CallsInv ==
    \A c \in Calls :
        /\ c.call = "create" => CreateOK(c)
        /\ c.call = "unlock" => UnlockOK(c)
        /\ c.call = "delete" => c.file \in TokenFile /\ c.value = None
        /\ c.call = "visit" => VisitOK(c)

\* Call a may come before call b.
Before(a, b) ==
    /\ a.call = "delete" => b.file # a.file
    /\ a.call = "create" /\ b.file = a.file => b.call = "unlock"
    /\ a.call = "unlock" => ~(b.call \in {"lock", "create"} /\ b.file = a.file)
    /\ a.call = "unlock" /\ ~IsUser(a.file) /\ b.file = a.file => b.call = "delete"
    /\ a.call = "unlock" /\ IsUser(a.file) =>
          /\ b.call = "unlock" /\ IsUser(b.file)
          /\ b.file = a.file => b.value.devices = a.value.devices
    /\ a.call = "unlock" /\ a.file[1] = "refresh" =>
          ~(b.call \in {"create", "unlock"} /\ b.file = AccessAt(a.value.refreshes))
    /\ a.call = "unlock" /\ a.file[1] = "refresh" /\ renews[a.file[2]] # None =>
          (b.call = "delete" => b.file = a.file)
    /\ b.call = "visit" => a.call = "delete"
    /\ a.call = "visit" => b.call = "unlock" /\ IsUser(b.file)
Ordered(s) == \A i, j \in DOMAIN s : i < j => Before(s[i], s[j])
OrderInv == todo \in Seq(Call) /\ Ordered(todo)

LockInv ==
    /\ \A f \in held : Unlocks(f) # {}
    /\ \A c \in Calls : c.call \in {"lock", "create"} => Unlocks(c.file) # {}

\* Without a crash no refresh token is left without its access token.
Renamed(r) ==
    \/ Doom(RefreshAt(r))
    \/ \E c \in Unlocks(RefreshAt(r)) : NewName(r, c.value)
DanglingInv ==
    ~crashed => \A r \in RefreshToken : KnownRefresh(r) =>
        LET t == files[RefreshAt(r)].refreshes
        IN  (Exists(AccessAt(t)) /\ ~Doom(AccessAt(t))) \/ Renamed(r)

-----------------------------------------------------------------------------
(* The answer under way *)

Installs(v) ==
    LET o == v.devices[request.session.device]
    IN  /\ o # None
        /\ o.accessToken = request.reply.token
        /\ request.reply.route = "login" => o.refreshToken = request.refreshToken
GrantInv ==
    request # None /\ request.session # None =>
        LET t == request.reply.token
            s == request.session
            r == request.refreshToken
        IN  /\ s \in Session /\ t \in AccessToken /\ grantedTo[t] = None
            /\ request.reply.route \in {"login", "refresh"}
            /\ \A c \in Calls : c.call # "visit" /\ (c.call = "delete" => c.file # AccessAt(t))
            /\ \A c \in Unlocks(AccessAt(t)) : AccessIs(c.value, s)
            /\ \/ Unlocks(AccessAt(t)) # {}
               \/ Exists(AccessAt(t)) /\ AccessIs(files[AccessAt(t)], s)
            /\ \A c \in Unlocks(UserAt(s.user)) : Installs(c.value)
            /\ \/ Unlocks(UserAt(s.user)) # {}
               \/ Exists(UserAt(s.user)) /\ Installs(files[UserAt(s.user)])
            /\ r # None =>
                 /\ request.reply.route = "login" /\ renews[r] = None
                 /\ \A c \in Calls : c.call = "delete" => c.file # RefreshAt(r)
                 /\ \A c \in Unlocks(RefreshAt(r)) : c.value.refreshes = t
                 /\ \/ Unlocks(RefreshAt(r)) # {}
                    \/ Exists(RefreshAt(r)) /\ files[RefreshAt(r)].refreshes = t
            /\ request.reply.route = "refresh" =>
                 \E x \in RefreshToken :
                    /\ KnownRefresh(x) /\ renews[x] = s /\ ~Doom(RefreshAt(x))
                    /\ \A c \in Unlocks(RefreshAt(x)) : c.value.refreshes = t
                    /\ \/ Unlocks(RefreshAt(x)) # {}
                       \/ files[RefreshAt(x)].refreshes = t

\* Every token of u on a device in ds is void or will be.
Revokes(u, ds) ==
    \A f \in TokenFile :
        KnownFile(f) /\ HolderOf(f).user = u /\ HolderOf(f).device \in ds => Doom(f)
PromiseInv ==
    request # None /\ request.reply.status = 200 =>
        LET u == request.reply.user
            t == request.reply.token
        IN  CASE request.reply.route = "logout" -> Revokes(u, {grantedTo[t].device})
              [] request.reply.route \in {"logout_all", "deactivate"} -> Revokes(u, Device)
              [] request.reply.route = "password_logout" ->
                   /\ t \in AccessToken /\ Known(t) /\ ~Doom(AccessAt(t))
                   /\ Revokes(u, Device \ {grantedTo[t].device})
              [] request.reply.route \in {"login", "refresh"} ->
                   request.session # None
              [] OTHER -> TRUE

IInv ==
    /\ TypeOK
    /\ NamedInv /\ AccessInv /\ RefreshInv /\ DeviceInv /\ TwinInv
    /\ CallsInv /\ OrderInv /\ LockInv /\ DanglingInv
    /\ GrantInv /\ PromiseInv
    /\ LocksReturned /\ AnswersKeepPromises

-----------------------------------------------------------------------------
(* Files and sequences of calls *)

LEMMA FileKinds ==
  /\ \A u \in User : /\ UserAt(u) \in File /\ IsUser(UserAt(u))
                     /\ UserAt(u)[1] = "users" /\ UserAt(u)[2] = u
  /\ \A t \in AccessToken : /\ AccessAt(t) \in TokenFile
                            /\ AccessAt(t)[1] = "access" /\ AccessAt(t)[2] = t
  /\ \A r \in RefreshToken : /\ RefreshAt(r) \in TokenFile
                             /\ RefreshAt(r)[1] = "refresh" /\ RefreshAt(r)[2] = r
  /\ \A f \in TokenFile : f \in File /\ ~IsUser(f)
  /\ \A f \in File : f \in TokenFile \/ IsUser(f)
  /\ \A f \in TokenFile : \/ \E t \in AccessToken : f = AccessAt(t)
                          \/ \E r \in RefreshToken : f = RefreshAt(r)
BY DEF File, TokenFile, IsUser, UserAt, AccessAt, RefreshAt

LEMMA FileNames ==
  /\ \A u, w : UserAt(u) = UserAt(w) => u = w
  /\ \A t, x : AccessAt(t) = AccessAt(x) => t = x
  /\ \A r, y : RefreshAt(r) = RefreshAt(y) => r = y
  /\ \A u, t : UserAt(u) # AccessAt(t) /\ UserAt(u) # RefreshAt(t)
  /\ \A t, r : AccessAt(t) # RefreshAt(r)
BY DEF UserAt, AccessAt, RefreshAt

LEMMA Joined ==
  ASSUME NEW s \in Seq(Call), NEW t \in Seq(Call)
  PROVE  /\ s \o t \in Seq(Call)
         /\ CallsIn(s \o t) = CallsIn(s) \union CallsIn(t)
         /\ Ordered(s) /\ Ordered(t)
              /\ (\A a \in CallsIn(s), b \in CallsIn(t) : Before(a, b))
              => Ordered(s \o t)
<1>1. /\ s \o t \in Seq(Call) /\ Len(s \o t) = Len(s) + Len(t)
      /\ \A i \in 1 .. Len(s) + Len(t) :
            (s \o t)[i] = IF i <= Len(s) THEN s[i] ELSE t[i - Len(s)]
  BY ConcatProperties
<1>2. /\ Len(s) \in Nat /\ Len(t) \in Nat
      /\ DOMAIN s = 1 .. Len(s) /\ DOMAIN t = 1 .. Len(t)
      /\ DOMAIN (s \o t) = 1 .. Len(s) + Len(t)
  BY <1>1, LenProperties
<1>3. ASSUME NEW c \in CallsIn(s \o t) PROVE c \in CallsIn(s) \union CallsIn(t)
  <2>1. PICK i \in 1 .. Len(s) + Len(t) : c = (s \o t)[i]
    BY <1>2 DEF CallsIn
  <2>2. CASE i <= Len(s)
    BY <1>1, <1>2, <2>1, <2>2 DEF CallsIn
  <2>3. CASE i > Len(s)
    <3>1. i - Len(s) \in 1 .. Len(t) /\ c = t[i - Len(s)]
      BY <1>1, <1>2, <2>1, <2>3
    <3> QED BY <1>2, <3>1 DEF CallsIn
  <2> QED BY <1>2, <2>2, <2>3
<1>4. ASSUME NEW c \in CallsIn(s) PROVE c \in CallsIn(s \o t)
  <2>1. PICK i \in 1 .. Len(s) : c = s[i]
    BY <1>2 DEF CallsIn
  <2>2. i \in 1 .. Len(s) + Len(t) /\ (s \o t)[i] = c
    BY <1>1, <1>2, <2>1
  <2> QED BY <1>2, <2>2 DEF CallsIn
<1>5. ASSUME NEW c \in CallsIn(t) PROVE c \in CallsIn(s \o t)
  <2>1. PICK i \in 1 .. Len(t) : c = t[i]
    BY <1>2 DEF CallsIn
  <2>2. Len(s) + i \in 1 .. Len(s) + Len(t) /\ (s \o t)[Len(s) + i] = c
    BY <1>1, <1>2, <2>1
  <2> QED BY <1>2, <2>2 DEF CallsIn
<1>6. ASSUME Ordered(s), Ordered(t),
             \A a \in CallsIn(s), b \in CallsIn(t) : Before(a, b)
      PROVE  Ordered(s \o t)
  <2> SUFFICES ASSUME NEW i \in 1 .. Len(s) + Len(t), NEW j \in 1 .. Len(s) + Len(t),
                      i < j
               PROVE  Before((s \o t)[i], (s \o t)[j])
    BY <1>2 DEF Ordered
  <2>1. CASE j <= Len(s)
    <3>1. i \in 1 .. Len(s) /\ j \in 1 .. Len(s)
      BY <1>2, <2>1
    <3>2. (s \o t)[i] = s[i] /\ (s \o t)[j] = s[j]
      BY <1>1, <3>1, <1>2
    <3> QED BY <1>2, <1>6, <3>1, <3>2 DEF Ordered
  <2>2. CASE i <= Len(s) /\ j > Len(s)
    <3>1. i \in 1 .. Len(s) /\ j - Len(s) \in 1 .. Len(t)
      BY <1>2, <2>2
    <3>2. (s \o t)[i] = s[i] /\ (s \o t)[j] = t[j - Len(s)]
      BY <1>1, <1>2, <2>2
    <3>3. s[i] \in CallsIn(s) /\ t[j - Len(s)] \in CallsIn(t)
      BY <1>2, <3>1 DEF CallsIn
    <3> QED BY <1>6, <3>2, <3>3
  <2>3. CASE i > Len(s)
    <3>1. i - Len(s) \in 1 .. Len(t) /\ j - Len(s) \in 1 .. Len(t)
          /\ i - Len(s) < j - Len(s)
      BY <1>2, <2>3
    <3>2. (s \o t)[i] = t[i - Len(s)] /\ (s \o t)[j] = t[j - Len(s)]
      BY <1>1, <1>2, <2>3
    <3> QED BY <1>2, <1>6, <3>1, <3>2 DEF Ordered
  <2> QED BY <1>2, <2>1, <2>2, <2>3
<1> QED BY <1>1, <1>3, <1>4, <1>5, <1>6

LEMMA One ==
  ASSUME NEW c \in Call
  PROVE  /\ <<c>> \in Seq(Call)
         /\ CallsIn(<<c>>) = {c}
         /\ Ordered(<<c>>)
<1>1. <<c>> \in Seq(Call)
  OBVIOUS
<1>2. DOMAIN <<c>> = {1} /\ <<c>>[1] = c
  OBVIOUS
<1>3. CallsIn(<<c>>) = {c}
  BY <1>2 DEF CallsIn
<1>4. Ordered(<<c>>)
  BY <1>2 DEF Ordered
<1> QED BY <1>1, <1>3, <1>4

LEMMA NoCall ==
  /\ <<>> \in Seq(Call)
  /\ CallsIn(<<>>) = {}
  /\ Ordered(<<>>)
<1>1. DOMAIN <<>> = {}
  OBVIOUS
<1>2. <<>> \in Seq(Call)
  OBVIOUS
<1> QED BY <1>1, <1>2 DEF CallsIn, Ordered

LEMMA CallsAreCalls ==
  ASSUME NEW s \in Seq(Call)
  PROVE  CallsIn(s) \subseteq Call
BY LenProperties, ElementOfSeq DEF CallsIn

LEMMA HeadFirst ==
  ASSUME NEW s \in Seq(Call), s # <<>>, Ordered(s)
  PROVE  /\ Head(s) \in CallsIn(s) /\ Head(s) \in Call
         /\ Tail(s) \in Seq(Call)
         /\ Ordered(Tail(s))
         /\ CallsIn(s) = CallsIn(Tail(s)) \union {Head(s)}
         /\ \A b \in CallsIn(Tail(s)) : Before(Head(s), b)
<1>1. /\ Tail(s) \in Seq(Call) /\ Len(Tail(s)) = Len(s) - 1 /\ Head(s) \in Call
      /\ \A i \in 1 .. Len(Tail(s)) : Tail(s)[i] = s[i + 1]
  BY HeadTailProperties
<1>2. /\ Len(s) \in Nat /\ Len(s) >= 1 /\ DOMAIN s = 1 .. Len(s)
      /\ DOMAIN Tail(s) = 1 .. Len(s) - 1
      /\ Head(s) = s[1]
  BY <1>1, LenProperties, EmptySeq
<1>3. Head(s) \in CallsIn(s)
  BY <1>2 DEF CallsIn
<1>4. ASSUME NEW c \in CallsIn(Tail(s)) PROVE c \in CallsIn(s) /\ Before(Head(s), c)
  <2>1. PICK i \in 1 .. Len(s) - 1 : c = Tail(s)[i]
    BY <1>2 DEF CallsIn
  <2>2. i + 1 \in 1 .. Len(s) /\ c = s[i + 1] /\ 1 < i + 1 /\ 1 \in 1 .. Len(s)
    BY <1>1, <1>2, <2>1
  <2> QED BY <1>2, <2>2 DEF CallsIn, Ordered
<1>5. ASSUME NEW c \in CallsIn(s), c # Head(s) PROVE c \in CallsIn(Tail(s))
  <2>1. PICK i \in 1 .. Len(s) : c = s[i]
    BY <1>2 DEF CallsIn
  <2>2. i - 1 \in 1 .. Len(s) - 1
    BY <1>2, <1>5, <2>1
  <2>3. c = Tail(s)[i - 1]
    BY <1>1, <1>2, <2>1, <2>2
  <2> QED BY <1>2, <2>2, <2>3 DEF CallsIn
<1>6. Ordered(Tail(s))
  <2> SUFFICES ASSUME NEW i \in 1 .. Len(s) - 1, NEW j \in 1 .. Len(s) - 1, i < j
               PROVE  Before(Tail(s)[i], Tail(s)[j])
    BY <1>2 DEF Ordered
  <2>1. i + 1 \in 1 .. Len(s) /\ j + 1 \in 1 .. Len(s) /\ i + 1 < j + 1
    BY <1>2
  <2>2. Tail(s)[i] = s[i + 1] /\ Tail(s)[j] = s[j + 1]
    BY <1>1, <1>2
  <2> QED BY <1>2, <2>1, <2>2 DEF Ordered
<1> QED BY <1>1, <1>3, <1>4, <1>5, <1>6

LEMMA NoOrder ==
  ASSUME todo' = <<>>
  PROVE  OrderInv'
BY NoCall DEF OrderInv, Ordered

\* The calls that are left are in order for as long as renews is what it was.
LEMMA OrderedNext ==
  ASSUME NEW s, s = todo', s \in Seq(Call), Ordered(s), UNCHANGED renews
  PROVE  OrderInv'
BY DEF OrderInv, Ordered, Before

-----------------------------------------------------------------------------
(* The next call *)

\* What a step does with the first of the calls, h.
TakesCall(h) ==
    /\ h \in Calls /\ h \in Call /\ h.call # "visit"
    /\ Calls = Calls' \union {h}
    /\ \A b \in Calls' : Before(h, b)
    /\ \A f \in File :
          files'[f] = IF h.call # "lock" /\ f = h.file THEN h.value ELSE files[f]
    /\ held' = CASE h.call \in {"lock", "create"} -> held \union {h.file}
                 [] h.call = "unlock" -> held \ {h.file}
                 [] OTHER -> held
    /\ UNCHANGED <<request, before, grantedTo, renews, reply, crashed>>

LEMMA StepTakesCall ==
  ASSUME IInv, Step
  PROVE  /\ TakesCall(Head(todo))
         /\ OrderInv'
         /\ request # None
<1>1. todo \in Seq(Call) /\ Ordered(todo) /\ todo # <<>>
  BY DEF IInv, OrderInv, Step
<1>2. /\ Head(todo) \in CallsIn(todo) /\ Head(todo) \in Call
      /\ Tail(todo) \in Seq(Call) /\ Ordered(Tail(todo))
      /\ CallsIn(todo) = CallsIn(Tail(todo)) \union {Head(todo)}
      /\ \A b \in CallsIn(Tail(todo)) : Before(Head(todo), b)
  BY <1>1, HeadFirst
<1>3. todo' = Tail(todo)
  BY DEF Step
<1>4. Head(todo).file \in File
  BY <1>2 DEF Call
<1>5. \A f \in File : files'[f] = IF Head(todo).call # "lock" /\ f = Head(todo).file
                                  THEN Head(todo).value ELSE files[f]
  BY <1>4 DEF Step, IInv, TypeOK
<1>6. TakesCall(Head(todo))
  BY <1>2, <1>3, <1>5 DEF TakesCall, Calls, Step
<1>7. request # None
  BY <1>1 DEF IInv, TypeOK
<1>8. OrderInv'
  BY <1>2, <1>3, <1>6, OrderedNext DEF TakesCall
<1> QED BY <1>6, <1>7, <1>8

\* The holder of a token file is a session.
LEMMA Holders ==
  ASSUME TypeOK
  PROVE  /\ \A t \in AccessToken : HolderOf(AccessAt(t)) = grantedTo[t]
         /\ \A r \in RefreshToken : HolderOf(RefreshAt(r)) = renews[r]
         /\ \A f \in TokenFile : HolderOf(f) \in Session \union {None}
         /\ \A f \in TokenFile : HolderOf(f) # None =>
               HolderOf(f).user \in User /\ HolderOf(f).device \in Device
         /\ \A t \in AccessToken : Known(t) <=> KnownFile(AccessAt(t))
         /\ \A r \in RefreshToken : KnownRefresh(r) <=> KnownFile(RefreshAt(r))
<1>1. /\ \A t \in AccessToken : HolderOf(AccessAt(t)) = grantedTo[t]
      /\ \A r \in RefreshToken : HolderOf(RefreshAt(r)) = renews[r]
  BY FileKinds DEF HolderOf
<1>2. \A f \in TokenFile : HolderOf(f) \in Session \union {None}
  BY <1>1, FileKinds DEF TypeOK
<1>3. \A f \in TokenFile : HolderOf(f) # None =>
         HolderOf(f).user \in User /\ HolderOf(f).device \in Device
  BY <1>2 DEF Session
<1>4. /\ \A t \in AccessToken : Known(t) <=> KnownFile(AccessAt(t))
      /\ \A r \in RefreshToken : KnownRefresh(r) <=> KnownFile(RefreshAt(r))
  BY <1>1, FileKinds DEF Known, KnownRefresh, KnownFile
<1> QED BY <1>1, <1>2, <1>3, <1>4

\* What the call writes.
LEMMA CallWrites ==
  ASSUME IInv, NEW h, TakesCall(h)
  PROVE  /\ h.call \in {"create", "unlock"} => h.value # None
         /\ h.call = "delete" => h.value = None /\ h.file \in TokenFile
         /\ h.call \in {"create", "unlock"} => h.value \in Content(h.file)
         /\ h.call \in {"lock", "create", "unlock", "delete"}
         /\ h.file \in File
<1>1. h \in Calls /\ h.file \in File /\ h.call \in {"lock", "create", "unlock", "delete"}
  BY DEF TakesCall, Call
<1>2. h.call = "create" => h.value = Empty(h.file)
  BY <1>1 DEF IInv, CallsInv, CreateOK
<1>3. \A f \in File : Empty(f) \in Content(f)
  <2>1. \A f \in File : f[1] \in {"users", "access", "refresh"}
    BY DEF File
  <2>2. [password |-> None, deactivated |-> FALSE, hasDevices |-> FALSE,
         devices |-> [d \in Device |-> None]] \in UserFile
    BY DEF UserFile
  <2>3. [user |-> None, device |-> None, expires |-> "never"] \in AccessFile
    BY DEF AccessFile
  <2>4. [refreshes |-> None] \in RefreshFile
    BY DEF RefreshFile
  <2> QED BY <2>1, <2>2, <2>3, <2>4 DEF Empty, Content
<1>4. h.call \in {"create", "unlock"} => h.value \in Content(h.file)
  BY <1>1, <1>2, <1>3 DEF IInv, CallsInv, UnlockOK
<1>5. \A f \in File : None \notin Content(f)
  <2>1. \A f \in File : f[1] \in {"users", "access", "refresh"}
    BY DEF File
  <2> QED BY <2>1, NoneAssumption DEF Content
<1> QED BY <1>1, <1>4, <1>5 DEF IInv, CallsInv

\* What was to be deleted still is, unless the call just did.
LEMMA DoomAfter ==
  ASSUME IInv, NEW h, TakesCall(h), NEW f \in TokenFile
  PROVE  /\ Doom(f)' => Doom(f)
         /\ Doom(f) /\ ~(h.call = "delete" /\ h.file = f) => Doom(f)'
         /\ h.call = "unlock" /\ IsUser(h.file) => ~Doom(f)
<1>1. \A c \in Calls' : c.call = "visit" =>
         c \in Calls /\ h.call = "delete" /\ files'[c.file] = files[c.file]
  <2> SUFFICES ASSUME NEW c \in Calls', c.call = "visit"
               PROVE  c \in Calls /\ h.call = "delete" /\ files'[c.file] = files[c.file]
    OBVIOUS
  <2>1. c \in Calls /\ Before(h, c)
    BY DEF TakesCall
  <2>2. h.call = "delete"
    BY <2>1 DEF Before
  <2>3. h.file \in TokenFile /\ c.file # h.file
    BY <2>1, <2>2, CallWrites DEF Before
  <2>4. c.file \in File
    BY <2>1, FileKinds DEF IInv, CallsInv, VisitOK, IsUser
  <2> QED BY <2>1, <2>2, <2>3, <2>4 DEF TakesCall
<1>2. Doom(f)' => Doom(f)
  BY <1>1 DEF Doom, TakesCall
<1>3. Doom(f) /\ ~(h.call = "delete" /\ h.file = f) => Doom(f)'
  BY <1>1 DEF Doom, TakesCall
<1>4. h.call = "unlock" /\ IsUser(h.file) => ~Doom(f)
  <2> SUFFICES ASSUME h.call = "unlock", IsUser(h.file), NEW c \in Calls,
                      c.call \in {"delete", "visit"}
               PROVE  FALSE
    BY DEF Doom
  <2>1. c \in Calls'
    BY DEF TakesCall
  <2> QED BY <2>1 DEF TakesCall, Before
<1> QED BY <1>2, <1>3, <1>4

LEMMA KnownAfter ==
  ASSUME IInv, NEW h, TakesCall(h), NEW f \in TokenFile
  PROVE  /\ HolderOf(f)' = HolderOf(f)
         /\ KnownFile(f)' <=> KnownFile(f) /\ ~(h.call = "delete" /\ h.file = f)
<1>1. HolderOf(f)' = HolderOf(f)
  BY DEF HolderOf, TakesCall
<1>2. f \in File
  BY FileKinds
<1>3. CASE h.call \in {"create", "unlock"} /\ h.file = f /\ HolderOf(f) # None
  <2>1. Exists(f)' /\ h.call = "unlock"
    <3>1. files'[f] # None
      BY <1>2, <1>3, CallWrites DEF TakesCall
    <3>2. h.call # "create"
      <4> SUFFICES ASSUME h.call = "create" PROVE FALSE
        OBVIOUS
      <4>1. CreateOK(h)
        BY DEF IInv, CallsInv, TakesCall
      <4>2. \/ \E t \in AccessToken : f = AccessAt(t) /\ grantedTo[t] = None
            \/ \E r \in RefreshToken : f = RefreshAt(r) /\ renews[r] = None
        BY <1>3, <4>1, FileKinds DEF CreateOK, Unnamed
      <4> QED BY <1>3, <4>2, Holders DEF IInv
    <3> QED BY <1>3, <3>1, <3>2 DEF Exists
  <2>2. Exists(f)
    <3>1. UnlockOK(h)
      BY <2>1 DEF IInv, CallsInv, TakesCall
    <3>2. /\ \A t \in AccessToken : f = AccessAt(t) => Exists(f) \/ grantedTo[t] = None
          /\ \A r \in RefreshToken : f = RefreshAt(r) => Exists(f) \/ renews[r] = None
      BY <1>3, <3>1 DEF UnlockOK, Unnamed
    <3> QED BY <1>3, <3>2, FileKinds, Holders DEF IInv
  <2> QED BY <1>1, <1>3, <2>1, <2>2 DEF KnownFile
<1>4. CASE h.call = "delete" /\ h.file = f
  BY <1>1, <1>2, <1>4, CallWrites DEF KnownFile, Exists, TakesCall
<1>5. CASE h.file # f \/ h.call = "lock" \/ HolderOf(f) = None
  <2>1. CASE HolderOf(f) = None
    BY <1>1, <2>1 DEF KnownFile
  <2>2. CASE h.file # f \/ h.call = "lock"
    BY <1>1, <1>2, <2>2 DEF KnownFile, Exists, TakesCall
  <2> QED BY <1>5, <2>1, <2>2
<1> QED BY <1>3, <1>4, <1>5, CallWrites

\* An access token is written only while no file names it, or as it was.
LEMMA AccessAfter ==
  ASSUME IInv, NEW h, TakesCall(h), NEW t \in AccessToken, Exists(AccessAt(t))'
  PROVE  \/ files'[AccessAt(t)] = files[AccessAt(t)] /\ Exists(AccessAt(t))
         \/ Unnamed(t)
<1>1. AccessAt(t) \in File
  BY FileKinds
<1>2. CASE h.call = "unlock" /\ h.file = AccessAt(t)
  <2>1. UnlockOK(h)
    BY <1>2 DEF IInv, CallsInv, TakesCall
  <2> QED BY <1>1, <1>2, <2>1 DEF UnlockOK, TakesCall
<1>3. CASE h.call = "create" /\ h.file = AccessAt(t)
  BY <1>3 DEF IInv, CallsInv, TakesCall, CreateOK
<1>4. CASE h.call = "delete" /\ h.file = AccessAt(t)
  BY <1>1, <1>4, CallWrites DEF TakesCall, Exists
<1>5. CASE h.call = "lock" \/ h.file # AccessAt(t)
  BY <1>1, <1>5 DEF TakesCall, Exists
<1> QED BY <1>2, <1>3, <1>4, <1>5, CallWrites

\* A user file is left alone, created, or saved.
LEMMA UserAfter ==
  ASSUME IInv, NEW h, TakesCall(h), NEW u \in User
  PROVE  \/ files'[UserAt(u)] = files[UserAt(u)]
         \/ /\ h.call = "create" /\ h.file = UserAt(u) /\ ~Exists(UserAt(u))
            /\ files'[UserAt(u)].devices = [d \in Device |-> None]
         \/ /\ h.call = "unlock" /\ h.file = UserAt(u)
            /\ UnlockOK(h) /\ h.value \in UserFile
            /\ files'[UserAt(u)] = h.value /\ files'[UserAt(u)] # None
<1>1. UserAt(u) \in File /\ UserAt(u)[1] = "users" /\ UserAt(u) \notin TokenFile
  BY FileKinds
<1>2. CASE h.call = "unlock" /\ h.file = UserAt(u)
  <2>1. UnlockOK(h) /\ h.value \in UserFile /\ h.value # None
    BY <1>1, <1>2, CallWrites DEF IInv, CallsInv, TakesCall, Content
  <2> QED BY <1>1, <1>2, <2>1 DEF TakesCall, Exists
<1>3. CASE h.call = "create" /\ h.file = UserAt(u)
  <2>1. ~Exists(UserAt(u)) /\ h.value = Empty(UserAt(u))
    BY <1>3 DEF IInv, CallsInv, TakesCall, CreateOK
  <2> QED BY <1>1, <1>3, <2>1 DEF TakesCall, Empty
<1>4. CASE h.call = "lock" \/ h.file # UserAt(u) \/ h.call = "delete"
  BY <1>1, <1>4, CallWrites DEF TakesCall
<1> QED BY <1>2, <1>3, <1>4, CallWrites

LEMMA StepNamed ==
  ASSUME IInv, NEW h, TakesCall(h)
  PROVE  NamedInv'
<1> SUFFICES ASSUME NEW f \in TokenFile, KnownFile(f)'
             PROVE  /\ files'[UserAt(HolderOf(f).user)] # None
                    /\ Names(files'[UserAt(HolderOf(f).user)], HolderOf(f).device, f)
  BY KnownAfter DEF NamedInv, Names, Exists
<1> DEFINE u == HolderOf(f).user
           d == HolderOf(f).device
<1>1. KnownFile(f) /\ ~(h.call = "delete" /\ h.file = f)
  BY KnownAfter
<1>2. u \in User /\ d \in Device
  BY <1>1, Holders DEF IInv, KnownFile
<1>3. Exists(UserAt(u)) /\ Names(files[UserAt(u)], d, f)
  BY <1>1 DEF IInv, NamedInv
<1>4. CASE files'[UserAt(u)] = files[UserAt(u)]
  BY <1>3, <1>4 DEF Exists
<1>5. CASE /\ h.call = "unlock" /\ h.file = UserAt(u)
           /\ UnlockOK(h) /\ h.value \in UserFile
           /\ files'[UserAt(u)] = h.value /\ files'[UserAt(u)] # None
  <2>1. ~Doom(f)
    BY <1>2, <1>5, FileKinds, DoomAfter
  <2>2. Names(h.value, d, f)
    BY <1>1, <1>2, <1>5, <2>1 DEF UnlockOK
  <2> QED BY <1>5, <2>2 DEF Exists
<1> QED BY <1>2, <1>3, <1>4, <1>5, UserAfter

LEMMA StepAccess ==
  ASSUME IInv, NEW h, TakesCall(h)
  PROVE  AccessInv'
<1> SUFFICES ASSUME NEW t \in AccessToken, Known(t)'
             PROVE  AccessIs(files'[AccessAt(t)], grantedTo[t])
  BY DEF AccessInv, TakesCall, AccessIs
<1>1. grantedTo[t] # None /\ Exists(AccessAt(t))'
  BY DEF Known, TakesCall
<1>2. files'[AccessAt(t)] = files[AccessAt(t)] /\ Exists(AccessAt(t))
  BY <1>1, AccessAfter DEF Unnamed
<1> QED BY <1>1, <1>2 DEF IInv, AccessInv, Known

\* When the new access token is named by the file that h writes, its own
\* file has been written.
LEMMA GrantedIsWritten ==
  ASSUME IInv, NEW h, TakesCall(h), request # None, request.session # None,
         h.call = "unlock",
         \/ IsUser(h.file)
         \/ h.file[1] = "refresh" /\ h.value.refreshes = request.reply.token
  PROVE  /\ Exists(AccessAt(request.reply.token))
         /\ AccessIs(files[AccessAt(request.reply.token)], request.session)
         /\ files'[AccessAt(request.reply.token)] = files[AccessAt(request.reply.token)]
         /\ request.reply.token \in AccessToken
<1> DEFINE t == request.reply.token
<1>1. t \in AccessToken /\ AccessAt(t) \in TokenFile /\ AccessAt(t)[1] = "access"
  BY FileKinds DEF IInv, GrantInv
<1>2. h.file # AccessAt(t)
  BY <1>1, FileKinds
<1>3. Unlocks(AccessAt(t)) = {}
  <2> SUFFICES ASSUME NEW c \in Calls, c.call = "unlock", c.file = AccessAt(t)
               PROVE  FALSE
    BY DEF Unlocks
  <2>1. c \in Calls' /\ Before(h, c)
    BY <1>2 DEF TakesCall
  <2>2. ~IsUser(c.file)
    BY <1>1, FileKinds
  <2> QED BY <2>1, <2>2 DEF Before
<1>4. Exists(AccessAt(t)) /\ AccessIs(files[AccessAt(t)], request.session)
  BY <1>3 DEF IInv, GrantInv
<1> QED BY <1>1, <1>2, <1>4, FileKinds DEF TakesCall

LEMMA StepRefresh ==
  ASSUME IInv, NEW h, TakesCall(h), request # None
  PROVE  RefreshInv'
<1> SUFFICES ASSUME NEW r \in RefreshToken, KnownRefresh(r)',
                    NEW t, t = files'[RefreshAt(r)].refreshes
             PROVE  /\ t \in AccessToken
                    /\ Exists(AccessAt(t))' =>
                          AccessIs(files'[AccessAt(t)], renews[r])
  BY DEF RefreshInv, TakesCall, AccessIs
<1>1. /\ KnownRefresh(r) /\ ~(h.call = "delete" /\ h.file = RefreshAt(r))
      /\ Exists(RefreshAt(r)) /\ renews[r] # None
      /\ RefreshAt(r) \in File
  <2>1. KnownFile(RefreshAt(r))'
    BY Holders, FileKinds DEF KnownRefresh, KnownFile, HolderOf
  <2> QED BY <2>1, KnownAfter, Holders, FileKinds DEF KnownRefresh, IInv
<1>2. CASE files'[RefreshAt(r)] = files[RefreshAt(r)]
  <2>1. /\ t \in AccessToken
        /\ Exists(AccessAt(t)) => AccessIs(files[AccessAt(t)], renews[r])
    BY <1>1, <1>2 DEF IInv, RefreshInv
  <2>2. ~Unnamed(t)
    BY <1>1, <1>2 DEF Unnamed
  <2>3. Exists(AccessAt(t))' =>
           files'[AccessAt(t)] = files[AccessAt(t)] /\ Exists(AccessAt(t))
    BY <2>1, <2>2, AccessAfter
  <2> QED BY <2>1, <2>3
<1>3. CASE h.call = "unlock" /\ h.file = RefreshAt(r) /\ NewName(r, h.value)
  <2>1. t = request.reply.token /\ request.session = renews[r] /\ request.session # None
    BY <1>1, <1>3 DEF TakesCall, NewName
  <2>2. /\ t \in AccessToken /\ AccessIs(files[AccessAt(t)], request.session)
        /\ files'[AccessAt(t)] = files[AccessAt(t)]
    BY <1>3, <2>1, GrantedIsWritten, FileKinds DEF NewName
  <2> QED BY <2>1, <2>2
<1>4. \/ files'[RefreshAt(r)] = files[RefreshAt(r)]
      \/ h.call = "unlock" /\ h.file = RefreshAt(r) /\ NewName(r, h.value)
  <2>1. CASE h.call = "lock" \/ h.file # RefreshAt(r)
    BY <1>1, <2>1 DEF TakesCall
  <2>2. CASE h.call = "create" /\ h.file = RefreshAt(r)
    BY <1>1, <2>2 DEF IInv, CallsInv, CreateOK, TakesCall
  <2>3. CASE h.call = "unlock" /\ h.file = RefreshAt(r)
    <3>1. UnlockOK(h)
      BY <2>3 DEF IInv, CallsInv, TakesCall
    <3> QED BY <1>1, <2>3, <3>1 DEF UnlockOK, TakesCall
  <2> QED BY <1>1, <2>1, <2>2, <2>3, CallWrites
<1> QED BY <1>2, <1>3, <1>4

LEMMA StepTwin ==
  ASSUME IInv, NEW h, TakesCall(h)
  PROVE  TwinInv'
<1> SUFFICES ASSUME NEW r \in RefreshToken, NEW t \in AccessToken,
                    KnownRefresh(r)', Known(t)', grantedTo[t] = renews[r]
             PROVE  files'[RefreshAt(r)].refreshes = t
  BY DEF TwinInv, TakesCall
<1>1. /\ KnownRefresh(r) /\ ~(h.call = "delete" /\ h.file = RefreshAt(r))
      /\ Exists(RefreshAt(r)) /\ renews[r] # None
      /\ RefreshAt(r) \in File
  <2>1. KnownFile(RefreshAt(r))'
    BY FileKinds DEF KnownRefresh, KnownFile, HolderOf
  <2> QED BY <2>1, KnownAfter, Holders, FileKinds DEF KnownRefresh, IInv
<1>2. Known(t)
  <2>1. KnownFile(AccessAt(t))'
    BY FileKinds DEF Known, KnownFile, HolderOf
  <2> QED BY <2>1, KnownAfter, Holders, FileKinds DEF IInv
<1>3. files[RefreshAt(r)].refreshes = t
  BY <1>1, <1>2 DEF IInv, TwinInv
<1>4. CASE h.call = "unlock" /\ h.file = RefreshAt(r)
  <2>1. UnlockOK(h)
    BY <1>4 DEF IInv, CallsInv, TakesCall
  <2>2. ~Replaced(r)
    <3> SUFFICES ASSUME Doom(AccessAt(t)) PROVE FALSE
      BY <1>2 DEF Replaced
    <3>1. PICK c \in Calls : \/ c.call = "delete" /\ c.file = AccessAt(t)
                             \/ c.call = "visit"
      BY DEF Doom
    <3>2. Before(h, c)
      BY <1>4, <3>1 DEF TakesCall
    <3>3. h.file[1] = "refresh" /\ h.file[2] = r /\ AccessAt(t) # RefreshAt(r)
      BY <1>4, FileKinds, FileNames
    <3> QED BY <1>1, <1>4, <3>1, <3>2, <3>3 DEF Before
  <2>3. h.value = files[RefreshAt(r)]
    BY <1>1, <1>4, <2>1, <2>2 DEF UnlockOK
  <2> QED BY <1>1, <1>3, <1>4, <2>3 DEF TakesCall
<1>5. ~(h.call = "create" /\ h.file = RefreshAt(r))
  BY <1>1 DEF IInv, CallsInv, CreateOK, TakesCall
<1>6. CASE ~(h.call = "unlock" /\ h.file = RefreshAt(r))
  <2>1. files'[RefreshAt(r)] = files[RefreshAt(r)]
    BY <1>1, <1>5, <1>6, CallWrites DEF TakesCall
  <2> QED BY <1>3, <2>1
<1> QED BY <1>4, <1>6

\* The objects below "devices" are well formed.
LEMMA DeviceTypes ==
  ASSUME TypeOK, NEW u \in User, NEW d \in Device, Exists(UserAt(u)),
         files[UserAt(u)].devices[d] # None
  PROVE  files[UserAt(u)].devices[d] \in DeviceObject
<1>1. files[UserAt(u)] \in UserFile
  BY FileKinds DEF TypeOK, Content, Exists
<1> QED BY <1>1 DEF UserFile

LEMMA StepDevice ==
  ASSUME IInv, NEW h, TakesCall(h), request # None
  PROVE  DeviceInv'
<1> SUFFICES ASSUME NEW u \in User, NEW d \in Device, Exists(UserAt(u))',
                    NEW o, o = files'[UserAt(u)].devices[d], o # None
             PROVE  /\ files'[UserAt(u)].hasDevices
                    /\ Exists(AccessAt(o.accessToken))' =>
                          AccessIs(files'[AccessAt(o.accessToken)],
                                   [user |-> u, device |-> d])
  BY DEF DeviceInv, AccessIs
<1> DEFINE x == o.accessToken
<1>1. CASE files'[UserAt(u)] = files[UserAt(u)]
  <2>1. /\ Exists(UserAt(u)) /\ files[UserAt(u)].hasDevices
        /\ Exists(AccessAt(x)) =>
              AccessIs(files[AccessAt(x)], [user |-> u, device |-> d])
    BY <1>1 DEF IInv, DeviceInv, Exists
  <2>2. x \in AccessToken
    BY <1>1, <2>1, DeviceTypes DEF IInv, DeviceObject
  <2>3. ~Unnamed(x)
    BY <1>1, <2>1, <2>2, FileKinds DEF Unnamed, Names
  <2> QED BY <1>1, <2>1, <2>2, <2>3, AccessAfter
<1>2. CASE /\ h.call = "unlock" /\ h.file = UserAt(u)
           /\ UnlockOK(h) /\ h.value \in UserFile
           /\ files'[UserAt(u)] = h.value
  <2>1. /\ h.value.hasDevices
        /\ \/ Exists(UserAt(u)) /\ Names(files[UserAt(u)], d, AccessAt(x))
           \/ request.session = [user |-> u, device |-> d] /\ request.reply.token = x
    BY <1>2 DEF UnlockOK
  <2>2. x \in AccessToken
    BY <1>2 DEF UserFile, DeviceObject
  <2>3. CASE Exists(UserAt(u)) /\ Names(files[UserAt(u)], d, AccessAt(x))
    <3>1. /\ files[UserAt(u)].devices[d] # None
          /\ files[UserAt(u)].devices[d].accessToken = x
      BY <2>2, <2>3, FileKinds DEF Names
    <3>2. Exists(AccessAt(x)) => AccessIs(files[AccessAt(x)], [user |-> u, device |-> d])
      BY <2>3, <3>1 DEF IInv, DeviceInv
    <3>3. ~Unnamed(x)
      BY <2>3 DEF Unnamed
    <3> QED BY <1>2, <2>1, <2>2, <3>2, <3>3, AccessAfter
  <2>4. CASE request.session = [user |-> u, device |-> d] /\ request.reply.token = x
    <3>1. request.session # None
      BY <2>4, NoneAssumption DEF Session
    <3>2. IsUser(h.file)
      BY <1>2, FileKinds
    <3>3. /\ AccessIs(files[AccessAt(request.reply.token)], request.session)
          /\ files'[AccessAt(request.reply.token)] = files[AccessAt(request.reply.token)]
      BY <1>2, <3>1, <3>2, GrantedIsWritten
    <3> QED BY <1>2, <2>1, <2>4, <3>3
  <2> QED BY <2>1, <2>3, <2>4
<1>3. files'[UserAt(u)].devices # [y \in Device |-> None]
  OBVIOUS
<1> QED BY <1>1, <1>2, <1>3, UserAfter

\* What no file names stays without a name while a call on it is to come.
LEMMA UnnamedAfter ==
  ASSUME IInv, NEW h, TakesCall(h), NEW t \in AccessToken, Unnamed(t),
         NEW c \in Calls', c.file = AccessAt(t), c.call \in {"create", "unlock"}
  PROVE  Unnamed(t)'
<1>1. Before(h, c)
  BY DEF TakesCall
<1>2. ASSUME NEW r \in RefreshToken, files'[RefreshAt(r)] # None
      PROVE  files'[RefreshAt(r)].refreshes # t
  <2>1. RefreshAt(r) \in File /\ RefreshAt(r)[1] = "refresh"
    BY FileKinds
  <2>2. CASE h.call = "unlock" /\ h.file = RefreshAt(r)
    BY <1>1, <2>1, <2>2 DEF Before, TakesCall
  <2>3. CASE h.call = "create" /\ h.file = RefreshAt(r)
    <3>1. files'[RefreshAt(r)] = [refreshes |-> None]
      BY <2>1, <2>3 DEF IInv, CallsInv, CreateOK, TakesCall, Empty
    <3> QED BY <3>1, NoneAssumption
  <2>4. CASE h.call = "lock" \/ h.file # RefreshAt(r)
    BY <1>2, <2>1, <2>4 DEF TakesCall, Unnamed, Exists
  <2>5. CASE h.call = "delete" /\ h.file = RefreshAt(r)
    BY <1>2, <2>1, <2>5, CallWrites DEF TakesCall
  <2> QED BY <2>2, <2>3, <2>4, <2>5, CallWrites
<1>3. ASSUME NEW u \in User, NEW d \in Device, files'[UserAt(u)] # None
      PROVE  ~Names(files'[UserAt(u)], d, AccessAt(t))
  <2>1. CASE files'[UserAt(u)] = files[UserAt(u)]
    BY <1>3, <2>1 DEF Unnamed, Exists
  <2>2. CASE files'[UserAt(u)].devices = [x \in Device |-> None]
    BY <2>2 DEF Names
  <2>3. ~(h.call = "unlock" /\ h.file = UserAt(u))
    <3>1. ~IsUser(c.file)
      BY FileKinds
    <3> QED BY <1>1, <3>1, FileKinds DEF Before
  <2> QED BY <2>1, <2>2, <2>3, UserAfter
<1> QED BY <1>2, <1>3 DEF Unnamed, Names, TakesCall, Exists

LEMMA StepCreates ==
  ASSUME IInv, NEW h, TakesCall(h), NEW c \in Calls', c.call = "create"
  PROVE  CreateOK(c)'
<1>1. c \in Calls /\ Before(h, c) /\ CreateOK(c) /\ c.file \in File
  BY CallsAreCalls DEF TakesCall, IInv, CallsInv, OrderInv, Calls, Call
<1>2. ~(h.file = c.file /\ h.call # "lock")
  BY <1>1, CallWrites DEF Before
<1>3. files'[c.file] = None
  BY <1>1, <1>2 DEF TakesCall, CreateOK, Exists
<1>4. \A t \in AccessToken : c.file = AccessAt(t) => Unnamed(t)'
  BY <1>1, UnnamedAfter DEF CreateOK
<1>5. \A r \in RefreshToken : c.file = RefreshAt(r) => renews'[r] = None
  BY <1>1 DEF CreateOK, TakesCall
<1> QED BY <1>1, <1>3, <1>4, <1>5 DEF CreateOK, Exists

LEMMA StepUnlocks ==
  ASSUME IInv, NEW h, TakesCall(h), NEW c \in Calls', c.call = "unlock"
  PROVE  UnlockOK(c)'
<1>1. c \in Calls /\ Before(h, c) /\ UnlockOK(c) /\ c.file \in File
  BY CallsAreCalls DEF TakesCall, IInv, CallsInv, OrderInv, Calls, Call
<1>2. ASSUME c.file \in TokenFile, files[c.file] # None, c.value = files[c.file]
      PROVE  files'[c.file] = files[c.file]
  <2>1. ~(h.call \in {"unlock", "delete"} /\ h.file = c.file)
    BY <1>1, <1>2, FileKinds DEF Before
  <2>2. ~(h.call = "create" /\ h.file = c.file)
    BY <1>2 DEF IInv, CallsInv, CreateOK, TakesCall, Exists
  <2> QED BY <1>1, <2>1, <2>2, CallWrites DEF TakesCall
<1>3. ASSUME NEW t \in AccessToken, c.file = AccessAt(t)
      PROVE  (files'[c.file] # None /\ c.value = files'[c.file]) \/ Unnamed(t)'
  BY <1>1, <1>2, <1>3, FileKinds, UnnamedAfter DEF UnlockOK, Exists
<1>4. ASSUME NEW r \in RefreshToken, c.file = RefreshAt(r)
      PROVE  \/ renews[r] = None
             \/ /\ files'[c.file] # None
                /\ c.value = files'[c.file] \/ (NewName(r, c.value) /\ Replaced(r)')
  <2>1. c.file \in TokenFile
    BY <1>4, FileKinds
  <2>3. Replaced(r) => Replaced(r)'
    <3> SUFFICES ASSUME Replaced(r), NEW t \in AccessToken, Known(t)',
                        grantedTo[t] = renews[r]
                 PROVE  Doom(AccessAt(t))'
      BY DEF Replaced, TakesCall
    <3> DEFINE g == AccessAt(t)
    <3>1. g \in TokenFile /\ KnownFile(g)'
      BY FileKinds DEF Known, KnownFile, HolderOf
    <3>2. KnownFile(g) /\ ~(h.call = "delete" /\ h.file = g)
      BY <3>1, KnownAfter
    <3>3. Known(t)
      BY <3>2, Holders DEF IInv
    <3>4. Doom(g)
      BY <3>3 DEF Replaced
    <3>5. Doom(g)'
      BY <3>1, <3>2, <3>4, DoomAfter
    <3> QED BY <3>5
  <2>2. CASE renews[r] # None /\ files[c.file] # None
    <3>1. ~(h.call \in {"unlock", "delete"} /\ h.file = c.file)
      BY <1>1, <2>1, FileKinds DEF Before
    <3>2. ~(h.call = "create" /\ h.file = c.file)
      BY <2>2 DEF IInv, CallsInv, CreateOK, TakesCall, Exists
    <3>3. files'[c.file] = files[c.file]
      BY <1>1, <3>1, <3>2, CallWrites DEF TakesCall
    <3> QED BY <1>1, <1>4, <2>2, <2>3, <3>3 DEF UnlockOK
  <2> QED BY <1>1, <1>4, <2>2 DEF UnlockOK, Exists
<1>5. ASSUME NEW u \in User, c.file = UserAt(u), NEW f \in TokenFile, KnownFile(f)',
             HolderOf(f).user = u
      PROVE  Names(c.value, HolderOf(f).device, f) \/ Doom(f)'
  BY <1>1, <1>5, KnownAfter, DoomAfter DEF UnlockOK
<1>6. ASSUME NEW u \in User, c.file = UserAt(u), NEW d \in Device,
             c.value.devices[d] # None
      PROVE  \/ /\ files'[c.file] # None
                /\ Names(files'[c.file], d, AccessAt(c.value.devices[d].accessToken))
             \/ /\ request.session = [user |-> u, device |-> d]
                /\ request.reply.token = c.value.devices[d].accessToken
  <2>1. \/ /\ files[c.file] # None
           /\ Names(files[c.file], d, AccessAt(c.value.devices[d].accessToken))
        \/ /\ request.session = [user |-> u, device |-> d]
           /\ request.reply.token = c.value.devices[d].accessToken
    BY <1>1, <1>6 DEF UnlockOK, Exists
  <2>2. CASE files'[UserAt(u)] = files[UserAt(u)]
    BY <1>6, <2>1, <2>2
  <2>3. CASE /\ h.call = "unlock" /\ h.file = UserAt(u)
             /\ files'[UserAt(u)] = h.value /\ files'[UserAt(u)] # None
    <3>1. c.value.devices = h.value.devices
      BY <1>1, <1>6, <2>3, FileKinds DEF Before
    <3>2. AccessAt(c.value.devices[d].accessToken)[1] = "access"
          /\ AccessAt(c.value.devices[d].accessToken)[2] = c.value.devices[d].accessToken
      BY DEF AccessAt
    <3> QED BY <1>6, <2>3, <3>1, <3>2 DEF Names
  <2>4. CASE ~Exists(UserAt(u))
    BY <1>6, <2>1, <2>4 DEF Exists
  <2> QED BY <2>2, <2>3, <2>4, UserAfter
<1>7. c.value \in Content(c.file)
  BY <1>1 DEF UnlockOK
<1>8. \A u \in User, d \in Device :
         c.file = UserAt(u) /\ c.value.devices[d] # None => c.value.hasDevices
  BY <1>1 DEF UnlockOK
<1>9. UNCHANGED <<request, renews>>
  BY DEF TakesCall
<1>10. \A f \in TokenFile : HolderOf(f)' = HolderOf(f)
  BY KnownAfter
<1> QED BY <1>3, <1>4, <1>5, <1>6, <1>7, <1>8, <1>9, <1>10
        DEF UnlockOK, Exists, NewName, Names

LEMMA StepCallsInv ==
  ASSUME IInv, NEW h, TakesCall(h)
  PROVE  CallsInv'
<1> SUFFICES ASSUME NEW c \in Calls'
             PROVE  /\ c.call = "create" => CreateOK(c)'
                    /\ c.call = "unlock" => UnlockOK(c)'
                    /\ c.call = "delete" => c.file \in TokenFile /\ c.value = None
                    /\ c.call = "visit" => VisitOK(c)'
  BY DEF CallsInv
<1>1. c \in Calls /\ Before(h, c)
  BY DEF TakesCall
<1>2. c.call = "delete" => c.file \in TokenFile /\ c.value = None
  BY <1>1 DEF IInv, CallsInv
<1>3. ASSUME c.call = "visit" PROVE VisitOK(c)'
  <2>1. h.call = "delete" /\ h.file # c.file /\ VisitOK(c)
    BY <1>1, <1>3 DEF Before, IInv, CallsInv
  <2>2. c.file \in File
    BY <2>1, FileKinds DEF VisitOK, IsUser
  <2>3. files'[c.file] = files[c.file]
    BY <2>1, <2>2 DEF TakesCall
  <2> QED BY <2>1, <2>3 DEF VisitOK, Exists
<1> QED BY <1>2, <1>3, StepCreates, StepUnlocks

LEMMA StepLocks ==
  ASSUME IInv, NEW h, TakesCall(h)
  PROVE  LockInv'
<1>1. \A f : Unlocks(f) # {} /\ ~(h.call = "unlock" /\ h.file = f) => Unlocks(f)' # {}
  BY DEF Unlocks, TakesCall
<1>2. ASSUME NEW c \in Calls', c.call \in {"lock", "create"}
      PROVE  Unlocks(c.file)' # {}
  <2>1. Unlocks(c.file) # {} /\ Before(h, c)
    BY <1>2 DEF IInv, LockInv, TakesCall
  <2> QED BY <1>1, <1>2, <2>1 DEF Before
<1>3. ASSUME NEW f \in held' PROVE Unlocks(f)' # {}
  <2>1. CASE h.call \in {"lock", "create"} /\ f = h.file
    BY <1>1, <2>1 DEF IInv, LockInv, TakesCall
  <2>2. CASE f \in held /\ ~(h.call = "unlock" /\ h.file = f)
    BY <1>1, <2>2 DEF IInv, LockInv
  <2> QED BY <1>3, <2>1, <2>2 DEF TakesCall
<1> QED BY <1>2, <1>3 DEF LockInv, Unlocks

LEMMA StepDangling ==
  ASSUME IInv, NEW h, TakesCall(h), request # None
  PROVE  DanglingInv'
<1> SUFFICES ASSUME ~crashed, NEW r \in RefreshToken, KnownRefresh(r)',
                    NEW t, t = files'[RefreshAt(r)].refreshes
             PROVE  \/ files'[AccessAt(t)] # None /\ ~Doom(AccessAt(t))'
                    \/ Renamed(r)'
  BY DEF DanglingInv, TakesCall, Exists
<1>1. /\ KnownRefresh(r) /\ ~(h.call = "delete" /\ h.file = RefreshAt(r))
      /\ Exists(RefreshAt(r)) /\ renews[r] # None
      /\ RefreshAt(r) \in File
  <2>1. KnownFile(RefreshAt(r))'
    BY Holders, FileKinds DEF KnownRefresh, KnownFile, HolderOf
  <2> QED BY <2>1, KnownAfter, Holders, FileKinds DEF KnownRefresh, IInv
<1> DEFINE x == files[RefreshAt(r)].refreshes
<1>2. x \in AccessToken /\ AccessAt(x) \in TokenFile /\ AccessAt(x) \in File
  BY <1>1, FileKinds DEF IInv, RefreshInv
<1>3. (Exists(AccessAt(x)) /\ ~Doom(AccessAt(x))) \/ Renamed(r)
  BY <1>1 DEF IInv, DanglingInv
<1>4. CASE files'[RefreshAt(r)] = files[RefreshAt(r)]
           /\ ~(h.call = "unlock" /\ h.file = RefreshAt(r))
  <2>1. CASE Exists(AccessAt(x)) /\ ~Doom(AccessAt(x))
    <3>1. ~(h.call = "delete" /\ h.file = AccessAt(x))
      BY <2>1 DEF Doom, TakesCall
    <3>2. files'[AccessAt(x)] # None
      BY <1>2, <2>1, <3>1, CallWrites DEF TakesCall, Exists
    <3> QED BY <1>2, <1>4, <2>1, <3>2, DoomAfter
  <2>2. CASE Doom(RefreshAt(r))
    BY <1>1, <2>2, FileKinds, DoomAfter DEF Renamed
  <2>3. CASE \E c \in Unlocks(RefreshAt(r)) : NewName(r, c.value)
    BY <1>4, <2>3 DEF Renamed, Unlocks, NewName, TakesCall
  <2> QED BY <1>3, <2>1, <2>2, <2>3 DEF Renamed
<1>5. CASE h.call = "unlock" /\ h.file = RefreshAt(r) /\ NewName(r, h.value)
  <2>1. t = request.reply.token /\ request.session # None
    BY <1>1, <1>5 DEF TakesCall, NewName
  <2>2. Exists(AccessAt(t)) /\ files'[AccessAt(t)] = files[AccessAt(t)] /\ t \in AccessToken
    BY <1>5, <2>1, GrantedIsWritten, FileKinds DEF NewName
  <2>3. ~Doom(AccessAt(t))
    BY <2>1 DEF IInv, GrantInv, Doom
  <2> QED BY <2>2, <2>3, DoomAfter, FileKinds DEF Exists
<1>6. CASE h.call = "unlock" /\ h.file = RefreshAt(r) /\ h.value = files[RefreshAt(r)]
           /\ ~NewName(r, h.value)
  <2>1. files'[RefreshAt(r)] = files[RefreshAt(r)]
    BY <1>1, <1>6 DEF TakesCall
  <2>2. CASE Exists(AccessAt(x)) /\ ~Doom(AccessAt(x))
    <3>1. h.file # AccessAt(x)
      BY <1>6, FileNames
    <3>2. files'[AccessAt(x)] # None
      BY <1>2, <2>2, <3>1 DEF TakesCall, Exists
    <3> QED BY <1>2, <2>1, <2>2, <3>2, DoomAfter
  <2>3. CASE Doom(RefreshAt(r))
    BY <1>1, <2>3, FileKinds, DoomAfter DEF Renamed
  <2>4. CASE \E c \in Unlocks(RefreshAt(r)) : NewName(r, c.value)
    BY <1>6, <2>4 DEF Renamed, Unlocks, NewName, TakesCall
  <2> QED BY <1>3, <2>2, <2>3, <2>4 DEF Renamed
<1>7. CASE h.call = "unlock" /\ h.file = RefreshAt(r)
  <2>1. UnlockOK(h)
    BY <1>7 DEF IInv, CallsInv, TakesCall
  <2>2. h.value = files[RefreshAt(r)] \/ NewName(r, h.value)
    BY <1>1, <1>7, <2>1 DEF UnlockOK
  <2> QED BY <1>5, <1>6, <1>7, <2>2
<1>8. ~(h.call = "create" /\ h.file = RefreshAt(r))
  BY <1>1 DEF IInv, CallsInv, CreateOK, TakesCall
<1>9. files'[RefreshAt(r)] = files[RefreshAt(r)] \/ (h.call = "unlock" /\ h.file = RefreshAt(r))
  BY <1>1, <1>8, CallWrites DEF TakesCall
<1> QED BY <1>4, <1>7, <1>9

\* A file that is to be installed with a value v is, or will be.
LEMMA StepGrant ==
  ASSUME IInv, NEW h, TakesCall(h), request # None
  PROVE  GrantInv'
<1> SUFFICES ASSUME request.session # None
             PROVE  GrantInv'
  BY DEF GrantInv, TakesCall
<1> DEFINE t == request.reply.token
           s == request.session
           r == request.refreshToken
<1>1. UNCHANGED <<request, grantedTo, renews>>
  BY DEF TakesCall
<1>2. /\ s \in Session /\ t \in AccessToken /\ grantedTo[t] = None
      /\ request.reply.route \in {"login", "refresh"}
      /\ \A c \in Calls : c.call # "visit" /\ (c.call = "delete" => c.file # AccessAt(t))
      /\ \A c \in Unlocks(AccessAt(t)) : AccessIs(c.value, s)
      /\ \A c \in Unlocks(UserAt(s.user)) : Installs(c.value)
  BY DEF IInv, GrantInv
<1>3. \A f : Unlocks(f)' \subseteq Unlocks(f)
  BY DEF Unlocks, TakesCall
<1>4. \A f : ~(h.call = "unlock" /\ h.file = f) => Unlocks(f)' = Unlocks(f)
  BY DEF Unlocks, TakesCall
<1>5. h.call = "create" => ~Exists(h.file)
  BY DEF IInv, CallsInv, CreateOK, TakesCall
<1>6. AccessAt(t) \in File /\ UserAt(s.user) \in File
  BY <1>2, FileKinds DEF Session
<1>7. \/ Unlocks(AccessAt(t))' # {}
      \/ files'[AccessAt(t)] # None /\ AccessIs(files'[AccessAt(t)], s)
  <2>1. CASE h.call = "unlock" /\ h.file = AccessAt(t)
    <3>1. h \in Unlocks(AccessAt(t))
      BY <2>1 DEF Unlocks, TakesCall
    <3>2. files'[AccessAt(t)] = h.value /\ h.value # None
      BY <1>6, <2>1, CallWrites DEF TakesCall
    <3> QED BY <1>2, <3>1, <3>2
  <2>2. CASE ~(h.call = "unlock" /\ h.file = AccessAt(t))
    <3>1. CASE Unlocks(AccessAt(t)) # {}
      BY <1>1, <1>4, <2>2, <3>1 DEF Unlocks
    <3>2. CASE Exists(AccessAt(t)) /\ AccessIs(files[AccessAt(t)], s)
      <4>1. ~(h.call # "lock" /\ h.file = AccessAt(t))
        BY <1>2, <1>5, <2>2, <3>2, CallWrites DEF TakesCall
      <4> QED BY <1>6, <3>2, <4>1 DEF TakesCall, Exists
    <3> QED BY <3>1, <3>2 DEF IInv, GrantInv
  <2> QED BY <2>1, <2>2
<1>8. \/ Unlocks(UserAt(s.user))' # {}
      \/ files'[UserAt(s.user)] # None /\ Installs(files'[UserAt(s.user)])
  <2>1. CASE h.call = "unlock" /\ h.file = UserAt(s.user)
    <3>1. h \in Unlocks(UserAt(s.user))
      BY <2>1 DEF Unlocks, TakesCall
    <3>2. files'[UserAt(s.user)] = h.value /\ h.value # None
      BY <1>6, <2>1, CallWrites DEF TakesCall
    <3> QED BY <1>2, <3>1, <3>2
  <2>2. CASE ~(h.call = "unlock" /\ h.file = UserAt(s.user))
    <3>1. CASE Unlocks(UserAt(s.user)) # {}
      BY <1>1, <1>4, <2>2, <3>1 DEF Unlocks
    <3>2. CASE Exists(UserAt(s.user)) /\ Installs(files[UserAt(s.user)])
      <4>1. UserAt(s.user) \notin TokenFile
        BY <1>2, FileKinds DEF Session
      <4>2. ~(h.call # "lock" /\ h.file = UserAt(s.user))
        BY <1>5, <2>2, <3>2, <4>1, CallWrites DEF TakesCall
      <4> QED BY <1>6, <3>2, <4>2 DEF TakesCall, Exists
    <3> QED BY <3>1, <3>2 DEF IInv, GrantInv
  <2> QED BY <2>1, <2>2
<1>9. ASSUME r # None
      PROVE  /\ request.reply.route = "login" /\ renews[r] = None
             /\ \A c \in Calls' : c.call = "delete" => c.file # RefreshAt(r)
             /\ \A c \in Unlocks(RefreshAt(r))' : c.value.refreshes = t
             /\ \/ Unlocks(RefreshAt(r))' # {}
                \/ files'[RefreshAt(r)] # None /\ files'[RefreshAt(r)].refreshes = t
  <2>1. /\ request.reply.route = "login" /\ renews[r] = None
        /\ \A c \in Calls : c.call = "delete" => c.file # RefreshAt(r)
        /\ \A c \in Unlocks(RefreshAt(r)) : c.value.refreshes = t
        /\ \/ Unlocks(RefreshAt(r)) # {}
           \/ Exists(RefreshAt(r)) /\ files[RefreshAt(r)].refreshes = t
    BY <1>9 DEF IInv, GrantInv
  <2>2. RefreshAt(r) \in File
    BY <1>9, FileKinds DEF IInv, TypeOK, UnderWay
  <2>3. CASE h.call = "unlock" /\ h.file = RefreshAt(r)
    <3>1. h \in Unlocks(RefreshAt(r))
      BY <2>3 DEF Unlocks, TakesCall
    <3>2. files'[RefreshAt(r)] = h.value /\ h.value # None
      BY <2>2, <2>3, CallWrites DEF TakesCall
    <3> QED BY <1>3, <2>1, <3>1, <3>2 DEF TakesCall
  <2>4. CASE ~(h.call = "unlock" /\ h.file = RefreshAt(r))
    <3>1. CASE Unlocks(RefreshAt(r)) # {}
      BY <1>3, <1>4, <2>1, <2>4, <3>1 DEF TakesCall
    <3>2. CASE Exists(RefreshAt(r)) /\ files[RefreshAt(r)].refreshes = t
      <4>1. ~(h.call # "lock" /\ h.file = RefreshAt(r))
        BY <1>5, <2>1, <2>4, <3>2, CallWrites DEF TakesCall
      <4>2. files'[RefreshAt(r)] = files[RefreshAt(r)]
        BY <2>2, <4>1 DEF TakesCall
      <4> QED BY <1>3, <2>1, <3>2, <4>2 DEF TakesCall, Exists
    <3> QED BY <2>1, <3>1, <3>2
  <2> QED BY <2>3, <2>4
<1>10. ASSUME request.reply.route = "refresh"
       PROVE  \E x \in RefreshToken :
                 /\ KnownRefresh(x)' /\ renews[x] = s /\ ~Doom(RefreshAt(x))'
                 /\ \A c \in Unlocks(RefreshAt(x))' : c.value.refreshes = t
                 /\ \/ Unlocks(RefreshAt(x))' # {}
                    \/ files'[RefreshAt(x)].refreshes = t
  <2>1. PICK x \in RefreshToken :
           /\ KnownRefresh(x) /\ renews[x] = s /\ ~Doom(RefreshAt(x))
           /\ \A c \in Unlocks(RefreshAt(x)) : c.value.refreshes = t
           /\ \/ Unlocks(RefreshAt(x)) # {}
              \/ files[RefreshAt(x)].refreshes = t
    BY <1>10 DEF IInv, GrantInv
  <2>2. RefreshAt(x) \in TokenFile /\ KnownFile(RefreshAt(x))
    BY <2>1, FileKinds, Holders DEF IInv
  <2>3. ~(h.call = "delete" /\ h.file = RefreshAt(x))
    BY <2>1 DEF Doom, TakesCall
  <2>4. KnownFile(RefreshAt(x))' /\ ~Doom(RefreshAt(x))'
    BY <2>1, <2>2, <2>3, KnownAfter, DoomAfter
  <2>5. KnownRefresh(x)'
    BY <2>1, <2>4, <1>1 DEF KnownFile, KnownRefresh
  <2>6. \A c \in Unlocks(RefreshAt(x))' : c.value.refreshes = t
    BY <1>1, <1>3, <2>1 DEF Unlocks
  <2>7. \/ Unlocks(RefreshAt(x))' # {}
        \/ files'[RefreshAt(x)].refreshes = t
    <3>1. RefreshAt(x) \in File
      BY FileKinds
    <3>2. CASE h.call = "unlock" /\ h.file = RefreshAt(x)
      <4>1. h \in Unlocks(RefreshAt(x))
        BY <3>2 DEF Unlocks, TakesCall
      <4>2. files'[RefreshAt(x)] = h.value
        BY <3>1, <3>2 DEF TakesCall
      <4> QED BY <2>1, <4>1, <4>2
    <3>3. CASE ~(h.call = "unlock" /\ h.file = RefreshAt(x))
      <4>1. Unlocks(RefreshAt(x))' = Unlocks(RefreshAt(x))
        BY <1>4, <3>3 DEF Unlocks
      <4>2. ~(h.call = "create" /\ h.file = RefreshAt(x))
        BY <1>5, <2>1 DEF KnownRefresh
      <4>3. files'[RefreshAt(x)] = files[RefreshAt(x)]
        BY <2>3, <3>1, <3>3, <4>2, CallWrites DEF TakesCall
      <4> QED BY <2>1, <4>1, <4>3
    <3> QED BY <3>2, <3>3
  <2> QED BY <2>1, <2>4, <2>5, <2>6, <2>7
<1>11. \A c \in Calls' : c.call # "visit" /\ (c.call = "delete" => c.file # AccessAt(t))
  BY <1>2 DEF TakesCall
<1>12. /\ \A c \in Unlocks(AccessAt(t))' : AccessIs(c.value, s)
       /\ \A c \in Unlocks(UserAt(s.user))' : Installs(c.value)
  BY <1>1, <1>2, <1>3 DEF Unlocks
<1> QED BY <1>1, <1>2, <1>7, <1>8, <1>9, <1>10, <1>11, <1>12
        DEF GrantInv, Exists, AccessIs, Installs

\* What a request has promised to revoke stays promised.
LEMMA StepPromise ==
  ASSUME IInv, NEW h, TakesCall(h), request # None
  PROVE  PromiseInv'
<1> DEFINE t == request.reply.token
<1>1. \A f \in TokenFile : KnownFile(f)' =>
         KnownFile(f) /\ HolderOf(f)' = HolderOf(f) /\ (Doom(f) => Doom(f)')
  BY KnownAfter, DoomAfter
<1>2. \A u, ds : Revokes(u, ds) =>
         \A f \in TokenFile :
            KnownFile(f)' /\ HolderOf(f)'.user = u /\ HolderOf(f)'.device \in ds
              => Doom(f)'
  BY <1>1 DEF Revokes
<1>3. UNCHANGED <<request, grantedTo>>
  BY DEF TakesCall
<1>4. Known(t) /\ ~Doom(AccessAt(t)) /\ t \in AccessToken
        => files'[AccessAt(t)] # None /\ grantedTo[t] # None /\ ~Doom(AccessAt(t))'
  <2> SUFFICES ASSUME Known(t), ~Doom(AccessAt(t)), t \in AccessToken
               PROVE  files'[AccessAt(t)] # None /\ grantedTo[t] # None
                        /\ ~Doom(AccessAt(t))'
    OBVIOUS
  <2> DEFINE g == AccessAt(t)
  <2>1. g \in TokenFile /\ KnownFile(g) /\ HolderOf(g) # None
    BY FileKinds, Holders DEF IInv, KnownFile
  <2>2. ~(h.call = "delete" /\ h.file = g)
    BY DEF Doom, TakesCall
  <2>3. g \in File
    BY <2>1, FileKinds
  <2>4. ~(h.call = "lock") /\ h.file = g => h.value # None
    BY <2>2, CallWrites
  <2>5. files'[g] # None
    BY <2>3, <2>4 DEF TakesCall, Known, Exists
  <2>6. ~Doom(g) /\ (Doom(g)' => Doom(g))
    <3>1. \A f \in TokenFile : Doom(f)' => Doom(f)
      BY DoomAfter
    <3> QED BY <2>1, <3>1, <1>3 DEF Doom
  <2> QED BY <2>5, <2>6 DEF Known
<1> SUFFICES ASSUME request.reply.status = 200 PROVE PromiseInv'
  BY <1>3 DEF PromiseInv
<1> DEFINE u == request.reply.user
<1>5. CASE request.reply.route = "logout"
  <2>1. Revokes(u, {grantedTo[t].device})
    BY <1>5 DEF IInv, PromiseInv
  <2>2. \A f \in TokenFile :
           KnownFile(f)' /\ HolderOf(f)'.user = u /\ HolderOf(f)'.device = grantedTo[t].device
             => Doom(f)'
    BY <1>2, <2>1
  <2>3. Revokes(u, {grantedTo[t].device})'
    BY <1>3, <2>2 DEF Revokes
  <2> QED BY <1>3, <1>5, <2>3 DEF PromiseInv
<1>6. CASE request.reply.route \in {"logout_all", "deactivate"}
  BY <1>2, <1>3, <1>6 DEF IInv, PromiseInv, Revokes
<1>7. CASE request.reply.route = "password_logout"
  <2>1. /\ t \in AccessToken /\ Known(t) /\ ~Doom(AccessAt(t))
        /\ Revokes(u, Device \ {grantedTo[t].device})
    BY <1>7 DEF IInv, PromiseInv
  <2>2. \A f \in TokenFile :
           /\ KnownFile(f)' /\ HolderOf(f)'.user = u
           /\ HolderOf(f)'.device \in Device \ {grantedTo[t].device}
           => Doom(f)'
    BY <1>2, <2>1
  <2>3. Revokes(u, Device \ {grantedTo[t].device})'
    BY <1>3, <2>2 DEF Revokes
  <2>4. Known(t)' /\ ~Doom(AccessAt(t))'
    BY <1>3, <1>4, <2>1 DEF Known, Exists
  <2> QED BY <1>3, <1>7, <2>1, <2>3, <2>4 DEF PromiseInv
<1>8. CASE request.reply.route \in {"login", "refresh"}
  BY <1>3, <1>8 DEF IInv, PromiseInv
<1>9. CASE request.reply.route \notin {"logout", "logout_all", "deactivate",
                                      "password_logout", "login", "refresh"}
  BY <1>3, <1>9 DEF PromiseInv
<1> QED BY <1>5, <1>6, <1>7, <1>8, <1>9

LEMMA StepTypes ==
  ASSUME IInv, Step, NEW h, TakesCall(h), request # None, OrderInv'
  PROVE  TypeOK'
<1>1. DOMAIN files' = File
  BY DEF IInv, TypeOK, Step
<1>2. \A f \in File : files'[f] \in Content(f) \union {None}
  BY CallWrites DEF IInv, TypeOK, TakesCall
<1>3. held' \subseteq File
  BY CallWrites DEF IInv, TypeOK, TakesCall
<1>4. \A i \in DOMAIN todo' : todo'[i].file \in File
  <2>1. \A s \in Seq(Call) : \A i \in DOMAIN s : s[i].file \in File
    BY CallsAreCalls DEF CallsIn, Call
  <2>2. todo' \in Seq(Call)
    BY DEF OrderInv
  <2> QED BY <2>1, <2>2
<1> QED BY <1>1, <1>2, <1>3, <1>4 DEF IInv, TypeOK, TakesCall

LEMMA StepKeeps ==
  ASSUME IInv, Step
  PROVE  IInv'
<1>1. PICK h : TakesCall(h)
  BY StepTakesCall
<1>2. OrderInv' /\ request # None /\ request' # None
  BY <1>1, StepTakesCall DEF TakesCall
<1>3. TypeOK'
  BY <1>1, <1>2, StepTypes
<1>4. NamedInv' /\ AccessInv' /\ RefreshInv' /\ DeviceInv' /\ TwinInv'
  BY <1>1, <1>2, StepNamed, StepAccess, StepRefresh, StepDevice, StepTwin
<1>5. CallsInv' /\ LockInv' /\ DanglingInv'
  BY <1>1, <1>2, StepCallsInv, StepLocks, StepDangling
<1>6. GrantInv' /\ PromiseInv'
  BY <1>1, <1>2, StepGrant, StepPromise
<1>7. LocksReturned' /\ AnswersKeepPromises'
  BY <1>2 DEF LocksReturned, AnswersKeepPromises
<1> QED BY <1>2, <1>3, <1>4, <1>5, <1>6, <1>7 DEF IInv

-----------------------------------------------------------------------------
(* UserDeleteTokens takes up a device *)

\* What a visit does with the device d of h.file, which names x and y.
TakesDevice(h, d, x, y) ==
    /\ h \in Calls /\ h.call = "visit" /\ VisitOK(h)
    /\ d \in h.value /\ d \in Device
    /\ x \in AccessToken /\ y \in RefreshToken \union {None}
    /\ files[h.file].devices[d] = [accessToken |-> x, refreshToken |-> y]
    /\ DOMAIN files' = File
    /\ \A f \in File : files'[f] = IF f = AccessAt(x) THEN None ELSE files[f]
    /\ \A c \in Calls : c # h => c \in Calls' /\ c.call = "unlock" /\ IsUser(c.file)
    /\ \A c \in Calls' :
          \/ c \in Calls /\ c.call = "unlock" /\ IsUser(c.file)
          \/ /\ y # None
             /\ c = [call |-> "delete", file |-> RefreshAt(y), value |-> None]
          \/ /\ h.value # {d}
             /\ c = [call |-> "visit", file |-> h.file, value |-> h.value \ {d}]
    /\ y # None => [call |-> "delete", file |-> RefreshAt(y), value |-> None] \in Calls'
    /\ h.value # {d} =>
          [call |-> "visit", file |-> h.file, value |-> h.value \ {d}] \in Calls'
    /\ UNCHANGED <<held, request, before, grantedTo, renews, reply, crashed>>

LEMMA Deletes ==
  ASSUME NEW f \in File
  PROVE  [call |-> "delete", file |-> f, value |-> None] \in Call
BY DEF Call

LEMMA VisitTakesDevice ==
  ASSUME IInv, Visit
  PROVE  /\ \E h, d, x, y : TakesDevice(h, d, x, y)
         /\ OrderInv'
         /\ request # None
<1> DEFINE h == Head(todo)
<1>1. todo \in Seq(Call) /\ Ordered(todo) /\ todo # <<>>
  BY DEF IInv, OrderInv, Visit
<1>2. /\ h \in Calls /\ h \in Call
      /\ Tail(todo) \in Seq(Call) /\ Ordered(Tail(todo))
      /\ Calls = CallsIn(Tail(todo)) \union {h}
      /\ \A b \in CallsIn(Tail(todo)) : Before(h, b)
  BY <1>1, HeadFirst DEF Calls
<1>3. h.call = "visit" /\ VisitOK(h)
  BY <1>2 DEF Visit, IInv, CallsInv
<1>4. PICK d \in h.value :
         /\ files' = [files EXCEPT ![AccessAt(files[h.file].devices[d].accessToken)] = None]
         /\ todo' = VisitRest(h.file, h.value \ {d}, files[h.file].devices[d])
                      \o Tail(todo)
  BY DEF Visit
<1>5. PICK u \in User : h.file = UserAt(u)
  BY <1>3 DEF VisitOK, IsUser
<1>6. d \in Device /\ Exists(h.file) /\ files[h.file].devices[d] # None
      /\ h.value \subseteq Device
  BY <1>3 DEF VisitOK
<1> DEFINE o == files[h.file].devices[d]
           x == o.accessToken
           y == o.refreshToken
           del == [call |-> "delete", file |-> RefreshAt(y), value |-> None]
           vis == [call |-> "visit", file |-> h.file, value |-> h.value \ {d}]
<1>7. o \in DeviceObject /\ o # None
  BY <1>5, <1>6, DeviceTypes DEF IInv
<1>8. /\ x \in AccessToken /\ y \in RefreshToken \union {None}
      /\ o = [accessToken |-> x, refreshToken |-> y]
  BY <1>7 DEF DeviceObject
<1> DEFINE A == DeleteRefresh(o)
           B == UserDeleteTokens(h.file[2], h.value \ {d})
           ca == IF y = None THEN {} ELSE {del}
           cb == IF h.value = {d} THEN {} ELSE {vis}
<1>9. A \in Seq(Call) /\ CallsIn(A) = ca /\ Ordered(A)
  <2>1. CASE y = None
    BY <2>1, NoCall DEF DeleteRefresh
  <2>2. CASE y # None
    <3>1. RefreshAt(y) \in File
      BY <1>8, <2>2, FileKinds
    <3>2. del \in Call
      BY <3>1, Deletes
    <3>3. A = <<del>>
      BY <1>7, <2>2 DEF DeleteRefresh, DbDelete
    <3> QED BY <2>2, <3>2, <3>3, One
  <2> QED BY <2>1, <2>2
<1>10. B \in Seq(Call) /\ CallsIn(B) = cb /\ Ordered(B)
  <2>1. CASE h.value = {d}
    BY <2>1, NoCall DEF UserDeleteTokens
  <2>2. CASE h.value # {d}
    <3>1. h.value \ {d} # {}
      BY <2>2
    <3>2. UserAt(h.file[2]) = h.file
      BY <1>5, FileKinds
    <3>3. h.file \in File
      BY <1>5, FileKinds
    <3>4. vis \in Call
      BY <1>6, <3>3 DEF Call
    <3>5. B = <<vis>>
      BY <3>1, <3>2 DEF UserDeleteTokens
    <3> QED BY <2>2, <3>4, <3>5, One
  <2> QED BY <2>1, <2>2
<1>11. \A c \in CallsIn(Tail(todo)) : c.call = "unlock" /\ IsUser(c.file)
  BY <1>2, <1>3 DEF Before
<1>12. /\ A \o B \in Seq(Call) /\ CallsIn(A \o B) = ca \union cb
       /\ Ordered(A \o B)
  <2>1. \A a \in ca, b \in cb : Before(a, b)
    BY <1>5, FileNames DEF Before
  <2> QED BY <1>9, <1>10, <2>1, Joined
<1>13. /\ todo' \in Seq(Call) /\ Calls' = ca \union cb \union CallsIn(Tail(todo))
       /\ Ordered(todo')
  <2>1. \A b \in CallsIn(Tail(todo)) : Before(del, b)
    BY <1>11, FileNames DEF Before, IsUser
  <2>2. \A b \in CallsIn(Tail(todo)) : Before(vis, b)
    BY <1>11 DEF Before
  <2>3. \A a \in ca \union cb, b \in CallsIn(Tail(todo)) : Before(a, b)
    BY <2>1, <2>2
  <2>4. todo' = (A \o B) \o Tail(todo)
    BY <1>4 DEF VisitRest
  <2> QED BY <1>2, <1>12, <2>3, <2>4, Joined DEF Calls
<1>14. \A c \in Calls : c # h => c \in CallsIn(Tail(todo))
  BY <1>2
<1>15. /\ DOMAIN files' = File
       /\ \A f \in File : files'[f] = IF f = AccessAt(x) THEN None ELSE files[f]
  BY <1>4 DEF IInv, TypeOK
<1>16. UNCHANGED <<held, request, before, grantedTo, renews, reply, crashed>>
  BY DEF Visit
<1>17. /\ y # None => del \in Calls'
       /\ h.value # {d} => vis \in Calls'
       /\ \A c \in Calls : c # h => c \in Calls' /\ c.call = "unlock" /\ IsUser(c.file)
  BY <1>11, <1>13, <1>14
<1>18. \A c \in Calls' :
          \/ c \in Calls /\ c.call = "unlock" /\ IsUser(c.file)
          \/ y # None /\ c = del
          \/ h.value # {d} /\ c = vis
  BY <1>2, <1>11, <1>13
<1>19. TakesDevice(h, d, x, y)
  BY <1>2, <1>3, <1>6, <1>8, <1>15, <1>16, <1>17, <1>18 DEF TakesDevice
<1>20. request # None
  BY <1>1 DEF IInv, TypeOK
<1>21. OrderInv'
  BY <1>13, <1>16, OrderedNext
<1> QED BY <1>19, <1>20, <1>21

\* A visit deletes one access token, and what else was to be deleted still is.
LEMMA DoomVisited ==
  ASSUME IInv, NEW h, NEW d, NEW x, NEW y, TakesDevice(h, d, x, y)
  PROVE  /\ Doom(AccessAt(x))
         /\ \A f \in TokenFile :
               /\ Doom(f)' => Doom(f)
               /\ Doom(f) /\ f # AccessAt(x) => Doom(f)'
               /\ HolderOf(f)' = HolderOf(f)
               /\ KnownFile(f)' <=> KnownFile(f) /\ f # AccessAt(x)
         /\ \A u \in User : files'[UserAt(u)] = files[UserAt(u)]
<1>1. PICK u \in User : h.file = UserAt(u)
  BY DEF TakesDevice, VisitOK, IsUser
<1>2. \A w \in User : UserAt(w) \in File /\ UserAt(w) # AccessAt(x)
  BY FileKinds, FileNames
<1>3. \A w \in User : files'[UserAt(w)] = files[UserAt(w)]
  BY <1>2 DEF TakesDevice
<1>4. \A f \in TokenFile : Names(files[h.file], d, f) <=>
         f = AccessAt(x) \/ (y # None /\ f = RefreshAt(y))
  <2>1. files[h.file].devices[d] = [accessToken |-> x, refreshToken |-> y]
        /\ files[h.file].devices[d] # None
    BY DEF TakesDevice, VisitOK
  <2>2. \A t \in AccessToken : Names(files[h.file], d, AccessAt(t)) <=> t = x
    BY <2>1, FileKinds DEF Names
  <2>3. \A r \in RefreshToken : Names(files[h.file], d, RefreshAt(r)) <=> r = y
    BY <2>1, FileKinds DEF Names
  <2> QED BY <2>2, <2>3, FileKinds, FileNames, NoneAssumption
<1>5. Doom(AccessAt(x))
  BY <1>4, FileKinds DEF TakesDevice, Doom
<1>6. ASSUME NEW f \in TokenFile
      PROVE  /\ Doom(f)' => Doom(f)
             /\ Doom(f) /\ f # AccessAt(x) => Doom(f)'
  <2>1. ASSUME Doom(f)' PROVE Doom(f)
    <3>1. PICK c \in Calls' :
            \/ c.call = "delete" /\ c.file = f
            \/ c.call = "visit" /\ \E e \in c.value : Names(files'[c.file], e, f)
      BY <2>1 DEF Doom, Names
    <3>2. CASE y # None /\ c = [call |-> "delete", file |-> RefreshAt(y), value |-> None]
      BY <1>4, <3>1, <3>2 DEF Doom, TakesDevice
    <3>3. CASE c = [call |-> "visit", file |-> h.file, value |-> h.value \ {d}]
      BY <1>1, <1>3, <3>1, <3>3 DEF Doom, TakesDevice
    <3>4. c.call # "unlock"
      BY <3>1
    <3> QED BY <3>2, <3>3, <3>4 DEF TakesDevice
  <2>2. ASSUME Doom(f), f # AccessAt(x) PROVE Doom(f)'
    <3>1. PICK e \in h.value : Names(files[h.file], e, f)
      BY <2>2 DEF Doom, TakesDevice
    <3>2. CASE e = d
      BY <1>4, <2>2, <3>1, <3>2 DEF Doom, TakesDevice
    <3>3. CASE e # d
      <4>1. [call |-> "visit", file |-> h.file, value |-> h.value \ {d}] \in Calls'
        BY <3>3 DEF TakesDevice
      <4>2. Names(files'[h.file], e, f)
        BY <1>1, <1>3, <3>1
      <4> QED BY <3>3, <4>1, <4>2 DEF Doom, Names
    <3> QED BY <3>2, <3>3
  <2> QED BY <2>1, <2>2
<1>7. \A f \in TokenFile : HolderOf(f)' = HolderOf(f)
  BY DEF HolderOf, TakesDevice
<1>8. \A f \in TokenFile : KnownFile(f)' <=> KnownFile(f) /\ f # AccessAt(x)
  BY <1>7, FileKinds DEF KnownFile, Exists, TakesDevice
<1> QED BY <1>3, <1>5, <1>6, <1>7, <1>8

LEMMA VisitKeepsFiles ==
  ASSUME IInv, NEW h, NEW d, NEW x, NEW y, TakesDevice(h, d, x, y)
  PROVE  NamedInv' /\ AccessInv' /\ RefreshInv' /\ DeviceInv' /\ TwinInv'
<1>1. /\ \A u \in User : files'[UserAt(u)] = files[UserAt(u)]
      /\ \A f \in TokenFile :
            /\ HolderOf(f)' = HolderOf(f)
            /\ KnownFile(f)' <=> KnownFile(f) /\ f # AccessAt(x)
  BY DoomVisited
<1>2. UNCHANGED <<request, grantedTo, renews>>
  BY DEF TakesDevice
<1>3. \A f \in TokenFile :
         files'[f] # None => files[f] # None /\ files'[f] = files[f]
  BY FileKinds DEF TakesDevice
<1>4. NamedInv'
  <2> SUFFICES ASSUME NEW f \in TokenFile, KnownFile(f)'
               PROVE  /\ files'[UserAt(HolderOf(f).user)] # None
                      /\ Names(files'[UserAt(HolderOf(f).user)], HolderOf(f).device, f)
    BY <1>1 DEF NamedInv, Names, Exists
  <2>1. KnownFile(f) /\ HolderOf(f).user \in User
    BY <1>1, Holders DEF KnownFile, IInv
  <2> QED BY <1>1, <2>1 DEF IInv, NamedInv, Exists
<1>5. AccessInv'
  <2> SUFFICES ASSUME NEW t \in AccessToken, Known(t)'
               PROVE  AccessIs(files'[AccessAt(t)], grantedTo[t])
    BY <1>2 DEF AccessInv, AccessIs
  <2>1. files'[AccessAt(t)] = files[AccessAt(t)] /\ Known(t)
    BY <1>2, <1>3, FileKinds DEF Known, Exists
  <2> QED BY <2>1 DEF IInv, AccessInv
<1>6. RefreshInv'
  <2> SUFFICES ASSUME NEW r \in RefreshToken, KnownRefresh(r)',
                      NEW t, t = files'[RefreshAt(r)].refreshes
               PROVE  /\ t \in AccessToken
                      /\ files'[AccessAt(t)] # None =>
                            AccessIs(files'[AccessAt(t)], renews[r])
    BY <1>2 DEF RefreshInv, AccessIs, Exists
  <2>1. files'[RefreshAt(r)] = files[RefreshAt(r)] /\ KnownRefresh(r)
    BY <1>2, <1>3, FileKinds DEF KnownRefresh, Exists
  <2>2. t \in AccessToken
        /\ (files[AccessAt(t)] # None => AccessIs(files[AccessAt(t)], renews[r]))
    BY <2>1 DEF IInv, RefreshInv, Exists
  <2> QED BY <1>3, <2>2, FileKinds
<1>7. DeviceInv'
  <2> SUFFICES ASSUME NEW u \in User, NEW e \in Device, files'[UserAt(u)] # None,
                      NEW o, o = files'[UserAt(u)].devices[e], o # None
               PROVE  /\ files'[UserAt(u)].hasDevices
                      /\ files'[AccessAt(o.accessToken)] # None =>
                            AccessIs(files'[AccessAt(o.accessToken)],
                                     [user |-> u, device |-> e])
    BY DEF DeviceInv, AccessIs, Exists
  <2>1. /\ Exists(UserAt(u)) /\ o = files[UserAt(u)].devices[e]
        /\ files'[UserAt(u)] = files[UserAt(u)]
    BY <1>1 DEF Exists
  <2>2. /\ files[UserAt(u)].hasDevices
        /\ files[AccessAt(o.accessToken)] # None =>
              AccessIs(files[AccessAt(o.accessToken)], [user |-> u, device |-> e])
    BY <2>1 DEF IInv, DeviceInv, Exists
  <2>3. AccessAt(o.accessToken) \in TokenFile
    BY <2>1, DeviceTypes, FileKinds DEF IInv, DeviceObject
  <2> QED BY <1>3, <2>1, <2>2, <2>3
<1>8. TwinInv'
  <2> SUFFICES ASSUME NEW r \in RefreshToken, NEW t \in AccessToken,
                      KnownRefresh(r)', Known(t)', grantedTo[t] = renews[r]
               PROVE  files'[RefreshAt(r)].refreshes = t
    BY <1>2 DEF TwinInv
  <2>1. files'[RefreshAt(r)] = files[RefreshAt(r)] /\ KnownRefresh(r) /\ Known(t)
    BY <1>2, <1>3, FileKinds DEF KnownRefresh, Known, Exists
  <2> QED BY <2>1 DEF IInv, TwinInv
<1> QED BY <1>4, <1>5, <1>6, <1>7, <1>8

LEMMA VisitKeepsCalls ==
  ASSUME IInv, NEW h, NEW d, NEW x, NEW y, TakesDevice(h, d, x, y)
  PROVE  CallsInv' /\ LockInv' /\ DanglingInv'
<1>1. /\ \A u \in User : files'[UserAt(u)] = files[UserAt(u)]
      /\ \A f \in TokenFile :
            /\ Doom(f)' => Doom(f)
            /\ Doom(f) /\ f # AccessAt(x) => Doom(f)'
            /\ HolderOf(f)' = HolderOf(f)
            /\ KnownFile(f)' <=> KnownFile(f) /\ f # AccessAt(x)
  BY DoomVisited
<1>2. UNCHANGED <<request, held, crashed, grantedTo, renews>>
  BY DEF TakesDevice
<1>3. ASSUME NEW c \in Calls, c.call = "unlock", IsUser(c.file)
      PROVE  UnlockOK(c)'
  <2>1. UnlockOK(c)
    BY <1>3 DEF IInv, CallsInv
  <2>2. PICK u \in User : c.file = UserAt(u)
    BY <1>3 DEF IsUser
  <2>3. files'[c.file] = files[c.file]
    BY <1>1, <2>2
  <2>4. ASSUME NEW f \in TokenFile, KnownFile(f)', HolderOf(f).user = u
        PROVE  Names(c.value, HolderOf(f).device, f) \/ Doom(f)'
    BY <1>1, <2>1, <2>2, <2>4 DEF UnlockOK
  <2>5. /\ \A t \in AccessToken : c.file # AccessAt(t)
        /\ \A r \in RefreshToken : c.file # RefreshAt(r)
        /\ \A w \in User : c.file = UserAt(w) => w = u
    BY <2>2, FileNames
  <2>6. /\ c.value \in Content(c.file)
        /\ \A e \in Device : c.value.devices[e] # None =>
              /\ c.value.hasDevices
              /\ \/ /\ files'[c.file] # None
                    /\ Names(files'[c.file], e, AccessAt(c.value.devices[e].accessToken))
                 \/ /\ request.session = [user |-> u, device |-> e]
                    /\ request.reply.token = c.value.devices[e].accessToken
    BY <2>1, <2>2, <2>3 DEF UnlockOK, Exists
  <2> QED BY <1>1, <1>2, <2>4, <2>5, <2>6 DEF UnlockOK, Exists, Names
<1>4. CallsInv'
  <2> SUFFICES ASSUME NEW c \in Calls'
               PROVE  /\ c.call = "create" => CreateOK(c)'
                      /\ c.call = "unlock" => UnlockOK(c)'
                      /\ c.call = "delete" => c.file \in TokenFile /\ c.value = None
                      /\ c.call = "visit" => VisitOK(c)'
    BY DEF CallsInv
  <2>1. CASE c \in Calls /\ c.call = "unlock" /\ IsUser(c.file)
    BY <1>3, <2>1
  <2>2. CASE y # None /\ c = [call |-> "delete", file |-> RefreshAt(y), value |-> None]
    <3>1. RefreshAt(y) \in TokenFile
      BY <2>2, FileKinds DEF TakesDevice
    <3> QED BY <2>2, <3>1
  <2>3. CASE h.value # {d}
             /\ c = [call |-> "visit", file |-> h.file, value |-> h.value \ {d}]
    <3>1. VisitOK(h) /\ d \in h.value
      BY DEF TakesDevice
    <3>2. files'[h.file] = files[h.file]
      BY <1>1, <3>1 DEF VisitOK, IsUser
    <3> QED BY <2>3, <3>1, <3>2 DEF VisitOK, Exists
  <2> QED BY <2>1, <2>2, <2>3 DEF TakesDevice
<1>5. LockInv'
  <2>1. \A c \in Calls' : c.call \notin {"lock", "create"}
    BY DEF TakesDevice
  <2>2. \A f \in held' : Unlocks(f)' # {}
    BY <1>2 DEF IInv, LockInv, Unlocks, TakesDevice
  <2> QED BY <2>1, <2>2 DEF LockInv
<1>6. DanglingInv'
  <2> SUFFICES ASSUME ~crashed, NEW r \in RefreshToken, KnownRefresh(r)',
                      NEW t, t = files'[RefreshAt(r)].refreshes
               PROVE  \/ files'[AccessAt(t)] # None /\ ~Doom(AccessAt(t))'
                      \/ Doom(RefreshAt(r))'
    BY <1>2 DEF DanglingInv, Renamed, Exists
  <2>1. RefreshAt(r) \in TokenFile /\ RefreshAt(r) \in File /\ RefreshAt(r) # AccessAt(x)
    BY FileKinds, FileNames
  <2>2. files'[RefreshAt(r)] = files[RefreshAt(r)] /\ KnownRefresh(r)
    BY <1>2, <2>1 DEF KnownRefresh, Exists, TakesDevice
  <2>3. t \in AccessToken /\ AccessAt(t) \in TokenFile /\ AccessAt(t) \in File
    BY <2>2, FileKinds DEF IInv, RefreshInv
  <2>4. (Exists(AccessAt(t)) /\ ~Doom(AccessAt(t))) \/ Renamed(r)
    BY <2>2 DEF IInv, DanglingInv
  <2>5. Unlocks(RefreshAt(r)) = {}
    <3>1. \A c \in Calls : c.call = "unlock" => c # h /\ IsUser(c.file)
      BY DEF TakesDevice
    <3> QED BY <2>1, <3>1, FileKinds DEF Unlocks
  <2>6. CASE Exists(AccessAt(t)) /\ ~Doom(AccessAt(t))
    <3>1. AccessAt(t) # AccessAt(x)
      BY <2>6, DoomVisited
    <3>2. files'[AccessAt(t)] # None
      BY <2>3, <2>6, <3>1 DEF TakesDevice, Exists
    <3> QED BY <1>1, <2>3, <2>6, <3>2
  <2>7. CASE Doom(RefreshAt(r))
    BY <1>1, <2>1, <2>7
  <2> QED BY <2>4, <2>5, <2>6, <2>7 DEF Renamed
<1> QED BY <1>4, <1>5, <1>6

LEMMA VisitKeeps ==
  ASSUME IInv, Visit
  PROVE  IInv'
<1>1. PICK h, d, x, y : TakesDevice(h, d, x, y)
  BY VisitTakesDevice
<1>2. OrderInv' /\ request # None /\ UNCHANGED <<request, grantedTo, renews>>
  BY <1>1, VisitTakesDevice DEF TakesDevice
<1>3. TypeOK'
  <2>1. \A f \in File : files'[f] \in Content(f) \union {None}
    BY <1>1 DEF IInv, TypeOK, TakesDevice
  <2>2. \A i \in DOMAIN todo' : todo'[i].file \in File
    <3>1. \A s \in Seq(Call) : \A i \in DOMAIN s : s[i].file \in File
      BY CallsAreCalls DEF CallsIn, Call
    <3>2. todo' \in Seq(Call)
      BY <1>2 DEF OrderInv
    <3> QED BY <3>1, <3>2
  <2> QED BY <1>1, <1>2, <2>1, <2>2 DEF IInv, TypeOK, TakesDevice
<1>4. NamedInv' /\ AccessInv' /\ RefreshInv' /\ DeviceInv' /\ TwinInv'
  BY <1>1, VisitKeepsFiles
<1>5. CallsInv' /\ LockInv' /\ DanglingInv'
  BY <1>1, VisitKeepsCalls
<1>6. request.session = None
  BY <1>1, <1>2 DEF IInv, GrantInv, TakesDevice
<1>7. GrantInv'
  BY <1>2, <1>6 DEF GrantInv
<1>8. PromiseInv'
  <2>1. \A f \in TokenFile : KnownFile(f)' =>
           KnownFile(f) /\ HolderOf(f)' = HolderOf(f) /\ (Doom(f) => Doom(f)')
    BY <1>1, DoomVisited
  <2>2. \A u, ds : Revokes(u, ds) =>
           \A f \in TokenFile :
              KnownFile(f)' /\ HolderOf(f)'.user = u /\ HolderOf(f)'.device \in ds
                => Doom(f)'
    BY <2>1 DEF Revokes
  <2> SUFFICES ASSUME request.reply.status = 200 PROVE PromiseInv'
    BY <1>2 DEF PromiseInv
  <2> DEFINE u == request.reply.user
             t == request.reply.token
  <2>3. CASE request.reply.route = "logout"
    <3>1. Revokes(u, {grantedTo[t].device})
      BY <1>2, <2>3 DEF IInv, PromiseInv
    <3>2. \A f \in TokenFile :
             KnownFile(f)' /\ HolderOf(f)'.user = u
               /\ HolderOf(f)'.device = grantedTo[t].device => Doom(f)'
      BY <2>2, <3>1
    <3>3. Revokes(u, {grantedTo[t].device})'
      BY <1>2, <3>2 DEF Revokes
    <3> QED BY <1>2, <2>3, <3>3 DEF PromiseInv
  <2>4. CASE request.reply.route \in {"logout_all", "deactivate"}
    BY <1>2, <2>2, <2>4 DEF IInv, PromiseInv, Revokes
  <2>5. CASE request.reply.route = "password_logout"
    <3>1. /\ t \in AccessToken /\ Known(t) /\ ~Doom(AccessAt(t))
          /\ Revokes(u, Device \ {grantedTo[t].device})
      BY <1>2, <2>5 DEF IInv, PromiseInv
    <3>2. \A f \in TokenFile :
             /\ KnownFile(f)' /\ HolderOf(f)'.user = u
             /\ HolderOf(f)'.device \in Device \ {grantedTo[t].device}
             => Doom(f)'
      BY <2>2, <3>1
    <3>3. Revokes(u, Device \ {grantedTo[t].device})'
      BY <1>2, <3>2 DEF Revokes
    <3> DEFINE g == AccessAt(t)
    <3>4. g \in TokenFile /\ KnownFile(g)
      BY <3>1, FileKinds, Holders DEF IInv
    <3>5. \A f \in TokenFile : KnownFile(f) /\ ~Doom(f) =>
             f # AccessAt(x) /\ files'[f] # None /\ (Doom(f)' => Doom(f))
      BY <1>1, DoomVisited, FileKinds DEF TakesDevice, KnownFile, Exists
    <3>6. Known(t)'
      BY <1>2, <3>1, <3>4, <3>5 DEF Known, Exists
    <3>7. ~Doom(g)'
      <4>1. \A f \in TokenFile : Doom(f)' => Doom(f)
        BY <1>1, DoomVisited
      <4> QED BY <1>2, <3>1, <3>4, <4>1 DEF Doom
    <3> QED BY <1>2, <2>5, <3>1, <3>3, <3>6, <3>7 DEF PromiseInv
  <2>6. CASE request.reply.route \in {"login", "refresh"}
    BY <1>2, <2>6 DEF IInv, PromiseInv
  <2>7. CASE request.reply.route \notin {"logout", "logout_all", "deactivate",
                                         "password_logout", "login", "refresh"}
    BY <1>2, <2>7 DEF PromiseInv
  <2> QED BY <2>3, <2>4, <2>5, <2>6, <2>7
<1>9. LocksReturned' /\ AnswersKeepPromises'
  BY <1>2 DEF LocksReturned, AnswersKeepPromises
<1> QED BY <1>2, <1>3, <1>4, <1>5, <1>7, <1>8, <1>9 DEF IInv

-----------------------------------------------------------------------------
(* The answer *)

LEMMA NothingToCome ==
  ASSUME todo = <<>>
  PROVE  /\ Calls = {}
         /\ \A f : ~Doom(f)
         /\ \A f : Unlocks(f) = {}
BY NoCall DEF Calls, Doom, Unlocks

\* The tokens an answer hands out are named by the device they are for.
LEMMA HandsOut ==
  ASSUME IInv, Answer, request.session # None,
         NEW t, t = request.reply.token,
         NEW r, r = request.refreshToken,
         NEW s, s = request.session
  PROVE  /\ s \in Session /\ t \in AccessToken /\ r \in RefreshToken \union {None}
         /\ grantedTo[t] = None
         /\ grantedTo' = [grantedTo EXCEPT ![t] = s]
         /\ renews' = [x \in RefreshToken |-> IF x = r THEN s ELSE renews[x]]
         /\ Exists(AccessAt(t)) /\ AccessIs(files[AccessAt(t)], s)
         /\ Exists(UserAt(s.user)) /\ Installs(files[UserAt(s.user)])
         /\ r # None => /\ renews[r] = None /\ request.reply.route = "login"
                        /\ files[RefreshAt(r)].refreshes = t
         /\ \/ request.reply.route = "login"
            \/ \E x \in RefreshToken : /\ KnownRefresh(x) /\ renews[x] = s
                                       /\ files[RefreshAt(x)].refreshes = t
<1>1. todo = <<>> /\ request # None
  BY DEF Answer
<1>2. \A f : Unlocks(f) = {}
  BY <1>1, NothingToCome
<1>3. request \in UnderWay
  BY <1>1 DEF IInv, TypeOK
<1>4. r \in RefreshToken \union {None}
  BY <1>3 DEF UnderWay
<1>5. /\ grantedTo' = [grantedTo EXCEPT ![t] = s]
      /\ renews' = [x \in RefreshToken |-> IF x = r THEN s ELSE renews[x]]
  BY DEF Answer
<1> QED BY <1>1, <1>2, <1>4, <1>5 DEF IInv, GrantInv

\* The working tokens of a session are those its device names.
LEMMA TwoNames ==
  ASSUME IInv
  PROVE  /\ \A t \in AccessToken : Known(t) =>
               files[UserAt(grantedTo[t].user)].devices[grantedTo[t].device].accessToken = t
         /\ \A r \in RefreshToken : KnownRefresh(r) =>
               files[UserAt(renews[r].user)].devices[renews[r].device].refreshToken = r
<1>1. \A f \in TokenFile : KnownFile(f) =>
         Names(files[UserAt(HolderOf(f).user)], HolderOf(f).device, f)
  BY DEF IInv, NamedInv
<1> QED BY <1>1, Holders, FileKinds DEF IInv, Names

\* Afterwards a client holds what it held before, and the new tokens.
LEMMA HeldAfterAnswer ==
  ASSUME IInv, Answer, NEW f \in TokenFile, KnownFile(f)'
  PROVE  \/ KnownFile(f) /\ HolderOf(f)' = HolderOf(f)
         \/ /\ request.session # None
            /\ \/ f = AccessAt(request.reply.token)
               \/ request.refreshToken # None /\ f = RefreshAt(request.refreshToken)
            /\ HolderOf(f)' = request.session
            /\ Names(files[UserAt(request.session.user)], request.session.device, f)
<1>1. UNCHANGED files
  BY DEF Answer
<1>2. Exists(f) /\ HolderOf(f)' # None
  BY <1>1 DEF KnownFile, Exists
<1>3. CASE request.session = None
  <2>1. UNCHANGED <<grantedTo, renews>>
    BY <1>3 DEF Answer
  <2> QED BY <1>2, <2>1 DEF HolderOf, KnownFile
<1>4. CASE request.session # None
  <2> DEFINE s == request.session
             t == request.reply.token
             r == request.refreshToken
  <2>1. /\ s \in Session /\ t \in AccessToken /\ r \in RefreshToken \union {None}
        /\ grantedTo' = [grantedTo EXCEPT ![t] = s]
        /\ renews' = [x \in RefreshToken |-> IF x = r THEN s ELSE renews[x]]
        /\ Installs(files[UserAt(s.user)])
        /\ r # None => request.reply.route = "login"
    BY <1>4, HandsOut
  <2>2. ASSUME NEW x \in AccessToken, f = AccessAt(x)
        PROVE  /\ HolderOf(f) = grantedTo[x] /\ HolderOf(f)' = grantedTo'[x]
               /\ f[1] = "access" /\ f[2] = x
    BY <2>2, FileKinds DEF HolderOf
  <2>3. ASSUME NEW x \in RefreshToken, f = RefreshAt(x)
        PROVE  /\ HolderOf(f) = renews[x] /\ HolderOf(f)' = renews'[x]
               /\ f[1] = "refresh" /\ f[2] = x
    BY <2>3, FileKinds DEF HolderOf
  <2>4. CASE f = AccessAt(t)
    BY <1>4, <2>1, <2>2, <2>4 DEF Installs, Names, IInv, TypeOK
  <2>5. CASE r # None /\ f = RefreshAt(r)
    BY <1>4, <2>1, <2>3, <2>5 DEF Installs, Names
  <2>6. CASE f # AccessAt(t) /\ ~(r # None /\ f = RefreshAt(r))
    <3>1. ASSUME NEW x \in AccessToken, f = AccessAt(x)
          PROVE  HolderOf(f)' = HolderOf(f)
      BY <2>1, <2>2, <2>6, <3>1 DEF IInv, TypeOK
    <3>2. ASSUME NEW x \in RefreshToken, f = RefreshAt(x)
          PROVE  HolderOf(f)' = HolderOf(f)
      BY <2>1, <2>3, <2>6, <3>2, NoneAssumption
    <3> QED BY <1>2, <3>1, <3>2, FileKinds DEF KnownFile
  <2> QED BY <2>4, <2>5, <2>6
<1> QED BY <1>3, <1>4

LEMMA AnswerKeepsFiles ==
  ASSUME IInv, Answer
  PROVE  /\ NamedInv' /\ AccessInv' /\ RefreshInv' /\ DeviceInv' /\ TwinInv'
         /\ DanglingInv'
<1> DEFINE s == request.session
           t == request.reply.token
           r == request.refreshToken
<1>1. UNCHANGED <<files, todo, crashed>> /\ todo = <<>>
  BY DEF Answer
<1>2. \A f \in TokenFile : KnownFile(f)' =>
         \/ KnownFile(f) /\ HolderOf(f)' = HolderOf(f)
         \/ /\ s # None
            /\ f = AccessAt(t) \/ (r # None /\ f = RefreshAt(r))
            /\ HolderOf(f)' = s
            /\ Names(files[UserAt(s.user)], s.device, f)
  BY HeldAfterAnswer
<1>3. s # None =>
         /\ s \in Session /\ t \in AccessToken
         /\ Exists(AccessAt(t)) /\ AccessIs(files[AccessAt(t)], s)
         /\ Exists(UserAt(s.user))
         /\ r # None => files[RefreshAt(r)].refreshes = t
  BY HandsOut
<1>4. NamedInv'
  <2> SUFFICES ASSUME NEW f \in TokenFile, KnownFile(f)'
               PROVE  /\ files[UserAt(HolderOf(f)'.user)] # None
                      /\ Names(files[UserAt(HolderOf(f)'.user)], HolderOf(f)'.device, f)
    BY <1>1 DEF NamedInv, Names, Exists
  <2>1. CASE KnownFile(f) /\ HolderOf(f)' = HolderOf(f)
    BY <2>1 DEF IInv, NamedInv, Exists
  <2>2. CASE s # None /\ HolderOf(f)' = s /\ Names(files[UserAt(s.user)], s.device, f)
    BY <1>3, <2>2 DEF Exists
  <2> QED BY <1>2, <2>1, <2>2
<1>5. AccessInv'
  <2> SUFFICES ASSUME NEW x \in AccessToken, Known(x)'
               PROVE  AccessIs(files[AccessAt(x)], grantedTo'[x])
    BY <1>1 DEF AccessInv, AccessIs
  <2>1. /\ AccessAt(x) \in TokenFile /\ KnownFile(AccessAt(x))'
        /\ HolderOf(AccessAt(x)) = grantedTo[x] /\ HolderOf(AccessAt(x))' = grantedTo'[x]
    BY FileKinds DEF KnownFile, Known, HolderOf
  <2>2. CASE KnownFile(AccessAt(x)) /\ HolderOf(AccessAt(x))' = HolderOf(AccessAt(x))
    <3>1. Known(x)
      BY <2>1, <2>2 DEF Known, KnownFile
    <3> QED BY <2>1, <2>2, <3>1 DEF IInv, AccessInv
  <2>3. CASE s # None /\ AccessAt(x) = AccessAt(t) /\ HolderOf(AccessAt(x))' = s
    BY <1>3, <2>1, <2>3
  <2> QED BY <1>2, <2>1, <2>2, <2>3, FileNames
<1>6. ASSUME NEW x \in RefreshToken, KnownRefresh(x)'
      PROVE  \/ KnownRefresh(x) /\ renews'[x] = renews[x]
             \/ s # None /\ renews'[x] = s /\ r # None /\ x = r
  <2>1. /\ RefreshAt(x) \in TokenFile /\ KnownFile(RefreshAt(x))'
        /\ HolderOf(RefreshAt(x)) = renews[x] /\ HolderOf(RefreshAt(x))' = renews'[x]
    BY <1>6, FileKinds DEF KnownFile, KnownRefresh, HolderOf
  <2>2. CASE KnownFile(RefreshAt(x)) /\ HolderOf(RefreshAt(x))' = HolderOf(RefreshAt(x))
    BY <2>1, <2>2 DEF KnownRefresh, KnownFile
  <2>3. CASE s # None /\ r # None /\ RefreshAt(x) = RefreshAt(r)
             /\ HolderOf(RefreshAt(x))' = s
    BY <2>1, <2>3, FileNames
  <2> QED BY <1>2, <2>1, <2>2, <2>3, FileNames
<1>7. RefreshInv'
  <2> SUFFICES ASSUME NEW x \in RefreshToken, KnownRefresh(x)'
               PROVE  /\ files[RefreshAt(x)].refreshes \in AccessToken
                      /\ files[AccessAt(files[RefreshAt(x)].refreshes)] # None =>
                            AccessIs(files[AccessAt(files[RefreshAt(x)].refreshes)],
                                     renews'[x])
    BY <1>1 DEF RefreshInv, AccessIs, Exists
  <2>1. CASE KnownRefresh(x) /\ renews'[x] = renews[x]
    BY <2>1 DEF IInv, RefreshInv, Exists
  <2>2. CASE s # None /\ renews'[x] = s /\ r # None /\ x = r
    BY <1>3, <2>2
  <2> QED BY <1>6, <2>1, <2>2
<1>8. DanglingInv'
  <2> SUFFICES ASSUME ~crashed, NEW x \in RefreshToken, KnownRefresh(x)'
               PROVE  files[AccessAt(files[RefreshAt(x)].refreshes)] # None
    BY <1>1, NothingToCome DEF DanglingInv, Exists, Doom, Calls, Renamed, Unlocks
  <2>1. CASE KnownRefresh(x)
    BY <1>1, <2>1, NothingToCome DEF IInv, DanglingInv, Renamed, Exists
  <2>2. CASE s # None /\ r # None /\ x = r
    BY <1>3, <2>2 DEF Exists
  <2> QED BY <1>6, <2>1, <2>2
<1>9. DeviceInv'
  BY <1>1 DEF IInv, DeviceInv, Exists, AccessIs
<1>10. ASSUME NEW x \in AccessToken, Known(x)'
       PROVE  \/ Known(x) /\ grantedTo'[x] = grantedTo[x]
              \/ s # None /\ grantedTo'[x] = s /\ x = t
  <2>1. /\ AccessAt(x) \in TokenFile /\ KnownFile(AccessAt(x))'
        /\ HolderOf(AccessAt(x)) = grantedTo[x] /\ HolderOf(AccessAt(x))' = grantedTo'[x]
    BY <1>10, FileKinds DEF KnownFile, Known, HolderOf
  <2>2. CASE KnownFile(AccessAt(x)) /\ HolderOf(AccessAt(x))' = HolderOf(AccessAt(x))
    BY <2>1, <2>2 DEF Known, KnownFile
  <2> QED BY <1>2, <2>1, <2>2, FileNames
<1>11. TwinInv'
  <2> SUFFICES ASSUME NEW y \in RefreshToken, NEW x \in AccessToken,
                      KnownRefresh(y)', Known(x)', grantedTo'[x] = renews'[y]
               PROVE  files[RefreshAt(y)].refreshes = x
    BY <1>1 DEF TwinInv
  <2>1. CASE KnownRefresh(y) /\ renews'[y] = renews[y]
             /\ Known(x) /\ grantedTo'[x] = grantedTo[x]
    BY <2>1 DEF IInv, TwinInv
  <2>2. CASE s # None /\ renews'[y] = s /\ r # None /\ y = r /\ x = t
    BY <1>3, <2>2
  <2>3. ASSUME s # None, KnownRefresh(y), renews[y] = s, x = t
        PROVE  files[RefreshAt(y)].refreshes = x
    <3>1. files[UserAt(s.user)].devices[s.device].refreshToken = y
      BY <2>3, TwoNames
    <3>2. CASE request.reply.route = "login"
      <4>1. r = y /\ r # None
        BY <2>3, <3>1, <3>2, HandsOut, NoneAssumption DEF Installs
      <4> QED BY <1>3, <2>3, <4>1
    <3>3. CASE \E z \in RefreshToken : /\ KnownRefresh(z) /\ renews[z] = s
                                       /\ files[RefreshAt(z)].refreshes = t
      BY <2>3, <3>1, <3>3, TwoNames
    <3> QED BY <2>3, <3>2, <3>3, HandsOut
  <2>4. ASSUME s # None, Known(x), grantedTo[x] = s
        PROVE  FALSE
    <3>1. files[UserAt(s.user)].devices[s.device].accessToken = x
      BY <2>4, TwoNames
    <3> QED BY <2>4, <3>1, HandsOut DEF Installs, Known
  <2> QED BY <1>6, <1>10, <2>1, <2>2, <2>3, <2>4
<1> QED BY <1>4, <1>5, <1>7, <1>8, <1>9, <1>11

\* What the request had to revoke is void when its client hears of it.
LEMMA AnswerKeepsPromises ==
  ASSUME IInv, Answer
  PROVE  AnswersKeepPromises'
<1> DEFINE s == request.session
           t == request.reply.token
           u == request.reply.user
<1> SUFFICES ASSUME request.reply.status = 200
             PROVE  AnswersKeepPromises'
  BY DEF AnswersKeepPromises, Answer
<1>1. /\ UNCHANGED files /\ reply' = request.reply /\ request' = None
      /\ todo = <<>> /\ request # None
  BY DEF Answer
<1>2. s # None => request.reply.route \in {"login", "refresh"}
  BY <1>1 DEF IInv, GrantInv
<1>3. ASSUME NEW ds, s = None, Revokes(u, ds)
      PROVE  /\ \A x \in AccessToken :
                  Known(x)' => ~(grantedTo'[x].user = u /\ grantedTo'[x].device \in ds)
             /\ \A x \in RefreshToken :
                  KnownRefresh(x)' => ~(renews'[x].user = u /\ renews'[x].device \in ds)
  <2>1. UNCHANGED <<grantedTo, renews>>
    BY <1>3 DEF Answer
  <2>2. \A f \in TokenFile :
           ~(KnownFile(f) /\ HolderOf(f).user = u /\ HolderOf(f).device \in ds)
    BY <1>1, <1>3, NothingToCome DEF Revokes
  <2>3. \A x \in AccessToken :
           Known(x) => ~(grantedTo[x].user = u /\ grantedTo[x].device \in ds)
    BY <2>2, Holders, FileKinds DEF IInv
  <2>4. \A x \in RefreshToken :
           KnownRefresh(x) => ~(renews[x].user = u /\ renews[x].device \in ds)
    BY <2>2, Holders, FileKinds DEF IInv
  <2> QED BY <1>1, <2>1, <2>3, <2>4 DEF Known, KnownRefresh, Exists
<1>4. CASE request.reply.route = "logout"
  <2>1. s = None /\ Revokes(u, {grantedTo[t].device}) /\ UNCHANGED grantedTo
    BY <1>1, <1>2, <1>4 DEF IInv, PromiseInv, Answer
  <2>2. /\ \A x \in AccessToken :
              Known(x)' => ~(grantedTo'[x].user = u
                               /\ grantedTo'[x].device \in {grantedTo[t].device})
        /\ \A x \in RefreshToken :
              KnownRefresh(x)' => ~(renews'[x].user = u
                                      /\ renews'[x].device \in {grantedTo[t].device})
    BY <1>3, <2>1
  <2>3. reply'.token = t /\ reply'.user = u /\ reply'.route = "logout"
    BY <1>1, <1>4
  <2>4. Revoked(reply.user, {grantedTo[reply.token].device})'
    BY <2>1, <2>2, <2>3 DEF Revoked
  <2> QED BY <2>3, <2>4 DEF AnswersKeepPromises
<1>5. CASE request.reply.route \in {"logout_all", "deactivate"}
  <2>1. s = None /\ Revokes(u, Device)
    BY <1>1, <1>2, <1>5 DEF IInv, PromiseInv
  <2> QED BY <1>1, <1>3, <1>5, <2>1 DEF AnswersKeepPromises, Revoked
<1>6. CASE request.reply.route = "password_logout"
  <2>1. /\ s = None /\ Known(t) /\ UNCHANGED grantedTo
        /\ Revokes(u, Device \ {grantedTo[t].device})
    BY <1>1, <1>2, <1>6 DEF IInv, PromiseInv, Answer
  <2>2. files'[AccessAt(t)] # None /\ grantedTo'[t] # None
    BY <1>1, <2>1 DEF Known, Exists
  <2> QED BY <1>1, <1>3, <1>6, <2>1, <2>2
          DEF AnswersKeepPromises, Revoked, Known, Exists
<1>7. CASE request.reply.route \in {"login", "refresh"}
  <2>1. s # None
    BY <1>1, <1>7 DEF IInv, PromiseInv
  <2>2. /\ t \in AccessToken /\ grantedTo' = [grantedTo EXCEPT ![t] = s]
        /\ Installs(files[UserAt(s.user)])
    BY <2>1, HandsOut
  <2>3. ASSUME NEW x \in AccessToken \ {t}, Known(x)', grantedTo'[x] = grantedTo'[t]
        PROVE  FALSE
    <3>1. grantedTo[x] = s /\ Known(x)
      BY <1>1, <2>2, <2>3 DEF Known, Exists, IInv, TypeOK
    <3>2. /\ AccessAt(x) \in TokenFile /\ HolderOf(AccessAt(x)) = s
          /\ KnownFile(AccessAt(x))
      BY <3>1, FileKinds, Holders DEF IInv
    <3>3. Names(files[UserAt(s.user)], s.device, AccessAt(x))
      BY <3>2 DEF IInv, NamedInv
    <3> QED BY <2>2, <2>3, <3>3, FileKinds DEF Names, Installs
  <2> QED BY <1>1, <1>7, <2>3 DEF AnswersKeepPromises
<1>8. CASE request.reply.route \notin {"logout", "logout_all", "deactivate",
                                      "password_logout", "login", "refresh"}
  BY <1>1, <1>8 DEF AnswersKeepPromises
<1> QED BY <1>4, <1>5, <1>6, <1>7, <1>8

LEMMA AnswerKeeps ==
  ASSUME IInv, Answer
  PROVE  IInv'
<1>1. /\ UNCHANGED <<files, held, todo, crashed>> /\ request' = None
      /\ todo = <<>> /\ request # None /\ reply' = request.reply
  BY DEF Answer
<1>2. held = {}
  BY <1>1, NothingToCome DEF IInv, LockInv
<1>3. /\ grantedTo' \in [AccessToken -> Session \union {None}]
      /\ renews' \in [RefreshToken -> Session \union {None}]
  <2>1. CASE request.session = None
    BY <2>1 DEF IInv, TypeOK, Answer
  <2>2. CASE request.session # None
    BY <2>2, HandsOut DEF IInv, TypeOK
  <2> QED BY <2>1, <2>2
<1>4. TypeOK'
  BY <1>1, <1>3 DEF IInv, TypeOK, UnderWay
<1>5. /\ NamedInv' /\ AccessInv' /\ RefreshInv' /\ DeviceInv' /\ TwinInv'
      /\ DanglingInv'
  BY AnswerKeepsFiles
<1>6. CallsInv' /\ OrderInv' /\ LockInv'
  <2>1. Calls = {} /\ Calls' = {}
    BY <1>1, NothingToCome DEF Calls
  <2>2. OrderInv'
    BY <1>1, NoOrder
  <2> QED BY <1>1, <1>2, <2>1, <2>2 DEF CallsInv, LockInv
<1>7. GrantInv' /\ PromiseInv' /\ LocksReturned'
  BY <1>1, <1>2 DEF GrantInv, PromiseInv, LocksReturned
<1> QED BY <1>4, <1>5, <1>6, <1>7, AnswerKeepsPromises DEF IInv

-----------------------------------------------------------------------------
(* Crashes and the passing of time *)

LEMMA CrashKeeps ==
  ASSUME IInv, Crash
  PROVE  IInv'
<1>1. /\ UNCHANGED <<files, grantedTo, renews>> /\ request' = None /\ todo' = <<>>
      /\ held' = {} /\ reply' = NoReply /\ crashed' = TRUE
  BY DEF Crash
<1>2. Calls' = {} /\ OrderInv'
  BY <1>1, NoCall, NoOrder DEF Calls, CallsIn
<1>3. TypeOK'
  BY <1>1 DEF IInv, TypeOK, NoReply, Reply
<1>4. NamedInv' /\ AccessInv'
  BY <1>1 DEF IInv, NamedInv, AccessInv, KnownFile, HolderOf, Known, Exists, Names, AccessIs
<1>5. RefreshInv' /\ DeviceInv' /\ TwinInv'
  BY <1>1 DEF IInv, RefreshInv, DeviceInv, TwinInv, KnownRefresh, Known, Exists, AccessIs
<1>6. CallsInv' /\ LockInv' /\ DanglingInv'
  BY <1>1, <1>2 DEF CallsInv, LockInv, DanglingInv
<1>7. GrantInv' /\ PromiseInv' /\ LocksReturned' /\ AnswersKeepPromises'
  BY <1>1 DEF GrantInv, PromiseInv, LocksReturned, AnswersKeepPromises, NoReply
<1> QED BY <1>2, <1>3, <1>4, <1>5, <1>6, <1>7 DEF IInv

LEMMA ExpireKeeps ==
  ASSUME IInv, NEW t \in AccessToken, Expire(t)
  PROVE  IInv'
<1>1. /\ UNCHANGED <<held, request, todo, grantedTo, renews, reply, crashed>>
      /\ request = None /\ todo = <<>>
  BY DEF Expire, IInv, TypeOK
<1>2. AccessAt(t) \in File /\ files[AccessAt(t)] \in AccessFile
  BY FileKinds DEF IInv, TypeOK, Expire, Exists, Content
<1> DEFINE v == [files[AccessAt(t)] EXCEPT !.expires = "past"]
<1>3. /\ v \in AccessFile /\ v # None
      /\ v.user = files[AccessAt(t)].user /\ v.device = files[AccessAt(t)].device
  BY <1>2, NoneAssumption DEF AccessFile
<1>4. /\ DOMAIN files' = File
      /\ \A f \in File : files'[f] = IF f = AccessAt(t) THEN v ELSE files[f]
      /\ files[AccessAt(t)] # None
  BY <1>2 DEF Expire, IInv, TypeOK, Exists
<1>5. /\ \A f \in File : Exists(f)' <=> Exists(f)
      /\ \A u \in User : files'[UserAt(u)] = files[UserAt(u)]
      /\ \A r \in RefreshToken : files'[RefreshAt(r)] = files[RefreshAt(r)]
      /\ \A x \in AccessToken : /\ files'[AccessAt(x)].user = files[AccessAt(x)].user
                                /\ files'[AccessAt(x)].device = files[AccessAt(x)].device
  BY <1>3, <1>4, FileKinds, FileNames DEF Exists
<1>6. \A f \in TokenFile : HolderOf(f)' = HolderOf(f) /\ (KnownFile(f)' <=> KnownFile(f))
  BY <1>1, <1>5, FileKinds DEF HolderOf, KnownFile
<1>7. TypeOK'
  <2>1. v \in Content(AccessAt(t))
    BY <1>3, FileKinds DEF Content
  <2>2. \A f \in File : files'[f] \in Content(f) \union {None}
    BY <1>4, <2>1 DEF IInv, TypeOK
  <2> QED BY <1>1, <1>4, <2>2 DEF IInv, TypeOK
<1>8. NamedInv'
  <2> SUFFICES ASSUME NEW f \in TokenFile, KnownFile(f)'
               PROVE  /\ files'[UserAt(HolderOf(f).user)] # None
                      /\ Names(files'[UserAt(HolderOf(f).user)], HolderOf(f).device, f)
    BY <1>6 DEF NamedInv, Names, Exists
  <2>1. KnownFile(f) /\ HolderOf(f).user \in User
    BY <1>6, Holders DEF KnownFile, IInv
  <2> QED BY <1>5, <2>1 DEF IInv, NamedInv, Exists
<1>9. \A x \in AccessToken : Exists(AccessAt(x))' <=> Exists(AccessAt(x))
  BY <1>5, FileKinds
<1>10. AccessInv'
  BY <1>1, <1>5, <1>9 DEF IInv, AccessInv, Known, AccessIs
<1>11. RefreshInv' /\ DanglingInv'
  <2> SUFFICES ASSUME NEW r \in RefreshToken, KnownRefresh(r)',
                      NEW x, x = files'[RefreshAt(r)].refreshes
               PROVE  /\ x \in AccessToken
                      /\ files'[AccessAt(x)] # None => AccessIs(files'[AccessAt(x)], renews[r])
                      /\ ~crashed => files'[AccessAt(x)] # None
    BY <1>1, NothingToCome
       DEF RefreshInv, DanglingInv, AccessIs, Exists, Doom, Calls, Renamed, Unlocks
  <2>1. KnownRefresh(r) /\ x = files[RefreshAt(r)].refreshes
    BY <1>1, <1>5, FileKinds DEF KnownRefresh
  <2>2. x \in AccessToken /\ (Exists(AccessAt(x)) => AccessIs(files[AccessAt(x)], renews[r]))
    BY <2>1 DEF IInv, RefreshInv
  <2>3. ~crashed => Exists(AccessAt(x))
    BY <1>1, <2>1, NothingToCome DEF IInv, DanglingInv, Renamed
  <2>4. Exists(AccessAt(x)) <=> files'[AccessAt(x)] # None
    BY <1>9, <2>2 DEF Exists
  <2> QED BY <1>5, <2>2, <2>3, <2>4 DEF AccessIs
<1>15. TwinInv'
  BY <1>1, <1>5, <1>9, FileKinds DEF IInv, TwinInv, KnownRefresh, Known
<1>12. DeviceInv'
  <2> SUFFICES ASSUME NEW u \in User, NEW e \in Device, files'[UserAt(u)] # None,
                      NEW o, o = files'[UserAt(u)].devices[e], o # None
               PROVE  /\ files'[UserAt(u)].hasDevices
                      /\ files'[AccessAt(o.accessToken)] # None =>
                            AccessIs(files'[AccessAt(o.accessToken)],
                                     [user |-> u, device |-> e])
    BY DEF DeviceInv, AccessIs, Exists
  <2>1. /\ Exists(UserAt(u)) /\ o = files[UserAt(u)].devices[e]
        /\ files'[UserAt(u)] = files[UserAt(u)]
    BY <1>5 DEF Exists
  <2>2. /\ files[UserAt(u)].hasDevices
        /\ Exists(AccessAt(o.accessToken)) =>
              AccessIs(files[AccessAt(o.accessToken)], [user |-> u, device |-> e])
    BY <2>1 DEF IInv, DeviceInv
  <2>3. o.accessToken \in AccessToken
    BY <2>1, DeviceTypes DEF IInv, DeviceObject
  <2>4. Exists(AccessAt(o.accessToken)) <=> files'[AccessAt(o.accessToken)] # None
    BY <1>9, <2>3 DEF Exists
  <2> QED BY <1>5, <2>1, <2>2, <2>3, <2>4 DEF AccessIs
<1>13. CallsInv' /\ OrderInv' /\ LockInv' /\ GrantInv' /\ PromiseInv' /\ LocksReturned'
  <2>1. Calls = {} /\ Calls' = {}
    BY <1>1, NothingToCome DEF Calls
  <2>2. OrderInv'
    BY <1>1, NoOrder
  <2> QED BY <1>1, <2>1, <2>2 DEF IInv, CallsInv, LockInv, GrantInv, PromiseInv,
                                 LocksReturned, Unlocks
<1>14. AnswersKeepPromises'
  <2>1. \A x \in AccessToken : Known(x)' <=> Known(x)
    BY <1>1, <1>9 DEF Known
  <2>2. \A r \in RefreshToken : KnownRefresh(r)' <=> KnownRefresh(r)
    BY <1>1, <1>5, FileKinds DEF KnownRefresh, Exists
  <2>3. \A u, ds : Revoked(u, ds) =>
           /\ \A x \in AccessToken :
                 Known(x)' => ~(grantedTo[x].user = u /\ grantedTo[x].device \in ds)
           /\ \A r \in RefreshToken :
                 KnownRefresh(r)' => ~(renews[r].user = u /\ renews[r].device \in ds)
    BY <2>1, <2>2 DEF Revoked
  <2>4. reply.route = "password_logout" /\ reply.status = 200
          => Known(reply.token) /\ files'[AccessAt(reply.token)] # None
    <3>1. reply.route = "password_logout" /\ reply.status = 200 => Known(reply.token)
      BY <1>1 DEF IInv, AnswersKeepPromises
    <3>2. \A g : files[g] # None => files'[g] # None
      BY <1>3 DEF Expire
    <3> QED BY <3>1, <3>2 DEF Known, Exists
  <2> SUFFICES ASSUME reply.status = 200 PROVE AnswersKeepPromises'
    BY <1>1 DEF AnswersKeepPromises
  <2>5. CASE reply.route = "logout"
    <3>1. Revoked(reply.user, {grantedTo[reply.token].device})
      BY <1>1, <2>5 DEF IInv, AnswersKeepPromises
    <3> DEFINE ds == {grantedTo[reply.token].device}
    <3>3. /\ \A x \in AccessToken :
                Known(x)' => ~(grantedTo[x].user = reply.user /\ grantedTo[x].device \in ds)
          /\ \A r \in RefreshToken :
                KnownRefresh(r)' => ~(renews[r].user = reply.user /\ renews[r].device \in ds)
      BY <2>3, <3>1
    <3>2. Revoked(reply.user, {grantedTo[reply.token].device})'
      BY <1>1, <3>3 DEF Revoked
    <3> QED BY <1>1, <2>5, <3>2 DEF AnswersKeepPromises
  <2>6. CASE reply.route \in {"logout_all", "deactivate"}
    <3>1. Revoked(reply.user, Device)
      BY <1>1, <2>6 DEF IInv, AnswersKeepPromises
    <3>2. /\ \A x \in AccessToken :
                Known(x)' => ~(grantedTo[x].user = reply.user /\ grantedTo[x].device \in Device)
          /\ \A r \in RefreshToken :
                KnownRefresh(r)' => ~(renews[r].user = reply.user /\ renews[r].device \in Device)
      BY <2>3, <3>1
    <3>3. Revoked(reply.user, Device)'
      BY <1>1, <3>2 DEF Revoked
    <3> QED BY <1>1, <2>6, <3>3 DEF AnswersKeepPromises
  <2>7. CASE reply.route = "password_logout"
    <3> DEFINE ds == Device \ {grantedTo[reply.token].device}
    <3>1. Revoked(reply.user, ds)
      BY <1>1, <2>7 DEF IInv, AnswersKeepPromises
    <3>2. /\ \A x \in AccessToken :
                Known(x)' => ~(grantedTo[x].user = reply.user /\ grantedTo[x].device \in ds)
          /\ \A r \in RefreshToken :
                KnownRefresh(r)' => ~(renews[r].user = reply.user /\ renews[r].device \in ds)
      BY <2>3, <3>1
    <3>3. Revoked(reply.user, Device \ {grantedTo[reply.token].device})'
      BY <1>1, <3>2 DEF Revoked
    <3>4. Known(reply.token)'
      BY <1>1, <2>4, <2>7 DEF Known, Exists
    <3> QED BY <1>1, <2>7, <3>3, <3>4 DEF AnswersKeepPromises
  <2>8. CASE reply.route \in {"login", "refresh"}
    BY <1>1, <2>1, <2>8 DEF IInv, AnswersKeepPromises
  <2>9. CASE reply.route \notin {"logout", "logout_all", "deactivate",
                                 "password_logout", "login", "refresh"}
    BY <1>1, <2>9 DEF AnswersKeepPromises
  <2> QED BY <2>5, <2>6, <2>7, <2>8, <2>9
<1> QED BY <1>7, <1>8, <1>10, <1>11, <1>12, <1>13, <1>14, <1>15 DEF IInv

LEMMA InitKeeps ==
  ASSUME Init
  PROVE  IInv
<1>1. Calls = {} /\ OrderInv
  BY NoCall DEF Init, Calls, OrderInv
<1>2. \A f \in File : files[f] = None
  BY DEF Init
<1>3. TypeOK
  <2>1. DOMAIN files = File /\ \A f \in File : files[f] \in Content(f) \union {None}
    BY <1>2 DEF Init
  <2>2. todo = <<>> /\ \A i \in DOMAIN todo : todo[i].file \in File
    BY DEF Init
  <2>3. NoReply \in Reply
    BY DEF NoReply, Reply
  <2> QED BY <2>1, <2>2, <2>3 DEF Init, TypeOK
<1>4. \A f \in TokenFile : ~KnownFile(f)
  BY <1>2, FileKinds DEF KnownFile, Exists
<1>5. NamedInv /\ AccessInv /\ RefreshInv /\ DeviceInv /\ TwinInv
  BY <1>2, <1>3, <1>4, FileKinds, Holders
     DEF NamedInv, AccessInv, RefreshInv, DeviceInv, TwinInv, Exists
<1>6. CallsInv /\ LockInv /\ DanglingInv
  BY <1>1, <1>3, <1>4, FileKinds, Holders DEF CallsInv, LockInv, DanglingInv, Init
<1>7. GrantInv /\ PromiseInv /\ LocksReturned /\ AnswersKeepPromises
  BY DEF Init, GrantInv, PromiseInv, LocksReturned, AnswersKeepPromises, NoReply
<1> QED BY <1>1, <1>3, <1>5, <1>6, <1>7 DEF IInv

LEMMA StutterKeeps ==
  ASSUME IInv, UNCHANGED vars
  PROVE  IInv'
<1>1. UNCHANGED <<files, held, request, todo, before, grantedTo, renews, reply, crashed>>
  BY DEF vars
<1>2. Calls' = Calls
  BY <1>1 DEF Calls
<1>3. TypeOK'
  BY <1>1 DEF IInv, TypeOK
<1>4. NamedInv' /\ AccessInv'
  BY <1>1 DEF IInv, NamedInv, AccessInv, KnownFile, HolderOf, Known, Exists, Names, AccessIs
<1>5. RefreshInv' /\ DeviceInv' /\ TwinInv'
  BY <1>1 DEF IInv, RefreshInv, DeviceInv, TwinInv, KnownRefresh, Known, Exists, AccessIs
<1>6. CallsInv'
  <2>1. \A f : Doom(f)' <=> Doom(f)
    BY <1>1, <1>2 DEF Doom, Names
  <2>2. \A f : (KnownFile(f)' <=> KnownFile(f)) /\ HolderOf(f)' = HolderOf(f)
    BY <1>1 DEF KnownFile, HolderOf, Exists
  <2>3. \A t : (Known(t)' <=> Known(t)) /\ (Unnamed(t)' <=> Unnamed(t))
    BY <1>1 DEF Known, Exists, Unnamed, Names
  <2>4. \A r : Replaced(r) => Replaced(r)'
    BY <1>1, <2>1, <2>3 DEF Replaced
  <2>5. \A c : CreateOK(c) => CreateOK(c)'
    BY <1>1, <2>3 DEF CreateOK, Exists
  <2>6. \A c : VisitOK(c) => VisitOK(c)'
    BY <1>1 DEF VisitOK, Exists
  <2>7. ASSUME NEW c, UnlockOK(c) PROVE UnlockOK(c)'
    <3>1. \A r, v : NewName(r, v) => NewName(r, v)'
      BY <1>1 DEF NewName
    <3> QED BY <1>1, <2>1, <2>2, <2>3, <2>4, <2>7, <3>1 DEF UnlockOK, Exists, Names
  <2> QED BY <1>2, <2>5, <2>6, <2>7 DEF IInv, CallsInv
<1>7. OrderInv'
  <2>1. PICK s : s = todo
    OBVIOUS
  <2> QED BY <1>1, <2>1, OrderedNext DEF IInv, OrderInv
<1>8. LockInv'
  BY <1>1, <1>2 DEF IInv, LockInv, Unlocks
<1>9. DanglingInv'
  BY <1>1, <1>2 DEF IInv, DanglingInv, Renamed, NewName, KnownRefresh, Exists, Unlocks,
                    Doom, Names
<1>10. GrantInv'
  BY <1>1, <1>2 DEF IInv, GrantInv, Installs, AccessIs, KnownRefresh, Exists, Unlocks,
                    Doom, Names
<1>11. PromiseInv'
  BY <1>1, <1>2 DEF IInv, PromiseInv, Revokes, KnownFile, HolderOf, Known, Exists, Doom, Names
<1>12. LocksReturned' /\ AnswersKeepPromises'
  BY <1>1 DEF IInv, LocksReturned, AnswersKeepPromises, Revoked, Known, KnownRefresh, Exists
<1> QED BY <1>3, <1>4, <1>5, <1>6, <1>7, <1>8, <1>9, <1>10, <1>11, <1>12 DEF IInv
=============================================================================
