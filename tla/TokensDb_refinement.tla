------------------------ MODULE TokensDb_refinement ------------------------
(***************************************************************************)
(* As long as there is no crash, TokensDb implements Tokens: the calls of  *)
(* a request come to what the atomic route does, and its answer is that    *)
(* step.  Promised of TokensDb_requests says so of a request that begins;  *)
(* here each call keeps it, and what is promised is mapped to Tokens.      *)
(***************************************************************************)
EXTENDS TokensDb_requests

Typed(b) == \A f \in File : b[f] \in Content(f) \union {None}

\* In addition to IInv: the files a request found, and what it comes to.
WorkInv ==
    /\ files = [f \in File |-> files[f]]
    /\ ~crashed /\ request # None => Typed(before) /\ Promised

-----------------------------------------------------------------------------
(* The promise is kept call by call *)

LEMMA CarriesOn ==
  ASSUME UNCHANGED <<request, before, grantedTo, renews>>, NEW a, Carries(a)
  PROVE  Carries(a)'
<1>1. Registers(a) => Registers(a)'
  BY DEF Registers, Answers
<1>2. LogsInUser(a) => LogsInUser(a)'
  BY DEF LogsInUser
<1>3. Refreshes(a) => Refreshes(a)'
  BY DEF Refreshes
<1>4. LogsOut(a) => LogsOut(a)'
  <2> SUFFICES ASSUME LogsOut(a) PROVE LogsOut(a)'
    OBVIOUS
  <2>1. PICK u \in User, t \in AccessToken, d \in Device :
          /\ AskedBy(before, t, u)
          /\ d = before[AccessAt(t)].device
          /\ before[UserAt(u)].devices[d] # None
          /\ before[UserAt(u)].devices[d].accessToken = t
          /\ Answers("logout", u, t)
          /\ a = Saves(before, u, {d}, WithoutDevices(before[UserAt(u)], {d}))
    BY DEF LogsOut
  <2>2. Answers("logout", u, t)' /\ before' = before
    BY <2>1 DEF Answers
  <2>3. AskedBy(before', t, u)
    BY <2>1, <2>2
  <2> QED BY <2>1, <2>2, <2>3 DEF LogsOut, AskedBy
<1>5. LogsOutAll(a) => LogsOutAll(a)'
  BY DEF LogsOutAll, Answers, AskedBy
<1>6. ChangesPwd(a) => ChangesPwd(a)'
  <2> SUFFICES ASSUME ChangesPwd(a) PROVE ChangesPwd(a)'
    OBVIOUS
  <2>1. PICK u \in User, t \in AccessToken, p \in Password, l \in BOOLEAN :
          \E gone :
            /\ AskedBy(before, t, u)
            /\ gone = IF l THEN Doomed(before[UserAt(u)], t) ELSE {}
            /\ Answers(IF l THEN "password_logout" ELSE "password", u, t)
            /\ a = Saves(before, u, gone,
                         [WithoutDevices(before[UserAt(u)], gone) EXCEPT !.password = p])
    BY DEF ChangesPwd
  <2>2. PICK gone :
            /\ AskedBy(before, t, u)
            /\ gone = IF l THEN Doomed(before[UserAt(u)], t) ELSE {}
            /\ Answers(IF l THEN "password_logout" ELSE "password", u, t)
            /\ a = Saves(before, u, gone,
                         [WithoutDevices(before[UserAt(u)], gone) EXCEPT !.password = p])
    BY <2>1
  <2>3. Answers(IF l THEN "password_logout" ELSE "password", u, t)' /\ before' = before
    BY <2>2 DEF Answers
  <2>4. AskedBy(before', t, u)
    BY <2>2, <2>3
  <2> QED BY <2>2, <2>3, <2>4 DEF ChangesPwd, AskedBy
<1>7. Deactivates(a) => Deactivates(a)'
  BY DEF Deactivates, Answers, AskedBy
<1>8. Administers(a) => Administers(a)'
  BY DEF Administers, Answers, AskedBy
<1> QED BY <1>1, <1>2, <1>3, <1>4, <1>5, <1>6, <1>7, <1>8 DEF Carries

\* A call that is made has the effect it was counted with.
LEMMA CallLeads ==
  ASSUME IInv, NEW h, TakesCall(h), NEW a, Leads(a)
  PROVE  Leads(a)'
<1> SUFFICES ASSUME NEW f \in File
             PROVE  IF f \in TokenFile /\ Doom(f)' THEN a[f] = None
                    ELSE IF Unlocks(f)' # {} THEN \A c \in Unlocks(f)' : c.value = a[f]
                    ELSE a[f] = files'[f]
  BY DEF Leads
<1>1. IF f \in TokenFile /\ Doom(f) THEN a[f] = None
      ELSE IF Unlocks(f) # {} THEN \A c \in Unlocks(f) : c.value = a[f]
      ELSE a[f] = files[f]
  BY DEF Leads
<1>2. /\ h \in Calls /\ Calls = Calls' \union {h}
      /\ files'[f] = IF h.call # "lock" /\ f = h.file THEN h.value ELSE files[f]
      /\ Unlocks(f)' \subseteq Unlocks(f)
  BY DEF TakesCall, Unlocks
<1>3. CASE f \in TokenFile /\ Doom(f)'
  BY <1>1, <1>3, DoomAfter
<1>4. CASE f \in TokenFile /\ Doom(f) /\ ~Doom(f)'
  <2>1. h.call = "delete" /\ h.file = f
    BY <1>4, DoomAfter
  <2>2. h.value = None
    BY <2>1, CallWrites
  <2>3. Unlocks(f)' = {}
    BY <2>1 DEF TakesCall, Before, Unlocks
  <2> QED BY <1>1, <1>2, <1>4, <2>1, <2>2, <2>3
<1>5. CASE ~(f \in TokenFile /\ Doom(f))
  <2>1. ~(f \in TokenFile /\ Doom(f)')
    BY <1>5, DoomAfter
  <2>2. CASE Unlocks(f)' # {}
    BY <1>1, <1>2, <1>5, <2>1, <2>2
  <2>3. CASE Unlocks(f)' = {} /\ Unlocks(f) # {}
    <3>1. h \in Unlocks(f)
      BY <1>2, <2>3 DEF Unlocks
    <3> QED BY <1>1, <1>2, <1>5, <2>1, <2>3, <3>1 DEF Unlocks
  <2>4. CASE Unlocks(f) = {}
    <3>1. files'[f] = files[f]
      <4>1. SUFFICES ASSUME h.file = f, h.call # "lock" PROVE FALSE
        BY <1>2
      <4>2. CASE h.call = "create"
        BY <1>2, <2>4, <4>1, <4>2 DEF IInv, LockInv
      <4>3. CASE h.call = "unlock"
        BY <1>2, <2>4, <4>1, <4>3 DEF Unlocks
      <4>4. CASE h.call = "delete"
        BY <1>2, <1>5, <4>1, <4>4, CallWrites DEF Doom
      <4> QED BY <4>1, <4>2, <4>3, <4>4, CallWrites
    <3> QED BY <1>1, <1>2, <1>5, <2>1, <2>4, <3>1
  <2> QED BY <2>2, <2>3, <2>4
<1> QED BY <1>3, <1>4, <1>5

LEMMA VisitLeads ==
  ASSUME IInv, NEW h, NEW d, NEW x, NEW y, TakesDevice(h, d, x, y),
         NEW a, Leads(a)
  PROVE  Leads(a)'
<1> SUFFICES ASSUME NEW f \in File
             PROVE  IF f \in TokenFile /\ Doom(f)' THEN a[f] = None
                    ELSE IF Unlocks(f)' # {} THEN \A c \in Unlocks(f)' : c.value = a[f]
                    ELSE a[f] = files'[f]
  BY DEF Leads
<1>1. IF f \in TokenFile /\ Doom(f) THEN a[f] = None
      ELSE IF Unlocks(f) # {} THEN \A c \in Unlocks(f) : c.value = a[f]
      ELSE a[f] = files[f]
  BY DEF Leads
<1>2. /\ files'[f] = IF f = AccessAt(x) THEN None ELSE files[f]
      /\ AccessAt(x) \in TokenFile /\ ~IsUser(AccessAt(x))
  BY FileKinds DEF TakesDevice
<1>3. Unlocks(f)' = Unlocks(f)
  <2>1. h.call = "visit"
    BY DEF TakesDevice
  <2>2. ASSUME NEW c \in Unlocks(f) PROVE c \in Unlocks(f)'
    BY <2>1, <2>2 DEF TakesDevice, Unlocks
  <2>3. ASSUME NEW c \in Unlocks(f)' PROVE c \in Unlocks(f)
    BY <2>3 DEF TakesDevice, Unlocks
  <2> QED BY <2>2, <2>3
<1>4. CASE f = AccessAt(x)
  <2>1. Unlocks(f)' = {}
    BY <1>2, <1>4 DEF TakesDevice, Unlocks
  <2> QED BY <1>1, <1>2, <1>4, <2>1, DoomVisited
<1>5. CASE f # AccessAt(x)
  <2>1. f \in TokenFile => (Doom(f)' <=> Doom(f))
    BY <1>5, DoomVisited
  <2> QED BY <1>1, <1>2, <1>3, <1>5, <2>1
<1> QED BY <1>4, <1>5

LEMMA Two ==
  ASSUME NEW c \in Call, NEW e \in Call
  PROVE  LET s == <<c>> \o <<e>>
         IN  s # <<>> /\ Head(s) = c /\ Tail(s) = <<e>>
<1> DEFINE s == <<c>> \o <<e>>
<1>1. <<c>> \in Seq(Call) /\ <<e>> \in Seq(Call)
  OBVIOUS
<1>2. /\ Len(<<c>>) = 1 /\ Len(<<e>>) = 1
      /\ <<c>>[1] = c /\ <<e>>[1] = e
  OBVIOUS
<1>3. s \in Seq(Call) /\ Len(s) = 2 /\ s[1] = c /\ s[2] = e
  BY <1>1, <1>2, ConcatProperties
<1> HIDE DEF s
<1>4. s # <<>>
  BY <1>3
<1>5. /\ Head(s) = c /\ Tail(s) \in Seq(Call) /\ Len(Tail(s)) = 1
      /\ Tail(s)[1] = e
  BY <1>3, <1>4, HeadTailProperties
<1>6. Tail(s) = <<e>>
  <2>1. ASSUME NEW i \in 1 .. Len(Tail(s)) PROVE Tail(s)[i] = <<e>>[i]
    <3>1. \A n : n = 1 => \A k \in 1 .. n : k = 1
      OBVIOUS
    <3>2. Len(Tail(s)) = 1 /\ i \in 1 .. Len(Tail(s))
      BY <1>5
    <3>3. i = 1
      BY <3>1, <3>2
    <3> QED BY <1>2, <1>5, <3>3
  <2> QED BY <1>1, <1>2, <1>5, <2>1, SeqEqual
<1> QED BY <1>4, <1>5, <1>6 DEF s

\* The first save of an administrator's request changes nothing.
LEMMA SecondLeads ==
  ASSUME IInv, NEW a, SavesSecond(a)
  PROVE  /\ todo # <<>>
         /\ ~Visit
         /\ Step => Leads(a)'
<1>1. PICK u, w, v :
         /\ u \in User /\ w \in User /\ v \in UserFile
         /\ Exists(UserAt(u))
         /\ todo = DbUnlock(UserAt(u), files[UserAt(u)]) \o DbUnlock(UserAt(w), v)
         /\ a = [f \in File |-> IF f = UserAt(w) THEN v ELSE files[f]]
  BY DEF SavesSecond
<1> DEFINE c == UnlockCall(UserAt(u), files[UserAt(u)])
           e == UnlockCall(UserAt(w), v)
<1>2. c \in Call /\ e \in Call
  <2>1. files[UserAt(u)] \in UserFile
    BY <1>1, Contents DEF IInv
  <2>2. UserAt(u) \in File /\ UserAt(w) \in File
        /\ Content(UserAt(u)) = UserFile /\ Content(UserAt(w)) = UserFile
    BY <1>1, FileKinds DEF Content
  <2> QED BY <1>1, <2>1, <2>2, CallTypes
<1>3. /\ c.call = "unlock" /\ c.file = UserAt(u) /\ c.value = files[UserAt(u)]
      /\ e.call = "unlock" /\ e.file = UserAt(w) /\ e.value = v
  BY DEF UnlockCall
<1>4. todo = <<c>> \o <<e>>
  BY <1>1 DEF DbUnlock, UnlockCall
<1> HIDE DEF c, e
<1>5. todo # <<>> /\ Head(todo) = c /\ Tail(todo) = <<e>>
  BY <1>2, <1>4, Two
<1>6. ~Visit
  BY <1>3, <1>5 DEF Visit
<1>7. ASSUME Step PROVE Leads(a)'
  <2>1. \A f \in File : files'[f] = files[f]
    BY <1>3, <1>5, <1>7, StepTakesCall DEF TakesCall
  <2>2. Calls' = {e}
    <3>1. todo' = <<e>>
      BY <1>5, <1>7 DEF Step
    <3> QED BY <1>2, <3>1, One DEF Calls
  <2>3. \A f : ~Doom(f)'
    BY <1>3, <2>2 DEF Doom
  <2>4. \A f : Unlocks(f)' = IF f = UserAt(w) THEN {e} ELSE {}
    BY <1>3, <2>2 DEF Unlocks
  <2>5. \A f \in File : a[f] = IF f = UserAt(w) THEN v ELSE files[f]
    BY <1>1
  <2> QED BY <1>3, <2>1, <2>3, <2>4, <2>5 DEF Leads
<1> QED BY <1>5, <1>6, <1>7

\* What a request begins with.
LEMMA RequestBegins ==
  ASSUME Request
  PROVE  before' = files /\ UNCHANGED <<files, grantedTo, renews, reply, crashed>>
<1> DEFINE Q == before' = files /\ UNCHANGED <<files, grantedTo, renews, reply, crashed>>
<1>1. ASSUME NEW u, NEW p, NEW d, NEW t, NEW r,
             Register(u, p) \/ RegisterAndLogin(u, p, d, t, r) \/ Login(u, p, d, t, r)
      PROVE  Q
  BY <1>1 DEF Register, RegisterAndLogin, Login, Begin
<1>2. ASSUME NEW r, NEW t, Refresh(r, t) PROVE Q
  BY <1>2 DEF Refresh, Begin
<1>3. ASSUME NEW t, Logout(t) \/ LogoutAll(t) \/ Deactivate(t) PROVE Q
  BY <1>3 DEF Logout, LogoutAll, Deactivate, Begin
<1>4. ASSUME NEW t, NEW p, NEW l, ChangePwd(t, p, l) PROVE Q
  BY <1>4 DEF ChangePwd, Begin
<1>5. ASSUME NEW t, NEW w, NEW b, AdminDeactivate(t, w, b) PROVE Q
  BY <1>5 DEF AdminDeactivate, Begin
<1> HIDE DEF Q
<1>6. Q
  BY <1>1, <1>2, <1>3, <1>4, <1>5 DEF Request
<1> QED BY <1>6 DEF Q

LEMMA WorkNext ==
  ASSUME IInv, WorkInv, [Next]_vars
  PROVE  WorkInv'
<1>1. files' = [f \in File |-> files'[f]]
  <2>1. files = [f \in File |-> files[f]]
    BY DEF WorkInv
  <2>2. CASE Request
    BY <2>1, <2>2, RequestBegins
  <2>3. CASE Step
    BY <2>1, <2>3 DEF Step
  <2>4. CASE Visit
    BY <2>1, <2>4 DEF Visit
  <2>5. CASE Answer \/ Crash \/ UNCHANGED vars
    BY <2>1, <2>5 DEF Answer, Crash, vars
  <2>6. ASSUME NEW t \in AccessToken, Expire(t) PROVE files' = [f \in File |-> files'[f]]
    BY <2>1, <2>6 DEF Expire
  <2> QED BY <2>2, <2>3, <2>4, <2>5, <2>6 DEF Next
<1>2. ASSUME ~crashed', request' # None PROVE Typed(before') /\ Promised'
  <2>1. CASE request = None /\ Request
    <3>1. before' = files /\ ~crashed
      BY <1>2, <2>1, RequestBegins
    <3> QED BY <2>1, <3>1, RequestKeeps DEF IInv, TypeOK, Typed
  <2>2. ASSUME Step \/ Visit PROVE Typed(before') /\ Promised'
    <3>1. UNCHANGED <<request, before, grantedTo, renews, crashed>>
      BY <2>2 DEF Step, Visit
    <3>2. Typed(before) /\ Promised
      BY <1>2, <3>1 DEF WorkInv
    <3>3. PICK a : (Leads(a) \/ SavesSecond(a)) /\ Carries(a)
      BY <3>2 DEF Promised
    <3>4. Carries(a)'
      BY <3>1, <3>3, CarriesOn
    <3>5. CASE Step
      <4>1. Leads(a)'
        BY <3>3, <3>5, StepTakesCall, CallLeads, SecondLeads
      <4> QED BY <3>1, <3>2, <3>4, <4>1 DEF Promised
    <3>6. CASE Visit
      <4>1. Leads(a)
        BY <3>3, <3>6, SecondLeads
      <4>2. Leads(a)'
        BY <3>6, <4>1, VisitTakesDevice, VisitLeads
      <4> QED BY <3>1, <3>2, <3>4, <4>2 DEF Promised
    <3> QED BY <2>2, <3>5, <3>6
  <2>3. CASE UNCHANGED vars
    <3>1. UNCHANGED <<files, todo, request, before, grantedTo, renews, crashed>>
      BY <2>3 DEF vars
    <3>2. PICK a : (Leads(a) \/ SavesSecond(a)) /\ Carries(a)
      BY <1>2, <3>1 DEF WorkInv, Promised
    <3>3. Leads(a)' <=> Leads(a)
      BY <3>1 DEF Leads, Doom, Unlocks, Calls, Names
    <3>4. SavesSecond(a)' <=> SavesSecond(a)
      BY <3>1 DEF SavesSecond, Exists
    <3>5. Promised'
      BY <3>1, <3>2, <3>3, <3>4, CarriesOn DEF Promised
    <3> QED BY <1>2, <3>1, <3>5 DEF WorkInv
  <2>4. ~(\E t \in AccessToken : Expire(t)) /\ ~Answer /\ ~Crash
    BY <1>2 DEF Expire, Answer, Crash
  <2> QED BY <2>1, <2>2, <2>3, <2>4 DEF Next
<1> QED BY <1>1, <1>2 DEF WorkInv, Typed

-----------------------------------------------------------------------------
(* What is promised, in the terms of Tokens *)

LEMMA Reads ==
  /\ \A b : \A u \in User : UsersOf(b)[u] =
        IF b[UserAt(u)] = None THEN None ELSE Account(b[UserAt(u)])
  /\ \A b : \A u \in User : DevicesOf(b)[u] =
        IF b[UserAt(u)] = None THEN NoDevices ELSE b[UserAt(u)].devices
  /\ \A b : \A t \in AccessToken : AccessOf(b)[t] = b[AccessAt(t)]
  /\ \A b : \A r \in RefreshToken : RefreshOf(b)[r] =
        IF b[RefreshAt(r)] = None THEN None ELSE b[RefreshAt(r)].refreshes
  /\ \A v \in UserFile : Account(v) # None
  /\ \A v : /\ Account(v).password = v.password
            /\ Account(v).deactivated = v.deactivated
            /\ Account(v).hasDevices = v.hasDevices
<1>1. \A v \in UserFile : Account(v) \in UserAccount
  BY DEF UserFile, UserAccount, Account
<1>2. \A v \in UserFile : Account(v) # None
  BY <1>1, NoneAssumption
<1> QED BY <1>2 DEF UsersOf, DevicesOf, AccessOf, RefreshOf, Account

LEMMA AccountChanges ==
  ASSUME NEW v \in UserFile, NEW w \in UserFile
  PROVE  /\ w.deactivated = v.deactivated /\ w.hasDevices = v.hasDevices
              => [Account(v) EXCEPT !.password = w.password] = Account(w)
         /\ w.password = v.password /\ w.hasDevices = v.hasDevices
              => [Account(v) EXCEPT !.deactivated = w.deactivated] = Account(w)
         /\ w.password = v.password /\ w.deactivated = v.deactivated
              => [Account(v) EXCEPT !.hasDevices = w.hasDevices] = Account(w)
<1>1. PICK x \in UserAccount : x = Account(v)
  BY DEF Account, UserFile, UserAccount
<1>2. /\ x.password = v.password /\ x.deactivated = v.deactivated
      /\ x.hasDevices = v.hasDevices
  BY <1>1 DEF Account
<1>3. /\ w.deactivated = v.deactivated /\ w.hasDevices = v.hasDevices
           => [x EXCEPT !.password = w.password] = Account(w)
      /\ w.password = v.password /\ w.hasDevices = v.hasDevices
           => [x EXCEPT !.deactivated = w.deactivated] = Account(w)
      /\ w.password = v.password /\ w.deactivated = v.deactivated
           => [x EXCEPT !.hasDevices = w.hasDevices] = Account(w)
  BY <1>2 DEF UserAccount, Account
<1> QED BY <1>1, <1>3

LEMMA TypedFiles ==
  ASSUME NEW b, Typed(b)
  PROVE  /\ \A u \in User : b[UserAt(u)] \in UserFile \union {None}
         /\ \A t \in AccessToken : b[AccessAt(t)] \in AccessFile \union {None}
         /\ \A r \in RefreshToken : b[RefreshAt(r)] \in RefreshFile \union {None}
         /\ None \notin UserFile \union AccessFile \union RefreshFile \union DeviceObject
BY FileKinds, NoneAssumption DEF Typed, Content

\* A user is saved and tokens its devices named are deleted.
NamedAccess(b, u, ds) ==
    {t \in AccessToken : \E d \in ds :
        DevicesOf(b)[u][d] # None /\ DevicesOf(b)[u][d].accessToken = t}
NamedRefresh(b, u, ds) ==
    {r \in RefreshToken : \E d \in ds :
        DevicesOf(b)[u][d] # None /\ DevicesOf(b)[u][d].refreshToken = r}

LEMMA SavesMapped ==
  ASSUME NEW b, Typed(b), NEW u \in User, NEW ds \in SUBSET Device,
         b[UserAt(u)] # None \/ ds = {}, NEW w \in UserFile,
         NEW a, a = Saves(b, u, ds, w)
  PROVE  /\ UsersOf(a) = [UsersOf(b) EXCEPT ![u] = Account(w)]
         /\ DevicesOf(a) = [DevicesOf(b) EXCEPT ![u] = w.devices]
         /\ AccessOf(a) = T!DbDelete(AccessOf(b), NamedAccess(b, u, ds))
         /\ RefreshOf(a) = T!DbDelete(RefreshOf(b), NamedRefresh(b, u, ds))
<1> DEFINE U == UserAt(u)
<1>1. \A f \in File : a[f] =
         IF f = U THEN w
         ELSE IF f \in TokenFile /\ \E d \in ds : Names(b[U], d, f) THEN None
         ELSE b[f]
  BY DEF Saves
<1>2. w # None
  BY NoneAssumption
<1>3. \A x \in User : a[UserAt(x)] = IF x = u THEN w ELSE b[UserAt(x)]
  BY <1>1, FileKinds, FileNames
<1>4. /\ \A t \in AccessToken : a[AccessAt(t)] =
            IF t \in NamedAccess(b, u, ds) THEN None ELSE b[AccessAt(t)]
      /\ \A r \in RefreshToken : a[RefreshAt(r)] =
            IF r \in NamedRefresh(b, u, ds) THEN None ELSE b[RefreshAt(r)]
  <2>1. ds # {} => DevicesOf(b)[u] = b[U].devices
    BY Reads
  <2>2. \A t \in AccessToken :
           t \in NamedAccess(b, u, ds) <=> \E d \in ds : Names(b[U], d, AccessAt(t))
    BY <2>1, FileKinds DEF NamedAccess, Names
  <2>3. \A r \in RefreshToken :
           r \in NamedRefresh(b, u, ds) <=> \E d \in ds : Names(b[U], d, RefreshAt(r))
    BY <2>1, FileKinds DEF NamedRefresh, Names
  <2> QED BY <1>1, <2>2, <2>3, FileKinds, FileNames
<1>5. UsersOf(a) = [UsersOf(b) EXCEPT ![u] = Account(w)]
  BY <1>2, <1>3 DEF UsersOf
<1>6. DevicesOf(a) = [DevicesOf(b) EXCEPT ![u] = w.devices]
  BY <1>2, <1>3 DEF DevicesOf
<1>7. AccessOf(a) = T!DbDelete(AccessOf(b), NamedAccess(b, u, ds))
  BY <1>4 DEF AccessOf, T!DbDelete
<1>8. RefreshOf(a) = T!DbDelete(RefreshOf(b), NamedRefresh(b, u, ds))
  BY <1>4 DEF RefreshOf, T!DbDelete
<1> QED BY <1>5, <1>6, <1>7, <1>8

\* A device of u gets new tokens, in place of those it named.
LEMMA LogsInMapped ==
  ASSUME NEW b, Typed(b), NEW u \in User, NEW d \in Device, NEW t \in AccessToken,
         NEW r \in RefreshToken \union {None}, NEW w \in UserFile,
         NEW a, a = LogsIn(b, u, d, t, r, w),
         NEW ds, ds = {d}, NEW z, z = NewAccessFile(u, d, r # None)
  PROVE  /\ UsersOf(a) = [UsersOf(b) EXCEPT ![u] = Account(w)]
         /\ DevicesOf(a) = [DevicesOf(b) EXCEPT ![u] = w.devices]
         /\ AccessOf(a) = [T!DbDelete(AccessOf(b), NamedAccess(b, u, ds)) EXCEPT ![t] = z]
         /\ \A y \in RefreshToken : RefreshOf(a)[y] =
               IF y = r THEN t
               ELSE IF y \in NamedRefresh(b, u, ds) THEN None ELSE RefreshOf(b)[y]
<1> DEFINE U == UserAt(u)
           n == [refreshes |-> t]
<1>1. \A f \in File : a[f] =
         IF f = U THEN w
         ELSE IF f = AccessAt(t) THEN z
         ELSE IF r # None /\ f = RefreshAt(r) THEN n
         ELSE IF f \in TokenFile /\ b[U] # None /\ Names(b[U], d, f) THEN None
         ELSE b[f]
  BY DEF LogsIn
<1>2. w # None /\ n # None /\ n.refreshes = t
  <2>1. n \in RefreshFile
    BY DEF RefreshFile
  <2> QED BY <2>1, NoneAssumption
<1> HIDE DEF n
<1>3. \A x \in User : a[UserAt(x)] = IF x = u THEN w ELSE b[UserAt(x)]
  BY <1>1, FileKinds, FileNames
<1>4. /\ \A x \in AccessToken : a[AccessAt(x)] =
            IF x = t THEN z
            ELSE IF x \in NamedAccess(b, u, ds) THEN None ELSE b[AccessAt(x)]
      /\ \A y \in RefreshToken : a[RefreshAt(y)] =
            IF y = r THEN n
            ELSE IF y \in NamedRefresh(b, u, ds) THEN None ELSE b[RefreshAt(y)]
  <2>1. DevicesOf(b)[u] = IF b[U] = None THEN NoDevices ELSE b[U].devices
    BY Reads
  <2>2. NoDevices[d] = None
    BY DEF NoDevices
  <2>3. \A x \in AccessToken :
           x \in NamedAccess(b, u, ds) <=> b[U] # None /\ Names(b[U], d, AccessAt(x))
    BY <2>1, <2>2, FileKinds DEF NamedAccess, Names
  <2>4. \A y \in RefreshToken :
           y \in NamedRefresh(b, u, ds) <=> b[U] # None /\ Names(b[U], d, RefreshAt(y))
    BY <2>1, <2>2, FileKinds DEF NamedRefresh, Names
  <2>5. None \notin RefreshToken
    BY NoneAssumption
  <2>6. ASSUME NEW x \in AccessToken
        PROVE  a[AccessAt(x)] =
                 IF x = t THEN z
                 ELSE IF x \in NamedAccess(b, u, ds) THEN None ELSE b[AccessAt(x)]
    <3>1. /\ AccessAt(x) \in File /\ AccessAt(x) \in TokenFile
          /\ AccessAt(x) # U /\ AccessAt(x) # RefreshAt(r)
          /\ AccessAt(x) = AccessAt(t) <=> x = t
      BY FileKinds, FileNames
    <3> HIDE DEF U
    <3>2. a[AccessAt(x)] =
            IF x = t THEN z
            ELSE IF b[U] # None /\ Names(b[U], d, AccessAt(x)) THEN None
            ELSE b[AccessAt(x)]
      BY <1>1, <3>1
    <3> QED BY <2>3, <3>2
  <2>7. ASSUME NEW y \in RefreshToken
        PROVE  a[RefreshAt(y)] =
                 IF y = r THEN n
                 ELSE IF y \in NamedRefresh(b, u, ds) THEN None ELSE b[RefreshAt(y)]
    <3>1. /\ RefreshAt(y) \in File /\ RefreshAt(y) \in TokenFile
          /\ RefreshAt(y) # U /\ RefreshAt(y) # AccessAt(t)
          /\ r # None /\ RefreshAt(y) = RefreshAt(r) <=> y = r
      BY <2>5, FileKinds, FileNames
    <3> HIDE DEF U
    <3>2. a[RefreshAt(y)] =
            IF y = r THEN n
            ELSE IF b[U] # None /\ Names(b[U], d, RefreshAt(y)) THEN None
            ELSE b[RefreshAt(y)]
      BY <1>1, <3>1
    <3> QED BY <2>4, <3>2
  <2> QED BY <2>6, <2>7
<1>5. UsersOf(a) = [UsersOf(b) EXCEPT ![u] = Account(w)]
  BY <1>2, <1>3 DEF UsersOf
<1>6. DevicesOf(a) = [DevicesOf(b) EXCEPT ![u] = w.devices]
  BY <1>2, <1>3 DEF DevicesOf
<1>7. AccessOf(a) = [T!DbDelete(AccessOf(b), NamedAccess(b, u, ds)) EXCEPT ![t] = z]
  BY <1>4 DEF AccessOf, T!DbDelete
<1>8. ASSUME NEW y \in RefreshToken
      PROVE  RefreshOf(a)[y] =
               IF y = r THEN t
               ELSE IF y \in NamedRefresh(b, u, ds) THEN None ELSE RefreshOf(b)[y]
  <2>1. RefreshOf(a)[y] = IF a[RefreshAt(y)] = None THEN None
                          ELSE a[RefreshAt(y)].refreshes
    BY Reads
  <2>2. RefreshOf(b)[y] = IF b[RefreshAt(y)] = None THEN None
                          ELSE b[RefreshAt(y)].refreshes
    BY Reads
  <2> QED BY <1>2, <1>4, <2>1, <2>2
<1> QED BY <1>5, <1>6, <1>7, <1>8

\* A device of u gets an access token in place of old.
LEMMA ExchangesMapped ==
  ASSUME NEW b, Typed(b), NEW r \in RefreshToken, NEW old \in AccessToken,
         NEW u \in User, NEW d \in Device, NEW t \in AccessToken, NEW w \in UserFile,
         NEW a, a = Exchanges(b, r, old, u, d, t, w)
  PROVE  /\ UsersOf(a) = [UsersOf(b) EXCEPT ![u] = Account(w)]
         /\ DevicesOf(a) = [DevicesOf(b) EXCEPT ![u] = w.devices]
         /\ \A y \in RefreshToken : RefreshOf(a)[y] = IF y = r THEN t ELSE RefreshOf(b)[y]
<1> DEFINE n == [refreshes |-> t]
<1>1. \A f \in File : a[f] =
         IF f = UserAt(u) THEN w
         ELSE IF f = AccessAt(t) THEN NewAccessFile(u, d, TRUE)
         ELSE IF f = RefreshAt(r) THEN n
         ELSE IF f = AccessAt(old) THEN None ELSE b[f]
  BY DEF Exchanges
<1>2. w # None /\ n # None /\ n.refreshes = t
  <2>1. n \in RefreshFile
    BY DEF RefreshFile
  <2> QED BY <2>1, NoneAssumption
<1> HIDE DEF n
<1>3. ASSUME NEW x \in User
      PROVE  a[UserAt(x)] = IF x = u THEN w ELSE b[UserAt(x)]
  <2>1. /\ UserAt(x) \in File /\ UserAt(x) # AccessAt(t)
        /\ UserAt(x) # AccessAt(old) /\ UserAt(x) # RefreshAt(r)
        /\ UserAt(x) = UserAt(u) <=> x = u
    BY FileKinds, FileNames
  <2> QED BY <1>1, <2>1
<1>4. ASSUME NEW y \in RefreshToken
      PROVE  a[RefreshAt(y)] = IF y = r THEN n ELSE b[RefreshAt(y)]
  <2>1. /\ RefreshAt(y) \in File /\ RefreshAt(y) # UserAt(u)
        /\ RefreshAt(y) # AccessAt(t) /\ RefreshAt(y) # AccessAt(old)
        /\ RefreshAt(y) = RefreshAt(r) <=> y = r
    BY FileKinds, FileNames
  <2> QED BY <1>1, <2>1
<1>5. UsersOf(a) = [UsersOf(b) EXCEPT ![u] = Account(w)]
  BY <1>2, <1>3 DEF UsersOf
<1>6. DevicesOf(a) = [DevicesOf(b) EXCEPT ![u] = w.devices]
  BY <1>2, <1>3 DEF DevicesOf
<1>7. ASSUME NEW y \in RefreshToken
      PROVE  RefreshOf(a)[y] = IF y = r THEN t ELSE RefreshOf(b)[y]
  <2>1. RefreshOf(a)[y] = IF a[RefreshAt(y)] = None THEN None
                          ELSE a[RefreshAt(y)].refreshes
    BY Reads
  <2>2. RefreshOf(b)[y] = IF b[RefreshAt(y)] = None THEN None
                          ELSE b[RefreshAt(y)].refreshes
    BY Reads
  <2> QED BY <1>2, <1>4, <2>1, <2>2
<1> QED BY <1>5, <1>6, <1>7

LEMMA ExchangesAccess ==
  ASSUME NEW b, NEW r \in RefreshToken, NEW old \in AccessToken,
         NEW u \in User, NEW d \in Device, NEW t \in AccessToken, NEW w,
         NEW a, a = Exchanges(b, r, old, u, d, t, w), NEW ds, ds = {old},
         NEW z, z = [user |-> u, device |-> d, expires |-> "later"]
  PROVE  AccessOf(a) = [T!DbDelete(AccessOf(b), ds) EXCEPT ![t] = z]
<1>1. \A f \in File : a[f] =
         IF f = UserAt(u) THEN w
         ELSE IF f = AccessAt(t) THEN z
         ELSE IF f = RefreshAt(r) THEN [refreshes |-> t]
         ELSE IF f = AccessAt(old) THEN None ELSE b[f]
  BY DEF Exchanges, NewAccessFile
<1>2. ASSUME NEW x \in AccessToken
      PROVE  a[AccessAt(x)] = IF x = t THEN z ELSE IF x = old THEN None ELSE b[AccessAt(x)]
  <2>1. /\ AccessAt(x) \in File /\ AccessAt(x) # UserAt(u) /\ AccessAt(x) # RefreshAt(r)
        /\ AccessAt(x) = AccessAt(t) <=> x = t
        /\ AccessAt(x) = AccessAt(old) <=> x = old
    BY FileKinds, FileNames
  <2> QED BY <1>1, <2>1
<1> QED BY <1>2 DEF AccessOf, T!DbDelete

-----------------------------------------------------------------------------
(* Each answer is a step of Tokens *)

\* The state of Tokens before and after an answer.
Answered ==
    /\ IInv /\ Answer /\ Typed(before)
    /\ UsersOf(Settled) = UsersOf(before) /\ UsersOf(Settled)' = UsersOf(files)
    /\ DevicesOf(Settled) = DevicesOf(before) /\ DevicesOf(Settled)' = DevicesOf(files)
    /\ AccessOf(Settled) = AccessOf(before) /\ AccessOf(Settled)' = AccessOf(files)
    /\ RefreshOf(Settled) = RefreshOf(before) /\ RefreshOf(Settled)' = RefreshOf(files)
    /\ reply' = request.reply
    /\ request.session = None => UNCHANGED <<grantedTo, renews>>

LEMMA AnswerSettles ==
  ASSUME IInv, Answer, Typed(before)
  PROVE  Answered
<1>1. request # None /\ request' = None /\ files' = files /\ reply' = request.reply
  BY DEF Answer
<1>2. Settled = before /\ Settled' = files
  BY <1>1 DEF Settled
<1>3. request.session = None => UNCHANGED <<grantedTo, renews>>
  BY DEF Answer
<1> QED BY <1>1, <1>2, <1>3 DEF Answered, UsersOf, DevicesOf, AccessOf, RefreshOf

LEMMA NamesNothing ==
  ASSUME NEW b, NEW u
  PROVE  /\ T!DbDelete(AccessOf(b), NamedAccess(b, u, {})) = AccessOf(b)
         /\ T!DbDelete(RefreshOf(b), NamedRefresh(b, u, {})) = RefreshOf(b)
BY DEF T!DbDelete, AccessOf, RefreshOf, NamedAccess, NamedRefresh

LEMMA NamedInTokens ==
  ASSUME Answered, NEW u, NEW ds
  PROVE  /\ T!AccessTokensOf(u, ds) = NamedAccess(before, u, ds)
         /\ T!RefreshTokensOf(u, ds) = NamedRefresh(before, u, ds)
BY DEF Answered, T!AccessTokensOf, T!RefreshTokensOf, NamedAccess, NamedRefresh

LEMMA AnswerRegisters ==
  ASSUME Answered, Registers(files)
  PROVE  T!Next
<1>1. PICK u \in User, p \in Password :
        /\ before[UserAt(u)] = None
        /\ Answers("register", u, None)
        /\ files = Saves(before, u, {}, NewUser(p))
  BY DEF Registers
<1> DEFINE n == NewUser(p)
<1>2. n \in UserFile /\ n.devices = NoDevices
      /\ n.password = p /\ ~n.deactivated /\ n.hasDevices = FALSE
      /\ n.deactivated \in BOOLEAN
  BY NewUsers DEF UserFile
<1>3. Account(n) = [password |-> p, deactivated |-> FALSE, hasDevices |-> FALSE]
  BY <1>2 DEF Account
<1> HIDE DEF n
<1>4. /\ UsersOf(files) = [UsersOf(before) EXCEPT ![u] = Account(n)]
      /\ DevicesOf(files) = [DevicesOf(before) EXCEPT ![u] = NoDevices]
      /\ AccessOf(files) = AccessOf(before)
      /\ RefreshOf(files) = RefreshOf(before)
  <2>1. files = Saves(before, u, {}, n)
    BY <1>1 DEF n
  <2>2. Typed(before) /\ {} \in SUBSET Device
    BY DEF Answered
  <2> QED BY <1>2, <2>1, <2>2, SavesMapped, NamesNothing
<1>5. DevicesOf(files) = DevicesOf(before)
  BY <1>1, <1>4 DEF DevicesOf
<1>6. UsersOf(before)[u] = None
  BY <1>1, Reads
<1>7. T!Register(u, p)
  BY <1>1, <1>3, <1>4, <1>5, <1>6 DEF Answered, Answers, T!Register, T!Answer
<1> QED BY <1>7 DEF T!Next

\* What UserLogin of Tokens does.
LEMMA AnswerLogsIn ==
  ASSUME Answered, LogsInUser(files)
  PROVE  T!Next
<1>1. PICK u \in User, p \in Password, d \in Device, t \in AccessToken,
           r \in RefreshToken \union {None}, v \in UserFile :
        /\ v = IF before[UserAt(u)] = None THEN NewUser(p) ELSE before[UserAt(u)]
        /\ v.password = p /\ ~v.deactivated
        /\ grantedTo[t] = None
        /\ r # None => renews[r] = None
        /\ request = [reply |-> [route |-> "login", status |-> 200,
                                 user |-> u, token |-> t],
                      session |-> [user |-> u, device |-> d], refreshToken |-> r]
        /\ files = LogsIn(before, u, d, t, r, LoggedIn(v, d, t, r))
  BY DEF LogsInUser
<1> DEFINE w == LoggedIn(v, d, t, r)
           o == [accessToken |-> t, refreshToken |-> r]
           s == [user |-> u, device |-> d]
           z == T!NewAccessFile(u, d, r # None)
           left == T!DbDelete(RefreshOf(before), NamedRefresh(before, u, {d}))
<1>2. /\ w \in UserFile /\ w.hasDevices = TRUE
      /\ w.password = v.password /\ w.deactivated = v.deactivated
      /\ w.devices = [v.devices EXCEPT ![d] = o]
  <2>1. w \in UserFile
    BY LoggedInIs
  <2> QED BY <2>1 DEF LoggedIn, UserFile
<1>3. s \in Session /\ s # None
  BY NoneAssumption DEF Session
<1>4. /\ grantedTo' = [grantedTo EXCEPT ![t] = s]
      /\ renews' = [x \in RefreshToken |-> IF x = r THEN s ELSE renews[x]]
      /\ reply' = [route |-> "login", status |-> 200, user |-> u, token |-> t]
  BY <1>1, <1>3 DEF Answered, Answer
<1>5. /\ UsersOf(files) = [UsersOf(before) EXCEPT ![u] = Account(w)]
      /\ DevicesOf(files) = [DevicesOf(before) EXCEPT ![u] = w.devices]
      /\ AccessOf(files) = [T!DbDelete(AccessOf(before), NamedAccess(before, u, {d}))
                              EXCEPT ![t] = z]
      /\ RefreshOf(files) = [x \in RefreshToken |-> IF x = r THEN t ELSE left[x]]
  <2>1. Typed(before) /\ files = LogsIn(before, u, d, t, r, w)
    BY <1>1 DEF Answered
  <2>2. z = NewAccessFile(u, d, r # None) /\ w \in UserFile
    BY <1>2 DEF NewAccessFile, T!NewAccessFile
  <2>3. PICK ds : ds = {d}
    OBVIOUS
  <2> HIDE DEF w, z, left, s, o
  <2>4. /\ UsersOf(files) = [UsersOf(before) EXCEPT ![u] = Account(w)]
        /\ DevicesOf(files) = [DevicesOf(before) EXCEPT ![u] = w.devices]
        /\ AccessOf(files) = [T!DbDelete(AccessOf(before), NamedAccess(before, u, ds))
                                EXCEPT ![t] = z]
        /\ \A y \in RefreshToken : RefreshOf(files)[y] =
              IF y = r THEN t
              ELSE IF y \in NamedRefresh(before, u, ds) THEN None
              ELSE RefreshOf(before)[y]
    BY <2>1, <2>2, <2>3, LogsInMapped
  <2>5. RefreshOf(files) = [x \in RefreshToken |-> IF x = r THEN t ELSE left[x]]
    BY <2>3, <2>4 DEF RefreshOf, T!DbDelete, left
  <2> QED BY <2>3, <2>4, <2>5
<1> HIDE DEF w, s
<1>6. DevicesOf(before)[u] = v.devices
  <2>1. CASE before[UserAt(u)] = None
    <3>1. v = NewUser(p) /\ DevicesOf(before)[u] = NoDevices
      BY <1>1, <2>1, Reads
    <3> QED BY <3>1, NewUsers
  <2>2. CASE before[UserAt(u)] # None
    BY <1>1, <2>2, Reads
  <2> QED BY <2>1, <2>2
<1>7. DevicesOf(files) = [DevicesOf(before) EXCEPT ![u][d] = o]
  BY <1>2, <1>5, <1>6 DEF DevicesOf
<1>8. T!UserLogin(u, d, t, r)
  <2>1. /\ T!AccessTokensOf(u, {d}) = NamedAccess(before, u, {d})
        /\ T!RefreshTokensOf(u, {d}) = NamedRefresh(before, u, {d})
    BY NamedInTokens
  <2>2. s = [user |-> u, device |-> d]
    BY DEF s
  <2> QED BY <1>1, <1>4, <1>5, <1>7, <2>1, <2>2
          DEF Answered, T!UserLogin, T!FreshAccess, T!FreshRefresh
<1>9. Account(w) = [password |-> p, deactivated |-> FALSE, hasDevices |-> TRUE]
  <2>1. v.deactivated = FALSE
    BY <1>1 DEF UserFile
  <2> QED BY <1>1, <1>2, <2>1 DEF Account
<1>10. CASE before[UserAt(u)] = None
  <2>1. UsersOf(before)[u] = None
    BY <1>10, Reads
  <2>2. T!RegisterAndLogin(u, p, d, t, r)
    BY <1>4, <1>5, <1>8, <1>9, <2>1 DEF Answered, T!RegisterAndLogin, T!Answer
  <2> QED BY <2>2 DEF T!Next
<1>11. CASE before[UserAt(u)] # None
  <2>1. v = before[UserAt(u)]
    BY <1>1, <1>11
  <2>2. /\ UsersOf(before)[u] = Account(v) /\ Account(v) # None
        /\ Account(v).password = p /\ ~Account(v).deactivated
    BY <1>1, <1>11, <2>1, Reads
  <2>3. [Account(v) EXCEPT !.hasDevices = TRUE] = Account(w)
    BY <1>2, AccountChanges
  <2>4. UsersOf(files) = [UsersOf(before) EXCEPT ![u].hasDevices = TRUE]
    BY <1>5, <2>2, <2>3 DEF UsersOf
  <2>5. T!Login(u, p, d, t, r)
    BY <1>4, <1>8, <2>2, <2>4 DEF Answered, T!Login, T!Answer
  <2> QED BY <2>5 DEF T!Next
<1> QED BY <1>10, <1>11

LEMMA AnswerRefreshes ==
  ASSUME Answered, Refreshes(files)
  PROVE  T!Next
<1>1. PICK r \in RefreshToken, t \in AccessToken, old \in AccessToken,
           u \in User, d \in Device :
        /\ before[RefreshAt(r)] # None /\ before[RefreshAt(r)].refreshes = old
        /\ before[AccessAt(old)] # None
        /\ before[AccessAt(old)].user = u /\ before[AccessAt(old)].device = d
        /\ before[UserAt(u)] # None /\ before[UserAt(u)].hasDevices
        /\ before[UserAt(u)].devices[d] # None
        /\ grantedTo[t] = None /\ t # old
        /\ request = [reply |-> [route |-> "refresh", status |-> 200,
                                 user |-> u, token |-> t],
                      session |-> renews[r], refreshToken |-> None]
        /\ renews[r] # None
        /\ files = Exchanges(before, r, old, u, d, t, Refreshed(before[UserAt(u)], d, t))
  BY DEF Refreshes
<1> DEFINE v == before[UserAt(u)]
           w == Refreshed(v, d, t)
           z == T!NewAccessFile(u, d, TRUE)
<1>2. v \in UserFile
  BY <1>1, TypedFiles DEF Answered
<1>3. PICK y : y = v.devices[d].refreshToken
  OBVIOUS
<1>4. /\ w \in UserFile
      /\ w.devices = [v.devices EXCEPT ![d] = [accessToken |-> t, refreshToken |-> y]]
      /\ Account(w) = Account(v)
  <2>1. w \in UserFile
    BY <1>1, <1>2, RefreshedIs
  <2>2. w = [v EXCEPT !.devices[d] = [accessToken |-> t, refreshToken |-> y]]
    BY <1>1, <1>3 DEF Refreshed
  <2>3. /\ w.password = v.password /\ w.deactivated = v.deactivated
        /\ w.hasDevices = v.hasDevices
        /\ w.devices = [v.devices EXCEPT ![d] = [accessToken |-> t, refreshToken |-> y]]
    BY <1>2, <2>2 DEF UserFile
  <2> HIDE DEF w
  <2> QED BY <2>1, <2>3 DEF Account
<1>5. /\ UsersOf(files) = UsersOf(before)
      /\ DevicesOf(files) = [DevicesOf(before) EXCEPT ![u][d] =
                               [accessToken |-> t, refreshToken |-> y]]
      /\ AccessOf(files) = [T!DbDelete(AccessOf(before), {old}) EXCEPT ![t] = z]
      /\ RefreshOf(files) = [RefreshOf(before) EXCEPT ![r] = t]
  <2>1. Typed(before) /\ files = Exchanges(before, r, old, u, d, t, w)
    BY <1>1 DEF Answered
  <2>2. z = [user |-> u, device |-> d, expires |-> "later"] /\ w \in UserFile
    BY <1>4 DEF T!NewAccessFile
  <2>3. PICK ds : ds = {old}
    OBVIOUS
  <2> HIDE DEF w, z
  <2>4. /\ UsersOf(files) = [UsersOf(before) EXCEPT ![u] = Account(w)]
        /\ DevicesOf(files) = [DevicesOf(before) EXCEPT ![u] = w.devices]
        /\ AccessOf(files) = [T!DbDelete(AccessOf(before), ds) EXCEPT ![t] = z]
        /\ \A x \in RefreshToken :
              RefreshOf(files)[x] = IF x = r THEN t ELSE RefreshOf(before)[x]
    <3>1. UsersOf(files) = [UsersOf(before) EXCEPT ![u] = Account(w)]
      BY <2>1, <2>2, ExchangesMapped
    <3>2. DevicesOf(files) = [DevicesOf(before) EXCEPT ![u] = w.devices]
      BY <2>1, <2>2, ExchangesMapped
    <3>3. AccessOf(files) = [T!DbDelete(AccessOf(before), ds) EXCEPT ![t] = z]
      BY <2>1, <2>2, <2>3, ExchangesAccess
    <3>4. \A x \in RefreshToken :
              RefreshOf(files)[x] = IF x = r THEN t ELSE RefreshOf(before)[x]
      BY <2>1, <2>2, ExchangesMapped
    <3> QED BY <3>1, <3>2, <3>3, <3>4
  <2>5. UsersOf(before)[u] = Account(w)
    BY <1>1, <1>4, Reads
  <2>6. UsersOf(files) = UsersOf(before)
    BY <2>4, <2>5 DEF UsersOf
  <2>7. DevicesOf(before)[u] = v.devices
    BY <1>1, Reads
  <2>8. DevicesOf(files) = [DevicesOf(before) EXCEPT ![u][d] =
                              [accessToken |-> t, refreshToken |-> y]]
    BY <1>4, <2>4, <2>7 DEF DevicesOf
  <2>9. RefreshOf(files) = [RefreshOf(before) EXCEPT ![r] = t]
    BY <2>4 DEF RefreshOf
  <2> QED BY <2>3, <2>4, <2>6, <2>8, <2>9
<1>6. /\ grantedTo' = [grantedTo EXCEPT ![t] = renews[r]]
      /\ renews' = renews
      /\ reply' = [route |-> "refresh", status |-> 200, user |-> u, token |-> t]
  <2>1. \A x \in RefreshToken : x # None
    BY NoneAssumption
  <2>2. renews = [x \in RefreshToken |-> renews[x]]
    BY DEF Answered, IInv, TypeOK
  <2> QED BY <1>1, <2>1, <2>2 DEF Answered, Answer
<1>7. /\ RefreshOf(before)[r] = old /\ old # None
      /\ AccessOf(before)[old] # None
      /\ AccessOf(before)[old].user = u /\ AccessOf(before)[old].device = d
      /\ UsersOf(before)[u] # None
      /\ DevicesOf(before)[u][d] # None /\ DevicesOf(before)[u][d].refreshToken = y
  <2>1. old # None
    BY NoneAssumption
  <2> QED BY <1>1, <1>2, <1>3, <2>1, Reads
<1> HIDE DEF v, w, z
<1>8. DevicesOf(files) = [DevicesOf(before) EXCEPT ![u][d] =
         [accessToken |-> t,
          refreshToken |-> IF @ = None THEN None ELSE @.refreshToken]]
  BY <1>5, <1>7
<1>9. T!Refresh(r, t)
  BY <1>1, <1>5, <1>6, <1>7, <1>8
     DEF Answered, T!Refresh, T!FreshAccess, T!Answer, z
<1> QED BY <1>9 DEF T!Next

\* The token of the caller, as Tokens sees it.
LEMMA AsksInTokens ==
  ASSUME Answered, NEW t \in AccessToken, NEW u \in User, AskedBy(before, t, u)
  PROVE  /\ T!Authenticates(t)
         /\ AccessOf(Settled)[t].user = u
         /\ AccessOf(Settled)[t].device = before[AccessAt(t)].device
         /\ before[UserAt(u)] \in UserFile
         /\ UsersOf(Settled)[u] = Account(before[UserAt(u)])
         /\ DevicesOf(Settled)[u] = before[UserAt(u)].devices
         /\ T!CanDeleteTokens(u)
<1>1. before[UserAt(u)] \in UserFile /\ before[UserAt(u)] # None
  BY TypedFiles DEF Answered, AskedBy
<1> QED BY <1>1, Reads DEF Answered, AskedBy, T!Authenticates, T!CanDeleteTokens

LEMMA AnswerLogsOut ==
  ASSUME Answered, LogsOut(files)
  PROVE  T!Next
<1>1. PICK u \in User, t \in AccessToken, d \in Device :
        /\ AskedBy(before, t, u)
        /\ d = before[AccessAt(t)].device
        /\ before[UserAt(u)].devices[d] # None
        /\ before[UserAt(u)].devices[d].accessToken = t
        /\ Answers("logout", u, t)
        /\ files = Saves(before, u, {d}, WithoutDevices(before[UserAt(u)], {d}))
  BY DEF LogsOut
<1> DEFINE v == before[UserAt(u)]
           w == WithoutDevices(v, {d})
<1>2. /\ T!Authenticates(t) /\ AccessOf(Settled)[t].user = u
      /\ AccessOf(Settled)[t].device = d
      /\ v \in UserFile /\ v # None
      /\ UsersOf(Settled)[u] = Account(v) /\ DevicesOf(Settled)[u] = v.devices
      /\ T!CanDeleteTokens(u)
  BY <1>1, AsksInTokens DEF AskedBy
<1>3. /\ w \in UserFile
      /\ w.devices = [v.devices EXCEPT ![d] = None]
      /\ Account(w) = Account(v)
  BY <1>2 DEF WithoutDevices, UserFile, Account
<1>4. PICK ds \in SUBSET Device : ds = {d}
  OBVIOUS
<1>5. /\ UsersOf(files) = [UsersOf(before) EXCEPT ![u] = Account(w)]
      /\ DevicesOf(files) = [DevicesOf(before) EXCEPT ![u] = w.devices]
      /\ AccessOf(files) = T!DbDelete(AccessOf(before), NamedAccess(before, u, ds))
      /\ RefreshOf(files) = T!DbDelete(RefreshOf(before), NamedRefresh(before, u, ds))
  <2>1. files = Saves(before, u, ds, w)
    BY <1>1, <1>4
  <2> HIDE DEF w
  <2> QED BY <1>2, <1>3, <2>1, SavesMapped DEF Answered
<1> HIDE DEF w
<1>6. NamedAccess(before, u, ds) = {t}
  BY <1>1, <1>2, <1>4 DEF Answered, NamedAccess
<1>7. UsersOf(files) = UsersOf(before)
  BY <1>2, <1>3, <1>5 DEF Answered, UsersOf
<1>8. DevicesOf(files) = [DevicesOf(before) EXCEPT ![u][d] = None]
  BY <1>2, <1>3, <1>5 DEF Answered, DevicesOf
<1>9. T!CanDeleteToken(u, t)
  BY <1>1, <1>2 DEF T!CanDeleteToken, T!CanDeleteTokens
<1>10. T!RefreshTokensOf(u, {d}) = NamedRefresh(before, u, ds)
  BY <1>4, NamedInTokens
<1>11. T!UserDeleteToken(u, t)
  BY <1>2, <1>5, <1>6, <1>8, <1>9, <1>10 DEF Answered, T!UserDeleteToken
<1>12. T!Logout(t)
  BY <1>1, <1>2, <1>7, <1>9, <1>11 DEF Answered, Answers, T!Logout, T!Answer
<1> QED BY <1>12 DEF T!Next

\* UserDeleteTokens and the save of the user.
LEMMA DeletesInTokens ==
  ASSUME Answered, NEW t \in AccessToken, NEW u \in User, AskedBy(before, t, u),
         NEW exempt, NEW ds, ds = Doomed(before[UserAt(u)], exempt), NEW w \in UserFile,
         \A d \in Device : w.devices[d] = IF d \in ds THEN None
                                          ELSE before[UserAt(u)].devices[d],
         files = Saves(before, u, ds, w)
  PROVE  /\ T!UserDeleteTokens(u, exempt)
         /\ UsersOf(files) = [UsersOf(before) EXCEPT ![u] = Account(w)]
<1> DEFINE v == before[UserAt(u)]
<1>1. /\ T!Authenticates(t) /\ AccessOf(Settled)[t].user = u
      /\ v \in UserFile /\ v # None
      /\ UsersOf(Settled)[u] = Account(v) /\ DevicesOf(Settled)[u] = v.devices
      /\ T!CanDeleteTokens(u)
  BY AsksInTokens DEF AskedBy
<1>2. ds \in SUBSET Device
  BY DEF Doomed
<1>3. /\ UsersOf(files) = [UsersOf(before) EXCEPT ![u] = Account(w)]
      /\ DevicesOf(files) = [DevicesOf(before) EXCEPT ![u] = w.devices]
      /\ AccessOf(files) = T!DbDelete(AccessOf(before), NamedAccess(before, u, ds))
      /\ RefreshOf(files) = T!DbDelete(RefreshOf(before), NamedRefresh(before, u, ds))
  BY <1>1, <1>2, SavesMapped DEF Answered
<1>4. ds = {d \in Device : /\ DevicesOf(Settled)[u][d] # None
                           /\ DevicesOf(Settled)[u][d].accessToken # exempt}
  BY <1>1 DEF Doomed
<1>5. T!DbDelete(v.devices, ds) = w.devices
  <2>1. v.devices \in [Device -> DeviceObject \union {None}]
        /\ w.devices \in [Device -> DeviceObject \union {None}]
    BY <1>1 DEF UserFile
  <2> QED BY <2>1 DEF T!DbDelete
<1>6. /\ T!AccessTokensOf(u, ds) = NamedAccess(before, u, ds)
      /\ T!RefreshTokensOf(u, ds) = NamedRefresh(before, u, ds)
  BY NamedInTokens
<1>7. T!UserDeleteTokens(u, exempt)
  <2>1. /\ AccessOf(Settled)' =
              T!DbDelete(AccessOf(Settled), T!AccessTokensOf(u, ds))
        /\ RefreshOf(Settled)' =
              T!DbDelete(RefreshOf(Settled), T!RefreshTokensOf(u, ds))
        /\ DevicesOf(Settled)' =
              [DevicesOf(Settled) EXCEPT ![u] = T!DbDelete(DevicesOf(Settled)[u], ds)]
    BY <1>1, <1>3, <1>5, <1>6 DEF Answered
  <2> QED BY <1>1, <1>4, <2>1 DEF T!UserDeleteTokens
<1> QED BY <1>3, <1>7

LEMMA AllDoomed ==
  ASSUME NEW v \in UserFile
  PROVE  /\ \A d \in Device : WithoutDevices(v, Device).devices[d] =
              IF d \in Doomed(v, None) THEN None ELSE v.devices[d]
         /\ WithoutDevices(v, Device) \in UserFile
         /\ Account(WithoutDevices(v, Device)) = Account(v)
<1>1. /\ WithoutDevices(v, Device) \in UserFile
      /\ \A d \in Device : WithoutDevices(v, Device).devices[d] = None
      /\ Account(WithoutDevices(v, Device)) = Account(v)
  BY DEF WithoutDevices, UserFile, Account
<1>2. ASSUME NEW d \in Device, v.devices[d] # None
      PROVE  v.devices[d].accessToken # None
  <2>1. v.devices[d] \in DeviceObject
    BY <1>2 DEF UserFile
  <2> QED BY <2>1, NoneAssumption DEF DeviceObject
<1> QED BY <1>1, <1>2 DEF Doomed

LEMMA AnswerLogsOutAll ==
  ASSUME Answered, LogsOutAll(files)
  PROVE  T!Next
<1>1. PICK u \in User, t \in AccessToken :
        /\ AskedBy(before, t, u)
        /\ Answers("logout_all", u, t)
        /\ files = Saves(before, u, Doomed(before[UserAt(u)], None),
                         WithoutDevices(before[UserAt(u)], Device))
  BY DEF LogsOutAll
<1> DEFINE v == before[UserAt(u)]
           w == WithoutDevices(v, Device)
<1>2. /\ T!Authenticates(t) /\ AccessOf(Settled)[t].user = u /\ v \in UserFile
      /\ UsersOf(Settled)[u] = Account(v) /\ T!CanDeleteTokens(u)
  BY <1>1, AsksInTokens
<1>3. T!UserDeleteTokens(u, None) /\ UsersOf(files) = [UsersOf(before) EXCEPT ![u] = Account(v)]
  <2>1. PICK ds : ds = Doomed(v, None)
    OBVIOUS
  <2>2. /\ w \in UserFile /\ Account(w) = Account(v)
        /\ \A d \in Device : w.devices[d] = IF d \in ds THEN None ELSE v.devices[d]
    BY <1>2, <2>1, AllDoomed
  <2>3. files = Saves(before, u, ds, w)
    BY <1>1, <2>1
  <2> HIDE DEF w
  <2> QED BY <1>1, <2>1, <2>2, <2>3, DeletesInTokens
<1>4. UsersOf(files) = UsersOf(before)
  BY <1>2, <1>3 DEF Answered, UsersOf
<1>5. T!LogoutAll(t)
  BY <1>1, <1>2, <1>3, <1>4 DEF Answered, Answers, T!LogoutAll, T!Answer
<1> QED BY <1>5 DEF T!Next

LEMMA AnswerDeactivates ==
  ASSUME Answered, Deactivates(files)
  PROVE  T!Next
<1>1. PICK u \in User, t \in AccessToken :
        /\ AskedBy(before, t, u)
        /\ Answers("deactivate", u, t)
        /\ files = Saves(before, u, Doomed(before[UserAt(u)], None),
                         [WithoutDevices(before[UserAt(u)], Device)
                            EXCEPT !.deactivated = TRUE])
  BY DEF Deactivates
<1> DEFINE v == before[UserAt(u)]
           x == WithoutDevices(v, Device)
           w == [x EXCEPT !.deactivated = TRUE]
<1>2. /\ T!Authenticates(t) /\ AccessOf(Settled)[t].user = u /\ v \in UserFile
      /\ UsersOf(Settled)[u] = Account(v) /\ T!CanDeleteTokens(u)
  BY <1>1, AsksInTokens
<1>3. /\ x \in UserFile /\ Account(x) = Account(v)
      /\ \A d \in Device : x.devices[d] =
            IF d \in Doomed(v, None) THEN None ELSE v.devices[d]
  BY <1>2, AllDoomed
<1> HIDE DEF x
<1>4. /\ w \in UserFile /\ w.devices = x.devices
      /\ w.deactivated = TRUE
      /\ w.password = v.password /\ w.hasDevices = v.hasDevices
  <2>1. x.password = v.password /\ x.hasDevices = v.hasDevices
    BY <1>3, Reads
  <2> QED BY <1>3, <2>1 DEF UserFile
<1>5. T!UserDeleteTokens(u, None) /\ UsersOf(files) = [UsersOf(before) EXCEPT ![u] = Account(w)]
  <2>1. PICK ds : ds = Doomed(v, None)
    OBVIOUS
  <2>2. \A d \in Device : w.devices[d] = IF d \in ds THEN None ELSE v.devices[d]
    BY <1>3, <1>4, <2>1
  <2>3. files = Saves(before, u, ds, w)
    BY <1>1, <2>1 DEF x
  <2>4. w \in UserFile /\ AskedBy(before, t, u)
    BY <1>1, <1>4
  <2> HIDE DEF w
  <2> QED BY <2>1, <2>2, <2>3, <2>4, DeletesInTokens
<1> HIDE DEF w
<1>6. UsersOf(files) = [UsersOf(before) EXCEPT ![u].deactivated = TRUE]
  <2>1. [Account(v) EXCEPT !.deactivated = TRUE] = Account(w)
    BY <1>2, <1>4, AccountChanges
  <2> QED BY <1>2, <1>5, <2>1 DEF Answered, UsersOf
<1>7. T!Deactivate(t)
  BY <1>1, <1>2, <1>5, <1>6 DEF Answered, Answers, T!Deactivate, T!Answer
<1> QED BY <1>7 DEF T!Next

LEMMA AnswerChangesPwd ==
  ASSUME Answered, ChangesPwd(files)
  PROVE  T!Next
<1>1. PICK u \in User, t \in AccessToken, p \in Password, l \in BOOLEAN :
        \E gone :
          /\ AskedBy(before, t, u)
          /\ gone = IF l THEN Doomed(before[UserAt(u)], t) ELSE {}
          /\ Answers(IF l THEN "password_logout" ELSE "password", u, t)
          /\ files = Saves(before, u, gone,
                       [WithoutDevices(before[UserAt(u)], gone) EXCEPT !.password = p])
  BY DEF ChangesPwd
<1>2. PICK gone :
          /\ AskedBy(before, t, u)
          /\ gone = IF l THEN Doomed(before[UserAt(u)], t) ELSE {}
          /\ Answers(IF l THEN "password_logout" ELSE "password", u, t)
          /\ files = Saves(before, u, gone,
                       [WithoutDevices(before[UserAt(u)], gone) EXCEPT !.password = p])
  BY <1>1
<1> DEFINE v == before[UserAt(u)]
           x == WithoutDevices(v, gone)
           w == [x EXCEPT !.password = p]
<1>3. /\ T!Authenticates(t) /\ AccessOf(Settled)[t].user = u /\ v \in UserFile
      /\ UsersOf(Settled)[u] = Account(v) /\ T!CanDeleteTokens(u)
      /\ DevicesOf(Settled)[u] = v.devices
  BY <1>2, AsksInTokens
<1>4. /\ x \in UserFile
      /\ x.deactivated = v.deactivated /\ x.hasDevices = v.hasDevices
      /\ \A d \in Device : x.devices[d] = IF d \in gone THEN None ELSE v.devices[d]
  BY <1>3 DEF WithoutDevices, UserFile
<1> HIDE DEF x
<1>5. /\ w \in UserFile /\ w.devices = x.devices /\ w.password = p
      /\ w.deactivated = v.deactivated /\ w.hasDevices = v.hasDevices
  BY <1>4 DEF UserFile
<1>6. files = Saves(before, u, gone, w)
  BY <1>2 DEF x
<1> HIDE DEF w
<1>7. [Account(v) EXCEPT !.password = p] = Account(w)
  BY <1>3, <1>5, AccountChanges
<1>8. CASE l
  <2>1. T!UserDeleteTokens(u, t) /\ UsersOf(files) = [UsersOf(before) EXCEPT ![u] = Account(w)]
    BY <1>2, <1>4, <1>5, <1>6, <1>8, DeletesInTokens
  <2>2. UsersOf(files) = [UsersOf(before) EXCEPT ![u].password = p]
    <3>1. UsersOf(before)[u] = Account(v)
      BY <1>3 DEF Answered
    <3>2. [UsersOf(before)[u] EXCEPT !.password = p] = Account(w)
      BY <1>7, <3>1
    <3> HIDE DEF v
    <3> QED BY <2>1, <3>2
  <2>3. request.session = None /\ request.reply =
           [route |-> "password_logout", status |-> 200, user |-> u, token |-> t]
    BY <1>2, <1>8 DEF Answers
  <2>4. T!ChangePwd(t, p, TRUE)
    BY <1>3, <2>1, <2>2, <2>3 DEF Answered, T!ChangePwd, T!Answer
  <2> QED BY <2>4 DEF T!Next
<1>9. CASE ~l
  <2>1. gone = {}
    BY <1>2, <1>9
  <2>2. /\ UsersOf(files) = [UsersOf(before) EXCEPT ![u] = Account(w)]
        /\ DevicesOf(files) = [DevicesOf(before) EXCEPT ![u] = w.devices]
        /\ AccessOf(files) = AccessOf(before) /\ RefreshOf(files) = RefreshOf(before)
    <3>1. files = Saves(before, u, {}, w)
      BY <1>6, <2>1
    <3>2. w \in UserFile /\ {} \in SUBSET Device /\ Typed(before)
      BY <1>5 DEF Answered
    <3>3. /\ UsersOf(files) = [UsersOf(before) EXCEPT ![u] = Account(w)]
          /\ DevicesOf(files) = [DevicesOf(before) EXCEPT ![u] = w.devices]
          /\ AccessOf(files) = T!DbDelete(AccessOf(before), NamedAccess(before, u, {}))
          /\ RefreshOf(files) = T!DbDelete(RefreshOf(before), NamedRefresh(before, u, {}))
      BY <3>1, <3>2, SavesMapped
    <3> QED BY <3>3, NamesNothing
  <2>3. w.devices = v.devices
    BY <1>3, <1>4, <1>5, <2>1 DEF UserFile
  <2>4. DevicesOf(files) = DevicesOf(before)
    BY <1>3, <2>2, <2>3 DEF Answered, DevicesOf
  <2>5. UsersOf(files) = [UsersOf(before) EXCEPT ![u].password = p]
    <3>1. UsersOf(before)[u] = Account(v)
      BY <1>3 DEF Answered
    <3> QED BY <1>7, <2>2, <3>1 DEF UsersOf
  <2>6. request.session = None /\ request.reply =
           [route |-> "password", status |-> 200, user |-> u, token |-> t]
    BY <1>2, <1>9 DEF Answers
  <2>7. T!ChangePwd(t, p, FALSE)
    BY <1>3, <2>2, <2>4, <2>5, <2>6 DEF Answered, T!ChangePwd, T!Answer
  <2> QED BY <2>7 DEF T!Next
<1> QED BY <1>8, <1>9

LEMMA AnswerAdministers ==
  ASSUME Answered, Administers(files)
  PROVE  T!Next
<1>1. PICK u \in User, t \in AccessToken, x \in User, l \in BOOLEAN :
        /\ AskedBy(before, t, u)
        /\ before[UserAt(x)] # None
        /\ Answers(IF l THEN "admin_deactivate" ELSE "admin_reactivate", x, t)
        /\ files = Saves(before, x, {}, [before[UserAt(x)] EXCEPT !.deactivated = l])
  BY DEF Administers
<1> DEFINE v == before[UserAt(x)]
           w == [v EXCEPT !.deactivated = l]
<1>2. /\ T!Authenticates(t) /\ v \in UserFile
      /\ UsersOf(before)[x] = Account(v) /\ Account(v) # None
      /\ DevicesOf(before)[x] = v.devices
  <2>1. v \in UserFile
    BY <1>1, TypedFiles DEF Answered
  <2> QED BY <1>1, <2>1, AsksInTokens, Reads
<1>3. /\ w \in UserFile /\ w.devices = v.devices /\ w.deactivated = l
      /\ w.password = v.password /\ w.hasDevices = v.hasDevices
  BY <1>2 DEF UserFile
<1>4. files = Saves(before, x, {}, w)
  BY <1>1
<1> HIDE DEF w
<1>5. /\ UsersOf(files) = [UsersOf(before) EXCEPT ![x] = Account(w)]
      /\ DevicesOf(files) = [DevicesOf(before) EXCEPT ![x] = w.devices]
      /\ AccessOf(files) = AccessOf(before) /\ RefreshOf(files) = RefreshOf(before)
  BY <1>3, <1>4, SavesMapped, NamesNothing DEF Answered
<1>6. DevicesOf(files) = DevicesOf(before)
  BY <1>2, <1>3, <1>5 DEF DevicesOf
<1>7. [Account(v) EXCEPT !.deactivated = l] = Account(w)
  BY <1>2, <1>3, AccountChanges
<1>8. UsersOf(files) = [UsersOf(before) EXCEPT ![x].deactivated = l]
  BY <1>2, <1>5, <1>7 DEF UsersOf
<1>9. CASE l
  <2>1. T!AdminDeactivate(t, x)
    BY <1>1, <1>2, <1>5, <1>6, <1>8, <1>9
       DEF Answered, Answers, T!AdminDeactivate, T!Answer
  <2> QED BY <2>1 DEF T!Next
<1>10. CASE ~l
  <2>1. T!AdminReactivate(t, x)
    BY <1>1, <1>2, <1>5, <1>6, <1>8, <1>10
       DEF Answered, Answers, T!AdminReactivate, T!Answer
  <2> QED BY <2>1 DEF T!Next
<1> QED BY <1>9, <1>10

LEMMA AnswerIsAtomic ==
  ASSUME IInv, WorkInv, Answer, ~crashed
  PROVE  T!Next
<1>1. todo = <<>> /\ request # None
  BY DEF Answer
<1>2. Typed(before) /\ Promised
  BY <1>1 DEF WorkInv
<1>3. PICK a : (Leads(a) \/ SavesSecond(a)) /\ Carries(a)
  BY <1>2 DEF Promised
<1>4. Leads(a)
  BY <1>1, <1>3, SecondLeads
<1>5. \A f \in File : a[f] = files[f]
  BY <1>1, <1>4, NothingToCome DEF Leads
<1>6. a = [f \in File |-> a[f]]
  <2>1. ASSUME NEW u, NEW ds, NEW w, a = Saves(before, u, ds, w)
        PROVE  a = [f \in File |-> a[f]]
    BY <2>1 DEF Saves
  <2>2. ASSUME NEW u, NEW d, NEW t, NEW r, NEW w, a = LogsIn(before, u, d, t, r, w)
        PROVE  a = [f \in File |-> a[f]]
    BY <2>2 DEF LogsIn
  <2>3. ASSUME NEW r, NEW old, NEW u, NEW d, NEW t, NEW w,
               a = Exchanges(before, r, old, u, d, t, w)
        PROVE  a = [f \in File |-> a[f]]
    BY <2>3 DEF Exchanges
  <2>4. Registers(a) \/ LogsOut(a) \/ LogsOutAll(a) \/ ChangesPwd(a)
          \/ Deactivates(a) \/ Administers(a) => \E u, ds, w : a = Saves(before, u, ds, w)
    <3>1. Registers(a) => \E u, ds, w : a = Saves(before, u, ds, w)
      BY DEF Registers
    <3>2. LogsOut(a) => \E u, ds, w : a = Saves(before, u, ds, w)
      BY DEF LogsOut
    <3>3. LogsOutAll(a) => \E u, ds, w : a = Saves(before, u, ds, w)
      BY DEF LogsOutAll
    <3>4. ChangesPwd(a) => \E u, ds, w : a = Saves(before, u, ds, w)
      BY DEF ChangesPwd
    <3>5. Deactivates(a) => \E u, ds, w : a = Saves(before, u, ds, w)
      BY DEF Deactivates
    <3>6. Administers(a) => \E u, ds, w : a = Saves(before, u, ds, w)
      BY DEF Administers
    <3> QED BY <3>1, <3>2, <3>3, <3>4, <3>5, <3>6
  <2>5. LogsInUser(a) => \E u, d, t, r, w : a = LogsIn(before, u, d, t, r, w)
    BY DEF LogsInUser
  <2>6. Refreshes(a) => \E r, old, u, d, t, w : a = Exchanges(before, r, old, u, d, t, w)
    BY DEF Refreshes
  <2> QED BY <1>3, <2>1, <2>2, <2>3, <2>4, <2>5, <2>6 DEF Carries
<1>7. files = [f \in File |-> files[f]]
  BY DEF WorkInv
<1>8. a = files
  BY <1>5, <1>6, <1>7
<1>9. Carries(files) /\ Answered
  BY <1>2, <1>3, <1>8, AnswerSettles
<1> QED BY <1>9, AnswerRegisters, AnswerLogsIn, AnswerRefreshes, AnswerLogsOut,
           AnswerLogsOutAll, AnswerChangesPwd, AnswerDeactivates, AnswerAdministers
        DEF Carries

\* Time passes between two requests.
LEMMA ExpiresInTokens ==
  ASSUME IInv, NEW t \in AccessToken, Expire(t)
  PROVE  T!Expire(t)
<1>1. /\ request = None /\ request' = None
      /\ files[AccessAt(t)] # None /\ files[AccessAt(t)].expires = "later"
      /\ files' = [files EXCEPT ![AccessAt(t)].expires = "past"]
      /\ UNCHANGED <<grantedTo, renews, reply>>
  BY DEF Expire, Exists
<1> DEFINE z == [files[AccessAt(t)] EXCEPT !.expires = "past"]
<1>2. \A f \in File : files'[f] = IF f = AccessAt(t) THEN z ELSE files[f]
  BY <1>1, FileKinds DEF IInv, TypeOK
<1> HIDE DEF z
<1>3. /\ \A u \in User : files'[UserAt(u)] = files[UserAt(u)]
      /\ \A r \in RefreshToken : files'[RefreshAt(r)] = files[RefreshAt(r)]
      /\ \A x \in AccessToken :
            files'[AccessAt(x)] = IF x = t THEN z ELSE files[AccessAt(x)]
  BY <1>2, FileKinds, FileNames
<1>4. Settled = files /\ Settled' = files'
  BY <1>1 DEF Settled
<1>5. /\ UsersOf(Settled)' = UsersOf(Settled)
      /\ DevicesOf(Settled)' = DevicesOf(Settled)
      /\ RefreshOf(Settled)' = RefreshOf(Settled)
  BY <1>3, <1>4 DEF UsersOf, DevicesOf, RefreshOf
<1>6. AccessOf(Settled)' = [AccessOf(Settled) EXCEPT ![t] = z]
  BY <1>3, <1>4 DEF AccessOf
<1>7. AccessOf(Settled)[t] = files[AccessAt(t)]
  BY <1>4, Reads
<1>8. AccessOf(Settled)' = [AccessOf(Settled) EXCEPT ![t].expires = "past"]
  BY <1>6, <1>7 DEF z
<1> QED BY <1>1, <1>5, <1>7, <1>8 DEF T!Expire

\* What happens while a request is under way cannot be seen in Tokens.
LEMMA SettledStays ==
  ASSUME Settled' = Settled, UNCHANGED <<grantedTo, renews, reply>>
  PROVE  UNCHANGED T!vars
BY DEF T!vars, UsersOf, DevicesOf, AccessOf, RefreshOf

LEMMA NextIsAtomic ==
  ASSUME IInv, WorkInv, [Next]_vars
  PROVE  crashed' \/ UNCHANGED T!vars \/ T!Next
<1> SUFFICES ASSUME ~crashed' PROVE UNCHANGED T!vars \/ T!Next
  OBVIOUS
<1>1. CASE request = None /\ Request
  <2>1. Settled' = Settled /\ UNCHANGED <<grantedTo, renews, reply>>
    BY <1>1, RequestBegins DEF Settled
  <2> QED BY <2>1, SettledStays
<1>2. CASE Step \/ Visit
  <2>1. UNCHANGED <<request, before, grantedTo, renews, reply>>
    BY <1>2 DEF Step, Visit
  <2>2. request # None
    BY <1>2, StepTakesCall, VisitTakesDevice
  <2>3. Settled' = Settled
    BY <2>1, <2>2 DEF Settled
  <2> QED BY <2>1, <2>3, SettledStays
<1>3. CASE Answer
  <2>1. ~crashed
    BY <1>3 DEF Answer
  <2> QED BY <1>3, <2>1, AnswerIsAtomic
<1>4. CASE Crash
  BY <1>4 DEF Crash
<1>5. ASSUME NEW t \in AccessToken, Expire(t) PROVE T!Next
  BY <1>5, ExpiresInTokens DEF T!Next
<1>6. CASE UNCHANGED vars
  <2>1. Settled' = Settled /\ UNCHANGED <<grantedTo, renews, reply>>
    BY <1>6 DEF vars, Settled
  <2> QED BY <2>1, SettledStays
<1> QED BY <1>1, <1>2, <1>3, <1>4, <1>5, <1>6 DEF Next

\* No file maps to no user, no device and no token.
LEMMA InitIsAtomic == Init => T!Init
<1> SUFFICES ASSUME Init PROVE T!Init
  OBVIOUS
<1>1. Settled = files /\ \A f \in File : files[f] = None
  BY DEF Init, Settled
<1>2. UsersOf(Settled) = [u \in User |-> None]
  BY <1>1, FileKinds DEF UsersOf
<1>3. DevicesOf(Settled) = [u \in User |-> [d \in Device |-> None]]
  BY <1>1, FileKinds DEF DevicesOf, NoDevices
<1>4. AccessOf(Settled) = [t \in AccessToken |-> None]
  BY <1>1, FileKinds DEF AccessOf
<1>5. RefreshOf(Settled) = [r \in RefreshToken |-> None]
  BY <1>1, FileKinds DEF RefreshOf
<1> QED BY <1>2, <1>3, <1>4, <1>5 DEF T!Init, Init, NoReply

\* Until the process dies the requests of RouteLogin.c, RouteRefresh.c,
\* RouteLogout.c and the rest are atomic to their clients: the calls to the
\* database that make them up are, together with the answer, one step of
\* Tokens.
THEOREM CrashFreeImplementsTokens == Spec => ImplementsTokens
<1>1. Init => WorkInv
  BY DEF Init, WorkInv
<1>2. IInv /\ WorkInv /\ [Next]_vars => WorkInv'
  BY WorkNext
<1>3. IInv /\ WorkInv /\ [Next]_vars
         => [crashed' \/ UNCHANGED T!vars \/ T!Next]_vars
  BY NextIsAtomic
<1> QED BY <1>1, <1>2, <1>3, InitIsAtomic, CrashInvariant, PTL DEF Spec, ImplementsTokens
=============================================================================
