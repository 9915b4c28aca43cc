-------------------------- MODULE TokensDb_requests --------------------------
(***************************************************************************)
(* Each route begins with a list of calls that the invariant of            *)
(* TokensDb_proofs allows; with the steps of that module it holds for      *)
(* ever.  From it follow, for any number of users, devices, tokens and     *)
(* crashes, the properties of TokensDb and that it implements Sessions.    *)
(***************************************************************************)
EXTENDS TokensDb_proofs

LockCall(f) == [call |-> "lock", file |-> f, value |-> None]
CreateCall(f) == [call |-> "create", file |-> f, value |-> Empty(f)]
UnlockCall(f, v) == [call |-> "unlock", file |-> f, value |-> v]
DeleteCall(f) == [call |-> "delete", file |-> f, value |-> None]
VisitCall(f, ds) == [call |-> "visit", file |-> f, value |-> ds]

\* A request is about to be answered; nothing is written yet.
Starts ==
    /\ request = None /\ todo = <<>>
    /\ UNCHANGED <<files, grantedTo, renews, reply, crashed>>

-----------------------------------------------------------------------------
(* What the calls of a request come to                                      *)

\* Once the calls are made the files are those of a.
Leads(a) ==
    \A f \in File :
        IF f \in TokenFile /\ Doom(f) THEN a[f] = None
        ELSE IF Unlocks(f) # {} THEN \A c \in Unlocks(f) : c.value = a[f]
        ELSE a[f] = files[f]

\* The administrator's file is saved as it is before the other user's, which
\* may be the same file.
SavesSecond(a) ==
    \E u, w \in User, v \in UserFile :
        /\ Exists(UserAt(u))
        /\ todo = DbUnlock(UserAt(u), files[UserAt(u)]) \o DbUnlock(UserAt(w), v)
        /\ a = [f \in File |-> IF f = UserAt(w) THEN v ELSE files[f]]

\* User u is saved as w, and the tokens that its devices in ds named are gone.
Saves(b, u, ds, w) ==
    [f \in File |->
        IF f = UserAt(u) THEN w
        ELSE IF f \in TokenFile /\ \E d \in ds : Names(b[UserAt(u)], d, f) THEN None
        ELSE b[f]]

\* The device d of u has new tokens.
LogsIn(b, u, d, t, r, w) ==
    [f \in File |->
        IF f = UserAt(u) THEN w
        ELSE IF f = AccessAt(t) THEN NewAccessFile(u, d, r # None)
        ELSE IF r # None /\ f = RefreshAt(r) THEN [refreshes |-> t]
        ELSE IF f \in TokenFile /\ b[UserAt(u)] # None /\ Names(b[UserAt(u)], d, f)
        THEN None ELSE b[f]]

\* The access token old of a device is exchanged for t.
Exchanges(b, r, old, u, d, t, w) ==
    [f \in File |->
        IF f = UserAt(u) THEN w
        ELSE IF f = AccessAt(t) THEN NewAccessFile(u, d, TRUE)
        ELSE IF f = RefreshAt(r) THEN [refreshes |-> t]
        ELSE IF f = AccessAt(old) THEN None ELSE b[f]]

\* What each route makes of the files it found, and its answer.
Answers(route, u, t) ==
    /\ request.session = None
    /\ request.reply = [route |-> route, status |-> 200, user |-> u, token |-> t]
AskedBy(b, t, u) ==
    /\ b[AccessAt(t)] # None
    /\ b[AccessAt(t)].user = u
    /\ b[AccessAt(t)].expires # "past"
    /\ b[UserAt(u)] # None
    /\ b[UserAt(u)].hasDevices

Registers(a) ==
    \E u \in User, p \in Password :
        /\ before[UserAt(u)] = None
        /\ Answers("register", u, None)
        /\ a = Saves(before, u, {}, NewUser(p))
LogsInUser(a) ==
    \E u \in User, p \in Password, d \in Device, t \in AccessToken,
       r \in RefreshToken \union {None}, v \in UserFile :
        /\ v = IF before[UserAt(u)] = None THEN NewUser(p) ELSE before[UserAt(u)]
        /\ v.password = p /\ ~v.deactivated
        /\ grantedTo[t] = None
        /\ r # None => renews[r] = None
        /\ request = [reply |-> [route |-> "login", status |-> 200,
                                 user |-> u, token |-> t],
                      session |-> [user |-> u, device |-> d], refreshToken |-> r]
        /\ a = LogsIn(before, u, d, t, r, LoggedIn(v, d, t, r))
Refreshes(a) ==
    \E r \in RefreshToken, t \in AccessToken, old \in AccessToken,
       u \in User, d \in Device :
        /\ before[RefreshAt(r)] # None /\ before[RefreshAt(r)].refreshes = old
        /\ before[AccessAt(old)] # None
        /\ before[AccessAt(old)].user = u /\ before[AccessAt(old)].device = d
        /\ before[UserAt(u)] # None /\ before[UserAt(u)].hasDevices
        /\ before[UserAt(u)].devices[d] # None
        /\ grantedTo[t] = None /\ t # old
        /\ request = [reply |-> [route |-> "refresh", status |-> 200,
                                 user |-> u, token |-> t],
                      session |-> renews[r], refreshToken |-> None]
        /\ renews[r] # None
        /\ a = Exchanges(before, r, old, u, d, t, Refreshed(before[UserAt(u)], d, t))
LogsOut(a) ==
    \E u \in User, t \in AccessToken, d \in Device :
        /\ AskedBy(before, t, u)
        /\ d = before[AccessAt(t)].device
        /\ before[UserAt(u)].devices[d] # None
        /\ before[UserAt(u)].devices[d].accessToken = t
        /\ Answers("logout", u, t)
        /\ a = Saves(before, u, {d}, WithoutDevices(before[UserAt(u)], {d}))
LogsOutAll(a) ==
    \E u \in User, t \in AccessToken :
        /\ AskedBy(before, t, u)
        /\ Answers("logout_all", u, t)
        /\ a = Saves(before, u, Doomed(before[UserAt(u)], None),
                     WithoutDevices(before[UserAt(u)], Device))
ChangesPwd(a) ==
    \E u \in User, t \in AccessToken, p \in Password, logoutDevices \in BOOLEAN : \E gone :
        /\ AskedBy(before, t, u)
        /\ gone = IF logoutDevices THEN Doomed(before[UserAt(u)], t) ELSE {}
        /\ Answers(IF logoutDevices THEN "password_logout" ELSE "password", u, t)
        /\ a = Saves(before, u, gone,
                     [WithoutDevices(before[UserAt(u)], gone) EXCEPT !.password = p])
Deactivates(a) ==
    \E u \in User, t \in AccessToken :
        /\ AskedBy(before, t, u)
        /\ Answers("deactivate", u, t)
        /\ a = Saves(before, u, Doomed(before[UserAt(u)], None),
                     [WithoutDevices(before[UserAt(u)], Device)
                        EXCEPT !.deactivated = TRUE])
Administers(a) ==
    \E u \in User, t \in AccessToken, w \in User, deactivated \in BOOLEAN :
        /\ AskedBy(before, t, u)
        /\ before[UserAt(w)] # None
        /\ Answers(IF deactivated THEN "admin_deactivate" ELSE "admin_reactivate", w, t)
        /\ a = Saves(before, w, {},
                     [before[UserAt(w)] EXCEPT !.deactivated = deactivated])
Carries(a) ==
    \/ Registers(a) \/ LogsInUser(a) \/ Refreshes(a)
    \/ LogsOut(a) \/ LogsOutAll(a) \/ ChangesPwd(a) \/ Deactivates(a) \/ Administers(a)

\* The files will be what the request makes of those it found.
Promised == \E a : (Leads(a) \/ SavesSecond(a)) /\ Carries(a)

-----------------------------------------------------------------------------
(* Sequences of calls *)

LEMMA CallTypes ==
  /\ \A f \in File : LockCall(f) \in Call /\ CreateCall(f) \in Call /\ DeleteCall(f) \in Call
  /\ \A f \in File : \A v \in Content(f) : UnlockCall(f, v) \in Call
  /\ \A f \in File, ds \in SUBSET Device : VisitCall(f, ds) \in Call
<1>1. ASSUME NEW f \in File
      PROVE  /\ Content(f) \subseteq UserFile \union AccessFile \union RefreshFile
             /\ Empty(f) \in Content(f)
  <2>1. f[1] \in {"users", "access", "refresh"}
    BY DEF File
  <2>2. [password |-> None, deactivated |-> FALSE, hasDevices |-> FALSE,
         devices |-> [d \in Device |-> None]] \in UserFile
    BY DEF UserFile
  <2>3. [user |-> None, device |-> None, expires |-> "never"] \in AccessFile
    BY DEF AccessFile
  <2>4. [refreshes |-> None] \in RefreshFile
    BY DEF RefreshFile
  <2> QED BY <2>1, <2>2, <2>3, <2>4 DEF Empty, Content
<1>2. \A f \in File : LockCall(f) \in Call /\ DeleteCall(f) \in Call
  BY DEF LockCall, DeleteCall, Call
<1>3. \A f \in File : \A v \in Content(f) : UnlockCall(f, v) \in Call
  BY <1>1 DEF UnlockCall, Call
<1>4. \A f \in File : CreateCall(f) \in Call
  BY <1>1 DEF CreateCall, Call
<1>5. \A f \in File, ds \in SUBSET Device : VisitCall(f, ds) \in Call
  BY DEF VisitCall, Call
<1> QED BY <1>2, <1>3, <1>4, <1>5

\* A file is created and saved.
LEMMA Saved ==
  ASSUME NEW f \in File, NEW v \in Content(f)
  PROVE  LET s == DbCreate(f) \o DbUnlock(f, v)
         IN  /\ s \in Seq(Call) /\ Ordered(s)
             /\ CallsIn(s) = {CreateCall(f), UnlockCall(f, v)}
<1>1. CreateCall(f) \in Call /\ UnlockCall(f, v) \in Call
  BY CallTypes
<1>2. DbCreate(f) = <<CreateCall(f)>> /\ DbUnlock(f, v) = <<UnlockCall(f, v)>>
  BY DEF DbCreate, DbUnlock, CreateCall, UnlockCall
<1>3. Before(CreateCall(f), UnlockCall(f, v))
  BY DEF Before, CreateCall, UnlockCall
<1>4. /\ <<CreateCall(f)>> \in Seq(Call) /\ <<UnlockCall(f, v)>> \in Seq(Call)
      /\ Ordered(<<CreateCall(f)>>) /\ Ordered(<<UnlockCall(f, v)>>)
      /\ CallsIn(<<CreateCall(f)>>) = {CreateCall(f)}
      /\ CallsIn(<<UnlockCall(f, v)>>) = {UnlockCall(f, v)}
  BY <1>1, One
<1> DEFINE a == <<CreateCall(f)>>
           b == <<UnlockCall(f, v)>>
<1>5. \A x \in CallsIn(a), y \in CallsIn(b) : Before(x, y)
  BY <1>3, <1>4
<1> HIDE DEF a, b
<1>6. a \o b \in Seq(Call) /\ Ordered(a \o b) /\ CallsIn(a \o b) = CallsIn(a) \union CallsIn(b)
  BY <1>4, <1>5, Joined DEF a, b
<1> QED BY <1>2, <1>4, <1>6 DEF a, b

\* One more call at the end.
LEMMA Then ==
  ASSUME NEW s \in Seq(Call), Ordered(s), NEW c \in Call,
         \A a \in CallsIn(s) : Before(a, c)
  PROVE  /\ s \o <<c>> \in Seq(Call) /\ Ordered(s \o <<c>>)
         /\ CallsIn(s \o <<c>>) = CallsIn(s) \union {c}
<1>1. /\ <<c>> \in Seq(Call) /\ Ordered(<<c>>) /\ CallsIn(<<c>>) = {c}
  BY One
<1>2. \A a \in CallsIn(s), b \in CallsIn(<<c>>) : Before(a, b)
  BY <1>1
<1> QED BY <1>1, <1>2, Joined

-----------------------------------------------------------------------------
(* The beginning of a request *)

LEMMA Begun ==
  ASSUME Starts
  PROVE  /\ \A f : /\ HolderOf(f)' = HolderOf(f)
                   /\ KnownFile(f)' <=> KnownFile(f)
                   /\ Exists(f)' <=> Exists(f)
         /\ \A t : Unnamed(t)' <=> Unnamed(t)
         /\ \A t : Known(t)' <=> Known(t)
         /\ \A r : KnownRefresh(r)' <=> KnownRefresh(r)
         /\ Calls = {} /\ \A f : ~Doom(f)
<1>1. \A f : HolderOf(f)' = HolderOf(f) /\ (Exists(f)' <=> Exists(f))
  BY DEF Starts, HolderOf, Exists
<1>2. \A f : KnownFile(f)' <=> KnownFile(f)
  BY <1>1 DEF KnownFile
<1>3. \A t : Known(t)' <=> Known(t)
  BY <1>1 DEF Known, Starts
<1>4. \A r : KnownRefresh(r)' <=> KnownRefresh(r)
  BY <1>1 DEF KnownRefresh, Starts
<1>5. \A t : Unnamed(t)' <=> Unnamed(t)
  BY <1>1 DEF Unnamed, Starts, Names, Exists
<1>6. Calls = {} /\ \A f : ~Doom(f)
  BY NothingToCome DEF Starts
<1> QED BY <1>1, <1>2, <1>3, <1>4, <1>5, <1>6

LEMMA BeginKeeps ==
  ASSUME IInv, Starts, held' \subseteq File, OrderInv', request' \in UnderWay,
         CallsInv', LockInv', DanglingInv', GrantInv', PromiseInv'
  PROVE  IInv'
<1>1. UNCHANGED <<files, grantedTo, renews, reply, crashed>>
  BY DEF Starts
<1>2. request' # None
  BY NoneAssumption
<1>3. TypeOK'
  <2>1. \A i \in DOMAIN todo' : todo'[i].file \in File
    <3>1. \A s \in Seq(Call) : \A i \in DOMAIN s : s[i].file \in File
      BY CallsAreCalls DEF CallsIn, Call
    <3>2. todo' \in Seq(Call)
      BY DEF OrderInv
    <3> QED BY <3>1, <3>2
  <2> QED BY <1>1, <1>2, <2>1 DEF IInv, TypeOK
<1>4. NamedInv' /\ AccessInv'
  BY <1>1 DEF IInv, NamedInv, AccessInv, KnownFile, HolderOf, Known, Exists, Names, AccessIs
<1>5. RefreshInv' /\ DeviceInv' /\ TwinInv'
  <2>1. RefreshInv'
    BY <1>1 DEF IInv, RefreshInv, KnownRefresh, Exists, AccessIs
  <2>2. DeviceInv'
    <3>1. DeviceInv
      BY DEF IInv
    <3> SUFFICES ASSUME NEW u \in User, NEW d \in Device,
                        Exists(UserAt(u))', files'[UserAt(u)].devices[d] # None
                 PROVE  (/\ files[UserAt(u)].hasDevices
                         /\ LET o == files[UserAt(u)].devices[d]
                            IN  Exists(AccessAt(o.accessToken)) =>
                                  AccessIs(files[AccessAt(o.accessToken)],
                                           [user |-> u, device |-> d]))'
      BY DEF DeviceInv
    <3> QED BY <1>1, <3>1 DEF DeviceInv, Exists, AccessIs
  <2>3. TwinInv'
    BY <1>1 DEF IInv, TwinInv, KnownRefresh, Known, Exists
  <2> QED BY <2>1, <2>2, <2>3
<1>6. LocksReturned' /\ AnswersKeepPromises'
  BY <1>2 DEF LocksReturned, AnswersKeepPromises
<1> QED BY <1>3, <1>4, <1>5, <1>6 DEF IInv

\* A user file may be saved with another value for the devices in ds if every
\* token they name will be void, is named again, or is the one of the answer.
LEMMA SavesUser ==
  ASSUME IInv, Starts, NEW u \in User, NEW v \in UserFile, NEW ds,
         Exists(UserAt(u)) \/ ds = Device,
         \A d \in Device \ ds : v.devices[d] = files[UserAt(u)].devices[d],
         \A d \in Device : v.devices[d] # None => v.hasDevices,
         \A d \in ds : v.devices[d] # None =>
            /\ request'.session = [user |-> u, device |-> d]
            /\ request'.reply.token = v.devices[d].accessToken,
         \A f \in TokenFile, d \in ds :
            KnownFile(f) /\ Exists(UserAt(u)) /\ Names(files[UserAt(u)], d, f)
              => Doom(f)' \/ Names(v, d, f)
  PROVE  UnlockOK(UnlockCall(UserAt(u), v))'
<1> DEFINE U == UserAt(u)
<1>1. UnlockCall(U, v).file = U /\ UnlockCall(U, v).value = v
  BY DEF UnlockCall
<1>2. v \in Content(U)
  BY FileKinds DEF Content
<1>3. \A w \in User : U = UserAt(w) => w = u
  BY FileNames
<1>4. \A t : U # AccessAt(t) /\ U # RefreshAt(t)
  BY FileNames
<1>5. ASSUME NEW f \in TokenFile, KnownFile(f)', HolderOf(f)'.user = u
      PROVE  Names(v, HolderOf(f)'.device, f) \/ Doom(f)'
  <2>1. KnownFile(f) /\ HolderOf(f)' = HolderOf(f) /\ HolderOf(f).user = u
    BY <1>5, Begun
  <2>2. Exists(U) /\ Names(files[U], HolderOf(f).device, f) /\ HolderOf(f).device \in Device
    BY <2>1, Holders DEF IInv, NamedInv, KnownFile
  <2>3. CASE HolderOf(f).device \in ds
    BY <2>1, <2>2, <2>3
  <2>4. CASE HolderOf(f).device \notin ds
    BY <2>1, <2>2, <2>4 DEF Names
  <2> QED BY <2>3, <2>4
<1>6. ASSUME NEW d \in Device, v.devices[d] # None
      PROVE  \/ /\ files'[U] # None
                /\ Names(files'[U], d, AccessAt(v.devices[d].accessToken))
             \/ /\ request'.session = [user |-> u, device |-> d]
                /\ request'.reply.token = v.devices[d].accessToken
  <2>1. CASE d \in ds
    BY <1>6, <2>1
  <2>2. CASE d \notin ds
    <3>1. Exists(U) /\ v.devices[d] = files[U].devices[d] /\ files' = files
      BY <2>2 DEF Starts
    <3> QED BY <1>6, <3>1 DEF Names, Exists, AccessAt
  <2> QED BY <2>1, <2>2
<1> QED BY <1>1, <1>2, <1>3, <1>4, <1>5, <1>6 DEF UnlockOK, Exists, Names

LEMMA SavesDevices ==
  ASSUME IInv, Starts, NEW u \in User, Exists(UserAt(u)), NEW v \in UserFile,
         v.devices = files[UserAt(u)].devices,
         \A d \in Device : v.devices[d] # None => v.hasDevices
  PROVE  UnlockOK(UnlockCall(UserAt(u), v))'
<1>1. PICK ds : ds = {}
  OBVIOUS
<1>2. \A d \in Device \ ds : v.devices[d] = files[UserAt(u)].devices[d]
  OBVIOUS
<1>3. \A d \in ds : FALSE
  BY <1>1
<1> QED BY <1>2, <1>3, SavesUser

\* A refresh token goes with the access token it refreshes.
LEMMA DoomedTogether ==
  ASSUME IInv, Starts, NEW u \in User, NEW ds,
         \A a \in AccessToken : Doom(AccessAt(a))' =>
            Exists(UserAt(u)) /\ \E d \in ds : Names(files[UserAt(u)], d, AccessAt(a)),
         \A x \in RefreshToken, d \in ds :
            Exists(UserAt(u)) /\ KnownRefresh(x)
              /\ Names(files[UserAt(u)], d, RefreshAt(x)) => Renamed(x)',
         ds \subseteq Device
  PROVE  DanglingInv'
<1> SUFFICES ASSUME ~crashed, NEW x \in RefreshToken, KnownRefresh(x),
                    NEW a, a = files[RefreshAt(x)].refreshes
             PROVE  (files[AccessAt(a)] # None /\ ~Doom(AccessAt(a))') \/ Renamed(x)'
  BY Begun DEF DanglingInv, Exists, Starts
<1>1. todo = <<>>
  BY DEF Starts
<1>2. a \in AccessToken /\ Exists(AccessAt(a)) /\ AccessIs(files[AccessAt(a)], renews[x])
  <2>1. a \in AccessToken /\ (Exists(AccessAt(a)) => AccessIs(files[AccessAt(a)], renews[x]))
    BY DEF IInv, RefreshInv
  <2>2. Exists(AccessAt(a))
    BY <1>1, NothingToCome DEF IInv, DanglingInv, Renamed
  <2> QED BY <2>1, <2>2
<1>3. CASE Doom(AccessAt(a))'
  <2>1. PICK d \in ds : Names(files[UserAt(u)], d, AccessAt(a))
    BY <1>2, <1>3
  <2>2. Exists(UserAt(u)) /\ d \in Device
    BY <1>2, <1>3
  <2>3. /\ files[UserAt(u)].devices[d] # None
        /\ files[UserAt(u)].devices[d].accessToken = a
    BY <1>2, <2>1, FileKinds DEF Names
  <2>4. AccessIs(files[AccessAt(a)], [user |-> u, device |-> d])
    BY <1>2, <2>2, <2>3 DEF IInv, DeviceInv
  <2>5. renews[x].user = u /\ renews[x].device = d
    BY <1>2, <2>4 DEF AccessIs
  <2>6. Names(files[UserAt(u)], d, RefreshAt(x))
    BY <2>5, Holders, FileKinds DEF IInv, NamedInv
  <2> QED BY <2>1, <2>2, <2>6
<1> QED BY <1>2, <1>3 DEF Exists

\* Nothing is deleted, nothing is left dangling.
LEMMA NoneDangling ==
  ASSUME IInv, Starts, \A a \in AccessToken : ~Doom(AccessAt(a))'
  PROVE  DanglingInv'
<1> SUFFICES ASSUME ~crashed, NEW x \in RefreshToken, KnownRefresh(x)
             PROVE  /\ files[AccessAt(files[RefreshAt(x)].refreshes)] # None
                    /\ files[RefreshAt(x)].refreshes \in AccessToken
  BY Begun DEF DanglingInv, Exists, Starts
<1> QED BY NothingToCome DEF IInv, DanglingInv, RefreshInv, Renamed, Starts, Exists

\* Tokens of a device are void as soon as what the device names is.
LEMMA Revoking ==
  ASSUME IInv, Starts, NEW u \in User, NEW es,
         \A f \in TokenFile, d \in Device :
            d \in es /\ Exists(UserAt(u)) /\ Names(files[UserAt(u)], d, f) => Doom(f)'
  PROVE  \A f \in TokenFile :
            KnownFile(f)' /\ HolderOf(f)'.user = u /\ HolderOf(f)'.device \in es
              => Doom(f)'
<1> SUFFICES ASSUME NEW f \in TokenFile, KnownFile(f), HolderOf(f).user = u,
                    HolderOf(f).device \in es
             PROVE  Doom(f)'
  BY Begun
<1>1. Exists(UserAt(u)) /\ Names(files[UserAt(u)], HolderOf(f).device, f)
      /\ HolderOf(f).device \in Device
  BY Holders DEF IInv, NamedInv, KnownFile
<1> QED BY <1>1

LEMMA WithoutSession ==
  ASSUME request' # None, request'.session = None
  PROVE  GrantInv'
BY DEF GrantInv

LEMMA Contents ==
  ASSUME TypeOK
  PROVE  /\ \A u \in User : Exists(UserAt(u)) => files[UserAt(u)] \in UserFile
         /\ \A t \in AccessToken : Exists(AccessAt(t)) => files[AccessAt(t)] \in AccessFile
         /\ \A r \in RefreshToken : Exists(RefreshAt(r)) => files[RefreshAt(r)] \in RefreshFile
BY FileKinds DEF TypeOK, Content, Exists

LEMMA SavesLeads ==
  ASSUME Starts, NEW u \in User, NEW ds, NEW w,
         \A f \in TokenFile : Doom(f)' <=> \E d \in ds : Names(files[UserAt(u)], d, f),
         UnlockCall(UserAt(u), w) \in Calls',
         \A c \in Calls' : c.call = "unlock" =>
            \/ c.file = UserAt(u) /\ c.value = w
            \/ c.file \in TokenFile /\ Doom(c.file)',
         NEW a, a = Saves(files, u, ds, w)
  PROVE  Leads(a)'
<1> DEFINE U == UserAt(u)
<1> SUFFICES ASSUME NEW f \in File
             PROVE  IF f \in TokenFile /\ Doom(f)' THEN a[f] = None
                    ELSE IF Unlocks(f)' # {} THEN \A c \in Unlocks(f)' : c.value = a[f]
                    ELSE a[f] = files'[f]
  BY DEF Leads
<1>1. /\ files' = files
      /\ a[f] = IF f = U THEN w
                ELSE IF f \in TokenFile /\ \E d \in ds : Names(files[U], d, f) THEN None
                ELSE files[f]
  BY DEF Saves, Starts
<1>2. CASE f = U
  <2>1. f \notin TokenFile
    BY <1>2, FileKinds
  <2>2. UnlockCall(U, w) \in Unlocks(f)'
    BY <1>2 DEF Unlocks, UnlockCall
  <2>3. \A c \in Unlocks(f)' : c.value = w
    BY <1>2, <2>1 DEF Unlocks
  <2> QED BY <1>1, <1>2, <2>1, <2>2, <2>3
<1>3. CASE f # U
  <2>1. \A c \in Unlocks(f)' : f \in TokenFile /\ Doom(f)'
    BY <1>3 DEF Unlocks
  <2> QED BY <1>1, <1>3, <2>1
<1> QED BY <1>2, <1>3

\* The caller of a route has a device.
LEMMA Caller ==
  ASSUME IInv, NEW t \in AccessToken, NEW u \in User, Authenticates(t, u)
  PROVE  AskedBy(files, t, u)
<1>1. Known(t) /\ files[AccessAt(t)].user = u
  BY DEF Authenticates, Known
<1>2. AccessIs(files[AccessAt(t)], grantedTo[t])
  BY <1>1 DEF IInv, AccessInv
<1>3. KnownFile(AccessAt(t)) /\ HolderOf(AccessAt(t)) = grantedTo[t] /\ AccessAt(t) \in TokenFile
  BY <1>1, FileKinds, Holders DEF IInv
<1>4. PICK d : d = grantedTo[t].device
  OBVIOUS
<1>5. d \in Device /\ Names(files[UserAt(u)], d, AccessAt(t)) /\ Exists(UserAt(u))
  BY <1>1, <1>2, <1>3, <1>4, Holders DEF IInv, NamedInv, KnownFile, AccessIs
<1>6. files[UserAt(u)].hasDevices
  BY <1>5 DEF IInv, DeviceInv, Names
<1> QED BY <1>5, <1>6 DEF AskedBy, Authenticates, Exists

-----------------------------------------------------------------------------
(* UserDeleteTokens and a save: logout of all devices, a new password, the  *)
(* end of an account                                                        *)

LEMMA DeletesDevices ==
  ASSUME IInv, Starts, NEW u \in User, Exists(UserAt(u)), NEW ds \in SUBSET Device,
         \A d \in ds : files[UserAt(u)].devices[d] # None,
         NEW w \in UserFile, w.hasDevices = files[UserAt(u)].hasDevices,
         \A d \in Device :
            w.devices[d] = IF d \in ds THEN None ELSE files[UserAt(u)].devices[d],
         todo' = UserDeleteTokens(u, ds) \o DbUnlock(UserAt(u), w),
         held' = {UserAt(u)}
  PROVE  /\ OrderInv' /\ CallsInv' /\ LockInv' /\ DanglingInv'
         /\ held' \subseteq File
         /\ \A f \in TokenFile :
               Doom(f)' <=> \E d \in ds : Names(files[UserAt(u)], d, f)
         /\ \A z : z = Saves(files, u, ds, w) => Leads(z)'
<1> DEFINE U == UserAt(u)
           a == UnlockCall(U, w)
           b == VisitCall(U, ds)
           C == (IF ds = {} THEN {} ELSE {b}) \union {a}
<1>1. U \in File /\ IsUser(U) /\ a \in Call /\ b \in Call
  BY FileKinds, CallTypes DEF Content
<1>2. todo' \in Seq(Call) /\ Ordered(todo') /\ Calls' = C
  <2>1. DbUnlock(U, w) = <<a>>
    BY DEF DbUnlock, UnlockCall
  <2>2. CASE ds = {}
    <3>1. todo' = <<>> \o <<a>>
      BY <2>1, <2>2 DEF UserDeleteTokens
    <3> QED BY <1>1, <2>2, <3>1, NoCall, Then DEF Calls
  <2>3. CASE ds # {}
    <3>1. todo' = <<b>> \o <<a>>
      BY <2>1, <2>3 DEF UserDeleteTokens, VisitCall
    <3>2. Before(b, a)
      BY <1>1 DEF Before, VisitCall, UnlockCall
    <3> QED BY <1>1, <2>3, <3>1, <3>2, One, Then DEF Calls
  <2> QED BY <2>2, <2>3
<1>3. /\ a.call = "unlock" /\ a.file = U /\ a.value = w
      /\ b.call = "visit" /\ b.file = U /\ b.value = ds
  BY DEF UnlockCall, VisitCall
<1>4. \A f \in TokenFile : Doom(f)' <=> \E d \in ds : Names(files[U], d, f)
  <2>1. files' = files
    BY DEF Starts
  <2> QED BY <1>2, <1>3, <2>1 DEF Doom, Names
<1>5. UnlockOK(a)'
  <2>1. \A d \in Device : w.devices[d] # None => w.hasDevices
    BY DEF IInv, DeviceInv
  <2> QED BY <1>4, <2>1, SavesUser
<1>6. CallsInv'
  <2>1. ds # {} => VisitOK(b)'
    BY <1>1, <1>3 DEF VisitOK, Exists, Starts
  <2> QED BY <1>2, <1>3, <1>5, <2>1 DEF CallsInv
<1>7. LockInv'
  BY <1>2, <1>3 DEF LockInv, Unlocks
<1>8. DanglingInv'
  <2>1. \A x \in AccessToken : Doom(AccessAt(x))' =>
           Exists(U) /\ \E d \in ds : Names(files[U], d, AccessAt(x))
    BY <1>4, FileKinds
  <2>2. \A x \in RefreshToken, d \in ds :
           KnownRefresh(x) /\ Names(files[U], d, RefreshAt(x)) => Renamed(x)'
    BY <1>4, FileKinds DEF Renamed
  <2> QED BY <2>1, <2>2, DoomedTogether
<1>9. OrderInv'
  BY <1>2, OrderedNext DEF Starts
<1>10. ASSUME NEW z, z = Saves(files, u, ds, w) PROVE Leads(z)'
  <2>1. a \in Calls' /\ \A c \in Calls' : c.call = "unlock" => c.file = U /\ c.value = w
    BY <1>2, <1>3
  <2> QED BY <1>4, <1>10, <2>1, SavesLeads
<1> QED BY <1>1, <1>4, <1>6, <1>7, <1>8, <1>9, <1>10

LEMMA LogoutAllKeeps ==
  ASSUME IInv, request = None, NEW t \in AccessToken, LogoutAll(t)
  PROVE  IInv' /\ (~crashed => Promised')
<1>1. PICK u, v, w :
         /\ u \in User /\ v = files[UserAt(u)] /\ w = WithoutDevices(v, Device)
         /\ Exists(UserAt(u)) /\ Authenticates(t, u) /\ before' = files
         /\ held' = {UserAt(u)}
         /\ todo' = UserDeleteTokens(u, Doomed(v, None)) \o DbUnlock(UserAt(u), w)
         /\ request' = [reply |-> [route |-> "logout_all",
                                   status |-> IF v.hasDevices THEN 200 ELSE 500,
                                   user |-> u, token |-> t],
                        session |-> None, refreshToken |-> None]
         /\ UNCHANGED <<files, grantedTo, renews, reply, crashed>>
  BY DEF LogoutAll, Begin, Authenticates
<1>2. Starts
  BY <1>1 DEF IInv, TypeOK, Starts
<1>3. v \in UserFile
  BY <1>1, Contents DEF IInv
<1>4. /\ w \in UserFile /\ w.hasDevices = v.hasDevices
      /\ \A d \in Device : w.devices[d] = None
  BY <1>1, <1>3 DEF WithoutDevices, UserFile
<1>5. /\ Doomed(v, None) \in SUBSET Device
      /\ \A d \in Device : d \in Doomed(v, None) <=> v.devices[d] # None
  <2>1. \A d \in Device : v.devices[d] # None => v.devices[d].accessToken # None
    BY <1>3, NoneAssumption DEF UserFile, DeviceObject
  <2> QED BY <2>1 DEF Doomed
<1>6. PICK es \in SUBSET Device : es = Doomed(v, None)
  BY <1>5
<1>7. /\ OrderInv' /\ CallsInv' /\ LockInv' /\ DanglingInv' /\ held' \subseteq File
      /\ \A f \in TokenFile : Doom(f)' <=> \E d \in es : Names(files[UserAt(u)], d, f)
      /\ \A z : z = Saves(files, u, es, w) => Leads(z)'
  <2>1. \A d \in Device :
           w.devices[d] = IF d \in es THEN None ELSE files[UserAt(u)].devices[d]
    BY <1>1, <1>4, <1>5, <1>6
  <2>2. todo' = UserDeleteTokens(u, es) \o DbUnlock(UserAt(u), w)
    BY <1>1, <1>6
  <2>3. \A d \in es : files[UserAt(u)].devices[d] # None
    BY <1>1, <1>5, <1>6
  <2>4. w \in UserFile /\ w.hasDevices = files[UserAt(u)].hasDevices
    BY <1>1, <1>4
  <2>5. u \in User /\ Exists(UserAt(u)) /\ held' = {UserAt(u)}
    BY <1>1
  <2> QED BY <1>2, <2>1, <2>2, <2>3, <2>4, <2>5, DeletesDevices
<1>8. /\ request' \in UnderWay /\ request' # None /\ request'.session = None
      /\ request'.reply.route = "logout_all" /\ request'.reply.user = u
  <2>1. request' \in UnderWay
    BY <1>1 DEF UnderWay, Reply
  <2> QED BY <1>1, <2>1, NoneAssumption
<1>9. \A f \in TokenFile :
         KnownFile(f)' /\ HolderOf(f)'.user = u /\ HolderOf(f)'.device \in Device
           => Doom(f)'
  <2>1. \A f \in TokenFile, d \in Device :
           Names(files[UserAt(u)], d, f) => Doom(f)'
    BY <1>1, <1>5, <1>6, <1>7 DEF Names
  <2>2. u \in User
    BY <1>1
  <2> QED BY <1>2, <2>1, <2>2, Revoking
<1>10. PromiseInv'
  BY <1>8, <1>9 DEF PromiseInv, Revokes
<1>11. Promised'
  <2>1. PICK a : a = Saves(files, u, es, w)
    OBVIOUS
  <2>2. AskedBy(files, t, u)
    BY <1>1, Caller
  <2>3. LogsOutAll(a)'
    BY <1>1, <1>6, <2>1, <2>2 DEF LogsOutAll, Answers, AskedBy
  <2> QED BY <1>7, <2>1, <2>3 DEF Promised, Carries
<1> QED BY <1>2, <1>7, <1>8, <1>10, <1>11, WithoutSession, BeginKeeps

LEMMA DeactivateKeeps ==
  ASSUME IInv, request = None, NEW t \in AccessToken, Deactivate(t)
  PROVE  IInv' /\ (~crashed => Promised')
<1>1. PICK u, v, w :
         /\ u \in User /\ v = files[UserAt(u)]
         /\ w = [WithoutDevices(v, Device) EXCEPT !.deactivated = v.hasDevices \/ @]
         /\ Exists(UserAt(u)) /\ Authenticates(t, u) /\ before' = files
         /\ held' = {UserAt(u)}
         /\ todo' = UserDeleteTokens(u, Doomed(v, None)) \o DbUnlock(UserAt(u), w)
         /\ request' = [reply |-> [route |-> "deactivate",
                                   status |-> IF v.hasDevices THEN 200 ELSE 500,
                                   user |-> u, token |-> t],
                        session |-> None, refreshToken |-> None]
         /\ UNCHANGED <<files, grantedTo, renews, reply, crashed>>
  BY DEF Deactivate, Begin, Authenticates
<1>2. Starts
  BY <1>1 DEF IInv, TypeOK, Starts
<1>3. v \in UserFile
  BY <1>1, Contents DEF IInv
<1>4. /\ w \in UserFile /\ w.hasDevices = v.hasDevices
      /\ \A d \in Device : w.devices[d] = None
  <2>1. /\ WithoutDevices(v, Device) \in UserFile
        /\ WithoutDevices(v, Device).hasDevices = v.hasDevices
        /\ \A d \in Device : WithoutDevices(v, Device).devices[d] = None
    BY <1>3 DEF WithoutDevices, UserFile
  <2>2. \A x \in UserFile, y \in BOOLEAN :
           /\ [x EXCEPT !.deactivated = y] \in UserFile
           /\ [x EXCEPT !.deactivated = y].hasDevices = x.hasDevices
           /\ [x EXCEPT !.deactivated = y].devices = x.devices
    BY DEF UserFile
  <2>3. PICK x, y : /\ x = WithoutDevices(v, Device)
                    /\ y = (v.hasDevices \/ x.deactivated)
    OBVIOUS
  <2>4. y \in BOOLEAN
    BY <2>3
  <2>5. w = [x EXCEPT !.deactivated = y]
    BY <1>1, <2>3
  <2> QED BY <2>1, <2>2, <2>3, <2>4, <2>5
<1>5. /\ Doomed(v, None) \in SUBSET Device
      /\ \A d \in Device : d \in Doomed(v, None) <=> v.devices[d] # None
  <2>1. \A d \in Device : v.devices[d] # None => v.devices[d].accessToken # None
    BY <1>3, NoneAssumption DEF UserFile, DeviceObject
  <2> QED BY <2>1 DEF Doomed
<1>6. PICK es \in SUBSET Device : es = Doomed(v, None)
  BY <1>5
<1>7. /\ OrderInv' /\ CallsInv' /\ LockInv' /\ DanglingInv' /\ held' \subseteq File
      /\ \A f \in TokenFile : Doom(f)' <=> \E d \in es : Names(files[UserAt(u)], d, f)
      /\ \A z : z = Saves(files, u, es, w) => Leads(z)'
  <2>1. \A d \in Device :
           w.devices[d] = IF d \in es THEN None ELSE files[UserAt(u)].devices[d]
    BY <1>1, <1>4, <1>5, <1>6
  <2>2. todo' = UserDeleteTokens(u, es) \o DbUnlock(UserAt(u), w)
    BY <1>1, <1>6
  <2>3. \A d \in es : files[UserAt(u)].devices[d] # None
    BY <1>1, <1>5, <1>6
  <2>4. w \in UserFile /\ w.hasDevices = files[UserAt(u)].hasDevices
    BY <1>1, <1>4
  <2>5. u \in User /\ Exists(UserAt(u)) /\ held' = {UserAt(u)}
    BY <1>1
  <2> QED BY <1>2, <2>1, <2>2, <2>3, <2>4, <2>5, DeletesDevices
<1>8. /\ request' \in UnderWay /\ request' # None /\ request'.session = None
      /\ request'.reply.route = "deactivate" /\ request'.reply.user = u
  <2>1. request' \in UnderWay
    BY <1>1 DEF UnderWay, Reply
  <2> QED BY <1>1, <2>1, NoneAssumption
<1>9. \A f \in TokenFile :
         KnownFile(f)' /\ HolderOf(f)'.user = u /\ HolderOf(f)'.device \in Device
           => Doom(f)'
  <2>1. \A f \in TokenFile, d \in Device :
           Names(files[UserAt(u)], d, f) => Doom(f)'
    BY <1>1, <1>5, <1>6, <1>7 DEF Names
  <2>2. u \in User
    BY <1>1
  <2> QED BY <1>2, <2>1, <2>2, Revoking
<1>10. PromiseInv'
  BY <1>8, <1>9 DEF PromiseInv, Revokes
<1>11. Promised'
  <2>1. PICK a : a = Saves(files, u, es, w)
    OBVIOUS
  <2>2. AskedBy(files, t, u)
    BY <1>1, Caller
  <2>3. Deactivates(a)'
    BY <1>1, <1>6, <2>1, <2>2 DEF Deactivates, Answers, AskedBy
  <2> QED BY <1>7, <2>1, <2>3 DEF Promised, Carries
<1> QED BY <1>2, <1>7, <1>8, <1>10, <1>11, WithoutSession, BeginKeeps

LEMMA ChangePwdKeeps ==
  ASSUME IInv, request = None, NEW t \in AccessToken, NEW p \in Password,
         NEW logoutDevices \in BOOLEAN, ChangePwd(t, p, logoutDevices)
  PROVE  IInv' /\ (~crashed => Promised')
<1>1. PICK u, v, ds, w :
         /\ u \in User /\ v = files[UserAt(u)]
         /\ ds = IF logoutDevices THEN Doomed(v, t) ELSE {}
         /\ w = [WithoutDevices(v, ds) EXCEPT !.password = p]
         /\ Exists(UserAt(u)) /\ Known(t) /\ Authenticates(t, u) /\ before' = files
         /\ held' = {UserAt(u)}
         /\ todo' = UserDeleteTokens(u, ds) \o DbUnlock(UserAt(u), w)
         /\ request' = [reply |-> [route |-> IF logoutDevices THEN "password_logout"
                                             ELSE "password",
                                   status |-> 200, user |-> u, token |-> t],
                        session |-> None, refreshToken |-> None]
         /\ UNCHANGED <<files, grantedTo, renews, reply, crashed>>
  BY DEF ChangePwd, Begin, Authenticates, Known
<1>2. Starts
  BY <1>1 DEF IInv, TypeOK, Starts
<1>3. v \in UserFile
  BY <1>1, Contents DEF IInv
<1>4. ds \in SUBSET Device /\ \A d \in ds : v.devices[d] # None
  BY <1>1 DEF Doomed
<1>5. /\ w \in UserFile /\ w.hasDevices = v.hasDevices
      /\ \A d \in Device : w.devices[d] = IF d \in ds THEN None ELSE v.devices[d]
  <2>1. /\ WithoutDevices(v, ds) \in UserFile
        /\ WithoutDevices(v, ds).hasDevices = v.hasDevices
        /\ \A d \in Device : WithoutDevices(v, ds).devices[d]
                               = IF d \in ds THEN None ELSE v.devices[d]
    BY <1>3 DEF WithoutDevices, UserFile
  <2>2. \A x \in UserFile :
           /\ [x EXCEPT !.password = p] \in UserFile
           /\ [x EXCEPT !.password = p].hasDevices = x.hasDevices
           /\ [x EXCEPT !.password = p].devices = x.devices
    BY DEF UserFile
  <2> QED BY <1>1, <2>1, <2>2
<1>6. /\ OrderInv' /\ CallsInv' /\ LockInv' /\ DanglingInv' /\ held' \subseteq File
      /\ \A f \in TokenFile : Doom(f)' <=> \E d \in ds : Names(files[UserAt(u)], d, f)
      /\ \A z : z = Saves(files, u, ds, w) => Leads(z)'
  <2>1. \A d \in Device :
           w.devices[d] = IF d \in ds THEN None ELSE files[UserAt(u)].devices[d]
    BY <1>1, <1>5
  <2>2. todo' = UserDeleteTokens(u, ds) \o DbUnlock(UserAt(u), w)
    BY <1>1
  <2>3. \A d \in ds : files[UserAt(u)].devices[d] # None
    BY <1>1, <1>4
  <2>4. w \in UserFile /\ w.hasDevices = files[UserAt(u)].hasDevices
    BY <1>1, <1>5
  <2>5. u \in User /\ Exists(UserAt(u)) /\ held' = {UserAt(u)}
    BY <1>1
  <2> QED BY <1>2, <1>4, <2>1, <2>2, <2>3, <2>4, <2>5, DeletesDevices
<1>7. /\ request' \in UnderWay /\ request' # None /\ request'.session = None
      /\ request'.reply.user = u /\ request'.reply.token = t
      /\ request'.reply.route = IF logoutDevices THEN "password_logout" ELSE "password"
  <2>1. request' \in UnderWay
    BY <1>1 DEF UnderWay, Reply
  <2> QED BY <1>1, <2>1, NoneAssumption
<1>8. ASSUME logoutDevices
      PROVE  /\ Known(t)' /\ ~Doom(AccessAt(t))'
             /\ \A f \in TokenFile :
                   KnownFile(f)' /\ HolderOf(f)'.user = u
                     /\ HolderOf(f)'.device \in Device \ {grantedTo[t].device}
                   => Doom(f)'
  <2>1. ds = Doomed(v, t)
    BY <1>1, <1>8
  <2>2. \A d \in ds : ~Names(files[UserAt(u)], d, AccessAt(t))
    BY <1>1, <2>1, FileKinds DEF Doomed, Names
  <2>3. ASSUME NEW f \in TokenFile, NEW d \in Device, d # grantedTo[t].device,
               Names(files[UserAt(u)], d, f)
        PROVE  d \in ds
    <3> SUFFICES ASSUME d \notin ds PROVE FALSE
      OBVIOUS
    <3>1. v.devices[d] # None /\ v.devices[d].accessToken = t
      BY <1>1, <2>1, <2>3 DEF Doomed, Names
    <3>2. Exists(AccessAt(t)) /\ AccessIs(files[AccessAt(t)], [user |-> u, device |-> d])
      BY <1>1, <3>1 DEF IInv, DeviceInv, Known
    <3>3. AccessIs(files[AccessAt(t)], grantedTo[t])
      BY <1>1 DEF IInv, AccessInv
    <3> QED BY <2>3, <3>2, <3>3 DEF AccessIs
  <2>4. u \in User
    BY <1>1
  <2>5. \A f \in TokenFile, d \in Device :
           d \in Device \ {grantedTo[t].device} /\ Exists(UserAt(u))
             /\ Names(files[UserAt(u)], d, f) => Doom(f)'
    BY <1>6, <2>3
  <2>6. PICK x : x = grantedTo[t].device
    OBVIOUS
  <2>7. \A f \in TokenFile :
           KnownFile(f)' /\ HolderOf(f)'.user = u /\ HolderOf(f)'.device \in Device \ {x}
             => Doom(f)'
    BY <1>2, <2>4, <2>5, <2>6, Revoking
  <2> QED BY <1>1, <1>2, <1>6, <2>2, <2>6, <2>7, FileKinds, Begun
<1>9. PromiseInv'
  <2>1. CASE logoutDevices
    <3>1. request'.reply.route = "password_logout" /\ grantedTo' = grantedTo
      BY <1>1, <1>7, <2>1
    <3>2. Revokes(u, Device \ {grantedTo[t].device})'
      BY <1>8, <2>1, <3>1 DEF Revokes
    <3> QED BY <1>7, <1>8, <2>1, <3>1, <3>2 DEF PromiseInv, Revokes, Known, Exists, Doom, AccessAt
  <2>2. CASE ~logoutDevices
    BY <1>7, <2>2 DEF PromiseInv
  <2> QED BY <2>1, <2>2
<1>10. Promised'
  <2>1. PICK a : a = Saves(files, u, ds, w)
    OBVIOUS
  <2>2. AskedBy(files, t, u)
    BY <1>1, Caller
  <2>3. ChangesPwd(a)'
    BY <1>1, <2>1, <2>2 DEF ChangesPwd, Answers, AskedBy
  <2> QED BY <1>6, <2>1, <2>3 DEF Promised, Carries
<1> QED BY <1>2, <1>6, <1>7, <1>9, <1>10, WithoutSession, BeginKeeps

-----------------------------------------------------------------------------
(* A new account, a logout, the administrator *)

LEMMA NewUsers ==
  ASSUME NEW p \in Password
  PROVE  /\ NewUser(p) \in UserFile
         /\ \A d \in Device : NewUser(p).devices[d] = None
         /\ NewUser(p).hasDevices = FALSE
         /\ NewUser(p).password = p /\ ~NewUser(p).deactivated
         /\ NewUser(p).devices = NoDevices
<1>1. <<"users">>[1] = "users"
  OBVIOUS
<1>2. Empty(<<"users">>) = [password |-> None, deactivated |-> FALSE, hasDevices |-> FALSE,
                            devices |-> [d \in Device |-> None]]
  BY <1>1 DEF Empty
<1>3. PICK v : v = Empty(<<"users">>)
  OBVIOUS
<1>4. /\ v \in UserFile /\ v.hasDevices = FALSE
      /\ v.devices = NoDevices /\ ~v.deactivated
      /\ \A d \in Device : v.devices[d] = None
  <2>1. [password |-> None, deactivated |-> FALSE, hasDevices |-> FALSE,
         devices |-> [d \in Device |-> None]] \in UserFile
    BY DEF UserFile
  <2>2. v.devices = [d \in Device |-> None] /\ v.hasDevices = FALSE /\ ~v.deactivated
    BY <1>2, <1>3
  <2> QED BY <1>2, <1>3, <2>1, <2>2 DEF NoDevices
<1>5. /\ [v EXCEPT !.password = p] \in UserFile
      /\ [v EXCEPT !.password = p].devices = v.devices
      /\ [v EXCEPT !.password = p].hasDevices = v.hasDevices
      /\ [v EXCEPT !.password = p].deactivated = v.deactivated
      /\ [v EXCEPT !.password = p].password = p
  BY <1>4 DEF UserFile
<1> QED BY <1>3, <1>4, <1>5 DEF NewUser

LEMMA RegisterKeeps ==
  ASSUME IInv, request = None, NEW u \in User, NEW p \in Password, Register(u, p)
  PROVE  IInv' /\ (~crashed => Promised')
<1> DEFINE U == UserAt(u)
           a == CreateCall(U)
           b == UnlockCall(U, NewUser(p))
<1>1. /\ ~Exists(U) /\ held' = {} /\ before' = files
      /\ todo' = DbCreate(U) \o DbUnlock(U, NewUser(p))
      /\ request' = [reply |-> [route |-> "register", status |-> 200,
                                user |-> u, token |-> None],
                     session |-> None, refreshToken |-> None]
      /\ UNCHANGED <<files, grantedTo, renews, reply, crashed>>
  BY DEF Register, Begin
<1>2. Starts
  BY <1>1 DEF IInv, TypeOK, Starts
<1>3. U \in File /\ IsUser(U) /\ NewUser(p) \in Content(U)
  BY NewUsers, FileKinds DEF Content
<1>4. todo' \in Seq(Call) /\ Ordered(todo') /\ Calls' = {a, b}
  BY <1>1, <1>3, Saved DEF Calls
<1>5. /\ a.call = "create" /\ a.file = U /\ a.value = Empty(U)
      /\ b.call = "unlock" /\ b.file = U /\ b.value = NewUser(p)
  BY DEF CreateCall, UnlockCall
<1>6. \A f : ~Doom(f)'
  BY <1>4, <1>5 DEF Doom
<1>7. CreateOK(a)'
  BY <1>1, <1>5, FileNames DEF CreateOK, Exists
<1>8. UnlockOK(b)'
  <2>1. \A d \in Device : NewUser(p).devices[d] = None
    BY NewUsers
  <2>2. PICK w \in UserFile : w = NewUser(p)
    BY NewUsers
  <2> QED BY <1>1, <1>2, <2>1, <2>2, SavesUser
<1>9. CallsInv' /\ LockInv' /\ DanglingInv'
  <2>1. CallsInv'
    BY <1>4, <1>5, <1>7, <1>8 DEF CallsInv
  <2>2. LockInv'
    BY <1>1, <1>4, <1>5 DEF LockInv, Unlocks
  <2>3. DanglingInv'
    BY <1>2, <1>6, NoneDangling
  <2> QED BY <2>1, <2>2, <2>3
<1>10. request' \in UnderWay /\ request' # None /\ request'.session = None
  <2>1. request' \in UnderWay
    BY <1>1 DEF UnderWay, Reply
  <2> QED BY <1>1, <2>1, NoneAssumption
<1>11. PromiseInv'
  BY <1>1 DEF PromiseInv
<1>12. OrderInv' /\ held' \subseteq File
  BY <1>1, <1>4, OrderedNext
<1>13. Promised'
  <2>1. PICK z : z = Saves(files, u, {}, NewUser(p))
    OBVIOUS
  <2>2. Leads(z)'
    <3>1. \A f \in TokenFile : Doom(f)' <=> \E d \in {} : Names(files[U], d, f)
      BY <1>6
    <3>2. b \in Calls' /\ \A c \in Calls' : c.call = "unlock" => c.file = U /\ c.value = NewUser(p)
      BY <1>4, <1>5
    <3> QED BY <1>2, <2>1, <3>1, <3>2, SavesLeads
  <2>3. Registers(z)'
    BY <1>1, <2>1 DEF Registers, Answers, Exists
  <2> QED BY <2>2, <2>3 DEF Promised, Carries
<1> QED BY <1>2, <1>9, <1>10, <1>11, <1>12, <1>13, WithoutSession, BeginKeeps

LEMMA AdminDeactivateKeeps ==
  ASSUME IInv, request = None, NEW t \in AccessToken, NEW w \in User,
         NEW deactivated \in BOOLEAN, AdminDeactivate(t, w, deactivated)
  PROVE  IInv' /\ (~crashed => Promised')
<1>1. PICK u, x, y :
         /\ u \in User /\ Exists(UserAt(u)) /\ Exists(UserAt(w))
         /\ Authenticates(t, u) /\ before' = files
         /\ x = files[UserAt(u)]
         /\ y = [files[UserAt(w)] EXCEPT !.deactivated = deactivated]
         /\ held' = {UserAt(u), UserAt(w)}
         /\ todo' = DbUnlock(UserAt(u), x) \o DbUnlock(UserAt(w), y)
         /\ request' = [reply |-> [route |-> IF deactivated THEN "admin_deactivate"
                                             ELSE "admin_reactivate",
                                   status |-> 200, user |-> w, token |-> t],
                        session |-> None, refreshToken |-> None]
         /\ UNCHANGED <<files, grantedTo, renews, reply, crashed>>
  BY DEF AdminDeactivate, Begin, Authenticates
<1> DEFINE U == UserAt(u)
           W == UserAt(w)
           a == UnlockCall(U, x)
           b == UnlockCall(W, y)
<1>2. Starts
  BY <1>1 DEF IInv, TypeOK, Starts
<1>3. /\ U \in File /\ IsUser(U) /\ W \in File /\ IsUser(W)
      /\ Content(U) = UserFile /\ Content(W) = UserFile
  BY <1>1, FileKinds DEF Content
<1>4. /\ x \in UserFile /\ y \in UserFile
      /\ y.devices = files[W].devices /\ y.hasDevices = files[W].hasDevices
  <2>1. x \in UserFile /\ files[W] \in UserFile
    BY <1>1, Contents DEF IInv
  <2>2. \A v \in UserFile :
           /\ [v EXCEPT !.deactivated = deactivated] \in UserFile
           /\ [v EXCEPT !.deactivated = deactivated].devices = v.devices
           /\ [v EXCEPT !.deactivated = deactivated].hasDevices = v.hasDevices
    BY DEF UserFile
  <2> QED BY <1>1, <2>1, <2>2
<1>5. /\ a.call = "unlock" /\ a.file = U /\ a.value = x
      /\ b.call = "unlock" /\ b.file = W /\ b.value = y
  BY DEF UnlockCall
<1>6. todo' \in Seq(Call) /\ Ordered(todo') /\ Calls' = {a, b}
  <2>1. a \in Call /\ b \in Call
    BY <1>3, <1>4, CallTypes
  <2>2. todo' = <<a>> \o <<b>>
    BY <1>1 DEF DbUnlock, UnlockCall
  <2>3. Before(a, b)
    <3>1. a.file[1] = "users" /\ IsUser(a.file) /\ IsUser(b.file)
      BY <1>1, <1>3, <1>5, FileKinds
    <3>2. b.file = a.file => b.value.devices = a.value.devices
      <4>1. x = files[U] /\ y.devices = files[W].devices
        BY <1>1, <1>4
      <4>2. U = W => x.devices = y.devices
        BY <4>1
      <4> QED BY <1>5, <4>2
    <3> QED BY <1>5, <3>1, <3>2 DEF Before
  <2>4. \A c \in CallsIn(<<a>>) : Before(c, b)
    BY <2>1, <2>3, One
  <2>5. <<a>> \in Seq(Call) /\ Ordered(<<a>>) /\ CallsIn(<<a>>) = {a}
    BY <2>1, One
  <2> QED BY <2>1, <2>2, <2>4, <2>5, Then DEF Calls
<1>7. \A f : ~Doom(f)'
  BY <1>5, <1>6 DEF Doom
<1>8. UnlockOK(a)'
  <2>1. \A d \in Device : x.devices[d] # None => x.hasDevices
    BY <1>1 DEF IInv, DeviceInv
  <2>2. u \in User /\ Exists(U) /\ x.devices = files[U].devices
    BY <1>1
  <2> QED BY <1>2, <1>4, <2>1, <2>2, SavesDevices
<1>9. UnlockOK(b)'
  <2>1. \A d \in Device : y.devices[d] # None => y.hasDevices
    BY <1>1, <1>4 DEF IInv, DeviceInv
  <2>2. Exists(W)
    BY <1>1
  <2> QED BY <1>2, <1>4, <2>1, <2>2, SavesDevices
<1>10. CallsInv' /\ LockInv' /\ DanglingInv'
  <2>1. CallsInv'
    BY <1>5, <1>6, <1>8, <1>9 DEF CallsInv
  <2>2. LockInv'
    BY <1>1, <1>5, <1>6 DEF LockInv, Unlocks
  <2>3. DanglingInv'
    BY <1>2, <1>7, NoneDangling
  <2> QED BY <2>1, <2>2, <2>3
<1>11. request' \in UnderWay /\ request' # None /\ request'.session = None
  <2>1. request' \in UnderWay
    BY <1>1 DEF UnderWay, Reply
  <2> QED BY <1>1, <2>1, NoneAssumption
<1>12. PromiseInv'
  BY <1>1 DEF PromiseInv
<1>13. OrderInv' /\ held' \subseteq File
  BY <1>1, <1>3, <1>6, OrderedNext
<1>14. Promised'
  <2>1. PICK z : z = Saves(files, w, {}, y)
    OBVIOUS
  <2>2. z = [h \in File |-> IF h = W THEN y ELSE files[h]]
    BY <2>1 DEF Saves
  <2>3. SavesSecond(z)'
    <3>1. /\ todo' = DbUnlock(UserAt(u), files'[UserAt(u)]) \o DbUnlock(UserAt(w), y)
          /\ u \in User /\ files'[UserAt(u)] # None /\ files' = files
      BY <1>1 DEF Exists
    <3> QED BY <1>4, <2>2, <3>1 DEF SavesSecond, Exists
  <2>4. AskedBy(files, t, u)
    BY <1>1, Caller
  <2>5. Administers(z)'
    BY <1>1, <2>1, <2>4 DEF Administers, Answers, AskedBy, Exists
  <2> QED BY <2>3, <2>5 DEF Promised, Carries
<1> QED BY <1>2, <1>10, <1>11, <1>12, <1>13, <1>14, WithoutSession, BeginKeeps

\* The calls that delete what a device object names.
LEMMA DeleteCalls ==
  ASSUME NEW o \in DeviceObject \union {None}
  PROVE  /\ DeleteAccess(o) \in Seq(Call) /\ Ordered(DeleteAccess(o))
         /\ CallsIn(DeleteAccess(o)) =
               IF o = None THEN {} ELSE {DeleteCall(AccessAt(o.accessToken))}
         /\ DeleteRefresh(o) \in Seq(Call) /\ Ordered(DeleteRefresh(o))
         /\ CallsIn(DeleteRefresh(o)) =
               IF o = None \/ o.refreshToken = None THEN {}
               ELSE {DeleteCall(RefreshAt(o.refreshToken))}
<1>1. CASE o = None
  BY <1>1, NoCall DEF DeleteAccess, DeleteRefresh
<1>2. CASE o # None
  <2>1. o.accessToken \in AccessToken /\ o.refreshToken \in RefreshToken \union {None}
    BY <1>2 DEF DeviceObject
  <2>2. DeleteCall(AccessAt(o.accessToken)) \in Call
    BY <2>1, FileKinds, CallTypes
  <2>3. DeleteAccess(o) = <<DeleteCall(AccessAt(o.accessToken))>>
    BY <1>2 DEF DeleteAccess, DbDelete, DeleteCall
  <2>4. CASE o.refreshToken = None
    BY <1>2, <2>2, <2>3, <2>4, NoCall, One DEF DeleteRefresh
  <2>5. CASE o.refreshToken # None
    <3>1. DeleteCall(RefreshAt(o.refreshToken)) \in Call
      BY <2>1, <2>5, FileKinds, CallTypes
    <3>2. DeleteRefresh(o) = <<DeleteCall(RefreshAt(o.refreshToken))>>
      BY <1>2, <2>5 DEF DeleteRefresh, DbDelete, DeleteCall
    <3> QED BY <1>2, <2>2, <2>3, <2>5, <3>1, <3>2, One
  <2> QED BY <2>4, <2>5
<1> QED BY <1>1, <1>2

LEMMA LogoutKeeps ==
  ASSUME IInv, request = None, NEW t \in AccessToken, Logout(t)
  PROVE  IInv' /\ (~crashed => Promised')
<1>1. PICK u, v, d, z, w :
         /\ u \in User /\ v = files[UserAt(u)] /\ d = files[AccessAt(t)].device
         /\ z = files[AccessAt(t)]
         /\ w = WithoutDevices(v, {d})
         /\ Exists(UserAt(u)) /\ Known(t) /\ z.user = u
         /\ Authenticates(t, u) /\ before' = files
         /\ held' = {UserAt(u)}
         /\ todo' = UserDeleteToken(v, t, d) \o DbUnlock(UserAt(u), w)
         /\ request' = [reply |-> [route |-> "logout",
                                   status |-> IF CanDeleteToken(v, d) THEN 200 ELSE 500,
                                   user |-> u, token |-> t],
                        session |-> None, refreshToken |-> None]
         /\ UNCHANGED <<files, grantedTo, renews, reply, crashed>>
  BY DEF Logout, Begin, Authenticates, Known
<1>2. Starts
  BY <1>1 DEF IInv, TypeOK, Starts
<1> DEFINE U == UserAt(u)
           A == AccessAt(t)
           o == v.devices[d]
           y == o.refreshToken
<1>3. /\ d = grantedTo[t].device /\ u = grantedTo[t].user /\ d \in Device
      /\ Names(v, d, A) /\ o # None /\ o.accessToken = t /\ v.hasDevices
  <2>1. AccessIs(z, grantedTo[t])
    BY <1>1 DEF IInv, AccessInv
  <2>2. d = grantedTo[t].device /\ u = grantedTo[t].user
    BY <1>1, <2>1 DEF AccessIs
  <2>3. A \in TokenFile /\ KnownFile(A) /\ HolderOf(A) = grantedTo[t]
    BY <1>1, FileKinds, Holders DEF IInv
  <2>4. Names(v, d, A) /\ d \in Device
    BY <1>1, <2>2, <2>3, Holders DEF IInv, NamedInv, KnownFile
  <2>5. o # None /\ o.accessToken = t
    BY <2>4, FileKinds DEF Names
  <2> QED BY <1>1, <2>2, <2>4, <2>5 DEF IInv, DeviceInv
<1>4. /\ v \in UserFile /\ z \in AccessFile /\ o \in DeviceObject
      /\ y \in RefreshToken \union {None}
  <2>1. v \in UserFile /\ z \in AccessFile
    BY <1>1, Contents DEF IInv, Known
  <2> QED BY <1>3, <2>1 DEF UserFile, DeviceObject
<1>5. /\ w \in UserFile /\ w.hasDevices = v.hasDevices
      /\ \A e \in Device : w.devices[e] = IF e \in {d} THEN None ELSE v.devices[e]
  BY <1>1, <1>4 DEF WithoutDevices, UserFile
<1> DEFINE lock == LockCall(A)
           same == UnlockCall(A, z)
           gone == DeleteCall(A)
           save == UnlockCall(U, w)
           more == IF y = None THEN {} ELSE {DeleteCall(RefreshAt(y))}
<1>6. /\ U \in File /\ IsUser(U) /\ A \in File /\ ~IsUser(A) /\ A[1] = "access"
      /\ Content(U) = UserFile /\ Content(A) = AccessFile
  BY <1>1, FileKinds DEF Content
<1>7. /\ lock.call = "lock" /\ lock.file = A
      /\ same.call = "unlock" /\ same.file = A /\ same.value = z
      /\ gone.call = "delete" /\ gone.file = A /\ gone.value = None
      /\ save.call = "unlock" /\ save.file = U /\ save.value = w
      /\ \A c \in more : /\ c.call = "delete" /\ y # None /\ c.file = RefreshAt(y)
                         /\ c.value = None
      /\ y # None => DeleteCall(RefreshAt(y)) \in more
  BY DEF LockCall, UnlockCall, DeleteCall
<1>8. /\ todo' \in Seq(Call) /\ Ordered(todo')
      /\ Calls' = more \union {lock, same, gone, save}
  <2>1. PICK s1 : s1 = DeleteRefresh(o)
    OBVIOUS
  <2>2. s1 \in Seq(Call) /\ Ordered(s1) /\ CallsIn(s1) = more
    BY <1>3, <1>4, <2>1, DeleteCalls
  <2>3. lock \in Call /\ same \in Call /\ gone \in Call /\ save \in Call
    BY <1>4, <1>5, <1>6, CallTypes
  <2>4. PICK s2 : s2 = s1 \o <<same>>
    OBVIOUS
  <2>5. s2 \in Seq(Call) /\ Ordered(s2) /\ CallsIn(s2) = more \union {same}
    <3>1. \A c \in more : Before(c, same)
      BY <1>7, FileNames DEF Before
    <3> QED BY <2>2, <2>3, <2>4, <3>1, Then
  <2>6. PICK s3 : s3 = s2 \o <<gone>>
    OBVIOUS
  <2>7. s3 \in Seq(Call) /\ Ordered(s3) /\ CallsIn(s3) = more \union {same, gone}
    <3>1. \A c \in more : Before(c, gone)
      BY <1>7, FileNames DEF Before
    <3>2. Before(same, gone)
      BY <1>6, <1>7 DEF Before
    <3> QED BY <2>3, <2>5, <2>6, <3>1, <3>2, Then
  <2>8. PICK s4 : s4 = <<lock>> \o s3
    OBVIOUS
  <2>9. s4 \in Seq(Call) /\ Ordered(s4) /\ CallsIn(s4) = more \union {lock, same, gone}
    <3>1. \A c \in CallsIn(s3) : Before(lock, c)
      BY <1>7, <2>7 DEF Before
    <3>2. <<lock>> \in Seq(Call) /\ Ordered(<<lock>>) /\ CallsIn(<<lock>>) = {lock}
      BY <2>3, One
    <3>3. PICK s0 : s0 = <<lock>>
      OBVIOUS
    <3>4. s0 \in Seq(Call) /\ Ordered(s0) /\ CallsIn(s0) = {lock}
      BY <3>2, <3>3
    <3>5. \A a \in CallsIn(s0), b \in CallsIn(s3) : Before(a, b)
      BY <3>1, <3>4
    <3>6. /\ s0 \o s3 \in Seq(Call) /\ Ordered(s0 \o s3)
          /\ CallsIn(s0 \o s3) = CallsIn(s0) \union CallsIn(s3)
      BY <2>7, <3>4, <3>5, Joined
    <3> QED BY <2>7, <2>8, <3>3, <3>4, <3>6
  <2>10. \A c \in CallsIn(s4) : Before(c, save)
    <3>1. \A c \in more : Before(c, save)
      BY <1>7, FileNames DEF Before
    <3>2. Before(lock, save) /\ Before(same, save) /\ Before(gone, save)
      BY <1>6, <1>7, FileNames DEF Before
    <3> QED BY <2>9, <3>1, <3>2
  <2>11. todo' = s4 \o <<save>>
    <3>1. /\ DbLock(A) = <<lock>> /\ DbUnlock(A, z) = <<same>>
          /\ DbDelete(A) = <<gone>> /\ DbUnlock(U, w) = <<save>>
      BY DEF DbLock, DbUnlock, DbDelete, LockCall, UnlockCall, DeleteCall
    <3>2. CanDeleteToken(v, d)
      BY <1>3 DEF CanDeleteToken
    <3> QED BY <1>1, <2>1, <2>4, <2>6, <2>8, <3>1, <3>2 DEF UserDeleteToken
  <2> QED BY <2>3, <2>9, <2>10, <2>11, Then DEF Calls
<1>9. \A f \in TokenFile : Doom(f)' <=> Names(v, d, f)
  <2>1. \A f \in TokenFile : Doom(f)' <=> f = A \/ (y # None /\ f = RefreshAt(y))
    BY <1>7, <1>8 DEF Doom
  <2>2. \A x \in AccessToken : Names(v, d, AccessAt(x)) <=> x = t
    BY <1>3, FileKinds DEF Names
  <2>3. \A x \in RefreshToken : Names(v, d, RefreshAt(x)) <=> x = y
    BY <1>3, FileKinds DEF Names
  <2> QED BY <2>1, <2>2, <2>3, FileKinds, FileNames, NoneAssumption
<1>10. CallsInv'
  <2>1. UnlockOK(same)'
    <3>1. files'[A] # None /\ files'[A] = z
      BY <1>1 DEF Known, Exists
    <3> QED BY <1>4, <1>6, <1>7, <3>1, FileNames DEF UnlockOK, Exists
  <2>2. UnlockOK(save)'
    <3>1. \A e \in Device : w.devices[e] # None => w.hasDevices
      BY <1>3, <1>5
    <3>2. \A e \in Device \ {d} : w.devices[e] = files[U].devices[e]
      BY <1>1, <1>5
    <3>3. \A e \in {d} : w.devices[e] = None
      BY <1>3, <1>5
    <3>4. \A f \in TokenFile, e \in {d} : Names(files[U], e, f) => Doom(f)'
      BY <1>1, <1>9
    <3>5. u \in User /\ Exists(U)
      BY <1>1
    <3> QED BY <1>2, <1>5, <3>1, <3>2, <3>3, <3>4, <3>5, SavesUser
  <2>3. \A c \in more : c.file \in TokenFile
    BY <1>4, <1>7, FileKinds
  <2>4. A \in TokenFile
    BY FileKinds
  <2> QED BY <1>7, <1>8, <2>1, <2>2, <2>3, <2>4 DEF CallsInv
<1>11. LockInv'
  <2>1. save \in Unlocks(U)' /\ same \in Unlocks(A)'
    BY <1>7, <1>8 DEF Unlocks
  <2>2. \A c \in Calls' : c.call \in {"lock", "create"} => c.file = A
    BY <1>7, <1>8
  <2> QED BY <1>1, <2>1, <2>2 DEF LockInv, Unlocks
<1>12. DanglingInv'
  <2>1. \A a \in AccessToken : Doom(AccessAt(a))' =>
           Exists(U) /\ \E e \in {d} : Names(files[U], e, AccessAt(a))
    BY <1>1, <1>9, FileKinds
  <2>2. \A x \in RefreshToken, e \in {d} :
           KnownRefresh(x) /\ Names(files[U], e, RefreshAt(x)) => Renamed(x)'
    BY <1>1, <1>9, FileKinds DEF Renamed
  <2>3. PICK ds : ds = {d}
    OBVIOUS
  <2>4. u \in User /\ ds \subseteq Device
    BY <1>1, <1>3, <2>3
  <2>5. \A a \in AccessToken : Doom(AccessAt(a))' =>
           Exists(U) /\ \E e \in ds : Names(files[U], e, AccessAt(a))
    BY <2>1, <2>3
  <2>6. \A x \in RefreshToken, e \in ds :
           KnownRefresh(x) /\ Names(files[U], e, RefreshAt(x)) => Renamed(x)'
    BY <2>2, <2>3
  <2> QED BY <1>2, <2>4, <2>5, <2>6, DoomedTogether
<1>13. request' \in UnderWay /\ request' # None /\ request'.session = None
  <2>1. request' \in UnderWay
    BY <1>1 DEF UnderWay, Reply
  <2> QED BY <1>1, <2>1, NoneAssumption
<1>14. PromiseInv'
  <2>1. \A f \in TokenFile, e \in Device :
           e \in {d} /\ Exists(U) /\ Names(files[U], e, f) => Doom(f)'
    BY <1>1, <1>9
  <2>2. u \in User
    BY <1>1
  <2>3. \A f \in TokenFile :
           KnownFile(f)' /\ HolderOf(f)'.user = u /\ HolderOf(f)'.device \in {d} => Doom(f)'
    BY <1>2, <2>1, <2>2, Revoking
  <2>4. /\ request'.reply.route = "logout" /\ request'.reply.user = u
        /\ request'.reply.token = t /\ grantedTo'[t].device = d
    BY <1>1, <1>3
  <2> QED BY <2>3, <2>4 DEF PromiseInv, Revokes
<1>15. OrderInv' /\ held' \subseteq File
  BY <1>1, <1>6, <1>8, OrderedNext
<1>16. Promised'
  <2>1. PICK a, ds : a = Saves(files, u, ds, w) /\ ds = {d}
    OBVIOUS
  <2>2. Leads(a)'
    <3>1. \A f \in TokenFile : Doom(f)' <=> \E e \in ds : Names(files[U], e, f)
      BY <1>1, <1>9, <2>1
    <3>2. A \in TokenFile /\ Doom(A)'
      BY <1>3, <1>9, FileKinds
    <3>3. save \in Calls' /\ \A c \in Calls' : c.call = "unlock" =>
             (c.file = U /\ c.value = w) \/ c.file = A
      BY <1>7, <1>8
    <3>4. u \in User
      BY <1>1
    <3> QED BY <1>2, <2>1, <3>1, <3>2, <3>3, <3>4, SavesLeads
  <2>3. AskedBy(files, t, u)
    BY <1>1, Caller
  <2>4. CanDeleteToken(v, d)
    BY <1>3 DEF CanDeleteToken
  <2>5. LogsOut(a)'
    BY <1>1, <1>3, <2>1, <2>3, <2>4 DEF LogsOut, Answers, AskedBy
  <2> QED BY <2>2, <2>5 DEF Promised, Carries
<1> QED BY <1>2, <1>10, <1>11, <1>12, <1>13, <1>14, <1>15, <1>16, WithoutSession, BeginKeeps

-----------------------------------------------------------------------------
(* A login *)

LEMMA Extended ==
  ASSUME NEW s \in Seq(Call), NEW t \in Seq(Call), Ordered(s), Ordered(t),
         NEW A, NEW B, CallsIn(s) = A, CallsIn(t) = B,
         \A a \in A, b \in B : Before(a, b)
  PROVE  s \o t \in Seq(Call) /\ Ordered(s \o t) /\ CallsIn(s \o t) = A \union B
BY Joined

\* What UserLogin calls for a device with object o.
NewCalls(u, d, t, r) ==
    {CreateCall(AccessAt(t)), UnlockCall(AccessAt(t), NewAccessFile(u, d, r # None))}
      \union IF r = None THEN {}
             ELSE {CreateCall(RefreshAt(r)), UnlockCall(RefreshAt(r), [refreshes |-> t])}
OldCalls(o) ==
    (IF o = None THEN {} ELSE {DeleteCall(AccessAt(o.accessToken))})
      \union IF o = None \/ o.refreshToken = None THEN {}
             ELSE {DeleteCall(RefreshAt(o.refreshToken))}

LEMMA NewContents ==
  ASSUME NEW u \in User, NEW d \in Device, NEW t \in AccessToken, NEW b \in BOOLEAN,
         NEW r \in RefreshToken
  PROVE  /\ NewAccessFile(u, d, b) \in Content(AccessAt(t))
         /\ [refreshes |-> t] \in Content(RefreshAt(r))
         /\ AccessAt(t) \in File /\ RefreshAt(r) \in File
<1>1. NewAccessFile(u, d, b) \in AccessFile
  BY DEF NewAccessFile, AccessFile
<1>2. [refreshes |-> t] \in RefreshFile
  BY DEF RefreshFile
<1> QED BY <1>1, <1>2, FileKinds DEF Content

LEMMA UserLoginCalls ==
  ASSUME NEW v, NEW u \in User, NEW d \in Device, NEW t \in AccessToken,
         NEW r \in RefreshToken \union {None},
         NEW o \in DeviceObject \union {None}, o = v.devices[d],
         o # None => o.accessToken # t /\ (r # None => o.refreshToken # r),
         r # None => renews[r] = None
  PROVE  LET s == UserLogin(v, u, d, t, r)
         IN  /\ s \in Seq(Call) /\ Ordered(s)
             /\ CallsIn(s) = NewCalls(u, d, t, r) \union OldCalls(o)
<1> DEFINE z == NewAccessFile(u, d, r # None)
           ca == {CreateCall(AccessAt(t)), UnlockCall(AccessAt(t), z)}
           cr == IF r = None THEN {}
                 ELSE {CreateCall(RefreshAt(r)), UnlockCall(RefreshAt(r), [refreshes |-> t])}
           da == IF o = None THEN {} ELSE {DeleteCall(AccessAt(o.accessToken))}
           dr == IF o = None \/ o.refreshToken = None THEN {}
                 ELSE {DeleteCall(RefreshAt(o.refreshToken))}
<1>1. PICK sa : sa = SaveAccessToken(u, d, t, r # None)
  OBVIOUS
<1>2. sa \in Seq(Call) /\ Ordered(sa) /\ CallsIn(sa) = ca
  <2>1. AccessAt(t) \in File /\ z \in Content(AccessAt(t))
    <3>1. \A b \in BOOLEAN : NewAccessFile(u, d, b) \in AccessFile
      BY DEF NewAccessFile, AccessFile
    <3> QED BY <3>1, FileKinds DEF Content
  <2> QED BY <1>1, <2>1, Saved DEF SaveAccessToken
<1>3. PICK sr : sr = SaveRefreshToken(r, t)
  OBVIOUS
<1>4. sr \in Seq(Call) /\ Ordered(sr) /\ CallsIn(sr) = cr
  <2>1. CASE r = None
    BY <1>3, <2>1, NoCall DEF SaveRefreshToken
  <2>2. CASE r # None
    <3>1. RefreshAt(r) \in File /\ [refreshes |-> t] \in Content(RefreshAt(r))
      BY <2>2, NewContents
    <3> QED BY <1>3, <2>2, <3>1, Saved DEF SaveRefreshToken
  <2> QED BY <2>1, <2>2
<1>5. PICK sd, se : sd = DeleteAccess(o) /\ se = DeleteRefresh(o)
  OBVIOUS
<1>6. /\ sd \in Seq(Call) /\ Ordered(sd) /\ CallsIn(sd) = da
      /\ se \in Seq(Call) /\ Ordered(se) /\ CallsIn(se) = dr
  BY <1>5, DeleteCalls
<1>7. /\ \A c \in ca : c.call \in {"create", "unlock"} /\ c.file = AccessAt(t)
      /\ \A c \in cr : /\ c.call \in {"create", "unlock"} /\ c.file = RefreshAt(r)
                       /\ r # None
      /\ \A c \in da : c.call = "delete" /\ o # None /\ c.file = AccessAt(o.accessToken)
      /\ \A c \in dr : /\ c.call = "delete" /\ o # None
                       /\ c.file = RefreshAt(o.refreshToken)
  BY DEF CreateCall, UnlockCall, DeleteCall
<1>8. ~IsUser(AccessAt(t)) /\ ~IsUser(RefreshAt(r)) /\ AccessAt(t)[1] = "access"
      /\ RefreshAt(r)[2] = r
  BY FileNames, FileKinds DEF IsUser, RefreshAt
<1>9. /\ \A a \in ca, b \in cr : Before(a, b)
      /\ \A a \in ca \union cr, b \in da : Before(a, b)
      /\ \A a \in ca \union cr \union da, b \in dr : Before(a, b)
  <2>1. \A a \in ca, b \in cr : Before(a, b)
    BY <1>7, <1>8, FileNames DEF Before
  <2>2. \A a \in ca, b \in da : Before(a, b)
    BY <1>7, <1>8, FileNames DEF Before
  <2>3. \A a \in cr, b \in da : Before(a, b)
    BY <1>7, <1>8, FileNames DEF Before
  <2>4. \A a \in ca, b \in dr : Before(a, b)
    BY <1>7, <1>8, FileNames DEF Before
  <2>5. \A a \in cr, b \in dr : Before(a, b)
    BY <1>7, <1>8, FileNames DEF Before
  <2>6. \A a \in da, b \in dr : Before(a, b)
    BY <1>7, FileNames DEF Before
  <2> QED BY <2>1, <2>2, <2>3, <2>4, <2>5, <2>6
<1> HIDE DEF ca, cr, da, dr
<1>10. PICK s1, s2, s3 : s1 = sa \o sr /\ s2 = s1 \o sd /\ s3 = s2 \o se
  OBVIOUS
<1>11. s1 \in Seq(Call) /\ Ordered(s1) /\ CallsIn(s1) = ca \union cr
  BY <1>2, <1>4, <1>9, <1>10, Extended
<1>12. PICK cs : cs = ca \union cr
  OBVIOUS
<1>13. s2 \in Seq(Call) /\ Ordered(s2) /\ CallsIn(s2) = cs \union da
  <2>1. \A a \in cs, b \in da : Before(a, b)
    BY <1>9, <1>12
  <2>2. CallsIn(s1) = cs /\ CallsIn(sd) = da
    BY <1>6, <1>11, <1>12
  <2>3. s1 \o sd \in Seq(Call) /\ Ordered(s1 \o sd) /\ CallsIn(s1 \o sd) = cs \union da
    BY <1>6, <1>11, <2>1, <2>2, Extended
  <2> QED BY <1>10, <2>3
<1>14. PICK ct : ct = cs \union da
  OBVIOUS
<1>15. s3 \in Seq(Call) /\ Ordered(s3) /\ CallsIn(s3) = ct \union dr
  <2>1. \A a \in ct, b \in dr : Before(a, b)
    BY <1>9, <1>12, <1>14
  <2>2. CallsIn(s2) = ct /\ CallsIn(se) = dr
    BY <1>6, <1>13, <1>14
  <2>3. s2 \o se \in Seq(Call) /\ Ordered(s2 \o se) /\ CallsIn(s2 \o se) = ct \union dr
    BY <1>6, <1>13, <2>1, <2>2, Extended
  <2> QED BY <1>10, <2>3
<1>16. UserLogin(v, u, d, t, r) = s3
  BY <1>1, <1>3, <1>5, <1>10 DEF UserLogin
<1> QED BY <1>12, <1>14, <1>15, <1>16 DEF NewCalls, OldCalls, ca, cr, da, dr

\* The calls of a login, for an account that exists and for a new one.
LoginCalls(v, u, d, t, r) ==
    NewCalls(u, d, t, r) \union OldCalls(v.devices[d])
      \union {UnlockCall(UserAt(u), LoggedIn(v, d, t, r))}
LoginStarts(v, u, d, t, r) ==
    \/ /\ Exists(UserAt(u)) /\ v = files[UserAt(u)] /\ held' = {UserAt(u)}
       /\ todo' = UserLogin(v, u, d, t, r)
                    \o DbUnlock(UserAt(u), LoggedIn(v, d, t, r))
    \/ /\ ~Exists(UserAt(u)) /\ held' = {}
       /\ \A e \in Device : v.devices[e] = None
       /\ todo' = (DbCreate(UserAt(u)) \o UserLogin(v, u, d, t, r))
                    \o DbUnlock(UserAt(u), LoggedIn(v, d, t, r))

LEMMA LoggedInIs ==
  ASSUME NEW v \in UserFile, NEW d \in Device, NEW t \in AccessToken,
         NEW r \in RefreshToken \union {None}
  PROVE  /\ LoggedIn(v, d, t, r) \in UserFile
         /\ LoggedIn(v, d, t, r).hasDevices
         /\ \A e \in Device : LoggedIn(v, d, t, r).devices[e] =
               IF e = d THEN [accessToken |-> t, refreshToken |-> r] ELSE v.devices[e]
<1>1. [accessToken |-> t, refreshToken |-> r] \in DeviceObject
  BY DEF DeviceObject
<1> QED BY <1>1 DEF LoggedIn, UserFile

LEMMA LoginOrder ==
  ASSUME NEW u \in User, NEW d \in Device, NEW t \in AccessToken,
         NEW r \in RefreshToken \union {None}, NEW v \in UserFile,
         LoginStarts(v, u, d, t, r),
         v.devices[d] # None =>
            /\ v.devices[d].accessToken # t
            /\ r # None => v.devices[d].refreshToken # r,
         r # None => renews[r] = None, UNCHANGED renews
  PROVE  /\ OrderInv'
         /\ Calls' = LoginCalls(v, u, d, t, r)
                       \union IF Exists(UserAt(u)) THEN {} ELSE {CreateCall(UserAt(u))}
<1> DEFINE U == UserAt(u)
           save == UnlockCall(U, LoggedIn(v, d, t, r))
           C == NewCalls(u, d, t, r) \union OldCalls(v.devices[d])
<1>1. v.devices[d] \in DeviceObject \union {None}
  BY DEF UserFile
<1>2. PICK s : s = UserLogin(v, u, d, t, r)
  OBVIOUS
<1>3. s \in Seq(Call) /\ Ordered(s) /\ CallsIn(s) = C
  BY <1>1, <1>2, UserLoginCalls
<1>4. U \in File /\ IsUser(U) /\ LoggedIn(v, d, t, r) \in Content(U)
  BY LoggedInIs, FileKinds DEF Content
<1>5. save \in Call /\ CreateCall(U) \in Call
  BY <1>4, CallTypes
<1>6. DbUnlock(U, LoggedIn(v, d, t, r)) = <<save>> /\ DbCreate(U) = <<CreateCall(U)>>
  BY DEF DbUnlock, DbCreate, UnlockCall, CreateCall
<1>7. \A c \in C : /\ c.call \in {"create", "unlock", "delete"}
                   /\ \E x : c.file = AccessAt(x) \/ c.file = RefreshAt(x)
  BY DEF NewCalls, OldCalls, CreateCall, UnlockCall, DeleteCall
<1>8. /\ save.call = "unlock" /\ save.file = U
      /\ CreateCall(U).call = "create" /\ CreateCall(U).file = U
  BY DEF UnlockCall, CreateCall
<1>9. \A c \in C : Before(c, save) /\ Before(CreateCall(U), c)
  <2>1. \A c \in C : c.file # U /\ ~IsUser(c.file)
    BY <1>7, FileNames DEF IsUser
  <2> QED BY <1>7, <1>8, <2>1, FileNames DEF Before
<1>10. Before(CreateCall(U), save)
  BY <1>8 DEF Before
<1> HIDE DEF C
<1>11. CASE Exists(U)
  <2>1. todo' = s \o <<save>>
    BY <1>2, <1>6, <1>11 DEF LoginStarts
  <2>2. todo' \in Seq(Call) /\ Ordered(todo') /\ Calls' = C \union {save}
    BY <1>3, <1>5, <1>9, <2>1, Then DEF Calls
  <2>3. OrderInv'
    BY <2>2, OrderedNext
  <2> QED BY <1>11, <2>2, <2>3 DEF C, LoginCalls
<1>12. CASE ~Exists(U)
  <2>1. PICK s1 : s1 = <<CreateCall(U)>> \o s
    OBVIOUS
  <2>2. s1 \in Seq(Call) /\ Ordered(s1) /\ CallsIn(s1) = {CreateCall(U)} \union C
    <3>1. PICK s0 : s0 = <<CreateCall(U)>>
      OBVIOUS
    <3>2. s0 \in Seq(Call) /\ Ordered(s0) /\ CallsIn(s0) = {CreateCall(U)}
      BY <1>5, <3>1, One
    <3>3. PICK c0 : c0 = {CreateCall(U)}
      OBVIOUS
    <3>4. \A a \in c0, b \in C : Before(a, b)
      BY <1>9, <3>3
    <3>5. s0 \o s \in Seq(Call) /\ Ordered(s0 \o s) /\ CallsIn(s0 \o s) = c0 \union C
      BY <1>3, <3>2, <3>3, <3>4, Extended
    <3> QED BY <2>1, <3>1, <3>3, <3>5
  <2>3. todo' = s1 \o <<save>>
    BY <1>2, <1>6, <1>12, <2>1 DEF LoginStarts
  <2>4. \A c \in CallsIn(s1) : Before(c, save)
    BY <1>9, <1>10, <2>2
  <2>5. todo' \in Seq(Call) /\ Ordered(todo') /\ Calls' = C \union {CreateCall(U), save}
    BY <1>5, <2>2, <2>3, <2>4, Then DEF Calls
  <2>6. OrderInv'
    BY <2>5, OrderedNext
  <2> QED BY <1>12, <2>5, <2>6 DEF C, LoginCalls
<1> QED BY <1>11, <1>12

\* New strings are strings of which there is no trace.
LEMMA FreshIsUnnamed ==
  ASSUME NEW t \in AccessToken, FreshAccess(t)
  PROVE  Unnamed(t) /\ ~Exists(AccessAt(t)) /\ grantedTo[t] = None
BY FileKinds DEF FreshAccess, Unnamed, Names

LEMMA LoginKeeps ==
  ASSUME IInv, Starts,
         NEW u \in User, NEW d \in Device, NEW t \in AccessToken,
         NEW r \in RefreshToken \union {None}, NEW v \in UserFile, NEW p \in Password,
         v = (IF Exists(UserAt(u)) THEN files[UserAt(u)] ELSE NewUser(p)),
         v.password = p, ~v.deactivated, before' = files,
         FreshAccess(t), FreshRefresh(r),
         LoginStarts(v, u, d, t, r),
         request' = [reply |-> [route |-> "login", status |-> 200,
                                user |-> u, token |-> t],
                     session |-> [user |-> u, device |-> d], refreshToken |-> r]
  PROVE  IInv' /\ Promised'
<1> DEFINE U == UserAt(u)
           A == AccessAt(t)
           R == RefreshAt(r)
           s == [user |-> u, device |-> d]
           o == v.devices[d]
           w == LoggedIn(v, d, t, r)
           z == NewAccessFile(u, d, r # None)
           save == UnlockCall(U, w)
<1>1. /\ Unnamed(t) /\ ~Exists(A) /\ grantedTo[t] = None
      /\ r # None => r \in RefreshToken /\ renews[r] = None /\ ~Exists(R)
  BY FreshIsUnnamed DEF FreshRefresh
<1>2. /\ o \in DeviceObject \union {None}
      /\ \A e \in Device : v.devices[e] = IF Exists(U) THEN files[U].devices[e] ELSE None
  BY DEF UserFile, LoginStarts
<1>3. o # None => /\ Exists(U) /\ files[U].devices[d] = o
                  /\ o.accessToken # t /\ (r # None => o.refreshToken # r)
                  /\ o.accessToken \in AccessToken
                  /\ o.refreshToken \in RefreshToken \union {None}
  BY <1>2 DEF FreshAccess, FreshRefresh, DeviceObject
<1>4. /\ OrderInv'
      /\ Calls' = LoginCalls(v, u, d, t, r)
                    \union IF Exists(U) THEN {} ELSE {CreateCall(U)}
  BY <1>1, <1>3, LoginOrder DEF Starts
<1>5. /\ U \in File /\ IsUser(U) /\ A \in File /\ ~IsUser(A) /\ A[1] = "access"
      /\ Content(A) = AccessFile /\ A \in TokenFile
      /\ r # None => R \in File /\ R \in TokenFile /\ R[1] = "refresh"
                       /\ Content(R) = RefreshFile
  BY <1>1, FileKinds DEF Content
<1>6. /\ CreateCall(A) \in Calls' /\ UnlockCall(A, z) \in Calls' /\ save \in Calls'
      /\ r # None => CreateCall(R) \in Calls' /\ UnlockCall(R, [refreshes |-> t]) \in Calls'
      /\ o # None => DeleteCall(AccessAt(o.accessToken)) \in Calls'
      /\ o # None /\ o.refreshToken # None
           => DeleteCall(RefreshAt(o.refreshToken)) \in Calls'
      /\ ~Exists(U) => CreateCall(U) \in Calls'
  BY <1>4 DEF LoginCalls, NewCalls, OldCalls
<1>7. \A c \in Calls' :
         \/ c = CreateCall(A) \/ c = UnlockCall(A, z) \/ c = save
         \/ r # None /\ (c = CreateCall(R) \/ c = UnlockCall(R, [refreshes |-> t]))
         \/ o # None /\ c = DeleteCall(AccessAt(o.accessToken))
         \/ o # None /\ o.refreshToken # None /\ c = DeleteCall(RefreshAt(o.refreshToken))
         \/ ~Exists(U) /\ c = CreateCall(U)
  BY <1>4 DEF LoginCalls, NewCalls, OldCalls
<1>8. /\ \A f : CreateCall(f).call = "create" /\ CreateCall(f).file = f
                  /\ CreateCall(f).value = Empty(f)
      /\ \A f, x : UnlockCall(f, x).call = "unlock" /\ UnlockCall(f, x).file = f
                  /\ UnlockCall(f, x).value = x
      /\ \A f : DeleteCall(f).call = "delete" /\ DeleteCall(f).file = f
                  /\ DeleteCall(f).value = None
  BY DEF CreateCall, UnlockCall, DeleteCall
<1>9. /\ \A c \in Calls' : c.call \in {"create", "unlock", "delete"}
      /\ \A c \in Calls' : c.call = "delete" =>
            /\ o # None
            /\ \/ c.file = AccessAt(o.accessToken)
               \/ o.refreshToken # None /\ c.file = RefreshAt(o.refreshToken)
            /\ c.value = None
      /\ \A c \in Calls' : c.call = "unlock" =>
            \/ c.file = A /\ c = UnlockCall(A, z)
            \/ c.file = U /\ c = save
            \/ r # None /\ c.file = R /\ c = UnlockCall(R, [refreshes |-> t])
      /\ \A c \in Calls' : c.call = "create" =>
            \/ c = CreateCall(A)
            \/ r # None /\ c = CreateCall(R)
            \/ ~Exists(U) /\ c = CreateCall(U)
  BY <1>7, <1>8
<1>10. \A f \in TokenFile : Doom(f)' <=> Exists(U) /\ Names(files[U], d, f)
  <2>1. \A f \in TokenFile : Doom(f)' <=>
           /\ o # None
           /\ \/ f = AccessAt(o.accessToken)
              \/ o.refreshToken # None /\ f = RefreshAt(o.refreshToken)
    <3>1. \A f \in TokenFile : Doom(f)' <=>
             \E c \in Calls' : c.call = "delete" /\ c.file = f
      BY <1>9 DEF Doom
    <3> QED BY <1>6, <1>8, <1>9, <3>1
  <2>2. CASE o = None
    <3>1. Exists(U) => files[U].devices[d] = None
      BY <1>2, <2>2
    <3> QED BY <2>1, <2>2, <3>1 DEF Names
  <2>3. CASE o # None
    <3>1. \A x \in AccessToken : Names(files[U], d, AccessAt(x)) <=> x = o.accessToken
      BY <1>3, <2>3, FileKinds DEF Names
    <3>2. \A x \in RefreshToken : Names(files[U], d, RefreshAt(x)) <=> x = o.refreshToken
      BY <1>3, <2>3, FileKinds DEF Names
    <3> QED BY <1>3, <2>1, <2>3, <3>1, <3>2, FileKinds, FileNames, NoneAssumption
  <2> QED BY <2>2, <2>3
<1>11. /\ w \in UserFile /\ w.hasDevices
       /\ \A e \in Device : w.devices[e] =
             IF e = d THEN [accessToken |-> t, refreshToken |-> r] ELSE v.devices[e]
  BY LoggedInIs
<1>12. z \in AccessFile /\ z.user = u /\ z.device = d
  <2>1. \A b \in BOOLEAN : /\ NewAccessFile(u, d, b) \in AccessFile
                           /\ NewAccessFile(u, d, b).user = u
                           /\ NewAccessFile(u, d, b).device = d
    BY DEF NewAccessFile, AccessFile
  <2> QED BY <2>1
<1>13. UnlockOK(UnlockCall(A, z))'
  <2>1. Unnamed(t)'
    BY <1>1, Begun
  <2> QED BY <1>5, <1>8, <1>12, <2>1, FileNames DEF UnlockOK
<1>14. r # None => UnlockOK(UnlockCall(R, [refreshes |-> t]))'
  <2>1. [refreshes |-> t] \in RefreshFile
    BY DEF RefreshFile
  <2>2. r # None => renews'[r] = None
    BY <1>1 DEF Starts
  <2> QED BY <1>5, <1>8, <2>1, <2>2, FileNames DEF UnlockOK
<1>15. UnlockOK(save)'
  <2>1. PICK ds : ds = IF Exists(U) THEN {d} ELSE Device
    OBVIOUS
  <2>2. \A e \in Device \ ds : w.devices[e] = files[U].devices[e]
    BY <1>2, <1>11, <2>1
  <2>3. \A e \in ds : w.devices[e] # None =>
           /\ request'.session = [user |-> u, device |-> e]
           /\ request'.reply.token = w.devices[e].accessToken
    BY <1>2, <1>11, <2>1
  <2>4. \A f \in TokenFile, e \in ds :
           Exists(U) /\ Names(files[U], e, f) => Doom(f)'
    BY <1>10, <2>1
  <2> QED BY <1>11, <2>1, <2>2, <2>3, <2>4, SavesUser
<1>16. /\ CreateOK(CreateCall(A))'
       /\ r # None => CreateOK(CreateCall(R))'
       /\ ~Exists(U) => CreateOK(CreateCall(U))'
  <2>1. /\ Unnamed(t)' /\ files'[A] = None
        /\ r # None => renews'[r] = None /\ files'[R] = None
        /\ ~Exists(U) => files'[U] = None
    BY <1>1, Begun DEF Starts, Exists
  <2> QED BY <1>8, <2>1, FileNames DEF CreateOK, Exists
<1>17. CallsInv'
  <2>1. \A c \in Calls' : c.call = "unlock" => UnlockOK(c)'
    BY <1>9, <1>13, <1>14, <1>15
  <2>2. \A c \in Calls' : c.call = "create" => CreateOK(c)'
    BY <1>9, <1>16
  <2>3. \A c \in Calls' : c.call = "delete" => c.file \in TokenFile /\ c.value = None
    BY <1>3, <1>9, FileKinds
  <2> QED BY <1>9, <2>1, <2>2, <2>3 DEF CallsInv
<1>18. LockInv'
  <2>1. /\ Unlocks(U)' # {} /\ Unlocks(A)' # {}
        /\ r # None => Unlocks(R)' # {}
    BY <1>6, <1>8 DEF Unlocks
  <2>2. held' \subseteq {U}
    BY DEF LoginStarts
  <2>3. \A c \in Calls' : c.call \in {"lock", "create"} =>
           c.file = A \/ c.file = U \/ (r # None /\ c.file = R)
    BY <1>8, <1>9
  <2> QED BY <2>1, <2>2, <2>3 DEF LockInv, Unlocks
<1>19. DanglingInv'
  <2>1. PICK ds : ds = {d}
    OBVIOUS
  <2>2. \A a \in AccessToken : Doom(AccessAt(a))' =>
           Exists(U) /\ \E e \in ds : Names(files[U], e, AccessAt(a))
    BY <1>10, <2>1, FileKinds
  <2>3. \A x \in RefreshToken, e \in ds :
           Exists(U) /\ KnownRefresh(x) /\ Names(files[U], e, RefreshAt(x)) => Renamed(x)'
    BY <1>10, <2>1, FileKinds DEF Renamed
  <2> QED BY <2>1, <2>2, <2>3, DoomedTogether
<1>20. GrantInv'
  <2>1. /\ request'.session = s /\ request'.reply.token = t
        /\ request'.reply.route = "login" /\ request'.refreshToken = r
        /\ s \in Session /\ s.user = u /\ s.device = d
    BY DEF Session
  <2>2. /\ grantedTo' = grantedTo /\ renews' = renews
    BY DEF Starts
  <2>3. \A c \in Calls' : /\ c.call # "visit"
                          /\ c.call = "delete" => c.file # A /\ (r # None => c.file # R)
    BY <1>3, <1>9, FileNames
  <2>4. \A c \in Calls' : c.call = "unlock" =>
           /\ c.file = A => c.value = z
           /\ c.file = U => c.value = w
           /\ r # None /\ c.file = R => c.value = [refreshes |-> t]
    BY <1>8, <1>9, FileNames
  <2>5. /\ UnlockCall(A, z) \in Unlocks(A)' /\ save \in Unlocks(U)'
        /\ r # None => UnlockCall(R, [refreshes |-> t]) \in Unlocks(R)'
    BY <1>6, <1>8 DEF Unlocks
  <2>6. /\ \A c \in Unlocks(A)' : AccessIs(c.value, s)
        /\ \A c \in Unlocks(R)' : r # None => c.value.refreshes = t
    BY <1>12, <2>4 DEF Unlocks, AccessIs
  <2>7. \A c \in Unlocks(U)' : Installs(c.value)'
    <3>1. w.devices[d] = [accessToken |-> t, refreshToken |-> r]
      BY <1>11
    <3>2. w.devices[d] # None
      BY <3>1, NoneAssumption DEF DeviceObject
    <3> QED BY <2>1, <2>4, <3>1, <3>2 DEF Unlocks, Installs
  <2> QED BY <1>1, <2>1, <2>2, <2>3, <2>5, <2>6, <2>7 DEF GrantInv, Unlocks, AccessIs, Installs
<1>21. request' \in UnderWay /\ request'.session # None
  <2>1. s \in Session
    BY DEF Session
  <2> QED BY <2>1, NoneAssumption DEF UnderWay, Reply
<1>22. PromiseInv'
  BY <1>21 DEF PromiseInv
<1>23. held' \subseteq File
  BY <1>5 DEF LoginStarts
<1>24. Promised'
  <2>1. PICK a : a = LogsIn(files, u, d, t, r, w)
    OBVIOUS
  <2>2. Leads(a)'
    <3> SUFFICES ASSUME NEW f \in File
                 PROVE  IF f \in TokenFile /\ Doom(f)' THEN a[f] = None
                        ELSE IF Unlocks(f)' # {}
                        THEN \A c \in Unlocks(f)' : c.value = a[f]
                        ELSE a[f] = files'[f]
      BY DEF Leads
    <3>1. /\ files' = files
          /\ a[f] = IF f = U THEN w ELSE IF f = A THEN z
                    ELSE IF r # None /\ f = R THEN [refreshes |-> t]
                    ELSE IF f \in TokenFile /\ files[U] # None /\ Names(files[U], d, f)
                    THEN None ELSE files[f]
      BY <2>1 DEF LogsIn, Starts
    <3>2. U # A /\ U # R /\ A # R /\ U \notin TokenFile
      BY FileNames, FileKinds
    <3>3. CASE f = U
      <4>1. save \in Unlocks(U)' /\ \A c \in Unlocks(U)' : c.value = w
        BY <1>6, <1>8, <1>9, <3>2 DEF Unlocks
      <4> QED BY <3>1, <3>2, <3>3, <4>1
    <3>4. CASE f = A
      <4>1. UnlockCall(A, z) \in Unlocks(A)' /\ \A c \in Unlocks(A)' : c.value = z
        BY <1>6, <1>8, <1>9, <3>2 DEF Unlocks
      <4>2. ~Doom(A)'
        BY <1>2, <1>3, <1>5, <1>10, FileKinds DEF Names
      <4> QED BY <3>1, <3>2, <3>4, <4>1, <4>2
    <3>5. CASE r # None /\ f = R
      <4>1. /\ UnlockCall(R, [refreshes |-> t]) \in Unlocks(R)'
            /\ \A c \in Unlocks(R)' : c.value = [refreshes |-> t]
        BY <1>6, <1>8, <1>9, <3>2, <3>5 DEF Unlocks
      <4>2. ~Doom(R)'
        BY <1>1, <1>2, <1>3, <1>5, <1>10, <3>5, FileKinds DEF Names
      <4> QED BY <3>1, <3>2, <3>5, <4>1, <4>2
    <3>6. CASE f # U /\ f # A /\ ~(r # None /\ f = R)
      <4>1. Unlocks(f)' = {}
        BY <1>9, <3>6 DEF Unlocks
      <4> QED BY <1>10, <3>1, <3>6, <4>1 DEF Exists
    <3> QED BY <3>3, <3>4, <3>5, <3>6
  <2>3. LogsInUser(a)'
    <3>1. v = IF before'[U] = None THEN NewUser(p) ELSE before'[U]
      BY DEF Exists
    <3>2. grantedTo'[t] = None /\ (r # None => renews'[r] = None)
      BY <1>1 DEF Starts
    <3> QED BY <2>1, <3>1, <3>2 DEF LogsInUser
  <2> QED BY <2>2, <2>3 DEF Promised, Carries
<1> QED BY <1>4, <1>17, <1>18, <1>19, <1>20, <1>21, <1>22, <1>23, <1>24, BeginKeeps

LEMMA LoginRouteKeeps ==
  ASSUME IInv, request = None, NEW u \in User, NEW p \in Password, NEW d \in Device,
         NEW t \in AccessToken, NEW r \in RefreshToken \union {None},
         Login(u, p, d, t, r)
  PROVE  IInv' /\ Promised'
<1>1. PICK v : v = files[UserAt(u)]
  OBVIOUS
<1>2. /\ Exists(UserAt(u)) /\ FreshAccess(t) /\ FreshRefresh(r)
      /\ LoginStarts(v, u, d, t, r)
      /\ v.password = p /\ ~v.deactivated /\ before' = files
      /\ request' = [reply |-> [route |-> "login", status |-> 200,
                                user |-> u, token |-> t],
                     session |-> [user |-> u, device |-> d], refreshToken |-> r]
      /\ UNCHANGED <<files, grantedTo, renews, reply, crashed>>
  BY <1>1 DEF Login, Begin, LoginStarts
<1>3. Starts
  BY <1>2 DEF IInv, TypeOK, Starts
<1>4. v \in UserFile
  BY <1>1, <1>2, Contents DEF IInv
<1> QED BY <1>1, <1>2, <1>3, <1>4, LoginKeeps

LEMMA RegisterAndLoginKeeps ==
  ASSUME IInv, request = None, NEW u \in User, NEW p \in Password, NEW d \in Device,
         NEW t \in AccessToken, NEW r \in RefreshToken \union {None},
         RegisterAndLogin(u, p, d, t, r)
  PROVE  IInv' /\ Promised'
<1>1. PICK v : v = NewUser(p)
  OBVIOUS
<1>2. /\ v \in UserFile /\ \A e \in Device : v.devices[e] = None
      /\ v.password = p /\ ~v.deactivated
  BY <1>1, NewUsers
<1>3. /\ ~Exists(UserAt(u)) /\ FreshAccess(t) /\ FreshRefresh(r)
      /\ LoginStarts(v, u, d, t, r) /\ before' = files
      /\ request' = [reply |-> [route |-> "login", status |-> 200,
                                user |-> u, token |-> t],
                     session |-> [user |-> u, device |-> d], refreshToken |-> r]
      /\ UNCHANGED <<files, grantedTo, renews, reply, crashed>>
  BY <1>1, <1>2 DEF RegisterAndLogin, Begin, LoginStarts
<1>4. Starts
  BY <1>3 DEF IInv, TypeOK, Starts
<1> QED BY <1>1, <1>2, <1>3, <1>4, LoginKeeps

-----------------------------------------------------------------------------
(* A refresh *)

\* A refresh token whose access token is gone: the answer is 500 and the
\* refresh token is deleted.
LEMMA RefreshFails ==
  ASSUME IInv, Starts, NEW r \in RefreshToken, KnownRefresh(r),
         held' = {RefreshAt(r)},
         todo' = DbUnlock(RefreshAt(r), files[RefreshAt(r)]) \o DbDelete(RefreshAt(r)),
         request' = [reply |-> [route |-> "refresh", status |-> 500,
                                user |-> None, token |-> None],
                     session |-> None, refreshToken |-> None]
  PROVE  IInv'
<1> DEFINE R == RefreshAt(r)
<1>0. PICK x, same, gone :
         x = files[R] /\ same = UnlockCall(R, x) /\ gone = DeleteCall(R)
  OBVIOUS
<1>1. /\ R \in File /\ R \in TokenFile /\ ~IsUser(R) /\ Exists(R)
      /\ Content(R) = RefreshFile /\ x \in RefreshFile
  BY <1>0, FileKinds, Contents DEF Content, IInv, KnownRefresh
<1>2. /\ same.call = "unlock" /\ same.file = R /\ same.value = x
      /\ gone.call = "delete" /\ gone.file = R /\ gone.value = None
  BY <1>0 DEF UnlockCall, DeleteCall
<1>3. todo' \in Seq(Call) /\ Ordered(todo') /\ Calls' = {same, gone}
  <2>1. same \in Call /\ gone \in Call
    BY <1>0, <1>1, CallTypes
  <2>2. <<same>> \in Seq(Call) /\ Ordered(<<same>>) /\ CallsIn(<<same>>) = {same}
    BY <2>1, One
  <2>3. Before(same, gone)
    BY <1>1, <1>2, FileNames DEF Before
  <2>4. todo' = <<same>> \o <<gone>>
    BY <1>0 DEF DbUnlock, DbDelete, UnlockCall, DeleteCall
  <2>5. \A c \in CallsIn(<<same>>) : Before(c, gone)
    BY <2>2, <2>3
  <2>6. PICK s, s1 : s = s1 \o <<gone>> /\ s1 = <<same>>
    OBVIOUS
  <2>7. s \in Seq(Call) /\ Ordered(s) /\ CallsIn(s) = CallsIn(s1) \union {gone}
    BY <2>1, <2>2, <2>5, <2>6, Then
  <2> QED BY <2>2, <2>4, <2>6, <2>7 DEF Calls
<1>4. OrderInv' /\ held' \subseteq File
  BY <1>1, <1>3, OrderedNext DEF Starts
<1>5. CallsInv'
  <2>1. files'[R] # None /\ files'[R] = x
    BY <1>0, <1>1 DEF Starts, Exists
  <2>2. UnlockOK(same)'
    BY <1>1, <1>2, <2>1, FileNames DEF UnlockOK, Exists
  <2> QED BY <1>1, <1>2, <1>3, <2>2 DEF CallsInv
<1>6. LockInv'
  BY <1>2, <1>3 DEF LockInv, Unlocks
<1>7. DanglingInv'
  <2>1. \A a \in AccessToken : ~Doom(AccessAt(a))'
    BY <1>2, <1>3, FileNames DEF Doom
  <2> QED BY <2>1, NoneDangling
<1>8. request' \in UnderWay /\ request' # None /\ request'.session = None
  <2>1. request' \in UnderWay
    BY DEF UnderWay, Reply
  <2> QED BY <2>1, NoneAssumption
<1>9. PromiseInv'
  BY DEF PromiseInv
<1> QED BY <1>4, <1>5, <1>6, <1>7, <1>8, <1>9, WithoutSession, BeginKeeps

\* The calls of a refresh that succeeds.
Renewing(u, r, old, t, z, x, n, w) ==
    DbCreate(AccessAt(t)) \o DbUnlock(AccessAt(t), z)
      \o DbUnlock(AccessAt(old), x) \o DbDelete(AccessAt(old))
      \o DbUnlock(RefreshAt(r), n) \o DbUnlock(UserAt(u), w)

LEMMA RefreshOrder ==
  ASSUME NEW u \in User, NEW r \in RefreshToken,
         NEW old \in AccessToken, NEW t \in AccessToken, old # t,
         NEW z \in AccessFile, NEW x \in AccessFile, NEW n \in RefreshFile,
         NEW w \in UserFile,
         UNCHANGED renews,
         todo' = Renewing(u, r, old, t, z, x, n, w)
  PROVE  /\ OrderInv'
         /\ Calls' = {CreateCall(AccessAt(t)), UnlockCall(AccessAt(t), z),
                      UnlockCall(AccessAt(old), x), DeleteCall(AccessAt(old)),
                      UnlockCall(RefreshAt(r), n),
                      UnlockCall(UserAt(u), w)}
<1> DEFINE N == AccessAt(t)
           O == AccessAt(old)
           R == RefreshAt(r)
           U == UserAt(u)
<1>1. PICK c1, c2, c3, c4, c5, c6 :
         /\ c1 = CreateCall(N) /\ c2 = UnlockCall(N, z) /\ c3 = UnlockCall(O, x)
         /\ c4 = DeleteCall(O) /\ c5 = UnlockCall(R, n)
         /\ c6 = UnlockCall(U, w)
  OBVIOUS
<1>2. /\ U \in File /\ N \in File /\ O \in File /\ R \in File
      /\ IsUser(U) /\ ~IsUser(N) /\ ~IsUser(O) /\ ~IsUser(R)
      /\ N[1] = "access" /\ O[1] = "access" /\ R[1] = "refresh"
      /\ N # O /\ N # R /\ N # U /\ O # R /\ O # U /\ R # U
  BY FileKinds, FileNames
<1>3. /\ c3 \in Call /\ c4 \in Call /\ c5 \in Call /\ c6 \in Call
  <2>1. /\ Content(U) = UserFile /\ Content(O) = AccessFile
        /\ Content(R) = RefreshFile
    BY FileKinds DEF Content
  <2> QED BY <1>1, <1>2, <2>1, CallTypes
<1>4. /\ c1.call = "create" /\ c1.file = N
      /\ c2.call = "unlock" /\ c2.file = N
      /\ c3.call = "unlock" /\ c3.file = O
      /\ c4.call = "delete" /\ c4.file = O
      /\ c5.call = "unlock" /\ c5.file = R
      /\ c6.call = "unlock" /\ c6.file = U
  BY <1>1 DEF CreateCall, UnlockCall, DeleteCall
<1>5. /\ Before(c1, c3) /\ Before(c2, c3)
      /\ Before(c1, c4) /\ Before(c2, c4) /\ Before(c3, c4)
  BY <1>2, <1>4 DEF Before
<1>6. Before(c1, c5) /\ Before(c2, c5) /\ Before(c3, c5) /\ Before(c4, c5)
  BY <1>2, <1>4 DEF Before
<1>7. /\ Before(c1, c6) /\ Before(c2, c6) /\ Before(c3, c6) /\ Before(c4, c6)
      /\ Before(c5, c6)
  BY <1>2, <1>4, FileNames DEF Before
<1>8. PICK s2, s3, s4, s5 :
         /\ s2 = DbCreate(N) \o DbUnlock(N, z) /\ s3 = s2 \o <<c3>>
         /\ s4 = s3 \o <<c4>> /\ s5 = s4 \o <<c5>>
  OBVIOUS
<1>9. s2 \in Seq(Call) /\ Ordered(s2) /\ CallsIn(s2) = {c1, c2}
  <2>1. z \in Content(N)
    BY FileKinds DEF Content
  <2> QED BY <1>1, <1>2, <1>8, <2>1, Saved
<1>10. s3 \in Seq(Call) /\ Ordered(s3) /\ CallsIn(s3) = {c1, c2, c3}
  <2>1. \A a \in CallsIn(s2) : Before(a, c3)
    BY <1>5, <1>9
  <2>2. s3 \in Seq(Call) /\ Ordered(s3) /\ CallsIn(s3) = CallsIn(s2) \union {c3}
    BY <1>3, <1>8, <1>9, <2>1, Then
  <2> QED BY <1>9, <2>2
<1>11. s4 \in Seq(Call) /\ Ordered(s4) /\ CallsIn(s4) = {c1, c2, c3, c4}
  <2>1. \A a \in CallsIn(s3) : Before(a, c4)
    BY <1>5, <1>10
  <2>2. s4 \in Seq(Call) /\ Ordered(s4) /\ CallsIn(s4) = CallsIn(s3) \union {c4}
    BY <1>3, <1>8, <1>10, <2>1, Then
  <2> QED BY <1>10, <2>2
<1>12. s5 \in Seq(Call) /\ Ordered(s5) /\ CallsIn(s5) = {c1, c2, c3, c4, c5}
  <2>1. \A a \in CallsIn(s4) : Before(a, c5)
    BY <1>6, <1>11
  <2>2. s5 \in Seq(Call) /\ Ordered(s5) /\ CallsIn(s5) = CallsIn(s4) \union {c5}
    BY <1>3, <1>8, <1>11, <2>1, Then
  <2> QED BY <1>11, <2>2
<1>13. todo' = s5 \o <<c6>>
  <2>1. /\ DbUnlock(O, x) = <<c3>> /\ DbDelete(O) = <<c4>>
        /\ DbUnlock(R, n) = <<c5>> /\ DbUnlock(U, w) = <<c6>>
    BY <1>1 DEF DbUnlock, DbDelete, UnlockCall, DeleteCall
  <2> QED BY <1>8, <2>1 DEF Renewing
<1>14. /\ todo' \in Seq(Call) /\ Ordered(todo')
       /\ Calls' = {c1, c2, c3, c4, c5, c6}
  <2>1. \A a \in CallsIn(s5) : Before(a, c6)
    BY <1>7, <1>12
  <2>2. PICK s6 : s6 = s5 \o <<c6>>
    OBVIOUS
  <2>3. s6 \in Seq(Call) /\ Ordered(s6) /\ CallsIn(s6) = CallsIn(s5) \union {c6}
    BY <1>3, <1>12, <2>1, <2>2, Then
  <2> QED BY <1>12, <1>13, <2>2, <2>3 DEF Calls
<1> QED BY <1>1, <1>14, OrderedNext

LEMMA RefreshedIs ==
  ASSUME NEW v \in UserFile, NEW d \in Device, NEW t \in AccessToken, v.hasDevices,
         v.devices[d] # None
  PROVE  /\ Refreshed(v, d, t) \in UserFile
         /\ Refreshed(v, d, t).hasDevices
         /\ \A e \in Device : Refreshed(v, d, t).devices[e] =
               IF e = d THEN [accessToken |-> t,
                              refreshToken |-> v.devices[d].refreshToken]
               ELSE v.devices[e]
<1>1. PICK y \in RefreshToken \union {None} : y = v.devices[d].refreshToken
  BY DEF UserFile, DeviceObject
<1>2. [accessToken |-> t, refreshToken |-> y] \in DeviceObject
  BY DEF DeviceObject
<1>3. Refreshed(v, d, t) =
         [v EXCEPT !.devices[d] = [accessToken |-> t, refreshToken |-> y]]
  BY <1>1 DEF Refreshed
<1> QED BY <1>1, <1>2, <1>3 DEF UserFile

\* A refresh token of a client and its session, and the access token to replace.
Renewal(r, old, u, d, v) ==
    /\ old = files[RefreshAt(r)].refreshes
    /\ u = files[AccessAt(old)].user /\ d = files[AccessAt(old)].device
    /\ v = files[UserAt(u)]

LEMMA Refreshing ==
  ASSUME IInv, NEW r \in RefreshToken, KnownRefresh(r),
         NEW old, NEW u, NEW d, NEW v, Renewal(r, old, u, d, v), Exists(AccessAt(old))
  PROVE  /\ u \in User /\ d \in Device /\ old \in AccessToken
         /\ renews[r] = [user |-> u, device |-> d] /\ renews[r] \in Session
         /\ Exists(UserAt(u)) /\ v \in UserFile /\ files[AccessAt(old)] \in AccessFile
         /\ v.hasDevices /\ v.devices[d] # None /\ v.devices[d].refreshToken = r
         /\ \A y \in AccessToken :
               Known(y) /\ Names(v, d, AccessAt(y)) => y = old
         /\ \A y \in AccessToken :
               Known(y) /\ grantedTo[y] = renews[r] => y = old
         /\ \A x \in RefreshToken :
               KnownRefresh(x) /\ files[RefreshAt(x)].refreshes = old => x = r
<1>0. /\ old = files[RefreshAt(r)].refreshes
      /\ u = files[AccessAt(old)].user /\ d = files[AccessAt(old)].device
      /\ v = files[UserAt(u)]
  BY DEF Renewal
<1>1. old \in AccessToken /\ AccessIs(files[AccessAt(old)], renews[r])
  BY <1>0 DEF IInv, RefreshInv
<1>2. /\ RefreshAt(r) \in TokenFile /\ KnownFile(RefreshAt(r))
      /\ HolderOf(RefreshAt(r)) = renews[r] /\ renews[r] \in Session
  BY FileKinds, Holders DEF IInv, KnownRefresh, TypeOK
<1>3. /\ u \in User /\ d \in Device /\ renews[r] = [user |-> u, device |-> d]
  BY <1>0, <1>1, <1>2 DEF AccessIs, Session
<1>4. Exists(UserAt(u)) /\ Names(v, d, RefreshAt(r))
  BY <1>0, <1>2, <1>3 DEF IInv, NamedInv
<1>5. v.devices[d] # None /\ v.devices[d].refreshToken = r /\ v.hasDevices
  BY <1>0, <1>3, <1>4, FileKinds DEF Names, IInv, DeviceInv
<1>6. v \in UserFile /\ files[AccessAt(old)] \in AccessFile
  BY <1>0, <1>1, <1>3, <1>4, Contents DEF IInv
<1>7. \A y \in AccessToken : Known(y) /\ grantedTo[y] = renews[r] => y = old
  BY <1>0 DEF IInv, TwinInv
<1>8. ASSUME NEW y \in AccessToken, Known(y), Names(v, d, AccessAt(y))
      PROVE  y = old
  <2>1. v.devices[d] # None /\ v.devices[d].accessToken = y
    BY <1>8, FileKinds DEF Names
  <2>2. AccessIs(files[AccessAt(y)], [user |-> u, device |-> d])
    BY <1>0, <1>3, <1>4, <1>8, <2>1 DEF IInv, DeviceInv, Known
  <2>3. AccessIs(files[AccessAt(y)], grantedTo[y]) /\ grantedTo[y] \in Session
    BY <1>8 DEF IInv, AccessInv, TypeOK, Known
  <2>4. grantedTo[y] = [user |-> u, device |-> d]
    BY <2>2, <2>3 DEF AccessIs, Session
  <2> QED BY <1>3, <1>7, <1>8, <2>4
<1>9. ASSUME NEW x \in RefreshToken, KnownRefresh(x), files[RefreshAt(x)].refreshes = old
      PROVE  x = r
  <2>1. AccessIs(files[AccessAt(old)], renews[x])
    BY <1>9 DEF IInv, RefreshInv
  <2>2. renews[x].user = u /\ renews[x].device = d
    BY <1>0, <2>1 DEF AccessIs
  <2>3. files[UserAt(renews[x].user)].devices[renews[x].device].refreshToken = x
    BY <1>9, TwoNames
  <2> QED BY <1>0, <1>5, <2>2, <2>3
<1> QED BY <1>1, <1>2, <1>3, <1>4, <1>5, <1>6, <1>7, <1>8, <1>9

LEMMA RefreshSucceeds ==
  ASSUME IInv, Starts, NEW r \in RefreshToken, KnownRefresh(r),
         NEW t \in AccessToken, FreshAccess(t),
         NEW old, NEW u, NEW d, NEW v, Renewal(r, old, u, d, v), Exists(AccessAt(old)),
         before' = files,
         held' = {RefreshAt(r), AccessAt(old), UserAt(u)},
         todo' = RefreshCalls(r, old, u, d, t),
         request' = [reply |-> [route |-> "refresh", status |-> 200,
                                user |-> u, token |-> t],
                     session |-> renews[r], refreshToken |-> None]
  PROVE  IInv' /\ Promised'
<1> DEFINE N == AccessAt(t)
           O == AccessAt(old)
           R == RefreshAt(r)
           U == UserAt(u)
<1>1. PICK x, z, w, n, s :
         /\ x = files[O] /\ z = NewAccessFile(u, d, TRUE)
         /\ w = Refreshed(v, d, t) /\ n = [refreshes |-> t] /\ s = renews[r]
  OBVIOUS
<1>20. /\ old = files[R].refreshes /\ v = files[U]
       /\ u = files[O].user /\ d = files[O].device
  BY DEF Renewal
<1>2. /\ u \in User /\ d \in Device /\ old \in AccessToken
      /\ s = [user |-> u, device |-> d] /\ s \in Session
      /\ Exists(U) /\ v \in UserFile /\ x \in AccessFile
      /\ v.hasDevices /\ v.devices[d] # None /\ v.devices[d].refreshToken = r
      /\ \A y \in AccessToken : Known(y) /\ Names(v, d, AccessAt(y)) => y = old
      /\ \A y \in AccessToken : Known(y) /\ grantedTo[y] = s => y = old
      /\ \A y \in RefreshToken :
            KnownRefresh(y) /\ files[RefreshAt(y)].refreshes = old => y = r
  BY <1>1, Refreshing
<1>3. /\ Unnamed(t) /\ ~Exists(N) /\ grantedTo[t] = None /\ old # t
      /\ Exists(R) /\ s # None
  BY <1>1, <1>20, FreshIsUnnamed DEF FreshAccess, KnownRefresh
<1>4. /\ w \in UserFile /\ w.hasDevices
      /\ \A e \in Device : w.devices[e] =
            IF e = d THEN [accessToken |-> t, refreshToken |-> r] ELSE v.devices[e]
  BY <1>1, <1>2, RefreshedIs
<1>5. /\ z \in AccessFile /\ z.user = u /\ z.device = d
      /\ n \in RefreshFile /\ n.refreshes = t
  BY <1>1, <1>2 DEF NewAccessFile, AccessFile, RefreshFile
<1>6. PICK c1, c2, c3, c4, c5, c6 :
         /\ c1 = CreateCall(N) /\ c2 = UnlockCall(N, z) /\ c3 = UnlockCall(O, x)
         /\ c4 = DeleteCall(O) /\ c5 = UnlockCall(R, n) /\ c6 = UnlockCall(U, w)
  OBVIOUS
<1>7. OrderInv' /\ Calls' = {c1, c2, c3, c4, c5, c6}
  <2>1. todo' = Renewing(u, r, old, t, z, x, n, w)
    BY <1>1, <1>20 DEF RefreshCalls, SaveAccessToken, Renewing
  <2>2. UNCHANGED renews /\ u \in User /\ old \in AccessToken /\ x \in AccessFile
    BY <1>2 DEF Starts
  <2>3. /\ OrderInv'
        /\ Calls' = {CreateCall(N), UnlockCall(N, z), UnlockCall(O, x), DeleteCall(O),
                     UnlockCall(R, n), UnlockCall(U, w)}
    BY <1>3, <1>4, <1>5, <2>1, <2>2, RefreshOrder
  <2> QED BY <1>6, <2>3
<1>8. /\ c1.call = "create" /\ c1.file = N /\ c1.value = Empty(N)
      /\ c2.call = "unlock" /\ c2.file = N /\ c2.value = z
      /\ c3.call = "unlock" /\ c3.file = O /\ c3.value = x
      /\ c4.call = "delete" /\ c4.file = O /\ c4.value = None
      /\ c5.call = "unlock" /\ c5.file = R /\ c5.value = n
      /\ c6.call = "unlock" /\ c6.file = U /\ c6.value = w
  BY <1>6 DEF CreateCall, UnlockCall, DeleteCall
<1>9. /\ U \in File /\ N \in File /\ O \in File /\ R \in File
      /\ N \in TokenFile /\ O \in TokenFile /\ R \in TokenFile
      /\ N # O /\ N # R /\ N # U /\ O # R /\ O # U /\ R # U
      /\ Content(U) = UserFile /\ Content(N) = AccessFile
      /\ Content(O) = AccessFile /\ Content(R) = RefreshFile
  BY <1>2, <1>3, FileKinds, FileNames DEF Content
<1>10. /\ UNCHANGED <<files, grantedTo, renews, crashed>>
       /\ request'.session = s /\ request'.reply.token = t
       /\ request'.reply.route = "refresh" /\ request'.refreshToken = None
  BY <1>1 DEF Starts
<1>11. \A f : Doom(f)' <=> f = O
  BY <1>7, <1>8 DEF Doom
<1>12. NewName(r, n)'
  BY <1>1, <1>3, <1>5, <1>10 DEF NewName
<1>13. CallsInv'
  <2>1. CreateOK(c1)'
    BY <1>3, <1>8, <1>10, FileNames, Begun DEF CreateOK, Exists
  <2>2. UnlockOK(c2)'
    <3>1. Unnamed(t)'
      BY <1>3, Begun
    <3> QED BY <1>5, <1>8, <1>9, <3>1, FileNames DEF UnlockOK
  <2>3. UnlockOK(c3)'
    <3>1. files'[O] # None /\ files'[O] = x
      BY <1>1, <1>10 DEF Exists
    <3> QED BY <1>2, <1>8, <1>9, <3>1, FileNames DEF UnlockOK, Exists
  <2>4. UnlockOK(c5)'
    <3>1. Replaced(r)'
      <4> SUFFICES ASSUME NEW y \in AccessToken, Known(y)', grantedTo[y] = renews[r]
                   PROVE  Doom(AccessAt(y))'
        BY <1>10 DEF Replaced
      <4>1. y = old
        BY <1>1, <1>2, Begun
      <4> QED BY <1>11, <4>1
    <3>2. files'[R] # None
      BY <1>3, <1>10 DEF Exists
    <3> QED BY <1>5, <1>8, <1>9, <1>12, <3>1, <3>2, FileNames DEF UnlockOK, Exists
  <2>5. UnlockOK(c6)'
    <3>1. PICK ds : ds = {d}
      OBVIOUS
    <3>2. \A e \in Device \ ds : w.devices[e] = files[U].devices[e]
      BY <1>4, <1>20, <3>1
    <3>3. \A e \in ds : w.devices[e] # None =>
             /\ request'.session = [user |-> u, device |-> e]
             /\ request'.reply.token = w.devices[e].accessToken
      BY <1>2, <1>4, <1>10, <3>1
    <3>4. ASSUME NEW f \in TokenFile, NEW e \in ds, KnownFile(f), Names(files[U], e, f)
          PROVE  Doom(f)' \/ Names(w, e, f)
      <4>1. ASSUME NEW y \in AccessToken, f = AccessAt(y) PROVE Doom(f)'
        BY <1>20, <1>2, <1>11, <3>1, <3>4, <4>1, Holders DEF IInv
      <4>2. ASSUME NEW y \in RefreshToken, f = RefreshAt(y) PROVE Names(w, e, f)
        <5>1. y = r
          BY <1>20, <1>2, <3>1, <3>4, <4>2, FileKinds DEF Names
        <5>2. w.devices[d] # None /\ w.devices[d].refreshToken = r
          BY <1>2, <1>4, NoneAssumption DEF UserFile, DeviceObject
        <5> QED BY <3>1, <4>2, <5>1, <5>2, FileKinds DEF Names
      <4> QED BY <4>1, <4>2, FileKinds
    <3>5. \A e \in Device : w.devices[e] # None => w.hasDevices
      BY <1>4
    <3>6. UnlockOK(UnlockCall(U, w))'
      BY <1>2, <1>4, <3>2, <3>3, <3>4, <3>5, SavesUser
    <3> QED BY <1>6, <3>6
  <2> QED BY <1>7, <1>8, <1>9, <2>1, <2>2, <2>3, <2>4, <2>5 DEF CallsInv
<1>14. LockInv'
  <2>1. /\ c2 \in Unlocks(N)' /\ c3 \in Unlocks(O)' /\ c5 \in Unlocks(R)'
        /\ c6 \in Unlocks(U)'
    BY <1>7, <1>8 DEF Unlocks
  <2>2. \A c \in Calls' : c.call \in {"lock", "create"} => c.file = N
    BY <1>7, <1>8
  <2> QED BY <2>1, <2>2 DEF LockInv, Unlocks
<1>15. DanglingInv'
  <2> SUFFICES ASSUME ~crashed, NEW y \in RefreshToken, KnownRefresh(y),
                      NEW a, a = files[RefreshAt(y)].refreshes
               PROVE  (files[AccessAt(a)] # None /\ ~Doom(AccessAt(a))') \/ Renamed(y)'
    BY Begun DEF DanglingInv, Exists, Starts
  <2>1. a \in AccessToken /\ Exists(AccessAt(a))
    BY NothingToCome DEF IInv, DanglingInv, RefreshInv, Renamed, Starts
  <2>2. CASE a = old
    <3>1. y = r
      BY <1>2, <2>2
    <3>2. c5 \in Unlocks(R)'
      BY <1>7, <1>8 DEF Unlocks
    <3> QED BY <1>8, <1>12, <3>1, <3>2 DEF Renamed, NewName
  <2>3. CASE a # old
    BY <1>11, <2>1, <2>3, FileNames DEF Exists
  <2> QED BY <2>2, <2>3
<1>16. GrantInv'
  <2>1. \A c \in Calls' : c.call # "visit" /\ (c.call = "delete" => c.file # N)
    BY <1>7, <1>8, <1>9
  <2>2. /\ \A c \in Unlocks(N)' : c = c2
        /\ \A c \in Unlocks(U)' : c = c6
        /\ \A c \in Unlocks(R)' : c = c5
        /\ c2 \in Unlocks(N)' /\ c6 \in Unlocks(U)' /\ c5 \in Unlocks(R)'
    BY <1>7, <1>8, <1>9 DEF Unlocks
  <2>3. AccessIs(c2.value, s)
    BY <1>2, <1>5, <1>8 DEF AccessIs
  <2>4. Installs(c6.value)'
    <3>1. w.devices[d] = [accessToken |-> t, refreshToken |-> r]
      BY <1>2, <1>4
    <3>2. w.devices[d] # None
      BY <1>2, <1>4, <3>1, NoneAssumption DEF DeviceObject
    <3> QED BY <1>2, <1>8, <1>10, <3>1, <3>2 DEF Installs
  <2>5. /\ KnownRefresh(r)' /\ renews'[r] = s /\ ~Doom(R)' /\ c5.value.refreshes = t
    BY <1>1, <1>5, <1>8, <1>9, <1>10, <1>11, Begun
  <2> QED BY <1>2, <1>3, <1>10, <2>1, <2>2, <2>3, <2>4, <2>5
          DEF GrantInv, Unlocks, AccessIs, Installs
<1>17. request' \in UnderWay /\ request'.session # None
  BY <1>1, <1>2, <1>3 DEF UnderWay, Reply
<1>18. PromiseInv'
  BY <1>17 DEF PromiseInv
<1>19. held' \subseteq File
  BY <1>9
<1>21. Promised'
  <2>1. PICK a : a = Exchanges(files, r, old, u, d, t, w)
    OBVIOUS
  <2>2. Leads(a)'
    <3> SUFFICES ASSUME NEW f \in File
                 PROVE  IF f \in TokenFile /\ Doom(f)' THEN a[f] = None
                        ELSE IF Unlocks(f)' # {}
                        THEN \A c \in Unlocks(f)' : c.value = a[f]
                        ELSE a[f] = files'[f]
      BY DEF Leads
    <3>1. /\ files' = files
          /\ a[f] = IF f = U THEN w ELSE IF f = N THEN z ELSE IF f = R THEN n
                    ELSE IF f = O THEN None ELSE files[f]
      BY <1>1, <2>1 DEF Exchanges, Starts
    <3>2. CASE f = O
      BY <1>9, <1>11, <3>1, <3>2
    <3>3. CASE f \in {U, N, R}
      <4>1. \E c \in {c2, c5, c6} : c \in Unlocks(f)' /\ c.value = a[f]
        BY <1>7, <1>8, <1>9, <3>1, <3>3 DEF Unlocks
      <4>2. \A c \in Unlocks(f)' : c.value = a[f]
        BY <1>7, <1>8, <1>9, <3>1, <3>3 DEF Unlocks
      <4> QED BY <1>9, <1>11, <3>3, <4>1, <4>2
    <3>4. CASE f \notin {O, U, N, R}
      BY <1>7, <1>8, <1>11, <3>1, <3>4 DEF Unlocks
    <3> QED BY <3>2, <3>3, <3>4
  <2>3. Refreshes(a)'
    <3>1. /\ files[R] # None /\ files[O] # None /\ files[U] # None
          /\ files[U].hasDevices /\ files[U].devices[d] # None
      BY <1>2, <1>3, <1>20 DEF Exists
    <3>2. a = Exchanges(before', r, old, u, d, t, Refreshed(before'[U], d, t))
      BY <1>1, <1>20, <2>1
    <3>3. renews'[r] = s /\ s # None /\ grantedTo'[t] = None
      BY <1>1, <1>3, <1>10
    <3>4. request' = [reply |-> [route |-> "refresh", status |-> 200,
                                 user |-> u, token |-> t],
                      session |-> renews'[r], refreshToken |-> None]
      BY <1>10
    <3> QED BY <1>2, <1>3, <1>20, <3>1, <3>2, <3>3, <3>4 DEF Refreshes
  <2> QED BY <2>2, <2>3 DEF Promised, Carries
<1> QED BY <1>7, <1>13, <1>14, <1>15, <1>16, <1>17, <1>18, <1>19, <1>21, BeginKeeps

LEMMA RefreshKeeps ==
  ASSUME IInv, request = None, NEW r \in RefreshToken, NEW t \in AccessToken,
         Refresh(r, t)
  PROVE  IInv' /\ (~crashed => Promised')
<1>1. PICK old : old = files[RefreshAt(r)].refreshes
  OBVIOUS
<1>2. PICK u, d : u = files[AccessAt(old)].user /\ d = files[AccessAt(old)].device
  OBVIOUS
<1>3. PICK v : v = files[UserAt(u)]
  OBVIOUS
<1>4. Renewal(r, old, u, d, v)
  BY <1>1, <1>2, <1>3 DEF Renewal
<1>5. KnownRefresh(r) /\ FreshAccess(t) /\ Starts
  BY DEF Refresh, KnownRefresh, Begin, IInv, TypeOK, Starts
<1>6. CASE ~Exists(AccessAt(old))
  <2>1. IInv'
    BY <1>1, <1>5, <1>6, RefreshFails DEF Refresh, Begin
  <2>2. crashed
    BY <1>1, <1>5, <1>6, NothingToCome DEF IInv, DanglingInv, Renamed, Starts
  <2> QED BY <2>1, <2>2
<1>7. CASE Exists(AccessAt(old))
  <2>1. Exists(UserAt(u))
    BY <1>4, <1>5, <1>7, Refreshing
  <2>2. /\ held' = {RefreshAt(r), AccessAt(old), UserAt(u)} /\ before' = files
        /\ todo' = RefreshCalls(r, old, u, d, t)
        /\ request' = [reply |-> [route |-> "refresh", status |-> 200,
                                  user |-> u, token |-> t],
                       session |-> renews[r], refreshToken |-> None]
    BY <1>1, <1>2, <1>7, <2>1 DEF Refresh, Begin
  <2> QED BY <1>4, <1>5, <1>7, <2>2, RefreshSucceeds
<1> QED BY <1>6, <1>7

-----------------------------------------------------------------------------
(* Theorems *)

LEMMA RequestKeeps ==
  ASSUME IInv, request = None, Request
  PROVE  IInv' /\ (~crashed => Promised')
<1>1. CASE \E u \in User, p \in Password : Register(u, p)
  BY <1>1, RegisterKeeps
<1>2. CASE \E u \in User, p \in Password, d \in Device, t \in AccessToken,
              r \in RefreshToken \union {None} :
                RegisterAndLogin(u, p, d, t, r) \/ Login(u, p, d, t, r)
  BY <1>2, RegisterAndLoginKeeps, LoginRouteKeeps
<1>3. CASE \E r \in RefreshToken, t \in AccessToken : Refresh(r, t)
  BY <1>3, RefreshKeeps
<1>4. CASE \E t \in AccessToken : Logout(t) \/ LogoutAll(t) \/ Deactivate(t)
  BY <1>4, LogoutKeeps, LogoutAllKeeps, DeactivateKeeps
<1>5. CASE \E t \in AccessToken, p \in Password, logoutDevices \in BOOLEAN :
              ChangePwd(t, p, logoutDevices)
  BY <1>5, ChangePwdKeeps
<1>6. CASE \E t \in AccessToken, w \in User, deactivated \in BOOLEAN :
              AdminDeactivate(t, w, deactivated)
  BY <1>6, AdminDeactivateKeeps
<1> QED BY <1>1, <1>2, <1>3, <1>4, <1>5, <1>6 DEF Request

LEMMA NextKeeps ==
  ASSUME IInv, [Next]_vars
  PROVE  IInv'
<1>1. CASE request = None /\ Request
  BY <1>1, RequestKeeps
<1>2. CASE Step
  BY <1>2, StepKeeps
<1>3. CASE Visit
  BY <1>3, VisitKeeps
<1>4. CASE Answer
  BY <1>4, AnswerKeeps
<1>5. CASE Crash
  BY <1>5, CrashKeeps
<1>6. CASE \E t \in AccessToken : Expire(t)
  BY <1>6, ExpireKeeps
<1>7. CASE UNCHANGED vars
  BY <1>7, StutterKeeps
<1> QED BY <1>1, <1>2, <1>3, <1>4, <1>5, <1>6, <1>7 DEF Next

\* The invariant that the properties of a crash rest on: what is on disk, what
\* the calls to come will do to it, and what the answer is going to say, at
\* every moment of a request and after every crash.
THEOREM CrashInvariant == Spec => []IInv
<1>1. Init => IInv
  BY InitKeeps
<1>2. IInv /\ [Next]_vars => IInv'
  BY NextKeeps
<1> QED BY <1>1, <1>2, PTL DEF Spec

\* The files of the database hold what TokensDb says they hold.
THEOREM FilesTypeCorrect == Spec => []TypeOK
<1>1. IInv => TypeOK
  BY DEF IInv
<1> QED BY <1>1, CrashInvariant, PTL

\* Wherever the process died in User.c:276-339 or RouteRefresh.c:136-149, an
\* access token that works in the hands of a client is the one its device
\* names, so that a logout finds it.
THEOREM CrashKeepsTokensIndexed == Spec => []KnownTokensIndexed
<1>1. IInv => KnownTokensIndexed
  <2> SUFFICES ASSUME IInv, NEW t \in AccessToken, Known(t),
                      NEW s, s = grantedTo[t], NEW v, v = files[UserAt(s.user)]
               PROVE  /\ files[AccessAt(t)].user = s.user
                      /\ files[AccessAt(t)].device = s.device
                      /\ v # None /\ v.hasDevices
                      /\ v.devices[s.device] # None
                      /\ v.devices[s.device].accessToken = t
    BY DEF KnownTokensIndexed
  <2>1. AccessAt(t) \in TokenFile /\ KnownFile(AccessAt(t)) /\ HolderOf(AccessAt(t)) = s
    BY FileKinds, Holders DEF IInv
  <2>2. s.user \in User /\ s.device \in Device
    BY <2>1, Holders DEF IInv, KnownFile
  <2>3. Exists(UserAt(s.user)) /\ Names(v, s.device, AccessAt(t))
    BY <2>1 DEF IInv, NamedInv
  <2>4. AccessIs(files[AccessAt(t)], s)
    BY DEF IInv, AccessInv
  <2>5. v.hasDevices
    BY <2>2, <2>3 DEF Names, IInv, DeviceInv
  <2> QED BY <2>3, <2>4, <2>5, FileKinds DEF AccessIs, Names, Exists
<1> QED BY <1>1, CrashInvariant, PTL

\* A working refresh token is the one its device names and refreshes a token of
\* its own session; a token that is gone only after a crash (RouteRefresh.c:98).
THEOREM CrashKeepsRefreshTokensNamed == Spec => []KnownRefreshTokensNamed
<1>1. IInv => KnownRefreshTokensNamed
  <2> SUFFICES ASSUME IInv, request = None, NEW r \in RefreshToken, KnownRefresh(r),
                      NEW s, s = renews[r], NEW t, t = files[RefreshAt(r)].refreshes,
                      NEW v, v = files[UserAt(s.user)]
               PROVE  /\ v # None
                      /\ v.devices[s.device] # None
                      /\ v.devices[s.device].refreshToken = r
                      /\ Exists(AccessAt(t)) \/ crashed
                      /\ Exists(AccessAt(t)) =>
                            /\ files[AccessAt(t)].user = s.user
                            /\ files[AccessAt(t)].device = s.device
    BY DEF KnownRefreshTokensNamed
  <2>1. /\ RefreshAt(r) \in TokenFile /\ KnownFile(RefreshAt(r))
        /\ HolderOf(RefreshAt(r)) = s
    BY FileKinds, Holders DEF IInv
  <2>2. Exists(UserAt(s.user)) /\ Names(v, s.device, RefreshAt(r))
    BY <2>1 DEF IInv, NamedInv
  <2>3. Exists(AccessAt(t)) => AccessIs(files[AccessAt(t)], s)
    BY DEF IInv, RefreshInv
  <2>4. Exists(AccessAt(t)) \/ crashed
    BY NothingToCome DEF IInv, TypeOK, DanglingInv, Renamed
  <2> QED BY <2>2, <2>3, <2>4, FileKinds DEF AccessIs, Names, Exists
<1> QED BY <1>1, CrashInvariant, PTL

\* No request leaves a file locked, so that no other thread waits for ever: the
\* early returns of UserDeleteToken (User.c:641 and 655) are never taken.
THEOREM CrashReturnsLocks == Spec => []LocksReturned
<1>1. IInv => LocksReturned
  BY DEF IInv
<1> QED BY <1>1, CrashInvariant, PTL

\* An answer that reached its client keeps its promise until the next request
\* is answered, after crashes as well.
THEOREM CrashKeepsPromises == Spec => []AnswersKeepPromises
<1>1. IInv => AnswersKeepPromises
  BY DEF IInv
<1> QED BY <1>1, CrashInvariant, PTL

-----------------------------------------------------------------------------
(* The files implement the sessions of Sessions *)

\* What a client can do with its tokens, by what it was given them for.
Mapped ==
    /\ \A t \in AccessToken :
          Working[t] = IF KnownFile(AccessAt(t)) THEN grantedTo[t] ELSE None
    /\ \A r \in RefreshToken :
          Renewable[r] = IF KnownFile(RefreshAt(r)) THEN renews[r] ELSE None
    /\ Working \in [AccessToken -> S!Session \union {None}]
    /\ Renewable \in [RefreshToken -> S!Session \union {None}]

LEMMA MappedState == IInv => Mapped
<1> SUFFICES ASSUME IInv PROVE Mapped
  OBVIOUS
<1>1. \A t \in AccessToken : KnownFile(AccessAt(t)) <=> Known(t)
  BY Holders DEF IInv
<1>2. \A r \in RefreshToken : KnownFile(RefreshAt(r)) <=> KnownRefresh(r)
  BY Holders DEF IInv
<1>3. \A t \in AccessToken : Known(t) =>
         /\ grantedTo[t] \in Session
         /\ grantedTo[t] = [user |-> files[AccessAt(t)].user,
                            device |-> files[AccessAt(t)].device]
  BY DEF IInv, TypeOK, AccessInv, AccessIs, Known, Session
<1>4. \A r \in RefreshToken : KnownRefresh(r) => renews[r] \in Session
  BY DEF IInv, TypeOK, KnownRefresh
<1> QED BY <1>1, <1>2, <1>3, <1>4 DEF Mapped, Working, Renewable, Session, S!Session

LEMMA MappedNext == IInv' => Mapped'
BY MappedState, PTL

\* Where the same tokens work as before, nothing happened to the sessions.
LEMMA SameTokens ==
  ASSUME IInv, IInv', UNCHANGED <<grantedTo, renews>>,
         \A f \in TokenFile : KnownFile(f)' <=> KnownFile(f)
  PROVE  UNCHANGED S!vars
<1>1. \A t \in AccessToken : AccessAt(t) \in TokenFile
  BY FileKinds
<1>2. \A r \in RefreshToken : RefreshAt(r) \in TokenFile
  BY FileKinds
<1>3. \A t \in AccessToken : Working'[t] = Working[t]
  BY <1>1, MappedState, MappedNext DEF Mapped
<1>4. \A r \in RefreshToken : Renewable'[r] = Renewable[r]
  BY <1>2, MappedState, MappedNext DEF Mapped
<1>5. Issued' = Issued /\ IssuedRefresh' = IssuedRefresh
  BY DEF Issued, IssuedRefresh
<1>6. Working' = Working /\ Renewable' = Renewable
  BY <1>3, <1>4 DEF Working, Renewable
<1> QED BY <1>5, <1>6 DEF S!vars

\* Where one token file went, a token of its holder was withdrawn.
LEMMA OneTokenLess ==
  ASSUME IInv, IInv', UNCHANGED <<grantedTo, renews>>,
         NEW g \in TokenFile, KnownFile(g),
         \A f \in TokenFile : KnownFile(f)' <=> KnownFile(f) /\ f # g
  PROVE  S!Next
<1> DEFINE u == HolderOf(g).user
<1>1. u \in User
  BY Holders DEF IInv, KnownFile
<1>2. ASSUME NEW t \in AccessToken, Working'[t] # Working[t]
      PROVE  Working[t] # None /\ Working[t].user = u /\ Working'[t] = None
  <2>1. AccessAt(t) \in TokenFile /\ HolderOf(AccessAt(t)) = grantedTo[t]
    BY FileKinds, Holders DEF IInv
  <2>2. KnownFile(AccessAt(t)) /\ AccessAt(t) = g
    BY <1>2, <2>1, MappedState, MappedNext DEF Mapped
  <2> QED BY <2>1, <2>2, MappedState, MappedNext DEF Mapped, KnownFile
<1>3. ASSUME NEW r \in RefreshToken, Renewable'[r] # Renewable[r]
      PROVE  Renewable[r] # None /\ Renewable[r].user = u /\ Renewable'[r] = None
  <2>1. RefreshAt(r) \in TokenFile /\ HolderOf(RefreshAt(r)) = renews[r]
    BY FileKinds, Holders DEF IInv
  <2>2. KnownFile(RefreshAt(r)) /\ RefreshAt(r) = g
    BY <1>3, <2>1, MappedState, MappedNext DEF Mapped
  <2> QED BY <2>1, <2>2, MappedState, MappedNext DEF Mapped, KnownFile
<1>4. Issued' = Issued /\ IssuedRefresh' = IssuedRefresh
  BY DEF Issued, IssuedRefresh
<1>5. /\ Working' \in [AccessToken -> S!Session \union {None}]
      /\ Renewable' \in [RefreshToken -> S!Session \union {None}]
  BY MappedState, MappedNext DEF Mapped
<1>6. S!Withdraw(u)
  BY <1>2, <1>3, <1>4, <1>5 DEF S!Withdraw
<1> QED BY <1>1, <1>6 DEF S!Next

\* A call to the database withdraws the token whose file it deletes.
LEMMA StepWithdraws ==
  ASSUME IInv, IInv', Step
  PROVE  S!Next \/ UNCHANGED S!vars
<1>1. PICK h : TakesCall(h)
  BY StepTakesCall
<1>2. UNCHANGED <<grantedTo, renews>>
  BY <1>1 DEF TakesCall
<1>3. \A f \in TokenFile :
         KnownFile(f)' <=> KnownFile(f) /\ ~(h.call = "delete" /\ h.file = f)
  BY <1>1, KnownAfter
<1>4. CASE h.call = "delete" /\ h.file \in TokenFile /\ KnownFile(h.file)
  BY <1>2, <1>3, <1>4, OneTokenLess
<1>5. CASE ~(h.call = "delete" /\ h.file \in TokenFile /\ KnownFile(h.file))
  <2>1. \A f \in TokenFile : KnownFile(f)' <=> KnownFile(f)
    BY <1>3, <1>5
  <2> QED BY <1>2, <2>1, SameTokens
<1> QED BY <1>4, <1>5

\* So does a visit of a device, which deletes its access token.
LEMMA VisitWithdraws ==
  ASSUME IInv, IInv', Visit
  PROVE  S!Next \/ UNCHANGED S!vars
<1>1. PICK h, d, x, y : TakesDevice(h, d, x, y)
  BY VisitTakesDevice
<1>2. /\ UNCHANGED <<grantedTo, renews>> /\ x \in AccessToken
      /\ \A f \in File : files'[f] = IF f = AccessAt(x) THEN None ELSE files[f]
  BY <1>1 DEF TakesDevice
<1>3. \A f \in TokenFile : KnownFile(f)' <=> KnownFile(f) /\ f # AccessAt(x)
  <2> SUFFICES ASSUME NEW f \in TokenFile
               PROVE  KnownFile(f)' <=> KnownFile(f) /\ f # AccessAt(x)
    OBVIOUS
  <2>1. f \in File
    BY FileKinds
  <2> QED BY <1>2, <2>1 DEF KnownFile, HolderOf, Exists
<1>4. AccessAt(x) \in TokenFile
  BY <1>2, FileKinds
<1>5. CASE KnownFile(AccessAt(x))
  BY <1>2, <1>3, <1>4, <1>5, OneTokenLess
<1>6. CASE ~KnownFile(AccessAt(x))
  <2>1. \A f \in TokenFile : KnownFile(f)' <=> KnownFile(f)
    BY <1>3, <1>6
  <2> QED BY <1>2, <2>1, SameTokens
<1> QED BY <1>5, <1>6

LEMMA ExpireWithdrawsNothing ==
  ASSUME IInv, IInv', NEW t \in AccessToken, Expire(t)
  PROVE  UNCHANGED S!vars
<1>1. /\ UNCHANGED <<grantedTo, renews>> /\ AccessAt(t) \in File
      /\ files' = [files EXCEPT ![AccessAt(t)].expires = "past"]
      /\ files[AccessAt(t)] \in AccessFile
  BY FileKinds DEF Expire, IInv, TypeOK, Exists, Content
<1>2. [files[AccessAt(t)] EXCEPT !.expires = "past"] \in AccessFile
  BY <1>1 DEF AccessFile
<1>3. \A f \in File : files'[f] # None <=> files[f] # None
  BY <1>1, <1>2, NoneAssumption DEF IInv, TypeOK
<1>4. \A f \in TokenFile : KnownFile(f)' <=> KnownFile(f)
  BY <1>1, <1>3, FileKinds DEF KnownFile, HolderOf, Exists
<1> QED BY <1>1, <1>4, SameTokens

\* What a request does before its first call.
LEMMA RequestWaits ==
  ASSUME Request
  PROVE  UNCHANGED <<files, grantedTo, renews>>
<1> DEFINE Q == UNCHANGED <<files, grantedTo, renews>>
<1>1. ASSUME NEW u, NEW p, NEW d, NEW t, NEW r,
             Register(u, p) \/ RegisterAndLogin(u, p, d, t, r) \/ Login(u, p, d, t, r)
      PROVE  Q
  BY <1>1 DEF Register, RegisterAndLogin, Login, Begin
<1>2. ASSUME NEW r, NEW t, Refresh(r, t) PROVE Q
  BY <1>2 DEF Refresh, Begin
<1>3. ASSUME NEW t, Logout(t) \/ LogoutAll(t) \/ Deactivate(t) PROVE Q
  BY <1>3 DEF Logout, LogoutAll, Deactivate, Begin
<1>4. ASSUME NEW t, NEW p, NEW l, ChangePwd(t, p, l) PROVE Q
  BY <1>4 DEF ChangePwd, Begin
<1>5. ASSUME NEW t, NEW w, NEW b, AdminDeactivate(t, w, b) PROVE Q
  BY <1>5 DEF AdminDeactivate, Begin
<1> HIDE DEF Q
<1>6. Q
  BY <1>1, <1>2, <1>3, <1>4, <1>5 DEF Request
<1> QED BY <1>6 DEF Q

\* An answer that hands a token out grants it to the session the device has
\* been told of, in place of every other: the others are gone from the disk.
LEMMA OldTokensAreGone ==
  ASSUME IInv, Answer, NEW s, s = request.session, s # None,
         NEW t, t = request.reply.token
  PROVE  \A x \in AccessToken : KnownFile(AccessAt(x)) => grantedTo[x] # s
<1> SUFFICES ASSUME NEW x \in AccessToken, KnownFile(AccessAt(x)), grantedTo[x] = s
             PROVE  FALSE
  OBVIOUS
<1>1. Known(x)
  BY Holders DEF IInv
<1>2. files[UserAt(s.user)].devices[s.device].accessToken = x
  BY <1>1, TwoNames
<1>3. grantedTo[t] = None /\ Installs(files[UserAt(s.user)])
  BY HandsOut
<1> QED BY <1>1, <1>2, <1>3 DEF Installs, Known

LEMMA AnswerReplaces ==
  ASSUME IInv, IInv', Answer, NEW s, s = request.session, s # None,
         NEW t, t = request.reply.token
  PROVE  S!Replace(s, t)
<1>1. /\ s \in Session /\ t \in AccessToken /\ grantedTo[t] = None
      /\ grantedTo' = [grantedTo EXCEPT ![t] = s]
      /\ Exists(AccessAt(t)) /\ UNCHANGED files
  BY HandsOut DEF Answer
<1>2. grantedTo \in [AccessToken -> Session \union {None}] /\ s # None
  BY DEF IInv, TypeOK
<1>3. \A x \in AccessToken : grantedTo'[x] = IF x = t THEN s ELSE grantedTo[x]
  BY <1>1, <1>2
<1>4. \A x \in AccessToken : KnownFile(AccessAt(x))' <=> x = t \/ KnownFile(AccessAt(x))
  BY <1>1, <1>2, <1>3, FileKinds DEF KnownFile, HolderOf, Exists
<1>5. \A x \in AccessToken : KnownFile(AccessAt(x)) => grantedTo[x] # s
  BY OldTokensAreGone
<1>6. ~KnownFile(AccessAt(t))
  BY <1>1, FileKinds DEF KnownFile, HolderOf
<1>7. \A x \in AccessToken :
         Working'[x] = IF x = t THEN s ELSE IF Working[x] = s THEN None ELSE Working[x]
  BY <1>2, <1>3, <1>4, <1>5, <1>6, MappedState, MappedNext DEF Mapped
<1>8. Working' = [x \in AccessToken |->
         IF x = t THEN s ELSE IF Working[x] = s THEN None ELSE Working[x]]
  BY <1>7 DEF Working
<1>9. t \notin Issued /\ Issued' = Issued \union {t}
  BY <1>1, <1>2, <1>3 DEF Issued
<1> QED BY <1>8, <1>9 DEF S!Replace

\* A login grants.  The refresh token that worked for the session, if there was
\* one, is the one the device named before; now it names r.
LEMMA LoginGrants ==
  ASSUME IInv, IInv', Answer, request.session # None, request.reply.route = "login"
  PROVE  S!Next
<1>1. PICK s, t, r : /\ s = request.session /\ t = request.reply.token
                     /\ r = request.refreshToken
  OBVIOUS
<1>2. /\ s \in Session /\ t \in AccessToken /\ r \in RefreshToken \union {None}
      /\ renews' = [x \in RefreshToken |-> IF x = r THEN s ELSE renews[x]]
      /\ Installs(files[UserAt(s.user)]) /\ UNCHANGED files
      /\ r # None => renews[r] = None
  BY <1>1, HandsOut DEF Answer
<1>3. r # None => Exists(RefreshAt(r))
  BY <1>1, NothingToCome DEF IInv, GrantInv, Answer
<1>4. renews \in [RefreshToken -> Session \union {None}] /\ s # None
  BY <1>1 DEF IInv, TypeOK
<1>5. \A y \in RefreshToken : y # None
  BY NoneAssumption
<1>6. \A y \in RefreshToken : KnownFile(RefreshAt(y)) => renews[y] # s
  <2> SUFFICES ASSUME NEW y \in RefreshToken, KnownFile(RefreshAt(y)), renews[y] = s
               PROVE  FALSE
    OBVIOUS
  <2>1. KnownRefresh(y)
    BY Holders DEF IInv
  <2>2. files[UserAt(s.user)].devices[s.device].refreshToken = y
    BY <2>1, TwoNames
  <2>3. y = r
    BY <1>1, <1>2, <2>2 DEF Installs
  <2> QED BY <1>2, <1>4, <1>5, <2>3
<1>7. \A y \in RefreshToken : KnownFile(RefreshAt(y))' <=> y = r \/ KnownFile(RefreshAt(y))
  BY <1>2, <1>3, <1>4, <1>5, FileKinds DEF KnownFile, HolderOf, Exists
<1>8. \A y \in RefreshToken : y = r => ~KnownFile(RefreshAt(y))
  BY <1>2, <1>5, FileKinds DEF KnownFile, HolderOf
<1>9. \A y \in RefreshToken :
         Renewable'[y] = IF y = r THEN s ELSE IF Renewable[y] = s THEN None
                                                                  ELSE Renewable[y]
  BY <1>2, <1>4, <1>6, <1>7, <1>8, MappedState, MappedNext DEF Mapped
<1>10. Renewable' = [y \in RefreshToken |->
         IF y = r THEN s ELSE IF Renewable[y] = s THEN None ELSE Renewable[y]]
  BY <1>9 DEF Renewable
<1>11. r \notin IssuedRefresh /\ IssuedRefresh' = IssuedRefresh \union ({r} \ {None})
  BY <1>2, <1>4, <1>5 DEF IssuedRefresh
<1>12. S!Replace(s, t)
  BY <1>1, <1>4, AnswerReplaces
<1>13. S!Grant(s, t, r)
  BY <1>10, <1>11, <1>12 DEF S!Grant
<1> QED BY <1>2, <1>13 DEF S!Next, S!Session, Session

\* A refresh renews the session of the refresh token the request came with.
LEMMA RefreshRenews ==
  ASSUME IInv, IInv', Answer, request.session # None, request.reply.route # "login"
  PROVE  S!Next
<1>1. PICK s, t, r : /\ s = request.session /\ t = request.reply.token
                     /\ r = request.refreshToken
  OBVIOUS
<1>2. /\ s \in Session /\ t \in AccessToken /\ r = None
      /\ renews' = [x \in RefreshToken |-> IF x = r THEN s ELSE renews[x]]
      /\ UNCHANGED files
  BY <1>1, HandsOut DEF Answer
<1>3. PICK x \in RefreshToken : KnownRefresh(x) /\ renews[x] = s
  BY <1>1, HandsOut
<1>4. renews' = renews
  BY <1>2, NoneAssumption DEF IInv, TypeOK
<1>5. Renewable' = Renewable /\ IssuedRefresh' = IssuedRefresh
  BY <1>2, <1>4 DEF Renewable, IssuedRefresh, KnownRefresh, Exists
<1>6. Renewable[x] = s
  BY <1>3 DEF Renewable
<1>7. S!Replace(s, t)
  BY <1>1, AnswerReplaces
<1>8. S!Renew(x, t)
  BY <1>1, <1>5, <1>6, <1>7 DEF S!Renew
<1> QED BY <1>2, <1>8 DEF S!Next

LEMMA NextImplementsSessions ==
  IInv /\ IInv' /\ [Next]_vars => [S!Next]_(S!vars)
<1> SUFFICES ASSUME IInv, IInv', [Next]_vars
             PROVE  S!Next \/ UNCHANGED S!vars
  OBVIOUS
<1>1. ASSUME UNCHANGED <<files, grantedTo, renews>>
      PROVE  UNCHANGED S!vars
  <2>1. \A f \in TokenFile : KnownFile(f)' <=> KnownFile(f)
    BY <1>1 DEF KnownFile, HolderOf, Exists
  <2> QED BY <1>1, <2>1, SameTokens
<1>2. CASE Request
  BY <1>1, <1>2, RequestWaits
<1>3. CASE Step
  BY <1>3, StepWithdraws
<1>4. CASE Visit
  BY <1>4, VisitWithdraws
<1>5. CASE Answer
  <2>1. CASE request.session = None
    BY <1>1, <1>5, <2>1 DEF Answer
  <2> QED BY <1>5, <2>1, LoginGrants, RefreshRenews
<1>6. CASE Crash
  BY <1>1, <1>6 DEF Crash
<1>7. CASE \E t \in AccessToken : Expire(t)
  BY <1>7, ExpireWithdrawsNothing
<1>8. CASE UNCHANGED vars
  BY <1>1, <1>8 DEF vars
<1> QED BY <1>2, <1>3, <1>4, <1>5, <1>6, <1>7, <1>8 DEF Next

\* File by file and with a crash between any two calls, the routes of User.c
\* and RouteRefresh.c are what Sessions promises: a token means one session
\* for as long as it works, a session has one working access token after each
\* answer, a request that was cut short costs only tokens of the user whose
\* tokens it deletes, one at a time, and what stopped working never works
\* again.
THEOREM CrashImplementsSessions == Spec => ImplementsSessions
<1>1. Init => S!Init
  BY DEF Init, S!Init, Working, Renewable, Issued, IssuedRefresh, Known, KnownRefresh
<1>2. IInv /\ IInv' /\ [Next]_vars => [S!Next]_(S!vars)
  BY NextImplementsSessions
<1> QED BY <1>1, <1>2, CrashInvariant, PTL DEF Spec, S!Spec, ImplementsSessions
=============================================================================
