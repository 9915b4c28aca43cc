------------------------ MODULE Administration_proofs ------------------------
(***************************************************************************)
(* What Administration promises for any number of users, tokens, threads,  *)
(* aliases and rooms.                                                      *)
(*                                                                         *)
(* The inductive invariant adds two facts to the properties: the stored    *)
(* configuration parses, and the file of a registration token grants what  *)
(* its creator asked for.  No lock is kept because of the first, and       *)
(* threads that keep no lock are never in each other's way.                *)
(***************************************************************************)
EXTENDS Administration, FiniteSetTheorems, SequenceTheorems, WellFoundedInduction, TLAPS

TokensAsOffered ==
    \A t \in RegToken :
        grants[t] # None => UserDecodePrivileges(grants[t]) = offered[t]

IInv ==
    /\ TypeOK
    /\ ConfigParse(config)
    /\ LocksReturned
    /\ PrivilegesAsSaid
    /\ TokensAsOffered
    /\ AliasIndexesAgree
    /\ FiltersKept

\* The part of it that is about rights.
RightsHonest ==
    /\ users \in SUBSET User
    /\ privileges \in [User -> SUBSET PrivilegeName]
    /\ grants \in [RegToken -> {None} \union SUBSET PrivilegeName]
    /\ said \in [User -> SUBSET AllPrivileges]
    /\ offered \in [RegToken -> SUBSET AllPrivileges]
    /\ PrivilegesAsSaid
    /\ TokensAsOffered

-----------------------------------------------------------------------------
(* Lists of aliases *)

\* An alias that is added to a list it is not in is in it once.
LEMMA AppendNew ==
  ASSUME NEW S, NEW s \in Seq(S), NEW a \in S, a \notin Range(s), IsInjective(s)
  PROVE  /\ Append(s, a) \in Seq(S)
         /\ Range(Append(s, a)) = Range(s) \union {a}
         /\ IsInjective(Append(s, a))
<1> DEFINE longer == Append(s, a)
<1>1. /\ longer \in Seq(S)
      /\ DOMAIN longer = 1..(Len(s) + 1)
      /\ DOMAIN s = 1..Len(s)
      /\ \A k \in 1..Len(s) : longer[k] = s[k]
      /\ longer[Len(s) + 1] = a
  OBVIOUS
<1> HIDE DEF longer
<1>2. Range(longer) = Range(s) \union {a}
  BY <1>1 DEF Range
<1>3. \A k \in 1..Len(s) : longer[k] # a
  BY <1>1 DEF Range
<1>4. IsInjective(longer)
  BY <1>1, <1>3 DEF IsInjective
<1> QED
  BY <1>1, <1>2, <1>4 DEF longer

\* Without entry i, a list without repetitions has all but that alias.
LEMMA RemoveOne ==
  ASSUME NEW S, NEW s \in Seq(S), NEW i \in 1..Len(s), IsInjective(s)
  PROVE  /\ RemoveAt(s, i) \in Seq(S)
         /\ Range(RemoveAt(s, i)) = Range(s) \ {s[i]}
         /\ IsInjective(RemoveAt(s, i))
<1> DEFINE before == SubSeq(s, 1, i - 1)
           after == SubSeq(s, i + 1, Len(s))
           all == RemoveAt(s, i)
<1>1. /\ before \in Seq(S)
      /\ Len(before) = i - 1
      /\ \A k \in 1..(i - 1) : before[k] = s[k]
  <2>1. \A k \in 1..(i - 1) : s[k] \in S
    OBVIOUS
  <2> QED
    BY <2>1, SubSeqProperties
<1>2. /\ after \in Seq(S)
      /\ Len(after) = Len(s) - i
      /\ \A k \in 1..(Len(s) - i) : after[k] = s[i + k]
  <2>1. \A k \in (i + 1)..Len(s) : s[k] \in S
    OBVIOUS
  <2>2. /\ after \in Seq(S)
        /\ Len(after) = IF i + 1 <= Len(s) THEN Len(s) - (i + 1) + 1 ELSE 0
        /\ \A k \in 1..(Len(s) - (i + 1) + 1) : after[k] = s[i + 1 + k - 1]
    BY <2>1, SubSeqProperties
  <2> QED
    BY <2>2
<1>3. /\ all \in Seq(S)
      /\ Len(all) = Len(s) - 1
      /\ \A k \in 1..(Len(s) - 1) : all[k] = IF k < i THEN s[k] ELSE s[k + 1]
  <2> HIDE DEF before, after
  <2>1. /\ before \o after \in Seq(S)
        /\ Len(before \o after) = Len(before) + Len(after)
        /\ \A k \in 1..(Len(before) + Len(after)) : (before \o after)[k] =
               IF k <= Len(before) THEN before[k] ELSE after[k - Len(before)]
    BY <1>1, <1>2, ConcatProperties
  <2>2. all = before \o after
    BY DEF RemoveAt, before, after
  <2> HIDE DEF all
  <2>3. Len(all) = Len(s) - 1
    <3>1. Len(s) \in Nat /\ (i - 1) + (Len(s) - i) = Len(s) - 1
      OBVIOUS
    <3> QED
      BY <1>1, <1>2, <2>1, <2>2, <3>1, Zenon
  <2>4. ASSUME NEW k \in 1..(Len(s) - 1)
        PROVE  all[k] = IF k < i THEN s[k] ELSE s[k + 1]
    <3>1. all[k] = IF k <= i - 1 THEN before[k] ELSE after[k - (i - 1)]
      BY <1>1, <1>2, <2>1, <2>2
    <3>2. CASE k < i
      BY <1>1, <3>1, <3>2
    <3>3. CASE ~(k < i)
      <4>1. k - (i - 1) \in 1..(Len(s) - i) /\ i + (k - (i - 1)) = k + 1
        BY <3>3
      <4>2. after[k - (i - 1)] = s[k + 1]
        BY <1>2, <4>1
      <4> QED
        BY <3>1, <3>3, <4>2
    <3> QED BY <3>2, <3>3
  <2> QED
    BY <2>1, <2>2, <2>3, <2>4
<1> HIDE DEF all
<1> DEFINE at(k) == IF k < i THEN k ELSE k + 1
<1>a. ASSUME NEW k \in 1..(Len(s) - 1)
      PROVE  at(k) \in 1..Len(s) /\ at(k) # i /\ all[k] = s[at(k)]
  <2>1. at(k) \in 1..Len(s) /\ at(k) # i
    OBVIOUS
  <2>2. all[k] = s[at(k)]
    BY <1>3
  <2> QED
    BY <2>1, <2>2
<1>b. /\ DOMAIN all = 1..(Len(s) - 1)
      /\ DOMAIN s = 1..Len(s)
  BY <1>3
<1>c. \A j, k \in 1..Len(s) : s[j] = s[k] => j = k
  BY <1>b DEF IsInjective
<1>4. IsInjective(all)
  <2>1. SUFFICES ASSUME NEW j \in 1..(Len(s) - 1), NEW k \in 1..(Len(s) - 1),
                        all[j] = all[k]
                 PROVE  j = k
    BY <1>b DEF IsInjective
  <2>2. s[at(j)] = s[at(k)]
    BY <1>a, <2>1
  <2>3. at(j) \in 1..Len(s) /\ at(k) \in 1..Len(s)
    BY <1>a
  <2> HIDE DEF at
  <2>4. at(j) = at(k)
    BY <1>c, <2>2, <2>3
  <2> QED
    BY <2>4 DEF at
<1>5. Range(all) \subseteq Range(s) \ {s[i]}
  <2>1. SUFFICES ASSUME NEW k \in 1..(Len(s) - 1)
                 PROVE  all[k] \in Range(s) \ {s[i]}
    BY <1>b DEF Range
  <2>2. at(k) \in 1..Len(s) /\ at(k) # i /\ all[k] = s[at(k)]
    BY <1>a
  <2> HIDE DEF at
  <2>3. s[at(k)] # s[i]
    BY <1>c, <2>2
  <2> QED
    BY <1>b, <2>2, <2>3 DEF Range
<1>6. ASSUME NEW x \in Range(s), x # s[i]
      PROVE  x \in Range(all)
  <2>1. PICK k \in 1..Len(s) : s[k] = x
    BY DEF Range
  <2>2. CASE k < i
    BY <1>3, <2>1, <2>2 DEF Range
  <2>3. CASE k > i
    <3>1. k - 1 \in 1..(Len(s) - 1) /\ ~(k - 1 < i) /\ all[k - 1] = s[k]
      BY <1>3, <2>3
    <3> QED
      BY <1>3, <2>1, <3>1 DEF Range
  <2> QED
    BY <1>6, <2>1, <2>2, <2>3
<1> QED
  BY <1>3, <1>4, <1>5, <1>6 DEF all

LEMMA WithoutOne ==
  ASSUME NEW S, NEW s \in Seq(S), NEW a \in S, IsInjective(s)
  PROVE  /\ Without(s, a) \in Seq(S)
         /\ Range(Without(s, a)) = Range(s) \ {a}
         /\ IsInjective(Without(s, a))
<1>1. CASE \E i \in DOMAIN s : s[i] = a
  <2> DEFINE i == CHOOSE k \in DOMAIN s : s[k] = a /\ \A j \in 1..(k - 1) : s[j] # a
  <2>1. PICK k \in 1..Len(s) : s[k] = a
    BY <1>1
  <2>2. \A j \in 1..(k - 1) : s[j] # a
    BY <2>1 DEF IsInjective
  <2>3. i \in 1..Len(s) /\ s[i] = a
    BY <2>1, <2>2
  <2>4. Without(s, a) = RemoveAt(s, i)
    BY <1>1 DEF Without
  <2> HIDE DEF i
  <2> QED
    BY <2>3, <2>4, RemoveOne
<1>2. CASE ~\E i \in DOMAIN s : s[i] = a
  BY <1>2 DEF Without, Range
<1> QED BY <1>1, <1>2

-----------------------------------------------------------------------------
(* Privileges, and what all requests do *)

\* Nothing is lost on the way from bits to names and back (User.c:758-900).
LEMMA PrivilegesSurviveCoding ==
  /\ \A names : UserDecodePrivileges(names) \subseteq AllPrivileges
  /\ \A ps \in SUBSET AllPrivileges :
        /\ UserEncodePrivileges(ps) \in SUBSET PrivilegeName
        /\ UserDecodePrivileges(UserEncodePrivileges(ps)) = ps
<1>1. "ALL" \notin AllPrivileges
  BY DEF AllPrivileges
<1> QED
  BY <1>1 DEF UserDecodePrivileges, UserEncodePrivileges, PrivilegeName

LEMMA RequestsSayPrivileges ==
  ASSUME NEW method \in {"POST", "PUT", "DELETE"}, NEW list,
         NEW old \in SUBSET AllPrivileges
  PROVE  AfterRequest(method, old, list) \in SUBSET AllPrivileges
<1>1. UserDecodePrivileges(list) \subseteq AllPrivileges
  BY PrivilegesSurviveCoding
<1> HIDE DEF UserDecodePrivileges, AllPrivileges
<1>2. CASE method = "POST"
  BY <1>1, <1>2 DEF AfterRequest
<1>3. CASE method = "PUT"
  BY <1>1, <1>3 DEF AfterRequest
<1>4. CASE method = "DELETE"
  BY <1>1, <1>4 DEF AfterRequest
<1> QED BY <1>2, <1>3, <1>4

\* A user's file holds a set of privileges as names, and history the same set.
LEMMA PrivilegesStored ==
  ASSUME RightsHonest, NEW u \in User, NEW new \in SUBSET AllPrivileges,
         privileges' = [privileges EXCEPT ![u] = UserEncodePrivileges(new)],
         said' = [said EXCEPT ![u] = new],
         users' \in SUBSET User,
         UNCHANGED <<grants, offered>>
  PROVE  RightsHonest'
<1>1. /\ UserEncodePrivileges(new) \in SUBSET PrivilegeName
      /\ UserDecodePrivileges(UserEncodePrivileges(new)) = new
  BY PrivilegesSurviveCoding
<1>2. /\ privileges \in [User -> SUBSET PrivilegeName]
      /\ said \in [User -> SUBSET AllPrivileges]
      /\ \A v \in User : UserDecodePrivileges(privileges[v]) = said[v]
  BY DEF RightsHonest, PrivilegesAsSaid, UserGetPrivileges
<1>3. /\ privileges' \in [User -> SUBSET PrivilegeName]
      /\ said' \in [User -> SUBSET AllPrivileges]
  BY <1>1, <1>2
<1>4. \A v \in User : UserDecodePrivileges(privileges'[v]) = said'[v]
  BY <1>1, <1>2
<1>5. TokensAsOffered'
  BY DEF RightsHonest, TokensAsOffered
<1> QED
  BY <1>3, <1>4, <1>5 DEF RightsHonest, PrivilegesAsSaid, UserGetPrivileges

\* What a privileges request stores is what it says.
LEMMA PrivilegesSet ==
  ASSUME RightsHonest, NEW u \in User, SetPrivileges(u)
  PROVE  RightsHonest'
<1>1. PICK method \in {"POST", "PUT", "DELETE"}, list \in PrivilegeList :
        /\ privileges' = [privileges EXCEPT ![u] = UserEncodePrivileges(
                             AfterRequest(method, UserGetPrivileges(u), list))]
        /\ said' = [said EXCEPT ![u] = AfterRequest(method, said[u], list)]
  BY DEF SetPrivileges
<1>2. said[u] \in SUBSET AllPrivileges /\ UserGetPrivileges(u) = said[u]
  BY DEF RightsHonest, PrivilegesAsSaid
<1> DEFINE new == AfterRequest(method, said[u], list)
<1>3. new \in SUBSET AllPrivileges
  BY <1>2, RequestsSayPrivileges
<1>4. /\ privileges' = [privileges EXCEPT ![u] = UserEncodePrivileges(new)]
      /\ said' = [said EXCEPT ![u] = new]
      /\ users' \in SUBSET User
      /\ UNCHANGED <<grants, offered>>
  BY <1>1, <1>2 DEF SetPrivileges, RightsHonest
<1> HIDE DEF new
<1> QED
  BY <1>3, <1>4, PrivilegesStored

\* A new account gets what the token's file says, which is what was offered.
LEMMA RegisterStep ==
  ASSUME RightsHonest, NEW th \in Thread, NEW u \in User,
         NEW t \in RegToken \union {None}, RouteRegister(th, u, t)
  PROVE  RightsHonest'
<1>1. CASE UNCHANGED <<users, privileges, said>>
  BY <1>1 DEF RouteRegister, RightsHonest, PrivilegesAsSaid, UserGetPrivileges,
              TokensAsOffered
<1>2. CASE ~UNCHANGED <<users, privileges, said>>
  <2>1. /\ users' = users \union {u}
        /\ privileges' = [privileges EXCEPT ![u] = UserEncodePrivileges(Granted(t))]
        /\ said' = [said EXCEPT ![u] = IF OnFile(t) THEN offered[t] ELSE {}]
        /\ UNCHANGED <<grants, offered>>
    BY <1>2 DEF RouteRegister
  <2>2. Granted(t) = IF OnFile(t) THEN offered[t] ELSE {}
    BY DEF RightsHonest, TokensAsOffered, Granted, OnFile
  <2>3. Granted(t) \in SUBSET AllPrivileges
    BY PrivilegesSurviveCoding DEF Granted
  <2>4. /\ said' = [said EXCEPT ![u] = Granted(t)]
        /\ users' \in SUBSET User
    BY <2>1, <2>2 DEF RightsHonest
  <2> QED
    BY <2>1, <2>3, <2>4, PrivilegesStored
<1> QED BY <1>1, <1>2

LEMMA TokenCreateStep ==
  ASSUME RightsHonest, NEW t \in RegToken, NEW list, StoreGrants(t, list)
  PROVE  RightsHonest'
<1> DEFINE new == UserDecodePrivileges(list)
<1>1. /\ new \in SUBSET AllPrivileges
      /\ UserEncodePrivileges(new) \in SUBSET PrivilegeName
      /\ UserDecodePrivileges(UserEncodePrivileges(new)) = new
  BY PrivilegesSurviveCoding
<1>2. /\ grants' = [grants EXCEPT ![t] = UserEncodePrivileges(new)]
      /\ offered' = [offered EXCEPT ![t] = new]
      /\ UNCHANGED <<users, privileges, said>>
  BY DEF StoreGrants
<1> HIDE DEF new
<1>3. /\ grants \in [RegToken -> {None} \union SUBSET PrivilegeName]
      /\ offered \in [RegToken -> SUBSET AllPrivileges]
      /\ TokensAsOffered
  BY DEF RightsHonest
<1>4. /\ grants' \in [RegToken -> {None} \union SUBSET PrivilegeName]
      /\ offered' \in [RegToken -> SUBSET AllPrivileges]
  BY <1>1, <1>2, <1>3
<1>5. TokensAsOffered'
  BY <1>1, <1>2, <1>3 DEF TokensAsOffered
<1> QED
  BY <1>2, <1>4, <1>5 DEF RightsHonest, PrivilegesAsSaid, UserGetPrivileges

LEMMA TokenDeleteStep ==
  ASSUME RightsHonest, NEW th \in Thread, NEW u \in User, NEW t \in RegToken,
         RouteAdminTokensDelete(th, u, t)
  PROVE  RightsHonest'
<1>1. /\ grants' = [grants EXCEPT ![t] = None]
      /\ offered' = [offered EXCEPT ![t] = {}]
      /\ UNCHANGED <<users, privileges, said>>
  BY DEF RouteAdminTokensDelete
<1>2. /\ grants \in [RegToken -> {None} \union SUBSET PrivilegeName]
      /\ offered \in [RegToken -> SUBSET AllPrivileges]
      /\ TokensAsOffered
  BY DEF RightsHonest
<1>3. /\ grants' \in [RegToken -> {None} \union SUBSET PrivilegeName]
      /\ offered' \in [RegToken -> SUBSET AllPrivileges]
  BY <1>1, <1>2
<1>4. TokensAsOffered'
  BY <1>1, <1>2 DEF TokensAsOffered
<1> QED
  BY <1>1, <1>3, <1>4 DEF RightsHonest, PrivilegesAsSaid, UserGetPrivileges

\* A route that kept nothing leaves nothing behind.
LEMMA NothingKept ==
  ASSUME IInv, NEW th \in Thread, Ends(th, {}) \/ Ends(th, ConfigLeak)
  PROVE  /\ phase' \in [Thread -> {"idle", "switching"}]
         /\ held' \in [Thread -> SUBSET File]
         /\ LocksReturned'
<1>1. ConfigLeak = {}
  BY DEF IInv, ConfigLeak
<1>2. /\ phase' = [phase EXCEPT ![th] = "idle"]
      /\ held' = [held EXCEPT ![th] = held[th] \union {}]
  BY <1>1 DEF Ends
<1>3. /\ phase \in [Thread -> {"idle", "switching"}]
      /\ held \in [Thread -> SUBSET File]
      /\ \A other \in Thread : held[other] = {}
  BY DEF IInv, TypeOK, LocksReturned
<1> QED
  BY <1>2, <1>3 DEF LocksReturned

-----------------------------------------------------------------------------
(* The invariant is kept *)

LEMMA Initial == Init => IInv
<1> SUFFICES ASSUME Init PROVE IInv
  OBVIOUS
<1>1. \A u \in User : UserDecodePrivileges(privileges[u]) = said[u]
  BY DEF Init, UserDecodePrivileges
<1>2. PrivilegesAsSaid
  BY <1>1 DEF PrivilegesAsSaid, UserGetPrivileges
<1>3. /\ users \in SUBSET User
      /\ privileges \in [User -> SUBSET PrivilegeName]
      /\ grants \in [RegToken -> {None} \union SUBSET PrivilegeName]
      /\ said \in [User -> SUBSET AllPrivileges]
      /\ offered \in [RegToken -> SUBSET AllPrivileges]
  <2>1. {"ALL"} \in SUBSET PrivilegeName
    BY DEF PrivilegeName
  <2> QED BY <2>1 DEF Init
<1>9. TokensAsOffered
  BY DEF Init, TokensAsOffered, UserDecodePrivileges
<1>4. AliasIndexesAgree
  BY DEF Init, AliasIndexesAgree, Resolves, RouteRoomAliases, Range, IsInjective
<1>5. config \in ConfigJson /\ ConfigParse(config)
  BY ConfigAssumption DEF Init
<1>6. FiltersKept
  BY DEF Init, FiltersKept
<1>7. LocksReturned
  BY DEF Init, LocksReturned
<1>8. TypeOK
  BY <1>3, <1>5 DEF Init, TypeOK
<1> QED
  BY <1>2, <1>4, <1>5, <1>6, <1>7, <1>8, <1>9 DEF IInv

\* What the part of the state that an action leaves alone was good for.
LEMMA RightsUntouched ==
  /\ IInv => RightsHonest
  /\ IInv /\ UNCHANGED rights => RightsHonest'
<1>1. IInv => RightsHonest
  BY DEF IInv, TypeOK, RightsHonest
<1>2. RightsHonest /\ UNCHANGED rights => RightsHonest'
  BY DEF rights, RightsHonest, PrivilegesAsSaid, UserGetPrivileges, TokensAsOffered
<1> QED BY <1>1, <1>2

LEMMA AliasesUntouched ==
  (IInv /\ UNCHANGED <<alias, ids>>) =>
      /\ alias' \in [Alias -> [id: Room, createdBy: User] \union {None}]
      /\ ids' \in [Room -> Seq(Alias)]
      /\ AliasIndexesAgree'
<1> SUFFICES ASSUME IInv, alias' = alias, ids' = ids
             PROVE  /\ alias' \in [Alias -> [id: Room, createdBy: User] \union {None}]
                    /\ ids' \in [Room -> Seq(Alias)]
                    /\ AliasIndexesAgree'
  OBVIOUS
<1> QED
  BY DEF IInv, TypeOK, AliasIndexesAgree, Resolves, RouteRoomAliases

LEMMA FiltersUntouched ==
  (IInv /\ UNCHANGED <<filters, given>>) =>
      /\ filters' \in [User -> [FilterId -> FilterBody \union {None}]]
      /\ given' \in [User -> SUBSET (FilterId \X FilterBody)]
      /\ FiltersKept'
BY DEF IInv, TypeOK, FiltersKept

LEMMA ConfigUntouched ==
  (IInv /\ UNCHANGED config) => config' \in ConfigJson /\ ConfigParse(config)'
BY DEF IInv, TypeOK, ConfigParse

LEMMA ProfilesUntouched ==
  (IInv /\ UNCHANGED displayname) => displayname' \in [User -> DisplayName \union {None}]
BY DEF IInv, TypeOK

\* A list of an index that agrees has each of its aliases once.
LEMMA AliasesAgree ==
  IInv => /\ alias \in [Alias -> [id: Room, createdBy: User] \union {None}]
          /\ ids \in [Room -> Seq(Alias)]
          /\ \A r \in Room :
                /\ \A a \in Alias :
                      (alias[a] # None /\ alias[a].id = r) <=> a \in Range(ids[r])
                /\ IsInjective(ids[r])
BY DEF IInv, TypeOK, AliasIndexesAgree, Resolves, RouteRoomAliases

LEMMA AliasPutStep ==
  ASSUME IInv, NEW th \in Thread, NEW u \in User, NEW a \in Alias, NEW r \in Room,
         RouteAliasDirectoryPut(th, u, a, r)
  PROVE  /\ alias' \in [Alias -> [id: Room, createdBy: User] \union {None}]
         /\ ids' \in [Room -> Seq(Alias)]
         /\ AliasIndexesAgree'
<1> DEFINE entry == [id |-> r, createdBy |-> u]
<1>1. /\ alias[a] = None
      /\ alias' = [alias EXCEPT ![a] = entry]
      /\ ids' = [ids EXCEPT ![r] = Append(ids[r], a)]
  BY DEF RouteAliasDirectoryPut
<1>2. /\ entry \in [id: Room, createdBy: User]
      /\ entry # None
      /\ entry.id = r
  BY NoneAssumption
<1>3. /\ Append(ids[r], a) \in Seq(Alias)
      /\ Range(Append(ids[r], a)) = Range(ids[r]) \union {a}
      /\ IsInjective(Append(ids[r], a))
  <2>1. ids[r] \in Seq(Alias) /\ a \notin Range(ids[r]) /\ IsInjective(ids[r])
    BY <1>1, AliasesAgree
  <2> QED
    BY <2>1, AppendNew
<1> DEFINE list == Append(ids[r], a)
<1> HIDE DEF entry, list
<1>4. /\ alias' = [alias EXCEPT ![a] = entry]
      /\ ids' = [ids EXCEPT ![r] = list]
      /\ list \in Seq(Alias)
      /\ Range(list) = Range(ids[r]) \union {a}
      /\ IsInjective(list)
  BY <1>1, <1>3 DEF list, entry
<1>5. /\ alias' \in [Alias -> [id: Room, createdBy: User] \union {None}]
      /\ ids' \in [Room -> Seq(Alias)]
  BY <1>2, <1>4, AliasesAgree
<1>6. ASSUME NEW q \in Room
      PROVE  /\ \A b \in Alias :
                   (alias'[b] # None /\ alias'[b].id = q) <=> b \in Range(ids'[q])
             /\ IsInjective(ids'[q])
  <2>1. CASE q = r
    <3>1. ids'[q] = list
      BY <1>4, <2>1, AliasesAgree
    <3>2. alias'[a] = entry /\ \A b \in Alias \ {a} : alias'[b] = alias[b]
      BY <1>4, AliasesAgree
    <3>3. \A b \in Alias \ {a} :
             (alias'[b] # None /\ alias'[b].id = q) <=> b \in Range(ids'[q])
      BY <1>4, <2>1, <3>1, <3>2, AliasesAgree
    <3>4. alias'[a] # None /\ alias'[a].id = q /\ a \in Range(ids'[q])
      BY <1>2, <1>4, <2>1, <3>1, <3>2
    <3> QED
      BY <1>4, <3>1, <3>3, <3>4
  <2>2. CASE q # r
    BY <1>1, <1>2, <1>4, <2>2, AliasesAgree
  <2> QED BY <2>1, <2>2
<1> QED
  BY <1>5, <1>6 DEF AliasIndexesAgree, Resolves, RouteRoomAliases

LEMMA AliasDeleteStep ==
  ASSUME IInv, NEW th \in Thread, NEW u \in User, NEW a \in Alias,
         RouteAliasDirectoryDelete(th, u, a)
  PROVE  /\ alias' \in [Alias -> [id: Room, createdBy: User] \union {None}]
         /\ ids' \in [Room -> Seq(Alias)]
         /\ AliasIndexesAgree'
<1> DEFINE r == alias[a].id
           list == Without(ids[r], a)
<1>1. /\ alias[a] # None
      /\ alias' = [alias EXCEPT ![a] = None]
      /\ ids' = [ids EXCEPT ![r] = list]
  BY DEF RouteAliasDirectoryDelete
<1>2. r \in Room
  BY <1>1, AliasesAgree
<1> HIDE DEF r
<1>3. /\ list \in Seq(Alias)
      /\ Range(list) = Range(ids[r]) \ {a}
      /\ IsInjective(list)
  <2>1. ids[r] \in Seq(Alias) /\ IsInjective(ids[r])
    BY <1>2, AliasesAgree
  <2> QED
    BY <2>1, WithoutOne
<1> HIDE DEF list
<1>4. /\ alias' \in [Alias -> [id: Room, createdBy: User] \union {None}]
      /\ ids' \in [Room -> Seq(Alias)]
  BY <1>1, <1>2, <1>3, AliasesAgree
<1>5. ASSUME NEW q \in Room
      PROVE  /\ \A b \in Alias :
                   (alias'[b] # None /\ alias'[b].id = q) <=> b \in Range(ids'[q])
             /\ IsInjective(ids'[q])
  <2>1. CASE q = r
    BY <1>1, <1>2, <1>3, <2>1, AliasesAgree
  <2>2. CASE q # r
    <3>1. a \notin Range(ids[q])
      BY <1>1, <2>2, AliasesAgree DEF r
    <3> QED
      BY <1>1, <1>2, <2>2, <3>1, AliasesAgree
  <2> QED BY <2>1, <2>2
<1> QED
  BY <1>4, <1>5 DEF AliasIndexesAgree, Resolves, RouteRoomAliases

\* A filter that has no file yet is none that somebody was given.
LEMMA FilterStep ==
  ASSUME IInv, NEW th \in Thread, NEW u \in User, NEW f \in FilterId,
         NEW b \in FilterBody, RouteFilter(th, u, f, b)
  PROVE  /\ filters' \in [User -> [FilterId -> FilterBody \union {None}]]
         /\ given' \in [User -> SUBSET (FilterId \X FilterBody)]
         /\ FiltersKept'
<1>1. CASE UNCHANGED <<filters, given>>
  BY <1>1, FiltersUntouched
<1>2. CASE ~UNCHANGED <<filters, given>>
  <2>1. /\ filters[u][f] = None
        /\ filters' = [filters EXCEPT ![u] = [filters[u] EXCEPT ![f] = b]]
        /\ given' = [given EXCEPT ![u] = given[u] \union {<<f, b>>}]
    BY <1>2 DEF RouteFilter
  <2>2. /\ filters \in [User -> [FilterId -> FilterBody \union {None}]]
        /\ given \in [User -> SUBSET (FilterId \X FilterBody)]
        /\ \A v \in User : \A g \in given[v] : filters[v][g[1]] = g[2]
    BY DEF IInv, TypeOK, FiltersKept
  <2>3. /\ filters' \in [User -> [FilterId -> FilterBody \union {None}]]
        /\ given' \in [User -> SUBSET (FilterId \X FilterBody)]
    BY <2>1, <2>2
  <2>4. ASSUME NEW v \in User, NEW g \in given'[v]
        PROVE  filters'[v][g[1]] = g[2]
    <3>1. CASE v # u
      BY <2>1, <2>2, <3>1
    <3>2. CASE v = u /\ g = <<f, b>>
      BY <2>1, <2>2, <3>2
    <3>3. CASE v = u /\ g # <<f, b>>
      <4>1. g \in given[u] /\ filters[u][g[1]] = g[2]
        BY <2>1, <2>2, <3>3
      <4>2. g \in FilterId \X FilterBody
        BY <2>2, <4>1
      <4>3. g[1] # f
        BY <2>1, <4>1, <4>2, NoneAssumption
      <4> QED
        BY <2>1, <2>2, <3>3, <4>1, <4>2, <4>3
    <3> QED BY <3>1, <3>2, <3>3
  <2> QED
    BY <2>3, <2>4 DEF FiltersKept
<1> QED BY <1>1, <1>2

\* Only a configuration that parses is stored.
LEMMA ConfigStep ==
  ASSUME IInv, NEW th \in Thread, NEW u \in User, RouteConfig(th, u)
  PROVE  config' \in ConfigJson /\ ConfigParse(config)'
<1>1. CASE UNCHANGED config
  BY <1>1, ConfigUntouched
<1>2. CASE ~UNCHANGED config
  <2>1. PICK d \in ConfigRequest :
          config' \in {d, JsonMerge(config, d)} /\ ConfigParse(config')
    BY <1>2 DEF RouteConfig
  <2>2. d \in ConfigJson /\ config \in ConfigJson
    BY ConfigAssumption DEF IInv, TypeOK
  <2>3. JsonMerge(config, d) \in ConfigJson
    BY <2>2 DEF JsonMerge, ConfigJson
  <2> QED
    BY <2>1, <2>2, <2>3 DEF ConfigParse
<1> QED BY <1>1, <1>2


LEMMA Step == IInv /\ [Next]_vars => IInv'
<1> SUFFICES ASSUME IInv, [Next]_vars PROVE IInv'
  OBVIOUS
<1> DEFINE Rest == /\ phase' \in [Thread -> {"idle", "switching"}]
                   /\ held' \in [Thread -> SUBSET File]
                   /\ LocksReturned'
           Rights == RightsHonest'
           Conf == config' \in ConfigJson /\ ConfigParse(config)'
           Aliases == /\ alias' \in [Alias -> [id: Room, createdBy: User] \union {None}]
                      /\ ids' \in [Room -> Seq(Alias)]
                      /\ AliasIndexesAgree'
           Names == displayname' \in [User -> DisplayName \union {None}]
           Stored == /\ filters' \in [User -> [FilterId -> FilterBody \union {None}]]
                     /\ given' \in [User -> SUBSET (FilterId \X FilterBody)]
                     /\ FiltersKept'
<1> SUFFICES Rest /\ Rights /\ Conf /\ Aliases /\ Names /\ Stored
  BY DEF IInv, TypeOK, RightsHonest
<1>0. RightsHonest
  BY RightsUntouched
<1> HIDE DEF Rest, Rights, Conf, Aliases, Names, Stored
<1>1. IInv /\ UNCHANGED rights => Rights
  BY RightsUntouched DEF Rights
<1>2. IInv /\ UNCHANGED config => Conf
  BY ConfigUntouched DEF Conf
<1>3. IInv /\ UNCHANGED <<alias, ids>> => Aliases
  BY AliasesUntouched DEF Aliases
<1>4. IInv /\ UNCHANGED displayname => Names
  BY ProfilesUntouched DEF Names
<1>5. IInv /\ UNCHANGED <<filters, given>> => Stored
  BY FiltersUntouched DEF Stored
<1>6. ASSUME NEW th \in Thread, Ends(th, {}) \/ Ends(th, ConfigLeak)
      PROVE  Rest
  BY <1>6, NothingKept DEF Rest
<1>7. ASSUME UNCHANGED vars
      PROVE  Rest /\ Rights /\ Conf /\ Aliases /\ Names /\ Stored
  <2>1. Rest
    BY <1>7 DEF Rest, vars, IInv, TypeOK, LocksReturned
  <2> QED
    BY <1>1, <1>2, <1>3, <1>4, <1>5, <1>7, <2>1 DEF vars, data, settings
<1>8. ASSUME NEW th \in Thread, Privileged(th)
      PROVE  Rest /\ Rights /\ Conf /\ Aliases /\ Names /\ Stored
  <2>1. ASSUME NEW u \in User, RoutePrivilegesOwn(th, u)
        PROVE  Rest /\ Rights /\ Conf /\ Aliases /\ Names /\ Stored
    <3>1. Rest
      BY <1>6, <2>1 DEF RoutePrivilegesOwn
    <3>2. Rights
      BY <2>1, <1>0, PrivilegesSet DEF RoutePrivilegesOwn, Rights
    <3> QED
      BY <1>2, <1>3, <1>4, <1>5, <2>1, <3>1, <3>2 DEF RoutePrivilegesOwn, SetPrivileges, settings
  <2>2. ASSUME NEW u \in User, RoutePrivilegesCheck(th, u)
        PROVE  Rest /\ Rights /\ Conf /\ Aliases /\ Names /\ Stored
    <3>1. Rest
      BY <2>2 DEF RoutePrivilegesCheck, Rest, IInv, TypeOK, LocksReturned
    <3> QED
      BY <1>1, <1>2, <1>3, <1>4, <1>5, <2>2, <3>1 DEF RoutePrivilegesCheck, data, settings
  <2>3. ASSUME RoutePrivilegesOther(th)
        PROVE  Rest /\ Rights /\ Conf /\ Aliases /\ Names /\ Stored
    <3>1. Rest
      BY <1>6, <2>3 DEF RoutePrivilegesOther
    <3>2. ASSUME NEW u \in User, SetPrivileges(u)
          PROVE  Rights /\ Conf /\ Aliases /\ Names /\ Stored
      <4>1. Rights
        BY <1>0, <3>2, PrivilegesSet DEF Rights
      <4> QED
        BY <1>2, <1>3, <1>4, <1>5, <3>2, <4>1 DEF SetPrivileges, settings
    <3>3. CASE UNCHANGED data
      BY <1>1, <1>2, <1>3, <1>4, <1>5, <3>1, <3>3 DEF data, settings
    <3> QED
      BY <2>3, <3>1, <3>2, <3>3 DEF RoutePrivilegesOther, IInv, TypeOK
  <2>4. ASSUME NEW u \in User, NEW t \in RegToken, RouteAdminTokensCreate(th, u, t)
        PROVE  Rest /\ Rights /\ Conf /\ Aliases /\ Names /\ Stored
    <3>1. Rest
      BY <1>6, <2>4 DEF RouteAdminTokensCreate
    <3>2. PICK list \in PrivilegeList : StoreGrants(t, list)
      BY <2>4 DEF RouteAdminTokensCreate
    <3>3. Rights
      BY <1>0, <3>2, TokenCreateStep DEF Rights
    <3> QED
      BY <1>2, <1>3, <1>4, <1>5, <3>1, <3>2, <3>3 DEF StoreGrants, settings
  <2>5. ASSUME NEW u \in User, NEW t \in RegToken, RouteAdminTokensDelete(th, u, t)
        PROVE  Rest /\ Rights /\ Conf /\ Aliases /\ Names /\ Stored
    <3>1. Rest
      BY <1>6, <2>5 DEF RouteAdminTokensDelete
    <3>2. Rights
      BY <1>0, <2>5, TokenDeleteStep DEF Rights
    <3> QED
      BY <1>2, <1>3, <1>4, <1>5, <2>5, <3>1, <3>2 DEF RouteAdminTokensDelete, settings
  <2>6. ASSUME NEW u \in User, NEW t \in RegToken \union {None}, RouteRegister(th, u, t)
        PROVE  Rest /\ Rights /\ Conf /\ Aliases /\ Names /\ Stored
    <3>1. Rest
      BY <1>6, <2>6 DEF RouteRegister
    <3>2. Rights
      BY <1>0, <2>6, RegisterStep DEF Rights
    <3> QED
      BY <1>2, <1>3, <1>4, <1>5, <2>6, <3>1, <3>2 DEF RouteRegister, settings
  <2> QED
    BY <1>8, <2>1, <2>2, <2>3, <2>4, <2>5, <2>6, <1>0 DEF Privileged, RightsHonest
<1>9. ASSUME NEW th \in Thread, Configuring(th)
      PROVE  Rest /\ Rights /\ Conf /\ Aliases /\ Names /\ Stored
  <2>1. ASSUME RouteConfigRefused(th)
        PROVE  Rest /\ Rights /\ Conf /\ Aliases /\ Names /\ Stored
    <3>1. Ends(th, {}) => Rest
      BY <1>6
    <3>2. Dies => Rest
      BY DEF Dies, Rest, LocksReturned
    <3> QED
      BY <1>1, <1>2, <1>3, <1>4, <1>5, <2>1, <3>1, <3>2 DEF RouteConfigRefused, data, settings
  <2>2. ASSUME NEW u \in User, RouteConfig(th, u)
        PROVE  Rest /\ Rights /\ Conf /\ Aliases /\ Names /\ Stored
    <3>1. Rest
      BY <1>6, <2>2 DEF RouteConfig
    <3>2. Conf
      BY <2>2, ConfigStep DEF Conf
    <3> QED
      BY <1>1, <1>3, <1>4, <1>5, <2>2, <3>1, <3>2 DEF RouteConfig
  <2> QED
    BY <1>0, <1>9, <2>1, <2>2 DEF Configuring, RightsHonest
<1>10. ASSUME NEW th \in Thread, Aliasing(th)
       PROVE  Rest /\ Rights /\ Conf /\ Aliases /\ Names /\ Stored
  <2>1. ASSUME RouteAliasDirectoryGet(th)
        PROVE  Rest /\ Rights /\ Conf /\ Aliases /\ Names /\ Stored
    <3>1. Rest
      BY <1>6, <2>1 DEF RouteAliasDirectoryGet
    <3> QED
      BY <1>1, <1>2, <1>3, <1>4, <1>5, <2>1, <3>1 DEF RouteAliasDirectoryGet, data, settings
  <2>2. ASSUME NEW u \in User, NEW a \in Alias, NEW r \in Room,
               RouteAliasDirectoryPut(th, u, a, r)
        PROVE  Rest /\ Rights /\ Conf /\ Aliases /\ Names /\ Stored
    <3>1. Rest
      BY <1>6, <2>2 DEF RouteAliasDirectoryPut
    <3>2. Aliases
      BY <2>2, AliasPutStep DEF Aliases
    <3> QED
      BY <1>1, <1>2, <1>4, <1>5, <2>2, <3>1, <3>2 DEF RouteAliasDirectoryPut
  <2>3. ASSUME NEW u \in User, NEW a \in Alias, RouteAliasDirectoryDelete(th, u, a)
        PROVE  Rest /\ Rights /\ Conf /\ Aliases /\ Names /\ Stored
    <3>1. Rest
      BY <1>6, <2>3 DEF RouteAliasDirectoryDelete
    <3>2. Aliases
      BY <2>3, AliasDeleteStep DEF Aliases
    <3> QED
      BY <1>1, <1>2, <1>4, <1>5, <2>3, <3>1, <3>2 DEF RouteAliasDirectoryDelete
  <2> QED
    BY <1>0, <1>10, <2>1, <2>2, <2>3 DEF Aliasing, RightsHonest
<1>11. ASSUME NEW th \in Thread, Personal(th)
       PROVE  Rest /\ Rights /\ Conf /\ Aliases /\ Names /\ Stored
  <2>1. ASSUME RouteUserDirectory(th)
        PROVE  Rest /\ Rights /\ Conf /\ Aliases /\ Names /\ Stored
    <3>1. Rest
      BY <1>6, <2>1 DEF RouteUserDirectory
    <3> QED
      BY <1>1, <1>2, <1>3, <1>4, <1>5, <2>1, <3>1 DEF RouteUserDirectory, data, settings
  <2>2. ASSUME NEW u \in User, RouteUserProfile(th, u)
        PROVE  Rest /\ Rights /\ Conf /\ Aliases /\ Names /\ Stored
    <3>1. Rest
      BY <1>6, <2>2 DEF RouteUserProfile
    <3>2. Names
      BY <1>4, <2>2 DEF RouteUserProfile, Names, IInv, TypeOK
    <3> QED
      BY <1>1, <1>2, <1>3, <1>5, <2>2, <3>1, <3>2 DEF RouteUserProfile
  <2>3. ASSUME NEW u \in User, NEW f \in FilterId, NEW b \in FilterBody,
               RouteFilter(th, u, f, b)
        PROVE  Rest /\ Rights /\ Conf /\ Aliases /\ Names /\ Stored
    <3>1. Rest
      BY <1>6, <2>3 DEF RouteFilter
    <3>2. Stored
      BY <2>3, FilterStep DEF Stored
    <3> QED
      BY <1>1, <1>2, <1>3, <1>4, <2>3, <3>1, <3>2 DEF RouteFilter
  <2> QED
    BY <1>0, <1>11, <2>1, <2>2, <2>3 DEF Personal, RightsHonest
<1> QED
  BY <1>7, <1>8, <1>9, <1>10, <1>11 DEF Next

-----------------------------------------------------------------------------
(* The user directory *)

LEMMA LeastNumber ==
  ASSUME NEW T \in SUBSET Nat, T # {}
  PROVE  \E m \in T : \A k \in T : m <= k
<1>1. PICK m \in T : \A k \in T : <<k, m>> \notin OpToRel(<, Nat)
  BY NatLessThanWellFounded, WFMin
<1>2. \A k \in T : ~(k < m)
  BY <1>1 DEF OpToRel
<1> QED BY <1>2

LEMMA GreatestNumber ==
  ASSUME NEW n \in Nat, NEW T \in SUBSET (1..n), T # {}
  PROVE  \E m \in T : \A k \in T : k <= m
<1> DEFINE U == {n - k : k \in T}
<1>1. \A k \in T : k \in 1..n /\ n - k \in Nat /\ n - k \in U
  OBVIOUS
<1>2. PICK l \in U : \A k \in U : l <= k
  <2>1. U \in SUBSET Nat
    BY <1>1
  <2>2. U # {}
    BY <1>1
  <2> QED BY <2>1, <2>2, LeastNumber
<1>3. PICK m \in T : l = n - m
  BY <1>2
<1>4. \A k \in T : l <= n - k
  BY <1>1, <1>2
<1> QED BY <1>1, <1>3, <1>4

\* The search in a list of n users, of whom those at the places in F match:
\* Earlier counts the matches before a place, Taken is where the loop of
\* RouteUserDirectory.c still adds to its answer.
Earlier(F, j) == {k \in F : k < j}
Taken(F, limit) == {j \in F : Cardinality(Earlier(F, j)) < limit}

LEMMA EarlierCounts ==
  ASSUME NEW n \in Nat, NEW F \in SUBSET (1..n)
  PROVE  /\ \A j : /\ IsFiniteSet(Earlier(F, j))
                   /\ Cardinality(Earlier(F, j)) \in Nat
         /\ \A limit : /\ IsFiniteSet(Taken(F, limit))
                       /\ Cardinality(Taken(F, limit)) \in Nat
<1>1. IsFiniteSet(1..n)
  BY FS_Interval
<1>2. \A T \in SUBSET (1..n) : IsFiniteSet(T) /\ Cardinality(T) \in Nat
  BY <1>1, FS_Subset, FS_CardinalityType
<1> QED BY <1>2 DEF Earlier, Taken

\* No more than limit users are taken.
LEMMA TakenBounded ==
  ASSUME NEW n \in Nat, NEW F \in SUBSET (1..n), NEW limit \in Nat
  PROVE  Cardinality(Taken(F, limit)) <= limit
<1> DEFINE I == Taken(F, limit)
<1>1. CASE I = {}
  BY <1>1, FS_EmptySet
<1>2. CASE I # {}
  <2>1. I \in SUBSET (1..n)
    BY DEF Taken
  <2>2. PICK m \in I : \A k \in I : k <= m
    BY <1>2, <2>1, GreatestNumber
  <2> DEFINE E == Earlier(F, m)
  <2>3. /\ m \in F /\ m \in Int /\ Cardinality(E) < limit
        /\ IsFiniteSet(E) /\ Cardinality(E) \in Nat
    <3>1. m \in F /\ m \in Int /\ Cardinality(E) < limit
      BY <2>2 DEF Taken
    <3> QED BY <3>1, EarlierCounts
  <2>4. I \in SUBSET (E \union {m})
    BY <2>1, <2>2 DEF Taken, Earlier
  <2>5. /\ IsFiniteSet(E \union {m})
        /\ Cardinality(E \union {m}) = IF m \in E THEN Cardinality(E) ELSE Cardinality(E) + 1
    BY <2>3, FS_AddElement
  <2>6. Cardinality(I) <= Cardinality(E \union {m})
    BY <2>4, <2>5, FS_Subset
  <2>7. Cardinality(I) \in Nat
    BY EarlierCounts
  <2> HIDE DEF I, E
  <2>8. Cardinality(I) <= limit
    BY <2>3, <2>5, <2>6, <2>7
  <2> QED BY <2>8 DEF I
<1> QED BY <1>1, <1>2

\* Where a match is left out, limit users have been taken.
LEMMA TakenFull ==
  ASSUME NEW n \in Nat, NEW F \in SUBSET (1..n), NEW limit \in Nat,
         Taken(F, limit) # F
  PROVE  Cardinality(Taken(F, limit)) = limit
<1> DEFINE Left == F \ Taken(F, limit)
<1>1. Left \in SUBSET Nat /\ Left # {}
  <2>1. Taken(F, limit) \in SUBSET F
    BY DEF Taken
  <2>2. Left # {}
    BY <2>1
  <2>3. \A k \in F : k \in Nat
    OBVIOUS
  <2> QED BY <2>2, <2>3
<1>2. PICK m \in Left : \A k \in Left : m <= k
  BY <1>1, LeastNumber
<1>3. m \in Int /\ Cardinality(Earlier(F, m)) \in Nat
  BY EarlierCounts
<1>4. Cardinality(Earlier(F, m)) >= limit
  BY <1>2, <1>3 DEF Taken
<1>5. Earlier(F, m) \in SUBSET Taken(F, limit)
  <2> SUFFICES ASSUME NEW k \in F, k < m PROVE k \in Taken(F, limit)
    BY DEF Earlier
  <2> QED BY <1>2
<1>6. Cardinality(Earlier(F, m)) <= Cardinality(Taken(F, limit))
  BY <1>5, EarlierCounts, FS_Subset
<1>7. Cardinality(Taken(F, limit)) \in Nat /\ Cardinality(Taken(F, limit)) <= limit
  BY EarlierCounts, TakenBounded
<1> QED BY <1>3, <1>4, <1>6, <1>7

\* A list without repetitions has as many users as places are taken.
LEMMA ResultsCounted ==
  ASSUME NEW n \in Nat, NEW list \in [1..n -> User], NEW I \in SUBSET (1..n),
         \A i, j \in 1..n : i # j => list[i] # list[j]
  PROVE  Cardinality({list[i] : i \in I}) = Cardinality(I)
<1> DEFINE R == {list[i] : i \in I}
           f == [i \in I |-> list[i]]
<1>1. IsFiniteSet(I)
  <2>1. IsFiniteSet(1..n)
    BY FS_Interval
  <2> QED BY <2>1, FS_Subset
<1>2. f \in Bijection(I, R)
  BY DEF Bijection, Injection, Surjection, IsInjective
<1>3. ExistsBijection(I, R)
  BY <1>2 DEF ExistsBijection
<1> QED BY <1>1, <1>3, FS_Bijection

\* A list without repetitions of as many users as there are has them all.
LEMMA EveryoneListed ==
  ASSUME users \in SUBSET User, NEW list \in SetToSeqs(users)
  PROVE  \E n \in Nat :
            /\ list \in [1..n -> User]
            /\ \A i \in 1..n : list[i] \in users
            /\ \A i, j \in 1..n : i # j => list[i] # list[j]
            /\ \A u \in users : \E i \in 1..n : list[i] = u
<1> DEFINE n == Cardinality(users)
<1>0. IsFiniteSet(users)
  BY UserAssumption, FS_Subset
<1>1. n \in Nat
  BY <1>0, FS_CardinalityType
<1>2. list \in [1..n -> users] /\ \A i, j \in 1..n : i # j => list[i] # list[j]
  BY DEF SetToSeqs
<1>3. IsFiniteSet(1..n) /\ Cardinality(1..n) = n
  BY <1>1, FS_Interval
<1>4. list \in Injection(1..n, users)
  BY <1>2 DEF Injection, IsInjective
<1>5. list \in Surjection(1..n, users)
  BY <1>0, <1>3, <1>4, FS_Injection
<1>6. list \in [1..n -> User]
  BY <1>2
<1> QED BY <1>1, <1>2, <1>5, <1>6 DEF Surjection

\* The answer of RouteUserDirectory.c:127-189, whatever the order in which the
\* directory lists its users.
LEMMA DirectorySearch == TypeOK => DirectoryHonest
<1> SUFFICES ASSUME users \in SUBSET User,
                    NEW list \in SetToSeqs(users), NEW s \in Term, NEW limit \in Nat
             PROVE  /\ Cardinality(DirectoryResults(list, s, limit)) <= limit
                    /\ ~DirectoryLimited(list, s, limit) =>
                          DirectoryResults(list, s, limit) = {u \in users : Found(u, s)}
  BY DEF DirectoryHonest, TypeOK
<1>1. PICK n \in Nat :
         /\ list \in [1..n -> User]
         /\ \A i \in 1..n : list[i] \in users
         /\ \A i, j \in 1..n : i # j => list[i] # list[j]
         /\ \A u \in users : \E i \in 1..n : list[i] = u
  BY EveryoneListed
<1> DEFINE F == {j \in 1..n : Found(list[j], s)}
           I == Taken(F, limit)
<1>2. F \in SUBSET (1..n) /\ I \in SUBSET F
  BY DEF Taken
<1>3. \A j \in 1..n : {k \in 1..(j - 1) : Found(list[k], s)} = Earlier(F, j)
  BY DEF Earlier
<1>4. DirectoryResults(list, s, limit) = {list[i] : i \in I}
  <2>1. DOMAIN list = 1..n
    BY <1>1
  <2> DEFINE K(j) == Cardinality({k \in 1..(j - 1) : Found(list[k], s)})
             J == {j \in 1..n : Found(list[j], s) /\ K(j) < limit}
  <2>2. DirectoryResults(list, s, limit) = {list[i] : i \in J}
    BY <2>1 DEF DirectoryResults, IncludedLtLimit
  <2>3. \A j \in 1..n : K(j) = Cardinality(Earlier(F, j))
    BY <1>3
  <2>4. J = I
    <3> HIDE DEF K
    <3> QED BY <2>3 DEF Taken
  <2> QED BY <2>2, <2>4
<1> HIDE DEF F
<1>5. Cardinality(DirectoryResults(list, s, limit)) = Cardinality(I)
  <2> HIDE DEF I
  <2>1. I \in SUBSET (1..n)
    BY <1>2
  <2>2. Cardinality({list[i] : i \in I}) = Cardinality(I)
    BY <1>1, <2>1, ResultsCounted
  <2> QED BY <1>4, <2>2
<1>6. Cardinality(I) <= limit
  BY <1>2, TakenBounded
<1>7. ASSUME ~DirectoryLimited(list, s, limit)
      PROVE  DirectoryResults(list, s, limit) = {u \in users : Found(u, s)}
  <2>1. Cardinality(I) # limit
    BY <1>5, <1>7 DEF DirectoryLimited
  <2>2. I = F
    BY <1>2, <2>1, TakenFull
  <2>3. \A i \in F : list[i] \in users /\ Found(list[i], s)
    BY <1>1 DEF F
  <2>4. ASSUME NEW u \in users, Found(u, s) PROVE \E i \in F : list[i] = u
    BY <1>1, <2>4 DEF F
  <2> HIDE DEF I
  <2> QED BY <1>4, <2>2, <2>3, <2>4
<1> QED BY <1>5, <1>6, <1>7

-----------------------------------------------------------------------------
(* Theorems *)

\* The inductive invariant holds: above all, the stored configuration parses
\* whatever administrators send.
THEOREM AdministrationInvariant == Spec => []IInv
<1>1. Init => IInv
  BY Initial
<1>2. IInv /\ [Next]_vars => IInv'
  BY Step
<1> QED
  BY <1>1, <1>2, PTL DEF Spec

\* The variables have their types.
THEOREM AdministrationTypes == Spec => []TypeOK
<1>1. IInv => TypeOK
  BY DEF IInv
<1> QED
  BY <1>1, AdministrationInvariant, PTL

\* No thread ever keeps a lock when its request has been answered.
THEOREM NoLockKept == Spec => []LocksReturned
<1>1. IInv => LocksReturned
  BY DEF IInv
<1> QED
  BY <1>1, AdministrationInvariant, PTL

\* The privileges on file are those the answered requests named.
THEOREM PrivilegesHonest == Spec => []PrivilegesAsSaid
<1>1. IInv => PrivilegesAsSaid
  BY DEF IInv
<1> QED
  BY <1>1, AdministrationInvariant, PTL

\* The two alias indexes agree.
THEOREM AliasesConsistent == Spec => []AliasIndexesAgree
<1>1. IInv => AliasIndexesAgree
  BY DEF IInv
<1> QED
  BY <1>1, AdministrationInvariant, PTL

\* A filter a client has an id for is never changed.
THEOREM FiltersSafe == Spec => []FiltersKept
<1>1. IInv => FiltersKept
  BY DEF IInv
<1> QED
  BY <1>1, AdministrationInvariant, PTL

\* A search in the user directory answers no more than the limit, and leaves
\* somebody who matches out only where it says so.
THEOREM DirectoryAnswers == Spec => []DirectoryHonest
BY DirectorySearch, AdministrationTypes, PTL

\* Once nobody may grant privileges or issue tokens, no token on file grants
\* either, and no request is under way that was allowed to, that is so for good:
\* whoever registers gets no more than a token says that is left, and nobody
\* else gains or loses a privilege.
THEOREM RightsStayLost == Spec => RightsNotRegained
<1> DEFINE Kept ==
        NobodyGrants =>
          /\ NobodyGrants'
          /\ \A u \in users : privileges'[u] = privileges[u]
          /\ \A u \in users' \ users :
                \/ privileges'[u] = {}
                \/ \E t \in RegToken : UserGetPrivileges(u)' = Granted(t)
<1>1. ASSUME IInv, Next, NobodyGrants
      PROVE  /\ NobodyGrants'
             /\ \A u \in users : privileges'[u] = privileges[u]
             /\ \A u \in users' \ users :
                   \/ privileges'[u] = {}
                   \/ \E t \in RegToken : UserGetPrivileges(u)' = Granted(t)
  <2>1. /\ \A u \in User : UserDecodePrivileges(privileges[u]) \intersect Power = {}
        /\ \A t \in RegToken : Granted(t) \intersect Power = {}
        /\ \A th \in Thread : phase[th] # "switching"
        /\ users \in SUBSET User
        /\ privileges \in [User -> SUBSET PrivilegeName]
        /\ phase \in [Thread -> {"idle", "switching"}]
    BY <1>1 DEF NobodyGrants, UserGetPrivileges, IInv, TypeOK
  <2>2. PICK th \in Thread :
           Privileged(th) \/ Configuring(th) \/ Aliasing(th) \/ Personal(th)
    BY <1>1 DEF Next
  <2>3. \/ \E u \in User, t \in RegToken \union {None} : RouteRegister(th, u, t)
        \/ /\ UNCHANGED rights
           /\ \E leaked : Ends(th, leaked) \/ Dies
    <3>1. \A u \in users :
             ~Holds(u, "GRANT_PRIVILEGES") /\ ~Holds(u, "ISSUE_TOKENS")
      BY <2>1 DEF Holds, UserGetPrivileges, Power
    <3>2. CASE Privileged(th)
      BY <2>1, <3>1, <3>2 DEF Privileged, RoutePrivilegesOwn, RoutePrivilegesCheck,
             RoutePrivilegesOther, RouteAdminTokensCreate, RouteAdminTokensDelete
    <3>3. CASE Configuring(th)
      BY <3>3 DEF Configuring, RouteConfig, RouteConfigRefused, data
    <3>4. CASE Aliasing(th)
      BY <3>4 DEF Aliasing, RouteAliasDirectoryGet, RouteAliasDirectoryPut,
                  RouteAliasDirectoryDelete, data
    <3>5. CASE Personal(th)
      BY <3>5 DEF Personal, RouteUserDirectory, RouteUserProfile, RouteFilter, data
    <3> QED BY <2>2, <3>2, <3>3, <3>4, <3>5
  <2>4. ASSUME NEW leaked, Ends(th, leaked) \/ Dies
        PROVE  \A other \in Thread : phase'[other] # "switching"
    BY <2>1, <2>4 DEF Ends, Dies
  <2>5. CASE UNCHANGED rights /\ \E leaked : Ends(th, leaked) \/ Dies
    <3>1. /\ users' = users /\ privileges' = privileges /\ grants' = grants
          /\ \A other \in Thread : phase'[other] # "switching"
      BY <2>4, <2>5 DEF rights
    <3>2. NobodyGrants'
      BY <2>1, <3>1 DEF NobodyGrants, UserGetPrivileges, Granted, OnFile
    <3> QED BY <3>1, <3>2
  <2>6. ASSUME NEW u \in User, NEW t \in RegToken \union {None}, RouteRegister(th, u, t)
        PROVE  /\ NobodyGrants'
               /\ \A v \in users : privileges'[v] = privileges[v]
               /\ \A v \in users' \ users :
                     \/ privileges'[v] = {}
                     \/ \E k \in RegToken : UserGetPrivileges(v)' = Granted(k)
    <3>1. grants' = grants /\ \A other \in Thread : phase'[other] # "switching"
      BY <2>4, <2>6 DEF RouteRegister
    <3>2. CASE UNCHANGED <<users, privileges, said>>
      <4>1. NobodyGrants'
        BY <2>1, <3>1, <3>2 DEF NobodyGrants, UserGetPrivileges, Granted, OnFile
      <4> QED BY <3>2, <4>1
    <3>3. CASE ~UNCHANGED <<users, privileges, said>>
      <4>1. /\ u \notin users
            /\ users' = users \union {u}
            /\ privileges' = [privileges EXCEPT ![u] = UserEncodePrivileges(Granted(t))]
        BY <2>6, <3>3 DEF RouteRegister
      <4>2. /\ Granted(t) \in SUBSET AllPrivileges
            /\ UserDecodePrivileges(UserEncodePrivileges(Granted(t))) = Granted(t)
        BY PrivilegesSurviveCoding DEF Granted
      <4>3. /\ \A v \in User \ {u} : privileges'[v] = privileges[v]
            /\ UserDecodePrivileges(privileges'[u]) = Granted(t)
        BY <2>1, <4>1, <4>2
      <4>4. Granted(t) = {} \/ t \in RegToken
        BY DEF Granted, OnFile
      <4>5. Granted(t) \intersect Power = {}
        BY <2>1, <4>4
      <4>6. \A v \in User : UserDecodePrivileges(privileges'[v]) \intersect Power = {}
        BY <2>1, <4>3, <4>5
      <4>7. NobodyGrants'
        BY <2>1, <3>1, <4>6 DEF NobodyGrants, UserGetPrivileges, Granted, OnFile
      <4>8. privileges'[u] = {} \/ \E k \in RegToken : UserGetPrivileges(u)' = Granted(k)
        <5>1. CASE t \in RegToken
          BY <4>3, <5>1 DEF UserGetPrivileges
        <5>2. CASE Granted(t) = {}
          <6>1. UserEncodePrivileges({}) = {}
            BY DEF UserEncodePrivileges, AllPrivileges
          <6> QED BY <2>1, <4>1, <5>2, <6>1
        <5> QED BY <4>4, <5>1, <5>2
      <4> QED BY <2>1, <4>1, <4>3, <4>7, <4>8
    <3> QED BY <3>2, <3>3
  <2> QED BY <2>3, <2>5, <2>6
<1>2. IInv /\ [Next]_vars => [Kept]_vars
  BY <1>1
<1> QED
  BY <1>2, AdministrationInvariant, PTL DEF Spec, RightsNotRegained
=============================================================================
