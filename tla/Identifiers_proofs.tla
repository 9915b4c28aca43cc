-------------------------- MODULE Identifiers_proofs --------------------------
(***************************************************************************)
(* The parsers of Parser.c agree with the grammar for every string, not    *)
(* only those TLC puts together, for every limit and for any number of     *)
(* reads in the loop of ParseIPv6.                                         *)
(***************************************************************************)
EXTENDS Identifiers, SequenceTheorems, FiniteSetTheorems, WellFoundedInduction, TLAPS

AnyChar == Char \union {NUL}

\* What the parsers are given: it ends in what is part of no server name.
Readable(m) ==
    /\ m \in Seq(AnyChar)
    /\ Len(m) >= 1 /\ m[Len(m)] \in {" ", NUL}

-----------------------------------------------------------------------------
(* Numbers *)

LEMMA LeastNumber ==
  ASSUME NEW T \in SUBSET Nat, T # {}
  PROVE  \E m \in T : \A k \in T : m <= k
<1>1. PICK m \in T : \A k \in T : <<k, m>> \notin OpToRel(<, Nat)
  BY NatLessThanWellFounded, WFMin
<1>2. \A k \in T : ~(k < m)
  BY <1>1 DEF OpToRel
<1> QED BY <1>2

\* Induction, for a set of numbers.
LEMMA Induction ==
  ASSUME NEW P \in SUBSET Nat, 0 \in P, \A n \in P : n + 1 \in P
  PROVE  \A n \in Nat : n \in P
<1> SUFFICES ASSUME Nat \ P # {} PROVE FALSE
  OBVIOUS
<1>1. PICK m \in Nat \ P : \A k \in Nat \ P : m <= k
  BY LeastNumber
<1>2. m - 1 \in P
  BY <1>1
<1> QED BY <1>1, <1>2

LEMMA LeastOf ==
  ASSUME NEW i \in Int, NEW n \in Int, NEW T \in SUBSET (i..n), T # {}
  PROVE  Min(T) \in T /\ \A k \in T : Min(T) <= k
<1> DEFINE U == {k - i : k \in T}
<1>1. \A k \in T : k \in Int /\ k - i \in U
  OBVIOUS
<1>2. U \in SUBSET Nat /\ U # {}
  <2>1. \A k \in T : n - k \in Nat /\ k - i \in Nat
    OBVIOUS
  <2> QED BY <1>1, <2>1
<1>3. PICK l \in U : \A k \in U : l <= k
  BY <1>2, LeastNumber
<1>4. PICK m \in T : l = m - i
  BY <1>3
<1>5. \A k \in T : l <= k - i
  BY <1>1, <1>3
<1>6. \E x \in T : \A y \in T : x =< y
  <2>1. \A k \in T : m <= k
    BY <1>1, <1>4, <1>5
  <2> QED BY <2>1
<1> QED BY <1>6 DEF Min

LEMMA GreatestOf ==
  ASSUME NEW i \in Int, NEW n \in Int, NEW T \in SUBSET (i..n), T # {}
  PROVE  Max(T) \in T /\ \A k \in T : k <= Max(T)
<1> DEFINE U == {n - k : k \in T}
<1>1. \A k \in T : k \in Int /\ n - k \in U
  OBVIOUS
<1>2. U \in SUBSET Nat /\ U # {}
  <2>1. \A k \in T : n - k \in Nat /\ k - i \in Nat
    OBVIOUS
  <2> QED BY <1>1, <2>1
<1>3. PICK l \in U : \A k \in U : l <= k
  BY <1>2, LeastNumber
<1>4. PICK m \in T : l = n - m
  BY <1>3
<1>5. \A k \in T : l <= n - k
  BY <1>1, <1>3
<1>6. \E x \in T : \A y \in T : x >= y
  <2>1. \A k \in T : k <= m
    BY <1>1, <1>4, <1>5
  <2> QED BY <1>1, <2>1
<1> QED BY <1>1, <1>6 DEF Max

\* U is the set T of numbers from a to b moved by d: it has as many.
IsMoved(T, a, b, U, d) ==
    /\ a \in Int /\ b \in Int /\ d \in Int
    /\ T \in SUBSET (a..b) /\ U \in SUBSET Int
    /\ \A k \in Int : k \in T <=> k + d \in U

LEMMA MovedSet ==
  ASSUME NEW T, NEW a, NEW b, NEW U, NEW d, IsMoved(T, a, b, U, d)
  PROVE  Cardinality(U) = Cardinality(T)
<1> USE DEF IsMoved
<1> DEFINE f == [k \in T |-> k + d]
<1>1. f \in Bijection(T, U)
  <2>0. \A k \in T : k \in Int
    OBVIOUS
  <2>1. f \in [T -> U]
    BY <2>0
  <2>2. \A x, y \in T : f[x] = f[y] => x = y
    BY <2>0
  <2>3. \A t \in U : \E k \in T : f[k] = t
    <3> TAKE t \in U
    <3>1. t \in Int /\ t - d \in Int /\ (t - d) + d = t
      OBVIOUS
    <3>2. t - d \in T
      BY <3>1
    <3> QED BY <3>1, <3>2
  <2> QED BY <2>1, <2>2, <2>3 DEF Bijection, Injection, Surjection, IsInjective
<1>2. IsFiniteSet(T)
  <2>1. IsFiniteSet(a..b)
    BY FS_Interval
  <2> QED BY <2>1, FS_Subset
<1> QED BY <1>1, <1>2, FS_Bijection DEF ExistsBijection

LEMMA IsLeast ==
  ASSUME NEW T \in SUBSET Int, NEW m \in T, \A k \in T : m <= k
  PROVE  Min(T) = m
<1>1. \E x \in T : \A y \in T : x =< y
  OBVIOUS
<1>2. Min(T) \in T /\ \A y \in T : Min(T) =< y
  BY <1>1 DEF Min
<1>3. m \in Int /\ Min(T) \in Int
  BY <1>2
<1> QED BY <1>2, <1>3

LEMMA IsGreatest ==
  ASSUME NEW T \in SUBSET Int, NEW m \in T, \A k \in T : k <= m
  PROVE  Max(T) = m
<1>1. \E x \in T : \A y \in T : x >= y
  OBVIOUS
<1>2. Max(T) \in T /\ \A y \in T : Max(T) >= y
  BY <1>1 DEF Max
<1>3. m \in Int /\ Max(T) \in Int
  BY <1>2
<1> QED BY <1>2, <1>3

-----------------------------------------------------------------------------
(* The loop of ParseIPv6: its definition by recursion has a solution *)

LEMMA LoopUnfolds ==
  ASSUME NEW m, NEW n \in Nat
  PROVE  IPv6Loop(m)[n] =
           [s \in IPv6State |->
              IPv6Read(m, s, IF n = 0 THEN [t \in IPv6State |-> Endless]
                                      ELSE IPv6Loop(m)[n - 1])]
<1> DEFINE B(f) == [s \in IPv6State |-> IPv6Read(m, s, f)]
           E == [t \in IPv6State |-> Endless]
           Rest(g, k) == IF k = 0 THEN E ELSE g[k - 1]
           Upto(g, k) == \A j \in 0..k : g[j] = B(Rest(g, j))
           Solution(g) == g = [k \in Nat |-> B(Rest(g, k))]
<1>1. IPv6Loop(m) = CHOOSE g : Solution(g)
  BY DEF IPv6Loop
<1> SUFFICES \E g : Solution(g)
  <2> SUFFICES ASSUME Solution(IPv6Loop(m)) PROVE IPv6Loop(m)[n] = B(Rest(IPv6Loop(m), n))
    BY <1>1
  <2> HIDE DEF B, Rest
  <2> QED OBVIOUS
<1> HIDE DEF B, E
<1>2. \A n_1 \in Nat : n_1 \in {k \in Nat : \E g : Upto(g, k)}
  <2> DEFINE P == {k \in Nat : \E g : Upto(g, k)}
  <2>1. 0 \in P
    <3>1. Upto([j \in 0..0 |-> B(E)], 0)
      OBVIOUS
    <3> QED BY <3>1
  <2>2. ASSUME NEW k \in P PROVE k + 1 \in P
    <3>1. PICK g : Upto(g, k)
      OBVIOUS
    <3> DEFINE h == [j \in 0..(k + 1) |-> IF j = k + 1 THEN B(g[k]) ELSE g[j]]
    <3>2. \A j \in 0..k : h[j] = g[j]
      OBVIOUS
    <3>3. h[k + 1] = B(h[k])
      BY <3>2
    <3>4. \A j \in 0..k : Rest(h, j) = Rest(g, j)
      BY <3>2
    <3>5. Upto(h, k + 1)
      BY <3>1, <3>2, <3>3, <3>4
    <3> HIDE DEF h
    <3>6. \E f : Upto(f, k + 1)
      BY <3>5
    <3> QED BY <3>6
  <2> HIDE DEF P
  <2>3. \A k \in Nat : k \in P
    BY <2>1, <2>2, Induction DEF P
  <2> QED BY <2>3 DEF P
<1>3. ASSUME NEW k \in Nat, NEW g, NEW h, Upto(g, k), Upto(h, k + 1)
      PROVE  g[k] = h[k]
  <2> DEFINE P == {j \in Nat : j <= k => g[j] = h[j]}
  <2>1. 0 \in P
    BY <1>3
  <2>2. ASSUME NEW j \in P PROVE j + 1 \in P
    BY <1>3, <2>2
  <2> HIDE DEF P
  <2>3. k \in P
    BY <2>1, <2>2, Induction DEF P
  <2> QED BY <2>3 DEF P
<1> DEFINE C(k) == CHOOSE g : Upto(g, k)
           F == [k \in Nat |-> C(k)[k]]
<1>4. \A k \in Nat : Upto(C(k), k)
  BY <1>2
<1> HIDE DEF C
<1>5. ASSUME NEW k \in Nat PROVE F[k] = B(Rest(F, k))
  <2>1. F[k] = B(Rest(C(k), k))
    BY <1>4
  <2>2. CASE k = 0
    BY <2>1, <2>2
  <2>3. CASE k # 0
    <3>1. C(k - 1)[k - 1] = C(k)[k - 1]
      BY <1>3, <1>4, <2>3
    <3> QED BY <2>1, <2>3, <3>1
  <2> QED BY <2>2, <2>3
<1>6. Solution(F)
  BY <1>5
<1> QED BY <1>6

-----------------------------------------------------------------------------
(* Characters in memory *)

LEMMA DigitsAre == Digit = {"0", "1", "2", "3", "4", "5", "6", "7", "8", "9"}
<1>1. DOMAIN Digits = 1..10
  BY DEF Digits
<1>2. Digit = {Digits[k] : k \in 1..10}
  BY <1>1 DEF Digit, Range
<1> QED BY <1>2 DEF Digits

\* What ends a string or a part of one.
LEMMA Delimiters ==
  /\ {":", NUL, " ", "[", "]", "@", "unknown"} \intersect (Digit \union {"."}) = {}
  /\ {":", NUL, " ", "[", "]", "@", "unknown"} \intersect (Lower \union {"-"}) = {}
  /\ {NUL, " ", "[", "]", "@", "unknown"} \intersect IPv6Char = {}
  /\ {NUL, "unknown"} \intersect Char = {}
  /\ ":" \in Char /\ "." \notin Digit
BY DigitsAre DEF NUL, Lower, HexLetter, IPv6Char, Char, Sigil

LEMMA AtIs ==
  ASSUME NEW S, NEW m \in Seq(S)
  PROVE  /\ Len(m) \in Nat
         /\ \A i \in 1..Len(m) : At(m, i) = m[i] /\ m[i] \in S
         /\ \A i \in Int : i \notin 1..Len(m) => At(m, i) = "unknown"
BY DEF At

LEMMA ReadableIs ==
  ASSUME NEW m, Readable(m)
  PROVE  /\ m \in Seq(AnyChar) /\ Len(m) \in Nat /\ Len(m) >= 1
         /\ Len(m) \in 1..Len(m) /\ At(m, Len(m)) = m[Len(m)]
         /\ At(m, Len(m)) \in {" ", NUL} /\ At(m, Len(m)) # "[" /\ At(m, Len(m)) # "]"
         /\ At(m, Len(m)) # ":"
<1>1. m \in Seq(AnyChar)
  BY DEF Readable
<1>2. Len(m) \in Nat
  BY <1>1
<1>3. Len(m) >= 1 /\ m[Len(m)] \in {" ", NUL}
  BY DEF Readable
<1>4. Len(m) \in 1..Len(m)
  <2> DEFINE L == Len(m)
  <2>1. L \in Nat /\ L >= 1
    BY <1>2, <1>3
  <2> HIDE DEF L
  <2>2. L \in 1..L
    BY <2>1
  <2> QED BY <2>2 DEF L
<1>5. At(m, Len(m)) = m[Len(m)]
  BY <1>4, <1>1, AtIs
<1> QED BY <1>1, <1>2, <1>3, <1>4, <1>5 DEF NUL

\* Positions within bounds are numbers.
LEMMA Within ==
  ASSUME NEW a \in Int, NEW b \in Int, NEW k \in a..b
  PROVE  k \in Int /\ a <= k /\ k <= b
OBVIOUS

LEMMA SkipStops ==
  ASSUME NEW S, NEW m \in Seq(S), NEW i \in Int, NEW C,
         NEW e \in i..Len(m), At(m, e) \notin C
  PROVE  /\ Skip(m, i, C) \in i..e
         /\ At(m, Skip(m, i, C)) \notin C
         /\ \A k \in i..(Skip(m, i, C) - 1) : At(m, k) \in C
<1> DEFINE T == {j \in i..Len(m) : At(m, j) \notin C}
<1>1. Len(m) \in Int /\ e \in T /\ T \in SUBSET (i..Len(m))
  OBVIOUS
<1>2. Skip(m, i, C) = Min(T)
  BY DEF Skip
<1> HIDE DEF T
<1>3. Min(T) \in T /\ \A k \in T : Min(T) <= k
  BY <1>1, LeastOf
<1>4. Min(T) \in i..e /\ At(m, Min(T)) \notin C
  BY <1>1, <1>3 DEF T
<1>5. \A k \in i..(Min(T) - 1) : At(m, k) \in C
  <2> SUFFICES ASSUME NEW k \in i..(Min(T) - 1), At(m, k) \notin C PROVE FALSE
    OBVIOUS
  <2>1. k \in T
    BY <1>1, <1>4 DEF T
  <2> QED BY <1>1, <1>3, <1>4, <2>1
<1> QED BY <1>2, <1>4, <1>5

LEMMA SkipIs ==
  ASSUME NEW S, NEW m \in Seq(S), NEW i \in Int, NEW C,
         NEW e \in i..Len(m), At(m, e) \notin C,
         \A k \in i..(e - 1) : At(m, k) \in C
  PROVE  Skip(m, i, C) = e
<1>1. /\ Skip(m, i, C) \in i..e
      /\ At(m, Skip(m, i, C)) \notin C
  BY SkipStops
<1> QED BY <1>1

LEMMA PartIs ==
  ASSUME NEW S, NEW m \in Seq(S), NEW i \in 1..(Len(m) + 1), NEW j \in i..(Len(m) + 1)
  PROVE  /\ Part(m, i, j) \in Seq(S) /\ Len(Part(m, i, j)) = j - i
         /\ \A k \in 1..(j - i) : Part(m, i, j)[k] = m[i + k - 1]
<1>1. \A k \in i..(j - 1) : m[k] \in S
  OBVIOUS
<1>2. i \in Int /\ j - 1 \in Int
  OBVIOUS
<1> DEFINE q == SubSeq(m, i, j - 1)
<1>3. /\ q \in Seq(S)
      /\ Len(q) = IF i <= j - 1 THEN j - 1 - i + 1 ELSE 0
      /\ \A k \in 1..(j - 1 - i + 1) : q[k] = m[i + k - 1]
  BY <1>1, <1>2, SubSeqProperties
<1> HIDE DEF q
<1>4. Len(q) = j - i /\ \A k \in 1..(j - i) : q[k] = m[i + k - 1]
  BY <1>3
<1> QED BY <1>3, <1>4 DEF Part, q

\* The n characters at i in m are those at j in w.
Same(m, i, w, j, n) ==
    /\ m \in Seq(AnyChar) /\ i \in 1..(Len(m) + 1) /\ i + n <= Len(m) + 1
    /\ w \in Seq(AnyChar) /\ j \in 1..(Len(w) + 1) /\ j + n <= Len(w) + 1
    /\ \A k \in 0..(n - 1) : m[i + k] = w[j + k]

LEMMA PartMoves ==
  ASSUME NEW m, NEW i, NEW w, NEW j, NEW n \in Nat, Same(m, i, w, j, n)
  PROVE  Part(m, i, i + n) = Part(w, j, j + n)
<1> DEFINE S == AnyChar
<1>s. /\ m \in Seq(S) /\ i \in 1..(Len(m) + 1) /\ i + n <= Len(m) + 1
      /\ w \in Seq(S) /\ j \in 1..(Len(w) + 1) /\ j + n <= Len(w) + 1
      /\ \A k \in 0..(n - 1) : m[i + k] = w[j + k]
  BY DEF Same
<1> HIDE DEF S
<1> DEFINE d == i + n
           e == j + n
<1>0. /\ Len(m) \in Nat /\ d \in i..(Len(m) + 1) /\ d - i = n
      /\ Len(w) \in Nat /\ e \in j..(Len(w) + 1) /\ e - j = n
  BY <1>s
<1> HIDE DEF d, e
<1>1. /\ Part(m, i, d) \in Seq(S) /\ Len(Part(m, i, d)) = n
      /\ \A k \in 1..n : Part(m, i, d)[k] = m[i + k - 1]
  <2>1. /\ Part(m, i, d) \in Seq(S) /\ Len(Part(m, i, d)) = d - i
        /\ \A k \in 1..(d - i) : Part(m, i, d)[k] = m[i + k - 1]
    BY <1>s, <1>0, PartIs
  <2> QED BY <1>0, <2>1
<1>2. /\ Part(w, j, e) \in Seq(S) /\ Len(Part(w, j, e)) = n
      /\ \A k \in 1..n : Part(w, j, e)[k] = w[j + k - 1]
  <2>1. /\ Part(w, j, e) \in Seq(S) /\ Len(Part(w, j, e)) = e - j
        /\ \A k \in 1..(e - j) : Part(w, j, e)[k] = w[j + k - 1]
    BY <1>s, <1>0, PartIs
  <2> QED BY <1>0, <2>1
<1>3. \A k \in 1..n : m[i + k - 1] = w[j + k - 1]
  <2> TAKE k \in 1..n
  <2>1. k - 1 \in 0..(n - 1) /\ i + (k - 1) = i + k - 1 /\ j + (k - 1) = j + k - 1
    BY <1>s
  <2> QED BY <1>s, <2>1
<1>4. Part(m, i, d) = Part(w, j, e)
  BY <1>1, <1>2, <1>3, SeqEqual
<1> QED BY <1>4 DEF d, e

-----------------------------------------------------------------------------
(* Texts in memory *)

\* The text s stands at i in m.
Stands(m, i, s) ==
    /\ m \in Seq(AnyChar) /\ s \in Seq(AnyChar)
    /\ i \in 1..(Len(m) + 1) /\ i + Len(s) <= Len(m) + 1
    /\ \A k \in 1..Len(s) : m[i + k - 1] = s[k]

LEMMA PartStands ==
  ASSUME NEW m \in Seq(AnyChar), NEW i \in 1..(Len(m) + 1), NEW j \in i..(Len(m) + 1)
  PROVE  /\ Stands(m, i, Part(m, i, j)) /\ Len(Part(m, i, j)) = j - i
         /\ \A k \in 1..(j - i) : Part(m, i, j)[k] = m[i + k - 1]
<1> DEFINE S == AnyChar
           p == Part(m, i, j)
<1>s. m \in Seq(S) /\ Len(m) \in Nat
  OBVIOUS
<1> HIDE DEF S
<1>1. /\ p \in Seq(S) /\ Len(p) = j - i
      /\ \A k \in 1..(j - i) : p[k] = m[i + k - 1]
  BY <1>s, PartIs
<1> HIDE DEF p
<1>2. i + Len(p) <= Len(m) + 1
  BY <1>s, <1>1
<1>3. Stands(m, i, p)
  BY <1>1, <1>2 DEF Stands, S
<1> QED BY <1>1, <1>3 DEF p

LEMMA StandsSame ==
  ASSUME NEW m, NEW i, NEW w, NEW j, NEW s, Stands(m, i, s), Stands(w, j, s)
  PROVE  Same(m, i, w, j, Len(s))
<1>1. \A k \in 0..(Len(s) - 1) : m[i + k] = w[j + k]
  <2> TAKE k \in 0..(Len(s) - 1)
  <2>1. Len(s) \in Nat /\ i \in Int /\ j \in Int
    BY DEF Stands
  <2>2. k + 1 \in 1..Len(s) /\ i + (k + 1) - 1 = i + k /\ j + (k + 1) - 1 = j + k
    BY <2>1
  <2>3. m[i + (k + 1) - 1] = s[k + 1] /\ w[j + (k + 1) - 1] = s[k + 1]
    BY <2>2 DEF Stands
  <2> QED BY <2>2, <2>3
<1> QED BY <1>1 DEF Same, Stands

LEMMA StandsIsPart ==
  ASSUME NEW m, NEW i, NEW s, Stands(m, i, s)
  PROVE  Part(m, i, i + Len(s)) = s
<1>1. /\ m \in Seq(AnyChar) /\ s \in Seq(AnyChar) /\ Len(s) \in Nat /\ Len(m) \in Nat
      /\ i \in 1..(Len(m) + 1) /\ i + Len(s) <= Len(m) + 1
      /\ \A k \in 1..Len(s) : m[i + k - 1] = s[k]
  BY DEF Stands
<1> DEFINE j == i + Len(s)
<1>2. j \in i..(Len(m) + 1) /\ j - i = Len(s)
  BY <1>1
<1> HIDE DEF j
<1>3. /\ Stands(m, i, Part(m, i, j)) /\ Len(Part(m, i, j)) = j - i
      /\ \A k \in 1..(j - i) : Part(m, i, j)[k] = m[i + k - 1]
  BY <1>1, <1>2, PartStands
<1>4. Part(m, i, j) \in Seq(AnyChar)
  BY <1>3 DEF Stands
<1>5. Part(m, i, j) = s
  BY <1>1, <1>2, <1>3, <1>4, SeqEqual
<1> QED BY <1>5 DEF j

LEMMA StandsParted ==
  ASSUME NEW m, NEW i, NEW s \in Seq(AnyChar), NEW t \in Seq(AnyChar)
  PROVE  /\ Stands(m, i, s \o t) <=> Stands(m, i, s) /\ Stands(m, i + Len(s), t)
         /\ Len(s \o t) = Len(s) + Len(t)
<1>1. /\ s \o t \in Seq(AnyChar) /\ Len(s \o t) = Len(s) + Len(t)
      /\ Len(s) \in Nat /\ Len(t) \in Nat
      /\ \A k \in 1..Len(s) : (s \o t)[k] = s[k]
      /\ \A k \in 1..Len(t) : (s \o t)[Len(s) + k] = t[k]
  <2>1. s \o t \in Seq(AnyChar) /\ Len(s \o t) = Len(s) + Len(t)
    OBVIOUS
  <2>2. \A k \in 1..(Len(s) + Len(t)) :
          (s \o t)[k] = IF k <= Len(s) THEN s[k] ELSE t[k - Len(s)]
    OBVIOUS
  <2>3. Len(s) \in Nat /\ Len(t) \in Nat
    OBVIOUS
  <2>4. \A k \in 1..Len(t) : (s \o t)[Len(s) + k] = t[k]
    <3> TAKE k \in 1..Len(t)
    <3>1. Len(s) + k \in 1..(Len(s) + Len(t)) /\ (Len(s) + k) - Len(s) = k
          /\ ~(Len(s) + k <= Len(s))
      BY <2>3
    <3> QED BY <2>2, <3>1
  <2>5. \A k \in 1..Len(s) : (s \o t)[k] = s[k]
    BY <2>2, <2>3
  <2> QED BY <2>1, <2>3, <2>4, <2>5
<1> DEFINE c == s \o t
           a == Len(s)
           b == Len(t)
<1>d. c = s \o t /\ a = Len(s) /\ b = Len(t)
  OBVIOUS
<1> HIDE DEF c, a, b
<1>2. ASSUME Stands(m, i, c) PROVE Stands(m, i, s) /\ Stands(m, i + a, t)
  <2>1. /\ m \in Seq(AnyChar) /\ Len(m) \in Nat /\ i \in 1..(Len(m) + 1)
        /\ i + (a + b) <= Len(m) + 1 /\ a \in Nat /\ b \in Nat
        /\ \A k \in 1..(a + b) : m[i + k - 1] = c[k]
    BY <1>1, <1>2, <1>d DEF Stands
  <2>2. Stands(m, i, s)
    BY <1>1, <1>d, <2>1 DEF Stands
  <2>3. \A k \in 1..b : m[(i + a) + k - 1] = t[k]
    <3> TAKE k \in 1..b
    <3>1. a + k \in 1..(a + b) /\ i + (a + k) - 1 = (i + a) + k - 1
      BY <2>1
    <3> QED BY <1>1, <1>d, <2>1, <3>1
  <2>4. i + a \in 1..(Len(m) + 1) /\ (i + a) + b <= Len(m) + 1
    BY <2>1
  <2> QED BY <1>d, <2>1, <2>2, <2>3, <2>4 DEF Stands
<1>3. ASSUME Stands(m, i, s), Stands(m, i + a, t) PROVE Stands(m, i, c)
  <2>1. /\ m \in Seq(AnyChar) /\ Len(m) \in Nat /\ i \in 1..(Len(m) + 1)
        /\ (i + a) + b <= Len(m) + 1 /\ a \in Nat /\ b \in Nat
        /\ \A k \in 1..a : m[i + k - 1] = s[k]
        /\ \A k \in 1..b : m[(i + a) + k - 1] = t[k]
    BY <1>1, <1>3, <1>d DEF Stands
  <2>2. \A k \in 1..(a + b) : m[i + k - 1] = c[k]
    <3> TAKE k \in 1..(a + b)
    <3>1. CASE k <= a
      BY <1>1, <1>d, <2>1, <3>1
    <3>2. CASE k > a
      <4>1. k - a \in 1..b /\ (i + a) + (k - a) - 1 = i + k - 1 /\ a + (k - a) = k
        BY <2>1, <3>2
      <4> QED BY <1>1, <1>d, <2>1, <4>1
    <3> QED BY <2>1, <3>1, <3>2
  <2>3. i + (a + b) <= Len(m) + 1
    BY <2>1
  <2> QED BY <1>1, <1>d, <2>1, <2>2, <2>3 DEF Stands
<1> QED BY <1>1, <1>2, <1>3, <1>d

\* One character.
LEMMA StandsOne ==
  ASSUME NEW m \in Seq(AnyChar), NEW i \in Int, NEW c \in AnyChar
  PROVE  /\ Stands(m, i, <<c>>) <=> i \in 1..Len(m) /\ m[i] = c
         /\ <<c>> \in Seq(AnyChar) /\ Len(<<c>>) = 1
<1>1. /\ <<c>> \in Seq(AnyChar) /\ Len(<<c>>) = 1 /\ <<c>>[1] = c
      /\ Len(m) \in Nat
  OBVIOUS
<1> DEFINE s == <<c>>
<1>2. s \in Seq(AnyChar) /\ Len(s) = 1 /\ s[1] = c /\ Len(m) \in Nat
  BY <1>1
<1> HIDE DEF s
<1>3. (\A k \in 1..Len(s) : m[i + k - 1] = s[k]) <=> m[i] = c
  <2>1. 1..1 = {1} /\ i + 1 - 1 = i
    OBVIOUS
  <2> QED BY <1>2, <2>1
<1>4. i \in 1..(Len(m) + 1) /\ i + Len(s) <= Len(m) + 1 <=> i \in 1..Len(m)
  BY <1>2
<1>5. Stands(m, i, s) <=> i \in 1..Len(m) /\ m[i] = c
  BY <1>2, <1>3, <1>4 DEF Stands
<1> QED BY <1>1, <1>5 DEF s

\* Of two texts at the beginning the shorter begins the other.
LEMMA StandsPrefix ==
  ASSUME NEW m, NEW s, NEW t, Stands(m, 1, s), Stands(m, 1, t), Len(s) <= Len(t)
  PROVE  IsPrefix(s, t)
<1> DEFINE a == Len(s)
           b == Len(t)
<1>1. s \in Seq(AnyChar) /\ t \in Seq(AnyChar)
  BY DEF Stands
<1>2. a \in Nat /\ b \in Nat /\ a <= b
  BY <1>1
<1>3. Part(m, 1, 1 + a) = s
  BY StandsIsPart
<1>4. \A k \in 1..a : m[1 + k - 1] = s[k]
  BY DEF Stands
<1>5. \A k \in 1..b : m[1 + k - 1] = t[k]
  BY DEF Stands
<1> HIDE DEF a, b
<1>6. 1 \in 1..(b + 1) /\ a + 1 \in 1..(b + 1) /\ (a + 1) - 1 = a
  BY <1>2
<1> DEFINE q == Part(t, 1, a + 1)
<1>7. Stands(t, 1, q) /\ Len(q) = a /\ \A k \in 1..a : q[k] = t[1 + k - 1]
  <2> DEFINE j == a + 1
  <2>1. 1 \in 1..(Len(t) + 1) /\ j \in 1..(Len(t) + 1) /\ j - 1 = a
    BY <1>6 DEF b
  <2> HIDE DEF j
  <2>2. /\ Stands(t, 1, Part(t, 1, j)) /\ Len(Part(t, 1, j)) = j - 1
        /\ \A k \in 1..(j - 1) : Part(t, 1, j)[k] = t[1 + k - 1]
    BY <1>1, <2>1, PartStands
  <2> QED BY <2>1, <2>2 DEF j
<1>8. q \in Seq(AnyChar)
  BY <1>7 DEF Stands
<1> HIDE DEF q
<1>9. \A k \in 1..a : q[k] = s[k]
  <2> TAKE k \in 1..a
  <2>1. k \in 1..b /\ 1 + k - 1 = k
    BY <1>2
  <2> QED BY <1>4, <1>5, <1>7, <2>1
<1>10. q = s
  BY <1>1, <1>7, <1>8, <1>9, SeqEqual DEF a
<1>11. SubSeq(t, 1, a) = s
  BY <1>6, <1>10 DEF Part, q
<1>12. SubSeq(s, 1, a) = s
  BY <1>1, SubSeqFull DEF a
<1> QED BY <1>2, <1>11, <1>12 DEF IsPrefix, a, b

\* What is cut out of a text stands where it was.
IsSub(s, x, y, q) ==
    /\ x \in Int /\ y \in Int /\ 1 <= x /\ x <= y + 1 /\ y <= Len(s)
    /\ q = SubSeq(s, x, y)

LEMMA SubStands ==
  ASSUME NEW m, NEW b, NEW s, Stands(m, b, s), NEW x, NEW y, NEW q, IsSub(s, x, y, q)
  PROVE  /\ Stands(m, b + x - 1, q) /\ Len(q) = y + 1 - x
         /\ \A k \in 1..Len(q) : q[k] = s[x + k - 1]
<1> DEFINE a == Len(s)
           d == Len(m)
           n == Len(q)
           z == y + 1
<1>1. /\ m \in Seq(AnyChar) /\ s \in Seq(AnyChar) /\ b \in 1..(d + 1) /\ b + a <= d + 1
      /\ \A k \in 1..a : m[b + k - 1] = s[k]
  BY DEF Stands
<1>2. a \in Nat /\ d \in Nat
  BY <1>1
<1>3. y <= a /\ x \in Int /\ y \in Int /\ 1 <= x /\ x <= y + 1 /\ q = SubSeq(s, x, y)
  BY DEF IsSub
<1> HIDE DEF a, d, n
<1>4. b \in Int /\ 1 <= b
  BY <1>1, <1>2
<1>5. x \in 1..(a + 1) /\ z \in x..(a + 1) /\ z - 1 = y
  BY <1>2, <1>3
<1> HIDE DEF z
<1>6. q = Part(s, x, z)
  BY <1>3, <1>5 DEF Part
<1>7. /\ Stands(s, x, q) /\ n = z - x
      /\ \A k \in 1..(z - x) : q[k] = s[x + k - 1]
  <2>1. x \in 1..(Len(s) + 1) /\ z \in x..(Len(s) + 1)
    BY <1>5 DEF a
  <2>2. /\ Stands(s, x, Part(s, x, z)) /\ Len(Part(s, x, z)) = z - x
        /\ \A k \in 1..(z - x) : Part(s, x, z)[k] = s[x + k - 1]
    BY <1>1, <2>1, PartStands
  <2> QED BY <1>6, <2>2 DEF n
<1>8. q \in Seq(AnyChar) /\ n \in Nat /\ n = y + 1 - x
  <2>1. q \in Seq(AnyChar)
    BY <1>7 DEF Stands
  <2>2. n \in Nat
    BY <2>1 DEF n
  <2> QED BY <1>3, <1>7, <2>1, <2>2 DEF z
<1>9. \A k \in 1..n : m[(b + x - 1) + k - 1] = q[k]
  <2> TAKE k \in 1..n
  <2>1. x + k - 1 \in 1..a /\ b + (x + k - 1) - 1 = (b + x - 1) + k - 1
    BY <1>2, <1>3, <1>4, <1>8
  <2>2. m[b + (x + k - 1) - 1] = s[x + k - 1]
    BY <1>1, <2>1
  <2>3. k \in 1..(z - x)
    BY <1>7
  <2> QED BY <1>7, <2>1, <2>2, <2>3
<1>10. b + x - 1 \in 1..(d + 1) /\ (b + x - 1) + n <= d + 1
  BY <1>1, <1>2, <1>3, <1>4, <1>8
<1>11. Stands(m, b + x - 1, q)
  BY <1>1, <1>8, <1>9, <1>10 DEF Stands, n, d
<1> QED BY <1>7, <1>8, <1>11 DEF n

LEMMA MemoryIs ==
  ASSUME NEW s \in Seq(AnyChar), NEW t \in Seq(AnyChar)
  PROVE  LET m == Text(s) \o t
         IN  /\ m \in Seq(AnyChar) /\ Len(m) = Len(s) + 1 + Len(t)
             /\ Stands(m, 1, s) /\ Stands(m, Len(s) + 1, <<NUL>>)
             /\ m[Len(s) + 1] = NUL
             /\ Len(t) >= 1 => m[Len(m)] = t[Len(t)]
<1> DEFINE m == Text(s) \o t
           e == <<NUL>>
<1>1. e \in Seq(AnyChar) /\ Len(e) = 1 /\ NUL \in AnyChar
  BY DEF AnyChar
<1>2. Text(s) = s \o e
  BY DEF Text
<1>3. Text(s) \in Seq(AnyChar) /\ Len(Text(s)) = Len(s) + 1 /\ Len(s) \in Nat /\ Len(t) \in Nat
  <2>1. Len(s) \in Nat /\ Len(t) \in Nat
    OBVIOUS
  <2> HIDE DEF e
  <2>2. e \in Seq(AnyChar)
    BY <1>1
  <2>3. s \o e \in Seq(AnyChar) /\ Len(s \o e) = Len(s) + Len(e)
    BY <2>2
  <2> QED BY <1>1, <1>2, <2>1, <2>3
<1>4. m \in Seq(AnyChar) /\ Len(m) = Len(Text(s)) + Len(t)
  BY <1>3
<1>5. Stands(m, 1, m)
  <2> HIDE DEF m
  <2>1. \A k \in 1..Len(m) : m[1 + k - 1] = m[k]
    <3> TAKE k \in 1..Len(m)
    <3>1. 1 + k - 1 = k
      BY <1>4
    <3> QED BY <3>1
  <2>2. 1 \in 1..(Len(m) + 1) /\ 1 + Len(m) <= Len(m) + 1
    BY <1>4
  <2> QED BY <1>4, <2>1, <2>2 DEF Stands
<1>6. Stands(m, 1, Text(s)) /\ Stands(m, 1 + Len(Text(s)), t)
  BY <1>3, <1>5, StandsParted
<1> HIDE DEF m, e
<1>7. Stands(m, 1, s) /\ Stands(m, 1 + Len(s), e)
  BY <1>1, <1>2, <1>6, StandsParted
<1>8. 1 + Len(s) = Len(s) + 1 /\ Len(s) + 1 \in Int
  BY <1>3
<1>9. Stands(m, Len(s) + 1, e)
  BY <1>7, <1>8
<1>10. m[Len(s) + 1] = NUL
  BY <1>1, <1>4, <1>8, <1>9, StandsOne DEF e
<1>11. ASSUME Len(t) >= 1 PROVE m[Len(m)] = t[Len(t)]
  <2>1. m[(1 + Len(Text(s))) + Len(t) - 1] = t[Len(t)]
    BY <1>3, <1>6, <1>11 DEF Stands
  <2>2. (1 + Len(Text(s))) + Len(t) - 1 = Len(m)
    BY <1>3, <1>4
  <2> QED BY <2>1, <2>2
<1>12. Len(m) = Len(s) + 1 + Len(t)
  BY <1>3, <1>4
<1> QED BY <1>4, <1>7, <1>9, <1>10, <1>11, <1>12 DEF m, e

LEMMA MemoryReadable ==
  ASSUME NEW s \in Seq(AnyChar), tail \in AfterEnd
  PROVE  /\ Readable(Memory(s)) /\ Stands(Memory(s), 1, s)
         /\ Len(s) + 1 \in 1..Len(Memory(s)) /\ Memory(s)[Len(s) + 1] = NUL
<1>1. tail \in Seq(AnyChar) /\ Len(tail) >= 1 /\ tail[Len(tail)] \in {" ", NUL}
  BY StringAssumption DEF AnyChar
<1> DEFINE t == tail
<1>2. t \in Seq(AnyChar)
  BY <1>1
<1>3. Len(t) \in Nat /\ Len(s) \in Nat
  <2> HIDE DEF t
  <2>1. Len(t) \in Nat
    BY <1>2
  <2> QED BY <2>1
<1> DEFINE m == Text(s) \o tail
<1>4. /\ m \in Seq(AnyChar) /\ Len(m) = Len(s) + 1 + Len(tail) /\ Stands(m, 1, s)
      /\ m[Len(s) + 1] = NUL /\ m[Len(m)] = tail[Len(tail)]
  BY <1>1, MemoryIs
<1> HIDE DEF m
<1>5. Len(m) >= 1 /\ Len(s) + 1 \in 1..Len(m)
  <2> DEFINE a == Len(tail)
             b == Len(s)
             d == Len(m)
  <2>1. a \in Nat /\ b \in Nat /\ a >= 1 /\ d = b + 1 + a
    BY <1>1, <1>3, <1>4
  <2> HIDE DEF a, b, d
  <2>2. d >= 1 /\ b + 1 \in 1..d
    BY <2>1
  <2> QED BY <2>2 DEF b, d
<1>6. Memory(s) = m
  BY DEF Memory, m
<1> QED BY <1>1, <1>4, <1>5, <1>6 DEF Readable

LEMMA TextReadable ==
  ASSUME NEW s \in Seq(AnyChar)
  PROVE  /\ Readable(Text(s)) /\ Stands(Text(s), 1, s)
         /\ Len(Text(s)) = Len(s) + 1 /\ Text(s)[Len(s) + 1] = NUL
<1> DEFINE t == <<>>
           m == Text(s) \o t
<1>1. t \in Seq(AnyChar) /\ Len(t) = 0 /\ Len(s) \in Nat
  OBVIOUS
<1>2. Text(s) \in Seq(AnyChar)
  BY DEF Text, AnyChar
<1>3. m = Text(s)
  BY <1>2, ConcatEmptySeq
<1> HIDE DEF t
<1>4. /\ m \in Seq(AnyChar) /\ Len(m) = Len(s) + 1 + Len(t) /\ Stands(m, 1, s)
      /\ m[Len(s) + 1] = NUL
  BY <1>1, MemoryIs
<1> HIDE DEF m
<1>5. Len(m) = Len(s) + 1 /\ Len(m) >= 1
  BY <1>1, <1>4
<1> QED BY <1>3, <1>4, <1>5 DEF Readable

-----------------------------------------------------------------------------
(* IPv4 addresses *)

IPv4Char == Digit \union {"."}
Run(m, i) == Skip(m, i, IPv4Char)
Dots(m, i) == {k \in i..(Run(m, i) - 1) : At(m, k) = "."}
Begin(m, i, k) == 1 + Max({i - 1} \union {d \in Dots(m, i) : d < k})
Block(m, i, k) == Part(m, Begin(m, i, k), k)
IsIPv4(m, i) ==
    /\ Cardinality(Dots(m, i)) = 3
    /\ \A k \in Dots(m, i) :
          Len(Block(m, i, k)) \in 1..3 /\ Decimal(Block(m, i, k)) <= 255

LEMMA IPv4Is ==
  ASSUME NEW m, NEW i
  PROVE  ParseIPv4(m, i) =
           IF IsIPv4(m, i) THEN Parsed(Part(m, i, Run(m, i)), Run(m, i)) ELSE Fail
BY DEF ParseIPv4, IsIPv4, Block, Begin, Dots, Run, IPv4Char

\* The run of digits and dots at i in m is the one at j in w.
SameRun(m, i, w, j, n) ==
    /\ m \in Seq(AnyChar) /\ i \in 1..Len(m) /\ i + n <= Len(m)
    /\ w \in Seq(AnyChar) /\ j \in 1..Len(w) /\ j + n <= Len(w)
    /\ \A k \in 0..(n - 1) : m[i + k] = w[j + k] /\ m[i + k] \in IPv4Char
    /\ m[i + n] \notin IPv4Char /\ w[j + n] \notin IPv4Char

LEMMA RunIs ==
  ASSUME NEW m, NEW i, NEW w, NEW j, NEW n \in Nat, SameRun(m, i, w, j, n)
  PROVE  /\ Run(m, i) = i + n
         /\ Dots(m, i) = {k \in i..(i + n - 1) : m[k] = "."}
<1>1. m \in Seq(AnyChar) /\ i \in 1..Len(m) /\ i + n <= Len(m) /\ Len(m) \in Nat
  BY DEF SameRun
<1>2. \A k \in i..(i + n - 1) : At(m, k) = m[k] /\ m[k] \in IPv4Char
  <2> TAKE k \in i..(i + n - 1)
  <2>1. k - i \in 0..(n - 1) /\ i + (k - i) = k /\ k \in 1..Len(m)
    BY <1>1
  <2>2. m[i + (k - i)] \in IPv4Char
    BY <2>1 DEF SameRun
  <2> QED BY <1>1, <2>1, <2>2, AtIs
<1>3. At(m, i + n) \notin IPv4Char /\ i + n \in i..Len(m)
  BY <1>1, AtIs DEF SameRun
<1>4. Run(m, i) = i + n
  BY <1>1, <1>2, <1>3, SkipIs DEF Run
<1>5. Dots(m, i) = {k \in i..(i + n - 1) : At(m, k) = "."}
  BY <1>1, <1>4 DEF Dots
<1> QED BY <1>2, <1>4, <1>5

LEMMA IPv4Moves ==
  ASSUME NEW m, NEW i, NEW w, NEW j, NEW n \in Nat, SameRun(m, i, w, j, n),
         IsIPv4(m, i)
  PROVE  IsIPv4(w, j)
<1>1. /\ m \in Seq(AnyChar) /\ i \in 1..Len(m) /\ i + n <= Len(m) /\ Len(m) \in Nat
      /\ w \in Seq(AnyChar) /\ j \in 1..Len(w) /\ j + n <= Len(w) /\ Len(w) \in Nat
  BY DEF SameRun
<1>2. SameRun(w, j, m, i, n)
  BY DEF SameRun
<1>3. /\ Dots(m, i) = {k \in i..(i + n - 1) : m[k] = "."}
      /\ Dots(w, j) = {k \in j..(j + n - 1) : w[k] = "."}
  BY <1>2, RunIs
<1>4. \A k \in i..(i + n - 1) : m[k] = w[k + (j - i)]
  <2> TAKE k \in i..(i + n - 1)
  <2>1. k - i \in 0..(n - 1) /\ i + (k - i) = k /\ j + (k - i) = k + (j - i)
    BY <1>1
  <2> QED BY <2>1 DEF SameRun
<1>5. \A k \in Int : k \in Dots(m, i) <=> k + (j - i) \in Dots(w, j)
  BY <1>1, <1>3, <1>4
<1>6. Dots(m, i) \in SUBSET (i..(i + n - 1)) /\ Dots(w, j) \in SUBSET (j..(j + n - 1))
  BY <1>3
<1>7. Cardinality(Dots(w, j)) = Cardinality(Dots(m, i))
  <2>1. i \in Int /\ i + n - 1 \in Int /\ j - i \in Int /\ Dots(w, j) \in SUBSET Int
    BY <1>1, <1>6
  <2>2. IsMoved(Dots(m, i), i, i + n - 1, Dots(w, j), j - i)
    BY <1>5, <1>6, <2>1 DEF IsMoved
  <2> QED BY <2>2, MovedSet
<1>8. ASSUME NEW k \in Dots(m, i)
      PROVE  Block(w, j, k + (j - i)) = Block(m, i, k)
  <2> DEFINE T == {i - 1} \union {d \in Dots(m, i) : d < k}
             U == {j - 1} \union {d \in Dots(w, j) : d < k + (j - i)}
  <2>1. k \in Int /\ T \in SUBSET ((i - 1)..(k - 1)) /\ U \in SUBSET Int /\ i - 1 \in T
    BY <1>1, <1>6
  <2>2. \A t \in Int : t \in T <=> t + (j - i) \in U
    <3> TAKE t \in Int
    <3>1. t = i - 1 <=> t + (j - i) = j - 1
      BY <1>1
    <3>2. t < k <=> t + (j - i) < k + (j - i)
      BY <1>1, <2>1
    <3> QED BY <1>5, <3>1, <3>2
  <2>3. Begin(m, i, k) = 1 + Max(T) /\ Begin(w, j, k + (j - i)) = 1 + Max(U)
    BY DEF Begin
  <2> HIDE DEF T, U
  <2>4. Max(T) \in T /\ \A t \in T : t <= Max(T)
    <3>1. i - 1 \in Int /\ k - 1 \in Int /\ T # {}
      BY <1>1, <2>1
    <3> QED BY <2>1, <3>1, GreatestOf
  <2>5. Max(U) = Max(T) + (j - i)
    <3>1. Max(T) \in Int /\ Max(T) + (j - i) \in U
      <4>1. Max(T) \in Int
        <5>1. Max(T) \in (i - 1)..(k - 1)
          BY <2>1, <2>4
        <5> QED BY <5>1
      <4> QED BY <2>2, <2>4, <4>1
    <3>2. \A u \in U : u <= Max(T) + (j - i)
      <4> TAKE u \in U
      <4>1. u \in Int /\ u - (j - i) \in Int /\ (u - (j - i)) + (j - i) = u
        BY <1>1, <2>1
      <4>2. u - (j - i) <= Max(T)
        BY <2>2, <2>4, <4>1
      <4> QED BY <1>1, <3>1, <4>1, <4>2
    <3> QED BY <2>1, <3>1, <3>2, IsGreatest
  <2> DEFINE b == 1 + Max(T)
             c == 1 + Max(U)
             l == k - b
  <2>6. /\ b \in i..k /\ k \in i..(i + n - 1) /\ l \in Nat /\ b + l = k
        /\ c = b + (j - i) /\ c + l = k + (j - i)
    <3>1. k \in i..(i + n - 1) /\ i \in Int /\ j \in Int
      BY <1>1, <1>6
    <3>2. Max(T) \in (i - 1)..(k - 1)
      BY <2>1, <2>4
    <3> DEFINE t == Max(T)
    <3> HIDE DEF t
    <3>3. t \in (i - 1)..(k - 1) /\ Max(U) = t + (j - i) /\ b = 1 + t /\ c = 1 + Max(U)
      BY <2>5, <3>2 DEF t
    <3> HIDE DEF b, c
    <3>4. k \in Int /\ t \in Int
      BY <3>1, <3>3
    <3>5. b \in i..k /\ c = b + (j - i) /\ b \in Int
      BY <3>1, <3>3, <3>4
    <3> QED BY <3>1, <3>4, <3>5
  <2> HIDE DEF b, c, l
  <2>7. \A x \in 0..(l - 1) : m[b + x] = w[c + x]
    <3> TAKE x \in 0..(l - 1)
    <3>1. b + x \in i..(i + n - 1) /\ c + x = (b + x) + (j - i)
      BY <1>1, <2>6
    <3> QED BY <1>4, <3>1
  <2>8. /\ b \in 1..(Len(m) + 1) /\ b + l <= Len(m) + 1
        /\ c \in 1..(Len(w) + 1) /\ c + l <= Len(w) + 1
    BY <1>1, <2>6
  <2>9. Part(m, b, b + l) = Part(w, c, c + l)
    <3>1. Same(m, b, w, c, l)
      BY <1>1, <2>6, <2>7, <2>8 DEF Same
    <3> QED BY <2>6, <3>1, PartMoves
  <2> QED BY <2>3, <2>6, <2>9 DEF Block, b, c
<1>9. ASSUME NEW k \in Dots(w, j)
      PROVE  Len(Block(w, j, k)) \in 1..3 /\ Decimal(Block(w, j, k)) <= 255
  <2>1. k \in Int /\ k - (j - i) \in Int /\ (k - (j - i)) + (j - i) = k
    BY <1>1, <1>6
  <2>2. k - (j - i) \in Dots(m, i)
    BY <1>5, <2>1
  <2> QED BY <1>8, <2>1, <2>2 DEF IsIPv4
<1> QED BY <1>7, <1>9 DEF IsIPv4

LEMMA IPv4Ends ==
  ASSUME NEW m \in Seq(AnyChar), NEW i \in Int, NEW e \in i..Len(m),
         At(m, e) \notin IPv4Char
  PROVE  /\ Run(m, i) \in i..e /\ At(m, Run(m, i)) \notin IPv4Char
         /\ \A k \in i..(Run(m, i) - 1) : At(m, k) \in IPv4Char
         /\ IsIPv4(m, i) => i >= 1 /\ Run(m, i) > i
<1>1. /\ Run(m, i) \in i..e /\ At(m, Run(m, i)) \notin IPv4Char
      /\ \A k \in i..(Run(m, i) - 1) : At(m, k) \in IPv4Char
  BY SkipStops DEF Run
<1>2. ASSUME IsIPv4(m, i) PROVE i >= 1 /\ Run(m, i) > i
  <2>1. Dots(m, i) # {}
    <3>1. Cardinality({}) = 0
      BY FS_EmptySet
    <3>2. Cardinality(Dots(m, i)) = 3
      BY <1>2 DEF IsIPv4
    <3>3. Dots(m, i) = {} => Cardinality(Dots(m, i)) = Cardinality({})
      BY Zenon
    <3> QED BY <3>1, <3>2, <3>3
  <2>2. e \in Int /\ Run(m, i) \in Int
    BY <1>1
  <2>3. PICK k \in i..(Run(m, i) - 1) : TRUE
    BY <2>1 DEF Dots
  <2>4. i \in i..(Run(m, i) - 1)
    BY <2>2, <2>3
  <2>5. At(m, i) # "unknown"
    BY <1>1, <2>4, Delimiters DEF IPv4Char
  <2>6. i \in 1..Len(m)
    BY <2>5, AtIs
  <2> QED BY <2>2, <2>4, <2>6
<1> QED BY <1>1, <1>2

-----------------------------------------------------------------------------
(* IPv6 addresses *)

LEMMA LoopIs ==
  ASSUME NEW m, NEW n \in Nat, NEW st \in IPv6State
  PROVE  IPv6Loop(m)[n][st] =
           IPv6Read(m, st, IF n = 0 THEN [t \in IPv6State |-> Endless]
                                    ELSE IPv6Loop(m)[n - 1])
<1>1. IPv6Loop(m)[n] =
        [s \in IPv6State |->
           IPv6Read(m, s, IF n = 0 THEN [t \in IPv6State |-> Endless]
                                   ELSE IPv6Loop(m)[n - 1])]
  BY LoopUnfolds
<1> QED BY <1>1

OneOn(st) ==
    [at |-> st.at + 1, filled |-> st.filled, digit |-> st.digit + 1, digits |-> st.digits]
Filled(st) ==
    [at |-> st.at + 2, filled |-> TRUE, digit |-> 0, digits |-> st.digits]
Colon(st) ==
    [at |-> st.at + 1, filled |-> st.filled, digit |-> 0, digits |-> st.digits + 1]
Moved(st, d) ==
    [at |-> st.at + d, filled |-> st.filled, digit |-> st.digit, digits |-> st.digits]

LEMMA StatesAre ==
  ASSUME NEW st \in IPv6State
  PROVE  /\ [st EXCEPT !.at = @ + 1, !.digit = @ + 1] = OneOn(st)
         /\ [st EXCEPT !.at = @ + 2, !.filled = TRUE, !.digit = 0] = Filled(st)
         /\ [st EXCEPT !.at = @ + 1, !.digit = 0, !.digits = @ + 1] = Colon(st)
         /\ ReadAgain(st) = Moved(st, -st.digit)
<1> DEFINE a == st.at
           f == st.filled
           g == st.digit
           h == st.digits
           y == TRUE
           r == [at |-> a, filled |-> f, digit |-> g, digits |-> h]
<1>1. st = r
  BY DEF IPv6State
<1>2. a \in Int /\ g \in Nat /\ h \in Nat /\ f \in BOOLEAN
  BY DEF IPv6State
<1> HIDE DEF a, f, g, h, y
<1>3. [r EXCEPT !.at = @ + 1, !.digit = @ + 1]
        = [at |-> a + 1, filled |-> f, digit |-> g + 1, digits |-> h]
  <2>1. [r EXCEPT !.at = @ + 1, !.digit = @ + 1]
          = [[r EXCEPT !.at = @ + 1] EXCEPT !.digit = @ + 1]
    OBVIOUS
  <2>2. [r EXCEPT !.at = @ + 1]
          = [at |-> a + 1, filled |-> f, digit |-> g, digits |-> h]
    OBVIOUS
  <2>3. [[at |-> a + 1, filled |-> f, digit |-> g, digits |-> h] EXCEPT !.digit = @ + 1]
          = [at |-> a + 1, filled |-> f, digit |-> g + 1, digits |-> h]
    OBVIOUS
  <2> HIDE DEF r
  <2> QED BY <2>1, <2>2, <2>3
<1>4. [r EXCEPT !.at = @ + 2, !.filled = y, !.digit = 0]
        = [at |-> a + 2, filled |-> y, digit |-> 0, digits |-> h]
  <2>1. [r EXCEPT !.at = @ + 2, !.filled = y, !.digit = 0]
          = [[[r EXCEPT !.at = @ + 2] EXCEPT !.filled = y] EXCEPT !.digit = 0]
    OBVIOUS
  <2>2. [r EXCEPT !.at = @ + 2]
          = [at |-> a + 2, filled |-> f, digit |-> g, digits |-> h]
    OBVIOUS
  <2>3. [[at |-> a + 2, filled |-> f, digit |-> g, digits |-> h] EXCEPT !.filled = y]
          = [at |-> a + 2, filled |-> y, digit |-> g, digits |-> h]
    OBVIOUS
  <2>4. [[at |-> a + 2, filled |-> y, digit |-> g, digits |-> h] EXCEPT !.digit = 0]
          = [at |-> a + 2, filled |-> y, digit |-> 0, digits |-> h]
    OBVIOUS
  <2> HIDE DEF r
  <2> QED BY <2>1, <2>2, <2>3, <2>4
<1>5. [r EXCEPT !.at = @ + 1, !.digit = 0, !.digits = @ + 1]
        = [at |-> a + 1, filled |-> f, digit |-> 0, digits |-> h + 1]
  <2>1. [r EXCEPT !.at = @ + 1, !.digit = 0, !.digits = @ + 1]
          = [[[r EXCEPT !.at = @ + 1] EXCEPT !.digit = 0] EXCEPT !.digits = @ + 1]
    OBVIOUS
  <2>2. [r EXCEPT !.at = @ + 1]
          = [at |-> a + 1, filled |-> f, digit |-> g, digits |-> h]
    OBVIOUS
  <2>3. [[at |-> a + 1, filled |-> f, digit |-> g, digits |-> h] EXCEPT !.digit = 0]
          = [at |-> a + 1, filled |-> f, digit |-> 0, digits |-> h]
    OBVIOUS
  <2>4. [[at |-> a + 1, filled |-> f, digit |-> 0, digits |-> h] EXCEPT !.digits = @ + 1]
          = [at |-> a + 1, filled |-> f, digit |-> 0, digits |-> h + 1]
    OBVIOUS
  <2> HIDE DEF r
  <2> QED BY <2>1, <2>2, <2>3, <2>4
<1>6. [r EXCEPT !.at = @ - g] = [at |-> a - g, filled |-> f, digit |-> g, digits |-> h]
  OBVIOUS
<1>7. a - g = a + (-g)
  BY <1>2
<1> HIDE DEF r
<1>8. [st EXCEPT !.at = @ + 1, !.digit = @ + 1] = OneOn(st)
  BY <1>1, <1>3 DEF OneOn, a, f, g, h
<1>9. [st EXCEPT !.at = @ + 2, !.filled = TRUE, !.digit = 0] = Filled(st)
  BY <1>1, <1>4 DEF Filled, a, f, g, h, y
<1>10. [st EXCEPT !.at = @ + 1, !.digit = 0, !.digits = @ + 1] = Colon(st)
  BY <1>1, <1>5 DEF Colon, a, f, g, h
<1>11. ReadAgain(st) = Moved(st, -st.digit)
  BY <1>1, <1>6, <1>7 DEF ReadAgain, Moved, a, f, g, h
<1> QED BY <1>8, <1>9, <1>10, <1>11

LEMMA NextStates ==
  ASSUME NEW st \in IPv6State
  PROVE  /\ OneOn(st) \in IPv6State /\ OneOn(st).at = st.at + 1
         /\ Filled(st) \in IPv6State /\ Filled(st).at = st.at + 2
         /\ Colon(st) \in IPv6State /\ Colon(st).at = st.at + 1
         /\ ReadAgain(st) \in IPv6State /\ ReadAgain(st).at = st.at - st.digit
         /\ st.at \in Int /\ st.digit \in Nat /\ st.digits \in Nat /\ st.filled \in BOOLEAN
<1>1. st.at \in Int /\ st.digit \in Nat /\ st.digits \in Nat /\ st.filled \in BOOLEAN
  BY DEF IPv6State
<1>2. OneOn(st) \in IPv6State /\ OneOn(st).at = st.at + 1
  BY <1>1 DEF IPv6State, OneOn
<1>3. Filled(st) \in IPv6State /\ Filled(st).at = st.at + 2
  BY <1>1 DEF IPv6State, Filled
<1>4. Colon(st) \in IPv6State /\ Colon(st).at = st.at + 1
  BY <1>1 DEF IPv6State, Colon
<1>5. ReadAgain(st) \in IPv6State /\ ReadAgain(st).at = st.at - st.digit
  BY DEF IPv6State, ReadAgain
<1> QED BY <1>1, <1>2, <1>3, <1>4, <1>5

LEMMA MovedStates ==
  ASSUME NEW st \in IPv6State, NEW d \in Int
  PROVE  /\ Moved(st, d) \in IPv6State /\ Moved(st, d).at = st.at + d
         /\ Moved(st, d).filled = st.filled /\ Moved(st, d).digit = st.digit
         /\ Moved(st, d).digits = st.digits
         /\ OneOn(Moved(st, d)) = Moved(OneOn(st), d)
         /\ Filled(Moved(st, d)) = Moved(Filled(st), d)
         /\ Colon(Moved(st, d)) = Moved(Colon(st), d)
         /\ ReadAgain(Moved(st, d)) = Moved(ReadAgain(st), d)
<1>1. st.at \in Int /\ st.digit \in Nat /\ st.digits \in Nat /\ st.filled \in BOOLEAN
  BY DEF IPv6State
<1>2. Moved(st, d) \in IPv6State
  BY <1>1 DEF IPv6State, Moved
<1>3. /\ (st.at + d) + 1 = (st.at + 1) + d /\ (st.at + d) + 2 = (st.at + 2) + d
      /\ (st.at + d) + (-st.digit) = (st.at + (-st.digit)) + d
  BY <1>1
<1>4. OneOn(Moved(st, d)) = Moved(OneOn(st), d)
  BY <1>3 DEF OneOn, Moved
<1>5. Filled(Moved(st, d)) = Moved(Filled(st), d)
  BY <1>3 DEF Filled, Moved
<1>6. Colon(Moved(st, d)) = Moved(Colon(st), d)
  BY <1>3 DEF Colon, Moved
<1>7. ReadAgain(Moved(st, d)) = Moved(ReadAgain(st), d)
  <2>1. /\ ReadAgain(st) = Moved(st, -st.digit)
        /\ ReadAgain(Moved(st, d)) = Moved(Moved(st, d), -Moved(st, d).digit)
    BY <1>2, StatesAre
  <2>2. Moved(Moved(st, d), -st.digit) = Moved(Moved(st, -st.digit), d)
    BY <1>3 DEF Moved
  <2>3. Moved(st, d).digit = st.digit
    BY DEF Moved
  <2> QED BY <2>1, <2>2, <2>3
<1> QED BY <1>2, <1>4, <1>5, <1>6, <1>7 DEF Moved

LEMMA ReadIs ==
  ASSUME NEW m, NEW st \in IPv6State, NEW rest
  PROVE  LET c == At(m, st.at)
             r == IPv6Read(m, st, rest)
             start == st.at - st.digit
         IN  \/ /\ c \notin IPv6Char \/ st.digits >= 8
                /\ r = IF st.at < 1 THEN 0 ELSE st.at + 1
             \/ /\ c \in IPv6Char /\ st.digits < 8 /\ c # ":" /\ c # "."
                /\ r = rest[OneOn(st)]
             \/ /\ c = ":" /\ st.digits < 8 /\ At(m, st.at + 1) = ":"
                /\ r = IF st.filled THEN 0 ELSE rest[Filled(st)]
             \/ /\ c = ":" /\ st.digits < 8 /\ At(m, st.at + 1) # ":"
                /\ r = IF st.digit \notin 1..4 THEN 0 ELSE rest[Colon(st)]
             \/ /\ c = "." /\ st.digits < 8
                /\ r = IF IsIPv4(m, start) THEN Run(m, start) + 1 ELSE rest[ReadAgain(st)]
<1> DEFINE c == At(m, st.at)
           start == st.at - st.digit
           D == Digit \union HexLetter
<1>1. D \intersect {":", "."} = {} /\ IPv6Char = D \union {":", "."}
  BY DigitsAre DEF HexLetter, IPv6Char
<1>2. st.digits \in Nat
  BY DEF IPv6State
<1>3. ParseIPv4(m, start) = IF IsIPv4(m, start)
        THEN Parsed(Part(m, start, Run(m, start)), Run(m, start)) ELSE Fail
  BY IPv4Is
<1>4. /\ IsIPv4(m, start) => ParseIPv4(m, start).ok /\ ParseIPv4(m, start).next = Run(m, start)
      /\ ~IsIPv4(m, start) => ~ParseIPv4(m, start).ok
  BY <1>3 DEF Parsed, Fail
<1> HIDE DEF D
<1>5. IPv6Read(m, st, rest) =
        CASE c \notin IPv6Char \/ st.digits >= 8 -> IF st.at < 1 THEN 0 ELSE st.at + 1
          [] c \in D /\ st.digits < 8 -> rest[OneOn(st)]
          [] c = ":" /\ st.digits < 8 /\ At(m, st.at + 1) = ":" ->
                IF st.filled THEN 0 ELSE rest[Filled(st)]
          [] c = ":" /\ st.digits < 8 /\ At(m, st.at + 1) # ":" ->
                IF st.digit \notin 1..4 THEN 0 ELSE rest[Colon(st)]
          [] c = "." /\ st.digits < 8 ->
                IF ParseIPv4(m, start).ok THEN ParseIPv4(m, start).next + 1
                                          ELSE rest[ReadAgain(st)]
  BY StatesAre DEF IPv6Read, D
<1> HIDE DEF c, start
<1> DEFINE r == IPv6Read(m, st, rest)
<1>6. CASE c \notin IPv6Char \/ st.digits >= 8
  <2>1. r = IF st.at < 1 THEN 0 ELSE st.at + 1
    BY <1>1, <1>2, <1>5, <1>6
  <2> QED BY <1>6, <2>1 DEF c
<1>7. CASE c \in D /\ st.digits < 8
  <2>1. r = rest[OneOn(st)] /\ c \in IPv6Char /\ c # ":" /\ c # "."
    BY <1>1, <1>2, <1>5, <1>7
  <2> QED BY <1>7, <2>1 DEF c
<1>8. CASE c = ":" /\ st.digits < 8 /\ At(m, st.at + 1) = ":"
  <2>1. r = IF st.filled THEN 0 ELSE rest[Filled(st)]
    BY <1>1, <1>2, <1>5, <1>8
  <2> QED BY <1>8, <2>1 DEF c
<1>9. CASE c = ":" /\ st.digits < 8 /\ At(m, st.at + 1) # ":"
  <2>1. r = IF st.digit \notin 1..4 THEN 0 ELSE rest[Colon(st)]
    BY <1>1, <1>2, <1>5, <1>9
  <2> QED BY <1>9, <2>1 DEF c
<1>10. CASE c = "." /\ st.digits < 8
  <2>1. r = IF IsIPv4(m, start) THEN Run(m, start) + 1 ELSE rest[ReadAgain(st)]
    BY <1>1, <1>2, <1>4, <1>5, <1>10
  <2> QED BY <1>10, <2>1 DEF c, start
<1>11. \/ c \notin IPv6Char \/ st.digits >= 8
       \/ c \in D /\ st.digits < 8
       \/ c \in {":", "."} /\ st.digits < 8
  BY <1>1, <1>2
<1> QED BY <1>6, <1>7, <1>8, <1>9, <1>10, <1>11

LEMMA ReadCases ==
  ASSUME NEW m, NEW st \in IPv6State, NEW rest
  PROVE  LET c == At(m, st.at)
             r == IPv6Read(m, st, rest)
             start == st.at - st.digit
         IN  /\ c \notin IPv6Char \/ ~(st.digits < 8)
                   => r = IF st.at < 1 THEN 0 ELSE st.at + 1
             /\ c \in IPv6Char /\ st.digits < 8 /\ c # ":" /\ c # "."
                   => r = rest[OneOn(st)]
             /\ c = ":" /\ st.digits < 8 /\ At(m, st.at + 1) = ":"
                   => r = IF st.filled THEN 0 ELSE rest[Filled(st)]
             /\ c = ":" /\ st.digits < 8 /\ At(m, st.at + 1) # ":"
                   => r = IF st.digit \notin 1..4 THEN 0 ELSE rest[Colon(st)]
             /\ c = "." /\ st.digits < 8
                   => r = IF IsIPv4(m, start) THEN Run(m, start) + 1
                                              ELSE rest[ReadAgain(st)]
<1> DEFINE c == At(m, st.at)
           r == IPv6Read(m, st, rest)
           start == st.at - st.digit
           g == st.digits
<1>1. g \in Nat
  BY DEF IPv6State
<1>2. ":" \in IPv6Char /\ "." \in IPv6Char
  BY DEF IPv6Char
<1> HIDE DEF g
<1>3. g >= 8 <=> ~(g < 8)
  BY <1>1
<1>4. \/ /\ c \notin IPv6Char \/ g >= 8
         /\ r = IF st.at < 1 THEN 0 ELSE st.at + 1
      \/ /\ c \in IPv6Char /\ g < 8 /\ c # ":" /\ c # "."
         /\ r = rest[OneOn(st)]
      \/ /\ c = ":" /\ g < 8 /\ At(m, st.at + 1) = ":"
         /\ r = IF st.filled THEN 0 ELSE rest[Filled(st)]
      \/ /\ c = ":" /\ g < 8 /\ At(m, st.at + 1) # ":"
         /\ r = IF st.digit \notin 1..4 THEN 0 ELSE rest[Colon(st)]
      \/ /\ c = "." /\ g < 8
         /\ r = IF IsIPv4(m, start) THEN Run(m, start) + 1 ELSE rest[ReadAgain(st)]
  BY ReadIs DEF g
<1> HIDE DEF c, r, start
<1>5. /\ c \notin IPv6Char \/ ~(g < 8) => r = IF st.at < 1 THEN 0 ELSE st.at + 1
      /\ c \in IPv6Char /\ g < 8 /\ c # ":" /\ c # "." => r = rest[OneOn(st)]
      /\ c = ":" /\ g < 8 /\ At(m, st.at + 1) = ":"
           => r = IF st.filled THEN 0 ELSE rest[Filled(st)]
      /\ c = ":" /\ g < 8 /\ At(m, st.at + 1) # ":"
           => r = IF st.digit \notin 1..4 THEN 0 ELSE rest[Colon(st)]
      /\ c = "." /\ g < 8
           => r = IF IsIPv4(m, start) THEN Run(m, start) + 1 ELSE rest[ReadAgain(st)]
  BY <1>2, <1>3, <1>4
<1> QED BY <1>5 DEF c, r, start, g

\* No read goes beyond a character that is not part of an address.
LEMMA ReadStays ==
  ASSUME NEW m \in Seq(AnyChar), NEW q \in 1..Len(m), At(m, q) \notin IPv6Char,
         NEW rest,
         \A s \in IPv6State : s.at <= q => rest[s] \in Int /\ rest[s] <= q + 1,
         NEW st \in IPv6State, st.at <= q
  PROVE  IPv6Read(m, st, rest) \in Int /\ IPv6Read(m, st, rest) <= q + 1
<1> DEFINE c == At(m, st.at)
           r == IPv6Read(m, st, rest)
           start == st.at - st.digit
<1>1. Len(m) \in Nat /\ q \in Int /\ q >= 1 /\ st.at \in Int /\ st.digit \in Nat
  BY NextStates
<1>2. c \in IPv6Char => st.at + 1 <= q
  BY <1>1
<1>3. At(m, st.at + 1) = ":" /\ c \in IPv6Char => st.at + 2 <= q
  <2>1. ":" \in IPv6Char
    BY DEF IPv6Char
  <2>2. At(m, st.at + 1) = ":" => st.at + 1 # q
    BY <2>1
  <2> QED BY <1>1, <1>2, <2>2
<1>4. start \in Int /\ start <= q
  BY <1>1
<1>5. IsIPv4(m, start) => Run(m, start) \in Int /\ Run(m, start) <= q
  <2>1. At(m, q) \notin IPv4Char
    BY DEF IPv4Char, IPv6Char
  <2>2. q \in start..Len(m)
    BY <1>1, <1>4
  <2>3. Run(m, start) \in start..q
    BY <1>4, <2>1, <2>2, IPv4Ends
  <2> QED BY <1>1, <1>4, <2>3
<1>6. /\ ":" \in IPv6Char
      /\ OneOn(st) \in IPv6State /\ OneOn(st).at = st.at + 1
      /\ Filled(st) \in IPv6State /\ Filled(st).at = st.at + 2
      /\ Colon(st) \in IPv6State /\ Colon(st).at = st.at + 1
      /\ ReadAgain(st) \in IPv6State /\ ReadAgain(st).at = start
  BY NextStates DEF IPv6Char
<1> HIDE DEF start
<1>7. CASE r = IF st.at < 1 THEN 0 ELSE st.at + 1
  BY <1>1, <1>7
<1>8. CASE c \in IPv6Char /\ r = rest[OneOn(st)]
  BY <1>2, <1>6, <1>8
<1>9. CASE c = ":" /\ At(m, st.at + 1) = ":" /\ r = IF st.filled THEN 0 ELSE rest[Filled(st)]
  BY <1>1, <1>3, <1>6, <1>9
<1>10. CASE c = ":" /\ r = IF st.digit \notin 1..4 THEN 0 ELSE rest[Colon(st)]
  BY <1>1, <1>2, <1>6, <1>10
<1>11. CASE r = IF IsIPv4(m, start) THEN Run(m, start) + 1 ELSE rest[ReadAgain(st)]
  BY <1>1, <1>4, <1>5, <1>6, <1>11
<1> HIDE DEF r, c
<1>12. \/ r = IF st.at < 1 THEN 0 ELSE st.at + 1
       \/ c \in IPv6Char /\ r = rest[OneOn(st)]
       \/ c = ":" /\ At(m, st.at + 1) = ":" /\ r = IF st.filled THEN 0 ELSE rest[Filled(st)]
       \/ c = ":" /\ r = IF st.digit \notin 1..4 THEN 0 ELSE rest[Colon(st)]
       \/ r = IF IsIPv4(m, start) THEN Run(m, start) + 1 ELSE rest[ReadAgain(st)]
  BY ReadIs DEF r, c, start
<1> QED BY <1>7, <1>8, <1>9, <1>10, <1>11, <1>12 DEF r

LEMMA LoopStays ==
  ASSUME NEW m \in Seq(AnyChar), NEW q \in 1..Len(m), At(m, q) \notin IPv6Char,
         NEW n \in Nat, NEW st \in IPv6State, st.at <= q
  PROVE  IPv6Loop(m)[n][st] \in Int /\ IPv6Loop(m)[n][st] <= q + 1
<1> DEFINE Stays(f) == \A s \in IPv6State : s.at <= q => f[s] \in Int /\ f[s] <= q + 1
           P == {k \in Nat : Stays(IPv6Loop(m)[k])}
           E == [t \in IPv6State |-> Endless]
<1>1. ASSUME NEW k \in Nat, NEW f, Stays(f), f = IF k = 0 THEN E ELSE IPv6Loop(m)[k - 1]
      PROVE  k \in P
  <2> SUFFICES ASSUME NEW s \in IPv6State, s.at <= q
               PROVE  IPv6Loop(m)[k][s] \in Int /\ IPv6Loop(m)[k][s] <= q + 1
    OBVIOUS
  <2>1. IPv6Loop(m)[k][s] = IPv6Read(m, s, f)
    BY <1>1, LoopIs
  <2> QED BY <1>1, <2>1, ReadStays
<1>2. 0 \in P
  <2>1. Stays(E)
    BY DEF Endless
  <2> HIDE DEF E, P, Stays
  <2> QED BY <1>1, <2>1
<1>3. ASSUME NEW k \in P PROVE k + 1 \in P
  <2>1. k \in Nat /\ k + 1 \in Nat /\ (k + 1) - 1 = k /\ k + 1 # 0 /\ Stays(IPv6Loop(m)[k])
    BY <1>3
  <2> HIDE DEF E, P, Stays
  <2> QED BY <1>1, <2>1
<1> HIDE DEF P
<1>4. n \in P
  BY <1>2, <1>3, Induction DEF P
<1> QED BY <1>4 DEF P

\* From i, where no address is, to q, where one ends, m is w moved by d.
Alike(m, i, q, w, d) ==
    /\ m \in Seq(AnyChar) /\ w \in Seq(AnyChar) /\ d \in Int
    /\ i \in 1..Len(m) /\ q \in (i + 1)..Len(m)
    /\ i + d \in 1..Len(w) /\ q + d \in 1..Len(w)
    /\ \A k \in i..q : At(w, k + d) = At(m, k)
    /\ At(m, i) \notin IPv6Char /\ At(m, q) \notin IPv6Char

LEMMA RunMoves ==
  ASSUME NEW m, NEW i, NEW q, NEW w, NEW d, Alike(m, i, q, w, d),
         NEW s \in (i + 1)..q
  PROVE  /\ IsIPv4(w, s + d) <=> IsIPv4(m, s)
         /\ Run(m, s) \in s..q /\ Run(w, s + d) = Run(m, s) + d
<1>1. /\ m \in Seq(AnyChar) /\ w \in Seq(AnyChar) /\ d \in Int
      /\ Len(m) \in Nat /\ Len(w) \in Nat
      /\ i \in 1..Len(m) /\ q \in (i + 1)..Len(m)
      /\ i + d \in 1..Len(w) /\ q + d \in 1..Len(w)
  BY DEF Alike
<1>2. At(m, q) \notin IPv4Char /\ \A k \in i..q : At(w, k + d) = At(m, k)
  BY DEF Alike, IPv6Char, IPv4Char
<1>3. q \in s..Len(m) /\ s \in Int /\ s \in 1..Len(m)
  BY <1>1
<1>4. /\ Run(m, s) \in s..q /\ At(m, Run(m, s)) \notin IPv4Char
      /\ \A k \in s..(Run(m, s) - 1) : At(m, k) \in IPv4Char
  BY <1>1, <1>2, <1>3, IPv4Ends
<1> DEFINE n == Run(m, s) - s
           j == s + d
<1>5. /\ Run(m, s) \in Int /\ n \in Nat /\ s + n = Run(m, s) /\ s + n <= q
      /\ j \in 1..Len(w) /\ j + n <= Len(w) /\ s + n <= Len(m) /\ j + n = (s + n) + d
      /\ j + n \in 1..Len(w) /\ s + n \in 1..Len(m) /\ j = s + d
  BY <1>1, <1>3, <1>4
<1> HIDE DEF n, j
<1>6. \A k \in 0..(n - 1) : m[s + k] = w[j + k] /\ m[s + k] \in IPv4Char
  <2> TAKE k \in 0..(n - 1)
  <2>1. /\ s + k \in i..q /\ s + k \in s..(Run(m, s) - 1) /\ j + k = (s + k) + d
        /\ s + k \in 1..Len(m) /\ j + k \in 1..Len(w)
    BY <1>1, <1>3, <1>5
  <2>2. At(w, j + k) = At(m, s + k) /\ At(m, s + k) \in IPv4Char
    BY <1>2, <1>4, <2>1
  <2>3. At(w, j + k) = w[j + k] /\ At(m, s + k) = m[s + k]
    BY <1>1, <2>1, AtIs
  <2> QED BY <2>2, <2>3
<1>7. m[s + n] \notin IPv4Char /\ w[j + n] \notin IPv4Char
  <2>1. s + n \in i..q
    BY <1>1, <1>3, <1>5
  <2>2. At(w, j + n) = At(m, s + n) /\ At(m, s + n) \notin IPv4Char
    BY <1>2, <1>4, <1>5, <2>1
  <2>3. At(w, j + n) = w[j + n] /\ At(m, s + n) = m[s + n]
    BY <1>1, <1>5, AtIs
  <2> QED BY <2>2, <2>3
<1>8. SameRun(m, s, w, j, n)
  BY <1>1, <1>3, <1>5, <1>6, <1>7 DEF SameRun
<1>9. SameRun(w, j, m, s, n)
  BY <1>8 DEF SameRun
<1>10. IsIPv4(w, j) <=> IsIPv4(m, s)
  BY <1>5, <1>8, <1>9, IPv4Moves
<1>11. Run(w, j) = j + n
  BY <1>5, <1>9, RunIs
<1> QED BY <1>4, <1>5, <1>10, <1>11

\* The loop accepts nothing once it is back at i, and what it accepts from
\* behind i on it accepts in w.
Near(i, rest) == \A s \in IPv6State : s.at <= i => ~(rest[s] > i + 1)
Follows(i, q, d, rest, after) ==
    \A s \in IPv6State :
        s.at \in (i + 1)..q /\ rest[s] > i + 1 => after[Moved(s, d)] = rest[s] + d

LEMMA ReadMoves ==
  ASSUME NEW m, NEW i, NEW q, NEW w, NEW d, Alike(m, i, q, w, d), NEW rest, NEW after,
         Near(i, rest), Follows(i, q, d, rest, after),
         NEW st \in IPv6State, st.at \in (i + 1)..q, IPv6Read(m, st, rest) > i + 1
  PROVE  IPv6Read(w, Moved(st, d), after) = IPv6Read(m, st, rest) + d
<1> DEFINE c == At(m, st.at)
           u == Moved(st, d)
           r == IPv6Read(m, st, rest)
           t == IPv6Read(w, u, after)
           start == st.at - st.digit
<1>1. /\ m \in Seq(AnyChar) /\ w \in Seq(AnyChar) /\ d \in Int
      /\ Len(m) \in Nat /\ Len(w) \in Nat
      /\ i \in 1..Len(m) /\ q \in (i + 1)..Len(m)
      /\ i + d \in 1..Len(w) /\ q + d \in 1..Len(w)
      /\ \A k \in i..q : At(w, k + d) = At(m, k)
      /\ At(m, i) \notin IPv6Char /\ At(m, q) \notin IPv6Char
  BY DEF Alike
<1>2. /\ st.at \in Int /\ st.digit \in Nat /\ i \in Int /\ q \in Int
      /\ st.at >= i + 1 /\ st.at <= q /\ i >= 1 /\ start \in Int /\ start <= q
  <2>1. st.at \in Int /\ st.digit \in Nat
    BY NextStates
  <2>2. i \in Int /\ i >= 1
    BY <1>1
  <2>3. q \in Int
    BY <1>1, <2>2
  <2> DEFINE a == st.at
  <2>4. a \in (i + 1)..q
    OBVIOUS
  <2> HIDE DEF a
  <2>5. a >= i + 1 /\ a <= q
    BY <2>2, <2>3, <2>4
  <2> QED BY <2>1, <2>2, <2>3, <2>5 DEF a
<1>3. /\ u \in IPv6State /\ u.at = st.at + d /\ u.digit = st.digit
      /\ u.filled = st.filled /\ u.digits = st.digits
      /\ OneOn(u) = Moved(OneOn(st), d) /\ Filled(u) = Moved(Filled(st), d)
      /\ Colon(u) = Moved(Colon(st), d) /\ ReadAgain(u) = Moved(ReadAgain(st), d)
  BY <1>1, MovedStates
<1>4. /\ OneOn(st) \in IPv6State /\ OneOn(st).at = st.at + 1
      /\ Filled(st) \in IPv6State /\ Filled(st).at = st.at + 2
      /\ Colon(st) \in IPv6State /\ Colon(st).at = st.at + 1
      /\ ReadAgain(st) \in IPv6State /\ ReadAgain(st).at = start
  BY NextStates
<1>5. At(w, u.at) = c
  <2>1. st.at \in i..q
    BY <1>2
  <2> QED BY <1>1, <1>3, <2>1
<1>6. c \in IPv6Char => st.at + 1 <= q /\ At(w, u.at + 1) = At(m, st.at + 1)
  <2> SUFFICES ASSUME c \in IPv6Char PROVE st.at + 1 <= q /\ At(w, u.at + 1) = At(m, st.at + 1)
    OBVIOUS
  <2>1. st.at # q
    BY <1>1
  <2>2. st.at + 1 <= q /\ st.at + 1 \in i..q /\ u.at + 1 = (st.at + 1) + d
    <3>1. d \in Int /\ u.at = st.at + d
      BY <1>1, <1>3
    <3> DEFINE a == st.at
               b == u.at
    <3>2. /\ a \in Int /\ i \in Int /\ q \in Int /\ a >= i + 1 /\ a <= q
          /\ a # q /\ d \in Int /\ b = a + d
      BY <1>2, <2>1, <3>1
    <3> HIDE DEF a, b
    <3>3. a + 1 <= q /\ a + 1 \in i..q /\ b + 1 = (a + 1) + d
      BY <3>2
    <3> QED BY <3>3 DEF a, b
  <2>3. At(w, (st.at + 1) + d) = At(m, st.at + 1)
    BY <1>1, <2>2
  <2> QED BY <2>2, <2>3
<1>7. {":", "."} \subseteq IPv6Char
  BY DEF IPv6Char
<1>8. c = ":" /\ At(m, st.at + 1) = ":" => st.at + 2 <= q
  <2>1. At(m, st.at + 1) = ":" => st.at + 1 # q
    BY <1>1, <1>7
  <2> QED BY <1>2, <1>6, <1>7, <2>1
<1>9. start >= i + 1 =>
        /\ IsIPv4(w, start + d) <=> IsIPv4(m, start)
        /\ Run(m, start) \in Int
        /\ Run(w, start + d) = Run(m, start) + d
  <2> SUFFICES ASSUME start >= i + 1
               PROVE  /\ IsIPv4(w, start + d) <=> IsIPv4(m, start)
                      /\ Run(m, start) \in Int
                      /\ Run(w, start + d) = Run(m, start) + d
    OBVIOUS
  <2>1. start \in (i + 1)..q
    BY <1>2
  <2> HIDE DEF start, u
  <2>2. /\ IsIPv4(w, start + d) <=> IsIPv4(m, start)
        /\ Run(m, start) \in start..q
        /\ Run(w, start + d) = Run(m, start) + d
    BY <2>1, RunMoves
  <2>3. Run(m, start) \in Int
    BY <1>2, <2>2
  <2> QED BY <2>1, <2>2, <2>3
<1>10. start <= i /\ IsIPv4(m, start) => Run(m, start) \in Int /\ Run(m, start) <= i
  <2> SUFFICES ASSUME start <= i, IsIPv4(m, start) PROVE Run(m, start) \in Int /\ Run(m, start) <= i
    OBVIOUS
  <2>1. At(m, i) \notin IPv4Char
    BY <1>1 DEF IPv6Char, IPv4Char
  <2>2. i \in start..Len(m)
    BY <1>1, <1>2
  <2> HIDE DEF start
  <2>3. Run(m, start) \in start..i
    BY <1>1, <1>2, <2>1, <2>2, IPv4Ends
  <2> QED BY <1>2, <2>3
<1>11. u.at - u.digit = start + d
  BY <1>1, <1>2, <1>3
<1>12. /\ c \notin IPv6Char \/ ~(st.digits < 8) => r = IF st.at < 1 THEN 0 ELSE st.at + 1
       /\ c \in IPv6Char /\ st.digits < 8 /\ c # ":" /\ c # "." => r = rest[OneOn(st)]
       /\ c = ":" /\ st.digits < 8 /\ At(m, st.at + 1) = ":"
            => r = IF st.filled THEN 0 ELSE rest[Filled(st)]
       /\ c = ":" /\ st.digits < 8 /\ At(m, st.at + 1) # ":"
            => r = IF st.digit \notin 1..4 THEN 0 ELSE rest[Colon(st)]
       /\ c = "." /\ st.digits < 8
            => r = IF IsIPv4(m, start) THEN Run(m, start) + 1 ELSE rest[ReadAgain(st)]
  BY ReadCases
<1> HIDE DEF u, start, c, r
<1>13. /\ c \notin IPv6Char \/ ~(st.digits < 8) => t = IF u.at < 1 THEN 0 ELSE u.at + 1
       /\ c \in IPv6Char /\ st.digits < 8 /\ c # ":" /\ c # "." => t = after[OneOn(u)]
       /\ c = ":" /\ st.digits < 8 /\ At(w, u.at + 1) = ":"
            => t = IF st.filled THEN 0 ELSE after[Filled(u)]
       /\ c = ":" /\ st.digits < 8 /\ At(w, u.at + 1) # ":"
            => t = IF st.digit \notin 1..4 THEN 0 ELSE after[Colon(u)]
       /\ c = "." /\ st.digits < 8
            => t = IF IsIPv4(w, start + d) THEN Run(w, start + d) + 1
                                           ELSE after[ReadAgain(u)]
  <2>1. LET e == At(w, u.at)
            b == u.at - u.digit
        IN  /\ e \notin IPv6Char \/ ~(u.digits < 8) => t = IF u.at < 1 THEN 0 ELSE u.at + 1
            /\ e \in IPv6Char /\ u.digits < 8 /\ e # ":" /\ e # "." => t = after[OneOn(u)]
            /\ e = ":" /\ u.digits < 8 /\ At(w, u.at + 1) = ":"
                 => t = IF u.filled THEN 0 ELSE after[Filled(u)]
            /\ e = ":" /\ u.digits < 8 /\ At(w, u.at + 1) # ":"
                 => t = IF u.digit \notin 1..4 THEN 0 ELSE after[Colon(u)]
            /\ e = "." /\ u.digits < 8
                 => t = IF IsIPv4(w, b) THEN Run(w, b) + 1 ELSE after[ReadAgain(u)]
    BY <1>3, ReadCases
  <2> QED BY <1>3, <1>5, <1>11, <2>1
<1> HIDE DEF t
<1>14. r > i + 1 /\ d \in Int
  BY <1>1 DEF r
<1>15. CASE c \notin IPv6Char \/ ~(st.digits < 8)
  <2>1. r = IF st.at < 1 THEN 0 ELSE st.at + 1
    BY <1>12, <1>15
  <2>2. t = IF u.at < 1 THEN 0 ELSE u.at + 1
    BY <1>13, <1>15
  <2> QED BY <1>1, <1>2, <1>3, <2>1, <2>2 DEF r, t, u
<1>16. CASE c \in IPv6Char /\ st.digits < 8 /\ c # ":" /\ c # "."
  <2>1. r = rest[OneOn(st)]
    BY <1>12, <1>16
  <2>2. t = after[OneOn(u)]
    BY <1>13, <1>16
  <2>3. OneOn(st).at \in (i + 1)..q
    BY <1>2, <1>4, <1>6, <1>16
  <2>4. after[Moved(OneOn(st), d)] = rest[OneOn(st)] + d
    BY <1>4, <1>14, <2>1, <2>3 DEF Follows
  <2> QED BY <1>3, <2>1, <2>2, <2>4 DEF r, t, u
<1>17. CASE c = ":" /\ st.digits < 8 /\ At(m, st.at + 1) = ":"
  <2>1. r = IF st.filled THEN 0 ELSE rest[Filled(st)]
    BY <1>12, <1>17
  <2>2. t = IF st.filled THEN 0 ELSE after[Filled(u)]
    BY <1>6, <1>7, <1>13, <1>17
  <2>3. Filled(st).at \in (i + 1)..q
    BY <1>2, <1>4, <1>8, <1>17
  <2>4. ~(0 > i + 1)
    BY <1>2
  <2>5. after[Moved(Filled(st), d)] = rest[Filled(st)] + d /\ ~st.filled
    BY <1>4, <1>14, <2>1, <2>3, <2>4 DEF Follows
  <2> QED BY <1>3, <2>1, <2>2, <2>5 DEF r, t, u
<1>18. CASE c = ":" /\ st.digits < 8 /\ At(m, st.at + 1) # ":"
  <2>1. r = IF st.digit \notin 1..4 THEN 0 ELSE rest[Colon(st)]
    BY <1>12, <1>18
  <2>2. t = IF st.digit \notin 1..4 THEN 0 ELSE after[Colon(u)]
    BY <1>6, <1>7, <1>13, <1>18
  <2>3. Colon(st).at \in (i + 1)..q
    BY <1>2, <1>4, <1>6, <1>7, <1>18
  <2>4. ~(0 > i + 1)
    BY <1>2
  <2>5. after[Moved(Colon(st), d)] = rest[Colon(st)] + d /\ st.digit \in 1..4
    BY <1>4, <1>14, <2>1, <2>3, <2>4 DEF Follows
  <2> QED BY <1>3, <2>1, <2>2, <2>5 DEF r, t, u
<1>19. CASE c = "." /\ st.digits < 8
  <2>1. r = IF IsIPv4(m, start) THEN Run(m, start) + 1 ELSE rest[ReadAgain(st)]
    BY <1>12, <1>19
  <2>2. t = IF IsIPv4(w, start + d) THEN Run(w, start + d) + 1
                                         ELSE after[ReadAgain(u)]
    BY <1>13, <1>19
  <2>3. start >= i + 1
    <3> SUFFICES ASSUME start <= i PROVE FALSE
      BY <1>2
    <3>1. CASE IsIPv4(m, start)
      BY <1>2, <1>10, <1>14, <2>1, <3>1
    <3>2. CASE ~IsIPv4(m, start)
      BY <1>4, <1>14, <2>1, <3>2 DEF Near
    <3> QED BY <3>1, <3>2
  <2>4. CASE IsIPv4(m, start)
    <3>1. r = Run(m, start) + 1 /\ t = (Run(m, start) + d) + 1 /\ Run(m, start) \in Int
      BY <1>9, <2>1, <2>2, <2>3, <2>4
    <3> QED BY <1>1, <3>1 DEF r, t, u
  <2>5. CASE ~IsIPv4(m, start)
    <3>1. r = rest[ReadAgain(st)] /\ t = after[ReadAgain(u)]
      BY <1>9, <2>1, <2>2, <2>3, <2>5
    <3>2. ReadAgain(st).at \in (i + 1)..q
      BY <1>2, <1>4, <2>3
    <3>3. after[Moved(ReadAgain(st), d)] = rest[ReadAgain(st)] + d
      BY <1>4, <1>14, <3>1, <3>2 DEF Follows
    <3> QED BY <1>3, <3>1, <3>3 DEF r, t, u
  <2> QED BY <2>4, <2>5
<1>20. \/ c \notin IPv6Char \/ ~(st.digits < 8)
       \/ c \in IPv6Char /\ st.digits < 8 /\ c # ":" /\ c # "."
       \/ c \in {":", "."} /\ st.digits < 8
  OBVIOUS
<1> QED BY <1>15, <1>16, <1>17, <1>18, <1>19, <1>20 DEF r, t, u

LEMMA LoopMoves ==
  ASSUME NEW m, NEW i, NEW q, NEW w, NEW d, Alike(m, i, q, w, d),
         NEW n \in Nat, NEW st \in IPv6State, st.at \in (i + 1)..q,
         IPv6Loop(m)[n][st] > i + 1
  PROVE  IPv6Loop(w)[n][Moved(st, d)] = IPv6Loop(m)[n][st] + d
<1> DEFINE P == {k \in Nat : Follows(i, q, d, IPv6Loop(m)[k], IPv6Loop(w)[k])}
           E == [t \in IPv6State |-> Endless]
<1>1. m \in Seq(AnyChar) /\ i \in 1..Len(m) /\ i \in Int /\ i >= 1 /\ At(m, i) \notin IPv6Char
      /\ d \in Int
  <2>1. m \in Seq(AnyChar) /\ Len(m) \in Nat /\ i \in 1..Len(m) /\ At(m, i) \notin IPv6Char
        /\ d \in Int
    BY DEF Alike
  <2> QED BY <2>1
<1>2. \A k \in Nat : Near(i, IPv6Loop(m)[k])
  <2> SUFFICES ASSUME NEW k \in Nat, NEW s \in IPv6State, s.at <= i
               PROVE  ~(IPv6Loop(m)[k][s] > i + 1)
    BY DEF Near
  <2>1. IPv6Loop(m)[k][s] \in Int /\ IPv6Loop(m)[k][s] <= i + 1
    BY <1>1, LoopStays
  <2> QED BY <1>1, <2>1
<1>3. Near(i, E)
  BY <1>1 DEF Endless, Near
<1>4. Follows(i, q, d, E, E)
  BY <1>1 DEF Endless, Follows
<1>5. ASSUME NEW k \in Nat, NEW f, NEW g, Near(i, f), Follows(i, q, d, f, g),
             f = IF k = 0 THEN E ELSE IPv6Loop(m)[k - 1],
             g = IF k = 0 THEN E ELSE IPv6Loop(w)[k - 1]
      PROVE  k \in P
  <2> SUFFICES ASSUME NEW s \in IPv6State, s.at \in (i + 1)..q, IPv6Loop(m)[k][s] > i + 1
               PROVE  IPv6Loop(w)[k][Moved(s, d)] = IPv6Loop(m)[k][s] + d
    BY DEF Follows
  <2>1. IPv6Loop(m)[k][s] = IPv6Read(m, s, f)
    BY <1>5, LoopIs
  <2>2. IPv6Loop(w)[k][Moved(s, d)] = IPv6Read(w, Moved(s, d), g)
    BY <1>1, <1>5, LoopIs, MovedStates
  <2>3. IPv6Read(m, s, f) > i + 1
    BY <2>1
  <2>4. IPv6Read(w, Moved(s, d), g) = IPv6Read(m, s, f) + d
    BY <1>5, <2>3, ReadMoves
  <2> QED BY <2>1, <2>2, <2>4
<1> HIDE DEF P, E
<1>6. 0 \in P
  BY <1>3, <1>4, <1>5
<1>7. ASSUME NEW k \in P PROVE k + 1 \in P
  <2>1. k \in Nat /\ k + 1 \in Nat /\ (k + 1) - 1 = k /\ k + 1 # 0
        /\ Follows(i, q, d, IPv6Loop(m)[k], IPv6Loop(w)[k])
    BY <1>7 DEF P
  <2> QED BY <1>2, <1>5, <2>1
<1>8. n \in P
  BY <1>6, <1>7, Induction DEF P
<1> QED BY <1>8 DEF P, Follows

\* The state in which the loop begins.
First(i) == [at |-> i + 1, filled |-> FALSE, digit |-> 0, digits |-> 0]

\* An address that is accepted is all within its brackets.
LEMMA IPv6Accepted ==
  ASSUME NEW m, Readable(m), NEW i \in 1..Len(m), ParseIPv6(m, i).ok
  PROVE  \E e \in Int :
            /\ ParseIPv6(m, i) = Parsed(Part(m, i, e), e)
            /\ e = IPv6Loop(m)[MaxReads][First(i)]
            /\ e - i \in 4..47 /\ e <= Len(m) /\ m[i] = "[" /\ m[e - 1] = "]"
            /\ \A k \in (i + 1)..(e - 2) : At(m, k) \in IPv6Char
<1> DEFINE e == IPv6End(m, i)
           q == Skip(m, i + 1, IPv6Char)
<1> DEFINE L == Len(m)
<1>0. m \in Seq(AnyChar) /\ L \in Nat /\ L >= 1
  BY ReadableIs
<1>1. i \in Int /\ 1 <= i /\ i <= L
  BY <1>0, Within
<1>2. ParseIPv6(m, i) = Parsed(Part(m, i, e), e) /\ At(m, e - 1) = "]" /\ e - i \in 4..47
  BY DEF ParseIPv6, Fail
<1>3. At(m, i) = "[" /\ e = IPv6Loop(m)[MaxReads][First(i)]
  <2>1. At(m, i) # "[" => e = 0
    BY DEF IPv6End
  <2>2. ~(0 - i \in 4..47)
    <3>1. 0 - i \in Int /\ 0 - i < 4
      BY <1>1
    <3> QED BY <3>1
  <2> QED BY <1>2, <2>1, <2>2 DEF IPv6End, First
<1>4. m[i] = "["
  BY <1>0, <1>1, <1>3, AtIs
<1>5. i + 1 \in Int /\ L \in (i + 1)..L /\ At(m, L) \notin IPv6Char
  <2>1. i # L
    BY <1>3, ReadableIs
  <2>2. At(m, L) \notin IPv6Char
    BY ReadableIs, Delimiters
  <2> HIDE DEF L
  <2> QED BY <1>0, <1>1, <2>1, <2>2
<1> HIDE DEF e, q
<1>6. /\ q \in (i + 1)..Len(m) /\ At(m, q) \notin IPv6Char
      /\ \A k \in (i + 1)..(q - 1) : At(m, k) \in IPv6Char
  BY <1>0, <1>5, SkipStops DEF q
<1>7. q \in Int /\ i + 1 <= q /\ q <= L
  BY <1>0, <1>5, <1>6, Within
<1>8. q \in 1..L
  BY <1>0, <1>1, <1>7
<1>9. First(i) \in IPv6State /\ First(i).at <= q
  <2>1. i + 1 \in Int
    BY <1>1
  <2> QED BY <2>1, <1>7 DEF First, IPv6State
<1>10. e \in Int /\ e <= q + 1
  <2>1. MaxReads \in Nat
    BY StringAssumption
  <2> QED BY <1>0, <1>3, <1>8, <1>6, <1>9, <2>1, LoopStays
<1>11. 4 <= e - i
  BY <1>1, <1>2, <1>10, Within
<1>12. e - 1 \in (i + 1)..q
  BY <1>1, <1>7, <1>10, <1>11
<1>13. e - 1 = q
  <2>1. "]" \notin IPv6Char
    BY Delimiters
  <2>2. ~(e - 1 \in (i + 1)..(q - 1))
    BY <1>2, <1>6, <2>1
  <2> QED BY <1>1, <1>7, <1>10, <1>11, <2>2
<1>14. e <= Len(m) /\ m[e - 1] = "]"
  <2>1. m[q] = "]"
    BY <1>0, <1>2, <1>8, <1>13, AtIs
  <2>2. q # L
    BY <1>2, <1>13, ReadableIs
  <2> HIDE DEF L
  <2>3. e <= L
    BY <1>0, <1>7, <1>10, <1>13, <2>2
  <2> QED BY <1>13, <2>1, <2>3 DEF L
<1>15. \A k \in (i + 1)..(e - 2) : At(m, k) \in IPv6Char
  <2>1. e - 2 = q - 1
    BY <1>7, <1>10, <1>13
  <2> QED BY <1>6, <2>1
<1> QED BY <1>2, <1>3, <1>4, <1>10, <1>14, <1>15

\* The same address elsewhere is accepted, whatever comes after it.
LEMMA IPv6Moves ==
  ASSUME NEW m, Readable(m), NEW i \in 1..Len(m), NEW e \in Int,
         ParseIPv6(m, i) = Parsed(Part(m, i, e), e),
         NEW w, NEW j \in Int, Same(m, i, w, j, e - i)
  PROVE  ParseIPv6(w, j) = Parsed(Part(m, i, e), j + (e - i))
<1>1. m \in Seq(AnyChar) /\ Len(m) \in Nat
  BY ReadableIs
<1>2. m \in Seq(AnyChar) /\ Len(m) \in Nat /\ i \in Int /\ 1 <= i /\ i <= Len(m)
  BY <1>1, Within
<1>3. ParseIPv6(m, i).ok /\ ParseIPv6(m, i).next = e
  BY DEF Parsed
<1>4. /\ e = IPv6Loop(m)[MaxReads][First(i)]
      /\ e - i \in 4..47 /\ e <= Len(m) /\ m[i] = "[" /\ m[e - 1] = "]"
      /\ \A k \in (i + 1)..(e - 2) : At(m, k) \in IPv6Char
  <2>1. PICK x \in Int :
            /\ ParseIPv6(m, i) = Parsed(Part(m, i, x), x)
            /\ x = IPv6Loop(m)[MaxReads][First(i)]
            /\ x - i \in 4..47 /\ x <= Len(m) /\ m[i] = "[" /\ m[x - 1] = "]"
            /\ \A k \in (i + 1)..(x - 2) : At(m, k) \in IPv6Char
    BY <1>3, IPv6Accepted
  <2>2. ParseIPv6(m, i).next = x
    BY <2>1 DEF Parsed
  <2>3. x = e
    BY <1>3, <2>2
  <2> QED BY <2>1, <2>3
<1> DEFINE d == j - i
           n == e - i
           q == e - 1
<1>5. /\ w \in Seq(AnyChar) /\ j \in 1..(Len(w) + 1) /\ j + n <= Len(w) + 1
      /\ \A k \in 0..(n - 1) : m[i + k] = w[j + k]
  BY DEF Same
<1>6. Len(w) \in Nat
  BY <1>5
<1>7. /\ d \in Int /\ n \in Nat /\ n >= 4 /\ i + d = j /\ q + d = j + n - 1
      /\ q \in (i + 1)..Len(m) /\ i + n = e /\ j >= 1 /\ q - i = n - 1
      /\ i + 1 <= q /\ q <= Len(m)
  <2> DEFINE L == Len(m)
             W == Len(w)
  <2>1. 4 <= n /\ n \in Int
    <3>1. n \in Int /\ n \in 4..47
      BY <1>2, <1>4
    <3> HIDE DEF n
    <3>2. 4 <= n
      BY <3>1
    <3> QED BY <3>1, <3>2
  <2>2. j >= 1
    BY <1>5, <1>6, Within
  <2>3. L \in Nat /\ e <= L
    BY <1>2, <1>4
  <2> HIDE DEF L
  <2>4. n = e - i /\ q = e - 1 /\ d = j - i
    OBVIOUS
  <2> HIDE DEF n, q, d
  <2>5. /\ d \in Int /\ n \in Nat /\ n >= 4 /\ i + d = j /\ i + n = e
        /\ q \in Int /\ i + 1 <= q /\ q <= L /\ q - i = n - 1
    BY <1>2, <2>1, <2>3, <2>4
  <2>6. q + d = j + n - 1 /\ q \in (i + 1)..L
    BY <1>2, <2>3, <2>4, <2>5
  <2> QED BY <2>2, <2>5, <2>6 DEF L
<1>8. i + d \in 1..Len(w) /\ q + d \in 1..Len(w) /\ q \in 1..Len(m)
  BY <1>2, <1>5, <1>6, <1>7
<1> HIDE DEF d, n, q
<1>9. \A k \in i..q : At(w, k + d) = At(m, k) /\ At(m, k) = m[k]
  <2> TAKE k \in i..q
  <2>1. /\ k - i \in 0..(n - 1) /\ i + (k - i) = k /\ j + (k - i) = k + d
        /\ k \in 1..Len(m) /\ k + d \in 1..Len(w)
    BY <1>2, <1>5, <1>6, <1>7
  <2>2. m[k] = w[k + d]
    BY <1>5, <2>1
  <2> QED BY <1>2, <1>5, <2>1, <2>2, AtIs
<1>10. i \in i..q /\ q \in i..q
  BY <1>2, <1>7
<1>11. At(m, i) = "[" /\ At(m, q) = "]" /\ At(w, j) = "[" /\ At(w, q + d) = "]"
  BY <1>4, <1>7, <1>9, <1>10 DEF q
<1>12. Alike(m, i, q, w, d)
  BY <1>2, <1>5, <1>7, <1>8, <1>9, <1>11, Delimiters DEF Alike
<1>13. First(i) \in IPv6State /\ First(i).at \in (i + 1)..q
  BY <1>2, <1>7 DEF First, IPv6State
<1>14. Moved(First(i), d) = First(j)
  <2>1. (i + 1) + d = j + 1
    BY <1>2, <1>7
  <2> QED BY <2>1 DEF First, Moved
<1>15. IPv6Loop(w)[MaxReads][First(j)] = e + d
  <2>1. MaxReads \in Nat
    BY StringAssumption
  <2>2. MaxReads \in Nat /\ e > i + 1
    BY <1>2, <1>7, <2>1
  <2>3. IPv6Loop(m)[MaxReads][First(i)] > i + 1
    BY <1>4, <2>2
  <2>4. IPv6Loop(w)[MaxReads][Moved(First(i), d)] = IPv6Loop(m)[MaxReads][First(i)] + d
    BY <1>12, <1>13, <2>2, <2>3, LoopMoves
  <2> QED BY <1>4, <1>14, <2>4
<1>16. IPv6End(w, j) = e + d
  BY <1>11, <1>15 DEF IPv6End, First
<1>17. (e + d) - 1 = q + d /\ (e + d) - j = e - i /\ e + d = j + n
  BY <1>2, <1>7 DEF q, n, d
<1>18. ParseIPv6(w, j) = Parsed(Part(w, j, e + d), e + d)
  BY <1>4, <1>11, <1>16, <1>17 DEF ParseIPv6
<1>19. Part(w, j, j + n) = Part(m, i, i + n)
  BY <1>7, PartMoves DEF n
<1>20. ParseIPv6(w, j) = Parsed(Part(m, i, e), j + n)
  BY <1>7, <1>17, <1>18, <1>19
<1> QED BY <1>20 DEF n

-----------------------------------------------------------------------------
(* Hosts *)

HostChar == Digit \union Lower \union {".", "-"}

LEMMA HostCharacters ==
  /\ IPv4Char \subseteq HostChar /\ HostChar \subseteq Char
  /\ IPv6Char \union {"[", "]"} \subseteq Char
  /\ {":", NUL, " ", "[", "]", "@", "unknown"} \intersect HostChar = {}
  /\ Digit \subseteq Char
  /\ HostChar = IPv4Char \union (Lower \union {"-"})
BY Delimiters DEF HostChar, IPv4Char, IPv6Char, Char, Lower

\* The three ways in which a host from i up to e is accepted.
Host4(m, i, e) == IsIPv4(m, i) /\ e = Run(m, i)
Host6(m, i, e) == ~IsIPv4(m, i) /\ ParseIPv6(m, i) = Parsed(Part(m, i, e), e)
HostN(m, i, e) ==
    /\ ~IsIPv4(m, i) /\ ~ParseIPv6(m, i).ok
    /\ e = Skip(m, i, HostChar) /\ e - i \in 1..Limit
HostAt(m, i, e) == Host4(m, i, e) \/ Host6(m, i, e) \/ HostN(m, i, e)

LEMMA HostCases ==
  ASSUME NEW m, NEW i, NEW e, Host4(m, i, e) \/ Host6(m, i, e) \/ HostN(m, i, e)
  PROVE  ParseHost(m, i) = Parsed(Part(m, i, e), e)
<1>1. CASE Host4(m, i, e)
  <2>1. ParseIPv4(m, i) = Parsed(Part(m, i, e), e)
    BY <1>1, IPv4Is DEF Host4
  <2> QED BY <2>1 DEF ParseHost, OrElse, Parsed
<1>2. ASSUME ~IsIPv4(m, i) PROVE ~ParseIPv4(m, i).ok
  BY <1>2, IPv4Is DEF Fail
<1>3. CASE Host6(m, i, e)
  <2>1. ~ParseIPv4(m, i).ok /\ ParseIPv6(m, i) = Parsed(Part(m, i, e), e)
    BY <1>2, <1>3 DEF Host6
  <2> QED BY <2>1 DEF ParseHost, OrElse, Parsed
<1>4. CASE HostN(m, i, e)
  <2>1. ~ParseIPv4(m, i).ok /\ ~ParseIPv6(m, i).ok
    BY <1>2, <1>4 DEF HostN
  <2>2. ParseHostname(m, i) = Parsed(Part(m, i, e), e)
    BY <1>4 DEF HostN, ParseHostname, HostChar
  <2> QED BY <2>1, <2>2 DEF ParseHost, OrElse
<1> QED BY <1>1, <1>3, <1>4

\* What is accepted is one of the three, and within the memory.
LEMMA HostAccepted ==
  ASSUME NEW m, Readable(m), NEW i \in 1..Len(m), ParseHost(m, i).ok
  PROVE  \E e \in (i + 1)..Len(m) : Host4(m, i, e) \/ Host6(m, i, e) \/ HostN(m, i, e)
<1> DEFINE L == Len(m)
<1>1. m \in Seq(AnyChar) /\ L \in Nat /\ i \in Int /\ 1 <= i /\ i <= L
  <2>1. m \in Seq(AnyChar) /\ Len(m) \in Nat
    BY ReadableIs
  <2> QED BY <2>1, Within
<1>2. At(m, L) \notin IPv4Char /\ At(m, L) \notin HostChar /\ L \in i..L
  <2>1. At(m, L) \in {" ", NUL}
    BY ReadableIs
  <2> HIDE DEF L
  <2>2. L \in i..L
    BY <1>1
  <2> QED BY <2>1, <2>2, HostCharacters
<1>3. CASE IsIPv4(m, i)
  <2> DEFINE e == Run(m, i)
  <2>1. e \in i..L /\ e > i
    BY <1>1, <1>2, <1>3, IPv4Ends
  <2> HIDE DEF e, L
  <2>2. e \in (i + 1)..L
    BY <1>1, <2>1
  <2> QED BY <1>3, <2>2 DEF Host4, e, L
<1>4. CASE ~IsIPv4(m, i) /\ ParseIPv6(m, i).ok
  <2>1. PICK e \in Int :
            /\ ParseIPv6(m, i) = Parsed(Part(m, i, e), e)
            /\ e - i \in 4..47 /\ e <= Len(m)
    BY <1>4, IPv6Accepted
  <2>2. e \in (i + 1)..L
    <3>1. e - i >= 4
      BY <1>1, <2>1
    <3> HIDE DEF L
    <3>2. e <= L
      BY <2>1 DEF L
    <3> QED BY <1>1, <3>1, <3>2
  <2> QED BY <1>4, <2>1, <2>2 DEF Host6
<1>5. CASE ~IsIPv4(m, i) /\ ~ParseIPv6(m, i).ok
  <2> DEFINE e == Skip(m, i, HostChar)
  <2>1. ParseHost(m, i) = ParseHostname(m, i)
    <3>1. ~ParseIPv4(m, i).ok
      BY <1>5, IPv4Is DEF Fail
    <3> QED BY <1>5, <3>1 DEF ParseHost, OrElse
  <2>2. e - i \in 1..Limit
    BY <2>1 DEF ParseHostname, HostChar, Fail
  <2>3. e \in i..L
    BY <1>1, <1>2, SkipStops
  <2>4. e \in (i + 1)..L
    <3>1. Limit \in Nat
      BY StringAssumption
    <3> HIDE DEF e, L
    <3>2. e \in Int /\ e <= L
      BY <1>1, <2>3
    <3>3. e - i >= 1
      BY <1>1, <2>2, <3>1, <3>2
    <3> QED BY <1>1, <3>2, <3>3
  <2> QED BY <1>5, <2>2, <2>4 DEF HostN
<1> QED BY <1>3, <1>4, <1>5

\* The same host elsewhere is accepted, where a ':' or the end comes after it.
HostCopied(m, i, e, w, j, n) ==
    /\ Readable(m) /\ i \in 1..Len(m) /\ e \in (i + 1)..Len(m) /\ HostAt(m, i, e)
    /\ Readable(w) /\ n = e - i /\ Same(m, i, w, j, n)
    /\ j + n \in 1..Len(w) /\ w[j + n] \in {":", NUL}

LEMMA HostMoves ==
  ASSUME NEW m, NEW i, NEW e, NEW w, NEW j, NEW n, HostCopied(m, i, e, w, j, n)
  PROVE  ParseHost(w, j) = Parsed(Part(m, i, e), j + n)
<1> SUFFICES ASSUME Readable(m), i \in 1..Len(m), e \in (i + 1)..Len(m),
                    Host4(m, i, e) \/ Host6(m, i, e) \/ HostN(m, i, e),
                    Readable(w), n = e - i, Same(m, i, w, j, n),
                    j + n \in 1..Len(w), w[j + n] \in {":", NUL}
             PROVE  ParseHost(w, j) = Parsed(Part(m, i, e), j + n)
  BY DEF HostCopied, HostAt
<1> DEFINE L == Len(m)
           W == Len(w)
<1>1. m \in Seq(AnyChar) /\ L \in Nat /\ i \in Int /\ 1 <= i /\ i <= L
  <2>1. m \in Seq(AnyChar) /\ Len(m) \in Nat
    BY ReadableIs
  <2> QED BY <2>1, Within
<1>2. e \in Int /\ i + 1 <= e /\ e <= L
  BY <1>1, Within
<1>3. n \in Nat /\ n >= 1 /\ i + n = e
  BY <1>1, <1>2
<1>4. /\ w \in Seq(AnyChar) /\ j \in 1..(W + 1) /\ j + n <= W + 1
      /\ \A k \in 0..(n - 1) : m[i + k] = w[j + k]
  BY DEF Same
<1>5. W \in Nat
  BY <1>4
<1>6. j \in Int /\ 1 <= j
  BY <1>4, <1>5, Within
<1>7. j + n \in 1..W /\ j + n <= W /\ j \in 1..W
  <2>1. j + n \in 1..W
    OBVIOUS
  <2> HIDE DEF W
  <2> QED BY <1>3, <1>5, <1>6, <2>1
<1> HIDE DEF L, W
<1>8. At(w, j + n) \notin HostChar /\ At(w, j + n) \notin IPv4Char /\ w[j + n] \notin IPv4Char
  <2>1. At(w, j + n) = w[j + n]
    BY <1>4, <1>7, AtIs DEF W
  <2> QED BY <2>1, HostCharacters
<1>9. /\ \A k \in 0..(n - 1) : At(m, i + k) = m[i + k] /\ At(w, j + k) = w[j + k]
      /\ \A k \in i..(e - 1) : At(m, k) = m[k]
      /\ At(m, e) = m[e] /\ At(m, i) = m[i] /\ At(w, j) = w[j]
  <2>1. \A k \in 0..(n - 1) : i + k \in 1..L /\ j + k \in 1..W
    BY <1>1, <1>2, <1>3, <1>5, <1>6, <1>7
  <2>2. e \in 1..L /\ i \in 1..L /\ \A k \in i..(e - 1) : k \in 1..L
    BY <1>1, <1>2
  <2> QED BY <1>1, <1>4, <1>7, <2>1, <2>2, AtIs DEF L, W
<1>10. w[j] = m[i]
  <2>1. 0 \in 0..(n - 1) /\ i + 0 = i /\ j + 0 = j
    BY <1>1, <1>3, <1>6
  <2> QED BY <1>4, <2>1
<1>11. Part(w, j, j + n) = Part(m, i, e)
  BY <1>3, PartMoves
<1>12. CASE Host4(m, i, e)
  <2>1. /\ At(m, Len(m)) \notin IPv4Char /\ Len(m) \in i..Len(m)
    <3>1. At(m, Len(m)) \notin IPv4Char
      <4>1. At(m, Len(m)) \in {" ", NUL}
        BY ReadableIs
      <4> QED BY <4>1, HostCharacters
    <3>2. L \in i..L
      BY <1>1
    <3> QED BY <3>1, <3>2 DEF L
  <2>2. At(m, e) \notin IPv4Char /\ \A k \in i..(e - 1) : At(m, k) \in IPv4Char
    BY <1>1, <1>12, <2>1, IPv4Ends DEF Host4
  <2>3. \A k \in 0..(n - 1) : m[i + k] \in IPv4Char
    <3> TAKE k \in 0..(n - 1)
    <3>1. i + k \in i..(e - 1)
      BY <1>1, <1>2, <1>3
    <3> QED BY <1>9, <2>2, <3>1
  <2>4. m[i + n] \notin IPv4Char
    BY <1>3, <1>9, <2>2
  <2>5. SameRun(m, i, w, j, n)
    <3>1. i \in 1..L /\ i + n <= L
      BY <1>1, <1>2, <1>3
    <3> QED BY <1>1, <1>4, <1>7, <1>8, <2>3, <2>4, <3>1 DEF SameRun, L, W
  <2>6. IsIPv4(w, j)
    BY <1>3, <1>12, <2>5, IPv4Moves DEF Host4
  <2>7. SameRun(w, j, m, i, n)
    BY <2>5 DEF SameRun
  <2>8. Run(w, j) = j + n
    BY <1>3, <2>7, RunIs
  <2>9. Host4(w, j, j + n)
    BY <2>6, <2>8 DEF Host4
  <2> QED BY <1>11, <2>9, HostCases
<1>13. CASE Host6(m, i, e)
  <2>1. ParseIPv6(w, j) = Parsed(Part(m, i, e), j + n)
    BY <1>2, <1>6, <1>13, IPv6Moves DEF Host6
  <2>2. ParseIPv6(m, i).ok
    BY <1>13 DEF Host6, Parsed
  <2>3. m[i] = "["
    BY <2>2, IPv6Accepted
  <2>4. At(w, j) \notin IPv4Char
    BY <1>9, <1>10, <2>3, HostCharacters
  <2>5. ~IsIPv4(w, j)
    <3>1. j \in j..Len(w)
      BY <1>5, <1>6, <1>7 DEF W
    <3>2. Run(w, j) \in j..j /\ (IsIPv4(w, j) => Run(w, j) > j)
      BY <1>4, <1>6, <2>4, <3>1, IPv4Ends
    <3> QED BY <1>6, <3>2
  <2>6. Host6(w, j, j + n)
    BY <1>11, <2>1, <2>5 DEF Host6
  <2> QED BY <1>11, <2>6, HostCases
<1>14. CASE HostN(m, i, e)
  <2>1. At(m, e) \notin HostChar /\ \A k \in i..(e - 1) : At(m, k) \in HostChar
    <3>1. At(m, Len(m)) \notin HostChar
      <4>1. At(m, Len(m)) \in {" ", NUL}
        BY ReadableIs
      <4> QED BY <4>1, HostCharacters
    <3>2. L \in i..L
      BY <1>1
    <3> QED BY <1>1, <1>14, <3>1, <3>2, SkipStops DEF HostN, L
  <2>2. \A k \in 0..(n - 1) : At(w, j + k) \in HostChar /\ m[i + k] \in HostChar
    <3> TAKE k \in 0..(n - 1)
    <3>1. i + k \in i..(e - 1)
      BY <1>1, <1>2, <1>3
    <3>2. m[i + k] = w[j + k]
      BY <1>4
    <3> QED BY <1>9, <2>1, <3>1, <3>2
  <2>3. \A k \in j..((j + n) - 1) : At(w, k) \in HostChar
    <3> TAKE k \in j..((j + n) - 1)
    <3>1. k - j \in 0..(n - 1) /\ j + (k - j) = k
      BY <1>3, <1>6
    <3> QED BY <2>2, <3>1
  <2>4. Skip(w, j, HostChar) = j + n
    <3>1. j + n \in j..Len(w)
      BY <1>3, <1>5, <1>6, <1>7 DEF W
    <3> QED BY <1>4, <1>6, <1>8, <2>3, <3>1, SkipIs
  <2>5. w[j] \in HostChar
    <3>1. 0 \in 0..(n - 1) /\ j + 0 = j
      BY <1>3, <1>6
    <3> QED BY <1>9, <2>2, <3>1
  <2>6. ~ParseIPv6(w, j).ok
    <3>1. w[j] # "["
      BY <2>5, HostCharacters
    <3>2. j \in 1..Len(w)
      BY <1>7 DEF W
    <3> QED BY <3>1, <3>2, IPv6Accepted
  <2>7. ~IsIPv4(w, j)
    <3> SUFFICES ASSUME IsIPv4(w, j) PROVE FALSE
      OBVIOUS
    <3>1. j + n \in j..Len(w)
      BY <1>3, <1>5, <1>6, <1>7 DEF W
    <3>2. /\ Run(w, j) \in j..(j + n) /\ At(w, Run(w, j)) \notin IPv4Char
          /\ \A k \in j..(Run(w, j) - 1) : At(w, k) \in IPv4Char
      BY <1>4, <1>6, <1>8, <3>1, IPv4Ends
    <3> DEFINE r == Run(w, j) - j
    <3>3. r \in 0..n /\ r \in Nat /\ r <= n /\ j + r = Run(w, j)
      BY <1>3, <1>6, <3>2
    <3> HIDE DEF r
    <3>4. \A k \in 0..(r - 1) : w[j + k] = m[i + k] /\ w[j + k] \in IPv4Char
      <4> TAKE k \in 0..(r - 1)
      <4>1. k \in 0..(n - 1) /\ j + k \in j..(Run(w, j) - 1)
        BY <1>3, <1>6, <3>3
      <4> QED BY <1>4, <1>9, <3>2, <4>1
    <3>5. w[j + r] \notin IPv4Char /\ m[i + r] \notin IPv4Char
      <4>1. CASE r = n
        <5>1. m[e] \notin IPv4Char
          BY <1>9, <2>1, HostCharacters
        <5> QED BY <1>3, <1>8, <4>1, <5>1
      <4>2. CASE r # n
        <5>1. r \in 0..(n - 1)
          BY <1>3, <3>3, <4>2
        <5> QED BY <1>4, <1>9, <3>2, <3>3, <5>1
      <4> QED BY <4>1, <4>2
    <3>6. SameRun(w, j, m, i, r)
      <4>1. i \in 1..L /\ i + r <= L /\ j + r <= W
        BY <1>1, <1>2, <1>3, <1>5, <1>6, <1>7, <3>3
      <4> QED BY <1>1, <1>4, <1>7, <3>4, <3>5, <4>1 DEF SameRun, L, W
    <3>7. IsIPv4(m, i)
      BY <3>3, <3>6, IPv4Moves
    <3> QED BY <1>14, <3>7 DEF HostN
  <2>8. HostN(w, j, j + n)
    <3>1. (j + n) - j = e - i
      BY <1>3, <1>6
    <3> QED BY <1>14, <2>4, <2>6, <2>7, <3>1 DEF HostN
  <2> QED BY <1>11, <2>8, HostCases
<1> QED BY <1>12, <1>13, <1>14

LEMMA RangeOf ==
  ASSUME NEW S, NEW s \in Seq(S), NEW C
  PROVE  /\ Range(s) \subseteq C <=> \A k \in 1..Len(s) : s[k] \in C
         /\ s # <<>> <=> Len(s) >= 1
         /\ \A c : c \in Range(s) <=> \E k \in 1..Len(s) : s[k] = c
<1>1. DOMAIN s = 1..Len(s)
  OBVIOUS
<1>2. Range(s) = {s[k] : k \in 1..Len(s)}
  BY <1>1 DEF Range
<1>3. s # <<>> <=> Len(s) >= 1
  <2>1. Len(s) \in Nat
    OBVIOUS
  <2>2. s # <<>> => Len(s) # 0
    BY EmptySeq
  <2>3. s = <<>> => Len(s) = 0
    OBVIOUS
  <2> QED BY <2>1, <2>2, <2>3
<1> QED BY <1>2, <1>3

\* A host that is accepted is a name or an address of the grammar.
LEMMA HostShape ==
  ASSUME NEW m, Readable(m), NEW i \in 1..Len(m), NEW e \in (i + 1)..Len(m),
         Host4(m, i, e) \/ Host6(m, i, e) \/ HostN(m, i, e)
  PROVE  /\ NameHost(Part(m, i, e)) \/ AddressHost(Part(m, i, e))
         /\ \A k \in i..(e - 1) : m[k] \in Char
<1> DEFINE L == Len(m)
           h == Part(m, i, e)
           n == e - i
<1>1. m \in Seq(AnyChar) /\ L \in Nat /\ i \in Int /\ 1 <= i /\ i <= L
  <2>1. m \in Seq(AnyChar) /\ Len(m) \in Nat
    BY ReadableIs
  <2> QED BY <2>1, Within
<1>2. e \in Int /\ i + 1 <= e /\ e <= L
  BY <1>1, Within
<1>3. h \in Seq(AnyChar) /\ Len(h) = n /\ \A k \in 1..n : h[k] = m[i + k - 1]
  <2>1. i \in 1..(L + 1) /\ e \in i..(L + 1)
    BY <1>1, <1>2
  <2>2. /\ Stands(m, i, h) /\ Len(h) = e - i
        /\ \A k \in 1..(e - i) : h[k] = m[i + k - 1]
    BY <1>1, <2>1, PartStands
  <2> QED BY <2>2 DEF Stands
<1>4. n \in Nat /\ n >= 1 /\ n = e - i
  BY <1>1, <1>2
<1>5. \A k \in i..(e - 1) : At(m, k) = m[k]
  <2>1. \A k \in i..(e - 1) : k \in 1..L
    BY <1>1, <1>2
  <2> QED BY <1>1, <2>1, AtIs
<1>6. \A k \in 1..n : i + k - 1 \in i..(e - 1)
  BY <1>1, <1>2, <1>4
<1>7. At(m, Len(m)) \notin IPv4Char /\ At(m, Len(m)) \notin HostChar /\ Len(m) \in i..Len(m)
  <2>1. At(m, Len(m)) \in {" ", NUL}
    BY ReadableIs
  <2> HIDE DEF L
  <2>2. L \in i..L
    BY <1>1
  <2> QED BY <2>1, <2>2, HostCharacters DEF L
<1> HIDE DEF L, h, n
<1>8. ASSUME \A k \in i..(e - 1) : At(m, k) \in HostChar
      PROVE  NameHost(h) /\ \A k \in i..(e - 1) : m[k] \in Char
  <2>1. \A k \in 1..n : h[k] \in HostChar
    <3> TAKE k \in 1..n
    <3>1. h[k] = m[i + k - 1] /\ m[i + k - 1] = At(m, i + k - 1)
      BY <1>3, <1>5, <1>6
    <3> QED BY <1>6, <1>8, <3>1
  <2>2. h # <<>> /\ Range(h) \subseteq HostChar
    BY <1>3, <1>4, <2>1, RangeOf
  <2>3. HostChar = Lower \union Digit \union {".", "-"}
    BY DEF HostChar
  <2> QED BY <1>5, <1>8, <2>2, <2>3, HostCharacters DEF NameHost
<1>9. CASE Host4(m, i, e)
  <2>1. \A k \in i..(e - 1) : At(m, k) \in IPv4Char
    BY <1>1, <1>9, <1>7, IPv4Ends DEF Host4
  <2> QED BY <1>8, <2>1, HostCharacters DEF h
<1>10. CASE HostN(m, i, e)
  <2>1. \A k \in i..(e - 1) : At(m, k) \in HostChar
    BY <1>1, <1>10, <1>7, SkipStops DEF HostN
  <2> QED BY <1>8, <2>1 DEF h
<1>11. CASE Host6(m, i, e)
  <2>1. ParseIPv6(m, i).ok /\ ParseIPv6(m, i).next = e
    BY <1>11 DEF Host6, Parsed
  <2>2. PICK x \in Int :
            /\ ParseIPv6(m, i) = Parsed(Part(m, i, x), x)
            /\ x - i \in 4..47 /\ m[i] = "[" /\ m[x - 1] = "]"
            /\ \A k \in (i + 1)..(x - 2) : At(m, k) \in IPv6Char
    BY <2>1, IPv6Accepted
  <2>3. x = e
    BY <2>1, <2>2 DEF Parsed
  <2>4. /\ e - i \in 4..47 /\ m[i] = "[" /\ m[e - 1] = "]"
        /\ \A k \in (i + 1)..(e - 2) : At(m, k) \in IPv6Char
    BY <2>2, <2>3
  <2>5. n >= 4
    BY <1>4, <2>4
  <2>6. h[1] = "["
    <3>1. 1 \in 1..n /\ i + 1 - 1 = i
      BY <1>1, <1>4
    <3> QED BY <1>3, <2>4, <3>1
  <2>7. Last(h) = "]"
    <3>1. n \in 1..n /\ i + n - 1 = e - 1
      BY <1>1, <1>2, <1>4
    <3>2. h[n] = "]"
      BY <1>3, <2>4, <3>1
    <3> QED BY <1>3, <3>2 DEF Last
  <2>8. \A k \in 2..(n - 1) : h[k] \in IPv6Char
    <3> TAKE k \in 2..(n - 1)
    <3>1. k \in 1..n /\ i + k - 1 \in (i + 1)..(e - 2) /\ i + k - 1 \in i..(e - 1)
      BY <1>1, <1>2, <1>4
    <3> QED BY <1>3, <1>5, <2>4, <3>1
  <2>9. Range(SubSeq(h, 2, n - 1)) \subseteq IPv6Char
    <3> DEFINE q == SubSeq(h, 2, n - 1)
               l == n - 1
    <3>1. l \in Int
      BY <1>4
    <3>2. \A k \in 2..l : h[k] \in IPv6Char
      BY <2>8
    <3> HIDE DEF l
    <3>3. SubSeq(h, 2, l) \in Seq(IPv6Char)
      BY <3>1, <3>2, SubSeqProperties
    <3>4. q \in Seq(IPv6Char)
      BY <3>3 DEF l
    <3> HIDE DEF q
    <3>5. \A k \in 1..Len(q) : q[k] \in IPv6Char
      BY <3>4
    <3>6. Range(q) \subseteq IPv6Char
      BY <3>4, <3>5, RangeOf
    <3> QED BY <3>6 DEF q
  <2>10. AddressHost(h)
    BY <1>3, <2>5, <2>6, <2>7, <2>9 DEF AddressHost, IPv6Char
  <2>11. \A k \in i..(e - 1) : m[k] \in Char
    <3> TAKE k \in i..(e - 1)
    <3>1. k = i \/ k = e - 1 \/ k \in (i + 1)..(e - 2)
      BY <1>1, <1>2
    <3> QED BY <1>5, <2>4, <3>1, HostCharacters
  <2> QED BY <2>10, <2>11 DEF h
<1> QED BY <1>9, <1>10, <1>11

\* A host name of the grammar is accepted, where it is not cut off.
LEMMA HostNamed ==
  ASSUME NEW m, Readable(m), NEW i, NEW h, Stands(m, i, h), NameHost(h), ~CutOff(h),
         Len(h) <= Limit, i + Len(h) \in 1..Len(m), m[i + Len(h)] \in {":", NUL}
  PROVE  ParseHost(m, i) = Parsed(h, i + Len(h))
<1> DEFINE L == Len(m)
           n == Len(h)
           e == i + n
<1>1. /\ m \in Seq(AnyChar) /\ h \in Seq(AnyChar) /\ i \in 1..(L + 1)
      /\ \A k \in 1..n : m[i + k - 1] = h[k]
  BY DEF Stands
<1>2. L \in Nat /\ n \in Nat
  BY <1>1
<1>3. i \in Int /\ 1 <= i
  BY <1>1, <1>2, Within
<1>4. n >= 1 /\ \A k \in 1..n : h[k] \in HostChar
  <2>1. h # <<>> /\ Range(h) \subseteq HostChar
    BY DEF NameHost, HostChar
  <2> QED BY <1>1, <2>1, RangeOf
<1>5. e \in 1..L /\ e \in Int /\ e <= L
  <2>1. e \in 1..L
    OBVIOUS
  <2> HIDE DEF L, n
  <2> QED BY <1>2, <1>3, <2>1
<1> HIDE DEF L, n
<1>6. i \in 1..L /\ e \in i..L /\ i + 1 <= e
  BY <1>2, <1>3, <1>4, <1>5
<1>7. At(m, e) \notin HostChar /\ At(m, e) \notin IPv4Char /\ At(m, e) = m[e]
  <2>1. m[e] \in {":", NUL}
    BY DEF n
  <2>2. At(m, e) = m[e]
    BY <1>1, <1>5, AtIs DEF L
  <2> HIDE DEF e
  <2> QED BY <2>1, <2>2, HostCharacters
<1>8. \A k \in i..(e - 1) : At(m, k) = h[k - i + 1] /\ m[k] = h[k - i + 1] /\ At(m, k) \in HostChar
  <2> TAKE k \in i..(e - 1)
  <2>1. k - i + 1 \in 1..n /\ i + (k - i + 1) - 1 = k /\ k \in 1..L
    BY <1>2, <1>3, <1>5
  <2> QED BY <1>1, <1>4, <2>1, AtIs DEF L
<1>9. Part(m, i, e) = h
  BY StandsIsPart DEF n
<1>10. /\ Run(m, i) \in i..e /\ At(m, Run(m, i)) \notin IPv4Char
       /\ \A k \in i..(Run(m, i) - 1) : At(m, k) \in IPv4Char
       /\ IsIPv4(m, i) => Run(m, i) > i
  BY <1>1, <1>3, <1>6, <1>7, IPv4Ends DEF L
<1>11. CASE IsIPv4(m, i)
  <2> DEFINE r == Run(m, i) - i
  <2>1. Run(m, i) \in Int /\ r \in 1..n /\ Run(m, i) = i + r /\ r \in Int /\ r >= 1 /\ r <= n
    <3>1. Run(m, i) \in Int /\ Run(m, i) > i /\ Run(m, i) <= e
      BY <1>3, <1>5, <1>10, <1>11
    <3> QED BY <1>2, <1>3, <3>1
  <2> HIDE DEF r
  <2>2. r = n
    <3> SUFFICES ASSUME r # n PROVE FALSE
      OBVIOUS
    <3>1. r \in 1..(n - 1) /\ r + 1 \in 1..n
      BY <1>2, <2>1
    <3>2. \A k \in 1..r : h[k] \in IPv4Char
      <4> TAKE k \in 1..r
      <4>1. /\ i + k - 1 \in i..(Run(m, i) - 1) /\ i + k - 1 \in i..(e - 1)
            /\ (i + k - 1) - i + 1 = k
        BY <1>2, <1>3, <2>1
      <4> QED BY <1>8, <1>10, <4>1
    <3>3. Range(SubSeq(h, 1, r)) \subseteq IPv4Char
      <4>1. SubSeq(h, 1, r) \in Seq(IPv4Char)
        BY <2>1, <3>2, SubSeqProperties
      <4> DEFINE q == SubSeq(h, 1, r)
      <4>2. q \in Seq(IPv4Char)
        BY <4>1
      <4> HIDE DEF q
      <4>3. \A k \in 1..Len(q) : q[k] \in IPv4Char
        BY <4>2
      <4> QED BY <4>2, <4>3, RangeOf DEF q
    <3>4. h[r + 1] \in Lower \union {"-"}
      <4>1. i + r \in i..(e - 1) /\ (i + r) - i + 1 = r + 1
        BY <1>2, <1>3, <3>1
      <4>2. At(m, i + r) = h[r + 1] /\ At(m, i + r) \notin IPv4Char
        BY <1>8, <1>10, <2>1, <4>1
      <4> QED BY <1>4, <3>1, <4>2, HostCharacters
    <3>5. Cardinality({k \in 1..r : h[k] = "."}) = 3
      <4> DEFINE T == {k \in 1..r : h[k] = "."}
                 d == i - 1
      <4>1. d \in Int /\ T \in SUBSET (1..r) /\ Dots(m, i) \in SUBSET Int
        BY <1>3, <2>1 DEF Dots
      <4>2. \A k \in Int : k \in T <=> k + d \in Dots(m, i)
        <5> TAKE k \in Int
        <5>1. k \in 1..r <=> k + d \in i..(Run(m, i) - 1)
          BY <1>3, <2>1
        <5>2. ASSUME k \in 1..r PROVE At(m, k + d) = h[k]
          <6>1. k + d \in i..(e - 1) /\ (k + d) - i + 1 = k
            BY <1>2, <1>3, <2>1, <5>2
          <6> QED BY <1>8, <6>1
        <5> QED BY <5>1, <5>2 DEF Dots
      <4> HIDE DEF T, d
      <4>3. Cardinality(Dots(m, i)) = Cardinality(T)
        <5> DEFINE U == Dots(m, i)
        <5>1. 1 \in Int /\ r \in Int /\ d \in Int
          BY <2>1, <4>1
        <5>2. T \in SUBSET (1..r) /\ U \in SUBSET Int /\ \A k \in Int : k \in T <=> k + d \in U
          BY <4>1, <4>2
        <5> HIDE DEF U
        <5>3. IsMoved(T, 1, r, U, d)
          BY <5>1, <5>2 DEF IsMoved
        <5> QED BY <5>3, MovedSet DEF U
      <4> QED BY <1>11, <4>3 DEF IsIPv4, T
    <3>6. CutOff(h)
      BY <3>1, <3>3, <3>4, <3>5 DEF CutOff, IPv4Char, n
    <3> QED BY <3>6
  <2>3. Host4(m, i, e)
    BY <1>11, <2>1, <2>2 DEF Host4
  <2> QED BY <1>9, <2>3, HostCases DEF n
<1>12. CASE ~IsIPv4(m, i)
  <2>1. ~ParseIPv6(m, i).ok
    <3>1. i \in i..(e - 1)
      BY <1>3, <1>5, <1>6
    <3>2. m[i] # "["
      BY <1>8, <3>1, HostCharacters
    <3> QED BY <1>6, <3>2, IPv6Accepted DEF L
  <2>2. Skip(m, i, HostChar) = e
    BY <1>1, <1>3, <1>6, <1>7, <1>8, SkipIs DEF L
  <2>3. e - i \in 1..Limit
    <3>1. n <= Limit /\ Limit \in Nat
      BY StringAssumption DEF n
    <3> QED BY <1>2, <1>3, <1>4, <3>1
  <2>4. HostN(m, i, e)
    BY <1>12, <2>1, <2>2, <2>3 DEF HostN
  <2> QED BY <1>9, <2>4, HostCases DEF n
<1> QED BY <1>11, <1>12

-----------------------------------------------------------------------------
(* Server names *)

PortEnd(m, e) == Min({Skip(m, e + 1, Digit), e + 6})

LEMMA LesserOf ==
  ASSUME NEW a \in Int, NEW b \in Int
  PROVE  Min({a, b}) = IF a <= b THEN a ELSE b
<1>1. CASE a <= b
  <2>1. Min({a, b}) = a
    <3> DEFINE T == {a, b}
    <3>1. T \in SUBSET Int /\ a \in T /\ \A k \in T : a <= k
      BY <1>1
    <3> HIDE DEF T
    <3>2. Min(T) = a
      BY <3>1, IsLeast
    <3> QED BY <3>2 DEF T
  <2> QED BY <1>1, <2>1
<1>2. CASE ~(a <= b)
  <2>1. Min({a, b}) = b
    <3> DEFINE T == {a, b}
    <3>1. T \in SUBSET Int /\ b \in T /\ \A k \in T : b <= k
      BY <1>2
    <3> HIDE DEF T
    <3>2. Min(T) = b
      BY <3>1, IsLeast
    <3> QED BY <3>2 DEF T
  <2> QED BY <1>2, <2>1
<1> QED BY <1>1, <1>2

LEMMA PortEndIs ==
  ASSUME NEW m, Readable(m), NEW e \in 1..Len(m), m[e] = ":"
  PROVE  /\ PortEnd(m, e) \in (e + 1)..Len(m) /\ PortEnd(m, e) <= e + 6
         /\ \A k \in (e + 1)..(PortEnd(m, e) - 1) : m[k] \in Digit
<1> DEFINE L == Len(m)
           j == Skip(m, e + 1, Digit)
           x == PortEnd(m, e)
<1>1. m \in Seq(AnyChar) /\ L \in Nat /\ e \in Int /\ 1 <= e /\ e <= L
  <2>1. m \in Seq(AnyChar) /\ Len(m) \in Nat
    BY ReadableIs
  <2> QED BY <2>1, Within
<1>2. At(m, L) \notin Digit /\ L \in (e + 1)..L
  <2>1. At(m, L) \in {" ", NUL} /\ At(m, L) # ":" /\ At(m, L) = m[L]
    BY ReadableIs
  <2>2. e # L
    BY <2>1
  <2>3. At(m, L) \notin Digit
    BY <2>1, Delimiters
  <2> HIDE DEF L
  <2>4. L \in (e + 1)..L
    BY <1>1, <2>2
  <2> QED BY <2>3, <2>4
<1>3. j \in (e + 1)..L /\ \A k \in (e + 1)..(j - 1) : At(m, k) \in Digit
  BY <1>1, <1>2, SkipStops
<1> HIDE DEF L, j
<1>4. j \in Int /\ e + 1 <= j /\ j <= L
  BY <1>1, <1>3, Within
<1>5. x = IF j <= e + 6 THEN j ELSE e + 6
  BY <1>1, <1>4, LesserOf DEF PortEnd, j
<1> HIDE DEF x
<1>6. x \in Int /\ e + 1 <= x /\ x <= j /\ x <= e + 6
  BY <1>1, <1>4, <1>5
<1>7. x \in (e + 1)..L
  BY <1>1, <1>4, <1>6
<1>8. \A k \in (e + 1)..(x - 1) : m[k] \in Digit
  <2> TAKE k \in (e + 1)..(x - 1)
  <2>1. k \in (e + 1)..(j - 1) /\ k \in 1..L
    BY <1>1, <1>4, <1>6
  <2> QED BY <1>1, <1>3, <2>1, AtIs DEF L
<1> QED BY <1>6, <1>7, <1>8 DEF x, L

LEMMA PortStands ==
  ASSUME NEW m, Readable(m), NEW e \in 1..Len(m), NEW p,
         Stands(m, e + 1, p), Port(p), (e + 1) + Len(p) \in 1..Len(m),
         m[(e + 1) + Len(p)] \notin Digit
  PROVE  PortEnd(m, e) = (e + 1) + Len(p)
<1> DEFINE L == Len(m)
           n == Len(p)
           x == (e + 1) + n
<1>1. m \in Seq(AnyChar) /\ L \in Nat /\ e \in Int /\ 1 <= e /\ e <= L
  <2>1. m \in Seq(AnyChar) /\ Len(m) \in Nat
    BY ReadableIs
  <2> QED BY <2>1, Within
<1>2. p \in Seq(AnyChar) /\ \A k \in 1..n : m[(e + 1) + k - 1] = p[k]
  BY DEF Stands
<1>3. n \in Nat /\ n <= 5
  <2>1. n \in 1..5
    BY DEF Port
  <2> HIDE DEF n
  <2> QED BY <2>1
<1>4. \A k \in 1..n : p[k] \in Digit
  BY <1>2, RangeOf DEF Port
<1>5. At(m, x) \notin Digit /\ x \in 1..L
  BY <1>1, AtIs
<1> HIDE DEF L, n
<1>6. x \in Int /\ x \in (e + 1)..L /\ x <= e + 6
  BY <1>1, <1>3, <1>5
<1>7. \A k \in (e + 1)..(x - 1) : At(m, k) \in Digit
  <2> TAKE k \in (e + 1)..(x - 1)
  <2>1. k - e \in 1..n /\ (e + 1) + (k - e) - 1 = k /\ k \in 1..L
    BY <1>1, <1>3, <1>6
  <2> QED BY <1>1, <1>2, <1>4, <2>1, AtIs DEF L
<1> HIDE DEF x
<1>8. Skip(m, e + 1, Digit) = x
  BY <1>1, <1>5, <1>6, <1>7, SkipIs DEF L
<1>9. PortEnd(m, e) = x
  BY <1>1, <1>6, <1>8, LesserOf DEF PortEnd
<1> QED BY <1>9 DEF x, n

\* A server name is a host up to e and, after a ':', a port.
LEMMA ServerIs ==
  ASSUME NEW m, NEW i, NEW h, NEW e, ParseHost(m, i) = Parsed(h, e)
  PROVE  LET p == Part(m, e + 1, PortEnd(m, e))
             s == ParseServerName(m, i)
         IN  /\ m[e] # ":" => s = Parsed([hostname |-> h, port |-> None], e)
             /\ m[e] = ":" /\ Len(p) >= 1 /\ Decimal(p) <= 65535
                  => s = Parsed([hostname |-> h, port |-> p], PortEnd(m, e))
<1>1. ParseHost(m, i).ok /\ ParseHost(m, i).next = e /\ ParseHost(m, i).value = h
  BY DEF Parsed
<1>2. ParseServerName(m, i) =
        WithPort(m, ParseHost(m, i), Part(m, e + 1, PortEnd(m, e)), PortEnd(m, e))
  BY <1>1 DEF ParseServerName, UpToPort, PortEnd
<1> QED BY <1>1, <1>2 DEF WithPort

LEMMA PortFits ==
  ASSUME NEW m, NEW i, NEW h, NEW e, ParseHost(m, i) = Parsed(h, e), m[e] = ":",
         ParseServerName(m, i).ok
  PROVE  LET p == Part(m, e + 1, PortEnd(m, e))
         IN  Len(p) >= 1 /\ Decimal(p) <= 65535
<1> DEFINE p == Part(m, e + 1, PortEnd(m, e))
<1>1. ParseHost(m, i).ok /\ ParseHost(m, i).next = e
  BY DEF Parsed
<1>2. ParseServerName(m, i) = WithPort(m, ParseHost(m, i), p, PortEnd(m, e))
  BY <1>1 DEF ParseServerName, UpToPort, PortEnd
<1> HIDE DEF p
<1>3. CASE Len(p) >= 1 /\ Decimal(p) <= 65535
  BY <1>3 DEF p
<1>4. CASE ~(Len(p) >= 1 /\ Decimal(p) <= 65535)
  <2>1. ParseServerName(m, i) = Fail
    BY <1>1, <1>2, <1>4 DEF WithPort
  <2> QED BY <2>1 DEF Fail
<1> QED BY <1>3, <1>4

\* The parts of a server name at i that is accepted: up to e the host, and up
\* to x the port.
PortAt(m, e, x) ==
    /\ e + 2 <= x /\ x <= e + 6 /\ m[e] = ":"
    /\ \A k \in (e + 1)..(x - 1) : m[k] \in Digit
    /\ Decimal(Part(m, e + 1, x)) <= 65535

LEMMA ServerAccepted ==
  ASSUME NEW m, Readable(m), NEW i \in 1..Len(m), ParseServerName(m, i).ok
  PROVE  \E e \in (i + 1)..Len(m) :
           /\ HostAt(m, i, e)
           /\ \/ /\ m[e] # ":"
                 /\ ParseServerName(m, i).value = [hostname |-> Part(m, i, e), port |-> None]
              \/ \E x \in 1..Len(m) :
                    /\ PortAt(m, e, x)
                    /\ ParseServerName(m, i).value =
                         [hostname |-> Part(m, i, e), port |-> Part(m, e + 1, x)]
<1> DEFINE L == Len(m)
<1>1. m \in Seq(AnyChar) /\ L \in Nat /\ i \in Int /\ 1 <= i /\ i <= L
  <2>1. m \in Seq(AnyChar) /\ Len(m) \in Nat
    BY ReadableIs
  <2> QED BY <2>1, Within
<1>2. ParseHost(m, i).ok
  BY DEF ParseServerName, UpToPort, WithPort, Fail
<1>3. PICK e \in (i + 1)..Len(m) : HostAt(m, i, e)
  BY <1>2, HostAccepted DEF HostAt
<1>4. ParseHost(m, i) = Parsed(Part(m, i, e), e)
  BY <1>3, HostCases DEF HostAt
<1>5. CASE m[e] # ":"
  <2>1. ParseServerName(m, i).value = [hostname |-> Part(m, i, e), port |-> None]
    BY <1>4, <1>5, ServerIs DEF Parsed
  <2> QED BY <1>3, <1>5, <2>1
<1>6. CASE m[e] = ":"
  <2> DEFINE x == PortEnd(m, e)
             p == Part(m, e + 1, x)
  <2>1. Len(p) >= 1 /\ Decimal(p) <= 65535
    BY <1>4, <1>6, PortFits
  <2>2. ParseServerName(m, i).value = [hostname |-> Part(m, i, e), port |-> p]
    BY <1>4, <1>6, <2>1, ServerIs DEF Parsed
  <2>3. e \in Int /\ i + 1 <= e /\ e <= L
    BY <1>1, <1>3, Within
  <2>4. e \in 1..Len(m)
    BY <1>1, <2>3
  <2>5. /\ x \in (e + 1)..L /\ x <= e + 6
        /\ \A k \in (e + 1)..(x - 1) : m[k] \in Digit
    BY <1>6, <2>4, PortEndIs
  <2> HIDE DEF x, L
  <2>6. x \in Int /\ e + 1 <= x /\ x <= L
    BY <1>1, <2>3, <2>5
  <2>7. Len(p) = x - (e + 1)
    <3>1. e + 1 \in 1..(L + 1) /\ x \in (e + 1)..(L + 1)
      BY <1>1, <2>3, <2>6
    <3> QED BY <1>1, <3>1, PartStands DEF L
  <2>8. e + 2 <= x /\ x \in 1..L
    <3> HIDE DEF p
    <3>1. x - (e + 1) >= 1
      BY <2>1, <2>7
    <3> QED BY <1>1, <2>3, <2>6, <3>1
  <2>9. PortAt(m, e, x)
    BY <1>6, <2>1, <2>5, <2>8 DEF PortAt
  <2> QED BY <1>3, <2>2, <2>8, <2>9 DEF L
<1> QED BY <1>5, <1>6

LEMMA PortWritten ==
  ASSUME NEW m, Readable(m), NEW i, NEW h, NEW e \in 1..Len(m),
         ParseHost(m, i) = Parsed(h, e), m[e] = ":", NEW p,
         Stands(m, e + 1, p), Port(p), (e + 1) + Len(p) \in 1..Len(m),
         m[(e + 1) + Len(p)] \notin Digit
  PROVE  /\ ParseServerName(m, i).ok
         /\ ParseServerName(m, i).value = [hostname |-> h, port |-> p]
<1>1. PortEnd(m, e) = (e + 1) + Len(p)
  BY PortStands
<1>2. Part(m, e + 1, PortEnd(m, e)) = p
  BY <1>1, StandsIsPart
<1>3. Len(p) >= 1 /\ Decimal(p) <= 65535
  <2>1. Len(p) \in 1..5 /\ Decimal(p) <= 65535
    BY DEF Port
  <2> DEFINE n == Len(p)
  <2>2. n \in 1..5
    BY <2>1
  <2> HIDE DEF n
  <2>3. n >= 1
    BY <2>2
  <2> QED BY <2>1, <2>3 DEF n
<1>4. ParseServerName(m, i) = Parsed([hostname |-> h, port |-> p], PortEnd(m, e))
  <2>1. /\ ParseHost(m, i).ok /\ ParseHost(m, i).next = e
        /\ ParseHost(m, i).value = h
    BY DEF Parsed
  <2>2. ParseServerName(m, i) = WithPort(m, ParseHost(m, i), p, PortEnd(m, e))
    BY <1>2, <2>1 DEF ParseServerName, UpToPort, PortEnd
  <2> QED BY <1>3, <2>1, <2>2 DEF WithPort
<1> QED BY <1>4 DEF Parsed

LEMMA PortShape ==
  ASSUME NEW m, Readable(m), NEW e \in 1..Len(m), NEW x \in 1..Len(m), PortAt(m, e, x)
  PROVE  /\ Port(Part(m, e + 1, x)) /\ Stands(m, e + 1, Part(m, e + 1, x))
         /\ (e + 1) + Len(Part(m, e + 1, x)) = x
         /\ \A k \in 1..Len(Part(m, e + 1, x)) : Part(m, e + 1, x)[k] \in Char
<1> DEFINE L == Len(m)
           p == Part(m, e + 1, x)
           n == x - (e + 1)
<1>1. m \in Seq(AnyChar) /\ L \in Nat /\ e \in Int /\ 1 <= e /\ x \in Int /\ x <= L
  <2>1. m \in Seq(AnyChar) /\ Len(m) \in Nat
    BY ReadableIs
  <2> QED BY <2>1, Within
<1>2. e + 2 <= x /\ x <= e + 6
  BY DEF PortAt
<1>3. e + 1 \in 1..(L + 1) /\ x \in (e + 1)..(L + 1) /\ n \in 1..5 /\ (e + 1) + n = x
  BY <1>1, <1>2
<1>4. /\ Stands(m, e + 1, p) /\ Len(p) = n
      /\ \A k \in 1..n : p[k] = m[(e + 1) + k - 1]
  BY <1>1, <1>3, PartStands
<1>5. \A k \in 1..n : p[k] \in Digit
  <2> TAKE k \in 1..n
  <2>1. (e + 1) + k - 1 \in (e + 1)..(x - 1)
    BY <1>1, <1>3
  <2> QED BY <1>4, <2>1 DEF PortAt
<1>6. p \in Seq(AnyChar)
  BY <1>4 DEF Stands
<1>7. Decimal(p) <= 65535
  BY DEF PortAt
<1> HIDE DEF p
<1>8. Range(p) \subseteq Digit
  BY <1>4, <1>5, <1>6, RangeOf
<1>9. Port(p)
  BY <1>3, <1>4, <1>7, <1>8 DEF Port
<1>10. \A k \in 1..Len(p) : p[k] \in Char
  BY <1>4, <1>5, HostCharacters
<1> QED BY <1>3, <1>4, <1>9, <1>10 DEF p

LEMMA Recomposed ==
  ASSUME NEW h \in Seq(AnyChar), NEW p \in Seq(AnyChar)
  PROVE  /\ ParserRecomposeServerPart([hostname |-> h, port |-> None]) = h
         /\ ParserRecomposeServerPart([hostname |-> h, port |-> p]) = h \o (<<":">> \o p)
         /\ <<":">> \o p \in Seq(AnyChar) /\ h \o (<<":">> \o p) \in Seq(AnyChar)
         /\ Len(h \o (<<":">> \o p)) = Len(h) + 1 + Len(p)
<1>1. p # None
  BY NoneAssumption DEF AnyChar
<1>2. h \o <<>> = h
  BY ConcatEmptySeq
<1> DEFINE c == <<":">>
<1>3. c \in Seq(AnyChar) /\ Len(c) = 1
  <2>1. ":" \in AnyChar
    BY Delimiters DEF AnyChar
  <2> QED BY <2>1
<1>4. /\ ParserRecomposeServerPart([hostname |-> h, port |-> None]) = h
      /\ ParserRecomposeServerPart([hostname |-> h, port |-> p]) = h \o (c \o p)
  BY <1>1, <1>2 DEF ParserRecomposeServerPart
<1> HIDE DEF c
<1>5. c \o p \in Seq(AnyChar) /\ Len(c \o p) = Len(c) + Len(p)
  <2>1. c \in Seq(AnyChar)
    BY <1>3
  <2> QED BY <2>1
<1> DEFINE q == c \o p
<1>6. q \in Seq(AnyChar) /\ q = c \o p
  BY <1>5
<1> HIDE DEF q
<1>7. h \o q \in Seq(AnyChar) /\ Len(h \o q) = Len(h) + Len(q)
  BY <1>6
<1>8. Len(h) \in Nat /\ Len(p) \in Nat
  OBVIOUS
<1>9. Len(h \o q) = Len(h) + 1 + Len(p)
  BY <1>3, <1>5, <1>6, <1>7, <1>8
<1> QED BY <1>4, <1>5, <1>6, <1>7, <1>9 DEF c

\* A host, a ':' and a port one after the other.
Texts(m, i, h, p) ==
    m \in Seq(AnyChar) /\ i \in Int /\ h \in Seq(AnyChar) /\ p \in Seq(AnyChar)

LEMMA ServerStands ==
  ASSUME NEW m, NEW i, NEW h, NEW p, Texts(m, i, h, p)
  PROVE  Stands(m, i, h \o (<<":">> \o p)) <=>
           /\ Stands(m, i, h) /\ i + Len(h) \in 1..Len(m) /\ m[i + Len(h)] = ":"
           /\ Stands(m, (i + Len(h)) + 1, p)
<1> USE DEF Texts
<1> DEFINE c == <<":">>
           q == c \o p
           j == i + Len(h)
<1>1. ":" \in AnyChar
  BY Delimiters DEF AnyChar
<1>2. c \in Seq(AnyChar) /\ Len(c) = 1
  BY <1>1
<1>3. j \in Int
  <2>1. Len(h) \in Nat
    OBVIOUS
  <2> QED BY <2>1
<1> HIDE DEF j
<1>4. Stands(m, j, c) <=> j \in 1..Len(m) /\ m[j] = ":"
  BY <1>1, <1>3, StandsOne
<1> HIDE DEF c
<1>5. q \in Seq(AnyChar)
  BY <1>2
<1>6. Stands(m, j, q) <=> Stands(m, j, c) /\ Stands(m, j + 1, p)
  BY <1>2, StandsParted
<1> HIDE DEF q
<1>7. Stands(m, i, h \o q) <=> Stands(m, i, h) /\ Stands(m, j, q)
  BY <1>5, StandsParted DEF j
<1> QED BY <1>4, <1>6, <1>7 DEF j, q, c

\* What is accepted as a server stands where it was read, and is one.
LEMMA ServerShape ==
  ASSUME NEW m, Readable(m), NEW i \in 1..Len(m), ParseServerName(m, i).ok
  PROVE  LET v == ParseServerName(m, i).value
             s == ParserRecomposeServerPart(v)
         IN  /\ Stands(m, i, s) /\ \A k \in 1..Len(s) : s[k] \in Char
             /\ NameHost(v.hostname) \/ AddressHost(v.hostname)
             /\ v.port # None => Port(v.port)
<1> DEFINE L == Len(m)
           v == ParseServerName(m, i).value
           s == ParserRecomposeServerPart(v)
<1>1. m \in Seq(AnyChar) /\ L \in Nat /\ i \in Int /\ 1 <= i /\ i <= L
  <2>1. m \in Seq(AnyChar) /\ Len(m) \in Nat
    BY ReadableIs
  <2> QED BY <2>1, Within
<1>2. PICK e \in (i + 1)..Len(m) :
        /\ HostAt(m, i, e)
        /\ \/ /\ m[e] # ":"
              /\ v = [hostname |-> Part(m, i, e), port |-> None]
           \/ \E x \in 1..Len(m) :
                 /\ PortAt(m, e, x)
                 /\ v = [hostname |-> Part(m, i, e), port |-> Part(m, e + 1, x)]
  BY ServerAccepted
<1>3. e \in Int /\ i + 1 <= e /\ e <= L /\ e \in 1..L
  <2>1. e \in Int /\ i + 1 <= e /\ e <= L
    BY <1>1, <1>2, Within
  <2> QED BY <1>1, <2>1
<1> DEFINE h == Part(m, i, e)
<1>4. NameHost(h) \/ AddressHost(h)
  BY <1>2, HostShape DEF HostAt
<1>5. \A k \in i..(e - 1) : m[k] \in Char
  BY <1>2, HostShape DEF HostAt
<1>6. Stands(m, i, h) /\ Len(h) = e - i /\ \A k \in 1..(e - i) : h[k] = m[i + k - 1]
  <2>1. i \in 1..(L + 1) /\ e \in i..(L + 1)
    BY <1>1, <1>3
  <2> QED BY <1>1, <2>1, PartStands
<1>7. h \in Seq(AnyChar) /\ i + Len(h) = e
  <2>1. h \in Seq(AnyChar)
    BY <1>6 DEF Stands
  <2> HIDE DEF h
  <2> QED BY <1>1, <1>3, <1>6, <2>1
<1>8. \A k \in 1..Len(h) : h[k] \in Char
  <2> TAKE k \in 1..Len(h)
  <2>1. k \in 1..(e - i) /\ i + k - 1 \in i..(e - 1)
    BY <1>1, <1>3, <1>6
  <2> QED BY <1>5, <1>6, <2>1
<1> HIDE DEF h, v
<1>9. CASE v = [hostname |-> h, port |-> None]
  <2>1. s = h
    BY <1>7, <1>9, Recomposed
  <2> QED BY <1>4, <1>6, <1>8, <1>9, <2>1 DEF v
<1>10. ASSUME NEW x \in 1..Len(m), PortAt(m, e, x),
              v = [hostname |-> h, port |-> Part(m, e + 1, x)]
       PROVE  /\ Stands(m, i, s) /\ \A k \in 1..Len(s) : s[k] \in Char
              /\ NameHost(v.hostname) \/ AddressHost(v.hostname)
              /\ v.port # None => Port(v.port)
  <2> DEFINE p == Part(m, e + 1, x)
  <2>1. /\ Port(p) /\ Stands(m, e + 1, p) /\ \A k \in 1..Len(p) : p[k] \in Char
    BY <1>3, <1>10, PortShape
  <2>2. p \in Seq(AnyChar) /\ v = [hostname |-> h, port |-> p]
    BY <1>10, <2>1 DEF Stands
  <2>3. m[e] = ":"
    BY <1>10 DEF PortAt
  <2> HIDE DEF p
  <2>4. s = h \o (<<":">> \o p)
    BY <1>7, <2>2, Recomposed
  <2>5. Stands(m, i, s)
    <3>1. /\ Stands(m, i, h) /\ i + Len(h) \in 1..Len(m) /\ m[i + Len(h)] = ":"
          /\ Stands(m, (i + Len(h)) + 1, p)
      BY <1>3, <1>6, <1>7, <2>1, <2>3
    <3>2. Texts(m, i, h, p)
      BY <1>1, <1>7, <2>2 DEF Texts
    <3> HIDE DEF L, s
    <3>3. Stands(m, i, h \o (<<":">> \o p))
      BY <3>1, <3>2, ServerStands
    <3> QED BY <2>4, <3>3
  <2>6. \A k \in 1..Len(s) : s[k] \in Char
    <3> DEFINE a == Len(h)
               b == Len(p)
               n == Len(s)
    <3>1. a \in Nat /\ b \in Nat /\ n = a + 1 + b
      <4>1. a \in Nat /\ b \in Nat
        BY <1>7, <2>2
      <4>2. Len(s) = Len(h) + 1 + Len(p)
        BY <1>7, <2>2, <2>4, Recomposed
      <4> QED BY <4>1, <4>2
    <3>2. \A k \in 1..n : s[k] = m[i + k - 1]
      BY <2>5 DEF Stands
    <3>3. \A k \in 1..a : m[i + k - 1] = h[k] /\ h[k] \in Char
      BY <1>6, <1>8 DEF Stands
    <3>4. \A k \in 1..b : m[(e + 1) + k - 1] = p[k] /\ p[k] \in Char
      BY <2>1 DEF Stands
    <3>5. i + a = e
      BY <1>7
    <3> HIDE DEF a, b, n, s
    <3>6. ASSUME NEW k \in 1..n PROVE s[k] \in Char
      <4>1. CASE k <= a
        BY <3>1, <3>2, <3>3, <4>1
      <4>2. CASE k = a + 1
        <5>1. i + k - 1 = e
          BY <1>1, <3>1, <3>5, <4>2
        <5> QED BY <2>3, <3>2, <5>1, Delimiters
      <4>3. CASE k > a + 1
        <5>1. k - (a + 1) \in 1..b /\ (e + 1) + (k - (a + 1)) - 1 = i + k - 1
          BY <1>1, <1>3, <3>1, <3>5, <4>3
        <5> QED BY <3>2, <3>4, <5>1
      <4> QED BY <3>1, <4>1, <4>2, <4>3
    <3> QED BY <3>6 DEF n
  <2>7. v.hostname = h /\ v.port = p
    BY <2>2
  <2> QED BY <1>4, <2>1, <2>5, <2>6, <2>7
<1> QED BY <1>2, <1>9, <1>10 DEF v, h

LEMMA NoPort ==
  ASSUME NEW m, NEW i, NEW h, NEW e, ParseHost(m, i) = Parsed(h, e), m[e] # ":"
  PROVE  /\ ParseServerName(m, i).ok
         /\ ParseServerName(m, i).value = [hostname |-> h, port |-> None]
<1>1. ParseServerName(m, i) = Parsed([hostname |-> h, port |-> None], e)
  <2>1. /\ ParseHost(m, i).ok /\ ParseHost(m, i).next = e
        /\ ParseHost(m, i).value = h
    BY DEF Parsed
  <2> QED BY <2>1 DEF ParseServerName, UpToPort, WithPort
<1> QED BY <1>1 DEF Parsed

\* The server that was accepted is accepted wherever it is written out.
ServerCopied(m, i, w, j, s) ==
    /\ Readable(m) /\ i \in 1..Len(m) /\ ParseServerName(m, i).ok
    /\ Readable(w) /\ j \in Int
    /\ s = ParserRecomposeServerPart(ParseServerName(m, i).value)
    /\ Stands(w, j, s) /\ j + Len(s) \in 1..Len(w) /\ w[j + Len(s)] = NUL

LEMMA ServerMoves ==
  ASSUME NEW m, NEW i, NEW w, NEW j, NEW s, ServerCopied(m, i, w, j, s)
  PROVE  /\ ParseServerName(w, j).ok
         /\ ParseServerName(w, j).value = ParseServerName(m, i).value
<1> SUFFICES ASSUME Readable(m), i \in 1..Len(m), ParseServerName(m, i).ok,
                    Readable(w), j \in Int,
                    s = ParserRecomposeServerPart(ParseServerName(m, i).value),
                    Stands(w, j, s), j + Len(s) \in 1..Len(w), w[j + Len(s)] = NUL
             PROVE  /\ ParseServerName(w, j).ok
                    /\ ParseServerName(w, j).value = ParseServerName(m, i).value
  BY DEF ServerCopied
<1> DEFINE L == Len(m)
           v == ParseServerName(m, i).value
<1>1. m \in Seq(AnyChar) /\ L \in Nat /\ i \in Int /\ 1 <= i /\ i <= L
  <2>1. m \in Seq(AnyChar) /\ Len(m) \in Nat
    BY ReadableIs
  <2> QED BY <2>1, Within
<1>2. PICK e \in (i + 1)..Len(m) :
        /\ HostAt(m, i, e)
        /\ \/ /\ m[e] # ":"
              /\ v = [hostname |-> Part(m, i, e), port |-> None]
           \/ \E x \in 1..Len(m) :
                 /\ PortAt(m, e, x)
                 /\ v = [hostname |-> Part(m, i, e), port |-> Part(m, e + 1, x)]
  BY ServerAccepted
<1>3. e \in Int /\ i + 1 <= e /\ e <= L /\ e \in 1..L
  <2>1. e \in Int /\ i + 1 <= e /\ e <= L
    BY <1>1, <1>2, Within
  <2> QED BY <1>1, <2>1
<1> DEFINE h == Part(m, i, e)
<1>4. Stands(m, i, h) /\ Len(h) = e - i
  <2>1. i \in 1..(L + 1) /\ e \in i..(L + 1)
    BY <1>1, <1>3
  <2> QED BY <1>1, <2>1, PartStands
<1>5. h \in Seq(AnyChar)
  BY <1>4 DEF Stands
<1>6. w \in Seq(AnyChar)
  BY ReadableIs
<1>7. ASSUME Stands(w, j, h), j + Len(h) \in 1..Len(w), w[j + Len(h)] \in {":", NUL}
      PROVE  ParseHost(w, j) = Parsed(h, j + Len(h))
  <2> DEFINE n == Len(h)
  <2>1. n = e - i /\ Same(m, i, w, j, n)
    BY <1>4, <1>7, StandsSame
  <2>2. j + n \in 1..Len(w) /\ w[j + n] \in {":", NUL}
    BY <1>7
  <2> HIDE DEF n
  <2>3. HostCopied(m, i, e, w, j, n)
    BY <1>2, <2>1, <2>2 DEF HostCopied
  <2>4. ParseHost(w, j) = Parsed(Part(m, i, e), j + n)
    BY <2>3, HostMoves
  <2> QED BY <2>4 DEF n
<1> HIDE DEF v, h
<1>8. CASE v = [hostname |-> h, port |-> None]
  <2>1. s = h
    BY <1>5, <1>8, Recomposed DEF v
  <2>2. ParseHost(w, j) = Parsed(h, j + Len(h)) /\ w[j + Len(h)] # ":"
    BY <1>7, <2>1 DEF NUL
  <2>3. ParseServerName(w, j).ok /\ ParseServerName(w, j).value = [hostname |-> h, port |-> None]
    BY <2>2, NoPort
  <2> QED BY <1>8, <2>3 DEF v
<1>9. ASSUME NEW x \in 1..Len(m), PortAt(m, e, x),
             v = [hostname |-> h, port |-> Part(m, e + 1, x)]
      PROVE  ParseServerName(w, j).ok /\ ParseServerName(w, j).value = v
  <2> DEFINE p == Part(m, e + 1, x)
  <2>1. Port(p) /\ Stands(m, e + 1, p)
    BY <1>3, <1>9, PortShape
  <2>2. p \in Seq(AnyChar) /\ v = [hostname |-> h, port |-> p]
    BY <1>9, <2>1 DEF Stands
  <2> HIDE DEF p
  <2>3. s = h \o (<<":">> \o p) /\ Len(h \o (<<":">> \o p)) = Len(h) + 1 + Len(p)
    BY <1>5, <2>2, Recomposed DEF v
  <2> DEFINE d == j + Len(h)
  <2>4. Stands(w, j, h) /\ d \in 1..Len(w) /\ w[d] = ":" /\ Stands(w, d + 1, p)
    <3>1. Texts(w, j, h, p)
      BY <1>5, <1>6, <2>2 DEF Texts
    <3>2. Stands(w, j, h \o (<<":">> \o p))
      BY <2>3
    <3> QED BY <3>1, <3>2, ServerStands
  <2>5. ParseHost(w, j) = Parsed(h, d)
    BY <1>7, <2>4
  <2>6. (d + 1) + Len(p) = j + Len(s)
    <3> DEFINE a == Len(h)
               b == Len(p)
               c == Len(s)
    <3>1. a \in Nat /\ b \in Nat /\ c = a + 1 + b
      <4>1. Len(h) \in Nat /\ Len(p) \in Nat
        BY <1>5, <2>2
      <4> QED BY <2>3, <4>1
    <3> HIDE DEF a, b, c
    <3>2. ((j + a) + 1) + b = j + c
      BY <3>1
    <3> QED BY <3>2 DEF a, b, c
  <2> HIDE DEF d
  <2>7. (d + 1) + Len(p) \in 1..Len(w) /\ w[(d + 1) + Len(p)] \notin Digit
    <3>1. NUL \notin Digit
      BY Delimiters
    <3> QED BY <2>6, <3>1
  <2>8. /\ ParseServerName(w, j).ok
        /\ ParseServerName(w, j).value = [hostname |-> h, port |-> p]
    <3> HIDE <1>7, <1>9
    <3>1. /\ Readable(w) /\ d \in 1..Len(w) /\ ParseHost(w, j) = Parsed(h, d) /\ w[d] = ":"
          /\ Stands(w, d + 1, p) /\ Port(p) /\ (d + 1) + Len(p) \in 1..Len(w)
          /\ w[(d + 1) + Len(p)] \notin Digit
      BY <2>1, <2>4, <2>5, <2>7
    <3> QED BY <3>1, PortWritten
  <2> QED BY <2>2, <2>8
<1> QED BY <1>2, <1>8, <1>9 DEF v, h

-----------------------------------------------------------------------------
(* Identifiers *)

Parts(m, sigil, local, server, s) ==
    /\ m \in Seq(AnyChar) /\ sigil \in AnyChar /\ local \in Seq(AnyChar)
    /\ s \in Seq(AnyChar) /\ s = ParserRecomposeServerPart(server)

LEMMA FullStands ==
  ASSUME NEW m, NEW sigil, NEW local, NEW server, NEW s, Parts(m, sigil, local, server, s)
  PROVE  /\ Stands(m, 1, FullID(sigil, local, server)) <=>
              /\ 1 \in 1..Len(m) /\ m[1] = sigil /\ Stands(m, 2, local)
              /\ 2 + Len(local) \in 1..Len(m) /\ m[2 + Len(local)] = ":"
              /\ Stands(m, 3 + Len(local), s)
         /\ FullID(sigil, local, server) \in Seq(AnyChar)
         /\ Len(FullID(sigil, local, server)) = 2 + Len(local) + Len(s)
         /\ FullID(sigil, local, server)[1] = sigil
<1> USE DEF Parts
<1> DEFINE a == <<sigil>>
           c == <<":">>
           n == Len(local)
<1>1. a \in Seq(AnyChar) /\ Len(a) = 1 /\ a[1] = sigil
  OBVIOUS
<1>2. ":" \in AnyChar
  BY Delimiters DEF AnyChar
<1>3. c \in Seq(AnyChar) /\ Len(c) = 1
  BY <1>2
<1>4. n \in Nat
  OBVIOUS
<1>5. Stands(m, 1, a) <=> 1 \in 1..Len(m) /\ m[1] = sigil
  BY StandsOne
<1>6. \A k \in Int : Stands(m, k, c) <=> k \in 1..Len(m) /\ m[k] = ":"
  BY <1>2, StandsOne
<1>7. FullID(sigil, local, server) = ((a \o local) \o c) \o s
  BY DEF FullID
<1> HIDE DEF a, c
<1> DEFINE f == a \o local
           g == f \o c
<1>8. /\ f \in Seq(AnyChar) /\ Len(f) = 1 + n
      /\ Stands(m, 1, f) <=> Stands(m, 1, a) /\ Stands(m, 2, local)
      /\ f[1] = sigil
  <2>1. a \in Seq(AnyChar)
    BY <1>1
  <2>2. f \in Seq(AnyChar)
    BY <2>1
  <2>3. /\ Stands(m, 1, f) <=> Stands(m, 1, a) /\ Stands(m, 1 + Len(a), local)
        /\ Len(f) = Len(a) + n
    BY <2>1, StandsParted
  <2>4. f[1] = sigil
    <3>1. \A k \in 1..(Len(a) + Len(local)) :
            f[k] = IF k <= Len(a) THEN a[k] ELSE local[k - Len(a)]
      BY <2>1, ConcatProperties
    <3>2. 1 \in 1..(Len(a) + n) /\ 1 <= Len(a)
      BY <1>1, <1>4
    <3> QED BY <1>1, <3>1, <3>2
  <2>5. 1 + Len(a) = 2 /\ Len(a) + n = 1 + n
    BY <1>1
  <2> QED BY <2>2, <2>3, <2>4, <2>5
<1> HIDE DEF f
<1>9. /\ g \in Seq(AnyChar) /\ Len(g) = 2 + n
      /\ Stands(m, 1, g) <=> Stands(m, 1, f) /\ Stands(m, 2 + n, c)
      /\ g[1] = sigil
  <2>1. c \in Seq(AnyChar) /\ f \in Seq(AnyChar)
    BY <1>3, <1>8
  <2>2. g \in Seq(AnyChar)
    BY <2>1
  <2>3. /\ Stands(m, 1, g) <=> Stands(m, 1, f) /\ Stands(m, 1 + Len(f), c)
        /\ Len(g) = Len(f) + Len(c)
    BY <2>1, StandsParted
  <2>4. g[1] = sigil
    <3>1. \A k \in 1..(Len(f) + Len(c)) :
            g[k] = IF k <= Len(f) THEN f[k] ELSE c[k - Len(f)]
      BY <2>1, ConcatProperties
    <3>2. 1 \in 1..(Len(f) + Len(c)) /\ 1 <= Len(f)
      BY <1>3, <1>4, <1>8
    <3> QED BY <1>8, <3>1, <3>2
  <2>5. 1 + Len(f) = 2 + n /\ Len(f) + Len(c) = 2 + n
    BY <1>3, <1>4, <1>8
  <2> QED BY <2>2, <2>3, <2>4, <2>5
<1> HIDE DEF g
<1>10. /\ g \o s \in Seq(AnyChar) /\ Len(g \o s) = (2 + n) + Len(s)
       /\ Stands(m, 1, g \o s) <=> Stands(m, 1, g) /\ Stands(m, 3 + n, s)
       /\ (g \o s)[1] = sigil
  <2>1. g \in Seq(AnyChar)
    BY <1>9
  <2>2. g \o s \in Seq(AnyChar)
    BY <2>1
  <2>3. /\ Stands(m, 1, g \o s) <=> Stands(m, 1, g) /\ Stands(m, 1 + Len(g), s)
        /\ Len(g \o s) = Len(g) + Len(s)
    BY <2>1, StandsParted
  <2>4. (g \o s)[1] = sigil
    <3>1. \A k \in 1..(Len(g) + Len(s)) :
            (g \o s)[k] = IF k <= Len(g) THEN g[k] ELSE s[k - Len(g)]
      BY <2>1, ConcatProperties
    <3>2. 1 \in 1..(Len(g) + Len(s)) /\ 1 <= Len(g)
      <4>1. Len(s) \in Nat
        OBVIOUS
      <4> QED BY <1>4, <1>9, <4>1
    <3> QED BY <1>9, <3>1, <3>2
  <2>5. 1 + Len(g) = 3 + n
    BY <1>4, <1>9
  <2> QED BY <1>9, <2>2, <2>3, <2>4, <2>5
<1>11. 2 + n \in Int
  BY <1>4
<1>12. FullID(sigil, local, server) = g \o s
  BY <1>7 DEF g, f
<1> HIDE DEF n
<1> QED BY <1>5, <1>6, <1>8, <1>9, <1>10, <1>11, <1>12 DEF n

\* A local part ends before the ':'.
LEMMA LocalParsed ==
  ASSUME NEW m \in Seq(AnyChar), NEW local, Stands(m, 2, local), Len(local) >= 1,
         \A k \in 1..Len(local) : local[k] \in Char \ {":"},
         2 + Len(local) \in 1..Len(m), m[2 + Len(local)] = ":"
  PROVE  ParseUserLocalpart(m, 2) = Parsed(local, 2 + Len(local))
<1> DEFINE n == Len(local)
           e == 2 + n
           L == Len(m)
<1>1. n \in Nat /\ n >= 1 /\ L \in Nat
  <2>1. local \in Seq(AnyChar)
    BY DEF Stands
  <2>2. n \in Nat
    BY <2>1
  <2> QED BY <2>2
<1>2. e \in 1..L /\ m[e] = ":"
  OBVIOUS
<1>3. \A k \in 1..n : m[2 + k - 1] = local[k] /\ local[k] \in Char \ {":"}
  BY DEF Stands
<1>4. At(m, e) = ":"
  BY <1>2, AtIs
<1> HIDE DEF n, L
<1>5. e \in 2..L /\ e # 2 /\ 2 \in Int
  BY <1>1, <1>2
<1>6. \A k \in 2..(e - 1) : At(m, k) \in Char \ {":"}
  <2> TAKE k \in 2..(e - 1)
  <2>1. k - 1 \in 1..n /\ 2 + (k - 1) - 1 = k /\ k \in 1..L
    BY <1>1, <1>5
  <2>2. m[k] \in Char \ {":"}
    BY <1>3, <2>1
  <2> QED BY <2>1, <2>2, AtIs DEF L
<1>7. Skip(m, 2, Char \ {":"}) = e
  <2> DEFINE C == Char \ {":"}
  <2>1. At(m, e) \notin C
    BY <1>4
  <2>2. \A k \in 2..(e - 1) : At(m, k) \in C
    BY <1>6
  <2> HIDE DEF C
  <2>3. Skip(m, 2, C) = e
    BY <1>5, <2>1, <2>2, SkipIs DEF L
  <2> QED BY <2>3 DEF C
<1>8. Part(m, 2, e) = local
  BY StandsIsPart DEF n
<1> QED BY <1>2, <1>5, <1>7, <1>8 DEF ParseUserLocalpart, n

\* An identifier that is written out is accepted.
LEMMA WrittenAccepted ==
  ASSUME NEW f \in Seq(AnyChar), tail \in AfterEnd, Len(f) >= 2,
         f[1] \in {"@", "#", "!"}, Len(f) - 1 <= Limit,
         NEW local, NEW e, ParseUserLocalpart(Memory(f), 2) = Parsed(local, e),
         At(Memory(f), e) = ":", ParseServerName(Memory(f), e + 1).ok
  PROVE  ParseCommonID(f)
           = CommonID(f[1], local, ParseServerName(Memory(f), e + 1).value)
<1> DEFINE m == Memory(f)
           p == ParseUserLocalpart(m, 2)
<1>1. p.ok /\ p.value = local /\ p.next = e
  BY DEF Parsed
<1>2. f[1] \in Sigil /\ f[1] # "$"
  BY DEF Sigil
<1>3. Len(f) \in Nat /\ Limit \in Nat
  <2>1. Len(f) \in Nat
    OBVIOUS
  <2>2. Limit \in Nat
    BY StringAssumption
  <2> QED BY <2>1, <2>2
<1> DEFINE l == Len(f)
<1>4. ~(l < 2) /\ ~(l - 1 > Limit)
  <2>1. l \in Nat /\ l >= 2 /\ l - 1 <= Limit
    BY <1>3
  <2> HIDE DEF l
  <2> QED BY <1>3, <2>1
<1> HIDE DEF m, l
<1>5. ParseCommonID(f) = WithLocal(f[1], m, p)
  BY <1>2, <1>4 DEF ParseCommonID, m, l
<1>6. WithLocal(f[1], m, p) = WithServer(f[1], local, ParseServerName(m, e + 1))
  BY <1>1, <1>2 DEF WithLocal, m
<1> QED BY <1>5, <1>6 DEF WithServer, m

\* What an identifier that is accepted is made of: a local part up to e, and a
\* server from behind x on; with a ':' in the string, e and x are its position.
IDAt(m, s, e, x) ==
    /\ e >= 3 /\ Stands(m, 2, Part(m, 2, e)) /\ Len(Part(m, 2, e)) = e - 2
    /\ \A k \in 1..Len(Part(m, 2, e)) : Part(m, 2, e)[k] \in Char \ {":"}
    /\ x + 1 \in 1..Len(m) /\ ParseServerName(m, x + 1).ok
    /\ ParseCommonID(s)
         = CommonID(s[1], Part(m, 2, e), ParseServerName(m, x + 1).value)
    /\ ":" \in Range(s) => x = e /\ e <= Len(s) /\ m[e] = ":"

LEMMA CommonAccepted ==
  ASSUME NEW s \in Seq(Char), tail \in AfterEnd, ParseCommonID(s).ok,
         s[1] \in {"@", "#", "!"}
  PROVE  \E e \in Int, x \in Int : IDAt(Memory(s), s, e, x)
<1> DEFINE m == Memory(s)
           C == Char \ {":"}
           e == Skip(m, 2, C)
           L == Len(m)
           l == Len(s)
           p == ParseUserLocalpart(m, 2)
<1>1. s \in Seq(AnyChar) /\ l \in Nat
  BY DEF AnyChar
<1>2. /\ Readable(m) /\ Stands(m, 1, s) /\ l + 1 \in 1..L /\ m[l + 1] = NUL
  BY <1>1, MemoryReadable
<1>3. m \in Seq(AnyChar) /\ L \in Nat
  BY <1>2, ReadableIs
<1>4. l >= 2
  BY <1>1 DEF ParseCommonID, NoID
<1>5. s[1] # "$" /\ s[1] \in Sigil
  BY DEF Sigil
<1>6. ParseCommonID(s) = WithLocal(s[1], m, p)
  BY <1>5 DEF ParseCommonID, NoID
<1>7. \A k \in 1..l : m[k] = s[k] /\ At(m, k) = s[k]
  <2> HIDE DEF m, L, l
  <2> TAKE k \in 1..l
  <2>1. 1 + k - 1 = k /\ k \in 1..L
    BY <1>1, <1>2, <1>3
  <2>2. m[1 + k - 1] = s[k]
    BY <1>2 DEF Stands, l
  <2> QED BY <1>3, <2>1, <2>2, AtIs DEF L
<1> HIDE DEF m, L, l, e, C, p
<1>8. At(m, l + 1) \notin C
  <2>1. At(m, l + 1) = NUL
    BY <1>2, <1>3, AtIs DEF L
  <2> QED BY <2>1, Delimiters DEF C
<1>9. l + 1 \in 2..L /\ 2 \in Int /\ l + 1 \in Int /\ l + 1 <= L
  BY <1>1, <1>2, <1>3, <1>4
<1>10. /\ e \in 2..(l + 1) /\ At(m, e) \notin C
       /\ \A k \in 2..(e - 1) : At(m, k) \in C
  BY <1>3, <1>8, <1>9, SkipStops DEF e, L
<1>11. e \in Int /\ 2 <= e /\ e <= l + 1
  BY <1>9, <1>10, Within
<1>12. p = IF e = 2 THEN Fail ELSE Parsed(Part(m, 2, e), IF m[e] = ":" THEN e ELSE e + 1)
  BY DEF ParseUserLocalpart, p, e, C
<1> DEFINE x == IF m[e] = ":" THEN e ELSE e + 1
<1>13. p.ok
  BY <1>6 DEF WithLocal, NoID
<1>14. e # 2
  BY <1>12, <1>13 DEF Fail
<1>15. p.value = Part(m, 2, e) /\ p.next = x
  BY <1>12, <1>14 DEF Parsed
<1> HIDE DEF x
<1>16. /\ At(m, x) = ":"
       /\ WithLocal(s[1], m, p) = WithServer(s[1], Part(m, 2, e), ParseServerName(m, x + 1))
  BY <1>5, <1>6, <1>13, <1>15 DEF WithLocal, NoID
<1>17. ParseServerName(m, x + 1).ok
  BY <1>6, <1>16 DEF WithServer, NoID
<1>18. ParseCommonID(s) = CommonID(s[1], Part(m, 2, e), ParseServerName(m, x + 1).value)
  BY <1>6, <1>16, <1>17 DEF WithServer
<1>19. x \in Int /\ x + 1 \in 1..L
  <2>1. x \in Int
    BY <1>11 DEF x
  <2>2. x \in 1..L
    BY <1>3, <1>16, <2>1, AtIs DEF L
  <2>3. x # L
    BY <1>2, <1>16, ReadableIs DEF L
  <2> QED BY <1>3, <2>1, <2>2, <2>3
<1>20. e >= 3 /\ e <= L
  BY <1>1, <1>3, <1>9, <1>11, <1>14
<1>21. Stands(m, 2, Part(m, 2, e)) /\ Len(Part(m, 2, e)) = e - 2
  <2>1. 2 \in 1..(L + 1) /\ e \in 2..(L + 1)
    BY <1>3, <1>11, <1>20
  <2> QED BY <1>3, <2>1, PartStands DEF L
<1>22. \A k \in 1..Len(Part(m, 2, e)) : Part(m, 2, e)[k] \in C
  <2> TAKE k \in 1..Len(Part(m, 2, e))
  <2>1. 2 + k - 1 \in 2..(e - 1) /\ 2 + k - 1 \in 1..L
    BY <1>3, <1>11, <1>20, <1>21
  <2>2. Part(m, 2, e)[k] = m[2 + k - 1]
    BY <1>21 DEF Stands
  <2>3. At(m, 2 + k - 1) = m[2 + k - 1]
    BY <1>3, <2>1, AtIs DEF L
  <2> QED BY <1>10, <2>1, <2>2, <2>3
<1>23. ASSUME ":" \in Range(s) PROVE x = e /\ e <= l /\ m[e] = ":"
  <2>1. PICK k \in 1..l : s[k] = ":"
    BY <1>1, <1>23, RangeOf DEF l
  <2>2. At(m, k) = ":" /\ k # 1
    BY <1>7, <2>1
  <2>3. e <= k
    <3>1. ~(k \in 2..(e - 1))
      BY <1>10, <2>2 DEF C
    <3> QED BY <1>1, <1>11, <2>1, <2>2, <3>1
  <2>4. e <= l /\ e \in 1..l
    BY <1>1, <1>11, <2>1, <2>3
  <2>5. s[e] \in Char
    BY <2>4 DEF l
  <2>6. m[e] = ":"
    BY <1>7, <1>10, <2>4, <2>5 DEF C
  <2> QED BY <2>4, <2>6 DEF x
<1>24. IDAt(m, s, e, x)
  BY <1>17, <1>18, <1>19, <1>20, <1>21, <1>22, <1>23 DEF IDAt, C, L, l
<1> QED BY <1>11, <1>19, <1>24 DEF m

\* The full ID of a user is taken apart into the parts it was put together of.
LEMMA FullParsed ==
  ASSUME tail \in AfterEnd, NEW w, Readable(w), NEW i \in 1..Len(w),
         ParseServerName(w, i).ok, NEW local \in Seq(AnyChar), Len(local) >= 1,
         \A k \in 1..Len(local) : local[k] \in Char \ {":"},
         NEW v, v = ParseServerName(w, i).value,
         Len(FullID("@", local, v)) <= Limit
  PROVE  /\ FullID("@", local, v)[1] = "@" /\ FullID("@", local, v) # <<>>
         /\ ParseCommonID(FullID("@", local, v)) = CommonID("@", local, v)
<1> DEFINE f == FullID("@", local, v)
           m == Memory(f)
           s == ParserRecomposeServerPart(v)
           n == Len(local)
<1>1. Stands(w, i, s)
  BY ServerShape
<1>2. s \in Seq(AnyChar) /\ "@" \in AnyChar
  BY <1>1 DEF Stands, AnyChar, Char, Sigil
<1>3. f \in Seq(AnyChar) /\ Len(f) = 2 + n + Len(s) /\ f[1] = "@"
  <2>1. local \in Seq(AnyChar)
    OBVIOUS
  <2>2. Parts(local, "@", local, v, s)
    BY <1>2, <2>1 DEF Parts
  <2> HIDE DEF s
  <2> QED BY <2>2, FullStands
<1> HIDE DEF f
<1>4. /\ Readable(m) /\ Stands(m, 1, f) /\ Len(f) + 1 \in 1..Len(m)
      /\ m[Len(f) + 1] = NUL
  BY <1>3, MemoryReadable
<1>5. m \in Seq(AnyChar)
  BY <1>4, ReadableIs
<1> HIDE DEF m, s
<1>6. /\ m[1] = "@" /\ Stands(m, 2, local)
      /\ 2 + n \in 1..Len(m) /\ m[2 + n] = ":" /\ Stands(m, 3 + n, s)
  <2>1. Parts(m, "@", local, v, s)
    BY <1>2, <1>5 DEF Parts, s
  <2>2. Stands(m, 1, FullID("@", local, v))
    BY <1>4 DEF f
  <2> QED BY <2>1, <2>2, FullStands
<1>7. n \in Nat /\ Len(s) \in Nat
  BY <1>2
<1>8. ParseUserLocalpart(m, 2) = Parsed(local, 2 + n)
  BY <1>5, <1>6, LocalParsed
<1>9. At(m, 2 + n) = ":"
  BY <1>5, <1>6, AtIs
<1> HIDE DEF n
<1>10. (2 + n) + 1 = 3 + n /\ (3 + n) + Len(s) = Len(f) + 1 /\ 3 + n \in Int
  <2> DEFINE a == Len(s)
             b == Len(f)
  <2>1. a \in Nat /\ n \in Nat /\ b = 2 + n + a
    BY <1>3, <1>7
  <2> HIDE DEF a, b
  <2>2. (2 + n) + 1 = 3 + n /\ (3 + n) + a = b + 1 /\ 3 + n \in Int
    BY <2>1
  <2> QED BY <2>2 DEF a, b
<1>11. ParseServerName(m, 3 + n).ok /\ ParseServerName(m, 3 + n).value = v
  <2>1. (3 + n) + Len(s) \in 1..Len(m) /\ m[(3 + n) + Len(s)] = NUL
    BY <1>4, <1>10
  <2>2. ServerCopied(w, i, m, 3 + n, s)
    BY <1>4, <1>6, <1>10, <2>1 DEF ServerCopied, s
  <2> QED BY <2>2, ServerMoves
<1>12. Len(f) >= 2 /\ Len(f) - 1 <= Limit
  <2> DEFINE a == Len(s)
             b == Len(f)
  <2>1. a \in Nat /\ n \in Nat /\ b = 2 + n + a
    BY <1>3, <1>7
  <2>2. b <= Limit /\ Limit \in Nat
    BY StringAssumption DEF f
  <2> HIDE DEF a, b
  <2>3. b >= 2 /\ b - 1 <= Limit
    BY <2>1, <2>2
  <2> QED BY <2>3 DEF b
<1>13. ParseCommonID(f) = CommonID("@", local, v)
  <2>1. ParseServerName(m, (2 + n) + 1).ok /\ ParseServerName(m, (2 + n) + 1).value = v
    BY <1>10, <1>11
  <2>2. f[1] \in {"@", "#", "!"}
    BY <1>3
  <2>3. ParseCommonID(f) = CommonID(f[1], local, ParseServerName(m, (2 + n) + 1).value)
    BY <1>3, <1>8, <1>9, <1>12, <2>1, <2>2, WrittenAccepted DEF m
  <2> QED BY <1>3, <2>1, <2>3
<1>14. f # <<>>
  <2>1. Len(f) >= 1
    <3> DEFINE b == Len(f)
    <3>1. b \in Nat /\ b >= 2
      BY <1>3, <1>12
    <3> HIDE DEF b
    <3>2. b >= 1
      BY <3>1
    <3> QED BY <3>2 DEF b
  <2> QED BY <1>3, <2>1, RangeOf
<1> QED BY <1>3, <1>13, <1>14 DEF f

-----------------------------------------------------------------------------
(* The strings of requests *)

\* Requests are strings, and the tail is one of those that may be there.
IInv == input \in Seq(Char) /\ tail \in AfterEnd

LEMMA InputIs == Spec => []IInv
<1>1. Init => IInv
  BY StringAssumption DEF Init, IInv
<1>2. IInv /\ [Next]_vars => IInv'
  <2> SUFFICES ASSUME IInv, [Next]_vars PROVE IInv'
    OBVIOUS
  <2>1. CASE Write
    <3>1. PICK p \in Piece : input' = input \o p
      BY <2>1 DEF Write
    <3>2. p \in Seq(Char) /\ input \in Seq(Char) /\ tail' = tail
      BY <2>1, StringAssumption DEF IInv, Write
    <3>3. input' \in Seq(Char)
      BY <3>1, <3>2
    <3> QED BY <3>2, <3>3 DEF IInv
  <2>2. CASE UNCHANGED vars
    BY <2>2 DEF IInv, vars
  <2> QED BY <2>1, <2>2 DEF Next
<1> QED BY <1>1, <1>2, PTL DEF Spec

LEMMA MemoryOfInput ==
  ASSUME IInv
  PROVE  /\ input \in Seq(AnyChar) /\ Len(input) \in Nat
         /\ Readable(Memory(input)) /\ Memory(input) \in Seq(AnyChar)
         /\ Stands(Memory(input), 1, input)
         /\ Len(Memory(input)) \in Nat /\ Len(input) + 1 \in 1..Len(Memory(input))
         /\ Memory(input)[Len(input) + 1] = NUL
         /\ \A k \in 1..Len(input) : Memory(input)[k] = input[k] /\ input[k] \in Char
<1>1. input \in Seq(AnyChar) /\ input \in Seq(Char)
  BY DEF IInv, AnyChar
<1>2. /\ Readable(Memory(input)) /\ Stands(Memory(input), 1, input)
      /\ Len(input) + 1 \in 1..Len(Memory(input)) /\ Memory(input)[Len(input) + 1] = NUL
  BY <1>1, MemoryReadable DEF IInv
<1>3. Memory(input) \in Seq(AnyChar) /\ Len(Memory(input)) \in Nat
  BY <1>2, ReadableIs
<1>4. Len(input) \in Nat
  BY <1>1
<1>5. \A k \in 1..Len(input) : input[k] \in Char
  BY <1>1
<1>6. \A k \in 1..Len(input) : Memory(input)[k] = input[k]
  <2> TAKE k \in 1..Len(input)
  <2>1. 1 + k - 1 = k
    BY <1>4
  <2>2. Memory(input)[1 + k - 1] = input[k]
    BY <1>2 DEF Stands
  <2> QED BY <2>1, <2>2
<1> QED BY <1>1, <1>2, <1>3, <1>4, <1>5, <1>6

LEMMA OneName ==
  ASSUME IInv
  PROVE  UsersHaveOneName
<1> DEFINE id == UserIdParse(input)
           full == FullID("@", id.local, id.server)
           w == Text(DefaultServer)
           v0 == ParseServerName(w, 1).value
<1>1. /\ input \in Seq(AnyChar) /\ input \in Seq(Char)
      /\ \A k \in 1..Len(input) : input[k] \in Char
  BY MemoryOfInput DEF IInv
<1> SUFFICES ASSUME input # <<>>
             PROVE  /\ id.ok /\ Len(full) <= Limit => UserIdParse(full) = id
                    /\ UserValidate(input, DefaultServer) => id.ok /\ id.local = input
  BY DEF UsersHaveOneName
<1>2. Len(input) >= 1
  BY <1>1, RangeOf
<1>3. ParseServerName(w, 1).ok /\ ParserRecomposeServerPart(v0) = DefaultServer
  BY ServerAssumption
<1>4. Readable(w) /\ 1 \in 1..Len(w)
  <2>1. DefaultServer \in Seq(AnyChar)
    BY ServerAssumption DEF AnyChar
  <2>2. Readable(w)
    BY <2>1, TextReadable
  <2>3. Len(w) \in Nat /\ Len(w) >= 1
    BY <2>2, ReadableIs
  <2> DEFINE n == Len(w)
  <2>4. n \in Nat /\ n >= 1
    BY <2>3
  <2> HIDE DEF n
  <2>5. 1 \in 1..n
    BY <2>4
  <2> QED BY <2>2, <2>5 DEF n
<1> HIDE DEF w, v0
<1>5. input[1] # "@" => UserIdParse(input) = Validated(CommonID(None, input, v0))
  BY DEF UserIdParse, v0, w
<1>6. input[1] = "@" => UserIdParse(input) = Validated(ParseCommonID(input))
  BY DEF UserIdParse
<1>7. ASSUME id.ok, Len(full) <= Limit PROVE UserIdParse(full) = id
  <2>1. CASE input[1] = "@"
    <3> DEFINE q == ParseCommonID(input)
    <3>1. id = Validated(q)
      BY <1>6, <2>1
    <3>2. q.ok
      BY <1>7, <3>1 DEF Validated, NoID
    <3>3. PICK e \in Int, x \in Int : IDAt(Memory(input), input, e, x)
      BY <1>1, <2>1, <3>2, CommonAccepted DEF IInv
    <3> DEFINE m == Memory(input)
               local == Part(m, 2, e)
               v == ParseServerName(m, x + 1).value
    <3>4. q = CommonID("@", local, v)
      BY <2>1, <3>3 DEF IDAt
    <3>5. q.local = local /\ q.server = v
      BY <3>4 DEF CommonID
    <3>6. id.local = local /\ id.server = v
      BY <1>7, <3>1, <3>5 DEF Validated, NoID
    <3>7. /\ local \in Seq(AnyChar) /\ Len(local) >= 1
          /\ \A k \in 1..Len(local) : local[k] \in Char \ {":"}
          /\ x + 1 \in 1..Len(m) /\ ParseServerName(m, x + 1).ok
      <4>1. Len(local) >= 1
        <5>1. Len(local) = e - 2 /\ e >= 3
          BY <3>3 DEF IDAt
        <5> QED BY <5>1
      <4> QED BY <3>3, <4>1 DEF IDAt, Stands
    <3>8. Readable(m)
      BY MemoryOfInput
    <3>9. full = FullID("@", local, v)
      BY <3>6
    <3> HIDE DEF id, q, m, local, v, full
    <3>10. Len(FullID("@", local, v)) <= Limit
      BY <1>7, <3>9
    <3>11. tail \in AfterEnd
      BY DEF IInv
    <3>12. /\ FullID("@", local, v)[1] = "@" /\ FullID("@", local, v) # <<>>
           /\ ParseCommonID(FullID("@", local, v)) = CommonID("@", local, v)
      BY <3>7, <3>8, <3>10, <3>11, FullParsed DEF v
    <3>13. UserIdParse(full) = Validated(q)
      BY <3>4, <3>9, <3>12 DEF UserIdParse
    <3> QED BY <3>1, <3>13
  <2>2. CASE input[1] # "@"
    <3> DEFINE q == CommonID(None, input, v0)
    <3>1. id = Validated(q)
      BY <1>5, <2>2
    <3>2. q.local = input /\ q.server = v0 /\ q.ok
      BY DEF CommonID
    <3> HIDE DEF q
    <3>3. id = [ok |-> TRUE, local |-> input, server |-> v0]
      BY <1>7, <3>1, <3>2 DEF Validated, NoID
    <3>4. UserHistoricalValidate(input, ParserRecomposeServerPart(v0))
      BY <1>7, <3>1, <3>2 DEF Validated, NoID
    <3>5. id.local = input /\ id.server = v0
      BY <3>3
    <3>6. full = FullID("@", input, v0)
      BY <3>5
    <3>7. \A k \in 1..Len(input) : input[k] \in Char \ {":"}
      <4>1. ":" \notin Range(input)
        BY <3>4 DEF UserHistoricalValidate
      <4> QED BY <1>1, <4>1, RangeOf
    <3> HIDE DEF id, full
    <3>8. Len(FullID("@", input, v0)) <= Limit /\ tail \in AfterEnd
      BY <1>7, <3>6 DEF IInv
    <3>9. /\ FullID("@", input, v0)[1] = "@" /\ FullID("@", input, v0) # <<>>
          /\ ParseCommonID(FullID("@", input, v0)) = CommonID("@", input, v0)
      BY <1>1, <1>2, <1>3, <1>4, <3>7, <3>8, FullParsed DEF v0
    <3>10. UserIdParse(full) = Validated(CommonID("@", input, v0))
      BY <3>6, <3>9 DEF UserIdParse
    <3>11. Validated(CommonID("@", input, v0)) = [ok |-> TRUE, local |-> input, server |-> v0]
      <4> DEFINE r == CommonID("@", input, v0)
      <4>1. r.ok /\ r.local = input /\ r.server = v0
        BY DEF CommonID
      <4> HIDE DEF r
      <4>2. Validated(r) = [ok |-> TRUE, local |-> input, server |-> v0]
        BY <3>4, <4>1 DEF Validated
      <4> QED BY <4>2 DEF r
    <3> QED BY <3>3, <3>10, <3>11
  <2> QED BY <2>1, <2>2
<1>8. ASSUME UserValidate(input, DefaultServer) PROVE id.ok /\ id.local = input
  <2>1. Range(input) \subseteq Lower \union Digit \union {".", "-"}
    BY <1>8 DEF UserValidate
  <2>2. \A k \in 1..Len(input) : input[k] \in HostChar
    BY <1>1, <2>1, RangeOf DEF HostChar
  <2>3. input[1] # "@"
    <3> DEFINE n == Len(input)
    <3>1. n >= 1 /\ n \in Nat
      BY <1>1, <1>2
    <3> HIDE DEF n
    <3>2. 1 \in 1..n
      BY <3>1
    <3>3. input[1] \in HostChar
      BY <2>2, <3>2 DEF n
    <3> QED BY <3>3, HostCharacters
  <2>4. {":", " "} \intersect Range(input) = {}
    BY <2>1, HostCharacters DEF HostChar
  <2>5. UserHistoricalValidate(input, ParserRecomposeServerPart(v0))
    BY <1>3, <1>8, <2>4 DEF UserValidate, UserHistoricalValidate
  <2> DEFINE r == CommonID(None, input, v0)
  <2>6. r.ok /\ r.local = input /\ r.server = v0
    BY DEF CommonID
  <2>7. id = Validated(r)
    BY <1>5, <2>3
  <2> HIDE DEF r, id
  <2>8. id = [ok |-> TRUE, local |-> input, server |-> v0]
    BY <2>5, <2>6, <2>7 DEF Validated
  <2>9. id.ok /\ id.local = input
    BY <2>8
  <2> QED BY <2>9 DEF id
<1> QED BY <1>7, <1>8

\* A user has one name, for whatever is written: the ID a string is taken for
\* stands for itself when it is written in full, and a name that may register
\* is found (User.c:882-949, Parser.c:443-461).
THEOREM OneNameForever == Spec => []UsersHaveOneName
BY InputIs, OneName, PTL

LEMMA AcceptedShape ==
  ASSUME IInv
  PROVE  AcceptedIsIdentifier
<1> DEFINE id == ParseCommonID(input)
           m == Memory(input)
           l == Len(input)
<1> SUFFICES ASSUME id.ok, id.sigil \in {"@", "#", "!"}, ":" \in Range(input)
             PROVE  /\ IsPrefix(FullID(id.sigil, id.local, id.server), input)
                    /\ Local(id.local)
                    /\ NameHost(id.server.hostname) \/ AddressHost(id.server.hostname)
                    /\ id.server.port # None => Port(id.server.port)
  BY DEF AcceptedIsIdentifier
<1>1. /\ input \in Seq(Char) /\ input \in Seq(AnyChar) /\ tail \in AfterEnd /\ l \in Nat
      /\ Readable(m) /\ m \in Seq(AnyChar) /\ Stands(m, 1, input)
      /\ Len(m) \in Nat /\ l + 1 \in 1..Len(m) /\ m[l + 1] = NUL
      /\ \A k \in 1..l : m[k] = input[k] /\ input[k] \in Char
  BY MemoryOfInput DEF IInv
<1>2. input[1] = id.sigil
  <2>1. CASE input[1] \notin Sigil
    <3>1. id = CommonID(input[1], None, NoServer)
      BY <2>1 DEF ParseCommonID, NoID
    <3> QED BY <3>1 DEF CommonID
  <2>2. CASE input[1] \in Sigil
    <3> DEFINE p == ParseUserLocalpart(m, 2)
               r == ParseServerName(m, p.next + 1)
    <3>1. id = WithLocal(input[1], m, p)
      BY <2>2 DEF ParseCommonID, NoID
    <3> HIDE DEF id, p, m
    <3>2. CASE input[1] = "$"
      <4>1. id = CommonID("$", p.local, NoServer) \/ id = CommonID("$", p.value, NoServer)
        BY <3>1, <3>2 DEF WithLocal, NoID
      <4> QED BY <4>1 DEF CommonID
    <3>3. CASE input[1] # "$"
      <4>1. id = WithServer(input[1], p.value, r)
        BY <3>1, <3>3 DEF WithLocal, NoID
      <4> HIDE DEF r
      <4>2. id = CommonID(input[1], p.value, r.value)
        BY <4>1 DEF WithServer, NoID
      <4> QED BY <4>2 DEF CommonID
    <3> QED BY <3>2, <3>3
  <2> QED BY <2>1, <2>2
<1>3. input[1] \in {"@", "#", "!"}
  BY <1>2
<1>4. PICK e \in Int, x \in Int : IDAt(m, input, e, x)
  BY <1>1, <1>3, CommonAccepted
<1> DEFINE local == Part(m, 2, e)
           v == ParseServerName(m, e + 1).value
           s == ParserRecomposeServerPart(v)
           f == FullID(input[1], local, v)
           n == Len(local)
<1>5. /\ e >= 3 /\ Stands(m, 2, local) /\ n = e - 2
      /\ \A k \in 1..n : local[k] \in Char \ {":"}
      /\ e + 1 \in 1..Len(m) /\ ParseServerName(m, e + 1).ok
      /\ id = CommonID(input[1], local, v)
      /\ e <= l /\ m[e] = ":"
  BY <1>4 DEF IDAt
<1>6. id.sigil = input[1] /\ id.local = local /\ id.server = v
  <2> HIDE DEF local, v, id
  <2> QED BY <1>5 DEF CommonID
<1>7. /\ Stands(m, e + 1, s) /\ \A k \in 1..Len(s) : s[k] \in Char
      /\ NameHost(v.hostname) \/ AddressHost(v.hostname)
      /\ v.port # None => Port(v.port)
  BY <1>1, <1>5, ServerShape
<1>8. local \in Seq(AnyChar) /\ s \in Seq(AnyChar) /\ input[1] \in AnyChar
  BY <1>3, <1>5, <1>7 DEF Stands, AnyChar, Char, Sigil
<1> HIDE DEF id, m, l, local, v, s
<1>9. n \in Nat /\ Len(s) \in Nat
  BY <1>8
<1> HIDE DEF n
<1>10. /\ Stands(m, 1, f) <=>
              /\ 1 \in 1..Len(m) /\ m[1] = input[1] /\ Stands(m, 2, local)
              /\ 2 + n \in 1..Len(m) /\ m[2 + n] = ":"
              /\ Stands(m, 3 + n, s)
       /\ Len(f) = 2 + n + Len(s)
  <2> DEFINE c == input[1]
  <2>1. Parts(m, c, local, v, s)
    BY <1>1, <1>8 DEF Parts, s
  <2> HIDE DEF c
  <2>2. /\ Stands(m, 1, FullID(c, local, v)) <=>
              /\ 1 \in 1..Len(m) /\ m[1] = c /\ Stands(m, 2, local)
              /\ 2 + Len(local) \in 1..Len(m) /\ m[2 + Len(local)] = ":"
              /\ Stands(m, 3 + Len(local), s)
        /\ Len(FullID(c, local, v)) = 2 + Len(local) + Len(s)
    BY <2>1, FullStands
  <2> QED BY <2>2 DEF f, n, c
<1> DEFINE a == Len(s)
           z == Len(f)
           d == Len(m)
<1>11. a \in Nat /\ z = 2 + n + a /\ d \in Nat /\ l \in Nat /\ l + 1 \in 1..d
  BY <1>1, <1>9, <1>10
<1>12. (e + 1) + a <= d + 1 /\ \A k \in 1..a : m[(e + 1) + k - 1] = s[k]
  BY <1>7 DEF Stands
<1> HIDE DEF a, z, d, f
<1>13. /\ 2 + n = e /\ 3 + n = e + 1 /\ e \in 1..d /\ 1 \in 1..d /\ 1 \in 1..l
       /\ z = e + a
  BY <1>5, <1>9, <1>11
<1>14. Stands(m, 1, f)
  BY <1>1, <1>5, <1>7, <1>10, <1>13 DEF d
<1>15. z <= l
  <2> SUFFICES ASSUME z > l PROVE FALSE
    BY <1>11, <1>13
  <2>1. (l + 1) - e \in 1..a /\ (e + 1) + ((l + 1) - e) - 1 = l + 1
    BY <1>5, <1>11, <1>13
  <2>2. m[l + 1] \in Char
    BY <1>7, <1>12, <2>1 DEF a
  <2> QED BY <1>1, <2>2, Delimiters
<1>16. IsPrefix(f, input)
  BY <1>1, <1>14, <1>15, StandsPrefix DEF z, l
<1>17. Local(local)
  <2>1. Len(local) >= 1
    BY <1>5, <1>9 DEF n
  <2>2. ":" \notin Range(local)
    BY <1>5, <1>8, RangeOf DEF n
  <2> QED BY <1>8, <2>1, <2>2, RangeOf DEF Local
<1> QED BY <1>6, <1>7, <1>16, <1>17 DEF f

\* What is accepted as an identifier is one, however long it is and whatever
\* stands behind it (Parser.c:356-441).
THEOREM AcceptedForever == Spec => []AcceptedIsIdentifier
BY InputIs, AcceptedShape, PTL

LEMMA WellFormed ==
  ASSUME IInv
  PROVE  WellFormedAccepted
<1> DEFINE rest(i) == SubSeq(input, i + 1, Len(input))
<1>0. SUFFICES ASSUME NEW i \in DOMAIN input, NEW server \in ServersOf(rest(i)),
                    NEW local, local = SubSeq(input, 2, i - 1),
                    input[1] \in {"@", "#", "!"}, input[i] = ":", i > 2, Local(local),
                    NameHost(server.hostname), ~CutOff(server.hostname),
                    server.port # None => Port(server.port),
                    Len(input) <= Limit
             PROVE  ParseCommonID(input) = CommonID(input[1], local, server)
  BY DEF WellFormedAccepted
<1> DEFINE m == Memory(input)
           l == Len(input)
           d == Len(m)
           r == rest(i)
           c == Len(r)
<1>1. /\ input \in Seq(AnyChar) /\ input \in Seq(Char) /\ tail \in AfterEnd /\ l \in Nat
      /\ Readable(m) /\ m \in Seq(AnyChar) /\ Stands(m, 1, input)
      /\ d \in Nat /\ l + 1 \in 1..d /\ m[l + 1] = NUL
      /\ \A k \in 1..l : m[k] = input[k] /\ input[k] \in Char
  BY MemoryOfInput DEF IInv
<1>2. i \in 1..l /\ l <= Limit /\ Limit \in Nat
  <2>1. DOMAIN input = 1..l
    BY <1>1
  <2> QED BY <1>0, <2>1, StringAssumption
<1>3. r = SubSeq(input, i + 1, l)
  OBVIOUS
<1> HIDE DEF m, l, d, r, c
<1>4. i \in Int /\ l \in Int /\ i >= 3 /\ i <= l
  BY <1>0, <1>1, <1>2
<1>5. /\ Stands(m, 1 + 2 - 1, local) /\ Len(local) = (i - 1) + 1 - 2
      /\ \A k \in 1..Len(local) : local[k] = input[2 + k - 1]
  <2>1. 2 \in Int /\ i - 1 \in Int /\ 1 <= 2 /\ 2 <= (i - 1) + 1 /\ i - 1 <= l
    BY <1>1, <1>4
  <2>2. IsSub(input, 2, i - 1, local)
    BY <1>0, <2>1 DEF IsSub, l
  <2> QED BY <1>1, <2>2, SubStands
<1>6. Stands(m, 1 + (i + 1) - 1, r) /\ c = l + 1 - (i + 1)
  <2>1. i + 1 \in Int /\ l \in Int /\ 1 <= i + 1 /\ i + 1 <= l + 1 /\ l <= l
    BY <1>1, <1>4
  <2>2. IsSub(input, i + 1, l, r)
    BY <1>3, <2>1 DEF IsSub, l
  <2> QED BY <1>1, <2>2, SubStands DEF c
<1>7. Stands(m, 2, local) /\ Len(local) = i - 2 /\ Stands(m, i + 1, r) /\ c = l - i
  <2>1. 1 + 2 - 1 = 2 /\ (i - 1) + 1 - 2 = i - 2 /\ 1 + (i + 1) - 1 = i + 1
        /\ l + 1 - (i + 1) = l - i
    BY <1>4
  <2> QED BY <1>5, <1>6, <2>1
<1>8. local \in Seq(AnyChar) /\ r \in Seq(AnyChar) /\ c \in Nat
  <2>1. local \in Seq(AnyChar) /\ r \in Seq(AnyChar)
    BY <1>7 DEF Stands
  <2> QED BY <1>1, <1>4, <1>7, <2>1
<1>9. \A k \in 1..Len(local) : local[k] \in Char \ {":"}
  <2>1. ":" \notin Range(local)
    BY <1>0 DEF Local
  <2>2. \A k \in 1..Len(local) : local[k] # ":"
    BY <1>8, <2>1, RangeOf
  <2> TAKE k \in 1..Len(local)
  <2>3. 2 + k - 1 \in 1..l
    BY <1>1, <1>4, <1>7
  <2>4. local[k] \in Char
    BY <1>1, <1>5, <2>3
  <2> QED BY <2>2, <2>4
<1>10. m[i] = ":" /\ i \in 1..d
  BY <1>0, <1>1, <1>2, <1>4
<1>11. ParseUserLocalpart(m, 2) = Parsed(local, i)
  <2>1. Len(local) >= 1 /\ 2 + Len(local) = i
    BY <1>4, <1>7
  <2>2. ParseUserLocalpart(m, 2) = Parsed(local, 2 + Len(local))
    BY <1>1, <1>7, <1>9, <1>10, <2>1, LocalParsed DEF d
  <2> QED BY <2>1, <2>2
<1>12. At(m, i) = ":"
  BY <1>1, <1>10, AtIs DEF d
<1>13. ASSUME server = [hostname |-> r, port |-> None]
       PROVE  ParseServerName(m, i + 1).ok /\ ParseServerName(m, i + 1).value = server
  <2>1. NameHost(r) /\ ~CutOff(r)
    BY <1>0, <1>13
  <2>2. Len(r) <= Limit /\ (i + 1) + Len(r) = l + 1
    <3>1. c = l - i /\ l <= Limit /\ Limit \in Nat
      BY <1>2, <1>7
    <3>2. l - i <= Limit /\ (i + 1) + (l - i) = l + 1
      BY <1>4, <3>1
    <3> QED BY <3>1, <3>2 DEF c
  <2>3. (i + 1) + Len(r) \in 1..Len(m) /\ m[(i + 1) + Len(r)] \in {":", NUL}
    BY <1>1, <2>2 DEF d
  <2>4. ParseHost(m, i + 1) = Parsed(r, (i + 1) + Len(r))
    BY <1>1, <1>7, <2>1, <2>2, <2>3, HostNamed
  <2>5. m[(i + 1) + Len(r)] # ":"
    BY <1>1, <2>2 DEF NUL
  <2> QED BY <1>13, <2>4, <2>5, NoPort
<1>14. ASSUME NEW t \in DOMAIN r, r[t] = ":",
              server = [hostname |-> SubSeq(r, 1, t - 1), port |-> SubSeq(r, t + 1, Len(r))]
       PROVE  ParseServerName(m, i + 1).ok /\ ParseServerName(m, i + 1).value = server
  <2> DEFINE h == SubSeq(r, 1, t - 1)
             p == SubSeq(r, t + 1, c)
             e == i + t
  <2>1. t \in 1..c /\ t \in Int /\ 1 <= t /\ t <= c
    <3>1. t \in 1..c
      BY <1>8 DEF c
    <3> QED BY <1>8, <3>1
  <2>2. server = [hostname |-> h, port |-> p]
    BY <1>14 DEF c
  <2>3. Stands(m, (i + 1) + 1 - 1, h) /\ Len(h) = (t - 1) + 1 - 1
    <3>1. 1 \in Int /\ t - 1 \in Int /\ 1 <= 1 /\ 1 <= (t - 1) + 1 /\ t - 1 <= c
      BY <1>8, <2>1
    <3>2. IsSub(r, 1, t - 1, h)
      BY <3>1 DEF IsSub, c
    <3> HIDE DEF h
    <3> QED BY <1>7, <3>2, SubStands
  <2>4. Stands(m, (i + 1) + (t + 1) - 1, p) /\ Len(p) = c + 1 - (t + 1)
    <3>1. t + 1 \in Int /\ c \in Int /\ 1 <= t + 1 /\ t + 1 <= c + 1 /\ c <= c
      BY <1>8, <2>1
    <3>2. IsSub(r, t + 1, c, p)
      BY <3>1 DEF IsSub, c
    <3> HIDE DEF p
    <3> QED BY <1>7, <3>2, SubStands
  <2> HIDE DEF h, p
  <2>5. /\ Stands(m, i + 1, h) /\ Len(h) = t - 1
        /\ Stands(m, e + 1, p) /\ (e + 1) + Len(p) = l + 1
    <3>1. (i + 1) + 1 - 1 = i + 1 /\ (t - 1) + 1 - 1 = t - 1
      BY <1>4, <2>1
    <3>2. (i + 1) + (t + 1) - 1 = e + 1
      BY <1>4, <2>1
    <3>3. (e + 1) + ((l - i) + 1 - (t + 1)) = l + 1
      BY <1>4, <2>1
    <3> QED BY <1>7, <2>3, <2>4, <3>1, <3>2, <3>3
  <2>6. m[(i + 1) + t - 1] = ":"
    BY <1>7, <1>14, <2>1 DEF Stands, c
  <2>7. (i + 1) + t - 1 = e /\ e \in 1..d /\ (i + 1) + Len(h) = e /\ Len(h) <= Limit
    <3>1. (i + 1) + t - 1 = e /\ e \in 1..d /\ (i + 1) + (t - 1) = e /\ t - 1 <= Limit
      BY <1>1, <1>2, <1>4, <1>7, <2>1
    <3> QED BY <2>5, <3>1
  <2>8. m[e] = ":"
    BY <2>6, <2>7
  <2>9. server.hostname = h /\ server.port = p
    BY <2>2
  <2>10. p # None
    BY <2>5, NoneAssumption DEF Stands, AnyChar
  <2>11. NameHost(h) /\ ~CutOff(h) /\ Port(p)
    BY <1>0, <2>9, <2>10
  <2> HIDE DEF e
  <2>12. ParseHost(m, i + 1) = Parsed(h, e)
    <3>1. (i + 1) + Len(h) \in 1..Len(m) /\ m[(i + 1) + Len(h)] \in {":", NUL}
      BY <2>7, <2>8 DEF d
    <3>2. ParseHost(m, i + 1) = Parsed(h, (i + 1) + Len(h))
      BY <1>1, <2>5, <2>7, <2>11, <3>1, HostNamed
    <3> QED BY <2>7, <3>2
  <2>13. (e + 1) + Len(p) \in 1..Len(m) /\ m[(e + 1) + Len(p)] \notin Digit
    BY <1>1, <2>5, Delimiters DEF d
  <2>14. /\ ParseServerName(m, i + 1).ok
         /\ ParseServerName(m, i + 1).value = [hostname |-> h, port |-> p]
    <3> HIDE <1>14
    <3>1. e \in 1..Len(m)
      BY <2>7 DEF d
    <3> QED BY <1>1, <2>5, <2>8, <2>11, <2>12, <2>13, <3>1, PortWritten
  <2> QED BY <2>2, <2>14
<1>15. ParseServerName(m, i + 1).ok /\ ParseServerName(m, i + 1).value = server
  <2>1. server \in ServersOf(r)
    BY <1>0 DEF r
  <2> QED BY <1>13, <1>14, <2>1 DEF ServersOf
<1>16. Len(input) >= 2 /\ Len(input) - 1 <= Limit
  BY <1>1, <1>2, <1>4 DEF l
<1>17. ParseCommonID(input) = CommonID(input[1], local, ParseServerName(m, i + 1).value)
  BY <1>0, <1>1, <1>11, <1>12, <1>15, <1>16, WrittenAccepted DEF m
<1> QED BY <1>0, <1>15, <1>17

\* Every well-formed identifier whose server has a name is accepted, and taken
\* apart in the only way there is (Parser.c:356-428).  Names that begin with an
\* address and go on with a letter or '-' (CutOff) are not among them.
THEOREM WellFormedForever == Spec => []WellFormedAccepted
BY InputIs, WellFormed, PTL
=============================================================================
