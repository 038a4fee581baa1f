----------------------------- MODULE TextProofs -----------------------------
(***************************************************************************)
(* How Picol reads text, and that loading the script in flash in chunks    *)
(* runs the commands the whole script has.                                 *)
(***************************************************************************)
EXTENDS Script, SequenceTheorems, FiniteSetTheorems, WellFoundedInduction, TLAPS

-----------------------------------------------------------------------------
(* Induction, for sets of numbers. *)
LEMMA Induct ==
  ASSUME NEW S, 0 \in S, \A n \in Nat : n \in S => n + 1 \in S
  PROVE  Nat \subseteq S
<1> SUFFICES ASSUME Nat \ S # {} PROVE FALSE
  OBVIOUS
<1> DEFINE Upto(n) == 0..n
           F == {Upto(n) : n \in Nat \ S}
<1>1. F \subseteq FiniteSubsetsOf(Nat) /\ F # {}
  <2>1. \A n \in Nat : Upto(n) \in SUBSET Nat /\ IsFiniteSet(Upto(n))
    <3>1. \A n \in Nat : Upto(n) \in SUBSET Nat
      OBVIOUS
    <3>2. \A n \in Nat : IsFiniteSet(Upto(n))
      BY FS_Interval
    <3> QED BY <3>1, <3>2
  <2> HIDE DEF Upto
  <2> QED BY <2>1 DEF FiniteSubsetsOf
<1>2. \E X \in F : \A Y \in F : <<Y, X>> \notin StrictSubsetOrdering(Nat)
  <2> HIDE DEF F
  <2> QED BY <1>1, FS_StrictSubsetOrderingWellFounded, WFMin
<1>3. PICK m \in Nat \ S : \A n \in Nat \ S : <<Upto(n), Upto(m)>> \notin StrictSubsetOrdering(Nat)
  BY <1>2
<1>4. m - 1 \in Nat /\ m - 1 + 1 = m
  BY <1>3
<1>5. Upto(m - 1) \in SUBSET Nat /\ Upto(m) \in SUBSET Nat
      /\ Upto(m - 1) \subseteq Upto(m) /\ Upto(m - 1) # Upto(m)
  BY <1>4
<1>6. <<Upto(m - 1), Upto(m)>> \in StrictSubsetOrdering(Nat)
  <2> HIDE DEF Upto
  <2> QED BY <1>5 DEF StrictSubsetOrdering
<1> QED BY <1>3, <1>4, <1>6

(* A set of numbers has a least one. *)
LEMMA Least ==
  ASSUME NEW S \in SUBSET Nat, S # {}
  PROVE  \E m \in S : \A k \in S : m <= k
<1> SUFFICES ASSUME \A m \in S : \E k \in S : k < m
             PROVE  FALSE
  OBVIOUS
<1> DEFINE T == {n \in Nat : \A k \in 0..n : k \notin S}
<1>1. 0 \in T
  OBVIOUS
<1>2. \A n \in Nat : n \in T => n + 1 \in T
  <2> SUFFICES ASSUME NEW n \in Nat, n \in T PROVE n + 1 \in T
    OBVIOUS
  <2>1. n + 1 \notin S
    OBVIOUS
  <2> QED BY <2>1
<1>3. Nat \subseteq T
  <2> HIDE DEF T
  <2> QED BY <1>1, <1>2, Induct
<1>4. PICK m \in S : TRUE
  OBVIOUS
<1>5. m \in T
  <2> HIDE DEF T
  <2> QED BY <1>3
<1> QED BY <1>5

(* A set of numbers with a bound has a greatest one. *)
LEMMA Greatest ==
  ASSUME NEW n \in Nat, NEW S \in SUBSET (0..n), S # {}
  PROVE  \E m \in S : \A k \in S : m >= k
<1> DEFINE T == {k \in 0..n : n - k \in S}
<1>1. T \in SUBSET Nat /\ T # {}
  <2>1. PICK k \in S : TRUE
    OBVIOUS
  <2>2. n - k \in 0..n /\ n - (n - k) = k
    OBVIOUS
  <2>3. n - k \in T
    BY <2>2
  <2>4. T \in SUBSET Nat
    OBVIOUS
  <2> QED BY <2>3, <2>4
<1>2. PICK m \in T : \A k \in T : m <= k
  <2> HIDE DEF T
  <2> QED BY <1>1, Least
<1>3. n - m \in S
  BY <1>2
<1>4. \A k \in S : n - m >= k
  <2> TAKE k \in S
  <2>1. n - k \in T
    OBVIOUS
  <2>2. m <= n - k
    BY <2>1, <1>2
  <2> QED BY <2>2
<1> QED BY <1>3, <1>4

-----------------------------------------------------------------------------
(* What is left after n characters. *)
LEMMA DropFacts ==
  ASSUME NEW S, NEW s \in Seq(S), NEW n \in 0..Len(s)
  PROVE  /\ Drop(s, n) \in Seq(S)
         /\ Len(Drop(s, n)) = Len(s) - n
         /\ \A k \in 1..(Len(s) - n) : Drop(s, n)[k] = s[n + k]
BY DEF Drop

(* Dropping twice. *)
LEMMA DropDrop ==
  ASSUME NEW S, NEW s \in Seq(S), NEW m \in 0..Len(s), NEW n \in 0..(Len(s) - m)
  PROVE  Drop(Drop(s, m), n) = Drop(s, m + n)
<1> DEFINE d == Drop(s, m)
<1>1. d \in Seq(S) /\ Len(d) = Len(s) - m /\ \A k \in 1..(Len(s) - m) : d[k] = s[m + k]
  BY DropFacts
<1>2. Drop(d, n) \in Seq(S) /\ Len(Drop(d, n)) = Len(s) - m - n
      /\ \A k \in 1..(Len(s) - m - n) : Drop(d, n)[k] = d[n + k]
  <2> HIDE DEF d
  <2>1. n \in 0..Len(d) /\ Len(d) - n = Len(s) - m - n
    BY <1>1
  <2>2. Drop(d, n) \in Seq(S) /\ Len(Drop(d, n)) = Len(d) - n
        /\ \A k \in 1..(Len(d) - n) : Drop(d, n)[k] = d[n + k]
    BY <1>1, <2>1, DropFacts
  <2> QED BY <2>1, <2>2
<1>3. m + n \in 0..Len(s)
  OBVIOUS
<1>4. Drop(s, m + n) \in Seq(S) /\ Len(Drop(s, m + n)) = Len(s) - (m + n)
      /\ \A k \in 1..(Len(s) - (m + n)) : Drop(s, m + n)[k] = s[(m + n) + k]
  BY <1>3, DropFacts
<1>5. \A k \in 1..(Len(s) - m - n) : Drop(d, n)[k] = Drop(s, m + n)[k]
  <2> TAKE k \in 1..(Len(s) - m - n)
  <2>1. /\ n + k \in 1..(Len(s) - m) /\ k \in 1..(Len(s) - (m + n))
        /\ m + (n + k) = (m + n) + k
    OBVIOUS
  <2> HIDE DEF d
  <2>2. Drop(d, n)[k] = d[n + k] /\ d[n + k] = s[m + (n + k)]
    BY <2>1, <1>1, <1>2
  <2>3. Drop(s, m + n)[k] = s[(m + n) + k]
    BY <2>1, <1>4
  <2> QED BY <2>1, <2>2, <2>3
<1> HIDE DEF d
<1>6. Drop(d, n) = Drop(s, m + n)
  <2> DEFINE a == Drop(d, n)
             b == Drop(s, m + n)
             l == Len(s) - m - n
  <2>1. a \in Seq(S) /\ b \in Seq(S) /\ Len(a) = l /\ Len(b) = Len(s) - (m + n) /\ \A k \in 1..l : a[k] = b[k]
    BY <1>2, <1>4, <1>5
  <2>2. Len(s) - (m + n) = l
    OBVIOUS
  <2> HIDE DEF a, b, l
  <2>3. a = b
    BY <2>1, <2>2, SeqEqual
  <2> QED BY <2>3 DEF a, b
<1> QED BY <1>6 DEF d

(* What is left of a joined text. *)
LEMMA DropConcat ==
  ASSUME NEW S, NEW u \in Seq(S), NEW r \in Seq(S), NEW n \in 0..Len(u)
  PROVE  Drop(u \o r, n) = Drop(u, n) \o r
<1>1. u \o r \in Seq(S) /\ Len(u \o r) = Len(u) + Len(r)
      /\ \A k \in 1..(Len(u) + Len(r)) : (u \o r)[k] = IF k <= Len(u) THEN u[k] ELSE r[k - Len(u)]
  OBVIOUS
<1>2. Drop(u, n) \in Seq(S) /\ Len(Drop(u, n)) = Len(u) - n
      /\ \A k \in 1..(Len(u) - n) : Drop(u, n)[k] = u[n + k]
  BY DropFacts
<1>3. Drop(u \o r, n) \in Seq(S) /\ Len(Drop(u \o r, n)) = Len(u) + Len(r) - n
      /\ \A k \in 1..(Len(u) + Len(r) - n) : Drop(u \o r, n)[k] = (u \o r)[n + k]
  <2> DEFINE t == u \o r
  <2>1. n \in 0..Len(t) /\ t \in Seq(S)
    BY <1>1
  <2>2. Drop(t, n) \in Seq(S) /\ Len(Drop(t, n)) = Len(t) - n
        /\ \A k \in 1..(Len(t) - n) : Drop(t, n)[k] = t[n + k]
    <3> HIDE DEF t
    <3> QED BY <2>1, DropFacts
  <2> QED BY <2>2, <1>1
<1> DEFINE a == Drop(u, n)
           b == Drop(u \o r, n)
           t == u \o r
<1>4. /\ a \in Seq(S) /\ b \in Seq(S) /\ Len(b) = Len(u) + Len(r) - n /\ Len(a) = Len(u) - n
      /\ \A k \in 1..(Len(u) - n) : a[k] = u[n + k]
      /\ \A k \in 1..(Len(u) + Len(r) - n) : b[k] = t[n + k]
      /\ \A k \in 1..(Len(u) + Len(r)) : t[k] = IF k <= Len(u) THEN u[k] ELSE r[k - Len(u)]
  BY <1>1, <1>2, <1>3
<1> HIDE DEF a, b, t
<1>5. a \o r \in Seq(S) /\ Len(a \o r) = Len(b)
      /\ \A k \in 1..Len(b) : (a \o r)[k] = IF k <= Len(a) THEN a[k] ELSE r[k - Len(a)]
  <2>1. a \in Seq(S) /\ Len(a) + Len(r) = Len(b)
    BY <1>4
  <2>2. /\ a \o r \in Seq(S) /\ Len(a \o r) = Len(a) + Len(r)
        /\ \A k \in 1..(Len(a) + Len(r)) : (a \o r)[k] = IF k <= Len(a) THEN a[k] ELSE r[k - Len(a)]
    BY <2>1, ConcatProperties
  <2> QED BY <2>1, <2>2
<1>6. \A k \in 1..Len(b) : b[k] = (a \o r)[k]
  <2> TAKE k \in 1..Len(b)
  <2>1. b[k] = t[n + k] /\ n + k \in 1..(Len(u) + Len(r))
    <3>1. k \in 1..(Len(u) + Len(r) - n)
      BY <1>4
    <3>2. Len(u) \in Nat /\ Len(r) \in Nat /\ n \in 0..Len(u)
      OBVIOUS
    <3>3. n + k \in 1..(Len(u) + Len(r))
      BY <3>1, <3>2
    <3> QED BY <1>4, <3>1, <3>3, Zenon
  <2>2. t[n + k] = IF n + k <= Len(u) THEN u[n + k] ELSE r[n + k - Len(u)]
    BY <2>1, <1>4
  <2>3. CASE n + k <= Len(u)
    <3>1. k \in 1..(Len(u) - n) /\ k <= Len(a)
      BY <2>3, <1>4
    <3> QED BY <2>1, <2>2, <2>3, <3>1, <1>4, <1>5
  <2>4. CASE ~(n + k <= Len(u))
    <3>1. ~(k <= Len(a)) /\ n + k - Len(u) = k - Len(a)
      BY <2>4, <1>4
    <3> QED BY <2>1, <2>2, <2>4, <3>1, <1>5
  <2> QED BY <2>3, <2>4
<1>7. b = a \o r
  BY <1>4, <1>5, <1>6, SeqEqual
<1> QED BY <1>7 DEF a, b

-----------------------------------------------------------------------------
(* The characters at the front that are in a set, and those before one     *)
(* that is.                                                                *)
SkipSpec(s, set, n) == /\ n \in 0..Len(s)
                       /\ \A k \in 1..n : s[k] \in set
                       /\ n = Len(s) \/ s[n + 1] \notin set

UpToSpec(s, set, n) == /\ n \in 0..Len(s)
                       /\ \A k \in 1..n : s[k] \notin set
                       /\ n = Len(s) \/ s[n + 1] \in set

(* How many characters of a set a text begins with. *)
LEMMA SkipIs ==
  ASSUME NEW S, NEW s \in Seq(S), NEW set
  PROVE  /\ SkipSpec(s, set, Skip(s, set))
         /\ \A n : SkipSpec(s, set, n) => Skip(s, set) = n
<1> DEFINE stops == {n \in 0..Len(s) : n = Len(s) \/ s[n + 1] \notin set}
<1>1. \E n \in 0..Len(s) : SkipSpec(s, set, n)
  <2>1. stops \in SUBSET Nat /\ Len(s) \in stops
    OBVIOUS
  <2>2. PICK n \in stops : \A k \in stops : n <= k
    <3> HIDE DEF stops
    <3> QED BY <2>1, Least
  <2>3. \A k \in 1..n : s[k] \in set
    <3> TAKE k \in 1..n
    <3>1. k - 1 \in 0..Len(s) /\ ~(n <= k - 1) /\ (k - 1) + 1 = k /\ k - 1 # Len(s)
      BY <2>2
    <3>2. k - 1 \notin stops
      <4> HIDE DEF stops
      <4> QED BY <2>2, <3>1
    <3>3. k - 1 \in stops <=> (k - 1 = Len(s) \/ s[k] \notin set)
      BY <3>1
    <3> QED BY <3>1, <3>2, <3>3
  <2> QED BY <2>2, <2>3 DEF SkipSpec
<1>2. \A m, n : SkipSpec(s, set, m) /\ SkipSpec(s, set, n) => m = n
  BY DEF SkipSpec
<1>3. SkipSpec(s, set, Skip(s, set))
  BY <1>1 DEF Skip, SkipSpec
<1> QED BY <1>2, <1>3

(* How many before the first of a set. *)
LEMMA UpToIs ==
  ASSUME NEW S, NEW s \in Seq(S), NEW set
  PROVE  /\ UpToSpec(s, set, UpTo(s, set))
         /\ \A n : UpToSpec(s, set, n) => UpTo(s, set) = n
<1> DEFINE stops == {n \in 0..Len(s) : n = Len(s) \/ s[n + 1] \in set}
<1>1. \E n \in 0..Len(s) : UpToSpec(s, set, n)
  <2>1. stops \in SUBSET Nat /\ Len(s) \in stops
    OBVIOUS
  <2>2. PICK n \in stops : \A k \in stops : n <= k
    <3> HIDE DEF stops
    <3> QED BY <2>1, Least
  <2>3. \A k \in 1..n : s[k] \notin set
    <3> TAKE k \in 1..n
    <3>1. k - 1 \in 0..Len(s) /\ ~(n <= k - 1) /\ (k - 1) + 1 = k /\ k - 1 # Len(s)
      BY <2>2
    <3>2. k - 1 \notin stops
      <4> HIDE DEF stops
      <4> QED BY <2>2, <3>1
    <3>3. k - 1 \in stops <=> (k - 1 = Len(s) \/ s[k] \in set)
      BY <3>1
    <3> QED BY <3>1, <3>2, <3>3
  <2> QED BY <2>2, <2>3 DEF UpToSpec
<1>2. \A m, n : UpToSpec(s, set, m) /\ UpToSpec(s, set, n) => m = n
  BY DEF UpToSpec
<1>3. UpToSpec(s, set, UpTo(s, set))
  BY <1>1 DEF UpTo, UpToSpec
<1> QED BY <1>2, <1>3

-----------------------------------------------------------------------------
(* What a character adds to the level of the braces. *)
Delta(c) == IF c = LBRACE THEN 1 ELSE IF c = RBRACE THEN -1 ELSE 0

(* The brace level, one character on. *)
LEMMA LevelNext ==
  ASSUME NEW s, NEW n \in Nat
  PROVE  /\ Level(s, 0) = 0
         /\ Level(s, n) \in Int
         /\ Level(s, n + 1) = Level(s, n) + Delta(s[n + 1])
<1> DEFINE In(c, m) == {k \in 1..m : s[k] = c}
<1>1. \A c : \A m \in Nat : IsFiniteSet(In(c, m)) /\ Cardinality(In(c, m)) \in Nat
  <2> TAKE c
  <2> TAKE m \in Nat
  <2>1. IsFiniteSet(1..m) /\ In(c, m) \in SUBSET (1..m)
    BY FS_Interval
  <2> HIDE DEF In
  <2> QED BY <2>1, FS_Subset, FS_CardinalityType
<1>2. \A c : Cardinality(In(c, n + 1)) = Cardinality(In(c, n)) + IF s[n + 1] = c THEN 1 ELSE 0
  <2> TAKE c
  <2>1. CASE s[n + 1] = c
    <3>1. In(c, n + 1) = In(c, n) \union {n + 1} /\ n + 1 \notin In(c, n)
      BY <2>1
    <3> HIDE DEF In
    <3> QED BY <1>1, <2>1, <3>1, FS_AddElement
  <2>2. CASE s[n + 1] # c
    <3>1. In(c, n + 1) = In(c, n)
      BY <2>2
    <3>2. Cardinality(In(c, n)) \in Nat
      BY <1>1
    <3> HIDE DEF In
    <3> QED BY <2>2, <3>1, <3>2
  <2> QED BY <2>1, <2>2
<1>3. \A m : Level(s, m) = Cardinality(In(LBRACE, m)) - Cardinality(In(RBRACE, m))
  BY DEF Level
<1>4. \A c : In(c, 0) = {}
  OBVIOUS
<1>5. Level(s, 0) = 0
  <2> HIDE DEF In
  <2>1. Cardinality({}) = 0
    BY FS_EmptySet
  <2>2. Level(s, 0) = 0 - 0
    BY <1>3, <1>4, <2>1
  <2> QED BY <2>2
<1>6. /\ Cardinality(In(LBRACE, n)) \in Nat /\ Cardinality(In(RBRACE, n)) \in Nat
      /\ Level(s, n) = Cardinality(In(LBRACE, n)) - Cardinality(In(RBRACE, n))
      /\ Level(s, n + 1) = Cardinality(In(LBRACE, n + 1)) - Cardinality(In(RBRACE, n + 1))
      /\ Cardinality(In(LBRACE, n + 1)) = Cardinality(In(LBRACE, n)) + IF s[n + 1] = LBRACE THEN 1 ELSE 0
      /\ Cardinality(In(RBRACE, n + 1)) = Cardinality(In(RBRACE, n)) + IF s[n + 1] = RBRACE THEN 1 ELSE 0
  BY <1>1, <1>2, <1>3
<1>7. LBRACE # RBRACE
  BY DEF LBRACE, RBRACE
<1> HIDE DEF In
<1> QED BY <1>5, <1>6, <1>7 DEF Delta

(* Two texts that begin alike have the same levels. *)
LEMMA LevelSame ==
  ASSUME NEW s, NEW t, NEW n \in Nat, \A k \in 1..n : s[k] = t[k]
  PROVE  Level(s, n) = Level(t, n)
<1>1. \A c : {k \in 1..n : s[k] = c} = {k \in 1..n : t[k] = c}
  OBVIOUS
<1> QED BY <1>1 DEF Level

(* The level in what is left after m characters. *)
LEMMA LevelDrop ==
  ASSUME NEW S, NEW s \in Seq(S), NEW m \in 0..Len(s), NEW n \in 0..(Len(s) - m)
  PROVE  Level(Drop(s, m), n) = Level(s, m + n) - Level(s, m)
<1> DEFINE d == Drop(s, m)
           T == {k \in Nat : k <= Len(s) - m => Level(d, k) = Level(s, m + k) - Level(s, m)}
<1>1. d \in Seq(S) /\ Len(d) = Len(s) - m /\ \A k \in 1..(Len(s) - m) : d[k] = s[m + k]
  BY DropFacts
<1>2. 0 \in T
  <2>1. Level(d, 0) = 0 /\ Level(s, m) \in Int /\ m + 0 = m
    <3> HIDE DEF d
    <3> QED BY LevelNext
  <2> HIDE DEF d
  <2> QED BY <2>1
<1>3. \A k \in Nat : k \in T => k + 1 \in T
  <2> SUFFICES ASSUME NEW k \in Nat, k \in T, k + 1 <= Len(s) - m
               PROVE  Level(d, k + 1) = Level(s, m + (k + 1)) - Level(s, m)
    OBVIOUS
  <2>1. Level(d, k) = Level(s, m + k) - Level(s, m)
    OBVIOUS
  <2>2. d[k + 1] = s[m + (k + 1)] /\ m + (k + 1) = (m + k) + 1 /\ m + k \in Nat
    BY <1>1
  <2>3. Level(d, k + 1) = Level(d, k) + Delta(d[k + 1]) /\ Level(d, k) \in Int
    <3> HIDE DEF d
    <3> QED BY LevelNext
  <2>4. Level(s, m + k + 1) = Level(s, m + k) + Delta(s[m + k + 1]) /\ Level(s, m + k) \in Int
        /\ Level(s, m) \in Int
    BY <2>2, LevelNext
  <2>5. Delta(s[m + k + 1]) \in Int
    BY DEF Delta
  <2> HIDE DEF d, T
  <2> QED BY <2>1, <2>2, <2>3, <2>4, <2>5
<1>4. n \in T
  <2> HIDE DEF T
  <2>1. Nat \subseteq T
    BY <1>2, <1>3, Induct
  <2> QED BY <2>1
<1> QED BY <1>4

-----------------------------------------------------------------------------
(* Where a brace is closed. *)
BraceSpec(s, e) == /\ e \in 2..(Len(s) + 1)
                   /\ e = Len(s) + 1 \/ Level(s, e) = 0
                   /\ \A k \in 1..(e - 1) : Level(s, k) > 0

(* Where a word in braces ends. *)
LEMMA BraceEndIs ==
  ASSUME NEW S, NEW s \in Seq(S), s # <<>>, s[1] = LBRACE
  PROVE  /\ BraceSpec(s, BraceEnd(s))
         /\ \A e : BraceSpec(s, e) => BraceEnd(s) = e
         /\ \A j \in 1..Len(s) : Level(s, j) <= 0 => BraceEnd(s) <= j
<1> DEFINE low == {j \in 1..Len(s) : Level(s, j) <= 0}
<1>1. Level(s, 1) = 1
  <2>1. Level(s, 0) = 0 /\ Level(s, 0 + 1) = Level(s, 0) + Delta(s[0 + 1])
    BY LevelNext
  <2> QED BY <2>1 DEF Delta
<1>2. \A k \in Nat : Level(s, k) \in Int /\ Level(s, k + 1) >= Level(s, k) - 1
  <2> TAKE k \in Nat
  <2>1. Level(s, k) \in Int /\ Level(s, k + 1) = Level(s, k) + Delta(s[k + 1])
    BY LevelNext
  <2>2. Delta(s[k + 1]) \in Int /\ Delta(s[k + 1]) >= -1
    BY DEF Delta
  <2> QED BY <2>1, <2>2
<1>3. \E e : BraceSpec(s, e)
  <2>1. CASE low = {}
    <3>1. \A k \in 1..((Len(s) + 1) - 1) : Level(s, k) > 0
      <4> TAKE k \in 1..((Len(s) + 1) - 1)
      <4>1. k \in 1..Len(s) /\ k \in Nat
        OBVIOUS
      <4>2. Level(s, k) \in Int /\ ~(Level(s, k) <= 0)
        BY <2>1, <4>1, <1>2
      <4> QED BY <4>2
    <3>2. Len(s) + 1 \in 2..(Len(s) + 1)
      OBVIOUS
    <3> QED BY <3>1, <3>2 DEF BraceSpec
  <2>2. CASE low # {}
    <3>1. PICK e \in low : \A k \in low : e <= k
      <4>1. low \in SUBSET Nat
        OBVIOUS
      <4> HIDE DEF low
      <4> QED BY <2>2, <4>1, Least
    <3>2. e # 1 /\ e \in 1..Len(s) /\ Level(s, e) <= 0
      BY <1>1, <3>1
    <3>3. e \in 2..(Len(s) + 1) /\ e - 1 \in 1..Len(s) /\ (e - 1) + 1 = e /\ e - 1 \in Nat
      BY <3>2
    <3>4. \A k \in 1..(e - 1) : Level(s, k) > 0
      <4> TAKE k \in 1..(e - 1)
      <4>1. k \in 1..Len(s) /\ k < e /\ k \in Nat /\ ~(e <= k)
        BY <3>3
      <4>2. k \notin low
        <5> HIDE DEF low
        <5> QED BY <3>1, <4>1
      <4>3. Level(s, k) \in Int /\ ~(Level(s, k) <= 0)
        BY <4>1, <4>2, <1>2
      <4> QED BY <4>3
    <3>5. Level(s, e - 1) > 0 /\ Level(s, e - 1) \in Int /\ Level(s, e) >= Level(s, e - 1) - 1
      <4>1. e - 1 \in 1..(e - 1)
        BY <3>3
      <4>2. Level(s, e - 1) > 0
        BY <4>1, <3>4
      <4>3. Level(s, e - 1) \in Int /\ Level(s, (e - 1) + 1) >= Level(s, e - 1) - 1
        BY <3>3, <1>2
      <4> QED BY <4>2, <4>3, <3>3
    <3>6. Level(s, e) \in Int /\ Level(s, e) <= 0
      BY <3>2, <1>2
    <3>7. Level(s, e) = 0
      BY <3>5, <3>6
    <3> QED BY <3>3, <3>4, <3>7 DEF BraceSpec
  <2> QED BY <2>1, <2>2
<1>4. BraceSpec(s, BraceEnd(s))
  BY <1>3 DEF BraceSpec, BraceEnd
<1>5. \A d, e : BraceSpec(s, d) /\ BraceSpec(s, e) => ~(d < e)
  <2> SUFFICES ASSUME NEW d, NEW e, BraceSpec(s, d), BraceSpec(s, e), d < e PROVE FALSE
    OBVIOUS
  <2>1. d \in 1..(e - 1) /\ d # Len(s) + 1
    BY DEF BraceSpec
  <2>2. Level(s, d) = 0 /\ Level(s, d) > 0
    BY <2>1 DEF BraceSpec
  <2> QED BY <2>2
<1>6. \A e : BraceSpec(s, e) => BraceEnd(s) = e
  <2> TAKE e
  <2> HAVE BraceSpec(s, e)
  <2>1. ~(BraceEnd(s) < e) /\ ~(e < BraceEnd(s))
    BY <1>4, <1>5
  <2>2. BraceEnd(s) \in Int /\ e \in Int
    BY <1>4 DEF BraceSpec
  <2> QED BY <2>1, <2>2
<1>7. \A j \in 1..Len(s) : Level(s, j) <= 0 => BraceEnd(s) <= j
  <2> TAKE j \in 1..Len(s)
  <2> HAVE Level(s, j) <= 0
  <2>1. j \notin 1..(BraceEnd(s) - 1)
    <3>1. \A k \in 1..(BraceEnd(s) - 1) : Level(s, k) > 0
      BY <1>4, Zenon DEF BraceSpec
    <3>2. Level(s, j) \in Int /\ ~(Level(s, j) > 0)
      BY <1>2
    <3> QED BY <3>1, <3>2
  <2>2. BraceEnd(s) \in Int
    BY <1>4 DEF BraceSpec
  <2> QED BY <2>1, <2>2
<1> QED BY <1>4, <1>6, <1>7

-----------------------------------------------------------------------------
(* The tokens of a script that is made of Chars: Size is how much of s the *)
(* next one takes, Kind its type and Read its text.                        *)
White == {SP, NL}
Types == {"SEP", "EOL", "STR", "ESC"}

Brace(s, type) == BeginsWord(type) /\ s[1] = LBRACE

Size(s, type) == IF s[1] \in White THEN Skip(s, White)
                 ELSE IF Brace(s, type) THEN BraceEnd(s) ELSE UpTo(s, White)

Kind(s, type) == IF s[1] = SP THEN "SEP" ELSE IF s[1] = NL THEN "EOL"
                 ELSE IF Brace(s, type) THEN "STR" ELSE "ESC"

Read(s, type) == IF s[1] \in White THEN <<>>
                 ELSE IF Brace(s, type) THEN SubSeq(s, 2, BraceEnd(s) - 1)
                 ELSE SubSeq(s, 1, UpTo(s, White))

(* The characters of the scripts, and what the parser takes them for. *)
LEMMA Characters ==
  /\ SP # NL /\ LBRACE # SP /\ LBRACE # NL /\ RBRACE # SP /\ RBRACE # NL
  /\ LBRACE # RBRACE
  /\ \A c \in Chars : c \notin {NUL, "[", "$", "#", QUOTE}
  /\ \A c \in Chars : c \in Blank <=> c = SP
  /\ \A c \in Chars : c \in Ends <=> c = NL
  /\ \A c \in Chars : c \in Space <=> c \in White
  /\ \A c \in Chars : c \in Space \union {SEMI} <=> c \in White
  /\ \A c \in Chars : c \in Stops(FALSE) <=> c \in White
<1>1. \A c \in Chars : c \notin Marks
  BY CharsAssumption
<1>2. \A c \in Chars : /\ c # NUL /\ c # "[" /\ c # "$" /\ c # "#" /\ c # QUOTE
                       /\ c # "\t" /\ c # "\r" /\ c # SEMI
  BY <1>1, Zenon DEF Marks
<1>3. /\ SP # NL /\ LBRACE # SP /\ LBRACE # NL /\ RBRACE # SP /\ RBRACE # NL
      /\ LBRACE # RBRACE
  BY Zenon DEF SP, NL, LBRACE, RBRACE
<1> QED BY <1>2, <1>3, Zenon DEF Blank, Ends, Space, White, Stops

(* Two sets with the same characters of a text are passed over alike. *)
LEMMA SkipAlike ==
  ASSUME NEW S, NEW s \in Seq(S), NEW X, NEW Y, \A c \in S : c \in X <=> c \in Y
  PROVE  Skip(s, X) = Skip(s, Y) /\ UpTo(s, X) = UpTo(s, Y)
<1>1. \A k \in 1..Len(s) : s[k] \in S
  OBVIOUS
<1>2. \A n : SkipSpec(s, X, n) => SkipSpec(s, Y, n)
  BY <1>1 DEF SkipSpec
<1>3. \A n : UpToSpec(s, X, n) => UpToSpec(s, Y, n)
  BY <1>1 DEF UpToSpec
<1>4. SkipSpec(s, X, Skip(s, X)) /\ UpToSpec(s, X, UpTo(s, X))
  BY SkipIs, UpToIs
<1>5. (\A n : SkipSpec(s, Y, n) => Skip(s, Y) = n) /\ (\A n : UpToSpec(s, Y, n) => UpTo(s, Y) = n)
  BY SkipIs, UpToIs
<1> QED BY <1>2, <1>3, <1>4, <1>5

(* The next token of a script of words, braces, blanks and newlines. *)
LEMMA PlainToken ==
  ASSUME NEW s \in Seq(Chars), s # <<>>, NEW type \in Types
  PROVE  GetToken(s, type, FALSE) = Token(Kind(s, type), Read(s, type), Drop(s, Size(s, type)), FALSE)
<1>1. At(s, 1) = s[1] /\ s[1] \in Chars
  BY DEF At
<1>2. s[1] \notin {NUL, "[", "$", "#", QUOTE} /\ (s[1] \in Blank <=> s[1] = SP) /\ (s[1] \in Ends <=> s[1] = NL)
  BY <1>1, Characters
<1>3. Skip(s, Space) = Skip(s, White) /\ Skip(s, Space \union {SEMI}) = Skip(s, White)
      /\ UpTo(s, Stops(FALSE)) = UpTo(s, White)
  <2>1. \A X : (\A c \in Chars : c \in X <=> c \in White) => Skip(s, X) = Skip(s, White) /\ UpTo(s, X) = UpTo(s, White)
    BY SkipAlike
  <2>2. /\ \A c \in Chars : c \in Space <=> c \in White
        /\ \A c \in Chars : c \in Space \union {SEMI} <=> c \in White
        /\ \A c \in Chars : c \in Stops(FALSE) <=> c \in White
    BY Characters
  <2> QED BY <2>1, <2>2, Zenon
<1>4. SP # NL /\ SP \in White /\ NL \in White /\ \A c \in White : c = SP \/ c = NL
  BY Characters DEF White
<1>5. CASE s[1] = SP
  <2>1. GetToken(s, type, FALSE) = Token("SEP", <<>>, Drop(s, Skip(s, Space)), FALSE)
    BY <1>1, <1>2, <1>4, <1>5, Zenon DEF GetToken
  <2> QED BY <2>1, <1>3, <1>4, <1>5, Zenon DEF Kind, Read, Size
<1>6. CASE s[1] = NL
  <2>1. GetToken(s, type, FALSE) = Token("EOL", <<>>, Drop(s, Skip(s, Space \union {SEMI})), FALSE)
    BY <1>1, <1>2, <1>4, <1>6, Zenon DEF GetToken
  <2> QED BY <2>1, <1>3, <1>4, <1>6, Zenon DEF Kind, Read, Size
<1>7. CASE s[1] # SP /\ s[1] # NL
  <2>1. GetToken(s, type, FALSE) = ParseString(s, type, FALSE)
    BY <1>1, <1>2, <1>4, <1>7, Zenon DEF GetToken
  <2>2. CASE Brace(s, type)
    <3>1. GetToken(s, type, FALSE) = ParseBrace(s, "STR", FALSE)
      BY <1>1, <2>1, <2>2, Zenon DEF ParseString, Brace
    <3> QED BY <3>1, <1>4, <1>7, <2>2, Zenon DEF ParseBrace, Kind, Read, Size
  <2>3. CASE ~Brace(s, type)
    <3>1. GetToken(s, type, FALSE) = Token("ESC", SubSeq(s, 1, UpTo(s, White)), Drop(s, UpTo(s, White)), FALSE)
      BY <1>1, <1>2, <1>3, <2>1, <2>3, Zenon DEF ParseString, Brace
    <3> QED BY <3>1, <1>4, <1>7, <2>3, Zenon DEF Kind, Read, Size
  <2> QED BY <2>2, <2>3
<1> QED BY <1>5, <1>6, <1>7

(* The token at its end. *)
LEMMA EndToken ==
  ASSUME NEW type \in Types
  PROVE  GetToken(<<>>, type, FALSE) = Token(IF type = "EOL" THEN "EOF" ELSE "EOL", <<>>, <<>>, FALSE)
<1>1. At(<<>>, 1) = NUL /\ NUL # "#"
  BY DEF At, NUL
<1>2. type \in {"EOL", "EOF"} <=> type = "EOL"
  BY DEF Types
<1>3. NUL \notin Blank /\ NUL \notin Ends /\ NUL # "[" /\ NUL # "$"
  BY Zenon DEF NUL, Blank, Ends, SP, NL, SEMI
<1> QED BY <1>1, <1>2, <1>3, Zenon DEF GetToken

-----------------------------------------------------------------------------
(* The parser of a script that is made of Chars: no quote is ever open. *)
Scripts == Seq(Chars)

Unquoted == FALSE

State(s, type, argv, cmds) ==
  [text |-> s, type |-> type, quoted |-> Unquoted, argv |-> argv, cmds |-> cmds]

(* The command so far ends. *)
Done(argv, cmds) == IF argv = <<>> THEN cmds ELSE Append(cmds, argv)

IsPlain(s, type, argv, cmds) ==
  /\ s \in Scripts /\ type \in Types /\ argv \in Seq(Scripts) /\ cmds \in Seq(Seq(Scripts))
  /\ type \in {"STR", "ESC"} => argv # <<>>

Plain(p) == \E s, type, argv, cmds : p = State(s, type, argv, cmds) /\ IsPlain(s, type, argv, cmds)

(* A token takes something. *)
LEMMA SizeType ==
  ASSUME NEW s \in Scripts, s # <<>>, NEW type
  PROVE  /\ Size(s, type) \in 1..(Len(s) + 1)
         /\ Drop(s, Size(s, type)) \in Scripts
         /\ Len(Drop(s, Size(s, type))) < Len(s)
         /\ Read(s, type) \in Scripts
<1>1. Len(s) \in Nat /\ Len(s) > 0 /\ s[1] \in Chars
  BY DEF Scripts
<1>2. SkipSpec(s, White, Skip(s, White)) /\ UpToSpec(s, White, UpTo(s, White))
  BY SkipIs, UpToIs DEF Scripts
<1>3. Brace(s, type) => BraceSpec(s, BraceEnd(s))
  BY BraceEndIs DEF Brace, Scripts
<1>4. s[1] \in White => Skip(s, White) \in 1..Len(s)
  BY <1>1, <1>2 DEF SkipSpec
<1>5. s[1] \notin White => UpTo(s, White) \in 1..Len(s)
  BY <1>1, <1>2 DEF UpToSpec
<1>6. Size(s, type) \in 1..(Len(s) + 1)
  BY <1>1, <1>3, <1>4, <1>5 DEF Size, BraceSpec
<1>7. Drop(s, Size(s, type)) \in Scripts /\ Len(Drop(s, Size(s, type))) < Len(s)
  BY <1>1, <1>6 DEF Drop, Scripts
<1>8. \A m \in 1..Len(s), n \in 0..Len(s) : SubSeq(s, m, n) \in Scripts
  BY <1>1 DEF Scripts
<1>9. Read(s, type) \in Scripts
  <2>1. CASE s[1] \in White
    BY <2>1 DEF Read, Scripts
  <2>2. CASE s[1] \notin White /\ Brace(s, type)
    <3>1. BraceEnd(s) - 1 \in 1..Len(s)
      BY <1>1, <1>3, <2>2 DEF BraceSpec
    <3>2. SubSeq(s, 2, BraceEnd(s) - 1) \in Scripts
      BY <3>1, <1>1 DEF Scripts
    <3> QED BY <2>2, <3>2 DEF Read
  <2>3. CASE s[1] \notin White /\ ~Brace(s, type)
    BY <2>3, <1>1, <1>5, <1>8 DEF Read
  <2> QED BY <2>1, <2>2, <2>3
<1> QED BY <1>6, <1>7, <1>9

WithText(p, v) == [p EXCEPT !.text = v]
WithType(p, v) == [p EXCEPT !.type = v]
WithQuoted(p, v) == [p EXCEPT !.quoted = v]
WithArgv(p, v) == [p EXCEPT !.argv = v]
WithCmds(p, v) == [p EXCEPT !.cmds = v]

(* The fields of the parser. *)
LEMMA StateExcept ==
  ASSUME NEW s, NEW type, NEW argv, NEW cmds, NEW v
  PROVE  /\ WithText(State(s, type, argv, cmds), v) = State(v, type, argv, cmds)
         /\ WithType(State(s, type, argv, cmds), v) = State(s, v, argv, cmds)
         /\ WithQuoted(State(s, type, argv, cmds), Unquoted) = State(s, type, argv, cmds)
         /\ WithArgv(State(s, type, argv, cmds), v) = State(s, type, v, cmds)
         /\ WithCmds(State(s, type, argv, cmds), v) = State(s, type, argv, v)
<1>1. WithText(State(s, type, argv, cmds), v) = State(v, type, argv, cmds)
  BY DEF State, WithText
<1>2. WithType(State(s, type, argv, cmds), v) = State(s, v, argv, cmds)
  BY DEF State, WithType
<1>3. WithQuoted(State(s, type, argv, cmds), Unquoted) = State(s, type, argv, cmds)
  BY DEF State, WithQuoted
<1>4. WithArgv(State(s, type, argv, cmds), v) = State(s, type, v, cmds)
  BY DEF State, WithArgv
<1>5. WithCmds(State(s, type, argv, cmds), v) = State(s, type, argv, v)
  BY DEF State, WithCmds
<1> QED BY <1>1, <1>2, <1>3, <1>4, <1>5

(* A parser outside quotes. *)
LEMMA StateQuoted ==
  ASSUME NEW s, NEW type, NEW argv, NEW cmds
  PROVE  WithQuoted(State(s, type, argv, cmds), Unquoted) = State(s, type, argv, cmds)
BY DEF State, WithQuoted

(* What a turn does with the next token. *)
Outcome(s, type, argv, cmds, kind, text, r) ==
  CASE kind = "EOF" -> State(s, type, argv, cmds)
    [] kind = "SEP" -> State(r, kind, argv, cmds)
    [] kind = "EOL" -> State(r, kind, <<>>, Done(argv, cmds))
    [] OTHER -> State(r, kind, Grow(argv, type, text), cmds)

(* What a turn does with a token, *)
LEMMA TurnIs ==
  ASSUME NEW s, NEW type, NEW argv, NEW cmds, NEW kind, NEW text, NEW r,
         GetToken(s, type, Unquoted) = Token(kind, text, r, Unquoted)
  PROVE  Turn(State(s, type, argv, cmds)) = Outcome(s, type, argv, cmds, kind, text, r)
<1> DEFINE p == State(s, type, argv, cmds)
           t == Token(kind, text, r, Unquoted)
           past == State(r, kind, argv, cmds)
<1>1. p.text = s /\ p.type = type /\ p.argv = argv /\ p.cmds = cmds
  BY DEF State
<1>2. p.quoted = Unquoted
  BY DEF State
<1>3. t.type = kind /\ t.text = text /\ t.left = r
  BY DEF Token
<1>4. t.quoted = Unquoted
  BY DEF Token
<1>5. past.argv = argv /\ past.cmds = cmds
  BY DEF State
<1>6. [p EXCEPT !.text = r, !.type = kind, !.quoted = Unquoted] = past
  <2>1. /\ WithText(p, r) = State(r, type, argv, cmds)
        /\ WithType(State(r, type, argv, cmds), kind) = past
        /\ WithQuoted(past, Unquoted) = past
    <3>1. WithText(p, r) = State(r, type, argv, cmds)
      BY StateExcept
    <3>2. WithType(State(r, type, argv, cmds), kind) = past
      BY StateExcept
    <3>3. WithQuoted(past, Unquoted) = past
      BY StateQuoted, Zenon
    <3> QED BY <3>1, <3>2, <3>3
  <2> HIDE DEF p, past
  <2>2. [p EXCEPT !.text = r, !.type = kind, !.quoted = Unquoted]
          = [[[p EXCEPT !.text = r] EXCEPT !.type = kind] EXCEPT !.quoted = Unquoted]
    OBVIOUS
  <2> QED BY <2>1, <2>2, Zenon DEF WithText, WithType, WithQuoted
<1>7. ASSUME NEW a, NEW c PROVE [past EXCEPT !.argv = a, !.cmds = c] = State(r, kind, a, c)
  <2>1. /\ WithArgv(past, a) = State(r, kind, a, cmds)
        /\ WithCmds(State(r, kind, a, cmds), c) = State(r, kind, a, c)
    BY StateExcept
  <2> HIDE DEF past
  <2>2. [past EXCEPT !.argv = a, !.cmds = c] = [[past EXCEPT !.argv = a] EXCEPT !.cmds = c]
    OBVIOUS
  <2> QED BY <2>1, <2>2, Zenon DEF WithArgv, WithCmds
<1>8. ASSUME NEW a PROVE [past EXCEPT !.argv = a] = State(r, kind, a, cmds)
  <2>1. WithArgv(past, a) = State(r, kind, a, cmds)
    BY StateExcept
  <2> HIDE DEF past
  <2> QED BY <2>1, Zenon DEF WithArgv
<1>9. GetToken(p.text, p.type, p.quoted) = t
  <2> HIDE DEF p
  <2> QED BY <1>1, <1>2, Zenon
<1> HIDE DEF p, t, past
<1>10. Turn(p) = LET past1 == [p EXCEPT !.text = t.left, !.type = t.type, !.quoted = t.quoted]
                IN CASE t.type = "EOF" -> p
                     [] t.type = "SEP" -> past1
                     [] t.type = "EOL" -> [past1 EXCEPT !.argv = <<>>,
                                             !.cmds = IF p.argv = <<>> THEN @ ELSE Append(@, p.argv)]
                     [] OTHER -> [past1 EXCEPT !.argv = Grow(@, p.type, t.text)]
  BY <1>9, Zenon DEF Turn
<1>11. [p EXCEPT !.text = t.left, !.type = t.type, !.quoted = t.quoted] = past
  BY <1>3, <1>4, <1>6, Zenon
<1>12. [past EXCEPT !.argv = <<>>, !.cmds = IF p.argv = <<>> THEN @ ELSE Append(@, p.argv)]
         = State(r, kind, <<>>, Done(argv, cmds))
  <2>1. (IF p.argv = <<>> THEN past.cmds ELSE Append(past.cmds, p.argv)) = Done(argv, cmds)
    BY <1>1, <1>5, Zenon DEF Done
  <2> QED BY <1>7, <2>1, Zenon
<1>13. [past EXCEPT !.argv = Grow(@, p.type, t.text)] = State(r, kind, Grow(argv, type, text), cmds)
  BY <1>1, <1>3, <1>5, <1>8, Zenon
<1>14. Turn(p) = CASE kind = "EOF" -> p
                   [] kind = "SEP" -> past
                   [] kind = "EOL" -> State(r, kind, <<>>, Done(argv, cmds))
                   [] OTHER -> State(r, kind, Grow(argv, type, text), cmds)
  BY <1>3, <1>10, <1>11, <1>12, <1>13, Zenon
<1> QED BY <1>14 DEF p, past, Outcome

(* of a plain script, *)
LEMMA TurnPlain ==
  ASSUME NEW s \in Scripts, s # <<>>, NEW type \in Types, NEW argv, NEW cmds
  PROVE  Turn(State(s, type, argv, cmds)) =
           LET kind == Kind(s, type)
               rest == Drop(s, Size(s, type))
           IN IF kind = "SEP" THEN State(rest, "SEP", argv, cmds)
              ELSE IF kind = "EOL" THEN State(rest, "EOL", <<>>, Done(argv, cmds))
              ELSE State(rest, kind, Grow(argv, type, Read(s, type)), cmds)
<1>1. GetToken(s, type, Unquoted) = Token(Kind(s, type), Read(s, type), Drop(s, Size(s, type)), Unquoted)
  BY PlainToken DEF Scripts, Unquoted
<1>2. Kind(s, type) \in {"SEP", "EOL", "STR", "ESC"}
  BY DEF Kind
<1> DEFINE kind == Kind(s, type)
           text == Read(s, type)
           rest == Drop(s, Size(s, type))
<1>3. GetToken(s, type, Unquoted) = Token(kind, text, rest, Unquoted)
  BY <1>1
<1>4. kind # "EOF" /\ kind \in {"SEP", "EOL", "STR", "ESC"}
  BY <1>2
<1> HIDE DEF kind, text, rest
<1>5. Turn(State(s, type, argv, cmds)) = Outcome(s, type, argv, cmds, kind, text, rest)
  BY <1>3, TurnIs
<1>6. Turn(State(s, type, argv, cmds)) =
        IF kind = "SEP" THEN State(rest, "SEP", argv, cmds)
        ELSE IF kind = "EOL" THEN State(rest, "EOL", <<>>, Done(argv, cmds))
        ELSE State(rest, kind, Grow(argv, type, text), cmds)
  BY <1>4, <1>5 DEF Outcome
<1> QED BY <1>6 DEF kind, text, rest

(* and at its end. *)
LEMMA TurnEnd ==
  ASSUME NEW type \in Types, NEW argv, NEW cmds
  PROVE  Turn(State(<<>>, type, argv, cmds)) =
           IF type = "EOL" THEN State(<<>>, type, argv, cmds)
           ELSE State(<<>>, "EOL", <<>>, Done(argv, cmds))
<1> DEFINE kind == IF type = "EOL" THEN "EOF" ELSE "EOL"
<1>1. GetToken(<<>>, type, Unquoted) = Token(kind, <<>>, <<>>, Unquoted)
  BY EndToken DEF Unquoted
<1>2. kind = IF type = "EOL" THEN "EOF" ELSE "EOL"
  OBVIOUS
<1> HIDE DEF kind
<1>3. Turn(State(<<>>, type, argv, cmds)) = Outcome(<<>>, type, argv, cmds, kind, <<>>, <<>>)
  BY <1>1, TurnIs
<1> QED BY <1>2, <1>3 DEF Outcome

-----------------------------------------------------------------------------
(* The states of the parser, one turn after the other. *)
Traces(p, n, f) == f = [k \in 0..n |-> IF k = 0 THEN p ELSE Turn(f[k - 1])]

(* The turns, one from the other. *)
LEMMA TraceFacts ==
  ASSUME NEW p, NEW n \in Nat, NEW f, Traces(p, n, f)
  PROVE  f[0] = p /\ \A k \in 0..n : k + 1 <= n => f[k + 1] = Turn(f[k])
<1>1. f = [k \in 0..n |-> IF k = 0 THEN p ELSE Turn(f[k - 1])]
  BY Zenon DEF Traces
<1>2. \A k \in 0..n : f[k] = IF k = 0 THEN p ELSE Turn(f[k - 1])
  BY <1>1, Zenon
<1>3. f[0] = p
  BY <1>2
<1>4. ASSUME NEW k \in 0..n, k + 1 <= n PROVE f[k + 1] = Turn(f[k])
  <2>1. k + 1 \in 0..n /\ k + 1 # 0 /\ (k + 1) - 1 = k
    BY <1>4
  <2>2. f[k + 1] = Turn(f[(k + 1) - 1])
    BY <1>2, <2>1, Zenon
  <2> QED BY <2>1, <2>2, Zenon
<1> QED BY <1>3, <1>4

(* The parser takes as many turns as it is told. *)
LEMMA TraceIs ==
  ASSUME NEW p, NEW n \in Nat
  PROVE  \E f : Traces(p, n, f) /\ Turns(p, n) = f[n]
<1> DEFINE S == {k \in Nat : \E f : Traces(p, k, f)}
<1>1. 0 \in S
  <2> DEFINE f == [k \in 0..0 |-> p]
  <2>1. f = [k \in 0..0 |-> IF k = 0 THEN p ELSE Turn(f[k - 1])]
    OBVIOUS
  <2>2. Traces(p, 0, f)
    BY <2>1, Zenon DEF Traces
  <2> HIDE DEF f
  <2> QED BY <2>2
<1>2. \A k \in Nat : k \in S => k + 1 \in S
  <2> SUFFICES ASSUME NEW k \in Nat, NEW f, Traces(p, k, f) PROVE \E h : Traces(p, k + 1, h)
    OBVIOUS
  <2> DEFINE h == [m \in 0..(k + 1) |-> IF m <= k THEN f[m] ELSE Turn(f[k])]
  <2>1. f[0] = p /\ \A m \in 0..k : m + 1 <= k => f[m + 1] = Turn(f[m])
    BY TraceFacts
  <2>2. ASSUME NEW m \in 0..(k + 1) PROVE h[m] = IF m = 0 THEN p ELSE Turn(h[m - 1])
    <3>1. CASE m = 0
      BY <2>1, <3>1
    <3>2. CASE m # 0 /\ m <= k
      <4>1. m - 1 \in 0..k /\ (m - 1) + 1 = m
        BY <3>2
      <4>2. f[m] = Turn(f[m - 1])
        BY <2>1, <3>2, <4>1
      <4>3. h[m] = f[m] /\ h[m - 1] = f[m - 1]
        BY <3>2, <4>1
      <4> QED BY <3>2, <4>2, <4>3
    <3>3. CASE m = k + 1
      <4>1. h[m] = Turn(f[k]) /\ h[m - 1] = f[k] /\ m # 0
        BY <3>3
      <4> QED BY <4>1
    <3> QED BY <3>1, <3>2, <3>3
  <2>3. Traces(p, k + 1, h)
    BY <2>2 DEF Traces
  <2> HIDE DEF h
  <2> QED BY <2>3
<1>3. \E f : Traces(p, n, f)
  <2> HIDE DEF S
  <2>1. n \in S
    BY <1>1, <1>2, Induct
  <2> QED BY <2>1 DEF S
<1> DEFINE after == CHOOSE f : Traces(p, n, f)
<1>4. Traces(p, n, after)
  BY <1>3
<1>5. Turns(p, n) = after[n]
  BY DEF Turns, Traces
<1> HIDE DEF after
<1> QED BY <1>4, <1>5

(* The last turn, after those before it, *)
LEMMA TurnsIs ==
  ASSUME NEW p, NEW n \in Nat
  PROVE  Turns(p, 0) = p /\ Turns(p, n + 1) = Turn(Turns(p, n))
<1>1. PICK z : Traces(p, 0, z) /\ Turns(p, 0) = z[0]
  BY TraceIs
<1>2. Turns(p, 0) = p
  BY <1>1, TraceFacts
<1>3. PICK f : Traces(p, n, f) /\ Turns(p, n) = f[n]
  BY TraceIs
<1>4. PICK g : Traces(p, n + 1, g) /\ Turns(p, n + 1) = g[n + 1]
  BY TraceIs
<1>5. /\ f[0] = p /\ \A k \in 0..n : k + 1 <= n => f[k + 1] = Turn(f[k])
  BY <1>3, TraceFacts
<1>6. /\ g[0] = p /\ \A k \in 0..(n + 1) : k + 1 <= n + 1 => g[k + 1] = Turn(g[k])
  BY <1>4, TraceFacts
<1> DEFINE S == {k \in Nat : k <= n => f[k] = g[k]}
<1>7. 0 \in S /\ \A k \in Nat : k \in S => k + 1 \in S
  BY <1>5, <1>6
<1>8. n \in S
  <2> HIDE DEF S
  <2> QED BY <1>7, Induct
<1>9. g[n + 1] = Turn(g[n]) /\ f[n] = g[n]
  BY <1>6, <1>8
<1> QED BY <1>2, <1>3, <1>4, <1>9

(* and the first one, before the others. *)
LEMMA TurnsFirst ==
  ASSUME NEW p, NEW n \in Nat
  PROVE  Turns(p, n + 1) = Turns(Turn(p), n)
<1> DEFINE S == {k \in Nat : Turns(p, k + 1) = Turns(Turn(p), k)}
<1>1. 0 \in S
  <2>1. Turns(p, 0) = p /\ Turns(p, 0 + 1) = Turn(Turns(p, 0)) /\ Turns(Turn(p), 0) = Turn(p)
    BY TurnsIs
  <2> QED BY <2>1
<1>2. \A k \in Nat : k \in S => k + 1 \in S
  <2> SUFFICES ASSUME NEW k \in Nat, Turns(p, k + 1) = Turns(Turn(p), k)
               PROVE  Turns(p, (k + 1) + 1) = Turns(Turn(p), k + 1)
    OBVIOUS
  <2>1. Turns(p, (k + 1) + 1) = Turn(Turns(p, k + 1))
    BY TurnsIs
  <2>2. Turns(Turn(p), k + 1) = Turn(Turns(Turn(p), k))
    BY TurnsIs
  <2> QED BY <2>1, <2>2
<1>3. n \in S
  <2> HIDE DEF S
  <2> QED BY <1>1, <1>2, Induct
<1> QED BY <1>3

-----------------------------------------------------------------------------
(* A turn leaves less to read, until there is nothing. *)
LEMMA GrowType ==
  ASSUME NEW argv \in Seq(Scripts), NEW type \in Types, NEW text \in Scripts,
         type \in {"STR", "ESC"} => argv # <<>>
  PROVE  Grow(argv, type, text) \in Seq(Scripts) /\ Grow(argv, type, text) # <<>>
<1>1. CASE type \in {"SEP", "EOL"}
  BY <1>1 DEF Grow
<1>2. CASE type \notin {"SEP", "EOL"}
  <2>1. argv # <<>> /\ Len(argv) \in 1..Len(argv)
    BY <1>2 DEF Types
  <2>2. argv[Len(argv)] \in Scripts
    BY <2>1
  <2>3. argv[Len(argv)] \o text \in Scripts
    BY <2>2 DEF Scripts
  <2>4. Grow(argv, type, text) = [argv EXCEPT ![Len(argv)] = argv[Len(argv)] \o text]
    BY <1>2 DEF Grow
  <2> QED BY <2>1, <2>3, <2>4
<1> QED BY <1>1, <1>2

(* The commands, when the last one is done. *)
LEMMA DoneType ==
  ASSUME NEW argv \in Seq(Scripts), NEW cmds \in Seq(Seq(Scripts))
  PROVE  Done(argv, cmds) \in Seq(Seq(Scripts))
BY DEF Done

(* What follows when a token of s is read. *)
Follows(s, type, argv, cmds, s2, type2, argv2, cmds2) ==
  IF s = <<>>
  THEN /\ s2 = <<>> /\ type2 = "EOL"
       /\ argv2 = IF type = "EOL" THEN argv ELSE <<>>
       /\ cmds2 = IF type = "EOL" THEN cmds ELSE Done(argv, cmds)
  ELSE /\ s2 = Drop(s, Size(s, type)) /\ type2 = Kind(s, type)
       /\ argv2 = CASE type2 = "SEP" -> argv
                    [] type2 = "EOL" -> <<>>
                    [] OTHER -> Grow(argv, type, Read(s, type))
       /\ cmds2 = IF type2 = "EOL" THEN Done(argv, cmds) ELSE cmds

(* Every turn of a plain script leaves a plain parser, with less to read. *)
LEMMA TurnNext ==
  ASSUME NEW s, NEW type, NEW argv, NEW cmds, IsPlain(s, type, argv, cmds)
  PROVE  \E s2, type2, argv2, cmds2 :
           /\ Follows(s, type, argv, cmds, s2, type2, argv2, cmds2)
           /\ Turn(State(s, type, argv, cmds)) = State(s2, type2, argv2, cmds2)
           /\ IsPlain(s2, type2, argv2, cmds2)
           /\ IF s = <<>> THEN s2 = <<>> ELSE Len(s2) < Len(s)
<1> USE DEF IsPlain
<1>0. <<>> \in Scripts /\ <<>> \in Seq(Scripts) /\ "EOL" \in Types
  BY DEF Scripts, Types
<1>1. CASE s = <<>> /\ type = "EOL"
  <2>1. Turn(State(s, type, argv, cmds)) = State(<<>>, "EOL", argv, cmds)
    BY <1>1, TurnEnd
  <2>2. Follows(s, type, argv, cmds, <<>>, "EOL", argv, cmds)
    BY <1>1 DEF Follows
  <2> QED BY <1>0, <1>1, <2>1, <2>2
<1>2. CASE s = <<>> /\ type # "EOL"
  <2>1. Turn(State(s, type, argv, cmds)) = State(<<>>, "EOL", <<>>, Done(argv, cmds))
    BY <1>2, TurnEnd
  <2>2. Follows(s, type, argv, cmds, <<>>, "EOL", <<>>, Done(argv, cmds))
    BY <1>2 DEF Follows
  <2>3. Done(argv, cmds) \in Seq(Seq(Scripts))
    BY DoneType
  <2> QED BY <1>0, <1>2, <2>1, <2>2, <2>3
<1>3. CASE s # <<>>
  <2> DEFINE kind == Kind(s, type)
             rest == Drop(s, Size(s, type))
             text == Read(s, type)
  <2>1. rest \in Scripts /\ Len(rest) < Len(s) /\ text \in Scripts
    BY <1>3, SizeType
  <2>2. kind \in Types
    BY DEF Kind, Types
  <2>3. Turn(State(s, type, argv, cmds)) =
          IF kind = "SEP" THEN State(rest, "SEP", argv, cmds)
          ELSE IF kind = "EOL" THEN State(rest, "EOL", <<>>, Done(argv, cmds))
          ELSE State(rest, kind, Grow(argv, type, text), cmds)
    BY <1>3, TurnPlain
  <2>4. \A argv2, cmds2 :
          /\ argv2 = CASE kind = "SEP" -> argv
                       [] kind = "EOL" -> <<>>
                       [] OTHER -> Grow(argv, type, text)
          /\ cmds2 = IF kind = "EOL" THEN Done(argv, cmds) ELSE cmds
          => Follows(s, type, argv, cmds, rest, kind, argv2, cmds2)
    BY <1>3 DEF Follows
  <2>5. Grow(argv, type, text) \in Seq(Scripts) /\ Grow(argv, type, text) # <<>>
    <3> HIDE DEF text
    <3> QED BY <2>1, GrowType
  <2>6. Done(argv, cmds) \in Seq(Seq(Scripts))
    BY DoneType
  <2> HIDE DEF kind, rest, text
  <2>7. CASE kind = "SEP"
    <3>1. Follows(s, type, argv, cmds, rest, kind, argv, cmds)
      BY <2>4, <2>7
    <3>2. Turn(State(s, type, argv, cmds)) = State(rest, kind, argv, cmds)
      BY <2>3, <2>7
    <3>3. IsPlain(rest, kind, argv, cmds)
      BY <2>1, <2>2, <2>7
    <3> QED BY <1>3, <2>1, <3>1, <3>2, <3>3
  <2>8. CASE kind = "EOL"
    <3>1. Follows(s, type, argv, cmds, rest, kind, <<>>, Done(argv, cmds))
      BY <2>4, <2>8
    <3>2. Turn(State(s, type, argv, cmds)) = State(rest, kind, <<>>, Done(argv, cmds))
      BY <2>3, <2>8
    <3>3. IsPlain(rest, kind, <<>>, Done(argv, cmds))
      BY <1>0, <2>1, <2>2, <2>6, <2>8
    <3> QED BY <1>3, <2>1, <3>1, <3>2, <3>3
  <2>9. CASE kind # "SEP" /\ kind # "EOL"
    <3>1. Follows(s, type, argv, cmds, rest, kind, Grow(argv, type, text), cmds)
      BY <2>4, <2>9
    <3>2. Turn(State(s, type, argv, cmds)) = State(rest, kind, Grow(argv, type, text), cmds)
      BY <2>3, <2>9
    <3>3. IsPlain(rest, kind, Grow(argv, type, text), cmds)
      BY <2>1, <2>2, <2>5
    <3> QED BY <1>3, <2>1, <3>1, <3>2, <3>3
  <2> QED BY <2>7, <2>8, <2>9
<1> QED BY <1>1, <1>2, <1>3

(* With two turns more than there are characters, the parser is done. *)
LEMMA Halts ==
  ASSUME NEW s, NEW type, NEW argv, NEW cmds, IsPlain(s, type, argv, cmds)
  PROVE  LET q == Turns(State(s, type, argv, cmds), Len(s) + 2) IN Turn(q) = q
<1> DEFINE Halted(q) == Turn(q) = q
           S == {n \in Nat : \A t, ty, a, c : IsPlain(t, ty, a, c) /\ Len(t) <= n
                                              => Halted(Turns(State(t, ty, a, c), n + 2))}
<1>1. 0 \in S
  <2> SUFFICES ASSUME NEW t, NEW ty, NEW a, NEW c, IsPlain(t, ty, a, c), Len(t) <= 0
               PROVE  Halted(Turns(State(t, ty, a, c), 0 + 2))
    BY Zenon
  <2>1. t = <<>> /\ ty \in Types
    BY DEF IsPlain, Scripts
  <2>2. Turn(State(t, ty, a, c)) = IF ty = "EOL" THEN State(<<>>, ty, a, c)
                                   ELSE State(<<>>, "EOL", <<>>, Done(a, c))
    BY <2>1, TurnEnd
  <2>3. \A a2, c2 : Turn(State(<<>>, "EOL", a2, c2)) = State(<<>>, "EOL", a2, c2)
    BY TurnEnd DEF Types
  <2>4. Halted(Turn(State(t, ty, a, c)))
    BY <2>2, <2>3
  <2>5. Turns(State(t, ty, a, c), 0) = State(t, ty, a, c)
        /\ Turns(State(t, ty, a, c), 0 + 1) = Turn(Turns(State(t, ty, a, c), 0))
        /\ Turns(State(t, ty, a, c), 1 + 1) = Turn(Turns(State(t, ty, a, c), 1))
    BY TurnsIs
  <2> QED BY <2>4, <2>5
<1>2. \A n \in Nat : n \in S => n + 1 \in S
  <2> SUFFICES ASSUME NEW n \in Nat, n \in S PROVE n + 1 \in S
    OBVIOUS
  <2> SUFFICES ASSUME NEW t, NEW ty, NEW a, NEW c, IsPlain(t, ty, a, c), Len(t) <= n + 1
               PROVE  Halted(Turns(State(t, ty, a, c), n + 1 + 2))
    <3> HIDE DEF Halted
    <3> QED OBVIOUS
  <2>1. PICK t2, ty2, a2, c2 : /\ Turn(State(t, ty, a, c)) = State(t2, ty2, a2, c2)
                               /\ IsPlain(t2, ty2, a2, c2)
                               /\ IF t = <<>> THEN t2 = <<>> ELSE Len(t2) < Len(t)
    BY TurnNext
  <2>2. Len(t2) <= n
    <3>1. t2 \in Scripts /\ t \in Scripts
      BY <2>1 DEF IsPlain
    <3>2. Len(t2) \in Nat /\ Len(t) \in Nat
      BY <3>1 DEF Scripts
    <3> QED BY <2>1, <3>2
  <2>3. Halted(Turns(State(t2, ty2, a2, c2), n + 2))
    BY <2>1, <2>2
  <2>4. Turns(State(t, ty, a, c), (n + 2) + 1) = Turns(Turn(State(t, ty, a, c)), n + 2)
    BY TurnsFirst
  <2>5. (n + 2) + 1 = n + 1 + 2
    OBVIOUS
  <2> HIDE DEF Halted
  <2> QED BY <2>1, <2>3, <2>4, <2>5
<1>3. Len(s) \in Nat
  BY DEF IsPlain, Scripts
<1>4. Len(s) \in S
  <2> HIDE DEF S
  <2> QED BY <1>1, <1>2, <1>3, Induct
<1>5. Halted(Turns(State(s, type, argv, cmds), Len(s) + 2))
  <2> HIDE DEF Halted
  <2> QED BY <1>3, <1>4
<1> QED BY <1>5

(* A parser that is done stays as it is. *)
LEMMA Rests ==
  ASSUME NEW p, NEW m \in Nat, NEW n \in Nat, m <= n, Turn(Turns(p, m)) = Turns(p, m)
  PROVE  Turns(p, n) = Turns(p, m)
<1> DEFINE S == {k \in Nat : Turns(p, m + k) = Turns(p, m)}
<1>1. 0 \in S
  OBVIOUS
<1>2. \A k \in Nat : k \in S => k + 1 \in S
  <2> SUFFICES ASSUME NEW k \in Nat, Turns(p, m + k) = Turns(p, m)
               PROVE  Turns(p, m + (k + 1)) = Turns(p, m)
    OBVIOUS
  <2>1. m + k \in Nat /\ (m + k) + 1 = m + (k + 1)
    OBVIOUS
  <2>2. Turns(p, (m + k) + 1) = Turn(Turns(p, m + k))
    BY <2>1, TurnsIs
  <2> QED BY <2>1, <2>2
<1>3. n - m \in Nat /\ m + (n - m) = n
  OBVIOUS
<1>4. n - m \in S
  <2> HIDE DEF S
  <2> QED BY <1>1, <1>2, <1>3, Induct
<1> QED BY <1>3, <1>4

(* The commands read from s on, the command so far being argv. *)
Result(s, type, argv, cmds) == Turns(State(s, type, argv, cmds), Len(s) + 2).cmds

(* What is read does not change with a turn. *)
LEMMA ResultNext ==
  ASSUME NEW s, NEW type, NEW argv, NEW cmds, IsPlain(s, type, argv, cmds),
         NEW s2, NEW type2, NEW argv2, NEW cmds2,
         Follows(s, type, argv, cmds, s2, type2, argv2, cmds2)
  PROVE  /\ Result(s, type, argv, cmds) = Result(s2, type2, argv2, cmds2)
         /\ IsPlain(s2, type2, argv2, cmds2)
         /\ IF s = <<>> THEN s2 = <<>> ELSE Len(s2) < Len(s)
<1>1. /\ Turn(State(s, type, argv, cmds)) = State(s2, type2, argv2, cmds2)
      /\ IsPlain(s2, type2, argv2, cmds2)
      /\ IF s = <<>> THEN s2 = <<>> ELSE Len(s2) < Len(s)
  <2>1. PICK s3, type3, argv3, cmds3 :
           /\ Follows(s, type, argv, cmds, s3, type3, argv3, cmds3)
           /\ Turn(State(s, type, argv, cmds)) = State(s3, type3, argv3, cmds3)
           /\ IsPlain(s3, type3, argv3, cmds3)
           /\ IF s = <<>> THEN s3 = <<>> ELSE Len(s3) < Len(s)
    BY TurnNext
  <2>2. s3 = s2 /\ type3 = type2 /\ argv3 = argv2 /\ cmds3 = cmds2
    BY <2>1 DEF Follows
  <2> QED BY <2>1, <2>2
<1> DEFINE p == State(s, type, argv, cmds)
           q == State(s2, type2, argv2, cmds2)
<1>2. Len(s) + 2 \in Nat /\ Len(s2) + 2 \in Nat /\ (Len(s2) + 2) + 1 \in Nat
  BY <1>1 DEF IsPlain, Scripts
<1>3. Turn(Turns(p, Len(s) + 2)) = Turns(p, Len(s) + 2) /\ Turn(Turns(q, Len(s2) + 2)) = Turns(q, Len(s2) + 2)
  BY <1>1, Halts
<1>4. Turns(p, (Len(s2) + 2) + 1) = Turns(q, Len(s2) + 2)
  BY <1>1, <1>2, TurnsFirst
<1> HIDE DEF p, q
<1>5. Turns(p, Len(s) + 2) = Turns(p, (Len(s2) + 2) + 1)
  <2> DEFINE m == Len(s) + 2
             n == (Len(s2) + 2) + 1
  <2>1. m \in Nat /\ n \in Nat /\ Turn(Turns(p, m)) = Turns(p, m) /\ Turn(Turns(p, n)) = Turns(p, n)
    BY <1>2, <1>3, <1>4
  <2> HIDE DEF m, n
  <2>5. Turns(p, m) = Turns(p, n)
    <3>1. CASE m <= n
      BY <2>1, <3>1, Rests
    <3>2. CASE n <= m
      BY <2>1, <3>2, Rests
    <3> QED BY <2>1, <3>1, <3>2
  <2> QED BY <2>5 DEF m, n
<1> QED BY <1>1, <1>4, <1>5 DEF Result, p, q

(* What is read at the end. *)
LEMMA ResultEnd ==
  ASSUME NEW type, NEW argv, NEW cmds, IsPlain(<<>>, type, argv, cmds)
  PROVE  Result(<<>>, type, argv, cmds) = IF type = "EOL" THEN cmds ELSE Done(argv, cmds)
<1> DEFINE p == State(<<>>, type, argv, cmds)
<1>1. type \in Types
  BY DEF IsPlain
<1>2. Turn(p) = IF type = "EOL" THEN p ELSE State(<<>>, "EOL", <<>>, Done(argv, cmds))
  BY <1>1, TurnEnd
<1>3. \A a, c : Turn(State(<<>>, "EOL", a, c)) = State(<<>>, "EOL", a, c)
  BY TurnEnd DEF Types
<1>4. Turn(Turn(p)) = Turn(p)
  BY <1>2, <1>3
<1>5. Turns(p, 0) = p /\ Turns(p, 0 + 1) = Turn(Turns(p, 0)) /\ Turns(p, 1 + 1) = Turn(Turns(p, 1))
  BY TurnsIs
<1>6. Turns(p, 2) = Turn(p)
  BY <1>4, <1>5
<1>7. \A s, ty, a, c : State(s, ty, a, c).cmds = c
  BY DEF State
<1>8. Len(<<>>) + 2 = 2
  OBVIOUS
<1>9. Result(<<>>, type, argv, cmds) = Turn(p).cmds
  BY <1>6, <1>8 DEF Result
<1>10. p.cmds = cmds
  BY <1>7
<1> HIDE DEF p
<1>11. CASE type = "EOL"
  BY <1>2, <1>9, <1>10, <1>11
<1>12. CASE type # "EOL"
  BY <1>2, <1>7, <1>9, <1>12
<1> QED BY <1>11, <1>12

(* The commands of a script are what is read from its beginning. *)
LEMMA CommandsAre ==
  ASSUME NEW s
  PROVE  Commands(s) = Result(s, "EOL", <<>>, <<>>)
BY Zenon DEF Commands, Result, InitParser, State, Unquoted

-----------------------------------------------------------------------------
(* Joining texts, or lists of commands. *)
Cat(a, b) == a \o b

(* It does not matter where one starts. *)
LEMMA CatAssociative ==
  ASSUME NEW S, NEW a \in Seq(S), NEW b \in Seq(S), NEW c \in Seq(S)
  PROVE  Cat(Cat(a, b), c) = Cat(a, Cat(b, c))
BY ConcatAssociative DEF Cat

(* A joined sequence with one element more. *)
LEMMA AppendConcat ==
  ASSUME NEW S, NEW c \in Seq(S), NEW d \in Seq(S), NEW e \in S
  PROVE  Append(Cat(c, d), e) = Cat(c, Append(d, e))
<1> DEFINE one == <<e>>
<1>1. one \in Seq(S)
  OBVIOUS
<1>2. c \o d \in Seq(S)
  BY ConcatProperties
<1>3. Append(c \o d, e) = (c \o d) \o one
  <2> DEFINE f == c \o d
  <2>1. f \in Seq(S)
    BY <1>2
  <2> HIDE DEF f
  <2>2. Append(f, e) = f \o one
    BY <2>1, AppendIsConcat
  <2> QED BY <2>2 DEF f
<1>4. Append(d, e) = d \o one
  BY AppendIsConcat
<1> HIDE DEF one
<1>5. Cat(Cat(c, d), one) = Cat(c, Cat(d, one))
  BY <1>1, CatAssociative
<1> QED BY <1>3, <1>4, <1>5 DEF Cat

(* Ending a command changes the end of the list of commands only. *)
LEMMA DoneConcat ==
  ASSUME NEW argv \in Seq(Scripts), NEW C \in Seq(Seq(Scripts)), NEW D \in Seq(Seq(Scripts))
  PROVE  Done(argv, C \o D) = C \o Done(argv, D)
<1>1. CASE argv = <<>>
  BY <1>1 DEF Done
<1>2. CASE argv # <<>>
  <2>1. Append(Cat(C, D), argv) = Cat(C, Append(D, argv))
    BY AppendConcat
  <2> QED BY <1>2, <2>1 DEF Done, Cat
<1> QED BY <1>1, <1>2

PlainWith(s, type, argv, D, C) ==
  /\ s \in Scripts /\ Len(s) \in Nat /\ D \in Seq(Seq(Scripts)) /\ argv \in Seq(Scripts)
  /\ IsPlain(s, type, argv, C \o D) /\ Done(argv, C \o D) = C \o Done(argv, D)
  /\ Done(argv, D) \in Seq(Seq(Scripts))

(* A plain parser, with commands in front of those it read. *)
LEMMA PlainConcat ==
  ASSUME NEW C \in Seq(Seq(Scripts)), NEW s, NEW type, NEW argv, NEW D, IsPlain(s, type, argv, D)
  PROVE  PlainWith(s, type, argv, D, C)
<1>1. s \in Scripts /\ D \in Seq(Seq(Scripts)) /\ argv \in Seq(Scripts)
  BY DEF IsPlain
<1>2. C \o D \in Seq(Seq(Scripts))
  BY <1>1
<1>3. Len(s) \in Nat
  BY <1>1 DEF Scripts
<1>4. IsPlain(s, type, argv, C \o D)
  BY <1>2 DEF IsPlain
<1> QED BY <1>1, <1>3, <1>4, DoneConcat, DoneType DEF PlainWith

(* The commands before it are in front of those that are read. *)
LEMMA ResultConcat ==
  ASSUME NEW C \in Seq(Seq(Scripts)), NEW s, NEW type, NEW argv, NEW D, IsPlain(s, type, argv, D)
  PROVE  /\ Result(s, type, argv, C \o D) = C \o Result(s, type, argv, D)
         /\ Result(s, type, argv, D) \in Seq(Seq(Scripts))
<1> DEFINE Holds(t, ty, a, d) == /\ Result(t, ty, a, C \o d) = C \o Result(t, ty, a, d)
                                 /\ Result(t, ty, a, d) \in Seq(Seq(Scripts))
           S == {n \in Nat : \A t, ty, a, d : IsPlain(t, ty, a, d) /\ Len(t) <= n
                                              => Holds(t, ty, a, d)}
<1>0. ASSUME NEW t, NEW ty, NEW a, NEW d, IsPlain(t, ty, a, d) PROVE PlainWith(t, ty, a, d, C)
  BY <1>0, PlainConcat
<1>1. ASSUME NEW ty, NEW a, NEW d, IsPlain(<<>>, ty, a, d) PROVE Holds(<<>>, ty, a, d)
  <2>0. /\ IsPlain(<<>>, ty, a, C \o d) /\ Done(a, C \o d) = C \o Done(a, d)
        /\ d \in Seq(Seq(Scripts)) /\ Done(a, d) \in Seq(Seq(Scripts))
    <3>1. PlainWith(<<>>, ty, a, d, C)
      BY <1>1, PlainConcat
    <3> QED BY <3>1 DEF PlainWith
  <2>1. Result(<<>>, ty, a, d) = IF ty = "EOL" THEN d ELSE Done(a, d)
    BY <1>1, ResultEnd
  <2>2. Result(<<>>, ty, a, C \o d) = IF ty = "EOL" THEN C \o d ELSE Done(a, C \o d)
    <3> DEFINE e == C \o d
    <3>1. IsPlain(<<>>, ty, a, e)
      BY <2>0
    <3> HIDE DEF e
    <3>2. Result(<<>>, ty, a, e) = IF ty = "EOL" THEN e ELSE Done(a, e)
      BY <3>1, ResultEnd
    <3> QED BY <3>2 DEF e
  <2>3. Result(<<>>, ty, a, C \o d) = C \o Result(<<>>, ty, a, d)
    BY <2>0, <2>1, <2>2, Zenon
  <2>4. Result(<<>>, ty, a, d) \in Seq(Seq(Scripts))
    BY <2>0, <2>1
  <2> QED BY <2>3, <2>4
<1>2. 0 \in S
  <2> SUFFICES ASSUME NEW t, NEW ty, NEW a, NEW d, IsPlain(t, ty, a, d), Len(t) <= 0
               PROVE  Holds(t, ty, a, d)
    <3> HIDE DEF Holds
    <3> QED OBVIOUS
  <2>1. t = <<>>
    BY <1>0 DEF PlainWith, Scripts
  <2> HIDE DEF Holds
  <2> QED BY <1>1, <2>1
<1>3. \A n \in Nat : n \in S => n + 1 \in S
  <2> SUFFICES ASSUME NEW n \in Nat, n \in S PROVE n + 1 \in S
    OBVIOUS
  <2> SUFFICES ASSUME NEW t, NEW ty, NEW a, NEW d, IsPlain(t, ty, a, d), Len(t) <= n + 1
               PROVE  Holds(t, ty, a, d)
    <3> HIDE DEF Holds
    <3> QED OBVIOUS
  <2>1. CASE t = <<>>
    <3> HIDE DEF Holds
    <3> QED BY <1>1, <2>1
  <2>2. CASE t # <<>>
    <3>1. PICK t2, ty2, a2, d2 : Follows(t, ty, a, d, t2, ty2, a2, d2)
      BY TurnNext
    <3>2. /\ Result(t, ty, a, d) = Result(t2, ty2, a2, d2)
          /\ IsPlain(t2, ty2, a2, d2) /\ Len(t2) < Len(t)
      BY <2>2, <3>1, ResultNext
    <3>0. IsPlain(t, ty, a, C \o d) /\ Done(a, C \o d) = C \o Done(a, d)
      <4>1. PlainWith(t, ty, a, d, C)
        BY PlainConcat
      <4> QED BY <4>1 DEF PlainWith
    <3>3. Follows(t, ty, a, C \o d, t2, ty2, a2, C \o d2)
      <4>1. IF ty2 = "EOL" THEN d2 = Done(a, d) ELSE d2 = d
        BY <2>2, <3>1 DEF Follows
      <4>2. C \o d2 = IF ty2 = "EOL" THEN Done(a, C \o d) ELSE C \o d
        BY <3>0, <4>1, Zenon
      <4> QED BY <2>2, <3>1, <4>2 DEF Follows
    <3>4. Result(t, ty, a, C \o d) = Result(t2, ty2, a2, C \o d2)
      <4> DEFINE e == C \o d
                 e2 == C \o d2
      <4>1. IsPlain(t, ty, a, e) /\ Follows(t, ty, a, e, t2, ty2, a2, e2)
        BY <3>0, <3>3
      <4> HIDE DEF e, e2
      <4>2. Result(t, ty, a, e) = Result(t2, ty2, a2, e2)
        BY <4>1, ResultNext
      <4> QED BY <4>2 DEF e, e2
    <3>5. Holds(t2, ty2, a2, d2)
      <4>1. Len(t2) <= n
        BY <1>0, <3>2 DEF PlainWith
      <4> HIDE DEF Holds
      <4> QED BY <3>2, <4>1
    <3> QED BY <3>2, <3>4, <3>5
  <2> QED BY <2>1, <2>2
<1>4. Holds(s, type, argv, D)
  <2>1. Len(s) \in Nat /\ Len(s) <= Len(s)
    BY <1>0 DEF PlainWith
  <2>2. Len(s) \in S
    <3> HIDE DEF S
    <3> QED BY <1>2, <1>3, <2>1, Induct
  <2> HIDE DEF Holds
  <2> QED BY <2>1, <2>2
<1> QED BY <1>4

(* Blanks and newlines before a command are passed over. *)
LEMMA ResultBlank ==
  ASSUME NEW s, NEW type, NEW argv, NEW cmds, IsPlain(s, type, argv, cmds), s # <<>>
  PROVE  /\ s[1] = NL => Result(s, type, argv, cmds) =
                           Result(Drop(s, Skip(s, White)), "EOL", <<>>, Done(argv, cmds))
         /\ s[1] = SP => Result(s, type, argv, cmds) =
                           Result(Drop(s, Skip(s, White)), "SEP", argv, cmds)
<1>1. SP # NL /\ SP \in White /\ NL \in White
  BY Characters DEF White
<1>2. ASSUME s[1] = NL
      PROVE  Follows(s, type, argv, cmds, Drop(s, Skip(s, White)), "EOL", <<>>, Done(argv, cmds))
  BY <1>1, <1>2 DEF Follows, Size, Kind
<1>3. ASSUME s[1] = SP
      PROVE  Follows(s, type, argv, cmds, Drop(s, Skip(s, White)), "SEP", argv, cmds)
  BY <1>1, <1>3 DEF Follows, Size, Kind
<1> QED BY <1>2, <1>3, ResultNext

(* Where no word was read, a blank and a newline do the same. *)
LEMMA SepOrEol ==
  ASSUME NEW s \in Scripts, NEW cmds \in Seq(Seq(Scripts))
  PROVE  Result(s, "SEP", <<>>, cmds) = Result(s, "EOL", <<>>, cmds)
<1>1. IsPlain(s, "SEP", <<>>, cmds) /\ IsPlain(s, "EOL", <<>>, cmds)
  BY DEF IsPlain, Types
<1>2. CASE s = <<>>
  BY <1>1, <1>2, ResultEnd DEF Done
<1>3. CASE s # <<>>
  <2>1. BeginsWord("SEP") /\ BeginsWord("EOL")
    BY DEF BeginsWord
  <2>2. /\ Size(s, "SEP") = Size(s, "EOL") /\ Kind(s, "SEP") = Kind(s, "EOL")
        /\ Read(s, "SEP") = Read(s, "EOL")
    BY <2>1, Zenon DEF Size, Kind, Read, Brace
  <2>3. \A text : Grow(<<>>, "SEP", text) = Grow(<<>>, "EOL", text)
    BY DEF Grow
  <2>4. PICK s2, type2, argv2, cmds2 : Follows(s, "SEP", <<>>, cmds, s2, type2, argv2, cmds2)
    BY <1>1, TurnNext
  <2>5. Follows(s, "EOL", <<>>, cmds, s2, type2, argv2, cmds2)
    BY <1>3, <2>2, <2>3, <2>4 DEF Follows
  <2> QED BY <1>1, <2>4, <2>5, ResultNext
<1> QED BY <1>2, <1>3

(* Passing over a part first. *)
LEMMA SkipDrop ==
  ASSUME NEW S, NEW s \in Seq(S), NEW set, NEW k \in 0..Skip(s, set)
  PROVE  /\ k \in 0..Len(s)
         /\ Skip(Drop(s, k), set) = Skip(s, set) - k
         /\ Drop(Drop(s, k), Skip(Drop(s, k), set)) = Drop(s, Skip(s, set))
<1> DEFINE n == Skip(s, set)
           d == Drop(s, k)
<1>1. SkipSpec(s, set, n)
  BY SkipIs
<1>2. n \in 0..Len(s) /\ k \in 0..Len(s) /\ n - k \in 0..(Len(s) - k) /\ k + (n - k) = n
  BY <1>1 DEF SkipSpec
<1>3. d \in Seq(S) /\ Len(d) = Len(s) - k /\ \A j \in 1..(Len(s) - k) : d[j] = s[k + j]
  BY <1>2, DropFacts
<1>4. SkipSpec(d, set, n - k)
  <2>1. \A j \in 1..(n - k) : d[j] \in set
    <3> TAKE j \in 1..(n - k)
    <3> HIDE DEF n, d
    <3>0. j \in 1..(Len(s) - k) /\ k + j \in 1..n
      BY <1>2
    <3>1. d[j] = s[k + j] /\ k + j \in 1..n
      BY <1>3, <3>0
    <3> QED BY <3>1, <1>1 DEF SkipSpec
  <2>2. n - k = Len(d) \/ d[n - k + 1] \notin set
    <3>1. CASE n = Len(s)
      BY <1>2, <1>3, <3>1
    <3>2. CASE n # Len(s)
      <4>1. n - k + 1 \in 1..(Len(s) - k) /\ k + (n - k + 1) = n + 1 /\ s[n + 1] \notin set
        BY <1>1, <1>2, <3>2 DEF SkipSpec
      <4> HIDE DEF n, d
      <4>2. d[n - k + 1] = s[k + (n - k + 1)]
        BY <1>3, <4>1
      <4>3. d[n - k + 1] = s[n + 1]
        BY <4>1, <4>2
      <4> QED BY <4>1, <4>3
    <3> QED BY <3>1, <3>2
  <2> QED BY <1>2, <1>3, <2>1, <2>2 DEF SkipSpec
<1>5. Skip(d, set) = n - k
  <2> HIDE DEF d, n
  <2> QED BY <1>3, <1>4, SkipIs
<1>6. Drop(d, n - k) = Drop(s, n)
  <2> HIDE DEF n
  <2> QED BY <1>2, DropDrop
<1> QED BY <1>2, <1>5, <1>6

(* Characters of the set are passed over. *)
LEMMA SkipAtLeast ==
  ASSUME NEW S, NEW s \in Seq(S), NEW set, NEW k \in 0..Len(s), \A j \in 1..k : s[j] \in set
  PROVE  k \in 0..Skip(s, set)
<1> DEFINE n == Skip(s, set)
<1>1. SkipSpec(s, set, n)
  BY SkipIs
<1> HIDE DEF n
<1>2. n \in 0..Len(s) /\ (n = Len(s) \/ s[n + 1] \notin set)
  BY <1>1 DEF SkipSpec
<1>3. ASSUME n < k PROVE FALSE
  <2>1. n + 1 \in 1..k /\ n # Len(s)
    BY <1>2, <1>3
  <2> QED BY <1>2, <2>1
<1> QED BY <1>2, <1>3 DEF n

(* Newlines in front of a script change nothing. *)
LEMMA NewlinesPassed ==
  ASSUME NEW s \in Scripts, NEW k \in 0..Len(s), \A j \in 1..k : s[j] = NL
  PROVE  Commands(Drop(s, k)) = Commands(s)
<1> DEFINE d == Drop(s, k)
<1>0. <<>> \in Seq(Scripts) /\ <<>> \in Seq(Seq(Scripts)) /\ s \in Seq(Chars)
  BY DEF Scripts
<1>1. d \in Scripts /\ \A j \in 1..(Len(s) - k) : d[j] = s[k + j]
  BY <1>0, DropFacts DEF Scripts
<1>2. \A t \in Scripts : IsPlain(t, "EOL", <<>>, <<>>)
  BY <1>0 DEF IsPlain, Types
<1>3. Done(<<>>, <<>>) = <<>> /\ NL \in White /\ \A c \in White : c = NL \/ c = SP
  BY DEF Done, White
<1>4. CASE k = 0
  <2>1. d = s
    BY <1>0, <1>4 DEF Drop
  <2> QED BY <2>1
<1>5. CASE k # 0
  <2>1. k \in 0..Skip(s, White)
    BY <1>0, <1>3, SkipAtLeast
  <2>2. Drop(d, Skip(d, White)) = Drop(s, Skip(s, White))
    BY <1>0, <2>1, SkipDrop
  <2>3. s # <<>> /\ s[1] = NL
    BY <1>0, <1>5
  <2>4. Commands(s) = Result(Drop(s, Skip(s, White)), "EOL", <<>>, <<>>)
    BY <1>2, <1>3, <2>3, ResultBlank, CommandsAre
  <2> DEFINE e == Drop(d, Skip(d, White))
  <2>5. e \in Scripts
    <3> HIDE DEF d
    <3>1. Skip(d, White) \in 0..Len(d) /\ d \in Seq(Chars)
      BY <1>1, SkipIs DEF SkipSpec, Scripts
    <3> QED BY <3>1, DropFacts DEF Scripts
  <2> HIDE DEF d
  <2>6. CASE d = <<>> \/ d[1] \notin White
    <3>1. SkipSpec(d, White, 0)
      BY <1>1, <2>6 DEF SkipSpec, Scripts
    <3>2. Skip(d, White) = 0 /\ d \in Seq(Chars)
      BY <1>1, <3>1, SkipIs DEF Scripts
    <3>3. e = d
      BY <3>2 DEF Drop
    <3> QED BY <2>2, <2>4, <3>3, CommandsAre DEF d
  <2>7. CASE d # <<>> /\ d[1] = NL
    <3>1. Commands(d) = Result(e, "EOL", <<>>, <<>>)
      BY <1>1, <1>2, <1>3, <2>7, ResultBlank, CommandsAre
    <3> QED BY <2>2, <2>4, <3>1 DEF d
  <2>8. CASE d # <<>> /\ d[1] = SP
    <3>1. Commands(d) = Result(e, "SEP", <<>>, <<>>)
      BY <1>1, <1>2, <1>3, <2>8, ResultBlank, CommandsAre
    <3>2. Commands(d) = Result(e, "EOL", <<>>, <<>>)
      <4> HIDE DEF e
      <4> QED BY <1>0, <2>5, <3>1, SepOrEol
    <3> QED BY <2>2, <2>4, <3>2 DEF d
  <2> QED BY <1>3, <2>6, <2>7, <2>8 DEF d
<1> QED BY <1>4, <1>5

-----------------------------------------------------------------------------
(* A text that ends where its last token does: in no blank, and in no      *)
(* braces that it opened itself.                                           *)
Good(u) == /\ u \in Scripts /\ u # <<>> /\ u[Len(u)] \notin White
           /\ \A n \in 0..Len(u) : Level(u, Len(u)) <= Level(u, n)

(* What is left of a good text is good. *)
LEMMA GoodDrop ==
  ASSUME NEW u, Good(u), NEW m \in 0..(Len(u) - 1)
  PROVE  Good(Drop(u, m))
<1> DEFINE d == Drop(u, m)
<1>1. u \in Seq(Chars) /\ u # <<>> /\ Len(u) \in Nat /\ m \in 0..Len(u)
  BY DEF Good, Scripts
<1>2. d \in Seq(Chars) /\ Len(d) = Len(u) - m /\ \A k \in 1..(Len(u) - m) : d[k] = u[m + k]
  BY <1>1, DropFacts
<1>3. \A n \in 0..(Len(u) - m) : Level(d, n) = Level(u, m + n) - Level(u, m)
  BY <1>1, LevelDrop
<1>4. \A n \in Nat : Level(u, n) \in Int
  BY LevelNext
<1>5. ASSUME NEW n \in 0..Len(d) PROVE Level(d, Len(d)) <= Level(d, n)
  <2>1. n \in 0..(Len(u) - m) /\ Len(u) - m \in 0..(Len(u) - m) /\ m + (Len(u) - m) = Len(u)
        /\ m + n \in 0..Len(u) /\ Len(u) \in Nat /\ m + n \in Nat /\ m \in Nat
    BY <1>1, <1>2
  <2>2. Level(d, n) = Level(u, m + n) - Level(u, m) /\ Level(d, Len(d)) = Level(u, Len(u)) - Level(u, m)
    <3> HIDE DEF d
    <3>1. Level(d, n) = Level(u, m + n) - Level(u, m)
      BY <1>3, <2>1
    <3>2. Level(d, Len(u) - m) = Level(u, m + (Len(u) - m)) - Level(u, m)
      BY <1>3, <2>1
    <3> QED BY <1>2, <2>1, <3>1, <3>2
  <2>3. Level(u, Len(u)) <= Level(u, m + n)
    BY <2>1 DEF Good
  <2>4. Level(u, m) \in Int /\ Level(u, m + n) \in Int /\ Level(u, Len(u)) \in Int
    BY <1>4, <2>1
  <2> HIDE DEF d
  <2> QED BY <2>2, <2>3, <2>4
<1>6. d # <<>> /\ d[Len(d)] \notin White
  <2>1. Len(u) - m \in 1..(Len(u) - m) /\ m + (Len(u) - m) = Len(u)
    BY <1>1
  <2>2. d[Len(d)] = u[Len(u)]
    <3> HIDE DEF d
    <3> QED BY <1>2, <2>1
  <2>3. u[Len(u)] \notin White
    BY DEF Good
  <2>4. Len(d) # 0
    BY <1>1, <1>2
  <2> HIDE DEF d
  <2> QED BY <2>2, <2>3, <2>4
<1> HIDE DEF d
<1>7. Good(d)
  BY <1>2, <1>5, <1>6 DEF Good, Scripts
<1> QED BY <1>7 DEF d

(* The tokens of such a text are not changed by what follows a blank or a  *)
(* newline after it.                                                       *)
LEMMA GoodToken ==
  ASSUME NEW u, Good(u), NEW z \in Scripts, z # <<>>, z[1] \in White, NEW type
  PROVE  /\ Size(u, type) \in 1..Len(u)
         /\ Size(u \o z, type) = Size(u, type)
         /\ Kind(u \o z, type) = Kind(u, type)
         /\ Read(u \o z, type) = Read(u, type)
         /\ Size(u, type) = Len(u) => Kind(u, type) \in {"STR", "ESC"}
<1> DEFINE w == u \o z
<1>1. u \in Seq(Chars) /\ z \in Seq(Chars) /\ Len(u) \in Nat /\ Len(u) > 0 /\ Len(z) \in Nat /\ Len(z) > 0
  BY DEF Good, Scripts
<1>2. w \in Seq(Chars) /\ Len(w) = Len(u) + Len(z) /\ (\A k \in 1..Len(u) : w[k] = u[k])
      /\ w[Len(u) + 1] = z[1]
  <2>1. w \in Seq(Chars) /\ Len(w) = Len(u) + Len(z)
        /\ \A k \in 1..(Len(u) + Len(z)) : w[k] = IF k <= Len(u) THEN u[k] ELSE z[k - Len(u)]
    BY <1>1, ConcatProperties
  <2>2. Len(u) + 1 \in 1..(Len(u) + Len(z)) /\ (Len(u) + 1) - Len(u) = 1 /\ ~(Len(u) + 1 <= Len(u))
    BY <1>1
  <2>3. w[Len(u) + 1] = z[1]
    <3> HIDE DEF w
    <3> QED BY <2>1, <2>2
  <2> HIDE DEF w
  <2> QED BY <1>1, <2>1, <2>3
<1>3. u[Len(u)] \notin White /\ Level(u, Len(u)) <= 0
  <2>1. 0 \in 0..Len(u) /\ Level(u, 0) = 0
    BY <1>1, LevelNext
  <2>2. Level(u, Len(u)) <= Level(u, 0)
    BY <2>1 DEF Good
  <2> QED BY <2>1, <2>2 DEF Good
<1> HIDE DEF w
<1>4. w[1] = u[1] /\ Brace(w, type) = Brace(u, type)
  BY <1>1, <1>2 DEF Brace
<1>5. CASE u[1] \in White
  <2> DEFINE n == Skip(u, White)
  <2>1. SkipSpec(u, White, n)
    BY <1>1, SkipIs
  <2> HIDE DEF n
  <2>2. n \in 1..Len(u) /\ n < Len(u)
    <3>1. n # 0
      BY <1>1, <1>5, <2>1 DEF SkipSpec
    <3>2. n # Len(u)
      BY <1>1, <1>3, <2>1, <3>1 DEF SkipSpec
    <3> QED BY <1>1, <2>1, <3>1, <3>2 DEF SkipSpec
  <2>3. SkipSpec(w, White, n)
    <3>1. n \in 0..Len(w) /\ n + 1 \in 1..Len(u)
      BY <1>1, <1>2, <2>2
    <3>2. w[n + 1] \notin White
      BY <1>2, <2>1, <2>2, <3>1 DEF SkipSpec
    <3>3. \A k \in 1..n : w[k] \in White
      BY <1>2, <2>1, <2>2 DEF SkipSpec
    <3> QED BY <3>1, <3>2, <3>3 DEF SkipSpec
  <2>4. Skip(w, White) = n
    BY <1>2, <2>3, SkipIs
  <2>5. Size(u, type) = n /\ Size(w, type) = n
    BY <1>4, <1>5, <2>4 DEF Size, n
  <2>6. Kind(w, type) = Kind(u, type) /\ Read(w, type) = Read(u, type)
    <3>1. Read(w, type) = <<>> /\ Read(u, type) = <<>>
      BY <1>4, <1>5 DEF Read
    <3> QED BY <1>4, <3>1 DEF Kind
  <2> QED BY <1>1, <2>2, <2>5, <2>6 DEF w
<1>6. CASE u[1] \notin White /\ Brace(u, type)
  <2> DEFINE e == BraceEnd(u)
  <2>1. BraceSpec(u, e) /\ e <= Len(u)
    <3>1. u[1] = LBRACE /\ u # <<>>
      BY <1>1, <1>6 DEF Brace
    <3>2. Len(u) \in 1..Len(u)
      BY <1>1
    <3> QED BY <1>1, <1>3, <3>1, <3>2, BraceEndIs
  <2> HIDE DEF e
  <2>2. e \in 2..Len(u) /\ Level(u, e) = 0 /\ \A k \in 1..(e - 1) : Level(u, k) > 0
    BY <1>1, <2>1 DEF BraceSpec
  <2>3. \A k \in 1..Len(u) : Level(w, k) = Level(u, k)
    <3> TAKE k \in 1..Len(u)
    <3>1. k \in Nat /\ \A j \in 1..k : w[j] = u[j]
      BY <1>2
    <3> QED BY <3>1, LevelSame
  <2>4. BraceSpec(w, e)
    <3>1. \A k \in 1..(e - 1) : k \in 1..Len(u) /\ Level(w, k) > 0
      BY <1>1, <2>2, <2>3
    <3>2. e \in 2..(Len(w) + 1)
      BY <1>1, <1>2, <2>2
    <3>3. Level(w, e) = 0
      BY <1>1, <2>2, <2>3
    <3> QED BY <3>1, <3>2, <3>3 DEF BraceSpec
  <2>5. BraceEnd(w) = e
    <3>1. w[1] = LBRACE /\ w # <<>>
      BY <1>1, <1>2, <1>4, <1>6 DEF Brace
    <3> QED BY <1>2, <2>4, <3>1, BraceEndIs
  <2>6. SubSeq(w, 2, e - 1) = SubSeq(u, 2, e - 1)
    <3>1. \A k \in 2..(e - 1) : w[k] = u[k]
      BY <1>1, <1>2, <2>2
    <3>2. SubSeq(w, 2, e - 1) \in Seq(Chars) /\ SubSeq(u, 2, e - 1) \in Seq(Chars)
          /\ Len(SubSeq(w, 2, e - 1)) = e - 2 /\ Len(SubSeq(u, 2, e - 1)) = e - 2
          /\ \A k \in 1..(e - 2) : SubSeq(w, 2, e - 1)[k] = w[2 + k - 1] /\ SubSeq(u, 2, e - 1)[k] = u[2 + k - 1]
      BY <1>1, <1>2, <2>2
    <3>3. \A k \in 1..(e - 2) : 2 + k - 1 \in 2..(e - 1)
      BY <2>2
    <3> DEFINE a == SubSeq(w, 2, e - 1)
               b == SubSeq(u, 2, e - 1)
    <3>4. a \in Seq(Chars) /\ b \in Seq(Chars) /\ Len(a) = Len(b) /\ \A k \in 1..Len(a) : a[k] = b[k]
      BY <3>1, <3>2, <3>3
    <3> HIDE DEF a, b
    <3>5. a = b
      BY <3>4, SeqEqual
    <3> QED BY <3>5 DEF a, b
  <2>7. Size(u, type) = e /\ Size(w, type) = e
    BY <1>4, <1>6, <2>5 DEF Size, e
  <2>8. Read(w, type) = Read(u, type)
    BY <1>4, <1>6, <2>5, <2>6 DEF Read, e
  <2>9. Kind(u, type) = "STR" /\ Kind(w, type) = "STR"
    BY <1>4, <1>6 DEF Kind, White
  <2> QED BY <1>1, <2>2, <2>7, <2>8, <2>9 DEF w
<1>7. CASE u[1] \notin White /\ ~Brace(u, type)
  <2> DEFINE n == UpTo(u, White)
  <2>1. UpToSpec(u, White, n)
    BY <1>1, UpToIs
  <2> HIDE DEF n
  <2>2. n \in 1..Len(u)
    BY <1>1, <1>7, <2>1 DEF UpToSpec
  <2>3. UpToSpec(w, White, n)
    <3>0. n \in 0..Len(w) /\ \A k \in 1..n : k \in 1..Len(u)
      BY <1>1, <1>2, <2>2
    <3>1. n \in 0..Len(w) /\ \A k \in 1..n : w[k] \notin White
      BY <1>2, <2>1, <3>0 DEF UpToSpec
    <3>2. CASE n = Len(u)
      BY <1>2, <3>1, <3>2 DEF UpToSpec
    <3>3. CASE n # Len(u)
      <4>1. n + 1 \in 1..Len(u) /\ u[n + 1] \in White
        BY <1>1, <2>1, <2>2, <3>3 DEF UpToSpec
      <4> QED BY <1>2, <3>1, <4>1 DEF UpToSpec
    <3> QED BY <3>2, <3>3
  <2>4. UpTo(w, White) = n
    BY <1>2, <2>3, UpToIs
  <2>5. Size(u, type) = n /\ Size(w, type) = n
    BY <1>4, <1>7, <2>4 DEF Size, n
  <2>6. SubSeq(w, 1, n) = SubSeq(u, 1, n)
    <3> DEFINE a == SubSeq(w, 1, n)
               b == SubSeq(u, 1, n)
    <3>1. a \in Seq(Chars) /\ b \in Seq(Chars) /\ Len(a) = n /\ Len(b) = n
          /\ \A k \in 1..n : a[k] = w[k] /\ b[k] = u[k]
      BY <1>1, <1>2, <2>2
    <3>2. \A k \in 1..n : w[k] = u[k]
      BY <1>1, <1>2, <2>2
    <3> HIDE DEF a, b
    <3>3. a = b
      BY <3>1, <3>2, SeqEqual
    <3> QED BY <3>3 DEF a, b
  <2>7. Read(w, type) = Read(u, type)
    BY <1>4, <1>7, <2>4, <2>6 DEF Read, n
  <2>8. Kind(u, type) = "ESC" /\ Kind(w, type) = "ESC"
    BY <1>4, <1>7 DEF Kind, White
  <2> QED BY <1>1, <2>2, <2>5, <2>7, <2>8 DEF w
<1> QED BY <1>5, <1>6, <1>7

(* What is left after such a text and a blank line. *)
BlankLine(z) == z \in Scripts /\ Len(z) >= 2 /\ z[1] = NL /\ z[2] = NL

(* A blank line ends the command. *)
LEMMA BlankLineRead ==
  ASSUME NEW z, BlankLine(z), NEW type, NEW argv, NEW cmds, IsPlain(z, type, argv, cmds)
  PROVE  Result(z, type, argv, cmds) = Result(Drop(z, 1), "EOL", <<>>, Done(argv, cmds))
<1> DEFINE d == Drop(z, 1)
           after == Done(argv, cmds)
<1>1. z \in Seq(Chars) /\ Len(z) \in Nat /\ Len(z) >= 2 /\ z # <<>> /\ z[1] = NL /\ z[2] = NL
  BY DEF BlankLine, Scripts
<1>2. d \in Scripts /\ d # <<>> /\ d[1] = NL
  <2>1. 1 \in 0..Len(z) /\ 1 \in 1..(Len(z) - 1) /\ 1 + 1 = 2
    BY <1>1
  <2>2. d \in Seq(Chars) /\ Len(d) = Len(z) - 1 /\ \A k \in 1..(Len(z) - 1) : d[k] = z[1 + k]
    BY <1>1, <2>1, DropFacts
  <2> HIDE DEF d
  <2>3. Len(d) # 0
    BY <1>1, <2>2
  <2> QED BY <1>1, <2>1, <2>2, <2>3 DEF Scripts
<1>3. NL \in White
  BY DEF White
<1>4. after \in Seq(Seq(Scripts))
  BY DoneType DEF IsPlain
<1>5. IsPlain(d, "EOL", <<>>, after)
  <2> HIDE DEF d, after
  <2> QED BY <1>2, <1>4 DEF IsPlain, Types
<1>6. Result(z, type, argv, cmds) = Result(Drop(z, Skip(z, White)), "EOL", <<>>, after)
  BY <1>1, ResultBlank
<1>7. Result(d, "EOL", <<>>, after) = Result(Drop(d, Skip(d, White)), "EOL", <<>>, after)
  <2> HIDE DEF d, after
  <2>1. Done(<<>>, after) = after
    BY DEF Done
  <2> QED BY <1>2, <1>5, <2>1, ResultBlank
<1>8. Drop(d, Skip(d, White)) = Drop(z, Skip(z, White))
  <2>1. \A j \in 1..1 : z[j] \in White
    BY <1>1, <1>3
  <2>2. 1 \in 0..Skip(z, White)
    BY <1>1, <2>1, SkipAtLeast
  <2> QED BY <1>1, <2>2, SkipDrop
<1> HIDE DEF after
<1> QED BY <1>6, <1>7, <1>8 DEF after

Parted(z, u, type, argv, cmds) ==
  Result(u \o z, type, argv, cmds) = Result(Drop(z, 1), "EOL", <<>>, Result(u, type, argv, cmds))

(* One token of the first part of a script that is cut. *)
LEMMA SplitStep ==
  ASSUME NEW z, BlankLine(z), NEW u, Good(u), NEW type, NEW argv, NEW cmds, IsPlain(u, type, argv, cmds),
         \A t, ty, a, c : Good(t) /\ IsPlain(t, ty, a, c) /\ Len(t) < Len(u) => Parted(z, t, ty, a, c)
  PROVE  Parted(z, u, type, argv, cmds)
<1>1. /\ z \in Scripts /\ z # <<>> /\ z[1] \in White
      /\ u \in Scripts /\ u # <<>> /\ Len(u) \in Nat /\ u \in Seq(Chars) /\ z \in Seq(Chars)
  BY DEF BlankLine, White, Good, Scripts
<1> DEFINE n == Size(u, type)
           w == u \o z
<1>2. /\ n \in 1..Len(u) /\ Size(w, type) = n
      /\ Kind(w, type) = Kind(u, type) /\ Read(w, type) = Read(u, type)
      /\ n = Len(u) => Kind(u, type) \in {"STR", "ESC"}
  BY <1>1, GoodToken
<1>3. Drop(w, n) = Drop(u, n) \o z
  <2> HIDE DEF n
  <2> QED BY <1>1, <1>2, DropConcat
<1>4. w \in Scripts /\ w # <<>>
  <2>1. w \in Seq(Chars) /\ Len(w) = Len(u) + Len(z)
    BY <1>1, ConcatProperties
  <2>2. Len(w) # 0
    <3> HIDE DEF w
    <3>1. Len(u) # 0 /\ Len(z) \in Nat
      BY <1>1
    <3> QED BY <1>1, <2>1, <3>1
  <2> HIDE DEF w
  <2> QED BY <2>1, <2>2 DEF Scripts
<1> HIDE DEF n, w
<1>5. PICK u2, type2, argv2, cmds2 : Follows(u, type, argv, cmds, u2, type2, argv2, cmds2)
  BY TurnNext
<1>6. /\ Result(u, type, argv, cmds) = Result(u2, type2, argv2, cmds2)
      /\ IsPlain(u2, type2, argv2, cmds2) /\ Len(u2) < Len(u)
  BY <1>1, <1>5, ResultNext
<1>7. u2 = Drop(u, n) /\ type2 = Kind(u, type)
  BY <1>1, <1>5 DEF Follows, n
<1>8. IsPlain(w, type, argv, cmds)
  BY <1>4 DEF IsPlain
<1>9. Follows(w, type, argv, cmds, u2 \o z, type2, argv2, cmds2)
  <2>1. u2 \o z = Drop(w, Size(w, type)) /\ type2 = Kind(w, type) /\ Read(u, type) = Read(w, type)
    BY <1>2, <1>3, <1>7, Zenon
  <2>2. /\ argv2 = CASE type2 = "SEP" -> argv
                     [] type2 = "EOL" -> <<>>
                     [] OTHER -> Grow(argv, type, Read(u, type))
        /\ cmds2 = IF type2 = "EOL" THEN Done(argv, cmds) ELSE cmds
    BY <1>1, <1>5 DEF Follows
  <2> DEFINE r == u2 \o z
  <2>3. r = Drop(w, Size(w, type))
    BY <2>1
  <2> HIDE DEF r
  <2>4. Follows(w, type, argv, cmds, r, type2, argv2, cmds2)
    BY <1>4, <2>1, <2>2, <2>3 DEF Follows
  <2> QED BY <2>4 DEF r
<1>10. Result(w, type, argv, cmds) = Result(u2 \o z, type2, argv2, cmds2)
       /\ IsPlain(u2 \o z, type2, argv2, cmds2)
  <2> DEFINE r == u2 \o z
  <2>1. Follows(w, type, argv, cmds, r, type2, argv2, cmds2)
    BY <1>9
  <2> HIDE DEF r
  <2>2. Result(w, type, argv, cmds) = Result(r, type2, argv2, cmds2) /\ IsPlain(r, type2, argv2, cmds2)
    BY <1>8, <2>1, ResultNext
  <2> QED BY <2>2 DEF r
<1>11. CASE n = Len(u)
  <2>1. u2 = <<>>
    BY <1>1, <1>7, <1>11 DEF Drop
  <2>2. u2 \o z = z
    BY <1>1, <2>1, ConcatEmptySeq
  <2>3. type2 # "EOL"
    BY <1>2, <1>7, <1>11
  <2>4. Result(u2, type2, argv2, cmds2) = Done(argv2, cmds2)
    BY <1>6, <2>1, <2>3, ResultEnd
  <2>5. Result(z, type2, argv2, cmds2) = Result(Drop(z, 1), "EOL", <<>>, Done(argv2, cmds2))
    BY <1>10, <2>2, BlankLineRead
  <2>6. Result(w, type, argv, cmds) = Result(Drop(z, 1), "EOL", <<>>, Result(u, type, argv, cmds))
    BY <1>6, <1>10, <2>2, <2>4, <2>5, Zenon
  <2> QED BY <2>6 DEF Parted, w
<1>12. CASE n # Len(u)
  <2>1. n \in 0..(Len(u) - 1)
    BY <1>1, <1>2, <1>12
  <2>2. Good(u2)
    BY <1>7, <2>1, GoodDrop
  <2>3. Parted(z, u2, type2, argv2, cmds2)
    BY <1>6, <2>2
  <2>4. Result(w, type, argv, cmds) = Result(Drop(z, 1), "EOL", <<>>, Result(u, type, argv, cmds))
    BY <1>6, <1>10, <2>3, Zenon DEF Parted
  <2> QED BY <2>4 DEF Parted, w
<1> QED BY <1>11, <1>12

(* A script that is cut at a blank line has the commands of its two parts, *)
(* those of the second after those of the first.                           *)
LEMMA CutIsSplit ==
  ASSUME NEW u, Good(u), NEW z, BlankLine(z)
  PROVE  Commands(u \o z) = Commands(u) \o Commands(Drop(z, 1))
<1> DEFINE Below(n) == \A t, ty, a, c : Good(t) /\ IsPlain(t, ty, a, c) /\ Len(t) < n => Parted(z, t, ty, a, c)
           S == {n \in Nat : Below(n)}
<1>0. \A t : Good(t) => Len(t) \in Nat
  BY DEF Good, Scripts
<1>1. 0 \in S
  BY <1>0
<1>2. \A n \in Nat : n \in S => n + 1 \in S
  <2> SUFFICES ASSUME NEW n \in Nat, n \in S PROVE n + 1 \in S
    OBVIOUS
  <2> SUFFICES ASSUME NEW t, NEW ty, NEW a, NEW c, Good(t), IsPlain(t, ty, a, c), Len(t) < n + 1
               PROVE  Parted(z, t, ty, a, c)
    OBVIOUS
  <2>1. Below(n) /\ Len(t) \in Nat
    BY <1>0
  <2>2. \A k \in Nat : k < Len(t) => k < n
    BY <2>1
  <2>3. \A t2, ty2, a2, c2 : Good(t2) /\ IsPlain(t2, ty2, a2, c2) /\ Len(t2) < Len(t) => Parted(z, t2, ty2, a2, c2)
    BY <1>0, <2>1, <2>2
  <2> QED BY <2>3, SplitStep
<1>3. Len(u) + 1 \in S
  <2> HIDE DEF S
  <2> QED BY <1>0, <1>1, <1>2, Induct
<1>4. u \in Scripts /\ z \in Scripts /\ <<>> \in Seq(Scripts) /\ <<>> \in Seq(Seq(Scripts))
  BY DEF Good, BlankLine
<1>5. \A t \in Scripts : IsPlain(t, "EOL", <<>>, <<>>)
  BY <1>4 DEF IsPlain, Types
<1>6. Parted(z, u, "EOL", <<>>, <<>>)
  <2>1. IsPlain(u, "EOL", <<>>, <<>>) /\ Below(Len(u) + 1) /\ Len(u) < Len(u) + 1
    BY <1>0, <1>3, <1>4, <1>5
  <2> QED BY <2>1
<1> DEFINE C == Commands(u)
           d == Drop(z, 1)
<1>7. C \in Seq(Seq(Scripts)) /\ C = Result(u, "EOL", <<>>, <<>>)
  BY <1>4, <1>5, ResultConcat, CommandsAre
<1>8. d \in Scripts
  BY <1>4 DEF Drop, BlankLine, Scripts
<1>9. Commands(u \o z) = Result(d, "EOL", <<>>, C)
  BY <1>6, <1>7, CommandsAre DEF Parted
<1> HIDE DEF C, d
<1>10. Result(d, "EOL", <<>>, C \o <<>>) = C \o Result(d, "EOL", <<>>, <<>>)
  <2> DEFINE none == <<>>
  <2>1. IsPlain(d, "EOL", none, none) /\ C \in Seq(Seq(Scripts))
    BY <1>4, <1>5, <1>7, <1>8
  <2> HIDE DEF none
  <2>2. Result(d, "EOL", none, C \o none) = C \o Result(d, "EOL", none, none)
    BY <2>1, ResultConcat
  <2> QED BY <2>2 DEF none
<1>11. C \o <<>> = C
  BY <1>7, ConcatEmptySeq
<1>12. Commands(d) = Result(d, "EOL", <<>>, <<>>)
  BY CommandsAre
<1>13. Commands(u \o z) = C \o Commands(d)
  BY <1>9, <1>10, <1>11, <1>12, Zenon
<1> QED BY <1>13 DEF C, d

-----------------------------------------------------------------------------
(* The first and the last of a set of places. *)
LEMMA FirstFinal ==
  ASSUME NEW n \in Nat, NEW S \in SUBSET (1..n), S # {}
  PROVE  /\ First(S) \in S /\ \A j \in S : First(S) <= j
         /\ Final(S) \in S /\ \A j \in S : Final(S) >= j
<1>1. S \in SUBSET Nat /\ S \in SUBSET (0..n)
  OBVIOUS
<1>2. \E i \in S : \A j \in S : i <= j
  BY <1>1, Least
<1>3. \E i \in S : \A j \in S : i >= j
  BY <1>1, Greatest
<1>4. First(S) \in S /\ \A j \in S : First(S) <= j
  BY <1>2 DEF First
<1>5. Final(S) \in S /\ \A j \in S : Final(S) >= j
  BY <1>3 DEF Final
<1> QED BY <1>4, <1>5

(* The beginning of a text. *)
LEMMA FrontFacts ==
  ASSUME NEW S, NEW s \in Seq(S), NEW n \in 0..Len(s)
  PROVE  /\ SubSeq(s, 1, n) \in Seq(S)
         /\ Len(SubSeq(s, 1, n)) = n
         /\ \A k \in 1..n : SubSeq(s, 1, n)[k] = s[k]
OBVIOUS

(* The beginning of what is left. *)
LEMMA FrontDrop ==
  ASSUME NEW S, NEW s \in Seq(S), NEW n \in 0..Len(s), NEW m \in 0..n
  PROVE  /\ SubSeq(Drop(s, m), 1, n - m) = Drop(SubSeq(s, 1, n), m)
         /\ SubSeq(s, 1, m) \o Drop(SubSeq(s, 1, n), m) = SubSeq(s, 1, n)
<1> DEFINE f == SubSeq(s, 1, n)
           g == SubSeq(s, 1, m)
           d == Drop(s, m)
           a == SubSeq(d, 1, n - m)
           b == Drop(f, m)
<1>1. m \in 0..Len(s) /\ n - m \in 0..(Len(s) - m) /\ n \in Nat /\ m \in Nat
  OBVIOUS
<1>2. f \in Seq(S) /\ Len(f) = n /\ \A k \in 1..n : f[k] = s[k]
  BY FrontFacts
<1>3. g \in Seq(S) /\ Len(g) = m /\ \A k \in 1..m : g[k] = s[k]
  BY <1>1, FrontFacts
<1>4. d \in Seq(S) /\ Len(d) = Len(s) - m /\ \A k \in 1..(Len(s) - m) : d[k] = s[m + k]
  BY <1>1, DropFacts
<1>5. a \in Seq(S) /\ Len(a) = n - m /\ \A k \in 1..(n - m) : a[k] = d[k]
  <2> HIDE DEF d
  <2>1. n - m \in 0..Len(d)
    BY <1>1, <1>4
  <2> QED BY <1>4, <2>1, FrontFacts
<1>6. b \in Seq(S) /\ Len(b) = n - m /\ \A k \in 1..(n - m) : b[k] = f[m + k]
  <2> HIDE DEF f
  <2>1. m \in 0..Len(f)
    BY <1>2
  <2> QED BY <1>2, <2>1, DropFacts
<1> HIDE DEF f, g, d, a, b
<1>7. a = b
  <2>1. \A k \in 1..(n - m) : a[k] = b[k]
    <3> TAKE k \in 1..(n - m)
    <3>1. k \in 1..(Len(s) - m) /\ m + k \in 1..n
      BY <1>1
    <3>2. a[k] = d[k] /\ d[k] = s[m + k] /\ b[k] = f[m + k] /\ f[m + k] = s[m + k]
      BY <3>1, <1>2, <1>4, <1>5, <1>6
    <3> QED BY <3>2
  <2> QED BY <2>1, <1>5, <1>6, SeqEqual
<1>8. g \o b = f
  <2>1. g \o b \in Seq(S) /\ Len(g \o b) = Len(g) + Len(b)
        /\ \A k \in 1..(Len(g) + Len(b)) : (g \o b)[k] = IF k <= Len(g) THEN g[k] ELSE b[k - Len(g)]
    BY <1>3, <1>6, ConcatProperties
  <2> DEFINE h == g \o b
  <2>2. h \in Seq(S) /\ Len(h) = n /\ \A k \in 1..n : h[k] = IF k <= m THEN g[k] ELSE b[k - m]
    <3>1. m + (n - m) = n
      BY <1>1
    <3> QED BY <1>3, <1>6, <2>1, <3>1
  <2> HIDE DEF h
  <2>3. \A k \in 1..n : h[k] = f[k]
    <3> TAKE k \in 1..n
    <3>1. CASE k <= m
      <4>1. k \in 1..m
        BY <1>1, <3>1
      <4> QED BY <1>2, <1>3, <2>2, <3>1, <4>1
    <3>2. CASE ~(k <= m)
      <4>1. k - m \in 1..(n - m) /\ m + (k - m) = k
        BY <1>1, <3>2
      <4>2. h[k] = b[k - m] /\ b[k - m] = f[m + (k - m)]
        BY <1>6, <2>2, <3>2, <4>1
      <4> QED BY <4>1, <4>2
    <3> QED BY <3>1, <3>2
  <2>4. h = f
    BY <1>2, <2>2, <2>3, SeqEqual
  <2> QED BY <2>4 DEF h
<1> QED BY <1>7, <1>8 DEF f, g, d, a, b

-----------------------------------------------------------------------------
(* The script up to its last newline. *)
LEMMA WholeFacts ==
  ASSUME NEW s \in Scripts
  PROVE  /\ Whole(s) \in Scripts
         /\ Newlines(s) = {} => Whole(s) = <<>>
         /\ Newlines(s) # {} => /\ Final(Newlines(s)) \in 1..Len(s) /\ s[Final(Newlines(s))] = NL
                                /\ \A i \in Newlines(s) : i <= Final(Newlines(s))
                                /\ Whole(s) = SubSeq(s, 1, Final(Newlines(s)))
<1>1. s \in Seq(Chars) /\ Len(s) \in Nat /\ Newlines(s) \in SUBSET (1..Len(s)) /\ \A i \in Newlines(s) : s[i] = NL
  BY DEF Newlines, Scripts
<1>2. CASE Newlines(s) = {}
  BY <1>2 DEF Whole, Scripts
<1>3. CASE Newlines(s) # {}
  <2> DEFINE f == Final(Newlines(s))
  <2>1. f \in Newlines(s) /\ \A j \in Newlines(s) : f >= j
    BY <1>1, <1>3, FirstFinal
  <2>2. Whole(s) = SubSeq(s, 1, f)
    BY <1>3 DEF Whole
  <2> HIDE DEF f
  <2>3. f \in 1..Len(s) /\ s[f] = NL /\ f \in 0..Len(s)
    BY <1>1, <2>1
  <2>4. SubSeq(s, 1, f) \in Seq(Chars)
    BY <1>1, <2>3, FrontFacts
  <2>5. \A i \in Newlines(s) : i <= f
    BY <1>1, <2>1, <2>3
  <2> QED BY <1>3, <2>2, <2>3, <2>4, <2>5 DEF Scripts, f
<1> QED BY <1>2, <1>3

(* The newlines of what is left. *)
LEMMA NewlinesDrop ==
  ASSUME NEW s \in Scripts, NEW m \in 0..Len(s), NEW i \in Nat
  PROVE  i \in Newlines(Drop(s, m)) <=> i >= 1 /\ m + i \in Newlines(s)
<1> DEFINE d == Drop(s, m)
<1>1. s \in Seq(Chars) /\ Len(s) \in Nat
  BY DEF Scripts
<1>2. d \in Seq(Chars) /\ Len(d) = Len(s) - m /\ \A k \in 1..(Len(s) - m) : d[k] = s[m + k]
  BY <1>1, DropFacts
<1> HIDE DEF d
<1>3. i \in Newlines(d) <=> i \in 1..(Len(s) - m) /\ d[i] = NL
  BY <1>2 DEF Newlines
<1>4. m + i \in Newlines(s) <=> m + i \in 1..Len(s) /\ s[m + i] = NL
  BY <1>1 DEF Newlines
<1>5. i \in 1..(Len(s) - m) <=> i >= 1 /\ m + i \in 1..Len(s)
  BY <1>1
<1>6. i \in 1..(Len(s) - m) => d[i] = s[m + i]
  BY <1>2
<1>7. i \in Newlines(d) <=> i >= 1 /\ m + i \in Newlines(s)
  BY <1>3, <1>4, <1>5, <1>6
<1> QED BY <1>7 DEF d

(* What is left up to the last newline. *)
LEMMA WholeDrop ==
  ASSUME NEW s \in Scripts, Newlines(s) # {}, NEW m \in 0..Final(Newlines(s))
  PROVE  m \in 0..Len(s) /\ Whole(Drop(s, m)) = Drop(Whole(s), m)
<1> DEFINE f == Final(Newlines(s))
           d == Drop(s, m)
<1>1. s \in Seq(Chars) /\ Len(s) \in Nat
  BY DEF Scripts
<1>2. /\ f \in 1..Len(s) /\ s[f] = NL /\ (\A i \in Newlines(s) : i <= f)
      /\ Whole(s) = SubSeq(s, 1, f) /\ f \in Newlines(s)
  <2>1. /\ f \in 1..Len(s) /\ s[f] = NL /\ (\A i \in Newlines(s) : i <= f) /\ Whole(s) = SubSeq(s, 1, f)
    BY WholeFacts
  <2> HIDE DEF f
  <2>2. f \in Newlines(s)
    BY <1>1, <2>1 DEF Newlines
  <2> QED BY <2>1, <2>2
<1> HIDE DEF f
<1>3. m \in 0..Len(s) /\ m \in 0..f /\ f - m \in Nat /\ m + (f - m) = f /\ f \in 0..Len(s)
  BY <1>1, <1>2 DEF f
<1>4. d \in Scripts
  BY <1>1, <1>3, DropFacts DEF Scripts
<1>5. \A i \in Nat : i \in Newlines(d) <=> i >= 1 /\ m + i \in Newlines(s)
  BY <1>3, NewlinesDrop
<1>6. \A i \in Newlines(d) : i \in Nat
  BY <1>4 DEF Newlines, Scripts
<1>7. SubSeq(d, 1, f - m) = Drop(SubSeq(s, 1, f), m)
  BY <1>1, <1>3, FrontDrop
<1> HIDE DEF d
<1>8. CASE m = f
  <2>1. Newlines(d) = {}
    <3> SUFFICES ASSUME NEW i \in Newlines(d) PROVE FALSE
      OBVIOUS
    <3>1. i \in Nat /\ i >= 1 /\ m + i \in Newlines(s)
      BY <1>5, <1>6
    <3> QED BY <1>2, <1>3, <1>8, <3>1
  <2>2. Whole(d) = <<>>
    BY <1>4, <2>1, WholeFacts
  <2>3. Drop(SubSeq(s, 1, f), m) = <<>>
    <3>1. SubSeq(s, 1, f) \in Seq(Chars) /\ Len(SubSeq(s, 1, f)) = f
      BY <1>1, <1>3, FrontFacts
    <3> QED BY <1>8, <3>1 DEF Drop
  <2> QED BY <1>2, <1>3, <2>2, <2>3 DEF d
<1>9. CASE m # f
  <2>1. f - m >= 1 /\ f - m \in Newlines(d)
    <3>1. f - m >= 1
      BY <1>2, <1>3, <1>9
    <3> QED BY <1>2, <1>3, <1>5, <3>1
  <2> DEFINE g == Final(Newlines(d))
  <2>2. /\ g \in 1..Len(d) /\ d[g] = NL /\ (\A i \in Newlines(d) : i <= g) /\ Whole(d) = SubSeq(d, 1, g)
    BY <1>4, <2>1, WholeFacts
  <2> HIDE DEF g
  <2>3. g \in Newlines(d) /\ g \in Nat
    BY <1>4, <2>2 DEF Newlines, Scripts
  <2>4. m + g <= f
    BY <1>2, <1>5, <2>3
  <2>5. f - m <= g
    BY <2>1, <2>2
  <2>6. g = f - m
    BY <1>2, <1>3, <2>3, <2>4, <2>5
  <2> QED BY <1>2, <1>3, <1>7, <2>2, <2>6 DEF d
<1> QED BY <1>8, <1>9

-----------------------------------------------------------------------------
(* Blank lines. *)
LEMMA CutsAre ==
  ASSUME NEW s \in Scripts, NEW i
  PROVE  i \in Cuts(s) <=> i \in 1..(Len(s) - 1) /\ s[i] = NL /\ s[i + 1] = NL
<1>1. s \in Seq(Chars) /\ Len(s) \in Nat /\ DOMAIN s = 1..Len(s)
  BY DEF Scripts
<1>2. NUL # NL
  BY DEF NUL, NL
<1>3. i \in Cuts(s) <=> i \in 1..Len(s) /\ s[i] = NL /\ At(s, i + 1) = NL
  BY <1>1 DEF Cuts, Newlines
<1>4. ASSUME i \in 1..Len(s)
      PROVE  At(s, i + 1) = NL <=> i + 1 \in 1..Len(s) /\ s[i + 1] = NL
  BY <1>1, <1>2 DEF At
<1>5. i \in 1..Len(s) /\ i + 1 \in 1..Len(s) <=> i \in 1..(Len(s) - 1)
  BY <1>1
<1> QED BY <1>3, <1>4, <1>5

(* The balance of a beginning, by its levels. *)
LEMMA BalancedFront ==
  ASSUME NEW s \in Scripts, NEW i \in 0..Len(s)
  PROVE  Balanced(SubSeq(s, 1, i)) <=> Level(s, i) = 0 /\ \A n \in 1..i : Level(s, n) >= 0
<1> DEFINE f == SubSeq(s, 1, i)
<1>1. s \in Seq(Chars) /\ i \in Nat
  BY DEF Scripts
<1>2. f \in Seq(Chars) /\ Len(f) = i /\ \A k \in 1..i : f[k] = s[k]
  BY <1>1, FrontFacts
<1> HIDE DEF f
<1>3. ASSUME NEW n \in 0..i PROVE Level(f, n) = Level(s, n)
  <2>1. n \in Nat /\ \A k \in 1..n : f[k] = s[k]
    BY <1>1, <1>2
  <2> QED BY <2>1, LevelSame
<1>4. DOMAIN f = 1..i /\ i \in 0..i /\ \A n \in 1..i : n \in 0..i
  BY <1>1, <1>2
<1>5. Balanced(f) <=> Level(s, i) = 0 /\ \A n \in 1..i : Level(s, n) >= 0
  BY <1>2, <1>3, <1>4 DEF Balanced
<1> QED BY <1>5 DEF f

(* What is left of a regular script where the level is 0 is regular. *)
LEMMA RegularDrop ==
  ASSUME NEW s \in Scripts, Regular(s), NEW m \in 0..Len(s), Level(s, m) = 0
  PROVE  Regular(Drop(s, m))
<1> DEFINE d == Drop(s, m)
<1>1. s \in Seq(Chars) /\ Len(s) \in Nat /\ m \in Nat
  BY DEF Scripts
<1>2. d \in Seq(Chars) /\ Len(d) = Len(s) - m /\ \A k \in 1..(Len(s) - m) : d[k] = s[m + k]
  BY <1>1, DropFacts
<1>3. \A n \in 0..(Len(s) - m) : Level(d, n) = Level(s, m + n) - Level(s, m)
  BY <1>1, LevelDrop
<1> HIDE DEF d
<1>4. d \in Scripts
  BY <1>2 DEF Scripts
<1> SUFFICES ASSUME NEW i \in Cuts(d) PROVE Balanced(SubSeq(d, 1, i)) /\ At(d, i - 1) \notin Blank
  BY DEF Regular, d
<1>5. i \in 1..(Len(s) - m - 1) /\ d[i] = NL /\ d[i + 1] = NL
  BY <1>2, <1>4, CutsAre
<1>6. /\ i \in 1..(Len(s) - m) /\ i + 1 \in 1..(Len(s) - m) /\ m + (i + 1) = (m + i) + 1
      /\ m + i \in 1..(Len(s) - 1) /\ m + i \in 0..Len(s) /\ i \in Nat /\ i \in 0..Len(d)
  BY <1>1, <1>2, <1>5
<1>7. m + i \in Cuts(s)
  <2>1. s[m + i] = NL /\ s[(m + i) + 1] = NL
    BY <1>2, <1>5, <1>6
  <2> QED BY <1>6, <2>1, CutsAre
<1>8. Level(s, m + i) = 0 /\ \A n \in 1..(m + i) : Level(s, n) >= 0
  <2>1. Balanced(SubSeq(s, 1, m + i))
    BY <1>7 DEF Regular
  <2> DEFINE j == m + i
  <2>2. j \in 0..Len(s) /\ Balanced(SubSeq(s, 1, j))
    BY <1>6, <2>1
  <2> HIDE DEF j
  <2>3. Level(s, j) = 0 /\ \A n \in 1..j : Level(s, n) >= 0
    BY <2>2, BalancedFront
  <2> QED BY <2>3 DEF j
<1>9. Balanced(SubSeq(d, 1, i))
  <2>1. Level(d, i) = 0
    <3>1. Level(d, i) = Level(s, m + i) - Level(s, m) /\ i \in 0..(Len(s) - m)
      BY <1>3, <1>6
    <3> QED BY <1>8, <3>1
  <2>2. \A n \in 1..i : Level(d, n) >= 0
    <3> TAKE n \in 1..i
    <3>1. m + n \in 1..(m + i) /\ n \in 0..(Len(s) - m) /\ m + n \in Nat
      BY <1>1, <1>6
    <3>2. Level(d, n) = Level(s, m + n) - Level(s, m) /\ Level(s, m + n) >= 0 /\ Level(s, m + n) \in Int
      BY <1>3, <1>8, <3>1, LevelNext
    <3> QED BY <3>2
  <2> QED BY <1>4, <1>6, <2>1, <2>2, BalancedFront
<1>10. At(d, i - 1) \notin Blank
  <2>1. CASE i = 1
    <3>1. At(d, i - 1) = NUL
      BY <1>2, <2>1 DEF At
    <3>2. NUL \notin Blank
      BY Zenon DEF NUL, Blank, SP
    <3> QED BY <3>1, <3>2
  <2>2. CASE i # 1
    <3>1. i - 1 \in 1..(Len(s) - m) /\ m + (i - 1) = (m + i) - 1 /\ (m + i) - 1 \in 1..Len(s)
      BY <1>1, <1>6, <2>2
    <3>2. At(d, i - 1) = At(s, (m + i) - 1)
      <4>1. At(d, i - 1) = d[i - 1] /\ At(s, (m + i) - 1) = s[(m + i) - 1]
        BY <1>1, <1>2, <3>1 DEF At
      <4>2. d[i - 1] = s[m + (i - 1)]
        BY <1>2, <3>1
      <4> QED BY <3>1, <4>1, <4>2
    <3>3. At(s, (m + i) - 1) \notin Blank
      BY <1>7 DEF Regular
    <3> QED BY <3>2, <3>3
  <2> QED BY <2>1, <2>2
<1> QED BY <1>9, <1>10

(* The newlines before a chunk. *)
LEMMA TrimmedFacts ==
  ASSUME NEW s \in Scripts, Regular(s)
  PROVE  /\ Trimmed(s) \in Scripts /\ Regular(Trimmed(s))
         /\ Trimmed(s) = <<>> \/ Trimmed(s)[1] # NL
         /\ Commands(Whole(Trimmed(s))) = Commands(Whole(s))
<1> DEFINE k == Skip(s, {NL})
           t == Trimmed(s)
<1>1. s \in Seq(Chars) /\ Len(s) \in Nat
  BY DEF Scripts
<1>2. SkipSpec(s, {NL}, k)
  BY <1>1, SkipIs
<1>3. t = Drop(s, k)
  BY DEF Trimmed
<1> HIDE DEF k, t
<1>4. k \in 0..Len(s) /\ k \in Nat /\ (\A j \in 1..k : s[j] = NL) /\ (k = Len(s) \/ s[k + 1] # NL)
  BY <1>2 DEF SkipSpec
<1>5. t \in Seq(Chars) /\ Len(t) = Len(s) - k /\ \A j \in 1..(Len(s) - k) : t[j] = s[k + j]
  BY <1>1, <1>3, <1>4, DropFacts
<1>6. t = <<>> \/ t[1] # NL
  <2>1. CASE k = Len(s)
    BY <1>5, <2>1
  <2>2. CASE k # Len(s)
    <3>1. 1 \in 1..(Len(s) - k)
      BY <1>1, <1>4, <2>2
    <3> QED BY <1>4, <1>5, <2>2, <3>1
  <2> QED BY <2>1, <2>2
<1>7. Level(s, k) = 0
  <2> DEFINE S == {n \in Nat : n <= k => Level(s, n) = 0}
  <2>1. 0 \in S
    BY LevelNext
  <2>2. \A n \in Nat : n \in S => n + 1 \in S
    <3> SUFFICES ASSUME NEW n \in Nat, n \in S, n + 1 <= k PROVE Level(s, n + 1) = 0
      OBVIOUS
    <3>1. Level(s, n) = 0 /\ s[n + 1] = NL
      BY <1>4
    <3>2. Level(s, n + 1) = Level(s, n) + Delta(s[n + 1])
      BY LevelNext
    <3>3. Delta(NL) = 0
      BY Characters DEF Delta
    <3> QED BY <3>1, <3>2, <3>3
  <2>3. k \in S
    <3> HIDE DEF S
    <3> QED BY <1>4, <2>1, <2>2, Induct
  <2> QED BY <1>4, <2>3
<1>8. Regular(t)
  BY <1>3, <1>4, <1>7, RegularDrop
<1>9. Commands(Whole(t)) = Commands(Whole(s))
  <2>1. CASE k = 0
    <3>1. t = s
      BY <1>1, <1>3, <2>1 DEF Drop
    <3> QED BY <3>1
  <2>2. CASE k # 0
    <3>1. k \in Newlines(s)
      BY <1>1, <1>4, <2>2 DEF Newlines
    <3> DEFINE w == Whole(s)
               f == Final(Newlines(s))
    <3>2. f \in 1..Len(s) /\ k <= f /\ w = SubSeq(s, 1, f) /\ w \in Scripts
      BY <3>1, WholeFacts
    <3>3. k \in 0..f
      BY <1>4, <3>2
    <3>4. Whole(t) = Drop(w, k)
      BY <1>3, <3>1, <3>3, WholeDrop
    <3> HIDE DEF f, w
    <3>5. Len(w) = f /\ \A j \in 1..f : w[j] = s[j]
      <4>1. f \in 0..Len(s)
        BY <3>2
      <4> QED BY <1>1, <3>2, <4>1, FrontFacts
    <3>6. k \in 0..Len(w) /\ \A j \in 1..k : w[j] = NL
      BY <1>4, <3>2, <3>3, <3>5
    <3> QED BY <3>2, <3>4, <3>6, NewlinesPassed DEF w
  <2> QED BY <2>1, <2>2
<1> QED BY <1>5, <1>6, <1>8, <1>9 DEF t, Scripts

(* The empty script has no commands. *)
LEMMA NoCommands == Commands(<<>>) = <<>>
<1>1. IsPlain(<<>>, "EOL", <<>>, <<>>)
  BY DEF IsPlain, Scripts, Types
<1> QED BY <1>1, ResultEnd, CommandsAre

(* Commands are sequences of words. *)
LEMMA CommandsType ==
  ASSUME NEW s \in Scripts
  PROVE  Commands(s) \in Seq(Seq(Scripts))
<1>1. IsPlain(s, "EOL", <<>>, <<>>)
  BY DEF IsPlain, Types
<1>2. <<>> \in Seq(Seq(Scripts))
  OBVIOUS
<1> QED BY <1>1, <1>2, ResultConcat, CommandsAre

(* A chunk and what is left have the commands of the whole. *)
LEMMA ChunkIsSplit ==
  ASSUME NEW t \in Scripts, Regular(t), t = <<>> \/ t[1] # NL, ChunkSize(t) # 0
  PROVE  /\ ChunkSize(t) \in 1..Len(t) /\ SubSeq(t, 1, ChunkSize(t)) \in Scripts
         /\ Rest(t) \in Scripts /\ Regular(Rest(t))
         /\ Commands(Whole(t)) = Commands(SubSeq(t, 1, ChunkSize(t))) \o Commands(Whole(Rest(t)))
<1> DEFINE n == ChunkSize(t)
           u == SubSeq(t, 1, n)
           r == Rest(t)
           f == Final(Newlines(t))
<1>1. t \in Seq(Chars) /\ Len(t) \in Nat
  BY DEF Scripts
<1>2. r = Drop(t, n + 1)
  BY DEF Rest
<1>3. CASE Cuts(t) # {}
  <2> DEFINE c == First(Cuts(t))
  <2>1. c \in Cuts(t) /\ \A j \in Cuts(t) : c <= j
    <3>1. Cuts(t) \in SUBSET (1..Len(t))
      BY <1>1 DEF Cuts, Newlines
    <3> QED BY <1>1, <1>3, <3>1, FirstFinal
  <2>2. n = c - 1
    BY <1>3 DEF ChunkSize
  <2> HIDE DEF c, n, r, f
  <2>3. c \in 1..(Len(t) - 1) /\ t[c] = NL /\ t[c + 1] = NL
    BY <2>1, CutsAre
  <2>4. c # 1 /\ n \in 1..Len(t) /\ n + 1 = c /\ n \in Nat /\ c \in Nat /\ c + 1 \in Nat /\ c \in 0..Len(t)
    <3>1. c # 1
      BY <1>1, <2>3
    <3> QED BY <1>1, <2>2, <2>3, <3>1
  <2>5. t[n] # NL
    <3>1. ASSUME t[n] = NL PROVE FALSE
      <4>1. n \in 1..(Len(t) - 1) /\ t[n + 1] = NL
        BY <2>3, <2>4
      <4>2. n \in Cuts(t)
        BY <3>1, <4>1, CutsAre
      <4>3. c <= n
        BY <2>1, <4>2
      <4> QED BY <2>4, <4>3
    <3> QED BY <3>1
  <2>6. Balanced(SubSeq(t, 1, c)) /\ At(t, n) \notin Blank
    BY <2>1, <2>2 DEF Regular
  <2>7. Level(t, c) = 0 /\ \A k \in 1..c : Level(t, k) >= 0
    BY <2>4, <2>6, BalancedFront
  <2>8. Level(t, n) = 0
    <3>1. Level(t, n + 1) = Level(t, n) + Delta(t[n + 1]) /\ Level(t, n) \in Int
      BY <2>4, LevelNext
    <3>2. Delta(NL) = 0
      BY Characters DEF Delta
    <3> QED BY <2>3, <2>4, <2>7, <3>1, <3>2
  <2>9. u \in Seq(Chars) /\ Len(u) = n /\ \A k \in 1..n : u[k] = t[k]
    <3>1. n \in 0..Len(t)
      BY <2>4
    <3> QED BY <1>1, <3>1, FrontFacts
  <2> HIDE DEF u
  <2>10. Good(u)
    <3>1. \A k \in 0..n : Level(u, k) = Level(t, k)
      <4> TAKE k \in 0..n
      <4>1. k \in Nat /\ \A j \in 1..k : u[j] = t[j]
        BY <2>4, <2>9
      <4> QED BY <4>1, LevelSame
    <3>2. \A k \in 0..n : Level(t, n) <= Level(t, k)
      <4> TAKE k \in 0..n
      <4>1. CASE k = 0
        BY <2>8, <4>1, LevelNext
      <4>2. CASE k # 0
        <5>1. k \in 1..c /\ k \in Nat
          BY <2>4, <4>2
        <5>2. Level(t, k) >= 0 /\ Level(t, k) \in Int
          BY <2>7, <5>1, LevelNext
        <5> QED BY <2>8, <5>2
      <4> QED BY <4>1, <4>2
    <3>3. n \in 0..n /\ n \in 1..n
      BY <2>4
    <3>4. \A k \in 0..n : Level(u, n) <= Level(u, k)
      BY <3>1, <3>2, <3>3
    <3>5. u[Len(u)] \notin White
      <4>1. At(t, n) = t[n]
        BY <1>1, <2>4 DEF At
      <4>2. SP \in Blank
        BY DEF Blank
      <4>3. u[Len(u)] = t[n]
        BY <2>9, <3>3
      <4> QED BY <2>5, <2>6, <4>1, <4>2, <4>3 DEF White
    <3>6. u # <<>>
      BY <2>4, <2>9
    <3> QED BY <2>9, <3>4, <3>5, <3>6 DEF Good, Scripts
  <2>11. c + 1 \in Newlines(t) /\ Newlines(t) # {}
    BY <1>1, <2>3 DEF Newlines
  <2> DEFINE w == Whole(t)
             z == Drop(w, n)
  <2>12. f \in 1..Len(t) /\ c + 1 <= f /\ w = SubSeq(t, 1, f) /\ w \in Scripts
    BY <2>11, WholeFacts DEF f
  <2> HIDE DEF w
  <2>13. w \in Seq(Chars) /\ Len(w) = f /\ \A k \in 1..f : w[k] = t[k]
    <3>1. f \in 0..Len(t)
      BY <2>12
    <3> QED BY <1>1, <2>12, <3>1, FrontFacts
  <2>14. n \in 0..f /\ n \in 0..Len(w) /\ c \in 0..f /\ 1 \in 0..(Len(w) - n) /\ f \in 0..Len(t)
    BY <2>4, <2>12, <2>13
  <2>15. z \in Seq(Chars) /\ Len(z) = f - n /\ \A k \in 1..(f - n) : z[k] = w[n + k]
    <3>0. w \in Seq(Chars) /\ n \in 0..Len(w)
      BY <2>13, <2>14
    <3>1. Drop(w, n) \in Seq(Chars) /\ Len(Drop(w, n)) = Len(w) - n
          /\ \A k \in 1..(Len(w) - n) : Drop(w, n)[k] = w[n + k]
      BY <3>0, DropFacts
    <3> QED BY <2>13, <3>1
  <2>16. Drop(z, 1) = Drop(w, c)
    <3>1. Drop(Drop(w, n), 1) = Drop(w, n + 1)
      BY <2>13, <2>14, DropDrop
    <3> QED BY <2>4, <3>1
  <2>17. u \o z = w
    BY <1>1, <2>12, <2>14, FrontDrop DEF u
  <2> HIDE DEF z
  <2>18. BlankLine(z)
    <3>1. /\ 1 \in 1..(f - n) /\ 2 \in 1..(f - n) /\ n + 2 = c + 1 /\ c \in 1..f /\ c + 1 \in 1..f
          /\ f - n >= 2
      BY <2>4, <2>12
    <3>2. z[1] = NL /\ z[2] = NL
      BY <2>3, <2>4, <2>13, <2>15, <3>1
    <3> QED BY <2>15, <3>1, <3>2 DEF BlankLine, Scripts
  <2>19. r = Drop(t, c)
    BY <1>2, <2>4 DEF r
  <2>20. Whole(r) = Drop(w, c)
    BY <2>11, <2>14, <2>19, WholeDrop DEF f, w
  <2>21. Commands(w) = Commands(u) \o Commands(Whole(r))
    <3>1. Commands(u \o z) = Commands(u) \o Commands(Drop(z, 1))
      BY <2>10, <2>18, CutIsSplit
    <3> QED BY <2>16, <2>17, <2>20, <3>1, Zenon
  <2>22. Regular(r)
    BY <2>4, <2>7, <2>19, RegularDrop
  <2>23. r \in Scripts
    BY <1>1, <2>4, <2>19, DropFacts DEF Scripts
  <2> QED BY <2>4, <2>9, <2>21, <2>22, <2>23 DEF n, u, r, w, Scripts
<1>4. CASE Cuts(t) = {}
  <2>1. Newlines(t) # {} /\ n = f
    BY <1>4 DEF ChunkSize
  <2> HIDE DEF n, r
  <2>2. f \in 1..Len(t) /\ (\A i \in Newlines(t) : i <= f) /\ Whole(t) = SubSeq(t, 1, f) /\ Whole(t) \in Scripts
    BY <2>1, WholeFacts
  <2> HIDE DEF f
  <2>3. r \in Scripts /\ Newlines(r) = {} /\ Regular(r)
    <3>1. CASE f = Len(t)
      <4>1. r = <<>>
        BY <1>1, <1>2, <2>1, <3>1 DEF Drop, r
      <4>2. Newlines(r) = {}
        BY <4>1 DEF Newlines
      <4> QED BY <4>1, <4>2 DEF Regular, Cuts, Scripts
    <3>2. CASE f # Len(t)
      <4>1. f + 1 \in 0..Len(t) /\ f \in Nat
        BY <2>2, <3>2
      <4>2. r = Drop(t, f + 1)
        BY <1>2, <2>1 DEF r
      <4>3. r \in Seq(Chars)
        BY <1>1, <4>1, <4>2, DropFacts
      <4>4. Newlines(r) = {}
        <5> SUFFICES ASSUME NEW i \in Newlines(r) PROVE FALSE
          OBVIOUS
        <5>1. i \in Nat
          BY <4>3 DEF Newlines
        <5>2. i >= 1 /\ (f + 1) + i \in Newlines(t)
          BY <4>1, <4>2, <5>1, NewlinesDrop
        <5>3. (f + 1) + i <= f
          BY <2>2, <5>2
        <5> QED BY <4>1, <5>1, <5>3
      <4> QED BY <4>3, <4>4 DEF Regular, Cuts, Scripts
    <3> QED BY <3>1, <3>2
  <2>4. Commands(Whole(r)) = <<>>
    BY <2>3, WholeFacts, NoCommands
  <2>5. Commands(Whole(t)) \o <<>> = Commands(Whole(t))
    BY <2>2, CommandsType, ConcatEmptySeq
  <2>6. Commands(Whole(t)) = Commands(u) \o Commands(Whole(r))
    BY <2>1, <2>2, <2>4, <2>5
  <2> QED BY <2>1, <2>2, <2>3, <2>6 DEF n, r
<1> QED BY <1>3, <1>4

-----------------------------------------------------------------------------
(* pcl_load: as long as it loads, the commands of the script are those     *)
(* that ran and those that are left, in this order.                        *)
Loads ==
  /\ Regular(left) /\ left \in Scripts
  /\ Commands(Whole(file)) = ran \o Commands(Whole(left))

ScriptInv ==
  /\ file \in Scripts
  /\ Regular(file) =>
       /\ ran \in Seq(Seq(Scripts))
       /\ phase = "loading" => Loads
       /\ phase = "done" => ran = Commands(Whole(file))
       /\ IsPrefix(ran, Commands(Whole(file)))

(* A joined sequence begins with the first. *)
LEMMA PrefixConcat ==
  ASSUME NEW S, NEW a \in Seq(S), NEW b \in Seq(S)
  PROVE  IsPrefix(a, a \o b)
<1> DEFINE c == a \o b
<1>1. c \in Seq(S) /\ Len(c) = Len(a) + Len(b)
      /\ \A k \in 1..(Len(a) + Len(b)) : c[k] = IF k <= Len(a) THEN a[k] ELSE b[k - Len(a)]
  BY ConcatProperties
<1> HIDE DEF c
<1>2. Len(a) \in 0..Len(c) /\ Len(a) \in 0..Len(a) /\ Len(a) <= Len(c)
  BY <1>1
<1>3. \A k \in 1..Len(a) : c[k] = a[k]
  BY <1>1
<1> DEFINE d == SubSeq(c, 1, Len(a))
           e == SubSeq(a, 1, Len(a))
<1>4. d \in Seq(S) /\ Len(d) = Len(a) /\ \A k \in 1..Len(a) : d[k] = c[k]
  BY <1>1, <1>2, FrontFacts
<1>5. e \in Seq(S) /\ Len(e) = Len(a) /\ \A k \in 1..Len(a) : e[k] = a[k]
  BY <1>2, FrontFacts
<1> HIDE DEF d, e
<1>6. d = e
  BY <1>3, <1>4, <1>5, SeqEqual
<1>7. IsPrefix(a, c)
  BY <1>2, <1>6 DEF IsPrefix, d, e
<1> QED BY <1>7 DEF c

(* Four sequences joined, in any order of joining. *)
LEMMA Regroup ==
  ASSUME NEW S, NEW a \in Seq(S), NEW b \in Seq(S), NEW c \in Seq(S), NEW d \in Seq(S)
  PROVE  Cat(a, Cat(Cat(b, c), d)) = Cat(Cat(a, b), Cat(c, d))
<1>1. \A x, y \in Seq(S) : Cat(x, y) \in Seq(S)
  BY ConcatProperties DEF Cat
<1>2. \A x, y, z \in Seq(S) : Cat(Cat(x, y), z) = Cat(x, Cat(y, z))
  BY CatAssociative
<1>3. Cat(Cat(b, c), d) = Cat(b, Cat(c, d)) /\ Cat(c, d) \in Seq(S)
  BY <1>1, <1>2
<1> QED BY <1>2, <1>3

(* The invariant holds at the beginning, *)
LEMMA ScriptStarts == ASSUME ScriptInit PROVE ScriptInv
<1>1. file \in Scripts /\ left = file /\ ran = <<>> /\ phase = "loading"
  <2>1. PICK n \in 1..MaxFile : file \in [1..n -> Uploaded]
    BY DEF ScriptInit
  <2>2. n \in Nat /\ file \in [1..n -> Chars]
    BY <2>1, ScriptAssumption
  <2> QED BY <2>1, <2>2 DEF ScriptInit, Scripts
<1>2. Commands(Whole(file)) \in Seq(Seq(Scripts)) /\ <<>> \in Seq(Seq(Scripts))
  BY <1>1, WholeFacts, CommandsType
<1> DEFINE C == Commands(Whole(file))
<1> HIDE DEF C
<1>3. C = <<>> \o C
  BY <1>2, ConcatEmptySeq DEF C
<1>4. IsPrefix(<<>>, C)
  <2>1. IsPrefix(<<>>, <<>> \o C)
    BY <1>2, PrefixConcat DEF C
  <2> QED BY <1>3, <2>1, Zenon
<1> QED BY <1>1, <1>2, <1>3, <1>4 DEF ScriptInv, Loads, C

(* and when a chunk is loaded. *)
LEMMA ScriptStep ==
  ASSUME ScriptInv, LoadChunk
  PROVE  ScriptInv'
<1> DEFINE t == Trimmed(left)
           n == ChunkSize(t)
           u == SubSeq(t, 1, n)
           cmds == Commands(u)
<1>1. phase = "loading" /\ file' = file /\ file \in Scripts
  BY DEF ScriptInv, LoadChunk
<1>2. \/ n = 0 /\ phase' = "done" /\ left' = left /\ ran' = ran
      \/ n # 0 /\ phase' = "too big" /\ left' = left /\ ran' = ran
      \/ /\ n # 0
         /\ \E k \in 0..Len(cmds) :
              /\ ran' = ran \o SubSeq(cmds, 1, k)
              /\ left' = Rest(t)
              /\ phase' = IF k < Len(cmds) THEN "failed" ELSE IF left' = <<>> THEN "done" ELSE "loading"
  BY DEF LoadChunk
<1> HIDE DEF t, n, u, cmds
<1>3. ASSUME Regular(file)
      PROVE  /\ phase' = "loading" => /\ Regular(left') /\ left' \in Scripts
                                      /\ Commands(Whole(file)) = ran' \o Commands(Whole(left'))
             /\ phase' = "done" => ran' = Commands(Whole(file))
             /\ IsPrefix(ran', Commands(Whole(file)))
             /\ ran' \in Seq(Seq(Scripts))
  <2> DEFINE C == Commands(Whole(t))
             all == Commands(Whole(file))
  <2>1. Regular(left) /\ left \in Scripts /\ all = ran \o Commands(Whole(left)) /\ IsPrefix(ran, all)
        /\ ran \in Seq(Seq(Scripts))
    BY <1>1, <1>3 DEF ScriptInv, Loads
  <2>2. t \in Scripts /\ Regular(t) /\ (t = <<>> \/ t[1] # NL) /\ all = ran \o C
    BY <2>1, TrimmedFacts DEF t
  <2> HIDE DEF all, C
  <2>3. CASE n = 0 /\ phase' = "done" /\ left' = left /\ ran' = ran
    <3>1. Newlines(t) = {}
      <4>1. t \in Seq(Chars) /\ Len(t) \in Nat /\ Newlines(t) \in SUBSET (1..Len(t)) /\ Cuts(t) \in SUBSET (1..Len(t))
        BY <2>2 DEF Scripts, Newlines, Cuts
      <4>2. Cuts(t) = {}
        <5> SUFFICES ASSUME Cuts(t) # {} PROVE FALSE
          OBVIOUS
        <5> DEFINE c == First(Cuts(t))
        <5>1. c \in Cuts(t)
          BY <4>1, FirstFinal
        <5>2. n = c - 1
          BY DEF ChunkSize, n
        <5> HIDE DEF c
        <5>3. c \in 1..(Len(t) - 1) /\ t[c] = NL
          BY <2>2, <5>1, CutsAre
        <5> QED BY <2>2, <2>3, <4>1, <5>2, <5>3
      <4> SUFFICES ASSUME Newlines(t) # {} PROVE FALSE
        OBVIOUS
      <4>3. Final(Newlines(t)) \in Newlines(t)
        BY <4>1, FirstFinal
      <4>4. n = Final(Newlines(t))
        BY <4>2 DEF ChunkSize, n
      <4> QED BY <2>3, <4>1, <4>3, <4>4
    <3>2. C = <<>>
      BY <2>2, <3>1, WholeFacts, NoCommands DEF C
    <3>3. all = ran
      BY <2>1, <2>2, <3>2, ConcatEmptySeq
    <3> QED BY <1>1, <2>1, <2>3, <3>3 DEF all
  <2>4. CASE n # 0 /\ phase' = "too big" /\ left' = left /\ ran' = ran
    BY <1>1, <2>1, <2>4 DEF all
  <2>5. ASSUME n # 0, NEW k \in 0..Len(cmds),
               ran' = ran \o SubSeq(cmds, 1, k), left' = Rest(t),
               phase' = IF k < Len(cmds) THEN "failed" ELSE IF left' = <<>> THEN "done" ELSE "loading"
        PROVE  /\ phase' = "loading" => Regular(left') /\ left' \in Scripts /\ all = ran' \o Commands(Whole(left'))
               /\ phase' = "done" => ran' = all
               /\ IsPrefix(ran', all)
               /\ ran' \in Seq(Seq(Scripts))
    <3> DEFINE r == Rest(t)
               D == Commands(Whole(r))
               front == SubSeq(cmds, 1, k)
               back == Drop(cmds, k)
               ran2 == ran \o front
    <3>1. u \in Scripts /\ r \in Scripts /\ Regular(r) /\ C = cmds \o D
      BY <2>2, <2>5, ChunkIsSplit DEF n, u, cmds, C
    <3> HIDE DEF r
    <3>2. cmds \in Seq(Seq(Scripts)) /\ D \in Seq(Seq(Scripts))
      BY <3>1, WholeFacts, CommandsType DEF cmds
    <3>3. Len(cmds) \in Nat /\ Len(cmds) \in 0..Len(cmds) /\ k \in Nat
      BY <3>2
    <3>4. front \in Seq(Seq(Scripts)) /\ back \in Seq(Seq(Scripts)) /\ front \o back = cmds
      <4>1. SubSeq(cmds, 1, Len(cmds)) = cmds
        BY <3>2, SubSeqFull
      <4>2. SubSeq(cmds, 1, k) \o Drop(SubSeq(cmds, 1, Len(cmds)), k) = SubSeq(cmds, 1, Len(cmds))
        BY <3>2, <3>3, FrontDrop
      <4>3. SubSeq(cmds, 1, k) \in Seq(Seq(Scripts)) /\ Drop(cmds, k) \in Seq(Seq(Scripts))
        BY <3>2, FrontFacts, DropFacts
      <4> QED BY <4>1, <4>2, <4>3
    <3> HIDE DEF D, front, back
    <3>5. ran2 \in Seq(Seq(Scripts)) /\ back \o D \in Seq(Seq(Scripts))
      BY <2>1, <3>2, <3>4, ConcatProperties
    <3>6. all = ran2 \o (back \o D)
      <4>1. all = ran \o ((front \o back) \o D)
        BY <2>2, <3>1, <3>4, Zenon
      <4>2. /\ ran \in Seq(Seq(Scripts)) /\ D \in Seq(Seq(Scripts))
            /\ front \in Seq(Seq(Scripts)) /\ back \in Seq(Seq(Scripts))
        BY <2>1, <3>2, <3>4
      <4>3. ran \o ((front \o back) \o D) = (ran \o front) \o (back \o D)
        <5>1. Cat(ran, Cat(Cat(front, back), D)) = Cat(Cat(ran, front), Cat(back, D))
          BY <4>2, Regroup
        <5> QED BY <5>1 DEF Cat
      <4> QED BY <4>1, <4>3, Zenon
    <3>7. ran' = ran2
      BY <2>5 DEF front
    <3> HIDE DEF ran2
    <3>8. IsPrefix(ran2, all)
      <4>1. IsPrefix(ran2, ran2 \o (back \o D))
        BY <3>5, PrefixConcat
      <4> QED BY <3>6, <4>1, Zenon
    <3>9. CASE k < Len(cmds)
      BY <2>5, <3>5, <3>7, <3>8, <3>9
    <3>10. CASE ~(k < Len(cmds))
      <4>1. k = Len(cmds)
        BY <3>3, <3>10
      <4>2. back = <<>>
        BY <3>2, <4>1 DEF back, Drop
      <4>3. all = ran2 \o D
        <5>1. <<>> \o D = D
          BY <3>2, ConcatEmptySeq
        <5> QED BY <3>6, <4>2, <5>1, Zenon
      <4>4. left' = r
        BY <2>5 DEF r
      <4>5. r = <<>> => D = <<>>
        <5>1. Whole(<<>>) = <<>>
          <6>1. Newlines(<<>>) = {}
            BY DEF Newlines
          <6> QED BY <6>1, Zenon DEF Whole
        <5> QED BY <5>1, NoCommands DEF D
      <4>6. r = <<>> => ran2 = all
        <5>1. ran2 \o <<>> = ran2
          BY <3>5, ConcatEmptySeq
        <5> QED BY <4>3, <4>5, <5>1, Zenon
      <4>7. phase' = IF r = <<>> THEN "done" ELSE "loading"
        BY <2>5, <3>10, <4>4
      <4>8. ran' = ran2 /\ all = ran' \o Commands(Whole(left'))
        BY <3>7, <4>3, <4>4, Zenon DEF D
      <4> QED BY <3>1, <3>5, <3>8, <4>4, <4>6, <4>7, <4>8
    <3> QED BY <3>9, <3>10
  <2>6. CASE n # 0 /\ \E k \in 0..Len(cmds) :
                          /\ ran' = ran \o SubSeq(cmds, 1, k)
                          /\ left' = Rest(t)
                          /\ phase' = IF k < Len(cmds) THEN "failed" ELSE IF left' = <<>> THEN "done" ELSE "loading"
    BY <2>5, <2>6 DEF all
  <2> QED BY <1>2, <2>3, <2>4, <2>6
<1> QED BY <1>1, <1>3 DEF ScriptInv, Loads

(* Cutting a script into chunks changes nothing, however long it is: the   *)
(* commands that ran are the first ones of the script taken as a whole,    *)
(* and all of them when none fails and every chunk fits (pcl_load).        *)
THEOREM ScriptWhole == ScriptSpec => []TokensAgree
<1>1. ScriptInit => ScriptInv
  BY ScriptStarts
<1>2. ScriptInv /\ [ScriptNext]_scriptVars => ScriptInv'
  <2> SUFFICES ASSUME ScriptInv, [ScriptNext]_scriptVars PROVE ScriptInv'
    OBVIOUS
  <2>1. CASE LoadChunk
    BY <2>1, ScriptStep
  <2>2. CASE UNCHANGED scriptVars
    BY <2>2 DEF ScriptInv, Loads, scriptVars
  <2> QED BY <2>1, <2>2 DEF ScriptNext
<1>3. ScriptInv => TokensAgree
  BY DEF ScriptInv, TokensAgree
<1> QED BY <1>1, <1>2, <1>3, PTL DEF ScriptSpec
=============================================================================
