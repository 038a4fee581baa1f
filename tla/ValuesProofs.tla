---------------------------- MODULE ValuesProofs ----------------------------
(***************************************************************************)
(* What the commands on lists, text and numbers compute, for words, lists  *)
(* and numbers of any size.  First how a list is read back: foreach visits *)
(* the words list was given, and the interpreter reads the same words.     *)
(* Then one lemma for each command (XxxIs) about its operator, another one *)
(* (XxxRight) in the terms of PicolCalls, and ValuesRight at the end.      *)
(***************************************************************************)
EXTENDS PicolCalls, TextProofs

-----------------------------------------------------------------------------
(* FOREACH, one element after the other. *)
Visiting(s, buf, visited) == [text |-> s, buf |-> buf, visited |-> visited]

Steps(f, n, g) == g = [k \in 0..n |-> IF k = 0 THEN f ELSE NextElement(g[k - 1])]

(* The steps of foreach, one from the other. *)
LEMMA StepsFacts ==
  ASSUME NEW f, NEW n \in Nat, NEW g, Steps(f, n, g)
  PROVE  g[0] = f /\ \A k \in 0..n : k + 1 <= n => g[k + 1] = NextElement(g[k])
<1>1. g = [k \in 0..n |-> IF k = 0 THEN f ELSE NextElement(g[k - 1])]
  BY Zenon DEF Steps
<1>2. \A k \in 0..n : g[k] = IF k = 0 THEN f ELSE NextElement(g[k - 1])
  BY <1>1, Zenon
<1>3. g[0] = f
  BY <1>2
<1>4. ASSUME NEW k \in 0..n, k + 1 <= n PROVE g[k + 1] = NextElement(g[k])
  <2>1. k + 1 \in 0..n /\ k + 1 # 0 /\ (k + 1) - 1 = k
    BY <1>4
  <2>2. g[k + 1] = NextElement(g[(k + 1) - 1])
    BY <1>2, <2>1, Zenon
  <2> QED BY <2>1, <2>2, Zenon
<1> QED BY <1>3, <1>4

(* Foreach has as many steps as it is told. *)
LEMMA StepsExist ==
  ASSUME NEW f, NEW n \in Nat
  PROVE  \E g : Steps(f, n, g) /\ Foreach(f, n) = g[n]
<1> DEFINE S == {k \in Nat : \E g : Steps(f, k, g)}
<1>1. 0 \in S
  <2> DEFINE g == [k \in 0..0 |-> f]
  <2>1. g = [k \in 0..0 |-> IF k = 0 THEN f ELSE NextElement(g[k - 1])]
    OBVIOUS
  <2>2. Steps(f, 0, g)
    BY <2>1, Zenon DEF Steps
  <2> HIDE DEF g
  <2> QED BY <2>2
<1>2. \A k \in Nat : k \in S => k + 1 \in S
  <2> SUFFICES ASSUME NEW k \in Nat, NEW g, Steps(f, k, g) PROVE \E h : Steps(f, k + 1, h)
    OBVIOUS
  <2> DEFINE h == [m \in 0..(k + 1) |-> IF m <= k THEN g[m] ELSE NextElement(g[k])]
  <2>1. g[0] = f /\ \A m \in 0..k : m + 1 <= k => g[m + 1] = NextElement(g[m])
    BY StepsFacts
  <2>2. ASSUME NEW m \in 0..(k + 1) PROVE h[m] = IF m = 0 THEN f ELSE NextElement(h[m - 1])
    <3>1. CASE m = 0
      BY <2>1, <3>1
    <3>2. CASE m # 0 /\ m <= k
      <4>1. m - 1 \in 0..k /\ (m - 1) + 1 = m
        BY <3>2
      <4>2. g[m] = NextElement(g[m - 1])
        BY <2>1, <3>2, <4>1
      <4>3. h[m] = g[m] /\ h[m - 1] = g[m - 1]
        BY <3>2, <4>1
      <4> QED BY <3>2, <4>2, <4>3
    <3>3. CASE m = k + 1
      <4>1. h[m] = NextElement(g[k]) /\ h[m - 1] = g[k] /\ m # 0
        BY <3>3
      <4> QED BY <4>1
    <3> QED BY <3>1, <3>2, <3>3
  <2>3. Steps(f, k + 1, h)
    BY <2>2 DEF Steps
  <2> HIDE DEF h
  <2> QED BY <2>3
<1>3. \E g : Steps(f, n, g)
  <2> HIDE DEF S
  <2>1. n \in S
    BY <1>1, <1>2, Induct
  <2> QED BY <2>1 DEF S
<1> DEFINE after == CHOOSE g : Steps(f, n, g)
<1>4. Steps(f, n, after)
  BY <1>3
<1>5. Foreach(f, n) = after[n]
  BY DEF Foreach, Steps
<1> HIDE DEF after
<1> QED BY <1>4, <1>5

(* The first step, and those after it. *)
LEMMA ForeachFirst ==
  ASSUME NEW f, NEW n \in Nat
  PROVE  Foreach(f, 0) = f /\ Foreach(f, n + 1) = Foreach(NextElement(f), n)
<1>1. PICK z : Steps(f, 0, z) /\ Foreach(f, 0) = z[0]
  BY StepsExist
<1>2. Foreach(f, 0) = f
  BY <1>1, StepsFacts
<1>3. PICK g : Steps(NextElement(f), n, g) /\ Foreach(NextElement(f), n) = g[n]
  BY StepsExist
<1>4. PICK h : Steps(f, n + 1, h) /\ Foreach(f, n + 1) = h[n + 1]
  BY StepsExist
<1>5. g[0] = NextElement(f) /\ \A k \in 0..n : k + 1 <= n => g[k + 1] = NextElement(g[k])
  BY <1>3, StepsFacts
<1>6. h[0] = f /\ \A k \in 0..(n + 1) : k + 1 <= n + 1 => h[k + 1] = NextElement(h[k])
  BY <1>4, StepsFacts
<1> DEFINE S == {k \in Nat : k <= n => h[k + 1] = g[k]}
<1>7. 0 \in S /\ \A k \in Nat : k \in S => k + 1 \in S
  BY <1>5, <1>6
<1>8. n \in S
  <2> HIDE DEF S
  <2> QED BY <1>7, Induct
<1> QED BY <1>2, <1>3, <1>4, <1>8

-----------------------------------------------------------------------------
(* The first element of a text whose braces pair up, and what is left.     *)
Tidy(s) == s \in Scripts /\ Balanced(s)

EndSpec(s, e) == /\ e \in 1..(Len(s) + 1)
                 /\ Level(s, e - 1) = 0
                 /\ e = Len(s) + 1 \/ s[e] = SP
                 /\ \A k \in 1..(e - 1) : ~(Level(s, k - 1) = 0 /\ s[k] = SP)

(* There is one end of an element that fits EndSpec. *)
LEMMA ElementEndIs ==
  ASSUME NEW s \in Scripts, NEW e, EndSpec(s, e)
  PROVE  ElementEnd(s) = e
<1> DEFINE quotes(k) == {j \in 1..(k - 1) : s[j] = QUOTE /\ Level(s, j) = 0}
           ends == {k \in 1..(Len(s) + 1) :
                     Level(s, k - 1) = 0 /\ IF quotes(k) = {} THEN At(s, k) \in {SP, NUL}
                                            ELSE At(s, k) = QUOTE}
<1>1. s \in Seq(Chars) /\ Len(s) \in Nat /\ \A k \in 1..Len(s) : s[k] \in Chars
  BY DEF Scripts
<1>2. \A k \in 1..Len(s) : s[k] # QUOTE /\ s[k] # NUL
  BY <1>1, Characters
<1>3. \A k \in 1..(Len(s) + 1) : quotes(k) = {}
  BY <1>1, <1>2
<1>4. ASSUME NEW k \in 1..(Len(s) + 1)
      PROVE  At(s, k) \in {SP, NUL} <=> k = Len(s) + 1 \/ s[k] = SP
  <2>1. CASE k = Len(s) + 1
    <3>1. k \notin DOMAIN s
      BY <1>1, <2>1
    <3> QED BY <2>1, <3>1 DEF At
  <2>2. CASE k # Len(s) + 1
    <3>1. k \in DOMAIN s /\ k \in 1..Len(s)
      BY <1>1, <2>2
    <3> QED BY <1>2, <2>2, <3>1 DEF At
  <2> QED BY <2>1, <2>2
<1>5. \A k : k \in ends <=> /\ k \in 1..(Len(s) + 1) /\ Level(s, k - 1) = 0
                            /\ k = Len(s) + 1 \/ s[k] = SP
  BY <1>3, <1>4
<1>6. ElementEnd(s) = IF ends = {} THEN 0 ELSE CHOOSE k \in ends : \A j \in ends : k <= j
  BY Zenon DEF ElementEnd
<1> HIDE DEF ends
<1>7. e \in ends
  BY <1>5 DEF EndSpec
<1>8. \A j \in ends : e <= j
  <2> TAKE j \in ends
  <2>1. j \in 1..(Len(s) + 1) /\ e \in 1..(Len(s) + 1)
    BY <1>5 DEF EndSpec
  <2>2. j \notin 1..(e - 1)
    BY <1>1, <1>5, <2>1 DEF EndSpec
  <2> QED BY <1>1, <2>1, <2>2
<1>9. \A k \in ends : (\A j \in ends : k <= j) => k = e
  <2> TAKE k \in ends
  <2> HAVE \A j \in ends : k <= j
  <2>1. k <= e /\ e <= k /\ k \in Int /\ e \in Int
    BY <1>5, <1>7, <1>8 DEF EndSpec
  <2> QED BY <2>1
<1> QED BY <1>6, <1>7, <1>8, <1>9

(* The end of the first element is where EndSpec says. *)
LEMMA EndExists ==
  ASSUME NEW s, Tidy(s)
  PROVE  EndSpec(s, ElementEnd(s))
<1> DEFINE S == {k \in 1..(Len(s) + 1) : Level(s, k - 1) = 0 /\ (k = Len(s) + 1 \/ s[k] = SP)}
<1>1. s \in Scripts /\ Len(s) \in Nat /\ Level(s, Len(s)) = 0
  BY DEF Tidy, Scripts, Balanced
<1>2. Len(s) + 1 \in S /\ S \in SUBSET Nat
  BY <1>1
<1>3. PICK e \in S : \A k \in S : e <= k
  <2> HIDE DEF S
  <2> QED BY <1>2, Least
<1>4. \A k \in 1..(e - 1) : ~(Level(s, k - 1) = 0 /\ s[k] = SP)
  <2> TAKE k \in 1..(e - 1)
  <2>1. k \in 1..(Len(s) + 1) /\ ~(e <= k)
    BY <1>1, <1>3
  <2>2. k \notin S
    <3> HIDE DEF S
    <3> QED BY <1>3, <2>1
  <2> QED BY <2>1, <2>2
<1>5. EndSpec(s, e)
  BY <1>3, <1>4 DEF EndSpec
<1> QED BY <1>1, <1>5, ElementEndIs

(* Without braces the level stays. *)
LEMMA LevelFlat ==
  ASSUME NEW s, NEW m \in Nat, NEW n \in Nat,
         \A k \in 1..n : s[m + k] # LBRACE /\ s[m + k] # RBRACE
  PROVE  Level(s, m + n) = Level(s, m)
<1> DEFINE S == {k \in Nat : k <= n => Level(s, m + k) = Level(s, m)}
<1>1. 0 \in S
  OBVIOUS
<1>2. \A k \in Nat : k \in S => k + 1 \in S
  <2> SUFFICES ASSUME NEW k \in Nat, k \in S, k + 1 <= n PROVE Level(s, m + (k + 1)) = Level(s, m)
    OBVIOUS
  <2>1. Level(s, m + k) = Level(s, m) /\ m + k \in Nat /\ (m + k) + 1 = m + (k + 1) /\ k + 1 \in 1..n
    OBVIOUS
  <2>2. /\ Level(s, m + k) \in Int
        /\ Level(s, (m + k) + 1) = Level(s, m + k) + Delta(s[(m + k) + 1])
    BY <2>1, LevelNext
  <2>3. Delta(s[m + (k + 1)]) = 0
    BY <2>1 DEF Delta
  <2> HIDE DEF S
  <2> QED BY <2>1, <2>2, <2>3
<1>3. n \in S
  <2> HIDE DEF S
  <2> QED BY <1>1, <1>2, Induct
<1> QED BY <1>3

(* What is left of a list where the level is 0 is a list. *)
LEMMA TidyDrop ==
  ASSUME NEW s, Tidy(s), NEW m \in 0..Len(s), Level(s, m) = 0
  PROVE  Tidy(Drop(s, m))
<1> DEFINE d == Drop(s, m)
<1>1. s \in Seq(Chars) /\ Len(s) \in Nat /\ Level(s, Len(s)) = 0 /\ \A n \in 1..Len(s) : Level(s, n) >= 0
  BY DEF Tidy, Scripts, Balanced
<1>2. d \in Seq(Chars) /\ Len(d) = Len(s) - m
  BY <1>1, DropFacts
<1>3. \A n \in 0..(Len(s) - m) : Level(d, n) = Level(s, m + n) - Level(s, m)
  BY <1>1, LevelDrop
<1> HIDE DEF d
<1>4. \A n \in 0..(Len(s) - m) : Level(d, n) = Level(s, m + n)
  <2> TAKE n \in 0..(Len(s) - m)
  <2>1. m + n \in Nat
    OBVIOUS
  <2>2. Level(s, m + n) \in Int
    BY <2>1, LevelNext
  <2> QED BY <1>3, <2>2
<1>5. Level(d, Len(d)) = 0 /\ \A n \in 1..Len(d) : Level(d, n) >= 0
  <2>1. m + (Len(s) - m) = Len(s) /\ Len(s) - m \in 0..(Len(s) - m)
    BY <1>1
  <2>2. \A n \in 1..(Len(s) - m) : n \in 0..(Len(s) - m) /\ m + n \in 1..Len(s)
    BY <1>1
  <2> QED BY <1>1, <1>2, <1>4, <2>1, <2>2
<1>6. DOMAIN d = 1..Len(d)
  BY <1>2
<1> QED BY <1>2, <1>5, <1>6 DEF Tidy, Scripts, Balanced, d

Word(s) == IF s[1] = LBRACE THEN SubSeq(s, 2, ElementEnd(s) - 2) ELSE SubSeq(s, 1, ElementEnd(s) - 1)

(* How much of a text the first element takes, with the blanks after it.   *)
Taken(s) == ElementEnd(s) - 1 + Skip(Drop(s, ElementEnd(s) - 1), {SP})

(* What a step of foreach takes from a list. *)
LEMMA TakenFacts ==
  ASSUME NEW s, Tidy(s), s # <<>>
  PROVE  /\ Taken(s) \in 1..Len(s) /\ Level(s, Taken(s)) = 0
         /\ Drop(s, Taken(s)) = LET r == Drop(s, ElementEnd(s) - 1) IN Drop(r, Skip(r, {SP}))
         /\ Tidy(Drop(s, Taken(s)))
<1> DEFINE e == ElementEnd(s)
           r == Drop(s, e - 1)
           n == Skip(r, {SP})
<1>1. s \in Seq(Chars) /\ Len(s) \in Nat /\ Len(s) > 0
  BY DEF Tidy, Scripts
<1>2. EndSpec(s, e)
  BY EndExists
<1>3. e \in 1..(Len(s) + 1) /\ Level(s, e - 1) = 0 /\ (e = Len(s) + 1 \/ s[e] = SP)
      /\ e - 1 \in 0..Len(s) /\ e - 1 \in Nat
  BY <1>1, <1>2 DEF EndSpec
<1> HIDE DEF e
<1>4. r \in Seq(Chars) /\ Len(r) = Len(s) - (e - 1)
      /\ \A k \in 1..(Len(s) - (e - 1)) : r[k] = s[(e - 1) + k]
  BY <1>1, <1>3, DropFacts
<1> HIDE DEF r
<1>5. n \in 0..Len(r) /\ (\A k \in 1..n : r[k] \in {SP}) /\ (n = Len(r) \/ r[n + 1] \notin {SP})
  BY <1>4, SkipIs DEF SkipSpec
<1> HIDE DEF n
<1>6. e - 1 + n \in 1..Len(s) /\ n \in 0..(Len(s) - (e - 1)) /\ n \in Nat
  <2>1. n \in 0..(Len(s) - (e - 1))
    BY <1>4, <1>5
  <2>2. CASE e = 1
    <3>1. s[1] = SP /\ Len(r) = Len(s) /\ 1 \in 1..(Len(s) - (e - 1)) /\ (e - 1) + 1 = 1
      BY <1>1, <1>3, <1>4, <2>2
    <3>2. r[1] = SP
      BY <1>4, <3>1
    <3>3. n # 0
      <4>1. n = 0 => r[n + 1] = r[1] /\ Len(r) # 0
        BY <1>1, <3>1
      <4> QED BY <1>5, <3>2, <4>1
    <3> QED BY <1>1, <2>1, <2>2, <3>3
  <2>3. CASE e # 1
    BY <1>1, <1>3, <2>1, <2>3
  <2> QED BY <2>1, <2>2, <2>3
<1>7. Level(s, (e - 1) + n) = Level(s, e - 1)
  <2>1. ASSUME NEW k \in 1..n PROVE s[(e - 1) + k] # LBRACE /\ s[(e - 1) + k] # RBRACE
    <3>1. k \in 1..(Len(s) - (e - 1)) /\ r[k] = SP
      BY <1>1, <1>3, <1>5, <1>6
    <3>2. s[(e - 1) + k] = SP
      BY <1>4, <3>1
    <3>3. SP # LBRACE /\ SP # RBRACE
      BY Characters, Zenon
    <3> QED BY <3>2, <3>3
  <2> QED BY <1>3, <1>6, <2>1, LevelFlat
<1>8. Drop(r, n) = Drop(s, (e - 1) + n)
  BY <1>1, <1>3, <1>6, DropDrop DEF r
<1>9. Taken(s) = (e - 1) + n
  BY DEF Taken, e, r, n
<1>10. Tidy(Drop(s, (e - 1) + n))
  <2> DEFINE m == (e - 1) + n
  <2>1. m \in 0..Len(s) /\ Level(s, m) = 0
    BY <1>1, <1>3, <1>6, <1>7
  <2> HIDE DEF m
  <2>2. Tidy(Drop(s, m))
    BY <2>1, TidyDrop
  <2> QED BY <2>2 DEF m
<1> QED BY <1>3, <1>6, <1>7, <1>8, <1>9, <1>10 DEF e, r, n

(* A step visits the first element. *)
LEMMA NextIs ==
  ASSUME NEW s, Tidy(s), s # <<>>, NEW b, NEW v
  PROVE  NextElement(Visiting(s, b, v)) = Visiting(Drop(s, Taken(s)), Word(s), Append(v, Word(s)))
<1> DEFINE f == Visiting(s, b, v)
           e == ElementEnd(s)
<1>1. s \in Seq(Chars) /\ Len(s) \in Nat /\ Len(s) > 0 /\ At(s, 1) = s[1] /\ s[1] \in Chars
  BY DEF Tidy, Scripts, At
<1>2. s[1] # QUOTE
  BY <1>1, Characters
<1>3. e # 0
  <2>1. EndSpec(s, e)
    BY EndExists
  <2> QED BY <1>1, <2>1 DEF EndSpec
<1>4. f.text = s /\ f.buf = b /\ f.visited = v
  BY DEF Visiting
<1> HIDE DEF f, e
<1>5. (CASE At(s, 1) = LBRACE  -> SubSeq(s, 2, e - 2)
         [] At(s, 1) = QUOTE -> SubSeq(s, 2, e - 1)
         [] OTHER           -> SubSeq(s, 1, e - 1)) = Word(s)
  BY <1>1, <1>2, Zenon DEF Word, e
<1>6. (IF At(s, 1) = QUOTE THEN e ELSE e - 1) = e - 1
  BY <1>1, <1>2
<1>7. NextElement(f) =
        LET rest == Drop(s, e - 1)
        IN [text |-> Drop(rest, Skip(rest, {SP})), buf |-> Word(s), visited |-> Append(v, Word(s))]
  BY <1>3, <1>4, <1>5, <1>6, Zenon DEF NextElement, e
<1>8. Drop(s, Taken(s)) = LET rest == Drop(s, e - 1) IN Drop(rest, Skip(rest, {SP}))
  BY TakenFacts DEF e
<1> QED BY <1>7, <1>8, Zenon DEF Visiting, f

(* The elements are the first one and those of what is left.               *)
LEMMA NextEmpty ==
  ASSUME NEW b, NEW v
  PROVE  NextElement(Visiting(<<>>, b, v)) = Visiting(<<>>, b, v)
<1> DEFINE f == Visiting(<<>>, b, v)
<1>1. f.text = <<>>
  BY DEF Visiting
<1> HIDE DEF f
<1>2. NextElement(f) = f
  BY <1>1, Zenon DEF NextElement
<1> QED BY <1>2 DEF f

(* An element is a text. *)
LEMMA WordType ==
  ASSUME NEW s, Tidy(s), s # <<>>
  PROVE  Word(s) \in Scripts
<1>1. s \in Seq(Chars) /\ Len(s) \in Nat
  BY DEF Tidy, Scripts
<1>2. ElementEnd(s) \in 1..(Len(s) + 1)
  BY EndExists DEF EndSpec
<1>3. ElementEnd(s) - 2 <= Len(s) /\ ElementEnd(s) - 1 <= Len(s)
  BY <1>1, <1>2
<1>4. \A m, n \in Int : m >= 1 /\ n <= Len(s) => SubSeq(s, m, n) \in Seq(Chars)
  BY <1>1
<1> QED BY <1>2, <1>3, <1>4 DEF Word, Scripts

(* At the end of the list no step does anything. *)
LEMMA ForeachEmpty ==
  ASSUME NEW b, NEW v, NEW n \in Nat
  PROVE  Foreach(Visiting(<<>>, b, v), n) = Visiting(<<>>, b, v)
<1> DEFINE f == Visiting(<<>>, b, v)
           S == {k \in Nat : Foreach(f, k) = f}
<1>1. NextElement(f) = f
  BY NextEmpty
<1> HIDE DEF f
<1>2. 0 \in S
  BY ForeachFirst
<1>3. \A k \in Nat : k \in S => k + 1 \in S
  <2> SUFFICES ASSUME NEW k \in Nat, Foreach(f, k) = f PROVE Foreach(f, k + 1) = f
    OBVIOUS
  <2>1. Foreach(f, k + 1) = Foreach(NextElement(f), k)
    BY ForeachFirst
  <2> QED BY <1>1, <2>1
<1>4. n \in S
  <2> HIDE DEF S
  <2> QED BY <1>2, <1>3, Induct
<1> QED BY <1>4 DEF f

(* What was visited. *)
LEMMA VisitedIs == ASSUME NEW s, NEW b, NEW v PROVE Visiting(s, b, v).visited = v
BY DEF Visiting

None == <<>>

(* Nothing, of any kind. *)
LEMMA NoneIs == None = <<>> /\ Len(None) = 0 /\ \A S : None \in Seq(S)
BY DEF None

(* The elements are what foreach visits. *)
LEMMA ElementsVisited == ASSUME NEW s PROVE Elements(s) = Foreach(Visiting(s, None, None), Len(s)).visited
BY Zenon DEF Elements, Visiting, None

(* An element goes before those that follow. *)
LEMMA PutBefore ==
  ASSUME NEW S, NEW v \in Seq(S), NEW w \in S, NEW es \in Seq(S)
  PROVE  Cat(Append(v, w), es) = Cat(v, Cat(<<w>>, es))
<1> DEFINE one == <<w>>
<1>1. one \in Seq(S)
  OBVIOUS
<1>2. Append(v, w) = Cat(v, one)
  BY AppendIsConcat DEF Cat
<1> HIDE DEF one
<1>3. Cat(Cat(v, one), es) = Cat(v, Cat(one, es))
  BY <1>1, CatAssociative
<1> QED BY <1>2, <1>3 DEF one

(* The steps visit the elements, whatever was visited before. *)
LEMMA ForeachFrom ==
  ASSUME NEW N \in Nat
  PROVE  \A s, b : \A v \in Seq(Scripts), n \in Nat : Tidy(s) /\ Len(s) <= N /\ Len(s) <= n =>
           /\ Foreach(Visiting(s, b, v), n).visited = Cat(v, Elements(s))
           /\ Elements(s) \in Seq(Scripts)
           /\ (s # <<>> => Elements(s) = Cat(<<Word(s)>>, Elements(Drop(s, Taken(s)))))
<1> DEFINE Good1(s, b, v, n) ==
             /\ Foreach(Visiting(s, b, v), n).visited = Cat(v, Elements(s))
             /\ Elements(s) \in Seq(Scripts)
             /\ (s # <<>> => Elements(s) = Cat(<<Word(s)>>, Elements(Drop(s, Taken(s)))))
           Upto(m) == \A s, b : \A v \in Seq(Scripts), n \in Nat :
                        Tidy(s) /\ Len(s) <= m /\ Len(s) <= n => Good1(s, b, v, n)
           S == {m \in Nat : Upto(m)}
<1>0. None \in Seq(Scripts) /\ <<>> \in Seq(Scripts)
  BY NoneIs
<1>1. \A b : \A v \in Seq(Scripts), n \in Nat : Good1(<<>>, b, v, n)
  <2> TAKE b
  <2> TAKE v \in Seq(Scripts), n \in Nat
  <2>1. Elements(<<>>) = <<>>
    <3>1. Foreach(Visiting(<<>>, None, None), 0) = Visiting(<<>>, None, None)
      BY ForeachFirst
    <3>2. Len(<<>>) = 0
      OBVIOUS
    <3> QED BY <3>1, <3>2, VisitedIs, ElementsVisited, NoneIs
  <2>2. Foreach(Visiting(<<>>, b, v), n).visited = v
    BY ForeachEmpty, VisitedIs
  <2>3. Cat(v, <<>>) = v
    BY ConcatEmptySeq DEF Cat
  <2> QED BY <1>0, <2>1, <2>2, <2>3
<1>2. \A s : Tidy(s) => Len(s) \in Nat /\ (Len(s) = 0 => s = <<>>)
  BY DEF Tidy, Scripts
<1>3. 0 \in S
  <2> SUFFICES ASSUME NEW s, NEW b, NEW v \in Seq(Scripts), NEW n \in Nat, Tidy(s), Len(s) <= 0
               PROVE  Good1(s, b, v, n)
    OBVIOUS
  <2>1. s = <<>>
    BY <1>2
  <2> HIDE DEF Good1
  <2> QED BY <1>1, <2>1
<1>4. \A m \in Nat : m \in S => m + 1 \in S
  <2> SUFFICES ASSUME NEW m \in Nat, m \in S PROVE m + 1 \in S
    OBVIOUS
  <2>0. Upto(m)
    OBVIOUS
  <2> HIDE DEF Good1
  <2>9. Upto(m + 1) => m + 1 \in S
    OBVIOUS
  <2> HIDE DEF S
  <2> SUFFICES ASSUME NEW s, NEW b, NEW v \in Seq(Scripts), NEW n \in Nat, Tidy(s),
                      Len(s) <= m + 1, Len(s) <= n
               PROVE  Good1(s, b, v, n)
    BY <2>9
  <2> USE DEF Good1
  <2>1. CASE s = <<>>
    <3> HIDE DEF Good1
    <3> QED BY <1>1, <2>1
  <2>2. CASE s # <<>>
    <3> DEFINE d == Drop(s, Taken(s))
               w == Word(s)
    <3>1. Tidy(d) /\ w \in Scripts /\ Len(d) \in Nat /\ Len(s) \in Nat /\ Len(d) < Len(s)
      <4>1. Tidy(d) /\ Taken(s) \in 1..Len(s)
        BY <2>2, TakenFacts
      <4>2. s \in Seq(Chars) /\ Len(s) \in Nat /\ Taken(s) \in 0..Len(s)
        BY <4>1 DEF Tidy, Scripts
      <4>3. Len(d) = Len(s) - Taken(s)
        BY <4>2, DropFacts
      <4> QED BY <2>2, <4>1, <4>2, <4>3, WordType
    <3>2. \A c, u : NextElement(Visiting(s, c, u)) = Visiting(d, w, Append(u, w))
      BY <2>2, NextIs
    <3> HIDE DEF d, w
    <3>3. \A u \in Seq(Scripts), k \in Nat : Len(s) <= k + 1 => Good1(d, w, Append(u, w), k)
      <4> TAKE u \in Seq(Scripts), k \in Nat
      <4> HAVE Len(s) <= k + 1
      <4>1. Append(u, w) \in Seq(Scripts) /\ Len(d) <= m /\ Len(d) <= k
        BY <3>1
      <4> HIDE DEF Good1
      <4> QED BY <2>0, <3>1, <4>1
    <3>4. ASSUME NEW c, NEW u \in Seq(Scripts), NEW k \in Nat, Len(s) <= k
          PROVE  Foreach(Visiting(s, c, u), k).visited = Cat(Append(u, w), Elements(d))
      <4>1. k - 1 \in Nat /\ (k - 1) + 1 = k /\ Len(s) <= (k - 1) + 1
        BY <3>1, <3>4
      <4>2. Foreach(Visiting(s, c, u), (k - 1) + 1) = Foreach(NextElement(Visiting(s, c, u)), k - 1)
        BY <4>1, ForeachFirst
      <4>3. Good1(d, w, Append(u, w), k - 1)
        <5> HIDE DEF Good1
        <5> QED BY <3>3, <4>1
      <4> QED BY <3>2, <4>1, <4>2, <4>3
    <3>5. Elements(d) \in Seq(Scripts)
      <4>1. Good1(d, w, Append(None, w), Len(s))
        <5> HIDE DEF Good1
        <5> QED BY <1>0, <3>1, <3>3
      <4> QED BY <4>1
    <3>6. Cat(Append(None, w), Elements(d)) = Cat(<<w>>, Elements(d))
      <4>1. Append(None, w) = <<w>>
        BY <3>1, NoneIs
      <4> QED BY <4>1
    <3>7. Elements(s) = Cat(<<w>>, Elements(d))
      <4>1. Foreach(Visiting(s, None, None), Len(s)).visited = Cat(Append(None, w), Elements(d))
        BY <1>0, <3>1, <3>4
      <4> QED BY <3>6, <4>1, ElementsVisited
    <3>8. Elements(s) \in Seq(Scripts)
      <4>1. Cat(<<w>>, Elements(d)) \in Seq(Scripts)
        BY <3>1, <3>5 DEF Cat
      <4> QED BY <3>7, <4>1
    <3>9. Foreach(Visiting(s, b, v), n).visited = Cat(v, Elements(s))
      <4>1. Foreach(Visiting(s, b, v), n).visited = Cat(Append(v, w), Elements(d))
        BY <3>4
      <4>2. Cat(Append(v, w), Elements(d)) = Cat(v, Cat(<<w>>, Elements(d)))
        BY <3>1, <3>5, PutBefore
      <4> QED BY <3>7, <4>1, <4>2
    <3> QED BY <3>7, <3>8, <3>9 DEF d, w
  <2> QED BY <2>1, <2>2
<1>5. N \in S
  <2> HIDE DEF S
  <2> QED BY <1>3, <1>4, Induct
<1> QED BY <1>5, Zenon

(* The elements are the first and those of the rest. *)
LEMMA ElementsAre ==
  ASSUME NEW s, Tidy(s)
  PROVE  /\ Elements(s) \in Seq(Scripts)
         /\ (s # <<>> => Elements(s) = Cat(<<Word(s)>>, Elements(Drop(s, Taken(s)))))
<1> DEFINE none == <<>>
           n == Len(s)
<1>1. n \in Nat /\ n <= n /\ none \in Seq(Scripts)
  BY DEF Tidy, Scripts
<1>2. \A t, b : \A v \in Seq(Scripts), m \in Nat : Tidy(t) /\ Len(t) <= n /\ Len(t) <= m =>
           /\ Foreach(Visiting(t, b, v), m).visited = Cat(v, Elements(t))
           /\ Elements(t) \in Seq(Scripts)
           /\ (t # <<>> => Elements(t) = Cat(<<Word(t)>>, Elements(Drop(t, Taken(t)))))
  BY <1>1, ForeachFrom
<1> HIDE DEF none
<1>3. Len(s) <= n
  BY <1>1
<1> QED BY <1>1, <1>2, <1>3, Zenon

(* The empty list has none. *)
LEMMA ElementsEmpty == Elements(<<>>) = <<>>
<1>1. Foreach(Visiting(<<>>, None, None), 0) = Visiting(<<>>, None, None)
  BY ForeachFirst
<1>2. Len(<<>>) = 0
  OBVIOUS
<1> QED BY <1>1, <1>2, VisitedIs, ElementsVisited, NoneIs

-----------------------------------------------------------------------------
(* What LAPPEND puts into a list for a word. *)
Wrapped(w) == (<<LBRACE>> \o w) \o <<RBRACE>>
Item(w) == IF Braced(w) THEN Wrapped(w) ELSE w
Gap == <<SP>>

Kept(w) == w \in Scripts /\ Storable(w)

(* Scripts have blanks and braces. *)
LEMMA CharsHave ==
  /\ SP \in Chars /\ LBRACE \in Chars /\ RBRACE \in Chars
  /\ Gap \in Scripts /\ Len(Gap) = 1 /\ Gap[1] = SP /\ Gap # <<>>
<1>1. SP \in Chars /\ LBRACE \in Chars /\ RBRACE \in Chars
  BY CharsAssumption
<1> QED BY <1>1 DEF Gap, Scripts

(* c is a with b after it. *)
Joined(S, a, b, c) == /\ c \in Seq(S) /\ Len(c) = Len(a) + Len(b)
                      /\ \A k \in 1..Len(a) : c[k] = a[k]
                      /\ \A k \in 1..Len(b) : c[Len(a) + k] = b[k]

(* Two sequences joined. *)
LEMMA CatFacts ==
  ASSUME NEW S, NEW a \in Seq(S), NEW b \in Seq(S)
  PROVE  Joined(S, a, b, Cat(a, b))
<1> DEFINE c == a \o b
<1>1. c \in Seq(S) /\ Len(c) = Len(a) + Len(b)
      /\ \A k \in 1..(Len(a) + Len(b)) : c[k] = IF k <= Len(a) THEN a[k] ELSE b[k - Len(a)]
  BY ConcatProperties
<1>2. Cat(a, b) = c
  BY DEF Cat
<1> HIDE DEF c
<1>3. Len(a) \in Nat /\ Len(b) \in Nat
  OBVIOUS
<1>4. ASSUME NEW k \in 1..Len(a) PROVE c[k] = a[k]
  <2>1. k \in 1..(Len(a) + Len(b)) /\ k <= Len(a)
    BY <1>3
  <2> QED BY <1>1, <2>1
<1>5. ASSUME NEW k \in 1..Len(b) PROVE c[Len(a) + k] = b[k]
  <2>1. Len(a) + k \in 1..(Len(a) + Len(b)) /\ ~(Len(a) + k <= Len(a)) /\ (Len(a) + k) - Len(a) = k
    BY <1>3
  <2> QED BY <1>1, <2>1
<1> QED BY <1>1, <1>2, <1>4, <1>5 DEF Joined

(* A word in braces. *)
LEMMA WrappedFacts ==
  ASSUME NEW w \in Scripts
  PROVE  /\ Wrapped(w) \in Scripts /\ Len(Wrapped(w)) = Len(w) + 2
         /\ Wrapped(w)[1] = LBRACE /\ Wrapped(w)[Len(w) + 2] = RBRACE
         /\ \A k \in 1..Len(w) : Wrapped(w)[k + 1] = w[k]
<1> DEFINE o == <<LBRACE>>
           c == <<RBRACE>>
           ow == Cat(o, w)
<1>1. o \in Seq(Chars) /\ c \in Seq(Chars) /\ Len(o) = 1 /\ Len(c) = 1 /\ o[1] = LBRACE /\ c[1] = RBRACE
  BY CharsHave
<1>2. Wrapped(w) = Cat(ow, c)
  BY Zenon DEF Wrapped, Cat
<1> HIDE DEF o, c
<1>3. w \in Seq(Chars) /\ Len(w) \in Nat
  BY DEF Scripts
<1>4. Joined(Chars, o, w, ow)
  BY <1>1, <1>3, CatFacts
<1> HIDE DEF ow
<1>5. Joined(Chars, ow, c, Cat(ow, c))
  <2>1. ow \in Seq(Chars)
    BY <1>4 DEF Joined
  <2> QED BY <1>1, <2>1, CatFacts
<1> USE DEF Joined
<1>6. Len(ow) = Len(w) + 1 /\ 1 \in 1..Len(o) /\ 1 \in 1..Len(c) /\ 1 \in 1..Len(ow)
      /\ (Len(w) + 1) + 1 = Len(w) + 2
  BY <1>1, <1>3, <1>4
<1>7. Wrapped(w)[1] = LBRACE
  BY <1>1, <1>2, <1>4, <1>5, <1>6
<1>8. Wrapped(w)[Len(w) + 2] = RBRACE
  BY <1>1, <1>2, <1>5, <1>6
<1>9. ASSUME NEW k \in 1..Len(w) PROVE Wrapped(w)[k + 1] = w[k]
  <2>1. k + 1 \in 1..Len(ow) /\ Len(o) + k = k + 1
    BY <1>1, <1>3, <1>6
  <2>2. Wrapped(w)[k + 1] = ow[k + 1]
    BY <1>2, <1>5, <2>1
  <2>3. ow[Len(o) + k] = w[k]
    BY <1>4
  <2> QED BY <2>1, <2>2, <2>3
<1>10. Len(Wrapped(w)) = Len(w) + 2
  BY <1>1, <1>2, <1>3, <1>5, <1>6
<1> QED BY <1>2, <1>5, <1>7, <1>8, <1>9, <1>10 DEF Scripts

(* A balanced word in braces is open until the last brace. *)
LEMMA WrappedLevel ==
  ASSUME NEW w \in Scripts, Balanced(w)
  PROVE  /\ \A k \in 0..Len(w) : Level(Wrapped(w), k + 1) > 0
         /\ Level(Wrapped(w), Len(w) + 2) = 0
<1> DEFINE t == Wrapped(w)
           d == Drop(t, 1)
<1>1. /\ t \in Seq(Chars) /\ Len(t) = Len(w) + 2 /\ t[1] = LBRACE /\ t[Len(w) + 2] = RBRACE
      /\ \A k \in 1..Len(w) : t[k + 1] = w[k]
  BY WrappedFacts DEF Scripts
<1>2. Len(w) \in Nat /\ Level(w, Len(w)) = 0 /\ \A n \in 1..Len(w) : Level(w, n) >= 0
  BY DEF Balanced, Scripts
<1> HIDE DEF t
<1>3. 1 \in 0..Len(t) /\ Len(t) - 1 = Len(w) + 1
  BY <1>1, <1>2
<1>4. d \in Seq(Chars) /\ Len(d) = Len(w) + 1 /\ \A k \in 1..(Len(w) + 1) : d[k] = t[1 + k]
  <2>1. d \in Seq(Chars) /\ Len(d) = Len(t) - 1 /\ \A k \in 1..(Len(t) - 1) : d[k] = t[1 + k]
    BY <1>1, <1>3, DropFacts, Zenon
  <2> QED BY <1>3, <2>1, Zenon
<1>5. \A n \in 0..(Len(w) + 1) : Level(d, n) = Level(t, 1 + n) - Level(t, 1)
  BY <1>1, <1>3, LevelDrop
<1> HIDE DEF d
<1>6. Level(t, 0) = 0 /\ Level(t, 0 + 1) = Level(t, 0) + Delta(t[0 + 1])
  BY LevelNext
<1>7. Level(t, 1) = 1
  BY <1>1, <1>6 DEF Delta
<1>8. ASSUME NEW k \in 0..Len(w) PROVE Level(t, k + 1) = 1 + Level(w, k) /\ Level(w, k) >= 0
  <2>1. k \in Nat /\ k \in 0..(Len(w) + 1) /\ 1 + k = k + 1
    BY <1>2
  <2>2. \A j \in 1..k : d[j] = w[j]
    <3> TAKE j \in 1..k
    <3>1. j \in 1..(Len(w) + 1) /\ j \in 1..Len(w) /\ 1 + j = j + 1
      BY <1>2
    <3> QED BY <1>1, <1>4, <3>1
  <2>3. Level(d, k) = Level(w, k)
    BY <2>1, <2>2, LevelSame
  <2>4. Level(d, k) = Level(t, 1 + k) - Level(t, 1)
    BY <1>5, <2>1
  <2>5. Level(t, k + 1) \in Int /\ Level(w, k) \in Int
    <3>1. k + 1 \in Nat
      BY <2>1
    <3> QED BY <2>1, <3>1, LevelNext
  <2>6. Level(w, k) >= 0
    <3>1. CASE k = 0
      BY <3>1, LevelNext
    <3>2. CASE k # 0
      BY <1>2, <3>2
    <3> QED BY <3>1, <3>2
  <2> QED BY <1>7, <2>1, <2>3, <2>4, <2>5, <2>6
<1>9. Level(t, Len(w) + 2) = 0
  <2>1. Len(w) + 1 \in Nat /\ (Len(w) + 1) + 1 = Len(w) + 2 /\ Len(w) \in 0..Len(w)
    BY <1>2
  <2>2. Level(t, (Len(w) + 1) + 1) = Level(t, Len(w) + 1) + Delta(t[(Len(w) + 1) + 1])
    BY <2>1, LevelNext
  <2>3. Level(t, Len(w) + 1) = 1
    BY <1>2, <1>8, <2>1
  <2>4. Delta(RBRACE) = -1
    BY Characters DEF Delta
  <2> QED BY <1>1, <2>1, <2>2, <2>3, <2>4
<1>10. \A k \in 0..Len(w) : Level(t, k + 1) > 0
  <2> TAKE k \in 0..Len(w)
  <2>1. Level(w, k) \in Int
    BY LevelNext
  <2> QED BY <1>8, <2>1
<1> QED BY <1>9, <1>10 DEF t

(* A word without braces open has none that closes. *)
LEMMA NoBraces ==
  ASSUME NEW w \in Scripts, Balanced(w), \A k \in 1..Len(w) : w[k] # LBRACE
  PROVE  \A k \in 0..Len(w) : Level(w, k) = 0 /\ (k > 0 => w[k] # RBRACE)
<1>1. Len(w) \in Nat /\ \A n \in 1..Len(w) : Level(w, n) >= 0
  BY DEF Balanced, Scripts
<1> DEFINE S == {k \in Nat : k <= Len(w) => Level(w, k) = 0 /\ (k > 0 => w[k] # RBRACE)}
<1>2. 0 \in S
  BY LevelNext
<1>3. \A k \in Nat : k \in S => k + 1 \in S
  <2> SUFFICES ASSUME NEW k \in Nat, k \in S, k + 1 <= Len(w)
               PROVE  Level(w, k + 1) = 0 /\ w[k + 1] # RBRACE
    OBVIOUS
  <2>1. Level(w, k) = 0 /\ k + 1 \in 1..Len(w)
    BY <1>1
  <2>2. Level(w, k + 1) = Level(w, k) + Delta(w[k + 1])
    BY LevelNext
  <2>3. w[k + 1] # LBRACE /\ Level(w, k + 1) >= 0
    BY <1>1, <2>1
  <2>4. Delta(w[k + 1]) = IF w[k + 1] = RBRACE THEN -1 ELSE 0
    BY <2>3 DEF Delta
  <2> HIDE DEF S
  <2> QED BY <2>1, <2>2, <2>3, <2>4
<1>4. \A k \in Nat : k \in S
  <2> HIDE DEF S
  <2> QED BY <1>2, <1>3, Induct
<1> QED BY <1>1, <1>4

(* Without the first of two sequences the second is left. *)
LEMMA DropJoined ==
  ASSUME NEW S, NEW a \in Seq(S), NEW b \in Seq(S)
  PROVE  Drop(Cat(a, b), Len(a)) = b
<1> DEFINE c == Cat(a, b)
           d == Drop(c, Len(a))
<1>1. Joined(S, a, b, c)
  BY CatFacts
<1> HIDE DEF c
<1>2. c \in Seq(S) /\ Len(c) = Len(a) + Len(b) /\ Len(a) \in 0..Len(c) /\ Len(c) - Len(a) = Len(b)
      /\ \A k \in 1..Len(b) : c[Len(a) + k] = b[k]
  BY <1>1 DEF Joined
<1>3. d \in Seq(S) /\ Len(d) = Len(c) - Len(a) /\ \A k \in 1..(Len(c) - Len(a)) : d[k] = c[Len(a) + k]
  BY <1>2, DropFacts, Zenon
<1> HIDE DEF d
<1>4. d = b
  BY <1>2, <1>3, SeqEqual
<1> QED BY <1>4 DEF c, d

(* The levels of a joined text. *)
LEMMA LevelConcat ==
  ASSUME NEW a \in Scripts, NEW b \in Scripts
  PROVE  /\ \A n \in 0..Len(a) : Level(Cat(a, b), n) = Level(a, n)
         /\ \A n \in 0..Len(b) : Level(Cat(a, b), Len(a) + n) = Level(a, Len(a)) + Level(b, n)
<1> DEFINE c == Cat(a, b)
<1>1. Joined(Chars, a, b, c)
  BY CatFacts DEF Scripts
<1>2. Drop(c, Len(a)) = b
  BY DropJoined DEF Scripts
<1> HIDE DEF c
<1>3. c \in Seq(Chars) /\ Len(a) \in 0..Len(c) /\ Len(c) - Len(a) = Len(b) /\ Len(a) \in Nat
      /\ \A k \in 1..Len(a) : c[k] = a[k]
  BY <1>1 DEF Joined, Scripts
<1>4. ASSUME NEW n \in 0..Len(a) PROVE Level(c, n) = Level(a, n)
  <2>1. n \in Nat /\ \A k \in 1..n : c[k] = a[k]
    BY <1>3
  <2> QED BY <2>1, LevelSame
<1>5. \A n \in 0..(Len(c) - Len(a)) : Level(Drop(c, Len(a)), n) = Level(c, Len(a) + n) - Level(c, Len(a))
  BY <1>3, LevelDrop, Zenon
<1>6. ASSUME NEW n \in 0..Len(b) PROVE Level(c, Len(a) + n) = Level(a, Len(a)) + Level(b, n)
  <2>1. Level(b, n) = Level(c, Len(a) + n) - Level(c, Len(a))
    BY <1>2, <1>3, <1>5
  <2>2. Level(c, Len(a)) = Level(a, Len(a)) /\ Len(a) + n \in Nat
    BY <1>3, <1>4
  <2>3. Level(c, Len(a) + n) \in Int /\ Level(a, Len(a)) \in Int
    BY <1>3, <2>2, LevelNext
  <2> QED BY <2>1, <2>2, <2>3
<1> QED BY <1>4, <1>6 DEF c

(* Two lists joined are a list. *)
LEMMA TidyConcat ==
  ASSUME NEW a, Tidy(a), NEW b, Tidy(b)
  PROVE  Tidy(Cat(a, b))
<1> DEFINE c == Cat(a, b)
<1>1. a \in Scripts /\ b \in Scripts /\ Len(a) \in Nat /\ Len(b) \in Nat
  BY DEF Tidy, Scripts
<1>2. Level(a, Len(a)) = 0 /\ \A n \in 1..Len(a) : Level(a, n) >= 0
  BY <1>1 DEF Tidy, Balanced, Scripts
<1>3. Level(b, Len(b)) = 0 /\ \A n \in 1..Len(b) : Level(b, n) >= 0
  BY <1>1 DEF Tidy, Balanced, Scripts
<1>4. Joined(Chars, a, b, c)
  BY <1>1, CatFacts DEF Scripts
<1>5. /\ \A n \in 0..Len(a) : Level(c, n) = Level(a, n)
      /\ \A n \in 0..Len(b) : Level(c, Len(a) + n) = Level(a, Len(a)) + Level(b, n)
  BY <1>1, LevelConcat, Zenon
<1> HIDE DEF c
<1>6. c \in Scripts /\ Len(c) = Len(a) + Len(b) /\ DOMAIN c = 1..(Len(a) + Len(b))
  BY <1>4 DEF Joined, Scripts
<1>7. Level(c, Len(c)) = 0
  <2>1. Len(b) \in 0..Len(b)
    BY <1>1
  <2> QED BY <1>2, <1>3, <1>5, <1>6, <2>1
<1>8. ASSUME NEW n \in DOMAIN c PROVE Level(c, n) >= 0
  <2>1. CASE n <= Len(a)
    <3>1. n \in 0..Len(a) /\ n \in 1..Len(a)
      BY <1>1, <1>6, <2>1
    <3>2. Level(c, n) = Level(a, n)
      BY <1>5, <3>1
    <3> QED BY <1>2, <3>1, <3>2
  <2>2. CASE ~(n <= Len(a))
    <3>1. n - Len(a) \in 1..Len(b) /\ n - Len(a) \in 0..Len(b) /\ Len(a) + (n - Len(a)) = n
      BY <1>1, <1>6, <2>2
    <3>2. Level(c, Len(a) + (n - Len(a))) = Level(a, Len(a)) + Level(b, n - Len(a))
      BY <1>5, <3>1
    <3>3. Level(b, n - Len(a)) >= 0 /\ Level(b, n - Len(a)) \in Int
      <4>1. n - Len(a) \in Nat
        BY <3>1
      <4> QED BY <1>3, <3>1, <4>1, LevelNext
    <3> QED BY <1>2, <3>1, <3>2, <3>3
  <2> QED BY <2>1, <2>2
<1> QED BY <1>6, <1>7, <1>8 DEF Tidy, Balanced, c

(* What a word becomes in a list has its braces in pairs, does not begin   *)
(* with a blank and has none outside them.                                 *)
LEMMA ItemFacts ==
  ASSUME NEW w, Kept(w)
  PROVE  /\ Tidy(Item(w)) /\ Len(Item(w)) \in Nat \ {0}
         /\ Item(w)[1] # SP /\ (Item(w)[1] = LBRACE <=> Braced(w))
         /\ \A k \in 1..Len(Item(w)) : ~(Level(Item(w), k - 1) = 0 /\ Item(w)[k] = SP)
<1>1. w \in Scripts /\ Balanced(w) /\ Len(w) \in Nat /\ DOMAIN w = 1..Len(w)
      /\ \A k \in 1..Len(w) : w[k] = LBRACE => Braced(w)
  BY DEF Kept, Storable, Scripts
<1>2. CASE Braced(w)
  <2> DEFINE t == Wrapped(w)
  <2>1. /\ t \in Scripts /\ Len(t) = Len(w) + 2
         /\ t[1] = LBRACE /\ t[Len(w) + 2] = RBRACE
    BY <1>1, WrappedFacts
  <2>2. (\A k \in 0..Len(w) : Level(t, k + 1) > 0) /\ Level(t, Len(w) + 2) = 0
    BY <1>1, WrappedLevel
  <2>3. Item(w) = t
    BY <1>2 DEF Item
  <2> HIDE DEF t
  <2>4. DOMAIN t = 1..(Len(w) + 2)
    BY <1>1, <2>1 DEF Scripts
  <2>5. ASSUME NEW k \in 1..Len(t) PROVE Level(t, k) >= 0 /\ ~(Level(t, k - 1) = 0 /\ t[k] = SP)
    <3>1. CASE k = 1
      <4>1. 0 \in 0..Len(w) /\ 0 + 1 = 1
        BY <1>1
      <4>2. Level(t, 0 + 1) > 0 /\ Level(t, 1) \in Int
        BY <2>2, <4>1, LevelNext
      <4> QED BY <2>1, <3>1, <4>1, <4>2, Characters
    <3>2. CASE k # 1
      <4>1. k - 2 \in 0..Len(w) /\ (k - 2) + 1 = k - 1 /\ k - 1 \in Nat /\ k \in Nat
        BY <1>1, <2>1, <3>2
      <4>2. Level(t, k - 1) > 0
        BY <2>2, <4>1
      <4>3. Level(t, k) >= 0
        <5>1. CASE k = Len(w) + 2
          BY <2>2, <5>1
        <5>2. CASE k # Len(w) + 2
          <6>1. k - 1 \in 0..Len(w) /\ (k - 1) + 1 = k
            BY <1>1, <2>1, <3>2, <5>2
          <6>2. Level(t, (k - 1) + 1) > 0
            BY <2>2, <6>1
          <6>3. Level(t, k) \in Int
            BY <4>1, LevelNext
          <6> QED BY <6>1, <6>2, <6>3
        <5> QED BY <5>1, <5>2
      <4>4. Level(t, k - 1) # 0
        BY <4>1, <4>2, LevelNext
      <4> QED BY <4>3, <4>4
    <3> QED BY <3>1, <3>2
  <2>6. Tidy(t)
    BY <1>1, <2>1, <2>2, <2>4, <2>5 DEF Tidy, Balanced
  <2>7. LBRACE # SP /\ Len(t) \in Nat \ {0}
    BY <1>1, <2>1, Characters
  <2> QED BY <1>2, <2>1, <2>3, <2>5, <2>6, <2>7
<1>3. CASE ~Braced(w)
  <2>1. Item(w) = w /\ w # <<>> /\ \A k \in 1..Len(w) : w[k] # SP /\ w[k] # LBRACE
    BY <1>1, <1>3 DEF Item, Braced
  <2>2. Len(w) \in Nat \ {0}
    BY <1>1, <2>1 DEF Scripts
  <2>3. 1 \in 1..Len(w)
    BY <2>2
  <2> QED BY <1>1, <1>3, <2>1, <2>2, <2>3 DEF Tidy
<1> QED BY <1>2, <1>3

(* The first element of a text stays the same when a blank follows.        *)
LEMMA EndConcat ==
  ASSUME NEW u, Tidy(u), u # <<>>, NEW x \in Scripts, x = <<>> \/ x[1] = SP
  PROVE  /\ ElementEnd(Cat(u, x)) = ElementEnd(u)
         /\ Word(Cat(u, x)) = Word(u)
         /\ Drop(Cat(u, x), ElementEnd(u) - 1) = Cat(Drop(u, ElementEnd(u) - 1), x)
<1> DEFINE s == Cat(u, x)
           e == ElementEnd(u)
<1>1. u \in Scripts /\ u \in Seq(Chars) /\ x \in Seq(Chars) /\ Len(u) \in Nat /\ Len(x) \in Nat /\ Len(u) > 0
  BY DEF Tidy, Scripts
<1>2. Joined(Chars, u, x, s)
  BY <1>1, CatFacts
<1>3. \A n \in 0..Len(u) : Level(s, n) = Level(u, n)
  BY <1>1, LevelConcat
<1>4. EndSpec(u, e)
  BY EndExists
<1>5. Drop(s, e - 1) = Cat(Drop(u, e - 1), x)
  <2> HIDE DEF e
  <2>1. e - 1 \in 0..Len(u)
    BY <1>1, <1>4 DEF EndSpec
  <2> DEFINE n == e - 1
  <2>2. n \in 0..Len(u)
    BY <2>1
  <2> HIDE DEF n
  <2>3. Drop(u \o x, n) = Drop(u, n) \o x
    BY <1>1, <2>2, DropConcat
  <2> QED BY <2>3 DEF n, Cat
<1> HIDE DEF s, e
<1>6. s \in Scripts /\ Len(s) = Len(u) + Len(x) /\ (\A k \in 1..Len(u) : s[k] = u[k])
      /\ \A k \in 1..Len(x) : s[Len(u) + k] = x[k]
  BY <1>2 DEF Joined, Scripts
<1>7. /\ e \in 1..(Len(u) + 1) /\ Level(u, e - 1) = 0
      /\ e = Len(u) + 1 \/ u[e] = SP
      /\ \A k \in 1..(e - 1) : ~(Level(u, k - 1) = 0 /\ u[k] = SP)
  BY <1>4 DEF EndSpec
<1>8. ElementEnd(s) = e
  <2>1. e \in 1..(Len(s) + 1) /\ e - 1 \in 0..Len(u)
    BY <1>1, <1>6, <1>7
  <2>2. Level(s, e - 1) = 0
    BY <1>3, <1>7, <2>1
  <2>3. e = Len(s) + 1 \/ s[e] = SP
    <3>1. CASE e = Len(u) + 1 /\ x = <<>>
      <4>1. Len(x) = 0
        BY <3>1
      <4> QED BY <1>1, <1>6, <3>1, <4>1
    <3>2. CASE e = Len(u) + 1 /\ x # <<>>
      <4>1. 1 \in 1..Len(x) /\ x[1] = SP
        BY <1>1, <3>2
      <4> QED BY <1>6, <3>2, <4>1
    <3>3. CASE e # Len(u) + 1
      <4>1. e \in 1..Len(u) /\ u[e] = SP
        BY <1>1, <1>7, <3>3
      <4> QED BY <1>6, <4>1
    <3> QED BY <3>1, <3>2, <3>3
  <2>4. \A k \in 1..(e - 1) : ~(Level(s, k - 1) = 0 /\ s[k] = SP)
    <3> TAKE k \in 1..(e - 1)
    <3>1. k \in 1..Len(u) /\ k - 1 \in 0..Len(u)
      BY <1>1, <1>7
    <3> QED BY <1>3, <1>6, <1>7, <3>1
  <2>5. EndSpec(s, e)
    BY <2>1, <2>2, <2>3, <2>4 DEF EndSpec
  <2> QED BY <1>6, <2>5, ElementEndIs
<1>9. \A m, n \in Int : m >= 1 /\ n <= Len(u) => SubSeq(s, m, n) = SubSeq(u, m, n)
  <2> TAKE m, n \in Int
  <2> HAVE m >= 1 /\ n <= Len(u)
  <2> DEFINE a == SubSeq(s, m, n)
             b == SubSeq(u, m, n)
             l == IF m <= n THEN n - m + 1 ELSE 0
  <2>1. a \in Seq(Chars) /\ Len(a) = l /\ \A k \in 1..l : a[k] = s[m + k - 1]
    BY <1>1, <1>6 DEF Scripts
  <2>2. b \in Seq(Chars) /\ Len(b) = l /\ \A k \in 1..l : b[k] = u[m + k - 1]
    BY <1>1
  <2>3. \A k \in 1..l : m + k - 1 \in 1..Len(u)
    BY <1>1
  <2> HIDE DEF a, b, l
  <2>4. \A k \in 1..l : a[k] = b[k]
    BY <1>6, <2>1, <2>2, <2>3
  <2>5. a = b
    BY <2>1, <2>2, <2>4, SeqEqual
  <2> QED BY <2>5 DEF a, b
<1>10. s[1] = u[1] /\ e - 2 \in Int /\ e - 1 \in Int /\ e - 2 <= Len(u) /\ e - 1 <= Len(u)
  BY <1>1, <1>6, <1>7
<1>11. Word(s) = Word(u)
  <2>1. 1 \in Int /\ 2 \in Int /\ 1 >= 1 /\ 2 >= 1
    OBVIOUS
  <2>2. SubSeq(s, 2, e - 2) = SubSeq(u, 2, e - 2)
    BY <1>9, <1>10, <2>1, Zenon
  <2>3. SubSeq(s, 1, e - 1) = SubSeq(u, 1, e - 1)
    BY <1>9, <1>10, <2>1, Zenon
  <2> QED BY <1>8, <1>10, <2>2, <2>3, Zenon DEF Word, e
<1> QED BY <1>5, <1>8, <1>11 DEF s, e

(* A list after a blank. *)
LEMMA GapFacts ==
  ASSUME NEW r, Tidy(r)
  PROVE  /\ Tidy(Cat(Gap, r)) /\ Cat(Gap, r) \in Scripts /\ Len(Cat(Gap, r)) = Len(r) + 1
         /\ Cat(Gap, r)[1] = SP /\ Cat(Gap, r) # <<>>
         /\ \A k \in 1..Len(r) : Cat(Gap, r)[k + 1] = r[k]
<1>1. Gap \in Seq(Chars) /\ Len(Gap) = 1 /\ Gap[1] = SP /\ DOMAIN Gap = 1..1
  BY CharsHave DEF Scripts
<1>2. Level(Gap, 0) = 0 /\ Level(Gap, 0 + 1) = Level(Gap, 0) + Delta(Gap[0 + 1]) /\ 0 \in Nat
  BY LevelNext
<1>3. Delta(SP) = 0
  BY Characters DEF Delta
<1>4. Level(Gap, 1) = 0
  BY <1>1, <1>2, <1>3
<1>5. Tidy(Gap)
  BY <1>1, <1>4 DEF Tidy, Balanced, Scripts
<1>6. Tidy(Cat(Gap, r))
  BY <1>5, TidyConcat
<1>7. r \in Seq(Chars) /\ Len(r) \in Nat
  BY DEF Tidy, Scripts
<1> DEFINE x == Cat(Gap, r)
<1>8. Joined(Chars, Gap, r, x)
  BY <1>1, <1>7, CatFacts
<1> HIDE DEF x
<1>9. /\ x \in Seq(Chars) /\ Len(x) = Len(r) + 1
      /\ x[1] = SP
      /\ \A k \in 1..Len(r) : x[k + 1] = r[k]
  <2>1. 1 \in 1..Len(Gap) /\ \A k \in 1..Len(r) : Len(Gap) + k = k + 1
    BY <1>1, <1>7
  <2> QED BY <1>1, <1>7, <1>8, <2>1 DEF Joined
<1>10. x # <<>>
  BY <1>7, <1>9
<1> QED BY <1>6, <1>9, <1>10 DEF x, Scripts

(* The elements of two texts with a blank between them are those of both.  *)
Splits(u, r) == Elements(Cat(u, Cat(Gap, r))) = Cat(Elements(u), Elements(r))

(* One element more before a blank and another list. *)
LEMMA ElementsStep ==
  ASSUME NEW u, Tidy(u), u # <<>>, NEW r, Tidy(r), r = <<>> \/ r[1] # SP
  PROVE  /\ Taken(u) \in 1..Len(u)
         /\ Drop(u, Taken(u)) = <<>> => Splits(u, r)
         /\ Drop(u, Taken(u)) # <<>> /\ Splits(Drop(u, Taken(u)), r) => Splits(u, r)
<1> DEFINE x == Cat(Gap, r)
           s == Cat(u, x)
           e == ElementEnd(u)
           v == Drop(u, e - 1)
           q == Cat(v, x)
           d == Drop(u, Taken(u))
           one == <<Word(u)>>
<1>1. /\ Tidy(x) /\ x \in Scripts /\ x \in Seq(Chars) /\ Len(x) = Len(r) + 1
      /\ x[1] = SP /\ x # <<>>
      /\ \A k \in 1..Len(r) : x[k + 1] = r[k]
  BY GapFacts DEF Scripts
<1>2. u \in Seq(Chars) /\ Len(u) \in Nat /\ Len(u) > 0 /\ r \in Seq(Chars) /\ Len(r) \in Nat
  BY DEF Tidy, Scripts
<1>3. e - 1 \in 0..Len(u)
  <2>1. EndSpec(u, e)
    BY EndExists
  <2> HIDE DEF e
  <2> QED BY <1>2, <2>1 DEF EndSpec
<1>4. v \in Seq(Chars) /\ Len(v) \in Nat
  <2> DEFINE n == e - 1
  <2>1. n \in 0..Len(u)
    BY <1>3
  <2> HIDE DEF n
  <2>2. Drop(u, n) \in Seq(Chars)
    BY <1>2, <2>1, DropFacts
  <2> QED BY <2>2 DEF n
<1>5. Taken(u) \in 1..Len(u) /\ Tidy(d) /\ d = Drop(v, Skip(v, {SP}))
  BY TakenFacts
<1>6. Word(u) \in Scripts
  BY WordType
<1>7. Elements(u) = Cat(one, Elements(d)) /\ Elements(d) \in Seq(Scripts) /\ Elements(r) \in Seq(Scripts)
      /\ one \in Seq(Scripts)
  <2>1. Elements(u) = Cat(one, Elements(d))
    BY ElementsAre, Zenon
  <2>2. Elements(r) \in Seq(Scripts)
    BY ElementsAre, Zenon
  <2>3. Elements(d) \in Seq(Scripts)
    <3> HIDE DEF d
    <3> QED BY <1>5, ElementsAre, Zenon
  <2>4. one \in Seq(Scripts)
    BY <1>6
  <2> QED BY <2>1, <2>2, <2>3, <2>4
<1> HIDE DEF x
<1>8. ElementEnd(s) = e /\ Word(s) = Word(u) /\ Drop(s, e - 1) = q
  BY <1>1, EndConcat
<1>9. Tidy(s) /\ s # <<>>
  <2>1. Tidy(s)
    BY <1>1, TidyConcat
  <2>2. Joined(Chars, u, x, s)
    BY <1>1, <1>2, CatFacts
  <2> HIDE DEF s
  <2>3. Len(s) > 0
    BY <1>1, <1>2, <2>2 DEF Joined
  <2> QED BY <2>1, <2>3
<1>10. Elements(s) = Cat(one, Elements(Drop(s, Taken(s)))) /\ Drop(s, Taken(s)) = Drop(q, Skip(q, {SP}))
  <2>1. Elements(s) = Cat(<<Word(s)>>, Elements(Drop(s, Taken(s))))
    BY <1>9, ElementsAre
  <2>2. Drop(s, Taken(s)) = LET y == Drop(s, ElementEnd(s) - 1) IN Drop(y, Skip(y, {SP}))
    BY <1>9, TakenFacts
  <2> HIDE DEF s, q, e
  <2> QED BY <1>8, <2>1, <2>2
<1>11. Joined(Chars, v, x, q)
  BY <1>1, <1>4, CatFacts
<1>12. Splits(u, r) <=> Elements(s) = Cat(Elements(u), Elements(r))
  BY DEF Splits, x
<1> DEFINE n == Skip(v, {SP})
<1>13. SkipSpec(v, {SP}, n)
  <2> HIDE DEF v
  <2> QED BY <1>4, SkipIs
<1> HIDE DEF n
<1>14. n \in 0..Len(v) /\ (\A k \in 1..n : v[k] \in {SP}) /\ (n = Len(v) \/ v[n + 1] \notin {SP})
  BY <1>13 DEF SkipSpec
<1>15. d = Drop(v, n)
  BY <1>5 DEF n
<1> HIDE DEF s, e, v, q, d, one
<1>16. q \in Seq(Chars) /\ Len(q) = Len(v) + Len(x) /\ (\A k \in 1..Len(v) : q[k] = v[k])
      /\ \A k \in 1..Len(x) : q[Len(v) + k] = x[k]
  BY <1>11 DEF Joined
<1>17. d = <<>> <=> n = Len(v)
  <2>1. d \in Seq(Chars) /\ Len(d) = Len(v) - n
    BY <1>4, <1>14, <1>15, DropFacts
  <2>2. Len(d) = 0 <=> n = Len(v)
    BY <1>4, <1>14, <2>1
  <2> QED BY <2>1, <2>2
<1>18. ASSUME d = <<>> PROVE Splits(u, r)
  <2> DEFINE m == Len(v) + 1
  <2>1. n = Len(v)
    BY <1>17, <1>18
  <2>2. m \in 0..Len(q)
    BY <1>1, <1>2, <1>4, <1>16
  <2>3. \A k \in 1..m : q[k] \in {SP}
    <3> TAKE k \in 1..m
    <3>1. CASE k = m
      <4>1. 1 \in 1..Len(x)
        BY <1>1, <1>2
      <4> QED BY <1>1, <1>16, <3>1, <4>1
    <3>2. CASE k # m
      <4>1. k \in 1..n /\ k \in 1..Len(v)
        BY <1>4, <2>1, <3>2
      <4> QED BY <1>14, <1>16, <4>1
    <3> QED BY <3>1, <3>2
  <2>4. m = Len(q) \/ q[m + 1] \notin {SP}
    <3>1. CASE r = <<>>
      <4>1. Len(r) = 0
        BY <3>1
      <4> QED BY <1>1, <1>4, <1>16, <4>1
    <3>2. CASE r # <<>>
      <4>1. 1 \in 1..Len(r) /\ 1 + 1 \in 1..Len(x) /\ Len(v) + (1 + 1) = m + 1
        BY <1>1, <1>2, <1>4, <3>2
      <4>2. x[1 + 1] = r[1]
        BY <1>1, <4>1
      <4>3. q[Len(v) + (1 + 1)] = x[1 + 1]
        BY <1>16, <4>1
      <4> QED BY <3>2, <4>1, <4>2, <4>3
    <3> QED BY <3>1, <3>2
  <2>5. Skip(q, {SP}) = m
    <3>1. SkipSpec(q, {SP}, m)
      BY <2>2, <2>3, <2>4 DEF SkipSpec
    <3> HIDE DEF m
    <3> QED BY <1>16, <3>1, SkipIs
  <2>6. Drop(q, m) = r
    <3> DEFINE vg == Cat(v, Gap)
    <3>1. Gap \in Seq(Chars) /\ Len(Gap) = 1
      BY CharsHave DEF Scripts
    <3>2. Joined(Chars, v, Gap, vg)
      BY <1>4, <3>1, CatFacts
    <3>3. q = Cat(vg, r)
      BY <1>2, <1>4, <3>1, CatAssociative DEF q, x
    <3> HIDE DEF vg
    <3>4. vg \in Seq(Chars) /\ Len(vg) = m
      BY <3>1, <3>2 DEF Joined
    <3>5. Drop(Cat(vg, r), Len(vg)) = r
      BY <1>2, <3>4, DropJoined
    <3> HIDE DEF m
    <3> QED BY <3>3, <3>4, <3>5
  <2>7. Elements(s) = Cat(one, Elements(r))
    BY <1>10, <2>5, <2>6
  <2>8. Elements(u) = one
    <3>1. Elements(d) = <<>>
      BY <1>18, ElementsEmpty
    <3>2. Cat(one, <<>>) = one
      BY <1>7, ConcatEmptySeq DEF Cat
    <3> QED BY <1>7, <3>1, <3>2
  <2> QED BY <1>12, <2>7, <2>8
<1>19. ASSUME d # <<>>, Splits(d, r) PROVE Splits(u, r)
  <2>1. n # Len(v) /\ n + 1 \in 1..Len(v) /\ n \in 0..Len(q)
    <3>1. n # Len(v)
      BY <1>17, <1>19
    <3>2. n \in 0..Len(v)
      BY <1>14
    <3>3. Len(q) = Len(v) + (Len(r) + 1)
      BY <1>1, <1>16
    <3> QED BY <1>2, <1>4, <3>1, <3>2, <3>3
  <2>2. SkipSpec(q, {SP}, n)
    <3>1. \A k \in 1..n : k \in 1..Len(v)
      BY <1>4, <1>14
    <3> QED BY <1>14, <1>16, <2>1, <3>1 DEF SkipSpec
  <2>3. Skip(q, {SP}) = n
    BY <1>16, <2>2, SkipIs
  <2>4. Drop(q, n) = Cat(d, x)
    <3>1. Drop(v \o x, n) = Drop(v, n) \o x
      BY <1>1, <1>4, <1>14, DropConcat
    <3> QED BY <1>15, <3>1 DEF q, Cat
  <2>5. Elements(Cat(d, x)) = Cat(Elements(d), Elements(r))
    BY <1>19 DEF Splits, x
  <2>6. Elements(s) = Cat(one, Cat(Elements(d), Elements(r)))
    BY <1>10, <2>3, <2>4, <2>5
  <2>7. Cat(Cat(one, Elements(d)), Elements(r)) = Cat(one, Cat(Elements(d), Elements(r)))
    BY <1>7, CatAssociative
  <2> QED BY <1>7, <1>12, <2>6, <2>7
<1> QED BY <1>5, <1>18, <1>19 DEF d

(* The elements of two lists with a blank between them. *)
LEMMA ElementsConcat ==
  ASSUME NEW u, Tidy(u), u # <<>>, NEW r, Tidy(r), r = <<>> \/ r[1] # SP
  PROVE  Splits(u, r)
<1> DEFINE S == {n \in Nat : \A t : Tidy(t) /\ t # <<>> /\ Len(t) <= n => Splits(t, r)}
<1>1. \A t : Tidy(t) => Len(t) \in Nat /\ (t # <<>> => Len(t) > 0) /\ t \in Seq(Chars)
  BY DEF Tidy, Scripts
<1>2. 0 \in S
  BY <1>1
<1>3. \A n \in Nat : n \in S => n + 1 \in S
  <2> SUFFICES ASSUME NEW n \in Nat, n \in S PROVE n + 1 \in S
    OBVIOUS
  <2>1. \A t : Tidy(t) /\ t # <<>> /\ Len(t) <= n => Splits(t, r)
    OBVIOUS
  <2>2. (\A t : Tidy(t) /\ t # <<>> /\ Len(t) <= n + 1 => Splits(t, r)) => n + 1 \in S
    OBVIOUS
  <2> HIDE DEF S
  <2> SUFFICES ASSUME NEW t, Tidy(t), t # <<>>, Len(t) <= n + 1 PROVE Splits(t, r)
    BY <2>2
  <2> DEFINE d == Drop(t, Taken(t))
  <2>3. /\ Taken(t) \in 1..Len(t)
        /\ d = <<>> => Splits(t, r)
        /\ d # <<>> /\ Splits(d, r) => Splits(t, r)
    BY ElementsStep
  <2>4. Tidy(d)
    BY TakenFacts
  <2>5. Len(d) <= n
    <3>1. Len(d) = Len(t) - Taken(t)
      <4>1. Taken(t) \in 0..Len(t) /\ t \in Seq(Chars)
        BY <1>1, <2>3
      <4> QED BY <4>1, DropFacts
    <3> HIDE DEF d
    <3> QED BY <1>1, <2>3, <3>1
  <2> HIDE DEF d
  <2> QED BY <2>1, <2>3, <2>4, <2>5
<1>4. Len(u) \in S
  <2> HIDE DEF S
  <2> QED BY <1>1, <1>2, <1>3, Induct
<1> QED BY <1>1, <1>4

-----------------------------------------------------------------------------
(* A function of the numbers up to n, each value made from the one before. *)
Goes(X, n, x0, h, f) ==
  f \in [0..n -> X] /\ f[0] = x0 /\ \A k \in 1..n : f[k] = h[<<k, f[k - 1]>>]

(* A recursive function over 0..n exists. *)
LEMMA Recursion ==
  ASSUME NEW X, NEW n \in Nat, NEW x0 \in X, NEW h \in [(1..n) \X X -> X]
  PROVE  \E f : Goes(X, n, x0, h, f)
<1> DEFINE S == {m \in Nat : m <= n => \E f : Goes(X, m, x0, h, f)}
<1>1. 0 \in S
  <2> DEFINE f == [k \in 0..0 |-> x0]
  <2>1. Goes(X, 0, x0, h, f)
    BY DEF Goes
  <2> HIDE DEF f
  <2> QED BY <2>1
<1>2. \A m \in Nat : m \in S => m + 1 \in S
  <2> SUFFICES ASSUME NEW m \in Nat, m + 1 <= n, NEW f, Goes(X, m, x0, h, f) PROVE \E g : Goes(X, m + 1, x0, h, g)
    OBVIOUS
  <2> USE DEF Goes
  <2> DEFINE new == h[<<m + 1, f[m]>>]
             g == [k \in 0..(m + 1) |-> IF k <= m THEN f[k] ELSE new]
  <2>1. f[m] \in X /\ m + 1 \in 1..n
    OBVIOUS
  <2>2. new \in X
    BY <2>1
  <2>3. g \in [0..(m + 1) -> X] /\ g[0] = x0
    BY <2>2
  <2>4. ASSUME NEW k \in 1..(m + 1) PROVE g[k] = h[<<k, g[k - 1]>>]
    <3>1. k - 1 <= m /\ k - 1 \in 0..(m + 1) /\ k \in 0..(m + 1)
      OBVIOUS
    <3>2. g[k - 1] = f[k - 1]
      BY <3>1
    <3>3. CASE k <= m
      BY <3>1, <3>2, <3>3
    <3>4. CASE k = m + 1
      <4>1. k - 1 = m /\ g[k] = new
        BY <3>4
      <4> QED BY <3>2, <3>4, <4>1
    <3> QED BY <3>3, <3>4
  <2> HIDE DEF g
  <2> QED BY <2>3, <2>4
<1>3. n \in S
  <2> HIDE DEF S
  <2> QED BY <1>1, <1>2, Induct
<1> QED BY <1>3

-----------------------------------------------------------------------------
(* A list has the words it was made of. *)
LEMMA ItemType ==
  ASSUME NEW w \in Scripts
  PROVE  Item(w) \in Scripts /\ Item(w) # <<>>
<1>1. Wrapped(w) \in Scripts /\ Len(Wrapped(w)) = Len(w) + 2 /\ Len(w) \in Nat
  BY WrappedFacts DEF Scripts
<1>2. Wrapped(w) # <<>>
  <2> DEFINE t == Wrapped(w)
  <2>1. Len(t) > 0
    BY <1>1
  <2> HIDE DEF t
  <2>2. t # <<>>
    BY <2>1
  <2> QED BY <2>2 DEF t
<1>3. ~Braced(w) => w # <<>>
  BY DEF Braced
<1> QED BY <1>1, <1>2, <1>3 DEF Item

(* What picolLAppend writes: the word, after a blank unless it is the first. *)
LEMMA LAppendIs ==
  ASSUME NEW dst \in Scripts, NEW w \in Scripts
  PROVE  /\ LAppend(dst, w) = IF dst = <<>> THEN Item(w) ELSE Cat(dst, Cat(Gap, Item(w)))
         /\ LAppend(dst, w) \in Scripts
<1> DEFINE i == Item(w)
<1>1. i \in Seq(Chars) /\ Gap \in Seq(Chars) /\ dst \in Seq(Chars)
  BY ItemType, CharsHave DEF Scripts
<1>2. LAppend(dst, w) = Cat(Cat(dst, IF dst = <<>> THEN <<>> ELSE Gap), i)
  BY Zenon DEF LAppend, Cat, Item, Wrapped, Gap
<1> HIDE DEF i
<1>3. CASE dst = <<>>
  <2>1. Cat(<<>>, i) = i /\ Cat(<<>>, <<>>) = <<>>
    BY <1>1, ConcatEmptySeq DEF Cat
  <2> QED BY <1>1, <1>2, <1>3, <2>1 DEF i, Scripts
<1>4. CASE dst # <<>>
  <2>1. LAppend(dst, w) = Cat(Cat(dst, Gap), i)
    BY <1>2, <1>4
  <2>2. Cat(Cat(dst, Gap), i) = Cat(dst, Cat(Gap, i))
    BY <1>1, CatAssociative
  <2>3. Cat(dst, Gap) \in Seq(Chars)
    BY <1>1 DEF Cat
  <2>4. Cat(Cat(dst, Gap), i) \in Seq(Chars)
    BY <1>1, <2>3 DEF Cat
  <2> QED BY <1>4, <2>1, <2>2, <2>4 DEF i, Scripts
<1> QED BY <1>3, <1>4

(* A word as it is written, read back. *)
LEMMA ElementsItem ==
  ASSUME NEW w, Kept(w)
  PROVE  Elements(Item(w)) = <<w>>
<1> DEFINE t == Item(w)
<1>1. /\ Tidy(t) /\ Len(t) \in Nat \ {0}
      /\ t[1] # SP /\ (t[1] = LBRACE <=> Braced(w))
      /\ \A k \in 1..Len(t) : ~(Level(t, k - 1) = 0 /\ t[k] = SP)
  BY ItemFacts
<1>2. w \in Scripts /\ w \in Seq(Chars) /\ Len(w) \in Nat
  BY DEF Kept, Scripts
<1>3. (Braced(w) => t = Wrapped(w)) /\ (~Braced(w) => t = w)
  BY DEF Item
<1> HIDE DEF t
<1> DEFINE e == Len(t) + 1
<1>4. t \in Scripts /\ t \in Seq(Chars) /\ t # <<>> /\ Level(t, Len(t)) = 0
  BY <1>1 DEF Tidy, Scripts, Balanced
<1>5. ElementEnd(t) = e
  <2>1. e - 1 = Len(t) /\ e \in 1..(Len(t) + 1)
    BY <1>1
  <2>2. EndSpec(t, e)
    BY <1>1, <1>4, <2>1 DEF EndSpec
  <2> HIDE DEF e
  <2> QED BY <1>4, <2>2, ElementEndIs
<1>6. Word(t) = w
  <2>1. CASE Braced(w)
    <3>1. Len(t) = Len(w) + 2 /\ \A k \in 1..Len(w) : t[k + 1] = w[k]
      BY <1>2, <1>3, <2>1, WrappedFacts
    <3> DEFINE b == SubSeq(t, 2, Len(w) + 1)
    <3>2. b \in Seq(Chars) /\ Len(b) = Len(w) /\ \A k \in 1..Len(w) : b[k] = t[k + 1]
      BY <1>2, <1>4, <3>1
    <3>3. Word(t) = b
      <4>1. e - 2 = Len(w) + 1
        BY <1>2, <3>1
      <4> QED BY <1>1, <1>5, <2>1, <4>1 DEF Word
    <3> HIDE DEF b
    <3> QED BY <1>2, <3>1, <3>2, <3>3, SeqEqual
  <2>2. CASE ~Braced(w)
    <3>1. t = w /\ e - 1 = Len(w)
      BY <1>2, <1>3, <2>2
    <3>2. Word(t) = SubSeq(w, 1, Len(w))
      BY <1>1, <1>5, <2>2, <3>1 DEF Word
    <3> QED BY <1>2, <3>2
  <2> QED BY <2>1, <2>2
<1>7. Drop(t, Taken(t)) = <<>>
  <2> DEFINE r == Drop(t, Len(t))
  <2>1. e - 1 = Len(t) /\ Len(t) \in 0..Len(t)
    BY <1>1
  <2>2. r \in Seq(Chars) /\ Len(r) = Len(t) - Len(t)
    BY <1>4, <2>1, DropFacts
  <2> HIDE DEF r
  <2>3. r = <<>>
    BY <1>1, <2>2
  <2>4. Drop(t, Taken(t)) = LET y == Drop(t, ElementEnd(t) - 1) IN Drop(y, Skip(y, {SP}))
    BY <1>1, <1>4, TakenFacts
  <2>5. Drop(t, Taken(t)) = Drop(r, Skip(r, {SP}))
    BY <1>5, <2>1, <2>4 DEF r
  <2>6. Drop(<<>>, Skip(<<>>, {SP})) = <<>>
    <3> DEFINE n == Skip(None, {SP})
    <3>1. SkipSpec(None, {SP}, n)
      BY NoneIs, SkipIs
    <3> HIDE DEF n
    <3>2. n = 0
      BY <3>1, NoneIs DEF SkipSpec
    <3>3. Drop(<<>>, 0) = <<>>
      BY DEF Drop
    <3> QED BY <3>2, <3>3, NoneIs DEF n
  <2> QED BY <2>3, <2>5, <2>6
<1>8. Elements(t) = Cat(<<Word(t)>>, Elements(Drop(t, Taken(t))))
  BY <1>1, <1>4, ElementsAre
<1>9. Elements(t) = Cat(<<w>>, <<>>)
  BY <1>6, <1>7, <1>8, ElementsEmpty
<1>10. Cat(<<w>>, <<>>) = <<w>>
  BY <1>2, ConcatEmptySeq DEF Cat
<1> QED BY <1>9, <1>10 DEF t

(* An appended word is one more element. *)
LEMMA ElementsAppend ==
  ASSUME NEW dst, Tidy(dst), NEW w, Kept(w)
  PROVE  /\ Tidy(LAppend(dst, w)) /\ LAppend(dst, w) # <<>>
         /\ Elements(LAppend(dst, w)) = Append(Elements(dst), w)
<1> DEFINE i == Item(w)
<1>1. dst \in Scripts /\ w \in Scripts
  BY DEF Tidy, Kept
<1>2. Tidy(i) /\ i[1] # SP /\ i # <<>> /\ Elements(i) = <<w>>
  BY <1>1, ItemFacts, ItemType, ElementsItem
<1>3. LAppend(dst, w) = IF dst = <<>> THEN i ELSE Cat(dst, Cat(Gap, i))
  BY <1>1, LAppendIs
<1>4. Elements(dst) \in Seq(Scripts)
  BY ElementsAre
<1> HIDE DEF i
<1>5. CASE dst = <<>>
  <2>1. Elements(dst) = <<>>
    BY <1>5, ElementsEmpty
  <2>2. Append(<<>>, w) = <<w>>
    OBVIOUS
  <2> QED BY <1>2, <1>3, <1>5, <2>1, <2>2
<1>6. CASE dst # <<>>
  <2> DEFINE x == Cat(Gap, i)
  <2>1. Tidy(x) /\ x \in Seq(Chars) /\ dst \in Seq(Chars) /\ x # <<>>
    BY <1>1, <1>2, GapFacts DEF Scripts
  <2>2. Splits(dst, i)
    BY <1>2, <1>6, ElementsConcat
  <2>3. Elements(Cat(dst, x)) = Cat(Elements(dst), <<w>>)
    BY <1>2, <2>2 DEF Splits
  <2>4. Append(Elements(dst), w) = Cat(Elements(dst), <<w>>)
    BY <1>1, <1>4, AppendIsConcat DEF Cat
  <2> HIDE DEF x
  <2>5. Tidy(Cat(dst, x))
    BY <2>1, TidyConcat
  <2> DEFINE c == Cat(dst, x)
  <2>6. Joined(Chars, dst, x, c)
    BY <2>1, CatFacts
  <2> HIDE DEF c
  <2>7. c # <<>>
    <3>1. Len(c) = Len(dst) + Len(x) /\ Len(x) > 0 /\ Len(dst) \in Nat /\ c \in Seq(Chars)
      BY <2>1, <2>6 DEF Joined
    <3> QED BY <3>1
  <2> QED BY <1>3, <1>6, <2>3, <2>4, <2>5, <2>7 DEF c, x
<1> QED BY <1>5, <1>6

(* Words a list can be made of. *)
KeptWords(ws) == ws \in Seq(Scripts) /\ \A k \in 1..Len(ws) : Kept(ws[k])

Lists(ws, buf) == buf = [k \in 0..Len(ws) |-> IF k = 0 THEN <<>> ELSE LAppend(buf[k - 1], ws[k])]

(* The list command appends one word after the other. *)
LEMMA ListSteps ==
  ASSUME NEW ws \in Seq(Scripts)
  PROVE  \E buf \in [0..Len(ws) -> Scripts] :
           /\ buf[0] = <<>> /\ \A k \in 1..Len(ws) : buf[k] = LAppend(buf[k - 1], ws[k])
           /\ List(ws) = buf[Len(ws)]
<1> DEFINE n == Len(ws)
           h == [p \in (1..n) \X Scripts |-> LAppend(p[2], ws[p[1]])]
<1>1. n \in Nat /\ \A k \in 1..n : ws[k] \in Scripts
  OBVIOUS
<1>2. h \in [(1..n) \X Scripts -> Scripts]
  <2>1. \A p \in (1..n) \X Scripts : LAppend(p[2], ws[p[1]]) \in Scripts
    <3> TAKE p \in (1..n) \X Scripts
    <3>1. p[2] \in Scripts /\ ws[p[1]] \in Scripts
      BY <1>1
    <3> QED BY <3>1, LAppendIs
  <2> HIDE DEF n
  <2> QED BY <2>1
<1>3. \A k \in 1..n, x \in Scripts : h[<<k, x>>] = LAppend(x, ws[k])
  BY <1>1
<1>4. None \in Scripts
  BY NoneIs DEF Scripts
<1> HIDE DEF n, h
<1>0. PICK f : Goes(Scripts, n, None, h, f)
  BY <1>1, <1>2, <1>4, Recursion
<1>5. f \in [0..n -> Scripts] /\ f[0] = None /\ \A k \in 1..n : f[k] = h[<<k, f[k - 1]>>]
  BY <1>0 DEF Goes
<1>6. \A k \in 1..n : f[k] = LAppend(f[k - 1], ws[k])
  <2> TAKE k \in 1..n
  <2>1. k - 1 \in 0..n
    BY <1>1
  <2> QED BY <1>3, <1>5, <2>1
<1>7. f = [k \in 0..n |-> IF k = 0 THEN <<>> ELSE LAppend(f[k - 1], ws[k])]
  <2>1. \A k \in 0..n : f[k] = IF k = 0 THEN <<>> ELSE LAppend(f[k - 1], ws[k])
    BY <1>1, <1>5, <1>6, NoneIs
  <2> QED BY <1>5, <2>1
<1>8. Lists(ws, f)
  BY <1>7, Zenon DEF Lists, n
<1> DEFINE buf == CHOOSE buf : Lists(ws, buf)
<1>9. List(ws) = buf[n]
  BY DEF List, Lists, n
<1>10. Lists(ws, buf)
  BY <1>8
<1> HIDE DEF buf
<1>11. \A k \in 0..n : buf[k] = IF k = 0 THEN <<>> ELSE LAppend(buf[k - 1], ws[k])
  BY <1>10, Zenon DEF Lists, n
<1>12. buf[n] = f[n]
  <2> DEFINE S == {k \in Nat : k <= n => buf[k] = f[k]}
  <2>1. 0 \in S
    BY <1>1, <1>5, <1>11, NoneIs
  <2>2. \A k \in Nat : k \in S => k + 1 \in S
    <3> SUFFICES ASSUME NEW k \in Nat, k \in S, k + 1 <= n PROVE buf[k + 1] = f[k + 1]
      OBVIOUS
    <3>1. buf[k] = f[k] /\ k + 1 \in 1..n /\ k + 1 \in 0..n /\ (k + 1) - 1 = k /\ k + 1 # 0
      BY <1>1
    <3> HIDE DEF S
    <3>2. buf[k + 1] = LAppend(buf[(k + 1) - 1], ws[k + 1])
      BY <1>11, <3>1, Zenon
    <3>3. f[k + 1] = LAppend(f[(k + 1) - 1], ws[k + 1])
      BY <1>6, <3>1, Zenon
    <3> QED BY <3>1, <3>2, <3>3
  <2>3. n \in S
    <3> HIDE DEF S
    <3> QED BY <1>1, <2>1, <2>2, Induct
  <2> QED BY <1>1, <2>3
<1> QED BY <1>5, <1>6, <1>9, <1>12, NoneIs DEF n

(* The elements of a list are the words it was made of. *)
LEMMA ListIs ==
  ASSUME NEW ws, KeptWords(ws)
  PROVE  Tidy(List(ws)) /\ Elements(List(ws)) = ws
<1> DEFINE n == Len(ws)
<1>1. ws \in Seq(Scripts) /\ n \in Nat /\ \A k \in 1..n : Kept(ws[k])
  BY DEF KeptWords
<1>2. PICK buf \in [0..n -> Scripts] :
        /\ buf[0] = <<>> /\ \A k \in 1..n : buf[k] = LAppend(buf[k - 1], ws[k])
        /\ List(ws) = buf[n]
  BY <1>1, ListSteps
<1> HIDE DEF n
<1> DEFINE S == {k \in Nat : k <= n => Tidy(buf[k]) /\ Elements(buf[k]) = SubSeq(ws, 1, k)}
<1>3. 0 \in S
  <2>1. Tidy(<<>>)
    <3>1. <<>> \in Scripts /\ Len(<<>>) = 0 /\ DOMAIN <<>> = {}
      BY DEF Scripts
    <3>2. Level(<<>>, 0) = 0
      BY LevelNext
    <3> QED BY <3>1, <3>2 DEF Tidy, Balanced
  <2>2. SubSeq(ws, 1, 0) = <<>>
    BY <1>1
  <2> QED BY <1>2, <2>1, <2>2, ElementsEmpty
<1>4. \A k \in Nat : k \in S => k + 1 \in S
  <2> SUFFICES ASSUME NEW k \in Nat, k \in S, k + 1 <= n
               PROVE  Tidy(buf[k + 1]) /\ Elements(buf[k + 1]) = SubSeq(ws, 1, k + 1)
    OBVIOUS
  <2>1. Tidy(buf[k]) /\ Elements(buf[k]) = SubSeq(ws, 1, k)
    BY <1>1
  <2>2. k + 1 \in 1..n /\ (k + 1) - 1 = k
    BY <1>1
  <2> HIDE DEF S
  <2>3. buf[k + 1] = LAppend(buf[k], ws[k + 1]) /\ Kept(ws[k + 1])
    BY <1>1, <1>2, <2>2
  <2>4. Tidy(buf[k + 1]) /\ Elements(buf[k + 1]) = Append(SubSeq(ws, 1, k), ws[k + 1])
    BY <2>1, <2>3, ElementsAppend
  <2>5. Append(SubSeq(ws, 1, k), ws[k + 1]) = SubSeq(ws, 1, k + 1)
    BY <1>1, <2>2 DEF n
  <2> QED BY <2>4, <2>5
<1>5. n \in S
  <2> HIDE DEF S
  <2> QED BY <1>1, <1>3, <1>4, Induct
<1>6. Tidy(buf[n]) /\ Elements(buf[n]) = SubSeq(ws, 1, n)
  BY <1>1, <1>5
<1>7. SubSeq(ws, 1, n) = ws
  BY <1>1 DEF n
<1> QED BY <1>2, <1>6, <1>7

-----------------------------------------------------------------------------
(* A list evaluated as a command has the words it was made of. *)
OneLine(w) == \A k \in 1..Len(w) : w[k] # NL

(* A word of a list, read as a token of a script. *)
LEMMA ItemToken ==
  ASSUME NEW w, Kept(w), OneLine(w), NEW r \in Scripts, r = <<>> \/ r[1] = SP,
         NEW type \in {"SEP", "EOL"}
  PROVE  LET s == Cat(Item(w), r)
         IN /\ s \in Scripts /\ s # <<>> /\ Drop(s, Size(s, type)) = r
            /\ Kind(s, type) \in {"STR", "ESC"} /\ Read(s, type) = w
<1> DEFINE t == Item(w)
           s == Cat(t, r)
<1>1. /\ t \in Scripts /\ Len(t) \in Nat \ {0}
      /\ t[1] # SP /\ (t[1] = LBRACE <=> Braced(w))
  BY ItemFacts DEF Tidy
<1>2. w \in Scripts /\ w \in Seq(Chars) /\ Len(w) \in Nat /\ Balanced(w)
  BY DEF Kept, Scripts, Storable
<1>3. (Braced(w) => t = Wrapped(w)) /\ (~Braced(w) => t = w)
  BY DEF Item
<1>4. t \in Seq(Chars) /\ r \in Seq(Chars) /\ Len(r) \in Nat
  BY <1>1 DEF Scripts
<1>5. Joined(Chars, t, r, s)
  BY <1>4, CatFacts
<1>6. Drop(s, Len(t)) = r
  BY <1>4, DropJoined
<1>7. \A n \in 0..Len(t) : Level(s, n) = Level(t, n)
  BY <1>1, LevelConcat
<1> HIDE DEF s, t
<1>8. /\ s \in Seq(Chars) /\ Len(s) = Len(t) + Len(r)
      /\ (\A k \in 1..Len(t) : s[k] = t[k]) /\ (\A k \in 1..Len(r) : s[Len(t) + k] = r[k])
  BY <1>5 DEF Joined
<1>9. s[1] = t[1] /\ s # <<>> /\ Len(s) \in Nat
  BY <1>1, <1>4, <1>8
<1>10. BeginsWord(type)
  BY DEF BeginsWord
<1>11. CASE Braced(w)
  <2>1. Len(t) = Len(w) + 2 /\ \A k \in 1..Len(w) : t[k + 1] = w[k]
    BY <1>2, <1>3, <1>11, WrappedFacts
  <2>2. (\A k \in 0..Len(w) : Level(t, k + 1) > 0) /\ Level(t, Len(w) + 2) = 0
    BY <1>2, <1>3, <1>11, WrappedLevel
  <2>3. s[1] = LBRACE /\ Brace(s, type) /\ s[1] # SP /\ s[1] # NL /\ s[1] \notin White
    BY <1>1, <1>9, <1>10, <1>11, Characters DEF Brace, White
  <2>4. BraceEnd(s) = Len(t)
    <3> DEFINE e == Len(t)
    <3>1. e \in 2..(Len(s) + 1) /\ e \in 0..Len(t)
      BY <1>1, <1>2, <1>4, <1>8, <2>1
    <3>2. Level(s, e) = 0
      BY <1>7, <2>1, <2>2, <3>1
    <3>3. ASSUME NEW k \in 1..(e - 1) PROVE Level(s, k) > 0
      <4>1. k - 1 \in 0..Len(w) /\ (k - 1) + 1 = k /\ k \in 0..Len(t)
        BY <1>2, <2>1
      <4>2. Level(t, (k - 1) + 1) > 0
        BY <2>2, <4>1
      <4> QED BY <1>7, <4>1, <4>2
    <3>4. BraceSpec(s, e)
      BY <3>1, <3>2, <3>3 DEF BraceSpec
    <3> HIDE DEF e
    <3>5. BraceEnd(s) = e
      BY <1>8, <1>9, <2>3, <3>4, BraceEndIs
    <3> QED BY <3>5 DEF e
  <2>5. SubSeq(s, 2, Len(t) - 1) = w
    <3> DEFINE b == SubSeq(s, 2, Len(w) + 1)
    <3>1. b \in Seq(Chars) /\ Len(b) = Len(w) /\ \A k \in 1..Len(w) : b[k] = s[k + 1]
      BY <1>2, <1>4, <1>8, <2>1
    <3>2. \A k \in 1..Len(w) : k + 1 \in 1..Len(t)
      BY <1>2, <2>1
    <3>3. Len(t) - 1 = Len(w) + 1
      BY <1>2, <2>1
    <3>4. SubSeq(s, 2, Len(t) - 1) = b
      BY <3>3
    <3> HIDE DEF b
    <3>5. b = w
      BY <1>2, <1>8, <2>1, <3>1, <3>2, SeqEqual
    <3> QED BY <3>4, <3>5
  <2>6. Size(s, type) = Len(t) /\ Kind(s, type) = "STR" /\ Read(s, type) = w
    BY <2>3, <2>4, <2>5 DEF Size, Kind, Read
  <2> QED BY <1>6, <1>8, <1>9, <2>6 DEF s, t, Scripts
<1>12. CASE ~Braced(w)
  <2>1. t = w /\ \A k \in 1..Len(t) : s[k] # SP /\ s[k] # NL
    <3>1. t = w /\ \A k \in 1..Len(w) : w[k] # SP /\ w[k] # NL
      BY <1>2, <1>3, <1>12 DEF Braced, OneLine
    <3> QED BY <1>8, <3>1
  <2>2. s[1] # SP /\ s[1] # NL /\ s[1] \notin White /\ ~Brace(s, type)
    <3>1. 1 \in 1..Len(t)
      BY <1>1
    <3> QED BY <1>1, <1>9, <1>12, <2>1, <3>1 DEF Brace, White
  <2>3. UpTo(s, White) = Len(t)
    <3> DEFINE n == Len(t)
    <3>1. n \in 0..Len(s) /\ \A k \in 1..n : s[k] \notin White
      BY <1>1, <1>4, <1>8, <2>1 DEF White
    <3>2. n = Len(s) \/ s[n + 1] \in White
      <4>1. CASE r = <<>>
        <5>1. Len(r) = 0
          BY <4>1
        <5> QED BY <1>1, <1>8, <5>1
      <4>2. CASE r # <<>>
        <5>1. 1 \in 1..Len(r) /\ r[1] = SP
          BY <1>4, <4>2
        <5> QED BY <1>8, <5>1 DEF White
      <4> QED BY <4>1, <4>2
    <3>3. UpToSpec(s, White, n)
      BY <3>1, <3>2 DEF UpToSpec
    <3> HIDE DEF n
    <3>4. UpTo(s, White) = n
      BY <1>8, <3>3, UpToIs
    <3> QED BY <3>4 DEF n
  <2>4. SubSeq(s, 1, Len(t)) = w
    <3> DEFINE b == SubSeq(s, 1, Len(t))
               n == Len(t)
    <3>1. n \in 0..Len(s)
      BY <1>1, <1>4, <1>8
    <3> HIDE DEF n
    <3>2. SubSeq(s, 1, n) \in Seq(Chars) /\ Len(SubSeq(s, 1, n)) = n /\ \A k \in 1..n : SubSeq(s, 1, n)[k] = s[k]
      BY <1>8, <3>1, FrontFacts
    <3>3. b \in Seq(Chars) /\ Len(b) = Len(t) /\ \A k \in 1..Len(t) : b[k] = s[k]
      BY <3>2 DEF n
    <3> HIDE DEF b
    <3>4. b = w
      BY <1>2, <1>8, <2>1, <3>3, SeqEqual
    <3> QED BY <3>4 DEF b
  <2>5. Size(s, type) = Len(t) /\ Kind(s, type) = "ESC" /\ Read(s, type) = w
    BY <2>2, <2>3, <2>4 DEF Size, Kind, Read
  <2> QED BY <1>6, <1>8, <1>9, <2>5 DEF s, t, Scripts
<1> QED BY <1>11, <1>12

(* It is one more word of the command. *)
LEMMA ResultItem ==
  ASSUME NEW w, Kept(w), OneLine(w), NEW r \in Scripts, r = <<>> \/ r[1] = SP,
         NEW type \in {"SEP", "EOL"}, NEW argv \in Seq(Scripts), NEW cmds \in Seq(Seq(Scripts))
  PROVE  \E ty \in {"STR", "ESC"} : Result(Cat(Item(w), r), type, argv, cmds) = Result(r, ty, Append(argv, w), cmds)
<1> DEFINE s == Cat(Item(w), r)
           kind == Kind(s, type)
<1>1. /\ s \in Scripts /\ s # <<>> /\ Drop(s, Size(s, type)) = r
      /\ kind \in {"STR", "ESC"} /\ Read(s, type) = w
  BY ItemToken
<1> HIDE DEF s
<1>2. IsPlain(s, type, argv, cmds)
  BY <1>1 DEF IsPlain, Types
<1>3. Grow(argv, type, w) = Append(argv, w)
  BY DEF Grow
<1>4. Follows(s, type, argv, cmds, r, kind, Append(argv, w), cmds)
  BY <1>1, <1>3 DEF Follows
<1>5. Result(s, type, argv, cmds) = Result(r, kind, Append(argv, w), cmds)
  <2> HIDE DEF kind
  <2> QED BY <1>2, <1>4, ResultNext
<1> QED BY <1>1, <1>5 DEF s

(* The blank between two words only parts them. *)
LEMMA ResultGap ==
  ASSUME NEW r \in Scripts, r # <<>>, r[1] \notin White, NEW ty \in {"STR", "ESC"},
         NEW argv \in Seq(Scripts), argv # <<>>, NEW cmds \in Seq(Seq(Scripts))
  PROVE  Result(Cat(Gap, r), ty, argv, cmds) = Result(r, "SEP", argv, cmds)
<1> DEFINE x == Cat(Gap, r)
<1>0. Gap \in Seq(Chars) /\ r \in Seq(Chars) /\ Len(Gap) = 1 /\ Gap[1] = SP /\ Len(r) \in Nat
  BY CharsHave DEF Scripts
<1>7. Joined(Chars, Gap, r, x)
  BY <1>0, CatFacts
<1>1. /\ x \in Scripts /\ x # <<>> /\ x[1] = SP /\ Len(x) = Len(r) + 1
      /\ \A k \in 1..Len(r) : x[k + 1] = r[k]
  <2> HIDE DEF x
  <2>1. x \in Seq(Chars) /\ Len(x) = 1 + Len(r) /\ (\A k \in 1..1 : x[k] = Gap[k])
        /\ \A k \in 1..Len(r) : x[1 + k] = r[k]
    BY <1>0, <1>7 DEF Joined
  <2>2. \A k \in 1..Len(r) : 1 + k = k + 1
    BY <1>0
  <2> QED BY <1>0, <2>1, <2>2 DEF Scripts
<1>2. Drop(x, 1) = r
  <2>1. Gap \in Seq(Chars) /\ r \in Seq(Chars) /\ Len(Gap) = 1
    BY <1>0
  <2>2. Drop(Cat(Gap, r), Len(Gap)) = r
    BY <2>1, DropJoined
  <2> QED BY <2>1, <2>2
<1> HIDE DEF x
<1>3. r \in Scripts /\ Len(r) \in Nat /\ Len(r) > 0 /\ x \in Seq(Chars)
  BY <1>1 DEF Scripts
<1>4. Skip(x, White) = 1
  <2>1. 1 \in 1..Len(r) /\ x[1 + 1] = r[1]
    BY <1>1, <1>3
  <2>2. SkipSpec(x, White, 1)
    BY <1>1, <1>3, <2>1 DEF SkipSpec, White
  <2> QED BY <1>3, <2>2, SkipIs
<1>5. IsPlain(x, ty, argv, cmds)
  BY <1>1 DEF IsPlain, Types
<1>6. Result(x, ty, argv, cmds) = Result(Drop(x, Skip(x, White)), "SEP", argv, cmds)
  BY <1>1, <1>5, ResultBlank
<1> QED BY <1>2, <1>4, <1>6 DEF x

(* A text that reads as the words of one command, whatever follows.        *)
Reads(b, vs) ==
  \A r \in Scripts : r = <<>> \/ r[1] = SP =>
    \E ty \in {"STR", "ESC"} : Result(Cat(b, r), "EOL", None, None) = Result(r, ty, vs, None)

(* An appended word is one more word of the command the list is. *)
LEMMA ReadsAppend ==
  ASSUME NEW dst \in Scripts, NEW vs \in Seq(Scripts), NEW w, Kept(w), OneLine(w),
         (dst = <<>> /\ vs = <<>>) \/ (dst # <<>> /\ vs # <<>> /\ Reads(dst, vs))
  PROVE  Reads(LAppend(dst, w), Append(vs, w))
<1> DEFINE i == Item(w)
<1>1. w \in Scripts /\ Len(w) \in Nat
  BY DEF Kept, Scripts
<1>2. i \in Seq(Chars) /\ i # <<>> /\ Len(i) \in Nat \ {0} /\ i[1] \notin White
  <2>1. i \in Seq(Chars) /\ i # <<>> /\ i[1] # SP /\ (i[1] = LBRACE <=> Braced(w)) /\ Len(i) \in Nat \ {0}
    BY <1>1, ItemType, ItemFacts DEF Scripts
  <2>2. i[1] # NL
    <3>1. CASE Braced(w)
      BY <2>1, <3>1, Characters
    <3>2. CASE ~Braced(w)
      <4>1. i = w /\ 1 \in 1..Len(w)
        BY <2>1, <3>2 DEF Item
      <4> QED BY <4>1 DEF OneLine
    <3> QED BY <3>1, <3>2
  <2> QED BY <2>1, <2>2 DEF White
<1>3. LAppend(dst, w) = IF dst = <<>> THEN i ELSE Cat(dst, Cat(Gap, i))
  BY <1>1, LAppendIs
<1>4. Gap \in Seq(Chars) /\ dst \in Seq(Chars) /\ None \in Seq(Scripts) /\ None \in Seq(Seq(Scripts))
      /\ Len(Gap) = 1 /\ Gap[1] = SP
  BY CharsHave, NoneIs DEF Scripts
<1>5. ASSUME NEW r \in Scripts, r = <<>> \/ r[1] = SP, NEW type \in {"SEP", "EOL"}, NEW argv \in Seq(Scripts)
      PROVE  \E ty \in {"STR", "ESC"} : Result(Cat(i, r), type, argv, None) = Result(r, ty, Append(argv, w), None)
  BY <1>4, <1>5, ResultItem
<1> HIDE DEF i
<1>6. CASE dst = <<>>
  <2>1. vs = None /\ LAppend(dst, w) = i
    BY <1>3, <1>6, NoneIs
  <2> SUFFICES ASSUME NEW r \in Scripts, r = <<>> \/ r[1] = SP
               PROVE  \E ty \in {"STR", "ESC"} : Result(Cat(i, r), "EOL", None, None) = Result(r, ty, Append(None, w), None)
    BY <2>1 DEF Reads
  <2> QED BY <1>4, <1>5
<1>7. CASE dst # <<>>
  <2> DEFINE x == Cat(Gap, i)
             b == Cat(dst, x)
  <2>1. LAppend(dst, w) = b /\ vs # <<>> /\ Reads(dst, vs)
    BY <1>3, <1>7
  <2>2. x \in Seq(Chars)
    BY <1>2, <1>4 DEF Cat
  <2> HIDE DEF b
  <2> SUFFICES ASSUME NEW r \in Scripts, r = <<>> \/ r[1] = SP
               PROVE  \E ty \in {"STR", "ESC"} : Result(Cat(b, r), "EOL", None, None) = Result(r, ty, Append(vs, w), None)
    BY <2>1 DEF Reads
  <2> DEFINE ir == Cat(i, r)
             y == Cat(Gap, ir)
  <2>3. r \in Seq(Chars)
    BY DEF Scripts
  <2>4. Joined(Chars, i, r, ir)
    BY <1>2, <2>3, CatFacts
  <2>5. Cat(b, r) = Cat(dst, Cat(x, r))
    BY <1>4, <2>2, <2>3, CatAssociative DEF b
  <2>6. Cat(x, r) = y
    BY <1>2, <1>4, <2>3, CatAssociative
  <2> HIDE DEF ir
  <2>7. ir \in Seq(Chars) /\ ir # <<>> /\ ir[1] \notin White /\ ir \in Scripts
    <3>1. ir \in Seq(Chars) /\ Len(ir) = Len(i) + Len(r) /\ 1 \in 1..Len(i) /\ Len(r) \in Nat
      BY <1>2, <2>3, <2>4 DEF Joined
    <3>2. ir[1] = i[1]
      BY <2>4, <3>1 DEF Joined
    <3> QED BY <1>2, <3>1, <3>2 DEF Scripts
  <2>8. Joined(Chars, Gap, ir, y)
    BY <1>4, <2>7, CatFacts
  <2> HIDE DEF x
  <2>9. y \in Scripts /\ y[1] = SP
    <3> HIDE DEF y
    <3>1. 1 \in 1..Len(Gap)
      BY <1>4
    <3> QED BY <1>4, <2>8, <3>1 DEF Joined, Scripts
  <2>10. PICK ty \in {"STR", "ESC"} : Result(Cat(dst, y), "EOL", None, None) = Result(y, ty, vs, None)
    <3> HIDE DEF y
    <3> QED BY <2>1, <2>9 DEF Reads
  <2>11. Result(y, ty, vs, None) = Result(ir, "SEP", vs, None)
    BY <1>4, <2>1, <2>7, ResultGap
  <2>12. \E tz \in {"STR", "ESC"} : Result(ir, "SEP", vs, None) = Result(r, tz, Append(vs, w), None)
    BY <1>5 DEF ir
  <2>13. Result(Cat(b, r), "EOL", None, None) = Result(ir, "SEP", vs, None)
    BY <2>5, <2>6, <2>10, <2>11
  <2> QED BY <2>12, <2>13
<1> QED BY <1>6, <1>7

(* A list run as a script is one command, with its elements for words. *)
LEMMA ListReads ==
  ASSUME NEW ws, KeptWords(ws), ws # <<>>, \A k \in 1..Len(ws) : OneLine(ws[k])
  PROVE  Commands(List(ws)) = <<ws>>
<1> DEFINE n == Len(ws)
<1>1. ws \in Seq(Scripts) /\ n \in Nat /\ n > 0 /\ \A k \in 1..n : Kept(ws[k]) /\ OneLine(ws[k])
  BY DEF KeptWords
<1>2. PICK buf \in [0..n -> Scripts] :
        /\ buf[0] = <<>> /\ \A k \in 1..n : buf[k] = LAppend(buf[k - 1], ws[k])
        /\ List(ws) = buf[n]
  BY <1>1, ListSteps
<1> DEFINE vs(k) == SubSeq(ws, 1, k)
<1>3. \A k \in 0..n : vs(k) \in Seq(Scripts) /\ (vs(k) = <<>> <=> k = 0)
      /\ (k < n => vs(k + 1) = Append(vs(k), ws[k + 1]))
  BY <1>1
<1>4. vs(n) = ws
  BY <1>1
<1> HIDE DEF n, vs
<1> DEFINE S == {k \in Nat : k <= n /\ k > 0 => Reads(buf[k], vs(k))}
<1>5. 0 \in S
  OBVIOUS
<1>6. \A k \in Nat : k \in S => k + 1 \in S
  <2> SUFFICES ASSUME NEW k \in Nat, k \in S, k + 1 <= n
               PROVE  Reads(buf[k + 1], vs(k + 1))
    OBVIOUS
  <2>1. k > 0 => Reads(buf[k], vs(k))
    BY <1>1
  <2>2. k + 1 \in 1..n /\ (k + 1) - 1 = k /\ k \in 0..n /\ k < n
    BY <1>1
  <2> HIDE DEF S
  <2>3. buf[k + 1] = LAppend(buf[k], ws[k + 1]) /\ Kept(ws[k + 1]) /\ OneLine(ws[k + 1])
        /\ buf[k] \in Scripts
    BY <1>1, <1>2, <2>2
  <2>4. vs(k + 1) = Append(vs(k), ws[k + 1]) /\ vs(k) \in Seq(Scripts) /\ (vs(k) = <<>> <=> k = 0)
    BY <1>3, <2>2
  <2>5. k > 0 => buf[k] # <<>>
    <3> SUFFICES ASSUME k > 0 PROVE buf[k] # <<>>
      OBVIOUS
    <3>1. k \in 1..n /\ k - 1 \in 0..n
      BY <1>1, <2>2
    <3>2. buf[k] = LAppend(buf[k - 1], ws[k]) /\ ws[k] \in Scripts /\ buf[k - 1] \in Scripts
      BY <1>1, <1>2, <3>1 DEF Kept
    <3> DEFINE d == buf[k - 1]
               i == Item(ws[k])
    <3>3. buf[k] = IF d = <<>> THEN i ELSE Cat(d, Cat(Gap, i))
      BY <3>2, LAppendIs
    <3>4. i \in Seq(Chars) /\ i # <<>> /\ d \in Seq(Chars) /\ Gap \in Seq(Chars)
      BY <3>2, ItemType, CharsHave DEF Scripts
    <3> HIDE DEF d, i
    <3> DEFINE x == Cat(Gap, i)
    <3>5. x \in Seq(Chars)
      BY <3>4 DEF Cat
    <3> HIDE DEF x
    <3> DEFINE c == Cat(d, x)
    <3>6. Joined(Chars, d, x, c)
      BY <3>4, <3>5, CatFacts
    <3> HIDE DEF c
    <3>7. d # <<>> => c # <<>>
      <4>1. c \in Seq(Chars) /\ Len(c) = Len(d) + Len(x)
        BY <3>6 DEF Joined
      <4>2. Len(d) \in Nat /\ Len(x) \in Nat /\ (d # <<>> => Len(d) > 0)
        BY <3>4, <3>5
      <4> QED BY <4>1, <4>2
    <3> QED BY <3>3, <3>4, <3>7 DEF c, x
  <2>6. (buf[k] = <<>> /\ vs(k) = <<>>) \/ (buf[k] # <<>> /\ vs(k) # <<>> /\ Reads(buf[k], vs(k)))
    BY <1>2, <2>1, <2>4, <2>5
  <2> QED BY <2>3, <2>4, <2>6, ReadsAppend
<1>7. Reads(buf[n], ws)
  <2>1. n \in S
    <3> HIDE DEF S
    <3> QED BY <1>1, <1>5, <1>6, Induct
  <2> QED BY <1>1, <1>4, <2>1
<1>8. PICK ty \in {"STR", "ESC"} : Result(Cat(buf[n], None), "EOL", None, None) = Result(None, ty, ws, None)
  <2>1. None \in Scripts /\ None = <<>>
    BY NoneIs DEF Scripts
  <2> QED BY <1>7, <2>1 DEF Reads
<1>9. Cat(buf[n], None) = buf[n]
  <2>1. buf[n] \in Seq(Chars)
    BY <1>1, <1>2 DEF Scripts
  <2> DEFINE b == buf[n]
  <2> HIDE DEF b
  <2>2. b \o <<>> = b
    BY <2>1, ConcatEmptySeq DEF b
  <2> QED BY <2>2, NoneIs DEF Cat, b
<1>10. Commands(List(ws)) = Result(buf[n], "EOL", None, None)
  BY <1>2, CommandsAre, NoneIs
<1>11. Result(<<>>, ty, ws, None) = Done(ws, None)
  <2>1. IsPlain(<<>>, ty, ws, None)
    BY <1>1, NoneIs DEF IsPlain, Types, Scripts
  <2>2. ty # "EOL"
    OBVIOUS
  <2> QED BY <2>1, <2>2, ResultEnd
<1>12. Done(ws, None) = <<ws>>
  BY <1>1, NoneIs DEF Done
<1> QED BY <1>8, <1>9, <1>10, <1>11, <1>12, NoneIs

(* picolList and LAPPEND: the elements of a list are the words it was made *)
(* of, and a list evaluated as a command has them as its words, for words  *)
(* of any length.                                                          *)
THEOREM ListFaithful ==
  ASSUME NEW ws \in Seq(Seq(Chars)), \A k \in 1..Len(ws) : Storable(ws[k])
  PROVE  ListIsFaithful(ws)
<1>1. KeptWords(ws)
  BY DEF KeptWords, Kept, Scripts
<1>2. Elements(List(ws)) = ws
  BY <1>1, ListIs
<1>3. ASSUME \A i \in DOMAIN ws : \A k \in DOMAIN ws[i] : ws[i][k] # NL
      PROVE  Commands(List(ws)) = IF ws = <<>> THEN <<>> ELSE <<ws>>
  <2>1. CASE ws = <<>>
    <3>1. List(<<>>) = <<>>
      <4>1. None \in Seq(Scripts)
        BY NoneIs
      <4>2. PICK buf \in [0..Len(None) -> Scripts] : buf[0] = <<>> /\ List(None) = buf[Len(None)]
        BY <4>1, ListSteps
      <4> QED BY <4>2, NoneIs
    <3> QED BY <2>1, <3>1, NoCommands
  <2>2. CASE ws # <<>>
    <3>1. \A k \in 1..Len(ws) : OneLine(ws[k])
      <4> TAKE k \in 1..Len(ws)
      <4>1. k \in DOMAIN ws /\ ws[k] \in Seq(Chars)
        OBVIOUS
      <4> QED BY <1>3, <4>1 DEF OneLine
    <3> QED BY <1>1, <2>2, <3>1, ListReads
  <2> QED BY <2>1, <2>2
<1> QED BY <1>2, <1>3 DEF ListIsFaithful

-----------------------------------------------------------------------------
(* Sequences put together. *)
Flats(f, g) == g = [i \in 1..Len(f) |-> IF i = 1 THEN f[i] ELSE g[i - 1] \o f[i]]

(* What is put together of the first k of f, for all k. *)
Pieces(S, f, p) ==
  /\ p \in [0..Len(f) -> Seq(S)] /\ p[0] = <<>>
  /\ \A k \in 1..Len(f) : p[k] = Cat(p[k - 1], f[k])

(* FlattenSeq joins them all. *)
LEMMA FlatIs ==
  ASSUME NEW S, NEW f \in Seq(Seq(S)), NEW p, Pieces(S, f, p)
  PROVE  FlattenSeq(f) = p[Len(f)] /\ p[Len(f)] \in Seq(S)
<1> DEFINE n == Len(f)
<1>1. /\ p \in [0..n -> Seq(S)] /\ p[0] = <<>> /\ \A k \in 1..n : p[k] = Cat(p[k - 1], f[k])
      /\ n \in Nat /\ \A k \in 1..n : f[k] \in Seq(S)
  BY DEF Pieces
<1>2. CASE n = 0
  <2>1. f = <<>>
    BY <1>2
  <2>2. FlattenSeq(f) = f
    BY <1>2, Zenon DEF FlattenSeq
  <2> QED BY <1>1, <1>2, <2>1, <2>2
<1>3. CASE n # 0
  <2> DEFINE q == [i \in 1..n |-> p[i]]
             g == CHOOSE g : Flats(f, g)
  <2>1. FlattenSeq(f) = g[n]
    BY <1>3 DEF FlattenSeq, Flats
  <2> HIDE DEF n
  <2>2. \A i \in 1..n : q[i] = IF i = 1 THEN f[i] ELSE q[i - 1] \o f[i]
    <3> TAKE i \in 1..n
    <3>1. CASE i = 1
      <4>1. p[1] = Cat(p[0], f[1])
        <5>1. 1 \in 1..n /\ 1 - 1 = 0
          BY <1>1, <3>1
        <5> QED BY <1>1, <5>1
      <4>2. Cat(<<>>, f[1]) = f[1]
        BY <1>1, <3>1, ConcatEmptySeq DEF Cat
      <4> QED BY <1>1, <3>1, <4>1, <4>2
    <3>2. CASE i # 1
      <4>1. i - 1 \in 1..n
        BY <1>1, <3>2
      <4> QED BY <1>1, <3>2, <4>1 DEF Cat
    <3> QED BY <3>1, <3>2
  <2>3. Flats(f, q)
    BY <2>2 DEF Flats, n
  <2>4. Flats(f, g)
    <3> HIDE DEF q
    <3> QED BY <2>3
  <2> HIDE DEF q, g
  <2>5. \A i \in 1..n : g[i] = IF i = 1 THEN f[i] ELSE g[i - 1] \o f[i]
    BY <2>4, Zenon DEF Flats, n
  <2> DEFINE T == {k \in Nat : k + 1 <= n => g[k + 1] = q[k + 1]}
  <2>6. 0 \in T
    BY <1>1, <1>3, <2>2, <2>5
  <2>7. \A k \in Nat : k \in T => k + 1 \in T
    <3> SUFFICES ASSUME NEW k \in Nat, k \in T, (k + 1) + 1 <= n PROVE g[(k + 1) + 1] = q[(k + 1) + 1]
      OBVIOUS
    <3>1. g[k + 1] = q[k + 1] /\ (k + 1) + 1 \in 1..n /\ ((k + 1) + 1) - 1 = k + 1 /\ (k + 1) + 1 # 1
      BY <1>1
    <3> HIDE DEF T
    <3>2. g[(k + 1) + 1] = g[k + 1] \o f[(k + 1) + 1]
      BY <2>5, <3>1
    <3>3. q[(k + 1) + 1] = q[k + 1] \o f[(k + 1) + 1]
      BY <2>2, <3>1
    <3> QED BY <3>1, <3>2, <3>3
  <2>8. n - 1 \in Nat /\ (n - 1) + 1 = n
    BY <1>1, <1>3
  <2>9. n - 1 \in T
    <3> HIDE DEF T
    <3> QED BY <2>6, <2>7, <2>8, Induct
  <2>10. g[n] = q[n] /\ n \in 1..n
    BY <1>1, <1>3, <2>8, <2>9
  <2>11. q[n] = p[n] /\ p[n] \in Seq(S)
    BY <1>1, <2>10 DEF q
  <2> QED BY <2>1, <2>10, <2>11 DEF n
<1> QED BY <1>2, <1>3

(* The sequences joined, one more at each place. *)
LEMMA PiecesExist ==
  ASSUME NEW S, NEW f \in Seq(Seq(S))
  PROVE  \E p : Pieces(S, f, p)
<1> DEFINE n == Len(f)
           h == [x \in (1..n) \X Seq(S) |-> Cat(x[2], f[x[1]])]
<1>1. n \in Nat /\ \A k \in 1..n : f[k] \in Seq(S)
  OBVIOUS
<1>2. h \in [(1..n) \X Seq(S) -> Seq(S)]
  <2>1. ASSUME NEW x \in (1..n) \X Seq(S) PROVE Cat(x[2], f[x[1]]) \in Seq(S)
    <3>1. x[2] \in Seq(S) /\ f[x[1]] \in Seq(S)
      BY <1>1
    <3> DEFINE a == x[2]
               b == f[x[1]]
    <3> HIDE DEF a, b
    <3>2. Cat(a, b) \in Seq(S)
      BY <3>1, ConcatProperties DEF Cat, a, b
    <3> QED BY <3>2 DEF a, b
  <2> HIDE DEF n
  <2> QED BY <2>1
<1>3. \A k \in 1..n, x \in Seq(S) : h[<<k, x>>] = Cat(x, f[k])
  BY <1>1
<1> HIDE DEF n, h
<1>4. None \in Seq(S)
  BY NoneIs
<1>5. PICK p : Goes(Seq(S), n, None, h, p)
  BY <1>1, <1>2, <1>4, Recursion
<1>6. p \in [0..n -> Seq(S)] /\ p[0] = None /\ \A k \in 1..n : p[k] = h[<<k, p[k - 1]>>]
  BY <1>5 DEF Goes
<1>7. \A k \in 1..n : p[k] = Cat(p[k - 1], f[k])
  <2> TAKE k \in 1..n
  <2>1. k - 1 \in 0..n
    BY <1>1
  <2> QED BY <1>3, <1>6, <2>1
<1> QED BY <1>6, <1>7, NoneIs DEF Pieces, n

(* Appending is joining one element. *)
LEMMA OneMore ==
  ASSUME NEW S, NEW b \in Seq(S), NEW x \in S
  PROVE  /\ <<x>> \in Seq(S) /\ Append(b, x) = Cat(b, <<x>>)
         /\ Cat(b, <<x>>) \in Seq(S)
<1>1. Append(b, x) = Cat(b, <<x>>)
  BY AppendIsConcat DEF Cat
<1>2. <<x>> \in Seq(S) /\ Append(b, x) \in Seq(S)
  OBVIOUS
<1> QED BY <1>1, <1>2, Zenon

(* A function over a range of numbers is a sequence. *)
LEMMA SeqOfFun ==
  ASSUME NEW S, NEW n \in Nat, NEW f \in [1..n -> S]
  PROVE  f \in Seq(S) /\ Len(f) = n
  OBVIOUS

(* A sequence with a length other than 0 is not empty. *)
LEMMA NotNone ==
  ASSUME NEW s, Len(s) # 0
  PROVE  s # <<>>
  OBVIOUS

(* A part that ends before it begins. *)
LEMMA NoPart ==
  ASSUME NEW S, NEW s \in Seq(S), NEW i \in Int, NEW k \in Int, k < i
  PROVE  SubSeq(s, i, k) = None
  BY DEF None

(* Joining nothing changes nothing. *)
LEMMA NoneMore ==
  ASSUME NEW S, NEW b \in Seq(S)
  PROVE  Cat(b, None) = b /\ Cat(None, b) = b
  BY ConcatEmptySeq DEF Cat, None

(* The elements of a joined sequence. *)
LEMMA CatType ==
  ASSUME NEW S, NEW a \in Seq(S), NEW b \in Seq(S)
  PROVE  Cat(a, b) \in Seq(S)
  BY ConcatProperties DEF Cat

(* A part, and the part one shorter. *)
LEMMA PartMore ==
  ASSUME NEW S, NEW s \in Seq(S), NEW i \in 1..Len(s), NEW k \in i..Len(s)
  PROVE  SubSeq(s, i, k) = Append(SubSeq(s, i, k - 1), s[k])
<1> DEFINE b == SubSeq(s, i, k - 1)
           x == s[k]
<1>1. b \in Seq(S) /\ x \in S
  OBVIOUS
<1>2. SubSeq(s, i, k) = b \o <<x>>
  BY SubSeqRecursiveSecond
<1> HIDE DEF b, x
<1>3. Append(b, x) = b \o <<x>>
  BY <1>1, AppendIsConcat
<1> QED BY <1>2, <1>3, Zenon DEF b, x

(* A part of the first i elements, then m for those up to j, then the rest *)
(* of them.                                                                *)
LEMMA FlatAround ==
  ASSUME NEW S, NEW ws \in Seq(S), NEW i \in Nat, NEW j \in Nat, i < j, j <= Len(ws), NEW m \in Seq(S),
         NEW f \in Seq(Seq(S)), Len(f) = Len(ws),
         \A k \in 1..Len(ws) : f[k] = IF k <= i \/ k > j THEN <<ws[k]>> ELSE IF k = i + 1 THEN m ELSE None
  PROVE  FlattenSeq(f) = Cat(Cat(SubSeq(ws, 1, i), m), SubSeq(ws, j + 1, Len(ws)))
<1> DEFINE n == Len(ws)
           front(k) == SubSeq(ws, 1, k)
           both == Cat(front(i), m)
           back(k) == SubSeq(ws, j + 1, k)
           p == [k \in 0..n |-> IF k <= i THEN front(k) ELSE IF k <= j THEN both ELSE Cat(both, back(k))]
<1>1. n \in Nat /\ i \in 0..n /\ j \in 1..n /\ i + 1 \in 1..j
  OBVIOUS
<1>2. \A k \in 0..n : front(k) \in Seq(S)
  BY <1>1, FrontFacts
<1>3. front(0) = None /\ back(j) = None
  BY <1>1 DEF None
<1>4. \A k \in 1..n : front(k) = Append(front(k - 1), ws[k]) /\ ws[k] \in S
  BY <1>1
<1>5. \A k \in j..n : back(k) \in Seq(S)
  BY <1>1
<1>6. \A k \in (j + 1)..n : back(k) = Append(back(k - 1), ws[k])
  <2> TAKE k \in (j + 1)..n
  <2>1. j + 1 \in 1..Len(ws) /\ k \in (j + 1)..Len(ws)
    BY <1>1
  <2> QED BY <2>1, PartMore
<1> HIDE DEF front, back
<1>7. both \in Seq(S)
  BY <1>1, <1>2, CatType
<1> HIDE DEF both
<1>8. \A k \in 0..i : p[k] = front(k)
  BY <1>1
<1>9. \A k \in (i + 1)..j : p[k] = both
  BY <1>1
<1>10. \A k \in j..n : p[k] = Cat(both, back(k))
  <2> TAKE k \in j..n
  <2>1. CASE k = j
    <3>1. p[k] = both
      BY <1>1, <1>9, <2>1
    <3>2. Cat(both, None) = both
      BY <1>7, NoneMore, Zenon
    <3> QED BY <1>3, <2>1, <3>1, <3>2
  <2>2. CASE k # j
    BY <1>1, <2>2
  <2> QED BY <2>1, <2>2
<1>11. p \in [0..n -> Seq(S)]
  <2>1. ASSUME NEW k \in 0..n PROVE (IF k <= i THEN front(k) ELSE IF k <= j THEN both ELSE Cat(both, back(k))) \in Seq(S)
    <3>1. CASE k <= i
      BY <1>2, <3>1
    <3>2. CASE ~(k <= i) /\ k <= j
      BY <1>7, <3>2
    <3>3. CASE ~(k <= j)
      <4>1. back(k) \in Seq(S) /\ ~(k <= i)
        BY <1>1, <1>5, <3>3
      <4>2. Cat(both, back(k)) \in Seq(S)
        BY <1>7, <4>1, CatType
      <4> QED BY <3>3, <4>1, <4>2
    <3> QED BY <3>1, <3>2, <3>3
  <2> QED BY <2>1
<1> HIDE DEF p
<1>12. ASSUME NEW k \in 1..n PROVE p[k] = Cat(p[k - 1], f[k])
  <2>1. CASE k <= i
    <3>1. k - 1 \in 0..i /\ k \in 0..i /\ k - 1 \in 0..n /\ f[k] = <<ws[k]>>
      <4>1. k - 1 \in 0..i /\ k \in 0..i /\ k - 1 \in 0..n
        BY <1>1, <2>1
      <4>2. f[k] = <<ws[k]>>
        BY <2>1
      <4> QED BY <4>1, <4>2
    <3> DEFINE a == front(k - 1)
               x == ws[k]
    <3>2. a \in Seq(S) /\ x \in S /\ front(k) = Append(a, x)
      BY <1>2, <1>4, <3>1
    <3>3. p[k] = Append(a, x) /\ p[k - 1] = a /\ f[k] = <<x>>
      BY <1>8, <3>1, <3>2
    <3> HIDE DEF a, x
    <3>4. Append(a, x) = Cat(a, <<x>>)
      BY <3>2, OneMore, Zenon
    <3> QED BY <3>3, <3>4
  <2>2. CASE k = i + 1
    <3>1. p[k] = both /\ p[k - 1] = front(i) /\ f[k] = m
      <4>1. k \in (i + 1)..j /\ k - 1 = i /\ i \in 0..i /\ ~(k <= i \/ k > j)
        BY <1>1, <2>2
      <4>2. f[k] = m
        BY <2>2, <4>1
      <4>3. p[k] = both
        BY <1>9, <4>1, Zenon
      <4>4. p[i] = front(i)
        BY <1>8, <4>1, Zenon
      <4> QED BY <4>1, <4>2, <4>3, <4>4
    <3> QED BY <3>1, Zenon DEF both
  <2>3. CASE k > i + 1 /\ k <= j
    <3>1. k \in (i + 1)..j /\ k - 1 \in (i + 1)..j /\ ~(k <= i \/ k > j) /\ k # i + 1
      BY <1>1, <2>3
    <3>2. p[k] = both /\ p[k - 1] = both
      BY <1>9, <3>1, Zenon
    <3>3. f[k] = None
      BY <3>1
    <3>4. Cat(both, None) = both
      BY <1>7, NoneMore, Zenon
    <3> QED BY <3>2, <3>3, <3>4
  <2>4. CASE k > j
    <3>1. k - 1 \in j..n /\ k \in j..n /\ k \in (j + 1)..n /\ f[k] = <<ws[k]>>
      <4>1. k - 1 \in j..n /\ k \in j..n /\ k \in (j + 1)..n
        BY <1>1, <2>4
      <4>2. f[k] = <<ws[k]>>
        BY <2>4
      <4> QED BY <4>1, <4>2
    <3> DEFINE b == back(k - 1)
               x == ws[k]
               one == <<x>>
    <3>2. b \in Seq(S) /\ x \in S /\ back(k) = Append(b, x)
      BY <1>4, <1>5, <1>6, <3>1
    <3>3. p[k] = Cat(both, back(k)) /\ p[k - 1] = Cat(both, b) /\ f[k] = one
      BY <1>10, <3>1
    <3> HIDE DEF b, x
    <3>4. Append(b, x) = Cat(b, one) /\ one \in Seq(S)
      BY <3>2, OneMore, Zenon
    <3> HIDE DEF one
    <3>5. Cat(Cat(both, b), one) = Cat(both, Cat(b, one))
      BY <1>7, <3>2, <3>4, CatAssociative
    <3> QED BY <3>2, <3>3, <3>4, <3>5, Zenon
  <2> QED BY <1>1, <2>1, <2>2, <2>3, <2>4
<1>13. Pieces(S, f, p)
  <2>1. p[0] = <<>>
    <3>1. 0 \in 0..i
      BY <1>1
    <3> QED BY <1>3, <1>8, <3>1 DEF None
  <2> QED BY <1>11, <1>12, <2>1 DEF Pieces
<1>14. FlattenSeq(f) = p[n]
  BY <1>13, FlatIs
<1>15. p[n] = Cat(both, back(n))
  <2>1. n \in j..n
    BY <1>1
  <2> QED BY <1>10, <2>1, Zenon
<1> QED BY <1>14, <1>15, Zenon DEF both, back, front, n

(* The elements after the first i, up to the j-th. *)
LEMMA FlatWithin ==
  ASSUME NEW S, NEW ws \in Seq(S), NEW i \in Nat, NEW j \in Int,
         NEW f \in Seq(Seq(S)), Len(f) = Len(ws),
         \A k \in 1..Len(ws) : f[k] = IF i < k /\ k <= j THEN <<ws[k]>> ELSE None
  PROVE  FlattenSeq(f) = SubSeq(ws, i + 1, Lesser(j, Len(ws)))
<1> DEFINE n == Len(ws)
           part(k) == SubSeq(ws, i + 1, Lesser(j, k))
           p == [k \in 0..n |-> part(k)]
<1>1. n \in Nat /\ \A k \in 0..n : Lesser(j, k) \in Int /\ Lesser(j, k) <= k
  BY DEF Lesser
<1>2. \A k \in 0..n : part(k) \in Seq(S)
  BY <1>1
<1>3. part(0) = None
  BY <1>1 DEF Lesser, None
<1>4. ASSUME NEW k \in 1..n PROVE part(k) = Cat(part(k - 1), f[k])
  <2>1. k - 1 \in 0..n /\ part(k - 1) \in Seq(S) /\ ws[k] \in S
    BY <1>1, <1>2
  <2>2. CASE i < k /\ k <= j
    <3>1. Lesser(j, k) = k /\ Lesser(j, k - 1) = k - 1 /\ f[k] = <<ws[k]>>
      <4>1. f[k] = <<ws[k]>>
        BY <2>2
      <4>2. k \in Int /\ k - 1 \in Int /\ k <= j /\ k - 1 < j
        BY <1>1, <2>2
      <4> QED BY <4>1, <4>2 DEF Lesser
    <3>2. SubSeq(ws, i + 1, k) = Append(SubSeq(ws, i + 1, k - 1), ws[k])
      <4>1. i + 1 \in 1..Len(ws) /\ k \in (i + 1)..Len(ws)
        BY <1>1, <2>2
      <4> QED BY <4>1, PartMore
    <3> DEFINE a == SubSeq(ws, i + 1, k - 1)
               x == ws[k]
    <3>3. part(k) = Append(a, x) /\ part(k - 1) = a /\ f[k] = <<x>>
      BY <3>1, <3>2
    <3> HIDE DEF a, x, part
    <3>4. a \in Seq(S) /\ x \in S
      BY <2>1, <3>3 DEF x
    <3>5. Append(a, x) = Cat(a, <<x>>)
      BY <3>4, OneMore, Zenon
    <3> QED BY <3>3, <3>5
  <2>3. CASE ~(i < k)
    <3>1. f[k] = None
      BY <2>3
    <3>2. part(k) = None /\ part(k - 1) = None
      <4>1. Lesser(j, k) < i + 1 /\ Lesser(j, k - 1) < i + 1 /\ Lesser(j, k) \in Int /\ Lesser(j, k - 1) \in Int
        BY <1>1, <2>3 DEF Lesser
      <4>2. i + 1 \in Int
        OBVIOUS
      <4> QED BY <4>1, <4>2, NoPart, Zenon
    <3> HIDE DEF part
    <3>3. Cat(None, None) = None
      BY NoneIs, NoneMore, Zenon
    <3> QED BY <3>1, <3>2, <3>3
  <2>4. CASE ~(k <= j)
    <3>1. Lesser(j, k) = j /\ Lesser(j, k - 1) = j /\ f[k] = None
      <4>1. f[k] = None
        BY <2>4
      <4>2. k \in Int /\ k - 1 \in Int /\ j < k /\ j <= k - 1
        BY <1>1, <2>4
      <4> QED BY <4>1, <4>2 DEF Lesser
    <3>2. part(k) = part(k - 1)
      BY <3>1
    <3> DEFINE a == part(k - 1)
    <3> HIDE DEF a, part
    <3>3. Cat(a, None) = a
      BY <2>1, NoneMore, Zenon DEF a
    <3> QED BY <3>1, <3>2, <3>3 DEF a
  <2> QED BY <2>2, <2>3, <2>4
<1> HIDE DEF part
<1>5. p \in [0..n -> Seq(S)] /\ \A k \in 0..n : p[k] = part(k)
  BY <1>2
<1> HIDE DEF p
<1>6. \A k \in 1..n : p[k] = Cat(p[k - 1], f[k])
  <2> TAKE k \in 1..n
  <2>1. k - 1 \in 0..n /\ k \in 0..n
    BY <1>1
  <2> QED BY <1>4, <1>5, <2>1
<1>7. p[0] = <<>>
  BY <1>1, <1>3, <1>5 DEF None
<1>8. Pieces(S, f, p)
  BY <1>5, <1>6, <1>7 DEF Pieces
<1>9. FlattenSeq(f) = p[n]
  BY <1>8, FlatIs
<1>10. p[n] = part(n)
  BY <1>1, <1>5
<1> QED BY <1>9, <1>10, Zenon DEF part, n

Keeps == {w \in Scripts : Storable(w)}

(* Words that are kept make a list that is read back. *)
LEMMA KeptIs == ASSUME NEW ws \in Seq(Keeps) PROVE KeptWords(ws)
<1>1. ws \in Seq(Scripts) /\ \A k \in 1..Len(ws) : ws[k] \in Keeps
  BY DEF Keeps
<1> QED BY <1>1 DEF KeptWords, Kept, Keeps

(* The elements of a list, for the words the lemmas below speak of. *)
LEMMA Listed ==
  ASSUME NEW ws \in Seq(Keeps)
  PROVE  Elements(List(ws)) = ws
  BY KeptIs, ListIs

(* list, lindex, in and llength look at the elements. *)
LEMMA LindexIs ==
  ASSUME NEW ws \in Seq(Keeps), NEW n, Inside(n, ws)
  PROVE  Lindex(List(ws), n) = ws[n + 1]
  BY Listed DEF Lindex, Llength, Inside

(* in finds a word when the list has it. *)
LEMMA InIs ==
  ASSUME NEW ws \in Seq(Keeps), NEW w
  PROVE  In(w, List(ws)) <=> Contains(ws, w)
<1>1. DOMAIN ws = 1..Len(ws)
  OBVIOUS
<1> QED BY <1>1, Listed, Zenon DEF In, Contains

(* linsert puts its word before the element at pos. *)
LEMMA LinsertIs ==
  ASSUME NEW ws \in Seq(Keeps), NEW w \in Keeps, NEW pos, Inside(pos, ws), pos # End
  PROVE  Elements(Linsert(List(ws), pos, w)) = InsertAt(ws, pos + 1, w)
<1> DEFINE n == Len(ws)
           x == ws[pos + 1]
           m == <<w, x>>
           f == [k \in DOMAIN ws |-> IF k - 1 = pos THEN <<w, ws[k]>> ELSE <<ws[k]>>]
           front == SubSeq(ws, 1, pos)
           back == SubSeq(ws, pos + 2, n)
<1>1. n \in Nat /\ pos \in Nat /\ pos + 1 \in 1..n /\ pos < pos + 1 /\ DOMAIN ws = 1..n
  BY DEF Inside
<1>2. Linsert(List(ws), pos, w) = List(Cat(FlattenSeq(f), None))
  BY <1>1, Listed, Zenon DEF Linsert, EachOf, Cat, None
<1>3. x \in Keeps /\ \A k \in 1..n : ws[k] \in Keeps
  BY <1>1
<1>4. m \in Seq(Keeps)
  BY <1>3
<1>15. m = Cat(<<w>>, <<x>>)
  BY <1>3 DEF Cat
<1>5. f \in Seq(Seq(Keeps)) /\ Len(f) = n
  <2>1. \A k \in 1..n : <<w, ws[k]>> \in Seq(Keeps) /\ <<ws[k]>> \in Seq(Keeps)
    BY <1>3
  <2>2. \A k \in 1..n : (IF k - 1 = pos THEN <<w, ws[k]>> ELSE <<ws[k]>>) \in Seq(Keeps)
    BY <2>1, Zenon
  <2>3. f \in [1..n -> Seq(Keeps)]
    BY <1>1, <2>2
  <2> QED BY <1>1, <2>3
<1>6. \A k \in 1..n : f[k] = IF k <= pos \/ k > pos + 1 THEN <<ws[k]>> ELSE IF k = pos + 1 THEN m ELSE None
  <2> TAKE k \in 1..n
  <2>1. CASE k = pos + 1
    BY <1>1, <2>1
  <2>2. CASE k # pos + 1
    BY <1>1, <2>2
  <2> QED BY <2>1, <2>2
<1> HIDE DEF m, f
<1>7. FlattenSeq(f) = Cat(Cat(front, m), back)
  <2>1. pos + 1 \in Nat /\ pos + 1 <= Len(ws) /\ (pos + 1) + 1 = pos + 2
    BY <1>1
  <2> QED BY <1>1, <1>4, <1>5, <1>6, <2>1, FlatAround
<1>8. front \in Seq(Keeps) /\ back \in Seq(Keeps) /\ <<w>> \in Seq(Keeps) /\ <<x>> \in Seq(Keeps)
  BY <1>1, <1>3
<1>9. SubSeq(ws, pos + 1, n) = Cat(<<x>>, back)
  <2> DEFINE j == pos + 1
  <2>1. j \in 1..n /\ n \in j..n /\ j + 1 = pos + 2
    BY <1>1
  <2> HIDE DEF j
  <2>2. SubSeq(ws, j, n) = <<ws[j]>> \o SubSeq(ws, j + 1, n)
    BY <2>1, SubSeqRecursiveFirst
  <2> QED BY <2>1, <2>2, Zenon DEF Cat, j
<1> DEFINE o == <<w>>
           p == <<x>>
<1>10. Cat(Cat(front, m), back) = Cat(Cat(front, o), Cat(p, back))
  <2> HIDE DEF front, back, o, p
  <2>1. o \in Seq(Keeps) /\ p \in Seq(Keeps) /\ m = Cat(o, p)
    BY <1>8, <1>15 DEF o, p
  <2>2. Cat(front, Cat(Cat(o, p), back)) = Cat(Cat(front, o), Cat(p, back))
    BY <1>8, <2>1, Regroup
  <2>3. Cat(Cat(front, m), back) = Cat(front, Cat(m, back))
    BY <1>4, <1>8, CatAssociative
  <2> QED BY <2>1, <2>2, <2>3
<1>11. InsertAt(ws, pos + 1, w) = Cat(Cat(front, o), Cat(p, back))
  <2>1. (pos + 1) - 1 = pos
    BY <1>1
  <2> QED BY <1>9, <2>1, Zenon DEF InsertAt, Cat
<1>12. FlattenSeq(f) \in Seq(Keeps)
  <2> HIDE DEF front, back
  <2>1. Cat(front, m) \in Seq(Keeps)
    BY <1>4, <1>8, CatType
  <2>2. Cat(Cat(front, m), back) \in Seq(Keeps)
    BY <1>8, <2>1, CatType
  <2> QED BY <1>7, <2>2
<1> DEFINE g == FlattenSeq(f)
<1> HIDE DEF g
<1>13. Cat(g, None) = g
  BY <1>12, NoneMore DEF g
<1>14. Elements(List(g)) = g
  BY <1>12, Listed DEF g
<1> QED BY <1>2, <1>7, <1>10, <1>11, <1>13, <1>14, Zenon DEF g

(* linsert at end appends. *)
LEMMA LinsertEnd ==
  ASSUME NEW ws \in Seq(Keeps), NEW w \in Keeps, Len(ws) < End
  PROVE  Elements(Linsert(List(ws), End, w)) = Append(ws, w)
<1> DEFINE n == Len(ws)
           f == [k \in DOMAIN ws |-> IF k - 1 = End THEN <<w, ws[k]>> ELSE <<ws[k]>>]
<1>1. n \in Nat /\ DOMAIN ws = 1..n /\ \A k \in 1..n : ws[k] \in Keeps /\ k - 1 # End
  BY DEF End
<1>2. Linsert(List(ws), End, w) = List(Cat(FlattenSeq(f), <<w>>))
  BY <1>1, Listed, Zenon DEF Linsert, EachOf, Cat
<1>3. f = [k \in 1..n |-> <<ws[k]>>]
  BY <1>1
<1>4. f \in Seq(Seq(Keeps)) /\ Len(f) = n
  <2>1. \A k \in 1..n : <<ws[k]>> \in Seq(Keeps)
    BY <1>1
  <2>2. f \in [1..n -> Seq(Keeps)]
    BY <1>3, <2>1
  <2> QED BY <1>1, <2>2
<1>5. \A k \in 1..n : f[k] = IF 0 < k /\ k <= n THEN <<ws[k]>> ELSE None
  BY <1>1, <1>3
<1> HIDE DEF f
<1>6. FlattenSeq(f) = SubSeq(ws, 1, n)
  <2> DEFINE z == 0
  <2>3. z \in Nat /\ z + 1 = 1
    OBVIOUS
  <2>6. \A k \in 1..n : f[k] = IF z < k /\ k <= n THEN <<ws[k]>> ELSE None
    BY <1>5, Zenon
  <2> HIDE DEF z
  <2>5. n \in Int
    BY <1>1
  <2>4. FlattenSeq(f) = SubSeq(ws, z + 1, Lesser(n, n))
    BY <1>4, <2>3, <2>5, <2>6, FlatWithin, Zenon
  <2>1. FlattenSeq(f) = SubSeq(ws, 1, Lesser(n, n))
    BY <2>3, <2>4
  <2>2. Lesser(n, n) = n
    BY <1>1 DEF Lesser
  <2> QED BY <2>1, <2>2
<1>7. FlattenSeq(f) = ws
  BY <1>6, SubSeqFull
<1>8. Append(ws, w) = Cat(ws, <<w>>) /\ Cat(ws, <<w>>) \in Seq(Keeps)
  BY OneMore
<1> QED BY <1>2, <1>7, <1>8, Listed

(* lset replaces the element at pos. *)
LEMMA LsetIs ==
  ASSUME NEW ws \in Seq(Keeps), NEW w \in Keeps, NEW pos, Inside(pos, ws)
  PROVE  Elements(Lset(List(ws), pos, w)) = ReplaceAt(ws, pos + 1, w)
<1> DEFINE n == Len(ws)
           m == <<w>>
           f == [k \in DOMAIN ws |-> IF k - 1 = pos THEN m ELSE <<ws[k]>>]
           front == SubSeq(ws, 1, pos)
           back == SubSeq(ws, pos + 2, n)
           g == ReplaceAt(ws, pos + 1, w)
<1>1. n \in Nat /\ pos \in Nat /\ pos + 1 \in 1..n /\ pos < pos + 1 /\ DOMAIN ws = 1..n /\ pos \in 0..n
  BY DEF Inside
<1>2. Lset(List(ws), pos, w) = List(FlattenSeq(f))
  BY <1>1, Listed, Zenon DEF Lset, Llength, EachOf
<1>3. m \in Seq(Keeps) /\ \A k \in 1..n : ws[k] \in Keeps
  BY <1>1
<1>4. f \in Seq(Seq(Keeps)) /\ Len(f) = n
  <2>1. \A k \in 1..n : m \in Seq(Keeps) /\ <<ws[k]>> \in Seq(Keeps)
    BY <1>3
  <2> HIDE DEF m
  <2>2. f \in [1..n -> Seq(Keeps)]
    BY <1>1, <2>1
  <2> QED BY <1>1, <2>2
<1>5. \A k \in 1..n : f[k] = IF k <= pos \/ k > pos + 1 THEN <<ws[k]>> ELSE IF k = pos + 1 THEN m ELSE None
  <2> TAKE k \in 1..n
  <2>1. CASE k = pos + 1
    BY <1>1, <2>1
  <2>2. CASE k # pos + 1
    BY <1>1, <2>2
  <2> QED BY <2>1, <2>2
<1> HIDE DEF f
<1>6. FlattenSeq(f) = Cat(Cat(front, m), back)
  <2> HIDE DEF m
  <2>1. pos + 1 \in Nat /\ pos + 1 <= Len(ws) /\ (pos + 1) + 1 = pos + 2
    BY <1>1
  <2> QED BY <1>1, <1>3, <1>4, <1>5, <2>1, FlatAround
<1>7. front \in Seq(Keeps) /\ Len(front) = pos /\ \A k \in 1..pos : front[k] = ws[k]
  BY <1>1
<1>8. back \in Seq(Keeps) /\ Len(back) = n - (pos + 1) /\ \A k \in 1..(n - (pos + 1)) : back[k] = ws[pos + 1 + k]
  <2> DEFINE j == pos + 1
  <2>1. j \in 0..n /\ j + 1 = pos + 2
    BY <1>1
  <2> HIDE DEF j
  <2>2. /\ SubSeq(ws, j + 1, n) \in Seq(Keeps) /\ Len(SubSeq(ws, j + 1, n)) = n - j
        /\ \A k \in 1..(n - j) : SubSeq(ws, j + 1, n)[k] = ws[j + k]
    BY <2>1, DropFacts, Zenon DEF Drop
  <2> QED BY <2>1, <2>2 DEF j
<1>9. g \in Seq(Keeps) /\ Len(g) = n /\ g[pos + 1] = w /\ \A k \in 1..n : k # pos + 1 => g[k] = ws[k]
  BY <1>1, <1>3 DEF ReplaceAt
<1>10. Len(m) = 1 /\ m[1] = w
  OBVIOUS
<1> HIDE DEF front, back, g, m
<1> DEFINE u == Cat(front, m)
<1>11. Joined(Keeps, front, m, u)
  BY <1>3, <1>7, CatFacts
<1>12. u \in Seq(Keeps) /\ Len(u) = pos + 1 /\ u[pos + 1] = w /\ \A k \in 1..pos : u[k] = ws[k]
  BY <1>1, <1>7, <1>10, <1>11 DEF Joined
<1> HIDE DEF u
<1> DEFINE v == Cat(u, back)
<1>13. Joined(Keeps, u, back, v)
  BY <1>8, <1>12, CatFacts
<1>14. v \in Seq(Keeps) /\ Len(v) = n /\ \A k \in 1..n : v[k] = IF k <= pos + 1 THEN u[k] ELSE ws[k]
  <2>1. v \in Seq(Keeps) /\ Len(v) = Len(u) + Len(back)
    BY <1>13 DEF Joined
  <2>2. ASSUME NEW k \in 1..n PROVE v[k] = IF k <= pos + 1 THEN u[k] ELSE ws[k]
    <3>1. CASE k <= pos + 1
      BY <1>1, <1>12, <1>13, <3>1 DEF Joined
    <3>2. CASE k > pos + 1
      <4> DEFINE i == k - (pos + 1)
      <4>1. i \in 1..(n - (pos + 1)) /\ k = (pos + 1) + i /\ i \in 1..Len(back)
        BY <1>1, <1>8, <3>2
      <4> HIDE DEF i
      <4>2. v[(pos + 1) + i] = back[i]
        BY <1>12, <1>13, <4>1 DEF Joined
      <4>3. back[i] = ws[(pos + 1) + i]
        BY <1>8, <4>1
      <4> QED BY <1>1, <3>2, <4>1, <4>2, <4>3
    <3> QED BY <1>1, <3>1, <3>2
  <2> QED BY <1>1, <1>8, <1>12, <2>1, <2>2
<1> HIDE DEF v
<1>15. \A k \in 1..n : v[k] = g[k]
  <2> TAKE k \in 1..n
  <2>1. CASE k = pos + 1
    BY <1>1, <1>9, <1>12, <1>14, <2>1
  <2>2. CASE k # pos + 1
    <3>1. g[k] = ws[k]
      BY <1>9, <2>2
    <3>2. v[k] = ws[k]
      BY <1>1, <1>12, <1>14, <2>2
    <3> QED BY <3>1, <3>2
  <2> QED BY <2>1, <2>2
<1>16. v = g
  BY <1>9, <1>14, <1>15, SeqEqual
<1>17. FlattenSeq(f) = g
  BY <1>6, <1>16, Zenon DEF v, u
<1> QED BY <1>2, <1>9, <1>17, Listed DEF g

(* lrange keeps the elements from from to to. *)
LEMMA LrangeIs ==
  ASSUME NEW ws \in Seq(Keeps), NEW from \in Int, NEW to \in Int
  PROVE  Elements(Lrange(List(ws), from, to)) = SubSeq(ws, Greater(from, 0) + 1, Lesser(to + 1, Len(ws)))
<1> DEFINE n == Len(ws)
           i == Greater(from, 0)
           j == to + 1
           f == [k \in DOMAIN ws |-> IF from <= k - 1 /\ k - 1 <= to THEN <<ws[k]>> ELSE <<>>]
<1>1. n \in Nat /\ DOMAIN ws = 1..n /\ i \in Nat /\ j \in Int /\ \A k \in 1..n : ws[k] \in Keeps
  BY DEF Greater
<1>2. Lrange(List(ws), from, to) = List(FlattenSeq(f))
  BY Listed, Zenon DEF Lrange, EachOf
<1>3. f \in Seq(Seq(Keeps)) /\ Len(f) = n
  <2>1. \A k \in 1..n : <<ws[k]>> \in Seq(Keeps) /\ <<>> \in Seq(Keeps)
    BY <1>1
  <2>2. \A k \in 1..n : (IF from <= k - 1 /\ k - 1 <= to THEN <<ws[k]>> ELSE <<>>) \in Seq(Keeps)
    BY <2>1, Zenon
  <2>3. f \in [1..n -> Seq(Keeps)]
    BY <1>1, <2>2
  <2> QED BY <1>1, <2>3
<1>4. \A k \in 1..n : f[k] = IF i < k /\ k <= j THEN <<ws[k]>> ELSE None
  <2> TAKE k \in 1..n
  <2>1. (from <= k - 1 /\ k - 1 <= to) <=> (i < k /\ k <= j)
    BY <1>1 DEF Greater
  <2>2. f[k] = IF from <= k - 1 /\ k - 1 <= to THEN <<ws[k]>> ELSE <<>>
    BY <1>1
  <2> HIDE DEF f
  <2> QED BY <2>1, <2>2, Zenon DEF None
<1> HIDE DEF f, i, j
<1>5. FlattenSeq(f) = SubSeq(ws, i + 1, Lesser(j, n))
  BY <1>1, <1>3, <1>4, FlatWithin, Zenon
<1>6. SubSeq(ws, i + 1, Lesser(j, n)) \in Seq(Keeps)
  BY <1>1 DEF Lesser
<1> QED BY <1>2, <1>5, <1>6, Listed DEF i, j

(* lreplace puts its word in the place of the elements from from to to. *)
LEMMA LreplaceIs ==
  ASSUME NEW ws \in Seq(Keeps), NEW from \in Int, NEW to \in Int, NEW w \in Keeps,
         Inside(Greater(from, 0), ws), from <= to, to >= 0
  PROVE  Elements(Lreplace(List(ws), from, to, w)) =
           Cat(Cat(SubSeq(ws, 1, from), <<w>>), SubSeq(ws, to + 2, Len(ws)))
<1> DEFINE n == Len(ws)
           i == Greater(from, 0)
           j == Lesser(to + 1, n)
           m == <<w>>
           f == [k \in DOMAIN ws |-> IF k - 1 < from \/ k - 1 > to THEN <<ws[k]>>
                                     ELSE IF k - 1 = Greater(from, 0) THEN m ELSE <<>>]
<1>1. n \in Nat /\ DOMAIN ws = 1..n /\ i \in Nat /\ j \in Nat /\ i < j /\ j <= n
  BY DEF Greater, Lesser, Inside
<1>2. m \in Seq(Keeps) /\ \A k \in 1..n : ws[k] \in Keeps
  BY <1>1
<1>3. Lreplace(List(ws), from, to, w) = List(FlattenSeq(f))
  BY Listed, Zenon DEF Lreplace, EachOf
<1>4. f \in Seq(Seq(Keeps)) /\ Len(f) = n
  <2>1. \A k \in 1..n : <<ws[k]>> \in Seq(Keeps) /\ <<>> \in Seq(Keeps)
    BY <1>2
  <2> HIDE DEF m
  <2>2. \A k \in 1..n : (IF k - 1 < from \/ k - 1 > to THEN <<ws[k]>>
                         ELSE IF k - 1 = Greater(from, 0) THEN m ELSE <<>>) \in Seq(Keeps)
    BY <1>2, <2>1, Zenon
  <2>3. f \in [1..n -> Seq(Keeps)]
    BY <1>1, <2>2
  <2> QED BY <1>1, <2>3
<1>5. \A k \in 1..n : f[k] = IF k <= i \/ k > j THEN <<ws[k]>> ELSE IF k = i + 1 THEN m ELSE None
  <2> TAKE k \in 1..n
  <2>1. (k - 1 < from \/ k - 1 > to) <=> (k <= i \/ k > j)
    BY <1>1 DEF Greater, Lesser
  <2>2. k - 1 = Greater(from, 0) <=> k = i + 1
    BY <1>1
  <2> HIDE DEF m
  <2>3. f[k] = IF k - 1 < from \/ k - 1 > to THEN <<ws[k]>>
               ELSE IF k - 1 = Greater(from, 0) THEN m ELSE <<>>
    BY <1>1
  <2> HIDE DEF f, i, j
  <2> QED BY <2>1, <2>2, <2>3, Zenon DEF None
<1>6. SubSeq(ws, 1, i) = SubSeq(ws, 1, from)
  <2>1. CASE from >= 0
    <3>1. i = from
      BY <2>1 DEF Greater
    <3> QED BY <3>1
  <2>2. CASE from < 0
    <3>1. i = 0
      BY <2>2 DEF Greater
    <3>2. SubSeq(ws, 1, 0) = <<>> /\ SubSeq(ws, 1, from) = <<>>
      BY <2>2, SubSeqEmpty
    <3> QED BY <3>1, <3>2
  <2>3. from >= 0 \/ from < 0
    OBVIOUS
  <2> QED BY <2>1, <2>2, <2>3, Zenon
<1>7. SubSeq(ws, j + 1, n) = SubSeq(ws, to + 2, n)
  <2>1. CASE to + 1 <= n
    <3>1. j + 1 = to + 2
      BY <1>1, <2>1 DEF Lesser
    <3> QED BY <3>1
  <2>2. CASE to + 1 > n
    <3>3. n \in Int /\ ~(to + 1 < n) /\ n + 1 \in Int /\ to + 2 \in Int /\ n < n + 1 /\ n < to + 2
      BY <1>1, <2>2
    <3>4. j = n
      BY <3>3, Zenon DEF Lesser
    <3>1. j = n /\ n + 1 \in Int /\ to + 2 \in Int /\ n < n + 1 /\ n < to + 2 /\ n \in Int
      BY <3>3, <3>4
    <3>2. SubSeq(ws, n + 1, n) = <<>> /\ SubSeq(ws, to + 2, n) = <<>>
      BY <3>1, SubSeqEmpty
    <3> QED BY <3>1, <3>2
  <2> QED BY <1>1, <2>1, <2>2
<1>8. SubSeq(ws, 1, i) \in Seq(Keeps) /\ SubSeq(ws, j + 1, n) \in Seq(Keeps)
  BY <1>1
<1> HIDE DEF f, i, j, m
<1>9. FlattenSeq(f) = Cat(Cat(SubSeq(ws, 1, i), m), SubSeq(ws, j + 1, n))
  <2>1. i \in Nat /\ j \in Nat /\ i < j /\ j <= Len(ws) /\ m \in Seq(Keeps)
    BY <1>1, <1>2
  <2>2. \A k \in 1..Len(ws) : f[k] = IF k <= i \/ k > j THEN <<ws[k]>> ELSE IF k = i + 1 THEN m ELSE None
    BY <1>5
  <2>3. f \in Seq(Seq(Keeps)) /\ Len(f) = Len(ws)
    BY <1>4
  <2> QED BY <2>1, <2>2, <2>3, FlatAround
<1>10. FlattenSeq(f) \in Seq(Keeps)
  <2> DEFINE a == SubSeq(ws, 1, i)
             b == SubSeq(ws, j + 1, n)
  <2>1. a \in Seq(Keeps) /\ b \in Seq(Keeps) /\ FlattenSeq(f) = Cat(Cat(a, m), b)
    BY <1>8, <1>9
  <2> HIDE DEF a, b
  <2>2. Cat(a, m) \in Seq(Keeps)
    BY <1>2, <2>1, CatType
  <2> QED BY <2>1, <2>2, CatType
<1>11. Elements(List(FlattenSeq(f))) = FlattenSeq(f)
  BY <1>10, Listed
<1> QED BY <1>3, <1>6, <1>7, <1>9, <1>11, Zenon DEF m

(* What concat has put together after some words: nothing, or the elements *)
(* q and a blank.                                                          *)
Held(u, p, q) == Tidy(u) /\ Elements(u) = q /\ p = IF u = <<>> THEN None ELSE Cat(u, Gap)
Spaced(w) == IF w = <<>> THEN w ELSE Append(w, SP)

(* concat adds the elements of one more list. *)
LEMMA HeldNext ==
  ASSUME NEW u, NEW p, NEW q, Held(u, p, q), NEW w, Tidy(w), w = <<>> \/ w[1] # SP
  PROVE  /\ \E v : Held(v, Cat(p, Spaced(w)), Cat(q, Elements(w)))
         /\ Elements(Cat(p, w)) = Cat(q, Elements(w))
<1>1. u \in Scripts /\ w \in Scripts /\ Tidy(u) /\ Elements(u) = q
  BY DEF Held, Tidy
<1>2. q \in Seq(Scripts) /\ Elements(w) \in Seq(Scripts) /\ None \in Seq(Scripts) /\ None \in Scripts
  BY <1>1, ElementsAre, NoneIs DEF Scripts
<1>3. Cat(w, None) = w /\ Cat(None, w) = w /\ Gap \in Scripts
  BY <1>1, NoneMore, CharsHave DEF Scripts
<1>4. Append(w, SP) = Cat(w, Gap) /\ Cat(w, Gap) \in Scripts
  <2>1. SP \in Chars
    BY CharsHave
  <2> QED BY <1>1, <2>1, OneMore, Zenon DEF Scripts, Gap
<1>5. CASE u = <<>>
  <2>1. p = None /\ q = None
    BY <1>1, <1>5, ElementsEmpty DEF Held, None
  <2>2. Cat(q, Elements(w)) = Elements(w)
    BY <1>2, <2>1, NoneMore
  <2>3. CASE w = <<>>
    <3>1. Spaced(w) = None /\ w = None
      BY <2>3, Zenon DEF Spaced, None
    <3>2. Held(w, Cat(p, Spaced(w)), Cat(q, Elements(w)))
      BY <1>3, <2>1, <2>2, <2>3, <3>1 DEF Held
    <3> QED BY <1>3, <2>1, <2>2, <3>2
  <2>4. CASE w # <<>>
    <3>1. Spaced(w) = Cat(w, Gap)
      BY <1>4, <2>4, Zenon DEF Spaced
    <3>2. Cat(None, Cat(w, Gap)) = Cat(w, Gap)
      BY <1>4, NoneMore DEF Scripts
    <3>3. Held(w, Cat(p, Spaced(w)), Cat(q, Elements(w)))
      BY <2>1, <2>2, <2>4, <3>1, <3>2, Zenon DEF Held
    <3> QED BY <1>3, <2>1, <2>2, <3>3
  <2> QED BY <2>3, <2>4
<1>6. CASE u # <<>>
  <2>1. p = Cat(u, Gap)
    BY <1>6 DEF Held
  <2> DEFINE v == Cat(u, Cat(Gap, w))
  <2>2. Elements(v) = Cat(q, Elements(w))
    BY <1>1, <1>6, ElementsConcat, Zenon DEF Splits
  <2>3. Tidy(Cat(Gap, w)) /\ Cat(Gap, w) \in Scripts /\ Cat(Gap, w) # <<>>
    BY GapFacts
  <2>4. Tidy(v)
    BY <1>1, <2>3, TidyConcat
  <2>5. Cat(p, w) = v
    <3>1. Cat(Cat(u, Gap), w) = Cat(u, Cat(Gap, w))
      BY <1>1, <1>3, CatAssociative DEF Scripts
    <3> QED BY <2>1, <3>1, Zenon
  <2>6. v # <<>> /\ v \in Scripts
    <3>1. v = <<>> <=> u = <<>> /\ Cat(Gap, w) = <<>>
      BY <1>1, <2>3, ConcatProperties DEF Cat, Scripts
    <3> QED BY <1>6, <2>4, <3>1 DEF Tidy
  <2> HIDE DEF v
  <2>7. CASE w = <<>>
    <3>1. Spaced(w) = None /\ Elements(w) = None
      BY <2>7, ElementsEmpty, Zenon DEF Spaced, None
    <3>2. Cat(q, Elements(w)) = q /\ Cat(p, Spaced(w)) = p
      <4>1. p \in Scripts
        BY <1>1, <1>3, <2>1, CatType DEF Scripts
      <4> QED BY <1>2, <3>1, <4>1, NoneMore DEF Scripts
    <3> QED BY <2>2, <2>5, <3>2
  <2>8. CASE w # <<>>
    <3>1. Spaced(w) = Cat(w, Gap)
      BY <1>4, <2>8, Zenon DEF Spaced
    <3>2. p \in Scripts
      BY <1>1, <1>3, <2>1, CatType DEF Scripts
    <3>3. Cat(p, Cat(w, Gap)) = Cat(Cat(p, w), Gap)
      BY <1>1, <1>3, <3>2, CatAssociative DEF Scripts
    <3>4. Held(v, Cat(p, Spaced(w)), Cat(q, Elements(w)))
      BY <2>2, <2>4, <2>5, <2>6, <3>1, <3>3, Zenon DEF Held
    <3> QED BY <2>2, <2>5, <3>4
  <2> QED BY <2>7, <2>8
<1> QED BY <1>5, <1>6

(* concat makes one list of several. *)
LEMMA ConcatIs ==
  ASSUME NEW ws \in Seq(Keeps), \A k \in 1..Len(ws) : ws[k] = <<>> \/ ws[k][1] # SP
  PROVE  Elements(Concat(ws)) = FlattenSeq([k \in DOMAIN ws |-> Elements(ws[k])])
<1> DEFINE n == Len(ws)
           f == [k \in DOMAIN ws |-> IF ws[k] # <<>> /\ k < Len(ws) THEN Append(ws[k], SP) ELSE ws[k]]
           g == [k \in DOMAIN ws |-> Elements(ws[k])]
<1>1. n \in Nat /\ DOMAIN ws = 1..n
  OBVIOUS
<1>2. \A k \in 1..n : ws[k] \in Scripts /\ Tidy(ws[k])
  <2>1. \A k \in 1..n : ws[k] \in Keeps
    BY <1>1
  <2> QED BY <2>1 DEF Keeps, Storable, Tidy
<1>3. Concat(ws) = FlattenSeq(f)
  BY Zenon DEF Concat, SP
<1>4. \A k \in 1..n : f[k] = IF k < n THEN Spaced(ws[k]) ELSE ws[k]
  <2> TAKE k \in 1..n
  <2>1. f[k] = IF ws[k] # <<>> /\ k < Len(ws) THEN Append(ws[k], SP) ELSE ws[k]
    BY <1>1
  <2> HIDE DEF f
  <2> QED BY <2>1, Zenon DEF Spaced
<1>5. \A k \in 1..n : g[k] = Elements(ws[k]) /\ Elements(ws[k]) \in Seq(Scripts)
  BY <1>1, <1>2, ElementsAre
<1>6. g \in Seq(Seq(Scripts)) /\ Len(g) = n
  <2>1. g \in [1..n -> Seq(Scripts)]
    BY <1>1, <1>5
  <2> QED BY <1>1, <2>1
<1>7. f \in Seq(Scripts) /\ Len(f) = n
  <2>1. ASSUME NEW k \in 1..n
        PROVE  (IF ws[k] # <<>> /\ k < Len(ws) THEN Append(ws[k], SP) ELSE ws[k]) \in Scripts
    <3>1. SP \in Chars /\ ws[k] \in Scripts
      BY <1>2, CharsHave
    <3>2. Append(ws[k], SP) \in Scripts
      BY <3>1, AppendProperties DEF Scripts
    <3> QED BY <3>1, <3>2, Zenon
  <2>2. f \in [1..n -> Scripts]
    BY <1>1, <2>1
  <2> QED BY <1>1, <2>2
<1> HIDE DEF f, g
<1>8. PICK p : Pieces(Chars, f, p)
  BY <1>7, PiecesExist DEF Scripts
<1>9. PICK q : Pieces(Scripts, g, q)
  BY <1>6, PiecesExist
<1>10. p[0] = <<>> /\ \A k \in 1..n : p[k] = Cat(p[k - 1], f[k])
  BY <1>7, <1>8 DEF Pieces
<1>11. q[0] = <<>> /\ \A k \in 1..n : q[k] = Cat(q[k - 1], g[k])
  BY <1>6, <1>9 DEF Pieces
<1>12. FlattenSeq(f) = p[n] /\ FlattenSeq(g) = q[n]
  BY <1>6, <1>7, <1>8, <1>9, FlatIs DEF Scripts
<1> DEFINE T == {k \in Nat : k < n => \E u : Held(u, p[k], q[k])}
<1>13. 0 \in T
  <2>1. Tidy(<<>>)
    BY LevelNext DEF Tidy, Balanced, Scripts
  <2>2. Held(<<>>, p[0], q[0])
    BY <1>10, <1>11, <2>1, ElementsEmpty DEF Held, None
  <2> QED BY <2>2
<1>14. \A k \in Nat : k < n /\ (\E u : Held(u, p[k], q[k])) =>
         /\ k + 1 < n => \E u : Held(u, p[k + 1], q[k + 1])
         /\ k + 1 = n => Elements(p[n]) = q[n]
  <2> SUFFICES ASSUME NEW k \in Nat, k < n, NEW u, Held(u, p[k], q[k])
               PROVE  /\ k + 1 < n => \E v : Held(v, p[k + 1], q[k + 1])
                      /\ k + 1 = n => Elements(p[n]) = q[n]
    BY Zenon
  <2> DEFINE w == ws[k + 1]
  <2>1. k + 1 \in 1..n /\ (k + 1) - 1 = k /\ k + 1 \in Int
    BY <1>1
  <2>2. Tidy(w) /\ (w = <<>> \/ w[1] # SP)
    BY <1>2, <2>1
  <2>3. p[k + 1] = Cat(p[k], f[k + 1]) /\ q[k + 1] = Cat(q[k], Elements(w))
    BY <1>5, <1>10, <1>11, <2>1
  <2>4. f[k + 1] = IF k + 1 < n THEN Spaced(w) ELSE w
    BY <1>4, <2>1
  <2> HIDE DEF w
  <2>5. /\ \E v : Held(v, Cat(p[k], Spaced(w)), Cat(q[k], Elements(w)))
        /\ Elements(Cat(p[k], w)) = Cat(q[k], Elements(w))
    BY <2>2, HeldNext
  <2>6. CASE k + 1 < n
    <3>1. p[k + 1] = Cat(p[k], Spaced(w)) /\ q[k + 1] = Cat(q[k], Elements(w))
      BY <2>3, <2>4, <2>6
    <3>2. \E v : Held(v, p[k + 1], q[k + 1])
      BY <2>5, <3>1
    <3> HIDE DEF n, T
    <3>4. n \in Int /\ k + 1 \in Int
      BY <1>1
    <3>3. k + 1 # n
      BY <2>6, <3>4
    <3> QED BY <3>2, <3>3, Zenon
  <2>7. CASE k + 1 = n
    BY <1>1, <2>3, <2>4, <2>5, <2>7
  <2> QED BY <1>1, <2>1, <2>6, <2>7
<1>15. \A k \in Nat : k \in T => k + 1 \in T
  <2> TAKE k \in Nat
  <2>1. k + 1 < n => k < n
    BY <1>1
  <2>2. k \in T <=> (k < n => \E u : Held(u, p[k], q[k]))
    OBVIOUS
  <2>3. k + 1 \in T <=> (k + 1 < n => \E u : Held(u, p[k + 1], q[k + 1]))
    BY <1>1
  <2> HIDE DEF T
  <2>4. k < n /\ (\E u : Held(u, p[k], q[k])) => (k + 1 < n => \E u : Held(u, p[k + 1], q[k + 1]))
    BY <1>14
  <2> QED BY <2>1, <2>2, <2>3, <2>4, Zenon
<1>16. CASE n = 0
  BY <1>3, <1>10, <1>11, <1>12, <1>16, ElementsEmpty DEF g
<1>17. CASE n # 0
  <2>1. n - 1 \in Nat /\ n - 1 < n /\ (n - 1) + 1 = n
    BY <1>1, <1>17
  <2> DEFINE k == n - 1
  <2> HIDE DEF k, T
  <2>2. k \in T
    BY <1>13, <1>15, <2>1, Induct DEF k
  <2>3. \E u : Held(u, p[k], q[k])
    BY <2>1, <2>2 DEF T, k
  <2>4. k \in Nat /\ k < n /\ k + 1 = n
    BY <2>1 DEF k
  <2>5. Elements(p[n]) = q[n]
    BY <1>14, <2>3, <2>4
  <2> QED BY <1>3, <1>12, <2>5 DEF g
<1> QED BY <1>16, <1>17

-----------------------------------------------------------------------------
(* split, one character after the other: l are the fields so far, f is the *)
(* one being read and m what the one before left in memory.                *)
Fld(f, l, m) == [field |-> f, list |-> l, mem |-> m]

Taking(acc, c, sep) ==
  IF c # sep THEN [acc EXCEPT !.field = Append(@, c)]
  ELSE LET n == Len(acc.field)
           value == IF n = 0 THEN <<>>
                    ELSE acc.field \o SubSeq(acc.mem, n + 1, Len(acc.mem))
       IN [field |-> <<>>, list |-> LAppend(acc.list, value),
           mem |-> IF n = 0 THEN acc.mem ELSE value]

Fields(s, sep, n, g) ==
  g = [k \in 0..n |-> IF k = 0 THEN Fld(<<>>, <<>>, <<>>) ELSE Taking(g[k - 1], s[k], sep)]

Stepped(s, sep, n, g) ==
  g[0] = Fld(None, None, None) /\ \A k \in 0..n : k + 1 <= n => g[k + 1] = Taking(g[k], s[k + 1], sep)

(* The steps of split, one from the other. *)
LEMMA FieldsFacts ==
  ASSUME NEW s, NEW sep, NEW n \in Nat, NEW g, Fields(s, sep, n, g)
  PROVE  Stepped(s, sep, n, g)
<1>1. g = [k \in 0..n |-> IF k = 0 THEN Fld(<<>>, <<>>, <<>>) ELSE Taking(g[k - 1], s[k], sep)]
  BY Zenon DEF Fields
<1>2. \A k \in 0..n : g[k] = IF k = 0 THEN Fld(<<>>, <<>>, <<>>) ELSE Taking(g[k - 1], s[k], sep)
  BY <1>1, Zenon
<1>3. g[0] = Fld(None, None, None)
  BY <1>2 DEF None
<1>4. ASSUME NEW k \in 0..n, k + 1 <= n PROVE g[k + 1] = Taking(g[k], s[k + 1], sep)
  <2>1. k + 1 \in 0..n /\ k + 1 # 0 /\ (k + 1) - 1 = k
    BY <1>4
  <2>2. g[k + 1] = Taking(g[(k + 1) - 1], s[k + 1], sep)
    BY <1>2, <2>1, Zenon
  <2> QED BY <2>1, <2>2, Zenon
<1> QED BY <1>3, <1>4, Zenon DEF Stepped

(* split takes a character at a time. *)
LEMMA FieldsExist ==
  ASSUME NEW s, NEW sep, Len(s) \in Nat
  PROVE  \E g : Fields(s, sep, Len(s), g) /\ Split(s, sep) = LAppend(g[Len(s)].list, g[Len(s)].field)
<1> DEFINE S == {k \in Nat : \E g : Fields(s, sep, k, g)}
           x == Fld(None, None, None)
<1>1. 0 \in S
  <2> DEFINE g == [k \in 0..0 |-> x]
  <2> HIDE DEF x
  <2>1. g = [k \in 0..0 |-> IF k = 0 THEN x ELSE Taking(g[k - 1], s[k], sep)]
    OBVIOUS
  <2>2. Fields(s, sep, 0, g)
    BY <2>1, Zenon DEF Fields, x, None
  <2> HIDE DEF g
  <2> QED BY <2>2
<1>2. \A k \in Nat : k \in S => k + 1 \in S
  <2> SUFFICES ASSUME NEW k \in Nat, NEW g, Fields(s, sep, k, g) PROVE \E h : Fields(s, sep, k + 1, h)
    OBVIOUS
  <2> DEFINE h == [m \in 0..(k + 1) |-> IF m <= k THEN g[m] ELSE Taking(g[k], s[k + 1], sep)]
  <2>1. g[0] = x /\ \A m \in 0..k : m + 1 <= k => g[m + 1] = Taking(g[m], s[m + 1], sep)
    <3>1. Stepped(s, sep, k, g)
      BY FieldsFacts, Zenon
    <3> QED BY <3>1, Zenon DEF Stepped, x
  <2> HIDE DEF x
  <2>2. ASSUME NEW m \in 0..(k + 1) PROVE h[m] = IF m = 0 THEN x ELSE Taking(h[m - 1], s[m], sep)
    <3>1. CASE m = 0
      BY <2>1, <3>1
    <3>2. CASE m # 0 /\ m <= k
      <4>1. m - 1 \in 0..k /\ (m - 1) + 1 = m
        BY <3>2
      <4>2. g[m] = Taking(g[m - 1], s[m], sep)
        BY <2>1, <3>2, <4>1
      <4>3. h[m] = g[m] /\ h[m - 1] = g[m - 1]
        BY <3>2, <4>1
      <4> QED BY <3>2, <4>2, <4>3
    <3>3. CASE m = k + 1
      <4>1. h[m] = Taking(g[k], s[m], sep) /\ h[m - 1] = g[k] /\ m # 0
        BY <3>3
      <4> QED BY <4>1
    <3> QED BY <3>1, <3>2, <3>3
  <2>3. h = [m \in 0..(k + 1) |-> IF m = 0 THEN x ELSE Taking(h[m - 1], s[m], sep)]
    BY <2>2
  <2>4. Fields(s, sep, k + 1, h)
    BY <2>3, Zenon DEF Fields, x, None
  <2> HIDE DEF h
  <2> QED BY <2>4
<1>3. \E g : Fields(s, sep, Len(s), g)
  <2> HIDE DEF S
  <2>1. Len(s) \in S
    BY <1>1, <1>2, Induct
  <2> QED BY <2>1 DEF S
<1> DEFINE after == CHOOSE g : Fields(s, sep, Len(s), g)
<1>4. Fields(s, sep, Len(s), after)
  BY <1>3
<1>5. Split(s, sep) = LAppend(after[Len(s)].list, after[Len(s)].field)
  BY Zenon DEF Split, Fields, Fld, Taking
<1> HIDE DEF after
<1> QED BY <1>4, <1>5

(* What a step of split does with a character. *)
LEMMA TakingIs ==
  ASSUME NEW f, NEW l, NEW m, NEW c, NEW sep
  PROVE  /\ c # sep => Taking(Fld(f, l, m), c, sep) = Fld(Append(f, c), l, m)
         /\ c = sep /\ f = None => Taking(Fld(f, l, m), c, sep) = Fld(None, LAppend(l, None), m)
         /\ c = sep /\ f # None /\ Len(f) \in Nat \ {0} =>
              Taking(Fld(f, l, m), c, sep) =
                LET value == f \o SubSeq(m, Len(f) + 1, Len(m)) IN Fld(None, LAppend(l, value), value)
<1> DEFINE a == Fld(f, l, m)
<1>1. a.field = f /\ a.list = l /\ a.mem = m
  BY DEF Fld
<1>2. ASSUME NEW v PROVE [a EXCEPT !.field = v] = Fld(v, l, m)
  BY DEF Fld
<1>3. CASE c # sep
  <2>1. Taking(a, c, sep) = [a EXCEPT !.field = Append(a.field, c)]
    BY <1>3, Zenon DEF Taking
  <2>2. [a EXCEPT !.field = Append(a.field, c)] = Fld(Append(a.field, c), l, m)
    BY <1>2
  <2> QED BY <1>1, <1>3, <2>1, <2>2, Zenon
<1> HIDE DEF a
<1>4. ASSUME NEW n, NEW value, c = sep, n = Len(f), value = IF n = 0 THEN <<>> ELSE f \o SubSeq(m, n + 1, Len(m))
      PROVE  Taking(a, c, sep) = Fld(None, LAppend(l, value), IF n = 0 THEN m ELSE value)
  BY <1>1, <1>4, Zenon DEF Taking, Fld, None
<1>5. CASE c = sep /\ f = None
  <2>1. Len(f) = 0
    BY <1>5, NoneIs
  <2>2. Taking(a, c, sep) = Fld(None, LAppend(l, None), IF Len(f) = 0 THEN m ELSE None)
    <3>1. None = IF Len(f) = 0 THEN <<>> ELSE f \o SubSeq(m, Len(f) + 1, Len(m))
      BY <2>1, Zenon DEF None
    <3> QED BY <1>4, <1>5, <3>1, Zenon
  <2> QED BY <1>5, <2>1, <2>2, Zenon DEF a
<1>6. CASE c = sep /\ f # None /\ Len(f) \in Nat \ {0}
  <2>1. Len(f) # 0
    BY <1>6
  <2> DEFINE value == f \o SubSeq(m, Len(f) + 1, Len(m))
  <2>2. value = IF Len(f) = 0 THEN <<>> ELSE f \o SubSeq(m, Len(f) + 1, Len(m))
    BY <2>1, Zenon
  <2> HIDE DEF value
  <2>3. Taking(a, c, sep) = Fld(None, LAppend(l, value), IF Len(f) = 0 THEN m ELSE value)
    BY <1>4, <1>6, <2>2, Zenon
  <2>4. Taking(a, c, sep) = Fld(None, LAppend(l, value), value)
    BY <2>1, <2>3, Zenon
  <2> QED BY <1>6, <2>4, Zenon DEF a, value
<1> QED BY <1>3, <1>5, <1>6, Zenon DEF a

(* It collects the character, *)
LEMMA TakingChar ==
  ASSUME NEW f, NEW l, NEW m, NEW c, NEW sep, c # sep
  PROVE  Taking(Fld(f, l, m), c, sep) = Fld(Append(f, c), l, m)
  BY TakingIs

(* or ends an empty field, *)
LEMMA TakingNone ==
  ASSUME NEW l, NEW m, NEW sep
  PROVE  Taking(Fld(None, l, m), sep, sep) = Fld(None, LAppend(l, None), m)
  BY TakingIs

(* What is kept of the memory when the field f is copied over it. *)
Over(f, m) == f \o SubSeq(m, Len(f) + 1, Len(m))

(* or ends a field, over what the buffer held before. *)
LEMMA TakingSome ==
  ASSUME NEW f, NEW l, NEW m, NEW sep, f # None, Len(f) \in Nat \ {0}
  PROVE  Taking(Fld(f, l, m), sep, sep) = Fld(None, LAppend(l, Over(f, m)), Over(f, m))
  BY TakingIs DEF Over

(* The k-th of f is in the whole after those before it. *)
Placed(S, f, p, k) ==
  /\ Len(p[k]) = Len(p[k - 1]) + Len(f[k]) /\ Len(p[k]) <= Len(p[Len(f)])
  /\ Len(p[k - 1]) \in Nat
  /\ \A i \in 1..Len(f[k]) : p[Len(f)][Len(p[k - 1]) + i] = f[k][i]

Covers(a, b) == Len(a) <= Len(b) /\ \A i \in 1..Len(a) : b[i] = a[i]

(* What was joined first stays in front. *)
LEMMA PiecesCover ==
  ASSUME NEW S, NEW f \in Seq(Seq(S)), NEW p, Pieces(S, f, p), NEW k \in 0..Len(f)
  PROVE  Covers(p[k], p[Len(f)])
<1> DEFINE n == Len(f)
           T == {d \in Nat : k + d <= n => Covers(p[k], p[k + d])}
<1>1. n \in Nat /\ k \in Nat /\ \A i \in 1..n : f[i] \in Seq(S)
  OBVIOUS
<1>2. p \in [0..n -> Seq(S)] /\ \A i \in 1..n : p[i] = Cat(p[i - 1], f[i])
  BY DEF Pieces
<1>3. 0 \in T
  BY <1>1, <1>2 DEF Covers
<1>4. \A d \in Nat : d \in T => d + 1 \in T
  <2> SUFFICES ASSUME NEW d \in Nat, k + (d + 1) <= n, Covers(p[k], p[k + d]) PROVE Covers(p[k], p[k + (d + 1)])
    BY <1>1
  <2> DEFINE a == p[k + d]
             b == f[k + (d + 1)]
             c == p[k + (d + 1)]
             e == p[k]
  <2>1. k + (d + 1) \in 1..n /\ (k + (d + 1)) - 1 = k + d /\ k + d \in 0..n /\ k \in 0..n
    BY <1>1
  <2>2. a \in Seq(S) /\ b \in Seq(S) /\ e \in Seq(S) /\ c = Cat(a, b)
    BY <1>1, <1>2, <2>1
  <2>3. Covers(e, a)
    OBVIOUS
  <2> HIDE DEF a, b, c, e
  <2>4. Joined(S, a, b, c)
    BY <2>2, CatFacts
  <2>5. Covers(e, c)
    <3>1. Len(e) \in Nat /\ Len(a) \in Nat /\ Len(b) \in Nat /\ Len(c) = Len(a) + Len(b) /\ Len(e) <= Len(a)
      BY <2>2, <2>3, <2>4 DEF Covers, Joined
    <3>2. ASSUME NEW i \in 1..Len(e) PROVE c[i] = e[i]
      <4>1. i \in 1..Len(a)
        BY <3>1
      <4> QED BY <2>3, <2>4, <4>1 DEF Covers, Joined
    <3> QED BY <3>1, <3>2 DEF Covers
  <2> QED BY <2>5 DEF e, c
<1>5. n - k \in Nat /\ k + (n - k) = n /\ n <= n
  BY <1>1
<1> HIDE DEF T
<1>6. n - k \in T
  BY <1>3, <1>4, <1>5, Induct
<1> QED BY <1>5, <1>6 DEF T

(* Where each of the sequences lies in the whole. *)
LEMMA PiecesPlaced ==
  ASSUME NEW S, NEW f \in Seq(Seq(S)), NEW p, Pieces(S, f, p), NEW k \in 1..Len(f)
  PROVE  Placed(S, f, p, k)
<1> DEFINE n == Len(f)
           a == p[k - 1]
           b == f[k]
           c == p[k]
           w == p[n]
<1>1. k - 1 \in 0..n /\ k \in 0..n /\ n \in 0..n
  OBVIOUS
<1>2. a \in Seq(S) /\ b \in Seq(S) /\ c = Cat(a, b) /\ c \in Seq(S) /\ w \in Seq(S)
  <2>1. p \in [0..n -> Seq(S)] /\ \A i \in 1..n : p[i] = Cat(p[i - 1], f[i])
    BY DEF Pieces
  <2>2. f[k] \in Seq(S) /\ k \in 1..n
    OBVIOUS
  <2> QED BY <1>1, <2>1, <2>2
<1>3. Covers(c, w)
  BY <1>1, PiecesCover
<1> HIDE DEF a, b, c, w
<1>4. Joined(S, a, b, c)
  BY <1>2, CatFacts
<1>5. Len(c) = Len(a) + Len(b) /\ Len(c) <= Len(w) /\ Len(a) \in Nat
  BY <1>2, <1>3, <1>4 DEF Joined, Covers
<1>6. \A i \in 1..Len(b) : w[Len(a) + i] = b[i]
  <2> TAKE i \in 1..Len(b)
  <2>1. Len(b) \in Nat /\ Len(a) + i \in 1..Len(c)
    BY <1>2, <1>5
  <2>2. w[Len(a) + i] = c[Len(a) + i]
    BY <1>3, <2>1 DEF Covers
  <2>3. c[Len(a) + i] = b[i]
    BY <1>4 DEF Joined
  <2> QED BY <2>2, <2>3
<1> QED BY <1>5, <1>6 DEF Placed, a, b, c, w, n

Holds(x, f, l, m) == x = Fld(f, l, m)
Written(s, a, w, sep) == \A i \in 1..Len(w) : s[a + i] = w[i] /\ w[i] # sep

(* A word without the separator is read into the field. *)
LEMMA WordRead ==
  ASSUME NEW S, NEW s, NEW sep, NEW n \in Nat, NEW g, Fields(s, sep, n, g),
         NEW a \in Nat, NEW w \in Seq(S), a + Len(w) <= n, Written(s, a, w, sep)
  PROVE  \A l, m : Holds(g[a], None, l, m) => Holds(g[a + Len(w)], w, l, m)
<1> SUFFICES ASSUME NEW l, NEW m, g[a] = Fld(None, l, m) PROVE g[a + Len(w)] = Fld(w, l, m)
  BY Zenon DEF Holds
<1> DEFINE part(i) == SubSeq(w, 1, i)
           T == {i \in Nat : i <= Len(w) => g[a + i] = Fld(part(i), l, m)}
<1>1. Len(w) \in Nat /\ \A i \in 1..Len(w) : w[i] \in S
  OBVIOUS
<1>2. \A k \in 0..n : k + 1 <= n => g[k + 1] = Taking(g[k], s[k + 1], sep)
  <2>1. Stepped(s, sep, n, g)
    BY FieldsFacts, Zenon
  <2> QED BY <2>1, Zenon DEF Stepped
<1>3. part(0) = None /\ part(Len(w)) = w
  BY SubSeqFull DEF None
<1>4. \A i \in Nat : i + 1 <= Len(w) => part(i + 1) = Append(part(i), w[i + 1])
  <2> TAKE i \in Nat
  <2> HAVE i + 1 <= Len(w)
  <2> DEFINE j == i + 1
  <2>1. 1 \in 1..Len(w) /\ j \in 1..Len(w) /\ j - 1 = i
    BY <1>1
  <2> HIDE DEF j
  <2>2. SubSeq(w, 1, j) = Append(SubSeq(w, 1, j - 1), w[j])
    BY <2>1, PartMore
  <2> QED BY <2>1, <2>2 DEF j
<1> HIDE DEF part
<1>5. 0 \in T
  BY <1>3
<1>6. \A i \in Nat : i \in T => i + 1 \in T
  <2> SUFFICES ASSUME NEW i \in Nat, i + 1 <= Len(w), g[a + i] = Fld(part(i), l, m)
               PROVE  g[a + (i + 1)] = Fld(part(i + 1), l, m)
    BY <1>1
  <2> DEFINE k == a + i
             c == w[i + 1]
  <2>1. k \in 0..n /\ k + 1 <= n /\ k + 1 = a + (i + 1) /\ i + 1 \in 1..Len(w)
    BY <1>1
  <2>2. s[k + 1] = c /\ c # sep
    BY <2>1 DEF Written
  <2>3. part(i + 1) = Append(part(i), c)
    BY <1>4
  <2>4. g[k] = Fld(part(i), l, m)
    OBVIOUS
  <2> HIDE DEF k, c
  <2>5. g[k + 1] = Taking(g[k], c, sep)
    BY <1>2, <2>1, <2>2
  <2>6. g[k + 1] = Fld(Append(part(i), c), l, m)
    BY <2>2, <2>4, <2>5, TakingChar
  <2> QED BY <2>1, <2>3, <2>6
<1>7. Len(w) \in T
  <2> HIDE DEF T
  <2> QED BY <1>1, <1>5, <1>6, Induct
<1> QED BY <1>1, <1>3, <1>7

Comma == ","
Commaed(w) == Append(w, Comma)

(* split takes apart what join put together, while no field is shorter     *)
(* than one before it.                                                     *)
LEMMA SplitIs ==
  ASSUME NEW ws \in Seq(Keeps), ws # <<>>,
         \A j, k \in 1..Len(ws) : j < k => Len(ws[j]) <= Len(ws[k]),
         \A k \in 1..Len(ws) : \A i \in 1..Len(ws[k]) : ws[k][i] # Comma
  PROVE  Elements(Split(Join(List(ws), <<",">>), ",")) = ws
<1> DEFINE n == Len(ws)
           S == Chars \union {Comma}
           f == [k \in DOMAIN ws |-> IF k < Len(ws) THEN ws[k] \o <<Comma>> ELSE ws[k]]
           s == Join(List(ws), <<Comma>>)
           done(k) == SubSeq(ws, 1, k)
<1>1. n \in Nat /\ n \in 1..n /\ DOMAIN ws = 1..n
  BY EmptySeq
<1>2. \A k \in 1..n : ws[k] \in Scripts /\ Kept(ws[k]) /\ ws[k] \in Seq(S) /\ Len(ws[k]) \in Nat
  <2>1. \A k \in 1..n : ws[k] \in Keeps
    BY <1>1
  <2>2. Seq(Chars) \subseteq Seq(S)
    OBVIOUS
  <2> QED BY <2>1, <2>2 DEF Keeps, Kept, Scripts
<1>3. s = FlattenSeq(f)
  BY Listed, Zenon DEF Join
<1>4. \A k \in 1..n : f[k] = IF k < n THEN Commaed(ws[k]) ELSE ws[k]
  <2> TAKE k \in 1..n
  <2>1. f[k] = IF k < Len(ws) THEN ws[k] \o <<Comma>> ELSE ws[k]
    BY <1>1
  <2>2. Commaed(ws[k]) = ws[k] \o <<Comma>>
    <3> DEFINE w == ws[k]
    <3>1. w \in Seq(S) /\ Comma \in S
      BY <1>2
    <3> HIDE DEF w, S
    <3>2. Append(w, Comma) = w \o <<Comma>>
      BY <3>1, AppendIsConcat
    <3> QED BY <3>2 DEF Commaed, w
  <2> HIDE DEF f
  <2> QED BY <2>1, <2>2, Zenon
<1>5. f \in Seq(Seq(S)) /\ Len(f) = n
  <2>1. \A k \in 1..n : f[k] \in Seq(S)
    <3> TAKE k \in 1..n
    <3>1. ws[k] \in Seq(S) /\ Comma \in S
      BY <1>2
    <3> HIDE DEF f, S
    <3>2. Commaed(ws[k]) \in Seq(S)
      BY <3>1, AppendProperties DEF Commaed
    <3> QED BY <1>4, <3>1, <3>2
  <2>2. f = [k \in 1..n |-> f[k]]
    BY <1>1
  <2>3. f \in [1..n -> Seq(S)]
    <3> HIDE DEF f, S
    <3> QED BY <2>1, <2>2
  <2> HIDE DEF f, S, n
  <2> QED BY <1>1, <2>3, SeqOfFun, Zenon
<1> HIDE DEF f, S
<1>6. PICK p : Pieces(S, f, p)
  BY <1>5, PiecesExist
<1>7. s = p[n] /\ s \in Seq(S)
  BY <1>3, <1>5, <1>6, FlatIs
<1> HIDE DEF s
<1>8. PICK g : Fields(s, Comma, Len(s), g) /\ Split(s, Comma) = LAppend(g[Len(s)].list, g[Len(s)].field)
  <2>1. Len(s) \in Nat
    BY <1>7
  <2> QED BY <2>1, FieldsExist
<1>9. \A k \in 1..n : Placed(S, f, p, k)
  BY <1>5, <1>6, PiecesPlaced
<1> DEFINE before(k) == IF k = 0 THEN None ELSE ws[k]
           At0(k) == \E l : /\ Tidy(l) /\ Elements(l) = done(k)
                            /\ g[Len(p[k])] = Fld(None, l, before(k))
           Read1(k) == \E l : /\ Tidy(l) /\ Elements(l) = done(k - 1)
                              /\ g[Len(p[k - 1]) + Len(ws[k])] = Fld(ws[k], l, before(k - 1))
<1>10. ASSUME NEW k \in 1..n, At0(k - 1) PROVE Read1(k)
  <2>1. PICK l : Tidy(l) /\ Elements(l) = done(k - 1) /\ g[Len(p[k - 1])] = Fld(None, l, before(k - 1))
    BY <1>10
  <2> DEFINE a == Len(p[k - 1])
             w == ws[k]
             b == f[k]
             m == before(k - 1)
             N == Len(s)
  <2>2. w \in Seq(S) /\ Len(w) \in Nat /\ \A i \in 1..Len(w) : w[i] # Comma
    BY <1>1, <1>2
  <2>3. Len(b) >= Len(w) /\ Len(b) \in Nat /\ \A i \in 1..Len(w) : b[i] = w[i]
    <3>1. CASE k < n
      <4>1. b = Append(w, Comma)
        BY <1>4, <3>1 DEF Commaed
      <4>2. Comma \in S
        BY DEF S
      <4> HIDE DEF b, w
      <4> QED BY <2>2, <4>1, <4>2, AppendProperties
    <3>2. CASE ~(k < n)
      <4>1. b = w
        BY <1>4, <3>2
      <4> QED BY <2>2, <4>1
    <3> QED BY <3>1, <3>2
  <2>4. a \in Nat /\ Len(p[k]) = a + Len(b) /\ Len(p[k]) <= N /\ \A i \in 1..Len(b) : s[a + i] = b[i]
    BY <1>5, <1>7, <1>9 DEF Placed
  <2>5. N \in Nat
    BY <1>7
  <2>6. g[a] = Fld(None, l, m) /\ Fields(s, Comma, N, g)
    BY <1>8, <2>1
  <2> HIDE DEF a, b, w, m, N
  <2>7. a + Len(w) <= N
    BY <2>2, <2>3, <2>4, <2>5
  <2>8. \A i \in 1..Len(w) : s[a + i] = w[i] /\ w[i] # Comma
    BY <2>2, <2>3, <2>4
  <2>9. g[a + Len(w)] = Fld(w, l, m)
    <3>1. w \in Seq(S) /\ a \in Nat
      BY <2>2, <2>4
    <3>2. Holds(g[a], None, l, m)
      BY <2>6 DEF Holds
    <3>4. Written(s, a, w, Comma)
      BY <2>8, Zenon DEF Written
    <3>3. Holds(g[a + Len(w)], w, l, m)
      BY <2>5, <2>6, <2>7, <3>1, <3>2, <3>4, WordRead
    <3> QED BY <3>3 DEF Holds
  <2> QED BY <2>1, <2>9 DEF a, w, m
<1>11. ASSUME NEW k \in 1..n, k < n, Read1(k) PROVE At0(k)
  <2>1. PICK l : /\ Tidy(l) /\ Elements(l) = done(k - 1)
                 /\ g[Len(p[k - 1]) + Len(ws[k])] = Fld(ws[k], l, before(k - 1))
    BY <1>11
  <2> DEFINE a == Len(p[k - 1])
             w == ws[k]
             b == f[k]
             m == before(k - 1)
             N == Len(s)
             q == a + Len(w)
  <2>2. w \in Seq(S) /\ w \in Scripts /\ Kept(w) /\ Len(w) \in Nat
    BY <1>2
  <2>3. Len(b) = Len(w) + 1 /\ b[Len(w) + 1] = Comma
    <3>1. b = Append(w, Comma)
      BY <1>4, <1>11 DEF Commaed
    <3>2. Comma \in S
      BY DEF S
    <3> HIDE DEF b, w
    <3> QED BY <2>2, <3>1, <3>2, AppendProperties
  <2>4. a \in Nat /\ Len(p[k]) = a + Len(b) /\ Len(p[k]) <= N /\ \A i \in 1..Len(b) : s[a + i] = b[i]
    BY <1>5, <1>7, <1>9 DEF Placed
  <2>5. N \in Nat
    BY <1>7
  <2>6. g[q] = Fld(w, l, m) /\ Fields(s, Comma, N, g)
    BY <1>8, <2>1
  <2>7. m \in Scripts /\ Len(m) \in Nat /\ Len(m) <= Len(w)
    <3>1. CASE k = 1
      BY <2>2, <3>1, NoneIs DEF Scripts
    <3>2. CASE k # 1
      <4>1. k - 1 \in 1..n /\ k - 1 < k /\ k - 1 # 0
        BY <1>1, <3>2
      <4>2. m = ws[k - 1]
        BY <4>1
      <4>3. Len(ws[k - 1]) <= Len(ws[k])
        BY <4>1
      <4> QED BY <1>2, <4>1, <4>2, <4>3
    <3> QED BY <3>1, <3>2
  <2> HIDE DEF a, b, m, N
  <2>8. q \in 0..N /\ q + 1 <= N /\ q + 1 = Len(p[k]) /\ s[q + 1] = Comma
    <3>1. Len(w) + 1 \in 1..Len(b) /\ a + (Len(w) + 1) = q + 1 /\ q \in Int /\ q + 1 = a + Len(b)
      BY <2>2, <2>3, <2>4
    <3>2. s[q + 1] = Comma
      BY <2>3, <2>4, <3>1
    <3> HIDE DEF w
    <3>3. Len(p[k]) <= N /\ Len(p[k]) = q + 1 /\ q >= 0
      BY <2>2, <2>4, <3>1
    <3> HIDE DEF q
    <3> QED BY <2>5, <3>1, <3>2, <3>3
  <2> HIDE DEF q, w
  <2>9. g[q + 1] = Taking(Fld(w, l, m), Comma, Comma)
    <3>2. \A i \in 0..N : i + 1 <= N => g[i + 1] = Taking(g[i], s[i + 1], Comma)
      <4> HIDE DEF N
      <4>1. Stepped(s, Comma, N, g)
        BY <2>5, <2>6, FieldsFacts, Zenon
      <4> QED BY <4>1, Zenon DEF Stepped
    <3>1. g[q + 1] = Taking(g[q], s[q + 1], Comma)
      BY <2>8, <3>2
    <3> QED BY <2>6, <2>8, <3>1
  <2>10. Taking(Fld(w, l, m), Comma, Comma) = Fld(None, LAppend(l, w), w)
    <3>1. CASE w = None
      <4>1. m = None
        <5>1. Len(m) = 0
          BY <2>7, <3>1, NoneIs
        <5> QED BY <2>7, <5>1 DEF Scripts, None
      <4> QED BY <3>1, <4>1, TakingNone, Zenon
    <3>2. CASE w # None
      <4>1. Len(w) \in Nat \ {0}
        BY <2>2, <3>2 DEF Scripts, None
      <4> DEFINE tail == SubSeq(m, Len(w) + 1, Len(m))
                 value == Over(w, m)
      <4>3. tail = None
        BY <2>7, <4>1, SubSeqEmpty DEF None
      <4>4. value = w
        <5> HIDE DEF tail
        <5>1. w \o None = w
          BY <2>2, NoneMore, Zenon DEF Cat, Scripts
        <5>2. value = w \o tail
          BY Zenon DEF Over, tail
        <5> HIDE DEF value
        <5> QED BY <4>3, <5>1, <5>2
      <4>2. Taking(Fld(w, l, m), Comma, Comma) = Fld(None, LAppend(l, value), value)
        BY <3>2, <4>1, TakingSome
      <4> HIDE DEF value
      <4> QED BY <4>2, <4>4
    <3> QED BY <3>1, <3>2
  <2>11. Tidy(LAppend(l, w)) /\ Elements(LAppend(l, w)) = Append(Elements(l), w)
    BY <2>1, <2>2, ElementsAppend
  <2>12. done(k) = Append(done(k - 1), w)
    <3>1. 1 \in 1..Len(ws) /\ k \in 1..Len(ws)
      BY <1>1
    <3> QED BY <3>1, PartMore, Zenon DEF w
  <2>13. before(k) = w
    <3>1. k # 0
      BY <1>1
    <3> QED BY <3>1 DEF w
  <2> HIDE DEF done, before
  <2> QED BY <2>1, <2>8, <2>9, <2>10, <2>11, <2>12, <2>13
<1>12. At0(0)
  <2>1. g[0] = Fld(None, None, None)
    <3>1. Len(s) \in Nat
      BY <1>7
    <3>2. Stepped(s, Comma, Len(s), g)
      BY <1>8, <3>1, FieldsFacts, Zenon
    <3> QED BY <3>2, Zenon DEF Stepped
  <2>2. Len(p[0]) = 0
    BY <1>6 DEF Pieces
  <2>3. Tidy(None) /\ Elements(None) = None /\ done(0) = None
    <3>1. Tidy(<<>>)
      BY LevelNext DEF Tidy, Balanced, Scripts
    <3>2. SubSeq(ws, 1, 0) = <<>>
      BY SubSeqEmpty
    <3> QED BY <3>1, <3>2, ElementsEmpty, Zenon DEF None
  <2>4. before(0) = None
    OBVIOUS
  <2> HIDE DEF done, before
  <2> QED BY <2>1, <2>2, <2>3, <2>4
<1> HIDE DEF before, done, At0, Read1
<1> DEFINE T == {k \in Nat : k < n => At0(k)}
<1>13. n - 1 \in T
  <2>1. 0 \in T
    BY <1>12
  <2>2. \A k \in Nat : k \in T => k + 1 \in T
    <3> SUFFICES ASSUME NEW k \in Nat, k + 1 < n, k < n => At0(k) PROVE At0(k + 1)
      OBVIOUS
    <3> DEFINE j == k + 1
    <3>1. j \in 1..n /\ j - 1 = k /\ k < n /\ j < n
      BY <1>1
    <3> HIDE DEF j
    <3>2. At0(j - 1)
      BY <3>1
    <3>3. At0(j)
      BY <1>10, <1>11, <3>1, <3>2
    <3> QED BY <3>3 DEF j
  <2>3. n - 1 \in Nat
    BY <1>1
  <2> HIDE DEF T
  <2> QED BY <2>1, <2>2, <2>3, Induct
<1>14. Read1(n)
  <2>1. n - 1 < n /\ n - 1 \in Nat
    BY <1>1
  <2>2. At0(n - 1)
    BY <1>13, <2>1
  <2> QED BY <1>1, <1>10, <2>2
<1>15. PICK l : Tidy(l) /\ Elements(l) = done(n - 1) /\ g[Len(p[n - 1]) + Len(ws[n])] = Fld(ws[n], l, before(n - 1))
  BY <1>14 DEF Read1
<1>16. Len(p[n - 1]) + Len(ws[n]) = Len(s)
  <2>1. f[n] = ws[n]
    BY <1>1, <1>4
  <2> QED BY <1>1, <1>5, <1>7, <1>9, <2>1 DEF Placed
<1>17. Split(s, Comma) = LAppend(l, ws[n])
  <2>1. g[Len(s)] = Fld(ws[n], l, before(n - 1))
    BY <1>15, <1>16
  <2>2. g[Len(s)].list = l /\ g[Len(s)].field = ws[n]
    BY <2>1 DEF Fld
  <2> QED BY <1>8, <2>2
<1>18. Elements(LAppend(l, ws[n])) = Append(done(n - 1), ws[n])
  BY <1>1, <1>2, <1>15, ElementsAppend
<1>19. Append(done(n - 1), ws[n]) = ws
  <2>1. SubSeq(ws, 1, n) = Append(SubSeq(ws, 1, n - 1), ws[n])
    BY <1>1, PartMore
  <2> QED BY <2>1, SubSeqFull DEF done
<1> QED BY <1>17, <1>18, <1>19, Zenon DEF s, Comma

-----------------------------------------------------------------------------
(* switch: the body of each element, from the last on. *)
BodyAt(es, k, next) ==
  IF k > Len(es) THEN <<>> ELSE IF k = Len(es) THEN Error ELSE IF es[k + 1] = <<"-">> THEN next ELSE es[k + 1]

Bodies(es, low, g) == g = [k \in low..(Len(es) + 2) |-> BodyAt(es, k, g[k + 2])]

(* Where the words of switch lead, from the last one back. *)
LEMMA BodiesExist ==
  ASSUME NEW es, Len(es) \in Nat
  PROVE  \E g : Bodies(es, 1, g)
<1> DEFINE n == Len(es)
           T == {d \in Nat : d <= n + 1 => \E g : Bodies(es, (n + 2) - d, g)}
<1> HIDE DEF n
<1>1. n \in Nat
  BY DEF n
<1>2. \A g : \A low \in 1..(n + 2) : Bodies(es, low, g) <=> g = [k \in low..(n + 2) |-> BodyAt(es, k, g[k + 2])]
  BY Zenon DEF Bodies, n
<1>3. \A k, x, y : k > n => BodyAt(es, k, x) = BodyAt(es, k, y)
  BY Zenon DEF BodyAt, n
<1>4. 0 \in T
  <2> DEFINE N == n + 2
             x == BodyAt(es, N, 0)
             g == [k \in N..N |-> x]
  <2>1. \A y : BodyAt(es, N, y) = x
    <3>1. N > n
      BY <1>1
    <3> QED BY <1>3, <3>1, Zenon
  <2>2. N \in 1..N /\ N \in Int
    BY <1>1
  <2> HIDE DEF x, N
  <2>3. g = [k \in N..N |-> BodyAt(es, k, g[k + 2])]
    <3>1. \A k \in N..N : BodyAt(es, k, g[k + 2]) = x
      <4> TAKE k \in N..N
      <4>1. k = N
        BY <2>2
      <4> QED BY <2>1, <4>1, Zenon
    <3> HIDE DEF g
    <3>2. [k \in N..N |-> BodyAt(es, k, g[k + 2])] = [k \in N..N |-> x]
      BY <3>1, Zenon
    <3> QED BY <3>2, Zenon DEF g
  <2> HIDE DEF g
  <2>4. \E h : Bodies(es, N, h)
    <3>1. Bodies(es, N, g)
      BY <1>2, <2>2, <2>3, Zenon DEF N
    <3> QED BY <3>1
  <2>5. (n + 2) - 0 = N
    BY <1>1 DEF N
  <2> QED BY <2>4, <2>5
<1>5. \A d \in Nat : d \in T => d + 1 \in T
  <2> SUFFICES ASSUME NEW d \in Nat, d + 1 <= n + 1, NEW g, Bodies(es, (n + 2) - d, g)
               PROVE  \E h : Bodies(es, (n + 2) - (d + 1), h)
    BY <1>1
  <2> DEFINE N == n + 2
             top == N - d
             low == N - (d + 1)
             x == BodyAt(es, low, g[low + 2])
             h == [k \in low..N |-> IF k = low THEN x ELSE g[k]]
  <2>1. top \in 1..N /\ low \in 1..N /\ top = low + 1 /\ low \in Int /\ N \in Int /\ N = n + 2 /\ top \in Int
    BY <1>1
  <2>2. g = [k \in top..N |-> BodyAt(es, k, g[k + 2])]
    BY <1>2, <2>1, Zenon
  <2> HIDE DEF top, low, N, x
  <2>3. \A k \in top..N : g[k] = BodyAt(es, k, g[k + 2])
    BY <2>2, Zenon
  <2>4. ASSUME NEW k \in low..N PROVE h[k] = BodyAt(es, k, h[k + 2])
    <3>1. k > n \/ h[k + 2] = g[k + 2]
      <4>1. CASE k <= n
        <5>1. k + 2 \in low..N /\ k + 2 # low
          BY <1>1, <2>1, <4>1
        <5> QED BY <5>1
      <4> QED BY <1>1, <2>1, <4>1
    <3> DEFINE y == h[k + 2]
    <3>2. BodyAt(es, k, y) = BodyAt(es, k, g[k + 2])
      <4>1. k > n \/ y = g[k + 2]
        BY <3>1
      <4> HIDE DEF y
      <4>2. CASE k > n
        BY <1>3, <4>2, Zenon
      <4>3. CASE y = g[k + 2]
        BY <4>3, Zenon
      <4> QED BY <4>1, <4>2, <4>3, Zenon
    <3>3. CASE k = low
      BY <3>2, <3>3 DEF x
    <3>4. CASE k # low
      <4>1. k \in top..N
        BY <2>1, <3>4
      <4>2. h[k] = g[k]
        BY <3>4
      <4> QED BY <2>3, <3>2, <4>1, <4>2
    <3> QED BY <3>3, <3>4
  <2>5. h = [k \in low..N |-> BodyAt(es, k, h[k + 2])]
    <3> DEFINE b == [k \in low..N |-> BodyAt(es, k, h[k + 2])]
    <3>1. \A k \in low..N : b[k] = h[k]
      <4> HIDE DEF h
      <4> QED BY <2>4
    <3>2. h = [k \in low..N |-> h[k]] /\ b = [k \in low..N |-> b[k]]
      OBVIOUS
    <3> HIDE DEF h, b
    <3>3. h = b
      BY <3>1, <3>2
    <3> QED BY <3>3 DEF b
  <2> HIDE DEF h
  <2>6. Bodies(es, low, h)
    BY <1>2, <2>1, <2>5
  <2> QED BY <2>6 DEF low, N
<1>6. n + 1 \in T
  <2> HIDE DEF T
  <2> QED BY <1>1, <1>4, <1>5, Induct
<1>7. (n + 2) - (n + 1) = 1 /\ n + 1 <= n + 1
  BY <1>1
<1> QED BY <1>6, <1>7

Fitting(es, s) == {k \in DOMAIN es : es[k] \in {s, <<"default">>}}
Lowest(S) == CHOOSE k \in S : \A j \in S : k <= j

(* A set of numbers has a least one. *)
LEMMA LowestIs ==
  ASSUME NEW S \in SUBSET Nat, S # {}
  PROVE  Lowest(S) \in S /\ \A j \in S : Lowest(S) <= j
  BY Least DEF Lowest

(* switch runs the body of the first word that fits. *)
LEMMA SwitchBodies ==
  ASSUME NEW l, NEW s, Len(Elements(l)) \in Nat
  PROVE  \E g : /\ Bodies(Elements(l), 1, g)
                /\ Switch(l, s) = IF Fitting(Elements(l), s) = {} THEN <<>> ELSE g[Lowest(Fitting(Elements(l), s))]
<1> DEFINE body == CHOOSE g : Bodies(Elements(l), 1, g)
<1>1. Bodies(Elements(l), 1, body)
  BY BodiesExist
<1>2. Switch(l, s) = IF Fitting(Elements(l), s) = {} THEN <<>> ELSE body[Lowest(Fitting(Elements(l), s))]
  BY Zenon DEF Switch, Bodies, BodyAt, Fitting, Lowest
<1> HIDE DEF body
<1> QED BY <1>1, <1>2

(* The bodies after the pattern at first, but for those that stand for the *)
(* next.                                                                   *)
BodiesAfter(ws, first) == {k \in DOMAIN ws : k > first /\ k % 2 = 0 /\ ws[k] # <<"-">>}

(* It is the first body from there on that is no "-". *)
LEMMA SwitchIs ==
  ASSUME NEW ws \in Seq(Keeps), NEW s, Fitting(ws, s) # {}, Lowest(Fitting(ws, s)) % 2 = 1,
         BodiesAfter(ws, Lowest(Fitting(ws, s))) # {}
  PROVE  Switch(List(ws), s) = ws[Lowest(BodiesAfter(ws, Lowest(Fitting(ws, s))))]
<1> DEFINE n == Len(ws)
           first == Lowest(Fitting(ws, s))
           B == BodiesAfter(ws, first)
           b == Lowest(B)
<1>1. n \in Nat /\ DOMAIN ws = 1..n
  OBVIOUS
<1>2. PICK g : Bodies(ws, 1, g) /\ Switch(List(ws), s) = IF Fitting(ws, s) = {} THEN <<>> ELSE g[first]
  BY <1>1, Listed, SwitchBodies, Zenon
<1>3. first \in 1..n /\ first % 2 = 1
  <2>1. Fitting(ws, s) \in SUBSET Nat /\ Fitting(ws, s) \subseteq 1..n
    BY <1>1 DEF Fitting
  <2> QED BY <2>1, LowestIs
<1> HIDE DEF first
<1>4. b \in 1..n /\ b > first /\ b % 2 = 0 /\ ws[b] # <<"-">> /\ \A j \in B : b <= j
  <2>1. B \in SUBSET Nat /\ B \subseteq 1..n /\ \A j \in B : j > first /\ j % 2 = 0 /\ ws[j] # <<"-">>
    BY <1>1 DEF BodiesAfter
  <2>2. B # {}
    BY DEF first
  <2> HIDE DEF B
  <2> QED BY <2>1, <2>2, LowestIs
<1>5. \A j \in 1..n : j > first /\ j % 2 = 0 /\ j < b => ws[j] = <<"-">>
  <2> HIDE DEF b
  <2> SUFFICES ASSUME NEW j \in 1..n, j > first, j % 2 = 0, j < b, ws[j] # <<"-">> PROVE FALSE
    OBVIOUS
  <2>1. j \in B
    BY <1>1 DEF BodiesAfter
  <2> HIDE DEF B
  <2> QED BY <1>4, <2>1
<1> HIDE DEF B, b
<1>6. \A k \in 1..(n + 2) : g[k] = BodyAt(ws, k, g[k + 2])
  BY <1>2, Zenon DEF Bodies
<1> DEFINE T == {d \in Nat : \A k \in first..(b - 1) : k = (b - 1) - 2 * d => g[k] = ws[b]}
<1>7. 0 \in T
  <2>1. b - 1 \in 1..(n + 2) /\ ~(b - 1 > n) /\ b - 1 # n /\ (b - 1) + 1 = b
    BY <1>1, <1>3, <1>4
  <2>2. g[b - 1] = BodyAt(ws, b - 1, g[(b - 1) + 2])
    BY <1>6, <2>1, Zenon
  <2>3. g[b - 1] = ws[b]
    BY <1>4, <2>1, <2>2, Zenon DEF BodyAt
  <2>4. (b - 1) - 2 * 0 = b - 1
    BY <1>4
  <2> QED BY <2>3, <2>4
<1>8. \A d \in Nat : d \in T => d + 1 \in T
  <2> SUFFICES ASSUME NEW d \in Nat, d \in T, NEW k \in first..(b - 1), k = (b - 1) - 2 * (d + 1) PROVE g[k] = ws[b]
    OBVIOUS
  <2> DEFINE j == k + 2
  <2>1. j = (b - 1) - 2 * d /\ j \in first..(b - 1)
    BY <1>1, <1>3, <1>4
  <2>2. g[j] = ws[b]
    BY <2>1
  <2>3. k \in 1..(n + 2) /\ ~(k > n) /\ k # n /\ k + 1 \in 1..n /\ k + 1 > first /\ k + 1 < b
    BY <1>1, <1>3, <1>4
  <2>4. (k + 1) % 2 = 0
    <3>1. k + 1 = b - 2 * (d + 1) /\ b \in Int
      BY <1>4
    <3> QED BY <1>4, <3>1
  <2>5. ws[k + 1] = <<"-">>
    BY <1>5, <2>3, <2>4
  <2>6. g[k] = BodyAt(ws, k, g[j])
    BY <1>6, <2>3
  <2> HIDE DEF T, j
  <2>7. BodyAt(ws, k, g[j]) = g[j]
    BY <2>3, <2>5, Zenon DEF BodyAt
  <2> QED BY <2>2, <2>6, <2>7
<1>9. PICK d \in Nat : first = (b - 1) - 2 * d
  <2> DEFINE d == (b - 1 - first) \div 2
  <2>1. d \in Nat /\ first = (b - 1) - 2 * d
    <3>1. b \in Nat /\ first \in Nat /\ b > first /\ b % 2 = 0 /\ first % 2 = 1
      BY <1>3, <1>4
    <3> QED BY <3>1, SMTT(30)
  <2> QED BY <2>1
<1>10. g[first] = ws[b]
  <2>1. first \in first..(b - 1)
    BY <1>3, <1>4
  <2>2. d \in T
    <3> HIDE DEF T
    <3> QED BY <1>7, <1>8, Induct
  <2> QED BY <1>9, <2>1, <2>2
<1> QED BY <1>2, <1>10, Zenon DEF b, B, first

-----------------------------------------------------------------------------
(* A pattern with stars at its ends only, read from the front. *)
Star == "*"
Query == "?"

Reached(pat, s, match) ==
  match = [i \in 0..Len(pat) |->
             IF i = 0 THEN {0}
             ELSE IF pat[i] = Star THEN {j \in 0..Len(s) : \E k \in match[i - 1] : k <= j}
             ELSE {j \in 1..Len(s) : pat[i] \in {s[j], Query} /\ j - 1 \in match[i - 1]}]

Reach(pat, s, i, X) ==
  IF pat[i] = Star THEN {j \in 0..Len(s) : \E k \in X : k <= j}
  ELSE {j \in 1..Len(s) : pat[i] \in {s[j], Query} /\ j - 1 \in X}

Reaches(pat, s, match) ==
  match[0] = {0} /\ \A i \in 1..Len(pat) : match[i] = Reach(pat, s, i, match[i - 1])

(* The places a pattern can end at, one character of it more at a time. *)
LEMMA GlobReached ==
  ASSUME NEW pat, NEW s, Len(pat) \in Nat, Len(s) \in Nat
  PROVE  \E match : Reaches(pat, s, match) /\ (Glob(pat, s) <=> Len(s) \in match[Len(pat)])
<1> DEFINE n == Len(pat)
           X == SUBSET (0..Len(s))
           h == [x \in (1..n) \X X |-> Reach(pat, s, x[1], x[2])]
           z == {0}
<1>1. h \in [(1..n) \X X -> X] /\ z \in X /\ n \in Nat
  BY DEF Reach
<1>2. \A i \in 1..n, x \in X : h[<<i, x>>] = Reach(pat, s, i, x)
  OBVIOUS
<1> HIDE DEF n, X, h, z
<1>3. PICK f : Goes(X, n, z, h, f)
  BY <1>1, Recursion
<1>4. f \in [0..n -> X] /\ f[0] = z /\ \A i \in 1..n : f[i] = h[<<i, f[i - 1]>>]
  BY <1>3 DEF Goes
<1>5. \A i \in 1..n : f[i] = Reach(pat, s, i, f[i - 1])
  <2> TAKE i \in 1..n
  <2>1. f[i - 1] \in X
    BY <1>1, <1>4
  <2> QED BY <1>2, <1>4, <2>1
<1>6. f = [i \in 0..n |-> IF i = 0 THEN z ELSE Reach(pat, s, i, f[i - 1])]
  <2> DEFINE g == [i \in 0..n |-> IF i = 0 THEN z ELSE Reach(pat, s, i, f[i - 1])]
  <2>1. \A i \in 0..n : g[i] = f[i]
    <3> TAKE i \in 0..n
    <3>1. CASE i = 0
      BY <1>4, <3>1
    <3>2. CASE i # 0
      <4>1. i \in 1..n
        BY <1>1, <3>2
      <4> QED BY <1>5, <3>2, <4>1
    <3> QED BY <3>1, <3>2
  <2>2. g = [i \in 0..n |-> g[i]] /\ f = [i \in 0..n |-> f[i]]
    BY <1>4
  <2> HIDE DEF g
  <2>3. g = f
    BY <2>1, <2>2
  <2> QED BY <2>3 DEF g
<1>7. Reached(pat, s, f)
  BY <1>6, Zenon DEF Reached, Reach, n, z
<1> DEFINE match == CHOOSE g : Reached(pat, s, g)
<1>8. Reached(pat, s, match)
  BY <1>7
<1>9. Glob(pat, s) <=> Len(s) \in match[n]
  BY Zenon DEF Glob, Reached, Star, Query, n
<1> HIDE DEF match
<1>10. match = [i \in 0..n |-> IF i = 0 THEN z ELSE Reach(pat, s, i, match[i - 1])]
  BY <1>8, Zenon DEF Reached, Reach, n, z
<1>11. \A i \in 0..n : match[i] = IF i = 0 THEN z ELSE Reach(pat, s, i, match[i - 1])
  BY <1>10, Zenon
<1>12. match[0] = z
  BY <1>1, <1>11
<1>13. \A i \in 1..n : match[i] = Reach(pat, s, i, match[i - 1])
  <2> TAKE i \in 1..n
  <2>1. i \in 0..n /\ i # 0
    BY <1>1
  <2> QED BY <1>11, <2>1, Zenon
<1>14. Reaches(pat, s, match)
  BY <1>12, <1>13 DEF Reaches, n, z
<1> QED BY <1>9, <1>14 DEF n

(* The first i characters of pat, but for a star in front, and the         *)
(* characters of s up to the j-th.                                         *)
Lies(pat, s, st, i, j) ==
  /\ j \in 0..Len(s) /\ j >= i - st /\ (st = 0 => j = i)
  /\ \A k \in (st + 1)..i : pat[k] \in {s[(j - i) + k], Query}

(* With no star but its first character: where the rest of the pattern lies. *)
LEMMA ReachedIs ==
  ASSUME NEW pat, NEW s, Len(pat) \in Nat, Len(s) \in Nat, NEW st \in {0, 1}, st <= Len(pat),
         st = 1 => pat[1] = Star, NEW e \in st..Len(pat), \A i \in (st + 1)..e : pat[i] # Star,
         NEW match, Reaches(pat, s, match)
  PROVE  \A j : j \in match[e] <=> Lies(pat, s, st, e, j)
<1> DEFINE n == Len(pat)
           N == Len(s)
           T == {d \in Nat : st + d <= e => \A j : j \in match[st + d] <=> Lies(pat, s, st, st + d, j)}
<1>1. n \in Nat /\ N \in Nat /\ e \in Nat /\ e <= n
  OBVIOUS
<1>a. match[0] = {0} /\ \A i \in 1..Len(pat) : match[i] = Reach(pat, s, i, match[i - 1])
  BY DEF Reaches
<1>2. 0 \in T
  <2>1. CASE st = 0
    <3>1. \A j : Lies(pat, s, st, st, j) <=> j = 0
      BY <1>1, <2>1 DEF Lies
    <3> QED BY <1>a, <2>1, <3>1
  <2>2. CASE st = 1
    <3>0. 1 \in 1..Len(pat) /\ 1 - 1 = 0
      BY <1>1, <2>2
    <3>1. match[1] = Reach(pat, s, 1, match[0])
      <4>1. match[1] = Reach(pat, s, 1, match[1 - 1])
        BY <1>a, <3>0, Zenon
      <4> QED BY <3>0, <4>1, Zenon
    <3>2. \A j : j \in match[1] <=> j \in 0..N
      BY <1>1, <1>a, <2>2, <3>1 DEF Reach
    <3>3. \A j : Lies(pat, s, st, st, j) <=> j \in 0..N
      BY <1>1, <2>2 DEF Lies
    <3> QED BY <2>2, <3>2, <3>3
  <2> QED BY <2>1, <2>2
<1>3. \A d \in Nat : d \in T => d + 1 \in T
  <2> SUFFICES ASSUME NEW d \in Nat, st + (d + 1) <= e,
                      \A j : j \in match[st + d] <=> Lies(pat, s, st, st + d, j),
                      NEW j
               PROVE  j \in match[st + (d + 1)] <=> Lies(pat, s, st, st + (d + 1), j)
    <3>1. \A d \in Nat : (st + (d + 1) <= e => st + d <= e) /\ d + 1 \in Nat
      BY <1>1
    <3>2. \A d \in Nat : d \in T <=> (st + d <= e => \A j : j \in match[st + d] <=> Lies(pat, s, st, st + d, j))
      OBVIOUS
    <3> HIDE DEF T
    <3> QED BY <3>1, <3>2
  <2> DEFINE i == st + d
             m == st + (d + 1)
  <2>1. i \in Nat /\ m = i + 1 /\ m \in 1..n /\ m - 1 = i /\ m \in (st + 1)..e /\ i >= st
    BY <1>1
  <2> HIDE DEF i, m
  <2>2. match[m] = Reach(pat, s, m, match[i]) /\ pat[m] # Star
    BY <1>a, <2>1
  <2>3. j \in match[m] <=> j \in 1..N /\ pat[m] \in {s[j], Query} /\ j - 1 \in match[i]
    BY <2>2 DEF Reach
  <2>4. j - 1 \in match[i] <=> Lies(pat, s, st, i, j - 1)
    BY DEF i
  <2>5. ASSUME j \in 1..N
        PROVE  pat[m] \in {s[j], Query} /\ Lies(pat, s, st, i, j - 1) <=> Lies(pat, s, st, m, j)
    <3>1. /\ j - 1 \in 0..N /\ j \in 0..N /\ j \in Int
          /\ (j - 1 >= i - st <=> j >= m - st) /\ (j - 1 = i <=> j = m) /\ (j - m) + m = j
      <4>1. j \in Int /\ 1 <= j /\ j <= N
        BY <1>1, <2>5
      <4>2. st \in Int /\ i \in Int /\ m = i + 1
        BY <2>1
      <4> HIDE DEF N
      <4>3. (j - 1 >= i - st <=> j >= m - st) /\ (j - 1 = i <=> j = m) /\ (j - m) + m = j
        BY <4>1, <4>2
      <4>4. j - 1 \in 0..N /\ j \in 0..N
        BY <1>1, <4>1
      <4> QED BY <4>1, <4>3, <4>4 DEF N
    <3>2. ASSUME pat[m] \in {s[j], Query}, \A k \in (st + 1)..i : pat[k] \in {s[((j - 1) - i) + k], Query}
          PROVE  \A k \in (st + 1)..m : pat[k] \in {s[(j - m) + k], Query}
      <4> TAKE k \in (st + 1)..m
      <4>1. CASE k = m
        <5>1. (j - m) + k = j
          BY <3>1, <4>1
        <5> QED BY <3>2, <4>1, <5>1
      <4>2. CASE k # m
        <5>1. k \in (st + 1)..i /\ ((j - 1) - i) + k = (j - m) + k
          BY <2>1, <3>1, <4>2
        <5>2. pat[k] \in {s[((j - 1) - i) + k], Query}
          BY <3>2, <5>1
        <5> QED BY <5>1, <5>2
      <4> QED BY <4>1, <4>2
    <3>3. ASSUME \A k \in (st + 1)..m : pat[k] \in {s[(j - m) + k], Query}
          PROVE  pat[m] \in {s[j], Query} /\ \A k \in (st + 1)..i : pat[k] \in {s[((j - 1) - i) + k], Query}
      <4>1. pat[m] \in {s[(j - m) + m], Query}
        BY <2>1, <3>3
      <4>2. ASSUME NEW k \in (st + 1)..i PROVE pat[k] \in {s[((j - 1) - i) + k], Query}
        <5>1. k \in (st + 1)..m /\ ((j - 1) - i) + k = (j - m) + k
          BY <2>1, <3>1
        <5>2. pat[k] \in {s[(j - m) + k], Query}
          BY <3>3, <5>1
        <5> QED BY <5>1, <5>2
      <4> QED BY <3>1, <4>1, <4>2
    <3> QED BY <3>1, <3>2, <3>3 DEF Lies
  <2>6. Lies(pat, s, st, m, j) => j \in 1..N
    BY <1>1, <2>1 DEF Lies
  <2>7. j \in match[m] <=> Lies(pat, s, st, m, j)
    BY <2>3, <2>4, <2>5, <2>6
  <2> QED BY <2>7 DEF m
<1>4. e - st \in Nat /\ st + (e - st) = e /\ e <= e
  BY <1>1
<1>5. e - st \in T
  <2> HIDE DEF T
  <2> QED BY <1>2, <1>3, <1>4, Induct
<1> QED BY <1>4, <1>5

Fits(pat, s, a, b, n) == \A k \in 1..n : pat[a + k] \in {s[b + k], Query}

(* Equal, but for the question marks. *)
LEMMA WildIs ==
  ASSUME NEW S, NEW pat \in Seq(S), NEW s \in Seq(S), (\E k \in 1..Len(pat) : pat[k] = Query) => Len(s) >= Len(pat)
  PROVE  /\ WildEq(pat, s, -1) <=> Len(s) = Len(pat) /\ \A k \in 1..Len(pat) : pat[k] \in {s[k], Query}
         /\ WildEq(pat, s, Len(pat)) <=> Len(s) >= Len(pat) /\ \A k \in 1..Len(pat) : pat[k] \in {s[k], Query}
<1> DEFINE m == Len(pat)
           N == Len(s)
           both == Lesser(m, N)
<1>1. m \in Nat /\ N \in Nat
  OBVIOUS
<1>2. both \in Nat /\ both <= m /\ both <= N /\ (both = m \/ both = N)
  BY <1>1 DEF Lesser
<1>3. At(pat, both + 1) = Query => both + 1 \in 1..m /\ pat[both + 1] = Query
  BY <1>1, <1>2 DEF At, Query, NUL
<1>4. At(pat, both + 1) # Query
  <2> SUFFICES ASSUME At(pat, both + 1) = Query PROVE FALSE
    OBVIOUS
  <2>1. N >= m /\ both + 1 <= m
    BY <1>2, <1>3
  <2> HIDE DEF m, N, both
  <2> QED BY <1>1, <1>2, <2>1
<1>5. -1 < 0 /\ ~(m < 0) /\ Lesser(m, both) = both /\ (-1 # both)
  BY <1>1, <1>2 DEF Lesser
<1>6. WildEq(pat, s, -1) <=> (\A k \in 1..both : pat[k] \in {s[k], Query}) /\ m = both /\ N = both
  BY <1>4, <1>5 DEF WildEq, Query
<1>7. WildEq(pat, s, m) <=> (\A k \in 1..both : pat[k] \in {s[k], Query}) /\ m = both
  BY <1>4, <1>5 DEF WildEq, Query
<1>8. (m = both /\ N = both <=> N = m /\ m = both) /\ (m = both <=> N >= m) /\ (N = m => m = both)
  <2> HIDE DEF m, N
  <2> QED BY <1>1 DEF Lesser
<1> HIDE DEF m, N, both
<1>9. WildEq(pat, s, -1) <=> N = m /\ \A k \in 1..m : pat[k] \in {s[k], Query}
  BY <1>6, <1>8
<1>10. WildEq(pat, s, m) <=> N >= m /\ \A k \in 1..m : pat[k] \in {s[k], Query}
  BY <1>7, <1>8
<1> QED BY <1>9, <1>10 DEF m, N

(* What Glob says of a pattern with a star at an end, or at both, or none. *)
LEMMA GlobLies ==
  ASSUME NEW S, NEW pat \in Seq(S), NEW s \in Seq(S), pat # <<>>, NEW st \in {0, 1}, st <= Len(pat),
         st = 1 => pat[1] = Star, \A i \in (st + 1)..(Len(pat) - 1) : pat[i] # Star
  PROVE  /\ pat[Len(pat)] # Star \/ st = Len(pat) => (Glob(pat, s) <=> Lies(pat, s, st, Len(pat), Len(s)))
         /\ pat[Len(pat)] = Star /\ st < Len(pat) => (Glob(pat, s) <=> \E k : Lies(pat, s, st, Len(pat) - 1, k))
<1> DEFINE m == Len(pat)
           N == Len(s)
<1>1. m \in Nat /\ N \in Nat /\ m >= 1
  OBVIOUS
<1>2. PICK match : Reaches(pat, s, match) /\ (Glob(pat, s) <=> N \in match[m])
  BY <1>1, GlobReached
<1>3. CASE pat[m] # Star \/ st = m
  <2>1. \A i \in (st + 1)..m : pat[i] # Star
    BY <1>1, <1>3
  <2>2. m \in st..m
    BY <1>1
  <2>3. \A j : j \in match[m] <=> Lies(pat, s, st, m, j)
    BY <1>1, <1>2, <2>1, <2>2, ReachedIs
  <2>4. Glob(pat, s) <=> Lies(pat, s, st, m, N)
    BY <1>2, <2>3
  <2> QED BY <1>1, <1>3, <2>4
<1>4. CASE pat[m] = Star /\ st < m
  <2>1. \A i \in (st + 1)..(m - 1) : pat[i] # Star
    OBVIOUS
  <2>2. m - 1 \in st..m /\ m \in 1..m
    BY <1>1, <1>4
  <2> DEFINE e == m - 1
  <2>3. e \in st..m /\ \A i \in (st + 1)..e : pat[i] # Star
    BY <2>1, <2>2
  <2>4. \A j : j \in match[e] <=> Lies(pat, s, st, e, j)
    <3> HIDE DEF e
    <3> QED BY <1>1, <1>2, <2>3, ReachedIs
  <2>5. match[m] = Reach(pat, s, m, match[e])
    BY <1>2, <2>2 DEF Reaches
  <2> HIDE DEF e
  <2>6. N \in match[m] <=> \E k \in match[e] : k <= N
    BY <1>1, <1>4, <2>5 DEF Reach
  <2>7. \A k \in match[e] : k <= N
    BY <1>1, <2>4 DEF Lies
  <2>8. (\E k \in match[e] : k <= N) <=> \E k : Lies(pat, s, st, e, k)
    <3> HIDE DEF N
    <3> QED BY <2>4, <2>7
  <2>9. Glob(pat, s) <=> \E k : Lies(pat, s, st, e, k)
    BY <1>2, <2>6, <2>8
  <2> QED BY <1>4, <2>9 DEF e
<1> QED BY <1>3, <1>4

(* Whether part is in s after its i-th character. *)
PrefixAt(part, s, i) == IsPrefix(part, SubSeq(s, i + 1, Len(s)))

(* A text that occurs at a place. *)
LEMMA PrefixIs ==
  ASSUME NEW S, NEW part \in Seq(S), NEW s \in Seq(S), NEW i \in 0..Len(s)
  PROVE  PrefixAt(part, s, i) <=>
           i + Len(part) <= Len(s) /\ \A k \in 1..Len(part) : part[k] = s[i + k]
<1> DEFINE t == Drop(s, i)
           n == Len(part)
<1>1. /\ t \in Seq(S) /\ Len(t) = Len(s) - i /\ \A k \in 1..(Len(s) - i) : t[k] = s[i + k]
      /\ n \in Nat /\ Len(s) \in Nat /\ n \in 0..n
  BY DropFacts
<1>2. PrefixAt(part, s, i) <=> n <= Len(t) /\ SubSeq(part, 1, n) = SubSeq(t, 1, n)
  BY DEF PrefixAt, IsPrefix, Drop
<1>3. SubSeq(part, 1, n) = part
  BY <1>1
<1> HIDE DEF t, n
<1>4. CASE n <= Len(t)
  <2>1. /\ SubSeq(t, 1, n) \in Seq(S) /\ Len(SubSeq(t, 1, n)) = n
        /\ \A k \in 1..n : SubSeq(t, 1, n)[k] = t[k]
    <3>1. n \in 0..Len(t)
      BY <1>1, <1>4
    <3> QED BY <1>1, <3>1, FrontFacts
  <2> DEFINE u == SubSeq(t, 1, n)
  <2>2. part = u <=> \A k \in 1..n : part[k] = u[k]
    <3> HIDE DEF u
    <3> QED BY <2>1, SeqEqual DEF u, n
  <2>3. \A k \in 1..n : u[k] = s[i + k]
    <3> TAKE k \in 1..n
    <3>1. k \in 1..(Len(s) - i)
      BY <1>1, <1>4
    <3> QED BY <1>1, <2>1, <3>1
  <2>4. n <= Len(t) <=> i + n <= Len(s)
    BY <1>1
  <2> HIDE DEF u
  <2> QED BY <1>2, <1>3, <1>4, <2>2, <2>3, <2>4 DEF n, u
<1>5. CASE ~(n <= Len(t))
  <2>1. ~(i + n <= Len(s))
    BY <1>1, <1>5
  <2> QED BY <1>2, <1>5, <2>1 DEF n
<1> QED BY <1>4, <1>5

(* string match agrees with Glob for the patterns Ordinary names. *)
LEMMA MatchIs ==
  ASSUME NEW S, NEW pat \in Seq(S), NEW s \in Seq(S), pat # <<>>, Ordinary(pat, s)
  PROVE  Match(pat, s) <=> Glob(pat, s)
<1> DEFINE m == Len(pat)
           N == Len(s)
<1>1. m \in Nat /\ N \in Nat /\ m >= 1 /\ Head(pat) = pat[1] /\ Last(pat) = pat[m]
  BY DEF Last
<1>2. /\ \A k \in 2..(m - 1) : pat[k] # Star
      /\ (\E k \in 1..m : pat[k] = Query) => N >= m /\ ~(pat[1] = Star /\ pat[m] = Star)
  BY <1>1 DEF Ordinary, Contains, Star, Query
<1>3. Star # Query
  BY DEF Star, Query
<1>4. CASE pat[1] = Star /\ pat[m] = Star
  <2> DEFINE mid == SubSeq(pat, 2, m - 1)
  <2>1. Match(pat, s) <=> \E i \in 0..N : PrefixAt(mid, s, i)
    BY <1>1, <1>4 DEF Match, PrefixAt, Star
  <2>2. CASE m = 1
    <3>1. mid = None /\ Len(mid) = 0 /\ mid \in Seq(S)
      BY <2>2 DEF None
    <3>2. PrefixAt(mid, s, 0)
      <4> HIDE DEF mid
      <4>1. 0 \in 0..N /\ 0 + Len(mid) <= N /\ \A k \in 1..Len(mid) : mid[k] = s[0 + k]
        BY <1>1, <3>1
      <4> QED BY <3>1, <4>1, PrefixIs
    <3>3. Match(pat, s)
      BY <1>1, <2>1, <3>2
    <3>4. Lies(pat, s, 1, m, N)
      BY <1>1, <2>2 DEF Lies
    <3>5. Glob(pat, s)
      <4>1. 1 \in {0, 1} /\ 1 <= m /\ 1 = m /\ \A i \in (1 + 1)..(m - 1) : pat[i] # Star
        BY <2>2
      <4> QED BY <1>4, <3>4, <4>1, GlobLies
    <3> QED BY <3>3, <3>5
  <2>3. CASE m # 1
    <3>1. Glob(pat, s) <=> \E k : Lies(pat, s, 1, m - 1, k)
      <4>1. 1 < m /\ 1 <= m
        <5> HIDE DEF m
        <5> QED BY <1>1, <2>3
      <4>2. 1 \in {0, 1} /\ \A i \in (1 + 1)..(m - 1) : pat[i] # Star
        BY <1>2
      <4> QED BY <1>4, <4>1, <4>2, GlobLies
    <3>a. m - 1 \in 1..m /\ m >= 2 /\ m - 2 \in Nat
      <4> HIDE DEF m
      <4> QED BY <1>1, <2>3
    <3>2. mid \in Seq(S) /\ Len(mid) = m - 2 /\ \A k \in 1..(m - 2) : mid[k] = pat[k + 1]
      <4> DEFINE q == m - 1
      <4>1. q \in 1..Len(pat)
        BY <3>a
      <4> HIDE DEF q
      <4>2. SubSeq(pat, 2, q) \in Seq(S) /\ Len(SubSeq(pat, 2, q)) = q - 1
            /\ \A k \in 1..(q - 1) : SubSeq(pat, 2, q)[k] = pat[k + 1]
        <5>1. /\ SubSeq(pat, 2, q) \in Seq(S)
              /\ Len(SubSeq(pat, 2, q)) = IF 2 <= q THEN q - 2 + 1 ELSE 0
              /\ \A k \in 1..(q - 2 + 1) : SubSeq(pat, 2, q)[k] = pat[2 + k - 1]
          BY <4>1, SubSeqProperties
        <5>2. q - 1 = (q - 2) + 1 /\ (~(2 <= q) => q - 1 = 0) /\ \A k \in 1..(q - 1) : 2 + k - 1 = k + 1
          BY <4>1
        <5> QED BY <5>1, <5>2
      <4>3. q - 1 = m - 2
        <5> HIDE DEF m
        <5> QED BY <1>1 DEF q
      <4> QED BY <4>2, <4>3 DEF q
    <3>3. \A k \in 1..m : pat[k] # Query
      BY <1>2, <1>4
    <3> HIDE DEF mid
    <3>4. ASSUME NEW i \in 0..N
          PROVE  PrefixAt(mid, s, i) <=> Lies(pat, s, 1, m - 1, i + (m - 2))
      <4>1. PrefixAt(mid, s, i) <=> i + (m - 2) <= N /\ \A k \in 1..(m - 2) : mid[k] = s[i + k]
        <5> DEFINE q == m - 2
        <5>1. Len(mid) = q /\ q \in Nat /\ mid \in Seq(S)
          BY <3>a, <3>2
        <5> HIDE DEF q
        <5>2. PrefixAt(mid, s, i) <=> i + Len(mid) <= Len(s) /\ \A k \in 1..Len(mid) : mid[k] = s[i + k]
          BY <5>1, PrefixIs
        <5>3. PrefixAt(mid, s, i) <=> i + q <= N /\ \A k \in 1..q : mid[k] = s[i + k]
          BY <5>1, <5>2, Zenon DEF N
        <5> QED BY <5>3 DEF q
      <4> DEFINE j == i + (m - 2)
      <4>2. j \in Int /\ (j - (m - 1)) = i - 1 /\ (j \in 0..N <=> j <= N) /\ j >= (m - 1) - 1
        <5> HIDE DEF m, N
        <5> QED BY <1>1, <3>a
      <4> HIDE DEF j
      <4>3. Lies(pat, s, 1, m - 1, j) <=> j <= N /\ \A k \in 2..(m - 1) : pat[k] = s[(i - 1) + k]
        <5> DEFINE q == m - 1
        <5>1. q \in Nat /\ \A k \in 2..q : pat[k] # Query
          BY <3>a, <3>3
        <5>2. (j - q) = i - 1 /\ (j \in 0..N <=> j <= N) /\ j >= q - 1
          BY <4>2
        <5> HIDE DEF q, m
        <5>3. Lies(pat, s, 1, q, j) <=> j \in 0..N /\ \A k \in 2..q : pat[k] \in {s[(j - q) + k], Query}
          BY <5>2 DEF Lies, N
        <5>4. Lies(pat, s, 1, q, j) <=> j <= N /\ \A k \in 2..q : pat[k] = s[(i - 1) + k]
          BY <5>1, <5>2, <5>3
        <5> QED BY <5>4 DEF q
      <4>4. ASSUME \A k \in 1..(m - 2) : mid[k] = s[i + k], NEW k \in 2..(m - 1)
            PROVE  pat[k] = s[(i - 1) + k]
        <5>1. k - 1 \in 1..(m - 2) /\ (k - 1) + 1 = k /\ i + (k - 1) = (i - 1) + k
          BY <1>1
        <5> QED BY <3>2, <4>4, <5>1
      <4>5. ASSUME \A k \in 2..(m - 1) : pat[k] = s[(i - 1) + k], NEW k \in 1..(m - 2)
            PROVE  mid[k] = s[i + k]
        <5>1. k + 1 \in 2..(m - 1) /\ (i - 1) + (k + 1) = i + k
          BY <1>1
        <5> QED BY <3>2, <4>5, <5>1
      <4> QED BY <4>1, <4>3, <4>4, <4>5 DEF j
    <3>5. ASSUME NEW k, Lies(pat, s, 1, m - 1, k)
          PROVE  \E i \in 0..N : k = i + (m - 2)
      <4>1. k \in 0..N /\ k >= m - 2
        BY <1>1, <3>5 DEF Lies
      <4>2. k - (m - 2) \in 0..N /\ k = (k - (m - 2)) + (m - 2)
        <5> HIDE DEF m, N
        <5> QED BY <1>1, <3>a, <4>1
      <4> QED BY <4>2
    <3>6. (\E i \in 0..N : PrefixAt(mid, s, i)) <=> \E k : Lies(pat, s, 1, m - 1, k)
      <4> HIDE DEF m, N
      <4> QED BY <3>4, <3>5, Zenon
    <3> QED BY <2>1, <3>1, <3>6 DEF mid
  <2> QED BY <2>2, <2>3
<1>5. CASE pat[1] = Star /\ pat[m] # Star
  <2>1. m > 1
    BY <1>1, <1>5
  <2>2. Glob(pat, s) <=> Lies(pat, s, 1, m, N)
    <3>1. 1 \in {0, 1} /\ 1 <= m /\ \A i \in (1 + 1)..(m - 1) : pat[i] # Star
      BY <1>1, <1>2
    <3> QED BY <1>5, <3>1, GlobLies
  <2> DEFINE rest == Tail(pat)
             tail == SubSeq(s, Greater(N - m + 1, 0) + 1, N)
  <2>3. Match(pat, s) <=> N >= m - 1 /\ WildEq(rest, tail, -1)
    BY <1>1, <1>5, Zenon DEF Match, Star
  <2>4. CASE N >= m - 1
    <3>1. Greater(N - m + 1, 0) = N - m + 1
      BY <1>1, <2>4 DEF Greater
    <3>2. rest \in Seq(S) /\ Len(rest) = m - 1 /\ \A k \in 1..(m - 1) : rest[k] = pat[k + 1]
      BY <1>1, <2>1
    <3> DEFINE d == N - m + 1
    <3>3. d \in 0..N /\ N - d = m - 1 /\ d \in Nat
      BY <1>1, <2>4
    <3>4. tail = Drop(s, d)
      BY <3>1 DEF Drop
    <3> HIDE DEF d, tail, rest
    <3>5. tail \in Seq(S) /\ Len(tail) = m - 1 /\ \A k \in 1..(m - 1) : tail[k] = s[d + k]
      BY <3>3, <3>4, DropFacts
    <3>6. WildEq(rest, tail, -1) <=> \A k \in 1..(m - 1) : rest[k] \in {tail[k], Query}
      <4>1. Len(tail) >= Len(rest)
        BY <1>1, <3>2, <3>5
      <4> QED BY <3>2, <3>5, <4>1, WildIs
    <3>7. Lies(pat, s, 1, m, N) <=> \A k \in 2..m : pat[k] \in {s[(N - m) + k], Query}
      BY <1>1, <2>1, <2>4 DEF Lies
    <3>8. ASSUME \A k \in 1..(m - 1) : rest[k] \in {tail[k], Query}, NEW k \in 2..m
          PROVE  pat[k] \in {s[(N - m) + k], Query}
      <4>1. k - 1 \in 1..(m - 1) /\ (k - 1) + 1 = k /\ d + (k - 1) = (N - m) + k
        BY <1>1 DEF d
      <4> QED BY <3>2, <3>5, <3>8, <4>1
    <3>9. ASSUME \A k \in 2..m : pat[k] \in {s[(N - m) + k], Query}, NEW k \in 1..(m - 1)
          PROVE  rest[k] \in {tail[k], Query}
      <4>1. k + 1 \in 2..m /\ d + k = (N - m) + (k + 1)
        BY <1>1 DEF d
      <4> QED BY <3>2, <3>5, <3>9, <4>1
    <3> QED BY <2>2, <2>3, <2>4, <3>6, <3>7, <3>8, <3>9 DEF tail, rest
  <2>5. CASE ~(N >= m - 1)
    <3>1. ~Lies(pat, s, 1, m, N)
      BY <1>1, <2>5 DEF Lies
    <3> QED BY <2>2, <2>3, <2>5, <3>1
  <2> QED BY <2>4, <2>5
<1>6. CASE pat[1] # Star /\ pat[m] = Star
  <2>1. m > 1
    BY <1>1, <1>6
  <2>2. Glob(pat, s) <=> \E k : Lies(pat, s, 0, m - 1, k)
    <3>1. 0 \in {0, 1} /\ 0 <= m /\ 0 < m /\ 0 # 1 /\ \A i \in (0 + 1)..(m - 1) : pat[i] # Star
      BY <1>1, <1>2, <1>6
    <3> QED BY <1>6, <3>1, GlobLies
  <2> DEFINE head == Front(pat)
  <2>3. Match(pat, s) <=> WildEq(head, s, m - 1)
    BY <1>1, <1>6, Zenon DEF Match, Star
  <2>4. head \in Seq(S) /\ Len(head) = m - 1 /\ \A k \in 1..(m - 1) : head[k] = pat[k]
    BY <1>1, <2>1 DEF Front
  <2> HIDE DEF head
  <2>5. (\E k \in 1..(m - 1) : head[k] = Query) => N >= m - 1
    BY <1>1, <1>2, <2>4
  <2>6. WildEq(head, s, m - 1) <=> N >= m - 1 /\ \A k \in 1..(m - 1) : head[k] \in {s[k], Query}
    <3> DEFINE q == m - 1
    <3>1. Len(head) = q /\ head \in Seq(S) /\ ((\E k \in 1..q : head[k] = Query) => N >= q)
      BY <2>4, <2>5
    <3> HIDE DEF q
    <3>2. (\E k \in 1..Len(head) : head[k] = Query) => Len(s) >= Len(head)
      BY <3>1, Zenon DEF N
    <3>3. WildEq(head, s, Len(head)) <=> Len(s) >= Len(head) /\ \A k \in 1..Len(head) : head[k] \in {s[k], Query}
      BY <3>1, <3>2, WildIs
    <3>4. WildEq(head, s, q) <=> N >= q /\ \A k \in 1..q : head[k] \in {s[k], Query}
      BY <3>1, <3>3, Zenon DEF N
    <3> QED BY <3>4 DEF q
  <2>7. \A k : Lies(pat, s, 0, m - 1, k) <=>
                 k = m - 1 /\ N >= m - 1 /\ \A i \in 1..(m - 1) : pat[i] \in {s[i], Query}
    BY <1>1, <2>1 DEF Lies
  <2> QED BY <2>2, <2>3, <2>4, <2>6, <2>7 DEF head
<1>7. CASE pat[1] # Star /\ pat[m] # Star
  <2>1. Glob(pat, s) <=> Lies(pat, s, 0, m, N)
    <3>1. 0 \in {0, 1} /\ 0 <= m /\ 0 # 1 /\ \A i \in (0 + 1)..(m - 1) : pat[i] # Star
      BY <1>1, <1>2, <1>7
    <3> QED BY <1>7, <3>1, GlobLies
  <2>2. Match(pat, s) <=> WildEq(pat, s, -1)
    BY <1>1, <1>7, Zenon DEF Match, Star
  <2>3. WildEq(pat, s, -1) <=> N = m /\ \A k \in 1..m : pat[k] \in {s[k], Query}
    BY <1>2, WildIs
  <2>4. Lies(pat, s, 0, m, N) <=> N = m /\ \A i \in 1..m : pat[i] \in {s[i], Query}
    BY <1>1 DEF Lies
  <2> QED BY <2>1, <2>2, <2>3, <2>4
<1> QED BY <1>4, <1>5, <1>6, <1>7

(* lsearch finds the first of two elements that matches. *)
LEMMA LsearchIs ==
  ASSUME NEW ws \in Seq(Keeps), Len(ws) = 2, NEW pat \in Seq(Chars \union {Star, Query}), pat # <<>>,
         Ordinary(pat, ws[1]), Ordinary(pat, ws[2])
  PROVE  Lsearch(List(ws), pat) =
           IF Glob(pat, ws[1]) THEN 0 ELSE IF Glob(pat, ws[2]) THEN 1 ELSE Nowhere
<1> DEFINE hits == {k \in DOMAIN ws : Match(pat, ws[k])}
<1>1. Lsearch(List(ws), pat) = IF hits = {} THEN Nowhere ELSE Lowest(hits) - 1
  <2>1. Lsearch(List(ws), pat) =
          LET es == Elements(List(ws))
              hs == {k \in DOMAIN es : Match(pat, es[k])}
          IN IF hs = {} THEN Nowhere ELSE Lowest(hs) - 1
    BY Zenon DEF Lsearch, Lowest
  <2>2. Elements(List(ws)) = ws
    BY Listed
  <2> QED BY <2>1, <2>2
<1>2. /\ DOMAIN ws = {1, 2}
      /\ ws[1] \in Seq(Chars \union {Star, Query}) /\ ws[2] \in Seq(Chars \union {Star, Query})
  <2>1. DOMAIN ws = {1, 2}
    BY DOMAIN ws = 1..Len(ws)
  <2>2. ws[1] \in Keeps /\ ws[2] \in Keeps
    <3>1. 1 \in 1..Len(ws) /\ 2 \in 1..Len(ws)
      OBVIOUS
    <3>2. \A k \in 1..Len(ws) : ws[k] \in Keeps
      BY ElementOfSeq
    <3> QED BY <3>1, <3>2, Zenon
  <2>3. Keeps \subseteq Seq(Chars)
    BY DEF Keeps, Scripts
  <2>4. Seq(Chars) \subseteq Seq(Chars \union {Star, Query})
    OBVIOUS
  <2> QED BY <2>1, <2>2, <2>3, <2>4
<1>3. (Match(pat, ws[1]) <=> Glob(pat, ws[1])) /\ (Match(pat, ws[2]) <=> Glob(pat, ws[2]))
  BY <1>2, MatchIs
<1>4. hits \in SUBSET Nat /\ \A k : k \in hits <=> (k = 1 /\ Glob(pat, ws[1])) \/ (k = 2 /\ Glob(pat, ws[2]))
  BY <1>2, <1>3
<1> HIDE DEF hits
<1>5. CASE hits = {}
  BY <1>1, <1>4, <1>5
<1>6. CASE hits # {}
  <2> DEFINE k == Lowest(hits)
  <2>1. k \in hits /\ \A j \in hits : k <= j
    BY <1>4, <1>6, LowestIs
  <2>2. Lsearch(List(ws), pat) = k - 1
    BY <1>1, <1>6
  <2> HIDE DEF k
  <2>3. CASE Glob(pat, ws[1])
    <3>1. 1 \in hits
      BY <1>4, <2>3
    <3>2. k = 1
      BY <1>4, <2>1, <3>1
    <3> QED BY <2>2, <2>3, <3>2
  <2>4. CASE ~Glob(pat, ws[1])
    <3>1. k = 2 /\ Glob(pat, ws[2])
      BY <1>4, <2>1, <2>4
    <3> QED BY <2>2, <2>4, <3>1
  <2> QED BY <2>3, <2>4
<1> QED BY <1>5, <1>6

-----------------------------------------------------------------------------
(* Places in a text. *)
Begins(s, sub, i) ==
  i \in 0..(Len(s) - Len(sub)) /\ \A k \in 1..Len(sub) : s[i + k] = sub[k]

(* Where a text occurs, *)
LEMMA OccursIs ==
  ASSUME NEW S, NEW s \in Seq(S), NEW sub \in Seq(S), NEW i \in Int
  PROVE  i \in Occurs(s, sub, 0) <=> Begins(s, sub, i)
<1> DEFINE n == Len(sub)
           u == SubSeq(s, i + 1, i + n)
<1>1. n \in Nat /\ Len(s) \in Nat
  OBVIOUS
<1>2. SUFFICES ASSUME i \in 0..(Len(s) - n)
               PROVE  u = sub <=> \A k \in 1..n : s[i + k] = sub[k]
  BY DEF Occurs, Begins
<1>3. u \in Seq(S) /\ Len(u) = n /\ \A k \in 1..n : u[k] = s[i + k]
  <2> DEFINE a == i + 1
             b == i + n
  <2>1. a \in Int /\ b \in Int /\ (\A k \in a..b : s[k] \in S) /\ (IF a <= b THEN b - a + 1 ELSE 0) = n
    BY <1>1, <1>2
  <2>2. \A k \in 1..n : k \in 1..(b - a + 1) /\ a + k - 1 = i + k
    BY <1>1, <1>2
  <2> HIDE DEF a, b, n
  <2>3. SubSeq(s, a, b) \in Seq(S) /\ Len(SubSeq(s, a, b)) = n
        /\ \A k \in 1..(b - a + 1) : SubSeq(s, a, b)[k] = s[a + k - 1]
    BY <2>1, SubSeqProperties
  <2>4. \A k \in 1..n : SubSeq(s, a, b)[k] = s[i + k]
    BY <2>2, <2>3
  <2> QED BY <2>3, <2>4 DEF a, b
<1> HIDE DEF u
<1> QED BY <1>3, SeqEqual

(* and where it does in the reversed text. *)
LEMMA OccursBack ==
  ASSUME NEW S, NEW s \in Seq(S), NEW sub \in Seq(S), NEW i \in Int
  PROVE  i \in Occurs(s, sub, 0) <=>
           Len(s) - Len(sub) - i \in Occurs(Reverse(s), Reverse(sub), 0)
<1> DEFINE N == Len(s)
           n == Len(sub)
           s1 == Reverse(s)
           sub1 == Reverse(sub)
           j == N - n - i
<1>1. N \in Nat /\ n \in Nat
  OBVIOUS
<1>2. /\ s1 \in Seq(S) /\ Len(s1) = N /\ \A k \in 1..N : s1[k] = s[(N - k) + 1]
      /\ sub1 \in Seq(S) /\ Len(sub1) = n /\ \A k \in 1..n : sub1[k] = sub[(n - k) + 1]
  BY <1>1 DEF Reverse
<1>3. i \in Occurs(s, sub, 0) <=> i \in 0..(N - n) /\ \A k \in 1..n : s[i + k] = sub[k]
  BY OccursIs DEF Begins
<1>8. j \in Int
  BY <1>1
<1> HIDE DEF N, n, s1, sub1
<1>4. j \in Occurs(s1, sub1, 0) <=> j \in 0..(N - n) /\ \A k \in 1..n : s1[j + k] = sub1[k]
  <2> HIDE DEF j
  <2>1. j \in Occurs(s1, sub1, 0) <=> Begins(s1, sub1, j)
    BY <1>2, <1>8, OccursIs
  <2> QED BY <1>2, <2>1 DEF Begins
<1>5. j \in 0..(N - n) <=> i \in 0..(N - n)
  BY <1>1
<1>6. ASSUME i \in 0..(N - n), NEW k \in 1..n
      PROVE  /\ (n - k) + 1 \in 1..n /\ (n - ((n - k) + 1)) + 1 = k
             /\ s1[j + k] = s[i + ((n - k) + 1)] /\ sub1[k] = sub[(n - k) + 1]
  <2>1. j + k \in 1..N /\ (N - (j + k)) + 1 = i + ((n - k) + 1)
    BY <1>1, <1>6
  <2>2. (n - k) + 1 \in 1..n /\ (n - ((n - k) + 1)) + 1 = k
    BY <1>1
  <2> HIDE DEF j
  <2>3. s1[j + k] = s[i + ((n - k) + 1)]
    BY <1>2, <2>1
  <2> QED BY <1>2, <2>2, <2>3
<1> HIDE DEF j
<1>7. ASSUME i \in 0..(N - n)
      PROVE  (\A k \in 1..n : s[i + k] = sub[k]) <=> \A k \in 1..n : s1[j + k] = sub1[k]
  <2>1. ASSUME \A k \in 1..n : s[i + k] = sub[k], NEW k \in 1..n
        PROVE  s1[j + k] = sub1[k]
    BY <1>6, <1>7, <2>1
  <2>2. ASSUME \A k \in 1..n : s1[j + k] = sub1[k], NEW k \in 1..n
        PROVE  s[i + k] = sub[k]
    <3> DEFINE q == (n - k) + 1
    <3>1. q \in 1..n /\ (n - q) + 1 = k
      BY <1>1
    <3> HIDE DEF q
    <3>2. s1[j + q] = s[i + ((n - q) + 1)] /\ sub1[q] = sub[(n - q) + 1]
      BY <1>6, <1>7, <3>1
    <3> QED BY <2>2, <3>1, <3>2
  <2> QED BY <2>1, <2>2
<1> QED BY <1>3, <1>4, <1>5, <1>7 DEF N, n, s1, sub1, j

Highest(S) == CHOOSE k \in S : \A j \in S : k >= j

(* A set of numbers with a bound has a greatest one. *)
LEMMA HighestIs ==
  ASSUME NEW n \in Nat, NEW S \in SUBSET (0..n), S # {}
  PROVE  Highest(S) \in S /\ \A j \in S : Highest(S) >= j
<1>1. \E k \in S : \A j \in S : k >= j
  BY Greatest
<1> QED BY <1>1 DEF Highest

(* string last is string first from behind. *)
LEMMA LastIs ==
  ASSUME NEW S, NEW s \in Seq(S), NEW sub \in Seq(S)
  PROVE  LET back == StringFirst(Reverse(sub), Reverse(s), 0)
         IN StringLast(sub, s, 0) = IF back = Nowhere THEN Nowhere ELSE Len(s) - Len(sub) - back
<1> DEFINE N == Len(s)
           n == Len(sub)
           d == N - n
           front == Occurs(s, sub, 0)
           back == Occurs(Reverse(s), Reverse(sub), 0)
           first == StringFirst(Reverse(sub), Reverse(s), 0)
           last == StringLast(sub, s, 0)
<1>1. N \in Nat /\ n \in Nat /\ d \in Int /\ Len(Reverse(s)) = N /\ Len(Reverse(sub)) = n
  BY DEF Reverse
<1>2. front \subseteq 0..d /\ back \subseteq 0..d /\ front \subseteq 0..N
  <2>1. front \subseteq 0..d
    BY DEF Occurs
  <2>2. back \subseteq 0..d
    BY <1>1 DEF Occurs
  <2>3. 0..d \subseteq 0..N
    BY <1>1
  <2> QED BY <2>1, <2>2, <2>3
<1>3. \A i \in Int : i \in front <=> d - i \in back
  BY OccursBack
<1>4. last = IF front = {} THEN 0 - 1 ELSE Highest(front)
  BY Zenon DEF StringLast, Highest
<1>5. first = IF back = {} THEN Nowhere ELSE Lowest(back)
  BY Zenon DEF StringFirst, Lowest
<1> HIDE DEF N, n, front, back, first, last
<1>6. CASE back = {}
  <2>1. front = {}
    BY <1>1, <1>2, <1>3, <1>6
  <2>2. last = Nowhere /\ first = Nowhere
    BY <1>4, <1>5, <1>6, <2>1 DEF Nowhere
  <2> QED BY <2>2 DEF first, last
<1>7. CASE back # {}
  <2>1. PICK j \in back : TRUE
    BY <1>7
  <2>2. j \in Int /\ d - j \in Int /\ d - (d - j) = j
    BY <1>1, <1>2, <2>1
  <2>3. front # {}
    BY <1>3, <2>1, <2>2
  <2> DEFINE lo == Lowest(back)
             hi == Highest(front)
  <2>4. lo \in back /\ \A k \in back : lo <= k
    <3>1. back \in SUBSET Nat
      BY <1>1, <1>2
    <3> QED BY <1>7, <3>1, LowestIs
  <2>5. hi \in front /\ \A k \in front : hi >= k
    <3>1. front \in SUBSET (0..N)
      BY <1>2
    <3> QED BY <1>1, <2>3, <3>1, HighestIs
  <2> HIDE DEF lo, hi
  <2>6. lo \in Int /\ hi \in Int /\ lo >= 0 /\ d - lo \in Int /\ d - (d - lo) = lo
    BY <1>1, <1>2, <2>4, <2>5
  <2>7. d - lo \in front /\ d - hi \in back
    BY <1>3, <2>4, <2>5, <2>6
  <2>8. hi >= d - lo /\ lo <= d - hi
    BY <2>4, <2>5, <2>7
  <2> HIDE DEF d
  <2>9. hi = d - lo
    BY <1>1, <2>6, <2>8
  <2>10. last = hi /\ first = lo
    BY <1>4, <1>5, <1>7, <2>3 DEF lo, hi
  <2>11. lo # Nowhere
    BY <2>6 DEF Nowhere
  <2> QED BY <2>9, <2>10, <2>11, Zenon DEF first, last, d, N, n
<1> QED BY <1>6, <1>7

(* string range cuts out what is asked for. *)
LEMMA RangeIs ==
  ASSUME NEW S, NEW s \in Seq(S), NEW first \in Int, NEW last \in Int, 1 <= first, first <= last, Inside(last, s)
  PROVE  StringRange(s, first, last) = SubSeq(s, first + 1, last + 1)
<1> DEFINE copy == SubSeq(s, first + 1, last + 1)
<1>1. Len(s) \in Nat /\ last < Len(s) /\ last >= 0
  BY DEF Inside
<1>2. Within(first, s) = first /\ Within(last, s) = last
  <2> DEFINE N == Len(s)
  <2> HIDE DEF N
  <2>1. Lesser(Greater(first, 0), N - 1) = first /\ Lesser(Greater(last, 0), N - 1) = last
    BY <1>1 DEF Lesser, Greater, N
  <2> QED BY <2>1 DEF Within, N
<1>3. copy \in Seq(S) /\ Len(copy) = (last - first) + 1
  <2> DEFINE a == first + 1
             b == last + 1
  <2>1. a \in Int /\ b \in Int /\ a <= b /\ (b - a) + 1 = (last - first) + 1
    BY <1>1
  <2>2. \A k \in a..b : s[k] \in S
    BY <1>1
  <2> HIDE DEF a, b
  <2>3. SubSeq(s, a, b) \in Seq(S) /\ Len(SubSeq(s, a, b)) = (b - a) + 1
    BY <2>1, <2>2, SubSeqProperties
  <2> QED BY <2>1, <2>3 DEF a, b
<1>4. Lesser(last, Len(copy)) = Len(copy)
  <2> HIDE DEF copy
  <2> QED BY <1>1, <1>3 DEF Lesser
<1>5. SubSeq(copy, 1, Len(copy)) = copy
  <2> HIDE DEF copy
  <2> QED BY <1>3, SubSeqFull
<1> QED BY <1>2, <1>4, <1>5 DEF StringRange

(* string index takes one character. *)
LEMMA IndexIs ==
  ASSUME NEW s, Len(s) \in Nat, NEW n, Inside(n, s)
  PROVE  StringIndex(s, n) = <<s[n + 1]>>
<1>1. n \in Int /\ 0 <= n /\ n <= Len(s) - 1
  BY DEF Inside
<1>2. Within(n, s) = n
  BY <1>1 DEF Within, Lesser, Greater
<1> QED BY <1>2 DEF StringIndex

Solid(s) == {i \in DOMAIN s : s[i] \notin Space}

(* Where a trimmed text begins, *)
LEMMA TrimFrom ==
  ASSUME NEW S, NEW s \in Seq(S), NEW front \in BOOLEAN
  PROVE  LET from == IF ~front THEN 1 ELSE IF Solid(s) = {} THEN Len(s) + 1 ELSE Lowest(Solid(s))
         IN /\ from \in 1..(Len(s) + 1) /\ \A k \in 1..(from - 1) : s[k] \in Space
            /\ (front /\ from <= Len(s) => s[from] \notin Space) /\ (~front => from = 1)
<1> DEFINE kept == Solid(s)
           low == Lowest(kept)
<1>1. Len(s) \in Nat /\ \A k : k \in kept <=> k \in 1..Len(s) /\ s[k] \notin Space
  BY DEF Solid
<1> HIDE DEF kept
<1>2. CASE ~front
  BY <1>1, <1>2
<1>3. CASE front /\ kept = {}
  BY <1>1, <1>3 DEF kept
<1>4. CASE front /\ kept # {}
  <2>1. kept \in SUBSET Nat
    BY <1>1
  <2>2. low \in kept /\ \A j \in kept : low <= j
    BY <1>4, <2>1, LowestIs
  <2> HIDE DEF low
  <2>3. low \in 1..Len(s) /\ s[low] \notin Space
    BY <1>1, <2>2
  <2>4. ASSUME NEW k \in 1..(low - 1) PROVE s[k] \in Space
    <3>1. k \in 1..Len(s) /\ ~(low <= k)
      BY <1>1, <2>3
    <3> QED BY <1>1, <2>2, <3>1
  <2> QED BY <1>1, <1>4, <2>3, <2>4 DEF low, kept
<1> QED BY <1>2, <1>3, <1>4

(* and where it ends. *)
LEMMA TrimTo ==
  ASSUME NEW S, NEW s \in Seq(S), NEW back \in BOOLEAN
  PROVE  LET to == IF ~back THEN Len(s) ELSE IF Solid(s) = {} THEN 0 ELSE Highest(Solid(s))
         IN /\ to \in 0..Len(s) /\ \A k \in (to + 1)..Len(s) : s[k] \in Space
            /\ (back /\ to >= 1 => s[to] \notin Space) /\ (~back => to = Len(s))
<1> DEFINE kept == Solid(s)
           high == Highest(kept)
<1>1. Len(s) \in Nat /\ \A k : k \in kept <=> k \in 1..Len(s) /\ s[k] \notin Space
  BY DEF Solid
<1> HIDE DEF kept
<1>2. CASE ~back
  BY <1>1, <1>2
<1>3. CASE back /\ kept = {}
  BY <1>1, <1>3 DEF kept
<1>4. CASE back /\ kept # {}
  <2>1. kept \in SUBSET (0..Len(s))
    BY <1>1
  <2>2. high \in kept /\ \A j \in kept : high >= j
    BY <1>1, <1>4, <2>1, HighestIs
  <2> HIDE DEF high
  <2>3. high \in 1..Len(s) /\ s[high] \notin Space
    BY <1>1, <2>2
  <2>4. ASSUME NEW k \in (high + 1)..Len(s) PROVE s[k] \in Space
    <3>1. k \in 1..Len(s) /\ ~(high >= k)
      BY <1>1, <2>3
    <3> QED BY <1>1, <2>2, <3>1
  <2> QED BY <1>1, <1>4, <2>3, <2>4 DEF high, kept
<1> QED BY <1>2, <1>3, <1>4

(* What trimming takes away at both ends, and what it leaves. *)
Trims(s, front, back, t, i, j) ==
  LET cut == SubSeq(s, 1, i) \o SubSeq(s, Len(s) - j + 1, Len(s))
  IN /\ t = SubSeq(s, i + 1, Len(s) - j)
     /\ \A k \in DOMAIN cut : cut[k] \in Space
     /\ (front /\ t # <<>> => Head(t) \notin Space) /\ (~front => i = 0)
     /\ (back /\ t # <<>> => Last(t) \notin Space) /\ (~back => j = 0)

(* string trim takes white space off the ends it is asked to, no more. *)
LEMMA TrimIs ==
  ASSUME NEW S, NEW s \in Seq(S), NEW front \in BOOLEAN, NEW back \in BOOLEAN
  PROVE  \E i \in 0..Len(s), j \in 0..Len(s) : Trims(s, front, back, Trim(s, front, back), i, j)
<1> DEFINE N == Len(s)
           from == IF ~front THEN 1 ELSE IF Solid(s) = {} THEN Len(s) + 1 ELSE Lowest(Solid(s))
           to == IF ~back THEN Len(s) ELSE IF Solid(s) = {} THEN 0 ELSE Highest(Solid(s))
           t == Trim(s, front, back)
           i == from - 1
           j == N - to
<1>1. /\ from \in 1..(N + 1) /\ \A k \in 1..(from - 1) : s[k] \in Space
      /\ (front /\ from <= N => s[from] \notin Space) /\ (~front => from = 1)
  BY TrimFrom
<1>2. /\ to \in 0..N /\ \A k \in (to + 1)..N : s[k] \in Space
      /\ (back /\ to >= 1 => s[to] \notin Space) /\ (~back => to = N)
  BY TrimTo
<1>3. t = SubSeq(s, from, to)
  BY Zenon DEF Trim, Solid, Lowest, Highest
<1>4. N \in Nat /\ \A k \in 1..N : s[k] \in S
  BY ElementOfSeq
<1> HIDE DEF N, from, to, t
<1>5. /\ i \in 0..N /\ j \in 0..N /\ i + 1 = from /\ N - j = to /\ N - j + 1 = to + 1
      /\ (~front => i = 0) /\ (~back => j = 0) /\ from - 1 = i
  BY <1>1, <1>2, <1>4
<1> HIDE DEF i, j
<1> DEFINE A == SubSeq(s, 1, i)
           B == SubSeq(s, to + 1, N)
<1>6. A \in Seq(Space) /\ B \in Seq(Space)
  <2>1. \A k \in 1..i : s[k] \in Space
    BY <1>1, <1>5
  <2>2. A \in Seq(Space)
    BY <1>5, <2>1, SubSeqProperties
  <2> DEFINE a == to + 1
  <2>3. a \in Int /\ \A k \in a..N : s[k] \in Space
    BY <1>2
  <2> HIDE DEF a
  <2>4. SubSeq(s, a, N) \in Seq(Space)
    BY <1>4, <2>3, SubSeqProperties
  <2> QED BY <2>2, <2>4 DEF a
<1>7. \A k \in DOMAIN (A \o B) : (A \o B)[k] \in Space
  <2> HIDE DEF A, B
  <2> DEFINE c == A \o B
  <2>1. c \in Seq(Space)
    BY <1>6, ConcatProperties
  <2> HIDE DEF c
  <2>2. \A k \in DOMAIN c : c[k] \in Space
    BY <2>1, ElementOfSeq
  <2> QED BY <2>2 DEF c
<1>8. t # <<>> => from <= to /\ Head(t) = s[from] /\ Last(t) = s[to]
  <2> SUFFICES ASSUME t # <<>> PROVE from <= to /\ Head(t) = s[from] /\ Last(t) = s[to]
    OBVIOUS
  <2>1. from \in Int /\ to \in Int /\ from >= 1 /\ to <= N
    BY <1>1, <1>2, <1>4
  <2>2. from <= to
    BY <1>3, <2>1, SubSeqEmpty
  <2>3. /\ t \in Seq(S) /\ Len(t) = to - from + 1
        /\ \A k \in 1..(to - from + 1) : t[k] = s[from + k - 1]
    <3>1. \A k \in from..to : s[k] \in S
      BY <1>4, <2>1
    <3> QED BY <1>3, <2>1, <2>2, <3>1, SubSeqProperties
  <2> DEFINE q == to - from + 1
  <2>4. 1 \in 1..q /\ q \in 1..q /\ from + 1 - 1 = from /\ from + q - 1 = to
    BY <2>1, <2>2
  <2>5. t[1] = s[from] /\ t[q] = s[to]
    BY <2>3, <2>4
  <2> QED BY <2>2, <2>3, <2>5 DEF Last
<1>9. (front /\ t # <<>> => Head(t) \notin Space) /\ (back /\ t # <<>> => Last(t) \notin Space)
  <2>1. from <= to => from <= N /\ to >= 1
    BY <1>1, <1>2, <1>4
  <2> QED BY <1>1, <1>2, <1>8, <2>1
<1>10. Trims(s, front, back, t, i, j)
  <2>1. SubSeq(s, 1, i) \o SubSeq(s, Len(s) - j + 1, Len(s)) = A \o B
    BY <1>5 DEF N
  <2>2. t = SubSeq(s, i + 1, Len(s) - j)
    BY <1>3, <1>5 DEF N
  <2> HIDE DEF A, B
  <2> QED BY <1>5, <1>7, <1>9, <2>1, <2>2, Zenon DEF Trims
<1> QED BY <1>5, <1>10 DEF t, N

-----------------------------------------------------------------------------
(* A bucket of an array in which no more than two keys are kept. *)
Two(A, b, x, y) ==
  /\ b \in Seq(A \X A) /\ Len(b) <= 2 /\ \A i \in 1..Len(b) : b[i][1] \in {x, y}
  /\ \A i, j \in 1..Len(b) : b[i][1] = b[j][1] => i = j

Has(b, p) == \E i \in 1..Len(b) : b[i] = p

(* An array is read by its key. *)
LEMMA ArrGetIs ==
  ASSUME NEW A, NEW b, NEW x, NEW y, Two(A, b, x, y), NEW key, NEW value, Has(b, <<key, value>>)
  PROVE  ArrGet(b, key) = value
<1>1. PICK i \in 1..Len(b) : b[i] = <<key, value>>
  BY DEF Has
<1> DEFINE same == {k \in DOMAIN b : b[k][1] = key}
<1>2. DOMAIN b = 1..Len(b) /\ \A k, j \in 1..Len(b) : b[k][1] = b[j][1] => k = j
  BY DEF Two
<1>3. same = {i}
  BY <1>1, <1>2
<1>4. ArrGet(b, key) = IF same = {} THEN Nowhere ELSE b[CHOOSE k \in same : TRUE][2]
  BY Zenon DEF ArrGet
<1> HIDE DEF same
<1>5. (CHOOSE k \in same : TRUE) = i /\ same # {}
  BY <1>3
<1>6. ArrGet(b, key) = b[i][2]
  BY <1>4, <1>5, Zenon
<1>7. b[i][2] = value
  BY <1>1
<1> QED BY <1>6, <1>7

(* Setting a key leaves the other one as it was. *)
LEMMA ArrSetIs ==
  ASSUME NEW A, NEW b, NEW x \in A, NEW y \in A, Two(A, b, x, y), NEW key \in {x, y}, NEW value \in A
  PROVE  LET c == ArrSet(b, key, value)
         IN /\ Two(A, c, x, y) /\ Has(c, <<key, value>>)
            /\ \A p : Has(b, p) /\ p[1] # key => Has(c, p)
<1> DEFINE same == {k \in DOMAIN b : b[k][1] = key}
           i == CHOOSE k \in same : TRUE
           c == ArrSet(b, key, value)
           new == <<key, value>>
           n == Len(b)
<1>1. /\ b \in Seq(A \X A) /\ n \in Nat /\ n <= 2 /\ DOMAIN b = 1..n
      /\ \A k \in 1..n : b[k] \in A \X A /\ b[k][1] \in {x, y}
      /\ \A k, j \in 1..n : b[k][1] = b[j][1] => k = j
  <2>1. \A k \in 1..n : b[k] \in A \X A
    BY ElementOfSeq DEF Two
  <2> QED BY <2>1 DEF Two
<1>2. new \in A \X A /\ new[1] = key /\ key \in {x, y}
  OBVIOUS
<1>3. c = IF same # {} THEN [b EXCEPT ![i][2] = value]
          ELSE <<new>> \o IF b = <<>> THEN <<>> ELSE <<Last(b)>>
  BY Zenon DEF ArrSet
<1>4. CASE same # {}
  <2>1. i \in 1..n /\ b[i][1] = key
    <3>1. i \in same
      BY <1>4
    <3> QED BY <1>1, <3>1
  <2>2. c = [b EXCEPT ![i] = [b[i] EXCEPT ![2] = value]]
    BY <1>3, <1>4
  <2> HIDE DEF i, c, same, new, n
  <2>3. PICK u \in A, v \in A : b[i] = <<u, v>>
    BY <1>1, <2>1
  <2>4. [b[i] EXCEPT ![2] = value] = new
    BY <2>1, <2>3 DEF new
  <2>5. c = [b EXCEPT ![i] = new]
    BY <2>2, <2>4
  <2>6. c \in Seq(A \X A) /\ Len(c) = n
    BY <1>1, <1>2, <2>1, <2>5 DEF n
  <2>7. \A k \in 1..n : c[k] = IF k = i THEN new ELSE b[k]
    BY <1>1, <2>5
  <2>8. \A k \in 1..n : c[k][1] = b[k][1]
    BY <1>2, <2>1, <2>7
  <2>9. Two(A, c, x, y)
    BY <1>1, <2>6, <2>8 DEF Two
  <2>10. Has(c, new)
    BY <2>1, <2>6, <2>7 DEF Has
  <2>11. ASSUME NEW p, Has(b, p), p[1] # key PROVE Has(c, p)
    <3>1. PICK k \in 1..n : b[k] = p
      BY <2>11 DEF Has, n
    <3>2. k # i
      BY <2>1, <2>11, <3>1
    <3> QED BY <2>6, <2>7, <3>1, <3>2 DEF Has
  <2> QED BY <2>9, <2>10, <2>11 DEF c, new
<1>5. CASE same = {}
  <2>1. \A k \in 1..n : b[k][1] # key
    BY <1>1, <1>5
  <2>2. n <= 1
    <3> SUFFICES ASSUME n = 2 PROVE FALSE
      BY <1>1
    <3>1. 1 \in 1..n /\ 2 \in 1..n /\ 1 # 2
      OBVIOUS
    <3>2. b[1][1] # b[2][1] /\ b[1][1] \in {x, y} /\ b[2][1] \in {x, y} /\ b[1][1] # key /\ b[2][1] # key
      BY <1>1, <2>1, <3>1
    <3> QED BY <1>2, <3>2
  <2>3. CASE n = 0
    <3>1. b = <<>>
      BY <1>1, <2>3
    <3>2. c = <<new>>
      BY <1>3, <1>5, <3>1
    <3> HIDE DEF c, new, n
    <3>3. Two(A, c, x, y) /\ Has(c, new)
      BY <1>2, <3>2 DEF Two, Has
    <3>4. \A p : ~Has(b, p)
      BY <2>3 DEF Has, n
    <3> QED BY <3>3, <3>4 DEF c, new
  <2>4. CASE n = 1
    <3> DEFINE old == b[1]
    <3>1. b # <<>> /\ Last(b) = old
      <4>1. Len(b) = 1
        BY <2>4
      <4>2. Last(b) = b[Len(b)]
        BY Zenon DEF Last
      <4>3. Len(b) # 0
        BY <4>1
      <4>4. b # <<>>
        BY <4>3, NotNone, Zenon
      <4> QED BY <4>1, <4>2, <4>4, Zenon
    <3>2. old \in A \X A /\ old[1] \in {x, y} /\ old[1] # key
      BY <1>1, <2>1, <2>4
    <3>3. c = <<new>> \o <<old>>
      BY <1>3, <1>5, <3>1
    <3>4. \A p : Has(b, p) => p = old
      BY <2>4 DEF Has
    <3> HIDE DEF c, new, n, old
    <3>5. /\ c \in Seq(A \X A) /\ Len(c) = 2 /\ c[1] = new /\ c[2] = old
      <4>1. <<new>> \in Seq(A \X A) /\ <<old>> \in Seq(A \X A) /\ Len(<<new>>) = 1 /\ Len(<<old>>) = 1
            /\ <<new>>[1] = new /\ <<old>>[1] = old
        BY <1>2, <3>2
      <4> DEFINE l == <<new>>
                 r == <<old>>
      <4> HIDE DEF l, r
      <4>2. Joined(A \X A, l, r, c)
        BY <3>3, <4>1, CatFacts DEF Cat, l, r
      <4> QED BY <4>1, <4>2 DEF Joined, l, r
    <3>6. \A k \in 1..2 : k = 1 \/ k = 2
      OBVIOUS
    <3>7. Two(A, c, x, y)
      <4>1. \A k \in 1..2 : c[k][1] \in {x, y}
        BY <1>2, <3>2, <3>5, <3>6
      <4>2. \A k, j \in 1..2 : c[k][1] = c[j][1] => k = j
        BY <1>2, <3>2, <3>5, <3>6
      <4> QED BY <3>5, <4>1, <4>2 DEF Two
    <3>8. Has(c, new) /\ Has(c, old)
      BY <3>5 DEF Has
    <3> QED BY <3>4, <3>7, <3>8 DEF c, new
  <2> QED BY <1>1, <2>2, <2>3, <2>4
<1> QED BY <1>4, <1>5

(* The bucket after each of the settings. *)
Set(b, p) == ArrSet(b, p[1], p[2])
Settings(sets, g) == g = [k \in 0..Len(sets) |-> IF k = 0 THEN <<>> ELSE Set(g[k - 1], sets[k])]

(* The value last set for each key is there after the k-th setting. *)
Newest(A, sets, x, y, b, k) ==
  /\ Two(A, b, x, y)
  /\ \A j \in 1..k : (\A i \in (j + 1)..k : sets[i][1] # sets[j][1]) => Has(b, sets[j])

(* For two keys at most, an array keeps the last value of each. *)
LEMMA BucketIs ==
  ASSUME NEW A, NEW sets \in Seq(A \X A), NEW x \in A, NEW y \in A,
         \A k \in 1..Len(sets) : sets[k][1] \in {x, y}
  PROVE  \A k \in 1..Len(sets) :
           (\A j \in 1..Len(sets) : j > k => sets[j][1] # sets[k][1]) =>
             ArrGet(Bucket(sets), sets[k][1]) = sets[k][2]
<1> DEFINE n == Len(sets)
           X == {b \in Seq(A \X A) : Two(A, b, x, y)}
           h == [z \in (1..n) \X X |-> Set(z[2], sets[z[1]])]
<1>1. n \in Nat /\ \A k \in 1..n : sets[k] \in A \X A
  BY ElementOfSeq
<1>2. \A b : b \in X <=> Two(A, b, x, y)
  BY DEF Two
<1>3. Two(A, None, x, y)
  BY NoneIs DEF Two
<1>4. ASSUME NEW b, Two(A, b, x, y), NEW k \in 1..n
      PROVE  /\ Two(A, Set(b, sets[k]), x, y) /\ Has(Set(b, sets[k]), sets[k])
             /\ \A p : Has(b, p) /\ p[1] # sets[k][1] => Has(Set(b, sets[k]), p)
  <2>1. PICK key \in A, value \in A : sets[k] = <<key, value>>
    BY <1>1
  <2>2. key \in {x, y} /\ sets[k][1] = key /\ sets[k][2] = value
    BY <2>1
  <2> DEFINE c == ArrSet(b, key, value)
  <2>3. Set(b, sets[k]) = c
    BY <2>2 DEF Set
  <2>4. Two(A, c, x, y) /\ Has(c, <<key, value>>) /\ \A p : Has(b, p) /\ p[1] # key => Has(c, p)
    BY <1>4, <2>2, ArrSetIs, Zenon
  <2> HIDE DEF c
  <2> QED BY <2>1, <2>2, <2>3, <2>4, Zenon
<1>5. h \in [(1..n) \X X -> X]
  <2>1. ASSUME NEW z \in (1..n) \X X PROVE Set(z[2], sets[z[1]]) \in X
    <3>1. z[2] \in X /\ z[1] \in 1..n
      OBVIOUS
    <3> DEFINE b == z[2]
               k == z[1]
    <3> HIDE DEF X, b, k, n
    <3> QED BY <1>2, <1>4, <3>1 DEF b, k
  <2> HIDE DEF X, n
  <2> QED BY <2>1
<1>6. \A k \in 1..n, b \in X : h[<<k, b>>] = Set(b, sets[k])
  OBVIOUS
<1> HIDE DEF n, X, h
<1>7. PICK f : Goes(X, n, None, h, f)
  BY <1>1, <1>2, <1>3, <1>5, Recursion
<1>8. f \in [0..n -> X] /\ f[0] = None /\ \A k \in 1..n : f[k] = h[<<k, f[k - 1]>>]
  BY <1>7 DEF Goes
<1>9. \A k \in 1..n : f[k] = Set(f[k - 1], sets[k])
  <2> TAKE k \in 1..n
  <2>1. f[k - 1] \in X
    BY <1>1, <1>8
  <2> QED BY <1>6, <1>8, <2>1
<1>10. f = [k \in 0..n |-> IF k = 0 THEN None ELSE Set(f[k - 1], sets[k])]
  <2> DEFINE g == [k \in 0..n |-> IF k = 0 THEN None ELSE Set(f[k - 1], sets[k])]
  <2>1. \A k \in 0..n : g[k] = f[k]
    <3> TAKE k \in 0..n
    <3>1. CASE k = 0
      BY <1>8, <3>1
    <3>2. CASE k # 0
      <4>1. k \in 1..n
        BY <1>1, <3>2
      <4> QED BY <1>9, <3>2, <4>1
    <3> QED BY <3>1, <3>2
  <2>2. g = [k \in 0..n |-> g[k]] /\ f = [k \in 0..n |-> f[k]]
    BY <1>8
  <2> HIDE DEF g
  <2>3. g = f
    BY <2>1, <2>2
  <2> QED BY <2>3 DEF g
<1>11. Settings(sets, f)
  BY <1>10, Zenon DEF Settings, None, n
<1> DEFINE g == CHOOSE g : Settings(sets, g)
<1>12. Settings(sets, g)
  BY <1>11
<1>13. Bucket(sets) = g[n]
  BY Zenon DEF Bucket, Settings, Set, n
<1> HIDE DEF g
<1>14. \A k \in 0..n : g[k] = IF k = 0 THEN None ELSE Set(g[k - 1], sets[k])
  <2>1. g = [k \in 0..n |-> IF k = 0 THEN None ELSE Set(g[k - 1], sets[k])]
    BY <1>12, Zenon DEF Settings, None, n
  <2> QED BY <2>1, Zenon
<1>15. g[0] = None /\ \A k \in Nat : k + 1 <= n => g[k + 1] = Set(g[k], sets[k + 1])
  <2>1. g[0] = None
    BY <1>1, <1>14
  <2>2. ASSUME NEW k \in Nat, k + 1 <= n PROVE g[k + 1] = Set(g[k], sets[k + 1])
    <3> DEFINE j == k + 1
    <3>1. j \in 0..n /\ j # 0 /\ j - 1 = k
      BY <1>1, <2>2
    <3> HIDE DEF j
    <3>2. g[j] = Set(g[j - 1], sets[j])
      BY <1>14, <3>1, Zenon
    <3> QED BY <3>1, <3>2 DEF j
  <2> QED BY <2>1, <2>2
<1> DEFINE T == {k \in Nat : k <= n => Newest(A, sets, x, y, g[k], k)}
<1>16. 0 \in T
  BY <1>3, <1>15 DEF Newest
<1>17. \A k \in Nat : k \in T => k + 1 \in T
  <2> SUFFICES ASSUME NEW k \in Nat, k + 1 <= n, Newest(A, sets, x, y, g[k], k)
               PROVE  Newest(A, sets, x, y, g[k + 1], k + 1)
    <3>1. \A k \in Nat : (k + 1 <= n => k <= n) /\ k + 1 \in Nat
      BY <1>1
    <3>2. \A k \in Nat : k \in T <=> (k <= n => Newest(A, sets, x, y, g[k], k))
      OBVIOUS
    <3> HIDE DEF T
    <3> QED BY <3>1, <3>2
  <2> DEFINE m == k + 1
             b == g[k]
             c == g[m]
  <2>1. m \in 1..n
    BY <1>1
  <2>2. c = Set(b, sets[m])
    BY <1>15
  <2> HIDE DEF m, b, c
  <2>3. Two(A, b, x, y) /\ \A j \in 1..k : (\A i \in (j + 1)..k : sets[i][1] # sets[j][1]) => Has(b, sets[j])
    BY DEF Newest, b
  <2>4. /\ Two(A, c, x, y) /\ Has(c, sets[m])
        /\ \A p : Has(b, p) /\ p[1] # sets[m][1] => Has(c, p)
    BY <1>4, <2>1, <2>2, <2>3
  <2>5. ASSUME NEW j \in 1..m, \A i \in (j + 1)..m : sets[i][1] # sets[j][1]
        PROVE  Has(c, sets[j])
    <3>1. CASE j = m
      BY <2>4, <3>1
    <3>2. CASE j # m
      <4>1. j \in 1..k /\ m \in (j + 1)..m /\ \A i \in (j + 1)..k : i \in (j + 1)..m
        BY <2>1, <3>2 DEF m
      <4>2. Has(b, sets[j]) /\ sets[j][1] # sets[m][1]
        BY <2>3, <2>5, <4>1
      <4> QED BY <2>4, <4>2
    <3> QED BY <3>1, <3>2
  <2>6. Newest(A, sets, x, y, c, m)
    BY <2>4, <2>5 DEF Newest
  <2> QED BY <2>6 DEF c, m
<1>18. n \in T
  <2> HIDE DEF T
  <2> QED BY <1>1, <1>16, <1>17, Induct
<1>19. Newest(A, sets, x, y, Bucket(sets), n)
  BY <1>1, <1>13, <1>18
<1> HIDE DEF T
<1>20. ASSUME NEW k \in 1..n, \A j \in 1..n : j > k => sets[j][1] # sets[k][1]
       PROVE  ArrGet(Bucket(sets), sets[k][1]) = sets[k][2]
  <2> DEFINE b == Bucket(sets)
             p == sets[k]
  <2>1. \A i \in (k + 1)..n : i \in 1..n /\ i > k
    BY <1>1
  <2> HIDE DEF b
  <2>2. Two(A, b, x, y) /\ Has(b, p)
    BY <1>19, <1>20, <2>1 DEF Newest, b
  <2>3. p = <<p[1], p[2]>>
    BY <1>1
  <2> HIDE DEF p
  <2>4. Has(b, <<p[1], p[2]>>)
    BY <2>2, <2>3
  <2>5. ArrGet(b, p[1]) = p[2]
    <3> DEFINE key == p[1]
               value == p[2]
    <3> HIDE DEF key, value
    <3>1. Has(b, <<key, value>>)
      BY <2>4 DEF key, value
    <3>2. ArrGet(b, key) = value
      BY <2>2, <3>1, ArrGetIs
    <3> QED BY <3>2 DEF key, value
  <2> QED BY <2>5 DEF b, p
<1> QED BY <1>20 DEF n

(* The greatest or the least of the values so far. *)
Better(isMax, a, b) == IF isMax THEN Greater(a, b) ELSE Lesser(a, b)
Bests(isMax, vs, g) ==
  g = [k \in 1..Len(vs) |-> IF k = 1 THEN vs[1] ELSE Better(isMax, g[k - 1], vs[k])]
Best(isMax, vs, k, v) ==
  /\ v \in Int /\ \E i \in 1..k : vs[i] = v
  /\ \A i \in 1..k : IF isMax THEN vs[i] <= v ELSE vs[i] >= v

(* The better of two numbers. *)
LEMMA BetterIs ==
  ASSUME NEW isMax \in BOOLEAN, NEW a \in Int, NEW b \in Int
  PROVE  LET c == Better(isMax, a, b)
         IN c \in {a, b} /\ IF isMax THEN a <= c /\ b <= c ELSE a >= c /\ b >= c
<1>1. CASE isMax
  BY <1>1 DEF Better, Greater
<1>2. CASE ~isMax
  BY <1>2 DEF Better, Lesser
<1> QED BY <1>1, <1>2

(* min and max find the best of their arguments, unless there are three. *)
LEMMA MinMaxIs ==
  ASSUME NEW isMax \in BOOLEAN, NEW vs \in Seq(Int), Len(vs) >= 1, Len(vs) # 3
  PROVE  Best(isMax, vs, Len(vs), MinMax(isMax, vs, FALSE))
<1> DEFINE n == Len(vs)
           h == [z \in (1..n) \X Int |-> Better(isMax, z[2], vs[z[1]])]
           first == vs[1]
<1>1. n \in Nat /\ n >= 1 /\ first \in Int /\ \A k \in 1..n : vs[k] \in Int
  OBVIOUS
<1>2. h \in [(1..n) \X Int -> Int]
  <2>1. ASSUME NEW z \in (1..n) \X Int PROVE Better(isMax, z[2], vs[z[1]]) \in Int
    BY <1>1 DEF Better, Greater, Lesser
  <2> HIDE DEF n
  <2> QED BY <2>1
<1>3. \A k \in 1..n, v \in Int : h[<<k, v>>] = Better(isMax, v, vs[k])
  OBVIOUS
<1> HIDE DEF n, h
<1>4. PICK f : Goes(Int, n, first, h, f)
  BY <1>1, <1>2, Recursion
<1>5. f \in [0..n -> Int] /\ f[0] = first /\ \A k \in 1..n : f[k] = h[<<k, f[k - 1]>>]
  BY <1>4 DEF Goes
<1>6. \A k \in 1..n : f[k] = Better(isMax, f[k - 1], vs[k])
  <2> TAKE k \in 1..n
  <2>1. f[k - 1] \in Int
    BY <1>1, <1>5
  <2> QED BY <1>3, <1>5, <2>1
<1>7. f[1] = first
  <2>1. 1 \in 1..n /\ 1 - 1 = 0
    BY <1>1
  <2>2. f[1] = Better(isMax, first, vs[1])
    BY <1>5, <1>6, <2>1
  <2>3. Better(isMax, first, first) = first
    BY <1>1 DEF Better, Greater, Lesser
  <2> QED BY <2>2, <2>3
<1> DEFINE p == [k \in 1..n |-> f[k]]
<1>8. \A k \in 1..n : p[k] = IF k = 1 THEN first ELSE Better(isMax, p[k - 1], vs[k])
  <2> TAKE k \in 1..n
  <2>1. CASE k = 1
    BY <1>7, <2>1
  <2>2. CASE k # 1
    <3>1. k - 1 \in 1..n
      BY <1>1, <2>2
    <3> QED BY <1>6, <2>2, <3>1
  <2> QED BY <2>1, <2>2
<1>9. Bests(isMax, vs, p)
  <2> DEFINE g == [k \in 1..n |-> IF k = 1 THEN first ELSE Better(isMax, p[k - 1], vs[k])]
  <2>1. p = [k \in 1..n |-> p[k]]
    OBVIOUS
  <2> HIDE DEF p
  <2>2. p = g
    BY <1>8, <2>1
  <2> QED BY <2>2, Zenon DEF Bests, n, first
<1> HIDE DEF p
<1> DEFINE g == CHOOSE g : Bests(isMax, vs, g)
<1>10. Bests(isMax, vs, g)
  BY <1>9
<1>11. MinMax(isMax, vs, FALSE) = g[n]
  <2>1. MinMax(isMax, vs, FALSE) =
          LET best == CHOOSE best : best = [k \in 1..Len(vs) |->
                        IF k = 1 THEN vs[1]
                        ELSE IF isMax THEN Greater(best[k - 1], vs[k]) ELSE Lesser(best[k - 1], vs[k])]
          IN best[Len(vs)]
    BY Zenon DEF MinMax
  <2> QED BY <2>1, Zenon DEF Bests, Better, n
<1> HIDE DEF g
<1>12. \A k \in 1..n : g[k] = IF k = 1 THEN first ELSE Better(isMax, g[k - 1], vs[k])
  <2>1. g = [k \in 1..n |-> IF k = 1 THEN first ELSE Better(isMax, g[k - 1], vs[k])]
    BY <1>10, Zenon DEF Bests, n, first
  <2> QED BY <2>1, Zenon
<1> DEFINE T == {d \in Nat : d + 1 <= n => Best(isMax, vs, d + 1, g[d + 1])}
<1>13. 0 \in T
  <2>1. g[1] = first /\ 1 \in 1..n
    BY <1>1, <1>12
  <2> QED BY <1>1, <2>1 DEF Best
<1>14. \A d \in Nat : d \in T => d + 1 \in T
  <2> SUFFICES ASSUME NEW d \in Nat, (d + 1) + 1 <= n, Best(isMax, vs, d + 1, g[d + 1])
               PROVE  Best(isMax, vs, (d + 1) + 1, g[(d + 1) + 1])
    <3>1. \A d \in Nat : ((d + 1) + 1 <= n => d + 1 <= n) /\ d + 1 \in Nat
      BY <1>1
    <3>2. \A d \in Nat : d \in T <=> (d + 1 <= n => Best(isMax, vs, d + 1, g[d + 1]))
      OBVIOUS
    <3> HIDE DEF T
    <3> QED BY <3>1, <3>2
  <2> DEFINE k == d + 1
             m == k + 1
             u == g[k]
             v == g[m]
  <2>1. m \in 1..n /\ m # 1 /\ m - 1 = k /\ k \in Nat
    BY <1>1
  <2> HIDE DEF k, m
  <2>2. v = Better(isMax, u, vs[m])
    <3>1. g[m] = Better(isMax, g[m - 1], vs[m])
      BY <1>12, <2>1, Zenon
    <3> QED BY <2>1, <3>1
  <2> HIDE DEF u, v
  <2>3. /\ u \in Int /\ \E i \in 1..k : vs[i] = u
        /\ \A i \in 1..k : IF isMax THEN vs[i] <= u ELSE vs[i] >= u
    BY DEF Best, u, k
  <2> DEFINE w == vs[m]
  <2>4. w \in Int
    BY <1>1, <2>1
  <2> HIDE DEF w
  <2>5. v \in {u, w} /\ IF isMax THEN u <= v /\ w <= v ELSE u >= v /\ w >= v
    BY <2>2, <2>3, <2>4, BetterIs DEF w
  <2>6. \A i \in 1..m : i \in 1..k \/ i = m
    BY <2>1 DEF m
  <2>7. 1..k \subseteq 1..m /\ m \in 1..m
    BY <2>1 DEF m
  <2>8. v \in Int /\ \E i \in 1..m : vs[i] = v
    <3>1. \E i \in 1..m : vs[i] = u
      BY <2>3, <2>7
    <3>2. \E i \in 1..m : vs[i] = w
      BY <2>7 DEF w
    <3> QED BY <2>3, <2>4, <2>5, <3>1, <3>2
  <2>9. ASSUME NEW i \in 1..m PROVE IF isMax THEN vs[i] <= v ELSE vs[i] >= v
    <3>1. CASE i = m
      BY <2>5, <3>1 DEF w
    <3>2. CASE i # m
      <4> DEFINE e == vs[i]
      <4>1. i \in 1..k /\ i \in 1..n
        <5>1. i \in 1..k
          BY <2>6, <3>2
        <5>2. m \in Int /\ n \in Int /\ m <= n
          BY <1>1, <2>1
        <5> QED BY <5>1, <5>2
      <4>2. e \in Int /\ IF isMax THEN e <= u ELSE e >= u
        BY <1>1, <2>3, <4>1
      <4> HIDE DEF e
      <4>3. IF isMax THEN e <= v ELSE e >= v
        BY <2>3, <2>5, <2>8, <4>2
      <4> QED BY <4>3 DEF e
    <3> QED BY <3>1, <3>2
  <2>10. Best(isMax, vs, m, v)
    BY <2>8, <2>9 DEF Best
  <2> QED BY <2>10 DEF v, m, k
<1>15. n - 1 \in Nat /\ (n - 1) + 1 = n /\ n <= n
  BY <1>1
<1>16. n - 1 \in T
  <2> HIDE DEF T
  <2> QED BY <1>13, <1>14, <1>15, Induct
<1>17. Best(isMax, vs, n, g[n])
  BY <1>15, <1>16
<1> QED BY <1>11, <1>17 DEF n

-----------------------------------------------------------------------------
(* Points with two between neighbours, and the numbers on their way to     *)
(* text and back.                                                          *)
Points(ys) == [k \in DOMAIN ys |-> <<2 * (k - 1), 2 * ys[k]>>]

(* The line a point is on. *)
LEMMA BetweenIs ==
  ASSUME NEW ys \in Seq(Int), NEW x \in Int, NEW k \in 1..Len(ys), x \in (2 * k - 3)..(2 * k - 2), x >= 0
  PROVE  Interpolate(Points(ys), x) =
           IF k = 1 THEN 2 * ys[1]
           ELSE 2 * ys[k - 1] + ((x - 2 * (k - 2)) * (2 * ys[k] - 2 * ys[k - 1])) \div 2
<1> DEFINE n == Len(ys)
           pts == Points(ys)
           at == {j \in DOMAIN pts : x <= pts[j][1]}
           i == Lowest(at)
<1>1. DOMAIN pts = 1..n /\ \A j \in 1..n : pts[j] = <<2 * (j - 1), 2 * ys[j]>>
  BY DEF Points
<1>2. n \in Nat /\ k \in Nat /\ k >= 1 /\ k <= n /\ \A j \in 1..n : ys[j] \in Int
  OBVIOUS
<1>3. \A j \in 1..n : pts[j][1] = 2 * (j - 1) /\ pts[j][2] = 2 * ys[j]
  BY <1>1
<1>4. Interpolate(pts, x) =
        IF at = {} THEN pts[Len(pts)][2] ELSE IF i = 1 THEN pts[1][2] ELSE Between(pts[i - 1], pts[i], x)
  BY Zenon DEF Interpolate, Lowest
<1> HIDE DEF n, pts
<1>5. \A j : j \in at <=> j \in 1..n /\ x <= 2 * (j - 1)
  BY <1>1, <1>3
<1> HIDE DEF at, i
<1>6. k \in at /\ \A j \in at : k <= j
  <2>1. x >= 2 * k - 3 /\ x <= 2 * (k - 1) /\ k \in 1..n
    BY <1>2
  <2>2. k \in at
    BY <1>5, <2>1
  <2>3. ASSUME NEW j \in at PROVE k <= j
    <3>1. j \in Int /\ x <= 2 * (j - 1)
      BY <1>2, <1>5
    <3> QED BY <1>2, <2>1, <3>1
  <2> QED BY <2>2, <2>3
<1>7. at \in SUBSET Nat
  BY <1>2, <1>5
<1>8. i = k
  <2>1. i \in at /\ \A j \in at : i <= j
    BY <1>6, <1>7, LowestIs DEF i
  <2>2. i <= k /\ k <= i /\ i \in Int
    BY <1>6, <1>7, <2>1
  <2> QED BY <1>2, <2>2
<1>9. CASE k = 1
  <2>1. Interpolate(pts, x) = pts[1][2]
    BY <1>4, <1>6, <1>8, <1>9
  <2>2. pts[1][2] = 2 * ys[1]
    BY <1>2, <1>3, <1>9
  <2> QED BY <1>9, <2>1, <2>2 DEF pts
<1>10. CASE k # 1
  <2> DEFINE j == k - 1
             p == pts[j]
             q == pts[k]
             a == ys[j]
             b == ys[k]
  <2>1. j \in 1..n /\ k \in 1..n
    BY <1>2, <1>10
  <2>2. Interpolate(pts, x) = Between(p, q, x)
    BY <1>4, <1>6, <1>8, <1>10
  <2>3. p[1] = 2 * (j - 1) /\ p[2] = 2 * a /\ q[1] = 2 * (k - 1) /\ q[2] = 2 * b
    BY <1>3, <2>1
  <2>4. a \in Int /\ b \in Int
    BY <1>2, <2>1
  <2> HIDE DEF p, q, a, b
  <2>5. q[1] - p[1] = 2 /\ p[1] = 2 * (k - 2)
    BY <1>2, <2>3
  <2>6. Between(p, q, x) = 2 * a + ((x - 2 * (k - 2)) * (2 * b - 2 * a)) \div 2
    <3>1. Between(p, q, x) = p[2] + ((x - p[1]) * (q[2] - p[2])) \div (q[1] - p[1])
      BY Zenon DEF Between
    <3> QED BY <2>3, <2>5, <3>1, Zenon
  <2> QED BY <1>10, <2>2, <2>6 DEF pts, a, b, j
<1> QED BY <1>9, <1>10

(* interpolate goes through the points, *)
LEMMA ThroughIs ==
  ASSUME NEW ys \in Seq(Int), NEW k \in 1..Len(ys)
  PROVE  Interpolate(Points(ys), 2 * (k - 1)) = 2 * ys[k]
<1> DEFINE x == 2 * (k - 1)
<1>1. k \in Int /\ k >= 1 /\ x \in Int /\ x \in (2 * k - 3)..(2 * k - 2) /\ x >= 0
  OBVIOUS
<1>2. Interpolate(Points(ys), x) =
        IF k = 1 THEN 2 * ys[1]
        ELSE 2 * ys[k - 1] + ((x - 2 * (k - 2)) * (2 * ys[k] - 2 * ys[k - 1])) \div 2
  <2> HIDE DEF x
  <2> QED BY <1>1, BetweenIs
<1>3. CASE k = 1
  BY <1>2, <1>3
<1>4. CASE k # 1
  <2> DEFINE a == ys[k - 1]
             b == ys[k]
  <2>1. a \in Int /\ b \in Int
    <3>1. k - 1 \in 1..Len(ys)
      BY <1>1, <1>4
    <3> QED BY <3>1
  <2> HIDE DEF a, b
  <2>2. x - 2 * (k - 2) = 2
    BY <1>1
  <2>3. Interpolate(Points(ys), x) = 2 * a + (2 * (2 * b - 2 * a)) \div 2
    BY <1>2, <1>4, <2>2, Zenon DEF a, b
  <2>4. 2 * a + (2 * (2 * b - 2 * a)) \div 2 = 2 * b
    BY <2>1
  <2> QED BY <2>3, <2>4 DEF b
<1> QED BY <1>3, <1>4

(* and stays between two of them. *)
LEMMA InterpolateIs ==
  ASSUME NEW ys \in Seq(Int), NEW x \in Int, NEW k \in 1..(Len(ys) - 1), 2 * (k - 1) <= x, x <= 2 * k
  PROVE  Interpolate(Points(ys), x) \in 2 * Lesser(ys[k], ys[k + 1])..2 * Greater(ys[k], ys[k + 1])
<1> DEFINE m == k + 1
           a == ys[k]
           b == ys[m]
           v == Interpolate(Points(ys), x)
<1>1. k \in 1..Len(ys) /\ m \in 1..Len(ys) /\ k = m - 1 /\ m # 1
  OBVIOUS
<1>2. a \in Int /\ b \in Int
  BY <1>1
<1> HIDE DEF a, b, v, m
<1>3. CASE x = 2 * (k - 1)
  <2>1. v = 2 * a
    BY <1>1, <1>3, ThroughIs DEF v, a
  <2>2. v \in 2 * Lesser(a, b)..2 * Greater(a, b)
    BY <1>2, <2>1 DEF Lesser, Greater
  <2> QED BY <2>2 DEF v, a, b, m
<1>4. CASE x = 2 * k
  <2>1. v = 2 * b
    <3>1. x = 2 * (m - 1)
      BY <1>1, <1>4
    <3> QED BY <1>1, <3>1, ThroughIs DEF v, b
  <2>2. v \in 2 * Lesser(a, b)..2 * Greater(a, b)
    BY <1>2, <2>1 DEF Lesser, Greater
  <2> QED BY <2>2 DEF v, a, b, m
<1>5. CASE x = 2 * k - 1
  <2>1. x \in (2 * m - 3)..(2 * m - 2) /\ x >= 0 /\ x - 2 * (m - 2) = 1
    BY <1>1, <1>5
  <2>2. v = IF m = 1 THEN 2 * ys[1]
            ELSE 2 * ys[m - 1] + ((x - 2 * (m - 2)) * (2 * ys[m] - 2 * ys[m - 1])) \div 2
    BY <1>1, <2>1, BetweenIs DEF v
  <2>3. v = 2 * ys[m - 1] + ((x - 2 * (m - 2)) * (2 * ys[m] - 2 * ys[m - 1])) \div 2
    BY <1>1, <2>2, Zenon
  <2>4. v = 2 * a + (1 * (2 * b - 2 * a)) \div 2
    BY <1>1, <2>1, <2>3, Zenon DEF a, b
  <2>5. v = a + b
    BY <1>2, <2>4
  <2>6. v \in 2 * Lesser(a, b)..2 * Greater(a, b)
    BY <1>2, <2>5 DEF Lesser, Greater
  <2> QED BY <2>6 DEF v, a, b, m
<1> QED BY <1>3, <1>4, <1>5

(* A number with one decimal is off by half a tenth at most, *)
LEMMA TenthsIs ==
  ASSUME NEW f \in Int
  PROVE  Abs(Abs(f) - (100 * ToText(f, 1)[1] + 10 * ToText(f, 1)[2])) <= 5
<1> DEFINE a == Abs(f)
           q == a \div 100
           r == a % 100
           t == (r + 5) \div 10
<1>1. a \in Nat
  BY DEF Abs
<1> HIDE DEF a
<1>2. q \in Nat /\ r \in 0..99 /\ a = 100 * q + r
  BY <1>1
<1>3. ToText(f, 1) = IF t >= 10 THEN <<q + 1, 0>> ELSE <<q, t>>
  BY DEF ToText, a
<1> HIDE DEF q, r
<1>4. t \in Nat /\ 10 * t <= r + 5 /\ r + 5 < 10 * t + 10
  BY <1>2
<1> HIDE DEF t
<1>5. CASE t >= 10
  <2>1. ToText(f, 1)[1] = q + 1 /\ ToText(f, 1)[2] = 0
    BY <1>3, <1>5
  <2>2. Abs(a - (100 * (q + 1) + 10 * 0)) <= 5
    BY <1>2, <1>4, <1>5 DEF Abs
  <2> QED BY <2>1, <2>2 DEF a
<1>6. CASE ~(t >= 10)
  <2>1. ToText(f, 1)[1] = q /\ ToText(f, 1)[2] = t
    BY <1>3, <1>6
  <2>2. Abs(a - (100 * q + 10 * t)) <= 5
    BY <1>2, <1>4, <1>6 DEF Abs
  <2> QED BY <2>1, <2>2 DEF a
<1> QED BY <1>5, <1>6

(* and without decimals by half a unit, when it is not negative. *)
LEMMA UnitsIs ==
  ASSUME NEW f \in Int, f >= 0
  PROVE  Abs(f - 100 * ToText(f, 0)[1]) <= 50
<1> DEFINE q == (f + 50) \div 100
<1>1. ToText(f, 0)[1] = q
  BY DEF ToText
<1>2. q \in Int /\ 100 * q <= f + 50 /\ f + 50 < 100 * q + 100
  OBVIOUS
<1> HIDE DEF q
<1>3. Abs(f - 100 * q) <= 50
  BY <1>2 DEF Abs
<1> QED BY <1>1, <1>3

(* The bytes are pairs of digits, when no other digits follow them. *)
LEMMA BytesIs ==
  ASSUME NEW s \in Seq(0..15), NEW max \in Nat, Len(s) <= max
  PROVE  LET u == Bytes(s, max, <<>>)
         IN  /\ Len(u) = Len(s) \div 2
             /\ \A k \in DOMAIN u : u[k] \div 16 = s[2 * k - 1] /\ u[k] % 16 = s[2 * k]
<1> DEFINE most == Lesser(max, Len(s) \div 2)
           pairs == {k \in 1..most : s[2 * k - 1] \in 0..Colon /\ s[2 * k] \in 0..Colon}
           n == CHOOSE m \in 0..most : 1..m \subseteq pairs /\ m + 1 \notin pairs
<1>0. Bytes(s, max, <<>>) = [k \in 1..n |-> Byte(s[2 * k - 1], s[2 * k], <<>>)]
  BY Zenon DEF Bytes
<1>2. most = Len(s) \div 2
  <2> DEFINE N == Len(s)
  <2>1. N \in Nat /\ N <= max
    OBVIOUS
  <2> HIDE DEF N
  <2>2. Lesser(max, N \div 2) = N \div 2
    BY <2>1 DEF Lesser
  <2> QED BY <2>2 DEF N
<1>3. most \in Nat /\ \A k \in 1..most : 2 * k - 1 \in 1..Len(s) /\ 2 * k \in 1..Len(s)
  BY <1>2
<1>4. \A k \in 1..most : s[2 * k - 1] \in 0..15 /\ s[2 * k] \in 0..15
  BY <1>3, ElementOfSeq
<1> HIDE DEF most
<1>5. pairs = 1..most
  <2>1. \A d \in 0..15 : d \in 0..Colon
    BY DEF Colon
  <2>2. \A k \in 1..most : s[2 * k - 1] \in 0..Colon /\ s[2 * k] \in 0..Colon
    BY <1>4, <2>1, Zenon
  <2> QED BY <2>2, Zenon
<1> HIDE DEF pairs
<1>6. \A m \in 0..most : (1..m \subseteq pairs /\ m + 1 \notin pairs) <=> m = most
  BY <1>3, <1>5
<1>7. n = most
  <2>1. most \in 0..most
    BY <1>3
  <2> QED BY <1>6, <2>1
<1> HIDE DEF n
<1>1. Bytes(s, max, <<>>) = [k \in 1..n |-> 16 * s[2 * k - 1] + s[2 * k]]
  <2>1. ASSUME NEW a \in 0..15, NEW b \in 0..15 PROVE Byte(a, b, <<>>) = 16 * a + b
    BY DEF Byte, Colon
  <2>2. \A k \in 1..n : Byte(s[2 * k - 1], s[2 * k], <<>>) = 16 * s[2 * k - 1] + s[2 * k]
    BY <1>4, <1>7, <2>1
  <2> QED BY <1>0, <2>2
<1> DEFINE u == Bytes(s, max, <<>>)
<1>8. Len(u) = most /\ DOMAIN u = 1..most
  BY <1>1, <1>3, <1>7
<1>9. ASSUME NEW k \in 1..most
      PROVE  u[k] \div 16 = s[2 * k - 1] /\ u[k] % 16 = s[2 * k]
  <2> DEFINE a == s[2 * k - 1]
             b == s[2 * k]
             c == u[k]
  <2>1. c = 16 * a + b
    BY <1>1, <1>7
  <2>2. a \in 0..15 /\ b \in 0..15
    BY <1>4
  <2> HIDE DEF a, b, c, u
  <2>3. c \div 16 = a /\ c % 16 = b
    BY <2>1, <2>2
  <2> QED BY <2>3 DEF a, b, c
<1> HIDE DEF u
<1> QED BY <1>2, <1>8, <1>9 DEF u

(* A pad that is written reads as what was written, except pad 31. *)
LEMMA DrivenIs ==
  ASSUME NEW pads, NEW n \in 0..63, n # 31, NEW v \in {0, 1}
  PROVE  Odsr(Driven(pads, n, v), n) = v
<1> DEFINE pad == <<IF n < 31 THEN 1 ELSE 2, n % 32>>
<1>1. (IF n < 32 THEN 1 ELSE 2) = IF n < 31 THEN 1 ELSE 2
  OBVIOUS
<1>2. Odsr(Driven(pads, n, v), n) = IF pad \in Driven(pads, n, v) THEN 1 ELSE 0
  BY <1>1, Zenon DEF Odsr
<1>3. Driven(pads, n, v) = IF v = 1 THEN pads \union {pad} ELSE pads \ {pad}
  BY Zenon DEF Driven
<1> HIDE DEF pad
<1> QED BY <1>2, <1>3

-----------------------------------------------------------------------------
(* The calls, and what they are given. *)
Given1(name, a, r) == call'[1] = name /\ call'[2] = a /\ answer' = r
Given2(name, a, b, r) == Given1(name, a, r) /\ call'[3] = b
Given3(name, a, b, c, r) == Given2(name, a, b, r) /\ call'[4] = c
Given4(name, a, b, c, d, r) == Given3(name, a, b, c, r) /\ call'[5] = d

Headed(name, args, c) == c[1] = name /\ \A k \in 1..Len(args) : c[k + 1] = args[k]

(* The name of a call and its arguments. *)
LEMMA HeadedIs ==
  ASSUME NEW name, NEW S, NEW args \in Seq(S), NEW c, c = <<name>> \o args
  PROVE  Headed(name, args, c)
<1> DEFINE T == {name} \union S
           l == <<name>>
<1>1. l \in Seq(T) /\ args \in Seq(T) /\ Len(l) = 1 /\ l[1] = name
  OBVIOUS
<1> HIDE DEF T, l
<1>2. Joined(T, l, args, c)
  BY <1>1, CatFacts DEF Cat, l
<1>3. c[1] = name
  BY <1>1, <1>2 DEF Joined
<1>4. ASSUME NEW k \in 1..Len(args) PROVE c[k + 1] = args[k]
  <2>1. c[1 + k] = args[k] /\ 1 + k = k + 1
    BY <1>1, <1>2 DEF Joined
  <2> QED BY <2>1
<1> QED BY <1>3, <1>4 DEF Headed

(* A call and its result, with one argument, *)
LEMMA DoesOne ==
  ASSUME NEW name, NEW a, NEW r, Does(name, <<a>>, r)
  PROVE  Given1(name, a, r)
<1> DEFINE args == <<a>>
           S == {a}
<1>1. args \in Seq(S) /\ Len(args) = 1 /\ args[1] = a /\ call' = <<name>> \o args /\ answer' = r
  BY DEF Does
<1> HIDE DEF args, S
<1>2. Headed(name, args, call')
  BY <1>1, HeadedIs
<1>3. 1 + 1 = 2 /\ 1 \in 1..1
  OBVIOUS
<1> QED BY <1>1, <1>2, <1>3, Zenon DEF Headed, Given1

(* with two, *)
LEMMA DoesTwo ==
  ASSUME NEW name, NEW a, NEW b, NEW r, Does(name, <<a, b>>, r)
  PROVE  Given2(name, a, b, r)
<1> DEFINE args == <<a, b>>
           S == {a, b}
<1>1. /\ args \in Seq(S) /\ Len(args) = 2 /\ args[1] = a /\ args[2] = b
      /\ call' = <<name>> \o args /\ answer' = r
  BY DEF Does
<1> HIDE DEF args, S
<1>2. Headed(name, args, call')
  BY <1>1, HeadedIs
<1>3. 1 + 1 = 2 /\ 2 + 1 = 3 /\ 1 \in 1..2 /\ 2 \in 1..2
  OBVIOUS
<1> QED BY <1>1, <1>2, <1>3, Zenon DEF Headed, Given1, Given2

(* with three, *)
LEMMA DoesThree ==
  ASSUME NEW name, NEW a, NEW b, NEW c, NEW r, Does(name, <<a, b, c>>, r)
  PROVE  Given3(name, a, b, c, r)
<1> DEFINE args == <<a, b, c>>
           S == {a, b, c}
<1>1. /\ args \in Seq(S) /\ Len(args) = 3 /\ args[1] = a /\ args[2] = b /\ args[3] = c
      /\ call' = <<name>> \o args /\ answer' = r
  BY DEF Does
<1> HIDE DEF args, S
<1>2. Headed(name, args, call')
  BY <1>1, HeadedIs
<1>3. 1 + 1 = 2 /\ 2 + 1 = 3 /\ 3 + 1 = 4 /\ 1 \in 1..3 /\ 2 \in 1..3 /\ 3 \in 1..3
  OBVIOUS
<1> QED BY <1>1, <1>2, <1>3, Zenon DEF Headed, Given1, Given2, Given3

(* and with four. *)
LEMMA DoesFour ==
  ASSUME NEW name, NEW a, NEW b, NEW c, NEW d, NEW r, Does(name, <<a, b, c, d>>, r)
  PROVE  Given4(name, a, b, c, d, r)
<1> DEFINE args == <<a, b, c, d>>
           S == {a, b, c, d}
<1>1. /\ args \in Seq(S) /\ Len(args) = 4 /\ args[1] = a /\ args[2] = b /\ args[3] = c /\ args[4] = d
      /\ call' = <<name>> \o args /\ answer' = r
  BY DEF Does
<1> HIDE DEF args, S
<1>2. Headed(name, args, call')
  BY <1>1, HeadedIs
<1>3. /\ 1 + 1 = 2 /\ 2 + 1 = 3 /\ 3 + 1 = 4 /\ 4 + 1 = 5
      /\ 1 \in 1..4 /\ 2 \in 1..4 /\ 3 \in 1..4 /\ 4 \in 1..4
  OBVIOUS
<1> QED BY <1>1, <1>2, <1>3, Zenon DEF Headed, Given1, Given2, Given3, Given4

(* A bounded sequence is a sequence. *)
LEMMA SeqOfIs ==
  ASSUME NEW S, NEW n \in Nat, NEW s \in SeqOf(S, n)
  PROVE  s \in Seq(S) /\ Len(s) \in Nat /\ Len(s) <= n
<1>1. PICK m \in 0..n : s \in [1..m -> S]
  BY DEF SeqOf
<1> QED BY <1>1

(* A word of letters is kept by a list. *)
LEMMA LettersKept ==
  ASSUME NEW s \in Seq(Letters)
  PROVE  s \in Keeps
<1>1. Letters \subseteq Chars /\ \A c \in Letters : c # LBRACE /\ c # RBRACE
  BY CallsAssumption
<1>2. s \in Seq(Chars) /\ s \in Scripts
  BY <1>1 DEF Scripts
<1>3. DOMAIN s = 1..Len(s) /\ Len(s) \in Nat /\ \A k \in 1..Len(s) : s[k] \in Letters
  BY ElementOfSeq
<1>4. \A n \in 0..Len(s) : Level(s, n) = 0
  <2> TAKE n \in 0..Len(s)
  <2>1. \A k \in 1..n : s[0 + k] # LBRACE /\ s[0 + k] # RBRACE
    BY <1>1, <1>3
  <2>2. Level(s, 0 + n) = Level(s, 0)
    BY <1>3, <2>1, LevelFlat
  <2>3. Level(s, 0) = 0 /\ 0 + n = n
    BY LevelNext
  <2> QED BY <2>2, <2>3
<1>5. Balanced(s)
  BY <1>3, <1>4 DEF Balanced
<1>6. \A k \in DOMAIN s : s[k] # QUOTE /\ s[k] # LBRACE
  BY <1>1, <1>3, Characters
<1> QED BY <1>2, <1>5, <1>6 DEF Keeps, Storable

(* The words the commands are given. *)
LEMMA GivenWords ==
  /\ \A w \in Words \union Cases : w \in Keeps
  /\ \A n \in Nat : \A ws \in SeqOf(Words, n) : ws \in Seq(Keeps)
  /\ \A n \in Nat : \A ws \in SeqOf(Cases, n) : ws \in Seq(Keeps)
  /\ \A ws \in WordLists : ws \in Seq(Keeps) /\ Len(ws) < End
  /\ \A n \in Indices : n \in Int
<1>1. \A w \in Words \union Cases : w \in Keeps
  BY CallsAssumption DEF Keeps, Scripts
<1>2. \A n \in Nat : \A ws \in SeqOf(Words, n) : ws \in Seq(Keeps)
  <2> TAKE n \in Nat
  <2> TAKE ws \in SeqOf(Words, n)
  <2>1. ws \in Seq(Words) /\ Words \subseteq Keeps
    BY <1>1, SeqOfIs
  <2> HIDE DEF Keeps
  <2> QED BY <2>1
<1>3. \A n \in Nat : \A ws \in SeqOf(Cases, n) : ws \in Seq(Keeps)
  <2> TAKE n \in Nat
  <2> TAKE ws \in SeqOf(Cases, n)
  <2>1. ws \in Seq(Cases) /\ Cases \subseteq Keeps
    BY <1>1, SeqOfIs
  <2> QED BY <2>1
<1>4. ASSUME NEW ws \in WordLists PROVE ws \in Seq(Keeps) /\ Len(ws) < End
  <2>1. MaxList \in Nat /\ MaxList < End /\ ws \in SeqOf(Words, MaxList)
    BY CallsAssumption DEF WordLists
  <2>2. Len(ws) \in Nat /\ Len(ws) <= MaxList
    BY <2>1, SeqOfIs
  <2> QED BY <1>2, <2>1, <2>2 DEF End
<1>5. \A n \in Indices : n \in Int
  BY CallsAssumption
<1> QED BY <1>1, <1>2, <1>3, <1>4, <1>5

ListNames == {"list", "lindex", "linsert", "lset", "in", "lrange", "lreplace", "concat"}
StringNames == {"match", "lsearch", "last", "range", "index", "trim"}
NumberNames == {"array", "minmax", "interpolate", "totext", "bytes", "gpio"}

(* A property about other commands has nothing to say of a call. *)
LEMMA Silent ==
  /\ call'[1] \notin ListNames => ListsAgree'
  /\ call'[1] # "join" => SplitAgrees'
  /\ call'[1] # "switch" => SwitchAgrees'
  /\ call'[1] \notin StringNames => StringsAgree'
  /\ call'[1] \notin NumberNames => NumbersAgree'
<1>1. call'[1] \notin ListNames => ListsAgree'
  BY Zenon DEF ListNames, ListsAgree, Is
<1>2. call'[1] # "join" => SplitAgrees'
  BY Zenon DEF SplitAgrees, Is
<1>3. call'[1] # "switch" => SwitchAgrees'
  BY Zenon DEF SwitchAgrees, Is
<1>4. call'[1] \notin StringNames => StringsAgree'
  BY Zenon DEF StringNames, StringsAgree, Is
<1>5. call'[1] \notin NumberNames => NumbersAgree'
  BY Zenon DEF NumberNames, NumbersAgree, Is
<1> QED BY <1>1, <1>2, <1>3, <1>4, <1>5

(* A call of a list command, *)
LEMMA ListsSaid ==
  ASSUME call'[1] \in ListNames, ListsAgree'
  PROVE  ValuesAgree'
<1>1. call'[1] # "join" /\ call'[1] # "switch" /\ call'[1] \notin StringNames /\ call'[1] \notin NumberNames
  BY DEF ListNames, StringNames, NumberNames
<1> QED BY <1>1, Silent, Zenon DEF ValuesAgree

(* of string, *)
LEMMA StringsSaid ==
  ASSUME call'[1] \in StringNames, StringsAgree'
  PROVE  ValuesAgree'
<1>1. call'[1] # "join" /\ call'[1] # "switch" /\ call'[1] \notin ListNames /\ call'[1] \notin NumberNames
  BY DEF ListNames, StringNames, NumberNames
<1> QED BY <1>1, Silent, Zenon DEF ValuesAgree

(* or of a command on numbers has one property to keep. *)
LEMMA NumbersSaid ==
  ASSUME call'[1] \in NumberNames, NumbersAgree'
  PROVE  ValuesAgree'
<1>1. call'[1] # "join" /\ call'[1] # "switch" /\ call'[1] \notin StringNames /\ call'[1] \notin ListNames
  BY DEF ListNames, StringNames, NumberNames
<1> QED BY <1>1, Silent, Zenon DEF ValuesAgree

(* lindex. *)
LEMMA LindexRight ==
  ASSUME NEW ws \in WordLists, NEW n \in Indices, Given2("lindex", ws, n, Lindex(List(ws), n))
  PROVE  ListsAgree'
<1>1. call'[1] = "lindex" /\ call'[2] = ws /\ call'[3] = n /\ answer' = Lindex(List(ws), n)
  BY DEF Given2, Given1
<1>2. Inside(n, ws) => answer' = ws[n + 1]
  BY <1>1, GivenWords, LindexIs
<1> QED BY <1>1, <1>2, Zenon DEF ListsAgree, Is

(* linsert. *)
LEMMA LinsertRight ==
  ASSUME NEW ws \in WordLists, NEW n \in Indices, NEW w \in Words,
         Given3("linsert", ws, n, w, Linsert(List(ws), n, w))
  PROVE  ListsAgree'
<1>1. /\ call'[1] = "linsert" /\ call'[2] = ws /\ call'[3] = n /\ call'[4] = w
      /\ answer' = Linsert(List(ws), n, w)
  BY DEF Given3, Given2, Given1
<1>2. ws \in Seq(Keeps) /\ Len(ws) < End /\ w \in Keeps
  BY GivenWords
<1>3. Inside(n, ws) => Elements(answer') = InsertAt(ws, n + 1, w)
  <2>1. Inside(n, ws) => n # End
    BY <1>2 DEF Inside, End
  <2> QED BY <1>1, <1>2, <2>1, LinsertIs
<1>4. n = End => Elements(answer') = Append(ws, w)
  BY <1>1, <1>2, LinsertEnd
<1> QED BY <1>1, <1>3, <1>4, Zenon DEF ListsAgree, Is

(* lset. *)
LEMMA LsetRight ==
  ASSUME NEW ws \in WordLists, NEW n \in Indices, NEW w \in Words,
         Given3("lset", ws, n, w, Lset(List(ws), n, w))
  PROVE  ListsAgree'
<1>1. call'[1] = "lset" /\ call'[2] = ws /\ call'[3] = n /\ call'[4] = w /\ answer' = Lset(List(ws), n, w)
  BY DEF Given3, Given2, Given1
<1>2. Inside(n, ws) => Elements(answer') = ReplaceAt(ws, n + 1, w)
  BY <1>1, GivenWords, LsetIs
<1> QED BY <1>1, <1>2, Zenon DEF ListsAgree, Is

(* in. *)
LEMMA InRight ==
  ASSUME NEW ws \in WordLists, NEW w \in Words, Given2("in", ws, w, In(w, List(ws)))
  PROVE  ListsAgree'
<1>1. call'[1] = "in" /\ call'[2] = ws /\ call'[3] = w /\ answer' = In(w, List(ws))
  BY DEF Given2, Given1
<1>2. In(w, List(ws)) <=> Contains(ws, w)
  BY GivenWords, InIs
<1>3. answer' <=> Contains(ws, w)
  BY <1>1, <1>2, Zenon
<1> QED BY <1>1, <1>3, Zenon DEF ListsAgree, Is

(* lrange. *)
LEMMA LrangeRight ==
  ASSUME NEW ws \in WordLists, NEW n \in Indices, NEW m \in Indices,
         Given3("lrange", ws, n, m, Lrange(List(ws), n, m))
  PROVE  ListsAgree'
<1>1. call'[1] = "lrange" /\ call'[2] = ws /\ call'[3] = n /\ call'[4] = m /\ answer' = Lrange(List(ws), n, m)
  BY DEF Given3, Given2, Given1
<1>2. Elements(answer') = SubSeq(ws, Greater(n, 0) + 1, Lesser(m + 1, Len(ws)))
  BY <1>1, GivenWords, LrangeIs
<1> QED BY <1>1, <1>2, Zenon DEF ListsAgree, Is

(* lreplace. *)
LEMMA LreplaceRight ==
  ASSUME NEW ws \in WordLists, NEW n \in Indices, NEW m \in Indices, NEW w \in Words,
         Given4("lreplace", ws, n, m, w, Lreplace(List(ws), n, m, w))
  PROVE  ListsAgree'
<1>1. /\ call'[1] = "lreplace" /\ call'[2] = ws /\ call'[3] = n /\ call'[4] = m /\ call'[5] = w
      /\ answer' = Lreplace(List(ws), n, m, w)
  BY DEF Given4, Given3, Given2, Given1
<1>2. ws \in Seq(Keeps) /\ w \in Keeps /\ n \in Int /\ m \in Int
  BY GivenWords
<1>3. Inside(Greater(n, 0), ws) /\ n <= m /\ m >= 0 =>
        Elements(answer') = Cat(Cat(SubSeq(ws, 1, n), <<w>>), SubSeq(ws, m + 2, Len(ws)))
  <2> SUFFICES ASSUME Inside(Greater(n, 0), ws), n <= m, m >= 0
               PROVE  Elements(answer') = Cat(Cat(SubSeq(ws, 1, n), <<w>>), SubSeq(ws, m + 2, Len(ws)))
    OBVIOUS
  <2>1. Elements(Lreplace(List(ws), n, m, w)) = Cat(Cat(SubSeq(ws, 1, n), <<w>>), SubSeq(ws, m + 2, Len(ws)))
    BY <1>2, LreplaceIs, Zenon
  <2> QED BY <1>1, <2>1, Zenon
<1> QED BY <1>1, <1>3, Zenon DEF ListsAgree, Is, Cat

(* list. *)
LEMMA ListRight ==
  ASSUME NEW ws \in WordLists, Given1("list", ws, List(ws))
  PROVE  ListsAgree'
<1>1. call'[1] = "list" /\ call'[2] = ws
  BY DEF Given1
<1>2. ws \in Seq(Keeps)
  BY GivenWords
<1>3. ListIsFaithful(ws)
  <2>1. \A k \in 1..Len(ws) : ws[k] \in Keeps
    BY <1>2, ElementOfSeq
  <2>2. \A k \in 1..Len(ws) : ws[k] \in Seq(Chars) /\ Storable(ws[k])
    BY <2>1 DEF Keeps, Scripts
  <2>3. ws \in Seq(Seq(Chars))
    BY <1>2, <2>2
  <2> QED BY <2>2, <2>3, ListFaithful
<1> QED BY <1>1, <1>3, Zenon DEF ListsAgree, Is

(* concat. *)
LEMMA ConcatRight ==
  ASSUME NEW ws \in WordLists, Given1("concat", ws, Concat(ws))
  PROVE  ListsAgree'
<1>1. call'[1] = "concat" /\ call'[2] = ws /\ answer' = Concat(ws)
  BY DEF Given1
<1>2. ws \in Seq(Keeps) /\ DOMAIN ws = 1..Len(ws) /\ \A k \in 1..Len(ws) : ws[k] \in Keeps
  BY GivenWords, ElementOfSeq
<1>3. (\A k \in DOMAIN ws : At(ws[k], 1) # SP) =>
        Elements(answer') = FlattenSeq([k \in DOMAIN ws |-> Elements(ws[k])])
  <2> SUFFICES ASSUME \A k \in DOMAIN ws : At(ws[k], 1) # SP
               PROVE  Elements(answer') = FlattenSeq([k \in DOMAIN ws |-> Elements(ws[k])])
    OBVIOUS
  <2>1. ASSUME NEW k \in 1..Len(ws) PROVE ws[k] = <<>> \/ ws[k][1] # SP
    <3> DEFINE w == ws[k]
    <3>1. w \in Seq(Chars) /\ At(w, 1) # SP
      BY <1>2 DEF Keeps, Scripts
    <3> HIDE DEF w
    <3>2. w # <<>> => 1 \in DOMAIN w
      BY <3>1
    <3>3. w = <<>> \/ w[1] # SP
      BY <3>1, <3>2 DEF At
    <3> QED BY <3>3 DEF w
  <2> QED BY <1>1, <1>2, <2>1, ConcatIs
<1> QED BY <1>1, <1>3, Zenon DEF ListsAgree, Is

(* The places of a list of words. *)
LEMMA WordDomains ==
  ASSUME NEW ws \in Seq(Keeps)
  PROVE  DOMAIN ws = 1..Len(ws) /\ \A k \in 1..Len(ws) : DOMAIN ws[k] = 1..Len(ws[k])
<1>1. \A k \in 1..Len(ws) : ws[k] \in Seq(Chars)
  BY ElementOfSeq DEF Keeps, Scripts
<1>2. ASSUME NEW k \in 1..Len(ws) PROVE DOMAIN ws[k] = 1..Len(ws[k])
  <2> DEFINE w == ws[k]
  <2>1. w \in Seq(Chars)
    BY <1>1
  <2> HIDE DEF w
  <2>2. DOMAIN w = 1..Len(w)
    BY <2>1
  <2> QED BY <2>2 DEF w
<1>3. DOMAIN ws = 1..Len(ws)
  OBVIOUS
<1> QED BY <1>2, <1>3

(* join and split. *)
LEMMA SplitRight ==
  ASSUME NEW ws \in WordLists, Given1("join", ws, Split(Join(List(ws), <<",">>), ","))
  PROVE  ValuesAgree'
<1>1. call'[1] = "join" /\ call'[2] = ws /\ answer' = Split(Join(List(ws), <<",">>), ",")
  BY DEF Given1
<1>2. ws \in Seq(Keeps) /\ DOMAIN ws = 1..Len(ws) /\ \A k \in 1..Len(ws) : DOMAIN ws[k] = 1..Len(ws[k])
  BY GivenWords, WordDomains
<1>3. /\ ws # <<>>
      /\ \A j, k \in DOMAIN ws : j < k => Len(ws[j]) <= Len(ws[k])
      /\ \A k \in DOMAIN ws : \A j \in DOMAIN ws[k] : ws[k][j] # ","
      => Elements(answer') = ws
  <2> SUFFICES ASSUME ws # <<>>, \A j, k \in DOMAIN ws : j < k => Len(ws[j]) <= Len(ws[k]),
                      \A k \in DOMAIN ws : \A j \in DOMAIN ws[k] : ws[k][j] # ","
               PROVE  Elements(answer') = ws
    BY Zenon
  <2>1. \A j, k \in 1..Len(ws) : j < k => Len(ws[j]) <= Len(ws[k])
    BY <1>2
  <2>2. \A k \in 1..Len(ws) : \A i \in 1..Len(ws[k]) : ws[k][i] # Comma
    BY <1>2 DEF Comma
  <2>3. Elements(Split(Join(List(ws), <<",">>), ",")) = ws
    BY <1>2, <2>1, <2>2, SplitIs
  <2> QED BY <1>1, <2>3
<1>4. SplitAgrees'
  BY <1>1, <1>3, Zenon DEF SplitAgrees, Is
<1>5. call'[1] # "switch" /\ call'[1] \notin StringNames /\ call'[1] \notin NumberNames /\ call'[1] \notin ListNames
  BY <1>1 DEF ListNames, StringNames, NumberNames
<1> QED BY <1>4, <1>5, Silent, Zenon DEF ValuesAgree

(* switch. *)
LEMMA SwitchRight ==
  ASSUME NEW ws \in SeqOf(Cases, MaxArgs), NEW w \in Cases, Given2("switch", ws, w, Switch(List(ws), w))
  PROVE  ValuesAgree'
<1>1. call'[1] = "switch" /\ call'[2] = ws /\ call'[3] = w /\ answer' = Switch(List(ws), w)
  BY DEF Given2, Given1
<1>2. ws \in Seq(Keeps)
  BY GivenWords, CallsAssumption
<1> DEFINE first == Lowest(Fitting(ws, w))
<1>3. Fitting(ws, w) # {} /\ first % 2 = 1 /\ BodiesAfter(ws, first) # {} =>
        answer' = ws[Lowest(BodiesAfter(ws, first))]
  BY <1>1, <1>2, SwitchIs
<1>4. SwitchAgrees'
  BY <1>1, <1>3, Zenon DEF SwitchAgrees, Is, Fitting, Lowest, BodiesAfter
<1>5. call'[1] # "join" /\ call'[1] \notin StringNames /\ call'[1] \notin NumberNames /\ call'[1] \notin ListNames
  BY <1>1 DEF ListNames, StringNames, NumberNames
<1> QED BY <1>4, <1>5, Silent, Zenon DEF ValuesAgree

(* The texts and patterns the commands are given. *)
LEMMA GivenTexts ==
  /\ \A s \in Strings : s \in Seq(Letters) /\ Len(s) \in Nat
  /\ \A s \in Strings : s \in Seq(Chars \union {Star, Query})
  /\ \A pat \in Patterns : pat \in Seq(Chars \union {Star, Query}) /\ pat # <<>>
  /\ \A sub \in Sought : sub \in Seq(Letters)
<1> DEFINE C == Chars \union {Star, Query}
<1>1. Letters \subseteq C /\ Letters \union {Star, Query} \subseteq C /\ MaxArgs \in Nat /\ MaxList \in Nat /\ 2 \in Nat
  BY CallsAssumption
<1> HIDE DEF C
<1>2. ASSUME NEW s \in Strings PROVE s \in Seq(Letters) /\ Len(s) \in Nat /\ s \in Seq(C)
  <2>1. s \in Seq(Letters)
    BY <1>1, SeqOfIs DEF Strings
  <2> QED BY <1>1, <2>1
<1>3. ASSUME NEW pat \in Patterns PROVE pat \in Seq(C) /\ pat # <<>>
  <2> DEFINE P == (Letters \ Space) \union {Star, Query}
  <2>1. pat \in SeqOf(P, MaxList) /\ pat # <<>>
    BY Zenon DEF Patterns, Star, Query
  <2>2. P \subseteq C
    BY <1>1
  <2> HIDE DEF P
  <2>3. pat \in Seq(P)
    BY <1>1, <2>1, SeqOfIs
  <2> QED BY <2>1, <2>2, <2>3
<1>4. ASSUME NEW sub \in Sought PROVE sub \in Seq(Letters)
  BY <1>1, SeqOfIs DEF Sought
<1> QED BY <1>2, <1>3, <1>4 DEF C

(* string match. *)
LEMMA MatchRight ==
  ASSUME NEW s \in Strings, NEW pat \in Patterns, Given2("match", pat, s, Match(pat, s))
  PROVE  StringsAgree'
<1>1. call'[1] = "match" /\ call'[2] = pat /\ call'[3] = s /\ answer' = Match(pat, s)
  BY DEF Given2, Given1
<1>2. Ordinary(pat, s) => (Match(pat, s) <=> Glob(pat, s))
  BY GivenTexts, MatchIs
<1>3. Ordinary(pat, s) => (answer' <=> Glob(pat, s))
  BY <1>1, <1>2, Zenon
<1> QED BY <1>1, <1>3, Zenon DEF StringsAgree, Is

(* lsearch. *)
LEMMA LsearchRight ==
  ASSUME NEW s \in Strings, NEW pat \in Patterns, NEW c \in Letters,
         Given3("lsearch", pat, <<c>>, s, Lsearch(List(<<<<c>>, s>>), pat))
  PROVE  StringsAgree'
<1> DEFINE one == <<c>>
           ws == <<one, s>>
<1>1. /\ call'[1] = "lsearch" /\ call'[2] = pat /\ call'[3] = one /\ call'[4] = s
      /\ answer' = Lsearch(List(ws), pat)
  BY DEF Given3, Given2, Given1
<1>2. pat \in Seq(Chars \union {Star, Query}) /\ pat # <<>> /\ s \in Seq(Letters)
  BY GivenTexts
<1>3. one \in Keeps /\ s \in Keeps
  <2>1. one \in Seq(Letters)
    OBVIOUS
  <2> HIDE DEF one
  <2> QED BY <1>2, <2>1, LettersKept
<1> HIDE DEF one
<1>4. ws \in Seq(Keeps) /\ Len(ws) = 2 /\ ws[1] = one /\ ws[2] = s
  BY <1>3
<1> HIDE DEF ws
<1>5. Ordinary(pat, one) /\ Ordinary(pat, s) =>
        answer' = IF Glob(pat, one) THEN 0 ELSE IF Glob(pat, s) THEN 1 ELSE Nowhere
  <2> SUFFICES ASSUME Ordinary(pat, one), Ordinary(pat, s)
               PROVE  answer' = IF Glob(pat, one) THEN 0 ELSE IF Glob(pat, s) THEN 1 ELSE Nowhere
    OBVIOUS
  <2>1. Ordinary(pat, ws[1]) /\ Ordinary(pat, ws[2])
    BY <1>4, Zenon
  <2>2. Lsearch(List(ws), pat) = IF Glob(pat, ws[1]) THEN 0 ELSE IF Glob(pat, ws[2]) THEN 1 ELSE Nowhere
    BY <1>2, <1>4, <2>1, LsearchIs
  <2> QED BY <1>1, <1>4, <2>2, Zenon
<1> QED BY <1>1, <1>5, Zenon DEF StringsAgree, Is

(* string last. *)
LEMMA LastRight ==
  ASSUME NEW s \in Strings, NEW sub \in Sought, Given2("last", sub, s, StringLast(sub, s, 0))
  PROVE  StringsAgree'
<1>1. call'[1] = "last" /\ call'[2] = sub /\ call'[3] = s /\ answer' = StringLast(sub, s, 0)
  BY DEF Given2, Given1
<1>2. LET back == StringFirst(Reverse(sub), Reverse(s), 0)
      IN answer' = IF back = Nowhere THEN Nowhere ELSE Len(s) - Len(sub) - back
  BY <1>1, GivenTexts, LastIs
<1> QED BY <1>1, <1>2, Zenon DEF StringsAgree, Is

(* string range. *)
LEMMA RangeRight ==
  ASSUME NEW s \in Strings, NEW n \in Indices, NEW m \in Indices,
         Given3("range", s, n, m, StringRange(s, n, m))
  PROVE  StringsAgree'
<1>1. call'[1] = "range" /\ call'[2] = s /\ call'[3] = n /\ call'[4] = m /\ answer' = StringRange(s, n, m)
  BY DEF Given3, Given2, Given1
<1>2. 1 <= n /\ n <= m /\ Inside(m, s) => answer' = SubSeq(s, n + 1, m + 1)
  BY <1>1, GivenTexts, GivenWords, RangeIs
<1> QED BY <1>1, <1>2, Zenon DEF StringsAgree, Is

(* string index. *)
LEMMA IndexRight ==
  ASSUME NEW s \in Strings, NEW n \in Indices, Given2("index", s, n, StringIndex(s, n))
  PROVE  StringsAgree'
<1>1. call'[1] = "index" /\ call'[2] = s /\ call'[3] = n /\ answer' = StringIndex(s, n)
  BY DEF Given2, Given1
<1>2. Len(s) \in Nat
  BY GivenTexts
<1>3. Inside(n, s) => answer' = <<s[n + 1]>>
  BY <1>1, <1>2, IndexIs
<1> QED BY <1>1, <1>3, Zenon DEF StringsAgree, Is

(* string trim. *)
LEMMA TrimRight ==
  ASSUME NEW s \in Strings, NEW front \in BOOLEAN, NEW back \in BOOLEAN,
         Given3("trim", s, front, back, Trim(s, front, back))
  PROVE  StringsAgree'
<1>1. /\ call'[1] = "trim" /\ call'[2] = s /\ call'[3] = front /\ call'[4] = back
      /\ answer' = Trim(s, front, back)
  BY DEF Given3, Given2, Given1
<1>2. \E i \in 0..Len(s), j \in 0..Len(s) : Trims(s, front, back, Trim(s, front, back), i, j)
  BY GivenTexts, TrimIs
<1>3. \E i \in 0..Len(s), j \in 0..Len(s) : Trims(s, front, back, answer', i, j)
  BY <1>1, <1>2, Zenon
<1>4. \E i \in 0..Len(s), j \in 0..Len(s) : Trims(call'[2], call'[3], call'[4], answer', i, j)
  BY <1>1, <1>3, Zenon
<1> QED BY <1>1, <1>4, Zenon DEF StringsAgree, Is, Trims

(* array set and get. *)
LEMMA ArrayRight ==
  ASSUME NEW sets \in SeqOf(Numbers \X Numbers, MaxList), Given1("array", sets, Bucket(sets))
  PROVE  NumbersAgree'
<1>1. call'[1] = "array" /\ call'[2] = sets /\ answer' = Bucket(sets)
  BY DEF Given1
<1>2. sets \in Seq(Numbers \X Numbers) /\ DOMAIN sets = 1..Len(sets)
  <2>1. sets \in Seq(Numbers \X Numbers)
    BY CallsAssumption, SeqOfIs
  <2> QED BY <2>1
<1>3. ASSUME \E a, b \in DOMAIN sets : \A k \in DOMAIN sets : sets[k][1] \in {sets[a][1], sets[b][1]}
      PROVE  \A k \in DOMAIN sets : (\A j \in DOMAIN sets : j > k => sets[j][1] # sets[k][1]) =>
                                      ArrGet(answer', sets[k][1]) = sets[k][2]
  <2>1. PICK a, b \in DOMAIN sets : \A k \in DOMAIN sets : sets[k][1] \in {sets[a][1], sets[b][1]}
    BY <1>3
  <2> DEFINE x == sets[a][1]
             y == sets[b][1]
  <2>2. x \in Numbers /\ y \in Numbers
    <3>1. sets[a] \in Numbers \X Numbers /\ sets[b] \in Numbers \X Numbers
      BY <1>2, ElementOfSeq
    <3> QED BY <3>1
  <2>3. \A k \in 1..Len(sets) : sets[k][1] \in {x, y}
    BY <1>2, <2>1
  <2> HIDE DEF x, y
  <2>4. \A k \in 1..Len(sets) : (\A j \in 1..Len(sets) : j > k => sets[j][1] # sets[k][1]) =>
                                  ArrGet(Bucket(sets), sets[k][1]) = sets[k][2]
    BY <1>2, <2>2, <2>3, BucketIs
  <2> QED BY <1>1, <1>2, <2>4, Zenon
<1> QED BY <1>1, <1>3, Zenon DEF NumbersAgree, Is

(* The numbers a call is given are integers. *)
LEMMA NumberSeq ==
  ASSUME NEW vs \in Seq(Numbers)
  PROVE  vs \in Seq(Int)
<1>1. Len(vs) \in Nat /\ vs \in [1..Len(vs) -> Numbers]
  BY LenProperties
<1>2. \A v \in Numbers : v \in Int
  BY CallsAssumption
<1>3. vs \in [1..Len(vs) -> Int]
  BY <1>1, <1>2, Zenon
<1> QED BY <1>1, <1>3, SeqDef

(* min and max. *)
LEMMA MinMaxRight ==
  ASSUME NEW vs \in SeqOf(Numbers, MaxArgs), NEW isMax \in BOOLEAN, NEW skipped \in BOOLEAN,
         Len(vs) >= 2, Given3("minmax", vs, isMax, skipped, MinMax(isMax, vs, skipped))
  PROVE  NumbersAgree'
<1>1. /\ call'[1] = "minmax" /\ call'[2] = vs /\ call'[3] = isMax /\ call'[4] = skipped
      /\ answer' = MinMax(isMax, vs, skipped)
  BY DEF Given3, Given2, Given1
<1>2. vs \in Seq(Int) /\ DOMAIN vs = 1..Len(vs) /\ Len(vs) >= 1
  <2>1. vs \in Seq(Numbers) /\ Numbers \subseteq Int
    BY CallsAssumption, SeqOfIs
  <2>2. vs \in Seq(Int)
    BY <2>1, NumberSeq
  <2> QED BY <2>2
<1>3. Len(vs) # 3 /\ ~skipped =>
        /\ Contains(vs, answer')
        /\ \A k \in DOMAIN vs : IF isMax THEN vs[k] <= answer' ELSE vs[k] >= answer'
  <2> SUFFICES ASSUME Len(vs) # 3, ~skipped
               PROVE  /\ Contains(vs, answer')
                      /\ \A k \in DOMAIN vs : IF isMax THEN vs[k] <= answer' ELSE vs[k] >= answer'
    BY Zenon
  <2>1. Best(isMax, vs, Len(vs), answer')
    <3>1. Best(isMax, vs, Len(vs), MinMax(isMax, vs, FALSE))
      BY <1>2, MinMaxIs
    <3>2. skipped = FALSE
      OBVIOUS
    <3> QED BY <1>1, <3>1, <3>2, Zenon
  <2> QED BY <1>2, <2>1, Zenon DEF Best, Contains
<1>4. (call'[3] <=> isMax) /\ (call'[4] <=> skipped)
  BY <1>1, Zenon
<1> QED BY <1>1, <1>3, <1>4, Zenon DEF NumbersAgree, Is

(* interpolate. *)
LEMMA InterpolateRight ==
  ASSUME NEW ys \in SeqOf(Numbers, MaxList), NEW x \in Indices, Len(ys) >= 2,
         Given2("interpolate", ys, x, Interpolate([k \in DOMAIN ys |-> <<2 * (k - 1), 2 * ys[k]>>], x))
  PROVE  NumbersAgree'
<1>1. call'[1] = "interpolate" /\ call'[2] = ys /\ call'[3] = x /\ answer' = Interpolate(Points(ys), x)
  BY DEF Given2, Given1, Points
<1>2. ys \in Seq(Int) /\ DOMAIN ys = 1..Len(ys) /\ x \in Int
  <2>1. ys \in Seq(Numbers) /\ Numbers \subseteq Int /\ x \in Int
    BY CallsAssumption, SeqOfIs, GivenWords
  <2>2. ys \in Seq(Int)
    BY <2>1, NumberSeq
  <2> QED BY <2>1, <2>2
<1>3. ASSUME NEW k \in DOMAIN ys, x = 2 * (k - 1) PROVE answer' = 2 * ys[k]
  BY <1>1, <1>2, <1>3, ThroughIs
<1>4. ASSUME NEW k \in 1..(Len(ys) - 1), 2 * (k - 1) <= x, x <= 2 * k
      PROVE  answer' \in 2 * Lesser(ys[k], ys[k + 1])..2 * Greater(ys[k], ys[k + 1])
  BY <1>1, <1>2, <1>4, InterpolateIs
<1> QED BY <1>1, <1>3, <1>4, Zenon DEF NumbersAgree, Is

(* Numbers as text. *)
LEMMA ToTextRight ==
  ASSUME NEW f \in Amounts, NEW decimals \in {0, 1}, Given2("totext", f, decimals, ToText(f, decimals))
  PROVE  NumbersAgree'
<1>1. call'[1] = "totext" /\ call'[2] = f /\ call'[3] = decimals /\ answer' = ToText(f, decimals)
  BY DEF Given2, Given1
<1>2. f \in Int
  BY CallsAssumption
<1>3. decimals = 1 => Abs(Abs(f) - (100 * answer'[1] + 10 * answer'[2])) <= 5
  BY <1>1, <1>2, TenthsIs
<1>4. decimals = 0 /\ f >= 0 => Abs(f - 100 * answer'[1]) <= 50
  BY <1>1, <1>2, UnitsIs
<1> QED BY <1>1, <1>3, <1>4, Zenon DEF NumbersAgree, Is

(* Digits as bytes. *)
LEMMA BytesRight ==
  ASSUME NEW ds \in SeqOf(Digits, MaxArgs), NEW behind,
         Given2("bytes", ds, behind, Bytes(ds, MaxArgs, behind))
  PROVE  NumbersAgree'
<1>1. /\ call'[1] = "bytes" /\ call'[2] = ds /\ call'[3] = behind
      /\ answer' = Bytes(ds, MaxArgs, behind)
  BY DEF Given2, Given1
<1>2. MaxArgs \in Nat /\ Digits \subseteq 0..17
  BY CallsAssumption
<1>3. ds \in Seq(Digits) /\ Len(ds) \in Nat /\ Len(ds) <= MaxArgs
  BY <1>2, SeqOfIs
<1>4. ASSUME behind = <<>>, \A k \in DOMAIN ds : ds[k] < 16
      PROVE  /\ Len(answer') = Len(ds) \div 2
             /\ \A k \in DOMAIN answer' : answer'[k] \div 16 = ds[2 * k - 1] /\ answer'[k] % 16 = ds[2 * k]
  <2>1. ds \in Seq(0..15)
    <3>1. DOMAIN ds = 1..Len(ds) /\ ds \in [1..Len(ds) -> Digits]
      BY <1>3
    <3>2. ASSUME NEW k \in 1..Len(ds) PROVE ds[k] \in 0..15
      <4> DEFINE d == ds[k]
      <4>1. d \in 0..17 /\ d < 16
        BY <1>2, <1>4, <3>1
      <4> HIDE DEF d
      <4>2. d \in 0..15
        BY <4>1
      <4> QED BY <4>2 DEF d
    <3>3. ds = [k \in 1..Len(ds) |-> ds[k]]
      BY <3>1
    <3>4. ds \in [1..Len(ds) -> 0..15]
      BY <3>2, <3>3, Zenon
    <3> QED BY <1>3, <3>4, SeqOfFun, Zenon
  <2> DEFINE u == Bytes(ds, MaxArgs, <<>>)
  <2>2. /\ Len(u) = Len(ds) \div 2
        /\ \A k \in DOMAIN u : u[k] \div 16 = ds[2 * k - 1] /\ u[k] % 16 = ds[2 * k]
    BY <1>2, <1>3, <2>1, BytesIs
  <2>3. answer' = u
    BY <1>1, <1>4
  <2> HIDE DEF u
  <2> QED BY <2>2, <2>3, Zenon
<1> QED BY <1>1, <1>4, Zenon DEF NumbersAgree, Is

(* gpio. *)
LEMMA GpioRight ==
  ASSUME NEW n \in 0..63, NEW v \in {0, 1}, NEW before, Given3("gpio", n, v, before, Driven(before, n, v))
  PROVE  NumbersAgree'
<1>1. call'[1] = "gpio" /\ call'[2] = n /\ call'[3] = v /\ answer' = Driven(before, n, v)
  BY DEF Given3, Given2, Given1
<1>2. n # 31 => Odsr(answer', n) = v
  BY <1>1, DrivenIs
<1> QED BY <1>1, <1>2, Zenon DEF NumbersAgree, Is

(* A call gives what its name promises. *)
LEMMA CallsRight ==
  ASSUME CallsNext
  PROVE  ValuesAgree'
<1>1. CASE CallLists
  <2>1. PICK ws \in WordLists, n \in Indices :
          \/ Does("lindex", <<ws, n>>, Lindex(List(ws), n))
          \/ \E w \in Words :
               \/ Does("linsert", <<ws, n, w>>, Linsert(List(ws), n, w))
               \/ Does("lset", <<ws, n, w>>, Lset(List(ws), n, w))
               \/ Does("in", <<ws, w>>, In(w, List(ws)))
               \/ \E m \in Indices : Does("lreplace", <<ws, n, m, w>>, Lreplace(List(ws), n, m, w))
          \/ \E m \in Indices : Does("lrange", <<ws, n, m>>, Lrange(List(ws), n, m))
    BY <1>1, Zenon DEF CallLists
  <2>2. CASE Does("lindex", <<ws, n>>, Lindex(List(ws), n))
    <3>1. Given2("lindex", ws, n, Lindex(List(ws), n))
      BY <2>2, DoesTwo
    <3>2. call'[1] \in ListNames
      BY <3>1, Zenon DEF Given2, Given1, ListNames
    <3> QED BY <3>1, <3>2, LindexRight, ListsSaid
  <2>3. ASSUME NEW w \in Words, Does("linsert", <<ws, n, w>>, Linsert(List(ws), n, w)) PROVE ValuesAgree'
    <3>1. Given3("linsert", ws, n, w, Linsert(List(ws), n, w))
      BY <2>3, DoesThree
    <3>2. call'[1] \in ListNames
      BY <3>1, Zenon DEF Given3, Given2, Given1, ListNames
    <3> QED BY <3>1, <3>2, LinsertRight, ListsSaid
  <2>4. ASSUME NEW w \in Words, Does("lset", <<ws, n, w>>, Lset(List(ws), n, w)) PROVE ValuesAgree'
    <3>1. Given3("lset", ws, n, w, Lset(List(ws), n, w))
      BY <2>4, DoesThree
    <3>2. call'[1] \in ListNames
      BY <3>1, Zenon DEF Given3, Given2, Given1, ListNames
    <3> QED BY <3>1, <3>2, LsetRight, ListsSaid
  <2>5. ASSUME NEW w \in Words, Does("in", <<ws, w>>, In(w, List(ws))) PROVE ValuesAgree'
    <3>1. Given2("in", ws, w, In(w, List(ws)))
      BY <2>5, DoesTwo
    <3>2. call'[1] \in ListNames
      BY <3>1, Zenon DEF Given2, Given1, ListNames
    <3> QED BY <3>1, <3>2, InRight, ListsSaid
  <2>6. ASSUME NEW w \in Words, NEW m \in Indices, Does("lreplace", <<ws, n, m, w>>, Lreplace(List(ws), n, m, w))
        PROVE  ValuesAgree'
    <3>1. Given4("lreplace", ws, n, m, w, Lreplace(List(ws), n, m, w))
      BY <2>6, DoesFour
    <3>2. call'[1] \in ListNames
      BY <3>1, Zenon DEF Given4, Given3, Given2, Given1, ListNames
    <3> QED BY <3>1, <3>2, LreplaceRight, ListsSaid
  <2>7. ASSUME NEW m \in Indices, Does("lrange", <<ws, n, m>>, Lrange(List(ws), n, m)) PROVE ValuesAgree'
    <3>1. Given3("lrange", ws, n, m, Lrange(List(ws), n, m))
      BY <2>7, DoesThree
    <3>2. call'[1] \in ListNames
      BY <3>1, Zenon DEF Given3, Given2, Given1, ListNames
    <3> QED BY <3>1, <3>2, LrangeRight, ListsSaid
  <2> QED BY <2>1, <2>2, <2>3, <2>4, <2>5, <2>6, <2>7, Zenon
<1>2. CASE CallSequences
  <2>1. PICK ws \in WordLists :
          \/ Does("list", <<ws>>, List(ws))
          \/ Does("concat", <<ws>>, Concat(ws))
          \/ Does("join", <<ws>>, Split(Join(List(ws), <<",">>), ","))
    BY <1>2, Zenon DEF CallSequences
  <2>2. CASE Does("list", <<ws>>, List(ws))
    <3>1. Given1("list", ws, List(ws))
      BY <2>2, DoesOne
    <3>2. call'[1] \in ListNames
      BY <3>1, Zenon DEF Given1, ListNames
    <3> QED BY <3>1, <3>2, ListRight, ListsSaid
  <2>3. CASE Does("concat", <<ws>>, Concat(ws))
    <3>1. Given1("concat", ws, Concat(ws))
      BY <2>3, DoesOne
    <3>2. call'[1] \in ListNames
      BY <3>1, Zenon DEF Given1, ListNames
    <3> QED BY <3>1, <3>2, ConcatRight, ListsSaid
  <2>4. CASE Does("join", <<ws>>, Split(Join(List(ws), <<",">>), ","))
    <3>1. Given1("join", ws, Split(Join(List(ws), <<",">>), ","))
      BY <2>4, DoesOne, Zenon
    <3> QED BY <3>1, SplitRight, Zenon
  <2> QED BY <2>1, <2>2, <2>3, <2>4, Zenon
<1>3. CASE CallSwitch
  <2>1. PICK ws \in SeqOf(Cases, MaxArgs), w \in Cases : Does("switch", <<ws, w>>, Switch(List(ws), w))
    BY <1>3, Zenon DEF CallSwitch
  <2>2. Given2("switch", ws, w, Switch(List(ws), w))
    BY <2>1, DoesTwo
  <2> QED BY <2>2, SwitchRight
<1>4. CASE CallStrings
  <2>1. PICK s \in Strings :
          \/ \E pat \in Patterns :
               \/ Does("match", <<pat, s>>, Match(pat, s))
               \/ \E c \in Letters : Does("lsearch", <<pat, <<c>>, s>>, Lsearch(List(<<<<c>>, s>>), pat))
          \/ \E sub \in Sought : Does("last", <<sub, s>>, StringLast(sub, s, 0))
          \/ \E n, m \in Indices : /\ s # <<>>
                                   /\ \/ Does("range", <<s, n, m>>, StringRange(s, n, m))
                                      \/ Does("index", <<s, n>>, StringIndex(s, n))
          \/ \E front, back \in BOOLEAN : Does("trim", <<s, front, back>>, Trim(s, front, back))
    BY <1>4, Zenon DEF CallStrings
  <2>2. ASSUME NEW pat \in Patterns, Does("match", <<pat, s>>, Match(pat, s)) PROVE ValuesAgree'
    <3>1. Given2("match", pat, s, Match(pat, s))
      BY <2>2, DoesTwo
    <3>2. call'[1] \in StringNames
      BY <3>1, Zenon DEF Given2, Given1, StringNames
    <3> QED BY <3>1, <3>2, MatchRight, StringsSaid
  <2>3. ASSUME NEW pat \in Patterns, NEW c \in Letters,
               Does("lsearch", <<pat, <<c>>, s>>, Lsearch(List(<<<<c>>, s>>), pat))
        PROVE  ValuesAgree'
    <3>1. Given3("lsearch", pat, <<c>>, s, Lsearch(List(<<<<c>>, s>>), pat))
      BY <2>3, DoesThree
    <3>2. call'[1] \in StringNames
      BY <3>1, Zenon DEF Given3, Given2, Given1, StringNames
    <3> QED BY <3>1, <3>2, LsearchRight, StringsSaid
  <2>4. ASSUME NEW sub \in Sought, Does("last", <<sub, s>>, StringLast(sub, s, 0)) PROVE ValuesAgree'
    <3>1. Given2("last", sub, s, StringLast(sub, s, 0))
      BY <2>4, DoesTwo
    <3>2. call'[1] \in StringNames
      BY <3>1, Zenon DEF Given2, Given1, StringNames
    <3> QED BY <3>1, <3>2, LastRight, StringsSaid
  <2>5. ASSUME NEW n \in Indices, NEW m \in Indices, Does("range", <<s, n, m>>, StringRange(s, n, m))
        PROVE  ValuesAgree'
    <3>1. Given3("range", s, n, m, StringRange(s, n, m))
      BY <2>5, DoesThree
    <3>2. call'[1] \in StringNames
      BY <3>1, Zenon DEF Given3, Given2, Given1, StringNames
    <3> QED BY <3>1, <3>2, RangeRight, StringsSaid
  <2>6. ASSUME NEW n \in Indices, Does("index", <<s, n>>, StringIndex(s, n)) PROVE ValuesAgree'
    <3>1. Given2("index", s, n, StringIndex(s, n))
      BY <2>6, DoesTwo
    <3>2. call'[1] \in StringNames
      BY <3>1, Zenon DEF Given2, Given1, StringNames
    <3> QED BY <3>1, <3>2, IndexRight, StringsSaid
  <2>7. ASSUME NEW front \in BOOLEAN, NEW back \in BOOLEAN,
               Does("trim", <<s, front, back>>, Trim(s, front, back))
        PROVE  ValuesAgree'
    <3>1. Given3("trim", s, front, back, Trim(s, front, back))
      BY <2>7, DoesThree
    <3>2. call'[1] \in StringNames
      BY <3>1, Zenon DEF Given3, Given2, Given1, StringNames
    <3> QED BY <3>1, <3>2, TrimRight, StringsSaid
  <2> QED BY <2>1, <2>2, <2>3, <2>4, <2>5, <2>6, <2>7, Zenon
<1>5. CASE CallNumbers
  <2>1. ASSUME NEW sets \in SeqOf(Numbers \X Numbers, MaxList), Does("array", <<sets>>, Bucket(sets))
        PROVE  ValuesAgree'
    <3>1. Given1("array", sets, Bucket(sets))
      BY <2>1, DoesOne
    <3>2. call'[1] \in NumberNames
      BY <3>1, Zenon DEF Given1, NumberNames
    <3> QED BY <3>1, <3>2, ArrayRight, NumbersSaid
  <2>2. ASSUME NEW vs \in SeqOf(Numbers, MaxArgs), NEW isMax \in BOOLEAN, NEW skipped \in BOOLEAN,
               Len(vs) >= 2, Does("minmax", <<vs, isMax, skipped>>, MinMax(isMax, vs, skipped))
        PROVE  ValuesAgree'
    <3>1. Given3("minmax", vs, isMax, skipped, MinMax(isMax, vs, skipped))
      BY <2>2, DoesThree
    <3>2. call'[1] \in NumberNames
      BY <3>1, Zenon DEF Given3, Given2, Given1, NumberNames
    <3> QED BY <2>2, <3>1, <3>2, MinMaxRight, NumbersSaid
  <2>3. ASSUME NEW ys \in SeqOf(Numbers, MaxList), NEW x \in Indices, Len(ys) >= 2,
               Does("interpolate", <<ys, x>>, Interpolate([k \in DOMAIN ys |-> <<2 * (k - 1), 2 * ys[k]>>], x))
        PROVE  ValuesAgree'
    <3>1. Given2("interpolate", ys, x, Interpolate([k \in DOMAIN ys |-> <<2 * (k - 1), 2 * ys[k]>>], x))
      BY <2>3, DoesTwo
    <3>2. call'[1] \in NumberNames
      BY <3>1, Zenon DEF Given2, Given1, NumberNames
    <3> QED BY <2>3, <3>1, <3>2, InterpolateRight, NumbersSaid
  <2>4. ASSUME NEW f \in Amounts, NEW decimals \in {0, 1},
               Does("totext", <<f, decimals>>, ToText(f, decimals))
        PROVE  ValuesAgree'
    <3>1. Given2("totext", f, decimals, ToText(f, decimals))
      BY <2>4, DoesTwo
    <3>2. call'[1] \in NumberNames
      BY <3>1, Zenon DEF Given2, Given1, NumberNames
    <3> QED BY <3>1, <3>2, ToTextRight, NumbersSaid
  <2>5. ASSUME NEW ds \in SeqOf(Digits, MaxArgs), NEW behind \in SeqOf(Digits \intersect 0..15, 2),
               Does("bytes", <<ds, behind>>, Bytes(ds, MaxArgs, behind))
        PROVE  ValuesAgree'
    <3>1. Given2("bytes", ds, behind, Bytes(ds, MaxArgs, behind))
      BY <2>5, DoesTwo
    <3>2. call'[1] \in NumberNames
      BY <3>1, Zenon DEF Given2, Given1, NumberNames
    <3> QED BY <3>1, <3>2, BytesRight, NumbersSaid
  <2>6. ASSUME NEW n \in 0..63, NEW v \in {0, 1}, NEW before \in SUBSET Pads,
               Does("gpio", <<n, v, before>>, Driven(before, n, v))
        PROVE  ValuesAgree'
    <3>1. Given3("gpio", n, v, before, Driven(before, n, v))
      BY <2>6, DoesThree
    <3>2. call'[1] \in NumberNames
      BY <3>1, Zenon DEF Given3, Given2, Given1, NumberNames
    <3> QED BY <3>1, <3>2, GpioRight, NumbersSaid
  <2> QED BY <1>5, <2>1, <2>2, <2>3, <2>4, <2>5, <2>6, Zenon DEF CallNumbers
<1> QED BY <1>1, <1>2, <1>3, <1>4, <1>5, Zenon DEF CallsNext

(* The commands that compute give, for every word, text and number they    *)
(* are given, what ValuesAgree says of them.                               *)
THEOREM ValuesRight == CallsSpec => []ValuesAgree
<1>1. CallsInit => ValuesAgree
  <2> SUFFICES ASSUME CallsInit PROVE ValuesAgree
    OBVIOUS
  <2>1. call[1] = "none"
    BY DEF CallsInit, NoCall
  <2>2. ListsAgree
    BY <2>1, Zenon DEF ListsAgree, Is
  <2>3. SplitAgrees
    BY <2>1, Zenon DEF SplitAgrees, Is
  <2>4. SwitchAgrees
    BY <2>1, Zenon DEF SwitchAgrees, Is
  <2>5. StringsAgree
    BY <2>1, Zenon DEF StringsAgree, Is
  <2>6. NumbersAgree
    BY <2>1, Zenon DEF NumbersAgree, Is
  <2> QED BY <2>2, <2>3, <2>4, <2>5, <2>6 DEF ValuesAgree
<1>2. ValuesAgree /\ [CallsNext]_callVars => ValuesAgree'
  <2>1. CASE CallsNext
    BY <2>1, CallsRight
  <2>2. ASSUME ValuesAgree, UNCHANGED callVars PROVE ValuesAgree'
    <3>1. call' = call /\ answer' = answer
      BY <2>2 DEF callVars
    <3>2. ListsAgree => ListsAgree'
      <4> SUFFICES ASSUME ListsAgree PROVE ListsAgree'
        OBVIOUS
      <4>1. CASE Is("list")
        BY <3>1, <4>1, Zenon DEF ListsAgree, Is
      <4>2. CASE Is("lindex")
        BY <3>1, <4>2, Zenon DEF ListsAgree, Is
      <4>3. CASE Is("linsert")
        BY <3>1, <4>3, Zenon DEF ListsAgree, Is
      <4>4. CASE Is("lset")
        BY <3>1, <4>4, Zenon DEF ListsAgree, Is
      <4>5. CASE Is("in")
        BY <3>1, <4>5, Zenon DEF ListsAgree, Is
      <4>6. CASE Is("lrange")
        BY <3>1, <4>6, Zenon DEF ListsAgree, Is
      <4>7. CASE Is("lreplace")
        BY <3>1, <4>7, Zenon DEF ListsAgree, Is
      <4>8. CASE Is("concat")
        BY <3>1, <4>8, Zenon DEF ListsAgree, Is
      <4>9. CASE call[1] \notin ListNames
        BY <3>1, <4>9, Silent
      <4> QED BY <4>1, <4>2, <4>3, <4>4, <4>5, <4>6, <4>7, <4>8, <4>9, Zenon DEF ListNames, Is
    <3>3. SplitAgrees => SplitAgrees'
      BY <3>1, Zenon DEF SplitAgrees, Is
    <3>4. SwitchAgrees => SwitchAgrees'
      BY <3>1, ZenonT(60) DEF SwitchAgrees, Is
    <3>5. StringsAgree => StringsAgree'
      <4> SUFFICES ASSUME StringsAgree PROVE StringsAgree'
        OBVIOUS
      <4>1. CASE Is("match")
        BY <3>1, <4>1, Zenon DEF StringsAgree, Is
      <4>2. CASE Is("lsearch")
        BY <3>1, <4>2, Zenon DEF StringsAgree, Is
      <4>3. CASE Is("last")
        BY <3>1, <4>3, Zenon DEF StringsAgree, Is
      <4>4. CASE Is("range")
        BY <3>1, <4>4, Zenon DEF StringsAgree, Is
      <4>5. CASE Is("index")
        BY <3>1, <4>5, Zenon DEF StringsAgree, Is
      <4>6. CASE Is("trim")
        <5>1. \E i \in 0..Len(call[2]), j \in 0..Len(call[2]) : Trims(call[2], call[3], call[4], answer, i, j)
          BY <4>6, Zenon DEF StringsAgree, Is, Trims
        <5>2. \E i \in 0..Len(call'[2]), j \in 0..Len(call'[2]) : Trims(call'[2], call'[3], call'[4], answer', i, j)
          BY <3>1, <5>1, Zenon
        <5>3. call'[1] = "trim"
          BY <3>1, <4>6 DEF Is
        <5> QED BY <5>2, <5>3, Zenon DEF StringsAgree, Is, Trims
      <4>7. CASE call[1] \notin StringNames
        BY <3>1, <4>7, Silent
      <4> QED BY <4>1, <4>2, <4>3, <4>4, <4>5, <4>6, <4>7, Zenon DEF StringNames, Is
    <3>6. NumbersAgree => NumbersAgree'
      <4> SUFFICES ASSUME NumbersAgree PROVE NumbersAgree'
        OBVIOUS
      <4>1. CASE Is("array")
        BY <3>1, <4>1, Zenon DEF NumbersAgree, Is
      <4>2. CASE Is("minmax")
        BY <3>1, <4>2, Zenon DEF NumbersAgree, Is
      <4>3. CASE Is("interpolate")
        BY <3>1, <4>3, Zenon DEF NumbersAgree, Is
      <4>4. CASE Is("totext")
        BY <3>1, <4>4, Zenon DEF NumbersAgree, Is
      <4>5. CASE Is("bytes")
        BY <3>1, <4>5, Zenon DEF NumbersAgree, Is
      <4>6. CASE Is("gpio")
        BY <3>1, <4>6, Zenon DEF NumbersAgree, Is
      <4>7. CASE call[1] \notin NumberNames
        BY <3>1, <4>7, Silent
      <4> QED BY <4>1, <4>2, <4>3, <4>4, <4>5, <4>6, <4>7, Zenon DEF NumberNames, Is
    <3> QED BY <2>2, <3>2, <3>3, <3>4, <3>5, <3>6 DEF ValuesAgree
  <2> QED BY <2>1, <2>2
<1> QED BY <1>1, <1>2, PTL DEF CallsSpec
=============================================================================
