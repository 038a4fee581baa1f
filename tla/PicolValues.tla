---------------------------- MODULE PicolValues ----------------------------
(***************************************************************************)
(* The commands of Picol that compute with lists, text, arrays and numbers *)
(* (src/pcl/picol.c, src/pcl/pcl_sam.c, src/my/util.c).  Each operator is  *)
(* a command: lists and text are sequences of characters, as the script    *)
(* passes them, and numbers of the numeric ones are integers.              *)
(***************************************************************************)
EXTENDS PicolText, SequencesExt

Stale == <<"stale">>    \* the result of the command before
Error == <<"error">>
End == 1000000          \* the index end, LONG_MAX in the code
Nowhere == -1
Lesser(a, b) == IF a < b THEN a ELSE b
Greater(a, b) == IF a > b THEN a ELSE b

-----------------------------------------------------------------------------
(* Lists.  FOREACH numbers the elements from 0; EachOf puts together what  *)
(* a loop adds to its result for the element e with number j.              *)
EachOf(l, Adds(_, _)) ==
  LET es == Elements(l) IN FlattenSeq([k \in DOMAIN es |-> Adds(es[k], k - 1)])

Llength(l) == Len(Elements(l))

(* An index that is not in the list leaves the last result.                *)
Lindex(l, n) == IF n \in 0..(Llength(l) - 1) THEN Elements(l)[n + 1] ELSE Stale

(* At an index past the end nothing is inserted. *)
Linsert(l, pos, w) ==
  List(EachOf(l, LAMBDA e, j : IF j = pos THEN <<w, e>> ELSE <<e>>)
       \o IF pos = End THEN <<w>> ELSE <<>>)

Lrange(l, from, to) ==
  List(EachOf(l, LAMBDA e, j : IF from <= j /\ j <= to THEN <<e>> ELSE <<>>))

(* Mutant: every element of the range is replaced. *)
Lreplace_Each(l, from, to, w) ==
  List(EachOf(l, LAMBDA e, j : IF j < from \/ j > to THEN <<e>> ELSE <<w>>))

(* The first element of the range is replaced, the others are left out. *)
Lreplace(l, from, to, w) ==
  List(EachOf(l, LAMBDA e, j : IF j < from \/ j > to THEN <<e>>
                               ELSE IF j = Greater(from, 0) THEN <<w>> ELSE <<>>))

(* The index after the last element is accepted, and changes nothing. *)
Lset(l, pos, w) ==
  IF pos \in 0..Llength(l)
  THEN List(EachOf(l, LAMBDA e, j : IF j = pos THEN <<w>> ELSE <<e>>))
  ELSE Error

Join(l, with) ==
  LET es == Elements(l)
  IN FlattenSeq([k \in DOMAIN es |-> IF k < Len(es) THEN es[k] \o with ELSE es[k]])

In(w, l) == \E k \in DOMAIN Elements(l) : Elements(l)[k] = w

(* picolConcat: a blank after each word that is not empty, but the last.   *)
Concat(ws) ==
  FlattenSeq([k \in DOMAIN ws |->
    IF ws[k] # <<>> /\ k < Len(ws) THEN Append(ws[k], " ") ELSE ws[k]])

(* split: a field is copied over the field before, whose tail stays when   *)
(* it was longer.                                                          *)
Split(s, sep) ==
  LET Field(acc, c) ==
        IF c # sep THEN [acc EXCEPT !.field = Append(@, c)]
        ELSE LET n == Len(acc.field)
                 value == IF n = 0 THEN <<>>
                          ELSE acc.field \o SubSeq(acc.mem, n + 1, Len(acc.mem))
             IN [field |-> <<>>, list |-> LAppend(acc.list, value),
                 mem |-> IF n = 0 THEN acc.mem ELSE value]
      after[k \in 0..Len(s)] ==
        IF k = 0 THEN [field |-> <<>>, list |-> <<>>, mem |-> <<>>] ELSE Field(after[k - 1], s[k])
  IN LAppend(after[Len(s)].list, after[Len(s)].field)

(* switch s {pattern body ...}: every element is tried as a pattern, also  *)
(* a body whose pattern did not match; from the first that fits on, the    *)
(* body - stands for the next one.                                         *)
Switch(l, s) ==
  LET es == Elements(l)
      fits == {k \in DOMAIN es : es[k] \in {s, <<"default">>}}
      body[k \in 1..(Len(es) + 2)] ==
        IF k > Len(es) THEN <<>>
        ELSE IF k = Len(es) THEN Error
        ELSE IF es[k + 1] = <<"-">> THEN body[k + 2]
        ELSE es[k + 1]
  IN IF fits = {} THEN <<>> ELSE body[CHOOSE k \in fits : \A j \in fits : k <= j]

-----------------------------------------------------------------------------
(* Text. *)

(* picolWildEq: up to n characters, -1 for all; a question mark of the     *)
(* pattern stands for any character, or for none at the end.               *)
WildEq(pat, s, n) ==
  LET both == Lesser(Len(pat), Len(s))
      m == IF n < 0 THEN both ELSE Lesser(n, both)
  IN /\ \A k \in 1..m : pat[k] \in {s[k], "?"}
     /\ n = m \/ (Len(pat) = m /\ Len(s) = m) \/ At(pat, m + 1) = "?"

(* picolMatch: a star at the front, at the end, or at both. *)
Match(pat, s) ==
  LET front == Head(pat) = "*"
      back  == Last(pat) = "*"
      tail  == SubSeq(s, Greater(Len(s) - Len(pat) + 1, 0) + 1, Len(s))
  IN CASE front /\ back  -> \E i \in 0..Len(s) :
                              IsPrefix(SubSeq(pat, 2, Len(pat) - 1), SubSeq(s, i + 1, Len(s)))
       [] front /\ ~back -> Len(s) >= Len(pat) - 1 /\ WildEq(Tail(pat), tail, -1)
       [] ~front /\ back -> WildEq(Front(pat), s, Len(pat) - 1)
       [] OTHER          -> WildEq(pat, s, -1)

Lsearch(l, pat) ==
  LET es == Elements(l)
      hits == {k \in DOMAIN es : Match(pat, es[k])}
  IN IF hits = {} THEN Nowhere ELSE (CHOOSE k \in hits : \A j \in hits : k <= j) - 1

Occurs(s, sub, from) ==
  {i \in from..(Len(s) - Len(sub)) : SubSeq(s, i + 1, i + Len(sub)) = sub}

StringFirst(sub, s, from) ==
  LET at == Occurs(s, sub, from)
  IN IF at = {} THEN Nowhere ELSE CHOOSE i \in at : \A j \in at : i <= j

(* string last: where the search began, less one, when nothing is found.   *)
StringLast(sub, s, from) ==
  LET at == Occurs(s, sub, from)
  IN IF at = {} THEN from - 1 ELSE CHOOSE i \in at : \A j \in at : i >= j

Within(n, s) == Lesser(Greater(n, 0), Len(s) - 1)

StringIndex(s, n) == <<s[Within(n, s) + 1]>>

(* string range: the copy ends at the index last, so that a range from 0   *)
(* loses its last character.                                               *)
StringRange(s, first, last) ==
  LET from == Within(first, s)
      to   == Within(last, s)
      copy == SubSeq(s, from + 1, to + 1)
  IN SubSeq(copy, 1, Lesser(to, Len(copy)))

(* string trim, trimleft, trimright *)
Trim(s, left, right) ==
  LET kept == {i \in DOMAIN s : s[i] \notin Space}
      from == IF ~left THEN 1
              ELSE IF kept = {} THEN Len(s) + 1 ELSE CHOOSE i \in kept : \A j \in kept : i <= j
      to   == IF ~right THEN Len(s)
              ELSE IF kept = {} THEN 0 ELSE CHOOSE i \in kept : \A j \in kept : i >= j
  IN SubSeq(s, from, to)

-----------------------------------------------------------------------------
(* Arrays and numbers. *)

(* picolArrSet: a bucket is a sequence of <<key, value>>; a new key goes   *)
(* before the last one, and the others are lost.                           *)
ArrSet(bucket, key, value) ==
  LET same == {k \in DOMAIN bucket : bucket[k][1] = key}
  IN IF same # {} THEN [bucket EXCEPT ![CHOOSE k \in same : TRUE][2] = value]
     ELSE <<<<key, value>>>> \o IF bucket = <<>> THEN <<>> ELSE <<Last(bucket)>>

(* A bucket after a sequence of array set. *)
Bucket(sets) ==
  LET after[k \in 0..Len(sets)] ==
        IF k = 0 THEN <<>> ELSE ArrSet(after[k - 1], sets[k][1], sets[k][2])
  IN after[Len(sets)]

ArrGet(bucket, key) ==
  LET same == {k \in DOMAIN bucket : bucket[k][1] = key}
  IN IF same = {} THEN Nowhere ELSE bucket[CHOOSE k \in same : TRUE][2]

(* max and min; three values are a lower bound, an upper bound and what is *)
(* brought between them.  strlen(argv[0] == 3) reads address 0: if there   *)
(* is a zero, the arguments are skipped.                                   *)
MinMax(isMax, vs, skipped) ==
  IF Len(vs) = 3 THEN IF vs[3] < vs[1] THEN vs[1] ELSE Lesser(vs[3], vs[2])
  ELSE IF skipped THEN 0
  ELSE LET best[k \in 1..Len(vs)] == IF k = 1 THEN vs[1]
                                     ELSE IF isMax THEN Greater(best[k - 1], vs[k])
                                     ELSE Lesser(best[k - 1], vs[k])
       IN best[Len(vs)]

(* interpolate() of util.c *)
Between(p, q, x) == p[2] + ((x - p[1]) * (q[2] - p[2])) \div (q[1] - p[1])

(* interpolate x1 y1 ... xn yn x; points is the sequence of <<x, y>>. *)
Interpolate(points, x) ==
  LET at == {k \in DOMAIN points : x <= points[k][1]}
      k  == CHOOSE k \in at : \A j \in at : k <= j
  IN IF at = {} THEN points[Len(points)][2]
     ELSE IF k = 1 THEN points[1][2]
     ELSE Between(points[k - 1], points[k], x)

(* double2str: f is in hundredths, the result <<units, tenths>> of its     *)
(* absolute value; with no decimals a half is added and the fraction cut   *)
(* off towards zero.                                                       *)
Abs(n) == IF n < 0 THEN -n ELSE n

ToText(f, decimals) ==
  IF decimals = 0
  THEN LET g == f + 50 IN <<IF g >= 0 THEN g \div 100 ELSE -(Abs(g) \div 100), 0>>
  ELSE LET a == Abs(f)
           tenths == ((a % 100) + 5) \div 10
       IN IF tenths >= 10 THEN <<a \div 100 + 1, 0>> ELSE <<a \div 100, tenths>>

(* str2bytes: the pairs up to the first that is not one.  All characters   *)
(* from 0 to F are taken, of which strtoul() reads : to @ as no digit      *)
(* (Colon), and behind are the digits that follow ch[2] in memory, which   *)
(* strtoul() reads as well.  A byte has the last two of what is read.      *)
Colon == 16

Byte(a, b, behind) ==
  LET read == <<a, b>> \o behind
  IN IF a = Colon THEN 0
     ELSE IF b = Colon THEN a
     ELSE 16 * read[Len(read) - 1] + read[Len(read)]

Bytes(s, max, behind) ==
  LET most == Lesser(max, Len(s) \div 2)
      pairs == {k \in 1..most : s[2 * k - 1] \in 0..Colon /\ s[2 * k] \in 0..Colon}
      n == CHOOSE m \in 0..most : 1..m \subseteq pairs /\ m + 1 \notin pairs
  IN [k \in 1..n |-> Byte(s[2 * k - 1], s[2 * k], behind)]

(* gpio_write() and gpio_odsr(): pin 31 is written on the second port. *)
Driven(pads, n, v) ==
  LET pad == <<IF n < 31 THEN 1 ELSE 2, n % 32>>
  IN IF v = 1 THEN pads \union {pad} ELSE pads \ {pad}

Odsr(pads, n) == IF <<IF n < 32 THEN 1 ELSE 2, n % 32>> \in pads THEN 1 ELSE 0
=============================================================================
