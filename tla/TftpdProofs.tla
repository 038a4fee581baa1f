---------------------------- MODULE TftpdProofs ----------------------------
(***************************************************************************)
(* Proofs about Tftpd and the flash bank it writes, for any sizes of       *)
(* pages, words and blocks, any files and any number of clients.           *)
(***************************************************************************)
EXTENDS Tftpd, FiniteSetTheorems, SequenceTheorems, WellFoundedInduction, TLAPS

(***************************************************************************)
(* The flash bank.                                                         *)
(***************************************************************************)
(* A bounded set of numbers has a largest: the one fewest are above.       *)
LEMMA HighestIs ==
  ASSUME NEW b \in Nat, NEW S \in SUBSET (0..b), S # {}
  PROVE  Highest(S) \in S /\ \A n \in S : n <= Highest(S)
<1> DEFINE Above(n) == {s \in S : n < s}
           F == {Above(n) : n \in S}
<1>1. \A n \in S : n \in Int
  OBVIOUS
<1>2. F \subseteq FiniteSubsetsOf(S) /\ F # {}
  <2>1. IsFiniteSet(S)
    <3>1. IsFiniteSet(0..b) /\ S \subseteq 0..b
      BY FS_Interval
    <3> QED BY <3>1, FS_Subset, Zenon
  <2>2. FiniteSubsetsOf(S) = SUBSET S
    BY <2>1, FS_FiniteSubsetsOfFinite
  <2>3. \A n \in S : Above(n) \in SUBSET S
    OBVIOUS
  <2>4. F \subseteq SUBSET S
    BY <2>3, Zenon
  <2>5. F # {}
    BY S # {}
  <2> QED BY <2>2, <2>4, <2>5
<1>3. \E A \in F : \A B \in F : ~ (<<B, A>> \in StrictSubsetOrdering(S))
  <2> HIDE DEF F
  <2>1. IsWellFoundedOn(StrictSubsetOrdering(S), FiniteSubsetsOf(S))
    BY FS_StrictSubsetOrderingWellFounded
  <2> QED BY <1>2, <2>1, WFMin
<1>4. PICK m \in S : \A s \in S : <<Above(s), Above(m)>> \notin StrictSubsetOrdering(S)
  BY <1>3
<1>5. ASSUME NEW s \in S, m < s PROVE FALSE
  <2>1. \A n \in S : s < n => m < n
    BY <1>1, <1>5
  <2>2. Above(s) \subseteq Above(m) /\ s \in Above(m) /\ s \notin Above(s)
    <3>1. Above(s) \subseteq Above(m)
      BY <2>1
    <3>2. ~(s < s)
      BY <1>1
    <3> QED BY <1>5, <3>1, <3>2
  <2>3. Above(s) \in SUBSET S /\ Above(m) \in SUBSET S /\ Above(s) # Above(m)
    BY <2>2
  <2> QED BY <1>4, <2>2, <2>3 DEF StrictSubsetOrdering
<1>6. \A s \in S : s <= m
  BY <1>1, <1>5
<1> QED BY <1>6 DEF Highest

(* Division and multiples. *)
LEMMA DivIs ==
  ASSUME NEW n \in Int, NEW d \in Nat \ {0}, NEW q \in Int, q * d <= n, n < q * d + d
  PROVE  n \div d = q /\ n % d = n - q * d
OBVIOUS

(* Products are ordered, and add up, as their factors. *)
LEMMA TimesOrder ==
  ASSUME NEW a \in Int, NEW b \in Int, NEW d \in Nat \ {0}
  PROVE  /\ a * d < b * d <=> a < b
         /\ a * d <= b * d <=> a <= b
         /\ a * d \in Int
         /\ (a + b) * d = a * d + b * d
OBVIOUS

(* Pages follow one another. *)
LEMMA PageOrder ==
  ASSUME NEW p \in Int, NEW q \in Int
  PROVE  /\ p * PageSz < q * PageSz <=> p < q
         /\ p * PageSz <= q * PageSz <=> p <= q
         /\ p * PageSz \in Int
         /\ (p + q) * PageSz = p * PageSz + q * PageSz
<1>1. PageSz \in Nat \ {0}
  BY FlashAssumption
<1> QED BY <1>1, TimesOrder

(* The next page. *)
LEMMA NextPage ==
  ASSUME NEW p \in Int
  PROVE  (p + 1) * PageSz = p * PageSz + PageSz /\ (p + 1) * PageSz \in Int
<1>1. PageSz \in Nat \ {0} /\ 1 * PageSz = PageSz
  BY FlashAssumption
<1> QED BY <1>1, PageOrder

(* An address is so many bytes into its page. *)
LEMMA PageOffset ==
  ASSUME NEW n \in Nat
  PROVE  /\ n \div PageSz \in Nat /\ n % PageSz \in Nat /\ n % PageSz < PageSz
         /\ n = (n \div PageSz) * PageSz + (n % PageSz)
<1>1. PageSz \in Nat \ {0}
  BY FlashAssumption
<1> QED BY <1>1

(* The page of an address is the one it lies in. *)
LEMMA PageIs ==
  ASSUME NEW n \in Nat, NEW p \in Int, p * PageSz <= n, n < p * PageSz + PageSz
  PROVE  n \div PageSz = p /\ n % PageSz = n - p * PageSz
<1>1. PageSz \in Nat \ {0} /\ n \in Int
  BY FlashAssumption
<1> QED BY <1>1, DivIs

(* A page begins at the start of itself. *)
LEMMA PageStart ==
  ASSUME NEW p \in Nat
  PROVE  p * PageSz \in Nat /\ (p * PageSz) % PageSz = 0
<1>1. PageSz \in Nat \ {0}
  BY FlashAssumption
<1> DEFINE x == p * PageSz
<1>2. x \in Nat
  BY <1>1
<1>3. p * PageSz <= x /\ x < p * PageSz + PageSz /\ x - p * PageSz = 0
  <2>1. x <= x /\ x < x + PageSz /\ x - x = 0
    <3> HIDE DEF x
    <3> QED BY <1>1, <1>2
  <2> QED BY <2>1
<1> HIDE DEF x
<1>4. x % PageSz = x - p * PageSz
  BY <1>2, <1>3, PageIs
<1> QED BY <1>2, <1>3, <1>4 DEF x

(* An address of the bank lies in its page. *)
LEMMA AddrPage ==
  ASSUME NEW a \in Addr
  PROVE  /\ a \in Nat /\ PageOf(a) \in Nat /\ PageOf(a) * PageSz \in Int
         /\ PageOf(a) * PageSz <= a /\ a < PageOf(a) * PageSz + PageSz
         /\ a % PageSz \in Nat /\ a = PageOf(a) * PageSz + (a % PageSz)
<1>1. PageSz \in Nat \ {0} /\ (EthPage + 1) * PageSz \in Int
  BY FlashAssumption
<1>2. a \in Nat
  BY <1>1 DEF Addr
<1> DEFINE p == a \div PageSz
           q == p * PageSz
<1>3. p \in Nat /\ q \in Int /\ a % PageSz \in Nat /\ a % PageSz < PageSz /\ a = q + (a % PageSz)
  BY <1>2, PageOffset, PageOrder
<1> HIDE DEF p, q
<1>4. q <= a /\ a < q + PageSz
  BY <1>1, <1>2, <1>3
<1> QED BY <1>2, <1>3, <1>4 DEF p, q, PageOf

(* efc_get_length() never counts a byte of the last page, where the        *)
(* address settings are, and ends at a byte that is not blank.             *)
LEMMA LengthBound ==
  ASSUME NEW m
  PROVE  /\ GetLength(m) \in Nat /\ GetLength(m) < EthPage * PageSz
         /\ GetLength(m) # 0 => m[GetLength(m) - 1] # Blank
<1> DEFINE P == {0} \union {p \in 1..TopPage(m) : LooksUsed(m, p)}
           lp == LastPage(m)
           last == lp * PageSz + PageSz - 1
           K == {0} \union {k \in 1..(last - 1) : m[k - 1] # Blank}
<1>1. /\ PageSz \in Nat /\ PageSz >= 2 /\ GpioPage \in Nat \ {0}
      /\ EthPage \in Nat /\ EthPage > GpioPage
  BY FlashAssumption
<1>2. TopPage(m) \in Nat /\ TopPage(m) <= EthPage - 1
  BY <1>1 DEF TopPage
<1>3. lp \in Nat /\ lp <= EthPage - 1
  <2>1. P \in SUBSET (0..(EthPage - 1)) /\ P # {} /\ EthPage - 1 \in Nat
    BY <1>1, <1>2
  <2>2. lp = Highest(P)
    BY DEF LastPage
  <2> HIDE DEF P
  <2>3. lp \in P
    BY <2>1, <2>2, HighestIs
  <2>4. lp \in 0..(EthPage - 1)
    BY <2>1, <2>3, Zenon
  <2> HIDE DEF lp
  <2> QED BY <1>1, <2>4
<1>4. last \in Nat /\ last < EthPage * PageSz /\ last >= 1
  <2>1. lp * PageSz \in Int /\ lp * PageSz >= 0 * PageSz
    BY <1>3, PageOrder
  <2>2. (lp + 1) * PageSz = lp * PageSz + 1 * PageSz /\ (lp + 1) * PageSz <= EthPage * PageSz
    BY <1>1, <1>3, PageOrder
  <2>3. 0 * PageSz = 0 /\ 1 * PageSz = PageSz /\ EthPage * PageSz \in Int
    BY <1>1
  <2> DEFINE w == lp * PageSz
             e == EthPage * PageSz
             v == (lp + 1) * PageSz
  <2>4. /\ w \in Int /\ w >= 0 /\ e \in Int /\ v = w + PageSz /\ v <= e
        /\ last = w + PageSz - 1
    BY <2>1, <2>2, <2>3
  <2> HIDE DEF w, e, v, last
  <2>5. last \in Nat /\ last < e /\ last >= 1
    BY <1>1, <2>4
  <2> QED BY <2>5 DEF e
<1>5. GetLength(m) = Highest(K)
  BY DEF GetLength
<1> HIDE DEF last, lp
<1>6. K \in SUBSET (0..last) /\ K # {}
  BY <1>4
<1>7. Highest(K) \in K
  <2> HIDE DEF K
  <2> QED BY <1>4, <1>6, HighestIs
<1>8. EthPage * PageSz \in Int
  BY <1>1
<1> QED BY <1>4, <1>5, <1>6, <1>7, <1>8

(* efc1_write_data() leaves less than a page of bytes that wait. *)
LEMMA WriteType ==
  ASSUME NEW m \in [Addr -> Int], NEW l \in Seq(Int), NEW d \in Seq(Int),
         NEW offset \in Int, NEW e
  PROVE  /\ WriteData(m, l, d, offset, e).mem \in [Addr -> Int]
         /\ WriteData(m, l, d, offset, e).left \in Seq(Int)
         /\ Len(WriteData(m, l, d, offset, e).left) = (Len(l) + Len(d)) % PageSz
<1> DEFINE all == l \o d
           n == Len(all)
           full == n \div PageSz
           rest == SubSeq(all, full * PageSz + 1, n)
           page(j) == PageOf(IF j = 0 THEN offset ELSE offset + j * PageSz - Len(l))
           lastp == page(IF rest = <<>> /\ full > 0 THEN full - 1 ELSE full)
           fills(q) == {j \in 0..(full - 1) : page(j) = q}
           paged == [a \in Addr |->
                      IF fills(PageOf(a)) # {}
                        THEN all[Highest(fills(PageOf(a))) * PageSz + (a % PageSz) + 1]
                        ELSE m[a]]
           ended == WritePage(paged, rest, lastp)
           w == WriteData(m, l, d, offset, e)
<1>1. PageSz \in Nat \ {0} /\ all \in Seq(Int) /\ n \in Nat /\ n = Len(l) + Len(d)
  BY FlashAssumption
<1> DEFINE kept == [a \in Addr |->
                     IF PageOf(a) > lastp /\ lastp >= -1 /\ PageOf(a) < EthPage
                        /\ LooksUsed(paged, PageOf(a))
                       THEN Blank ELSE ended[a]]
<1>2. w.left = rest /\ w.mem = IF ~e THEN paged ELSE kept
  <2>1. w = [mem |-> IF ~e THEN paged ELSE kept, left |-> rest]
    BY Zenon DEF WriteData
  <2> HIDE DEF rest, paged, kept, w
  <2> QED BY <2>1
<1> HIDE DEF all, w
<1>a. \A i \in 1..n : all[i] \in Int
  BY <1>1
<1> HIDE DEF n
<1>3. /\ full \in Nat /\ n % PageSz \in Nat /\ n % PageSz < PageSz
      /\ n = full * PageSz + (n % PageSz)
  BY <1>1, PageOffset
<1> DEFINE fp == full * PageSz
<1>4. fp \in Nat
  BY <1>1, <1>3
<1>5. rest \in Seq(Int) /\ Len(rest) = n % PageSz
  <2>1. \A i \in (fp + 1)..n : all[i] \in Int
    <3>1. \A i \in (fp + 1)..n : i \in 1..n
      <4> HIDE DEF fp
      <4> QED BY <1>1, <1>4
    <3> QED BY <1>a, <3>1
  <2> HIDE DEF fp
  <2>2. rest \in Seq(Int) /\ Len(rest) = IF fp + 1 <= n THEN n - (fp + 1) + 1 ELSE 0
    BY <1>1, <1>4, <2>1, SubSeqProperties DEF fp
  <2>3. n = fp + (n % PageSz)
    BY <1>3 DEF fp
  <2> DEFINE r == n % PageSz
             k == Len(rest)
  <2>4. r \in Nat /\ n = fp + r /\ fp \in Nat /\ n \in Nat
        /\ k = IF fp + 1 <= n THEN n - (fp + 1) + 1 ELSE 0
    BY <1>1, <1>3, <1>4, <2>2, <2>3 DEF fp
  <2> HIDE DEF r, k, fp
  <2>5. k = r
    BY <2>4
  <2> QED BY <2>2, <2>5 DEF k, r
<1> HIDE DEF rest, lastp, page
<1>6. paged \in [Addr -> Int]
  <2> SUFFICES ASSUME NEW a \in Addr, fills(PageOf(a)) # {}
               PROVE  all[Highest(fills(PageOf(a))) * PageSz + (a % PageSz) + 1] \in Int
    OBVIOUS
  <2> DEFINE S == fills(PageOf(a))
             h == Highest(S)
             hp == h * PageSz
             o == a % PageSz
  <2>1. full - 1 \in Nat /\ S \in SUBSET (0..(full - 1)) /\ S # {}
    <3>1. full - 1 \in Nat
      BY <1>3
    <3> QED BY <3>1
  <2>2. h \in 0..(full - 1)
    <3> HIDE DEF S, full
    <3>1. h \in S
      BY <2>1, HighestIs
    <3> HIDE DEF h
    <3> QED BY <2>1, <3>1
  <2>3. o \in Nat /\ o < PageSz
    <3>1. a \in Nat
      BY AddrPage
    <3> QED BY <3>1, PageOffset
  <2> HIDE DEF S, h
  <2>4. hp \in Nat /\ hp + PageSz <= fp
    <3>1. h \in Int /\ h >= 0 /\ h + 1 \in Int /\ h + 1 <= full /\ full \in Int
      <4> HIDE DEF full
      <4> QED BY <1>3, <2>2
    <3>2. (h + 1) * PageSz = hp + PageSz /\ (h + 1) * PageSz <= fp
      <4> HIDE DEF full
      <4> QED BY <3>1, NextPage, PageOrder
    <3>3. hp \in Nat
      BY <1>1, <3>1
    <3> QED BY <3>2, <3>3
  <2>5. fp <= n
    <3> HIDE DEF full
    <3> QED BY <1>1, <1>3, <1>4
  <2> HIDE DEF hp, o, fp
  <2>6. hp + o + 1 \in 1..n
    BY <1>1, <1>4, <2>3, <2>4, <2>5 DEF fp
  <2> QED BY <1>a, <2>6 DEF hp, h, o, S
<1> HIDE DEF paged
<1>7. ended \in [Addr -> Int]
  <2>1. rest \in Seq(Int) /\ Len(rest) \in Nat /\ Blank \in Int
    BY <1>5 DEF Blank
  <2>2. \A a \in Addr : a % PageSz \in Nat
    BY AddrPage
  <2>3. \A i \in Nat : i < Len(rest) => rest[i + 1] \in Int
    BY <2>1
  <2> QED BY <1>6, <2>1, <2>2, <2>3 DEF WritePage
<1> HIDE DEF ended
<1>8. kept \in [Addr -> Int]
  <2> DEFINE later(a) == /\ PageOf(a) > lastp /\ lastp >= -1 /\ PageOf(a) < EthPage
                         /\ LooksUsed(paged, PageOf(a))
  <2>1. kept = [a \in Addr |-> IF later(a) THEN Blank ELSE ended[a]]
    OBVIOUS
  <2>2. Blank \in Int
    BY DEF Blank
  <2> HIDE DEF later, kept
  <2> QED BY <1>7, <2>1, <2>2
<1> HIDE DEF kept
<1>9. w.mem \in [Addr -> Int]
  BY <1>2, <1>6, <1>8
<1>10. n % PageSz = (Len(l) + Len(d)) % PageSz
  BY <1>1
<1>11. w.left = rest
  BY <1>2
<1>12. w.left \in Seq(Int) /\ Len(w.left) = (Len(l) + Len(d)) % PageSz
  BY <1>5, <1>10, <1>11
<1> QED BY <1>9, <1>12 DEF w

(* What efc1_write_data() does when the bytes left over are those of the   *)
(* page the offset is in, as they are while one client writes one file:    *)
(* pages are filled one after another from that one on.                    *)
WriteAligned(m, l, d, offset, e) ==
  LET all   == l \o d
      first == PageOf(offset)
      full  == Len(all) \div PageSz
      rest  == SubSeq(all, full * PageSz + 1, Len(all))
      last  == IF rest = <<>> /\ full > 0 THEN first + full - 1 ELSE first + full
      paged == [a \in Addr |->
                  IF PageOf(a) \in first..(first + full - 1)
                    THEN all[a - first * PageSz + 1] ELSE m[a]]
      ended == WritePage(paged, rest, last)
  IN [mem  |-> IF ~e THEN paged
               ELSE [a \in Addr |->
                       IF PageOf(a) > last /\ PageOf(a) < EthPage
                          /\ LooksUsed(paged, PageOf(a))
                         THEN Blank ELSE ended[a]],
      left |-> rest]

(* Sums whose parts cancel. *)
LEMMA SameRest ==
  ASSUME NEW x \in Int, NEW y \in Int, NEW o \in Int
  PROVE  x + o + y - o = x + y
OBVIOUS

LEMMA SameFirst ==
  ASSUME NEW x \in Int, NEW y \in Int, NEW o \in Int
  PROVE  y + o + 1 = x + y + o - x + 1
OBVIOUS

(* Then it is that. *)
LEMMA AlignedWrite ==
  ASSUME NEW m, NEW l \in Seq(Int), NEW d \in Seq(Int), NEW offset \in Nat, NEW e,
         Len(l) = offset % PageSz
  PROVE  WriteData(m, l, d, offset, e) = WriteAligned(m, l, d, offset, e)
<1> DEFINE all == l \o d
           n == Len(all)
           full == n \div PageSz
           rest == SubSeq(all, full * PageSz + 1, n)
           first == PageOf(offset)
           page(j) == PageOf(IF j = 0 THEN offset ELSE offset + j * PageSz - Len(l))
           lastp == page(IF rest = <<>> /\ full > 0 THEN full - 1 ELSE full)
           fills(q) == {j \in 0..(full - 1) : page(j) = q}
           paged == [a \in Addr |->
                      IF fills(PageOf(a)) # {}
                        THEN all[Highest(fills(PageOf(a))) * PageSz + (a % PageSz) + 1]
                        ELSE m[a]]
           ended == WritePage(paged, rest, lastp)
           lastq == IF rest = <<>> /\ full > 0 THEN first + full - 1 ELSE first + full
           pagedq == [a \in Addr |->
                       IF PageOf(a) \in first..(first + full - 1)
                         THEN all[a - first * PageSz + 1] ELSE m[a]]
           endedq == WritePage(pagedq, rest, lastq)
<1>1. PageSz \in Nat \ {0} /\ n \in Nat /\ Len(l) \in Nat
  <2>1. all \in Seq(Int)
    OBVIOUS
  <2> HIDE DEF all
  <2> QED BY <2>1, FlashAssumption
<1>2. first \in Nat
  BY PageOffset DEF PageOf
<1>o. first * PageSz \in Int /\ offset = first * PageSz + (offset % PageSz)
  BY <1>2, PageOffset, PageOrder DEF PageOf
<1>3. full \in Nat
  BY <1>1, PageOffset
<1>4. \A j \in Nat : page(j) = first + j
  <2> SUFFICES ASSUME NEW j \in Nat, j # 0 PROVE page(j) = first + j
    BY <1>2
  <2> HIDE DEF first
  <2> DEFINE h == first + j
             x == h * PageSz
             fp == first * PageSz
             jp == j * PageSz
  <2>1. h \in Nat /\ x = fp + jp /\ x \in Int /\ fp \in Int /\ jp \in Int /\ x >= 0
    <3>1. h \in Nat /\ x = fp + jp /\ x \in Int /\ fp \in Int /\ jp \in Int
      <4>1. h \in Nat /\ h \in Int /\ first \in Int /\ j \in Int
        BY <1>2
      <4>2. x = fp + jp /\ fp \in Int /\ jp \in Int
        BY <4>1, PageOrder
      <4> HIDE DEF h
      <4>3. x \in Int
        BY <4>1, PageOrder
      <4> QED BY <4>1, <4>2, <4>3
    <3>2. 0 * PageSz = 0 /\ 0 * PageSz <= h * PageSz
      <4> HIDE DEF h
      <4> QED BY <1>1, <3>1, PageOrder
    <3> QED BY <3>1, <3>2
  <2>2. offset + jp - Len(l) = x
    <3>1. offset = fp + Len(l) /\ Len(l) \in Int
      BY <1>1, <1>o
    <3> HIDE DEF fp, jp, x
    <3> QED BY <2>1, <3>1, SameRest
  <2>3. page(j) = x \div PageSz
    BY <2>2 DEF PageOf
  <2> HIDE DEF page, x
  <2>4. x \in Nat /\ h * PageSz <= x /\ x < h * PageSz + PageSz
    <3>1. x = h * PageSz
      BY DEF x
    <3> HIDE DEF h
    <3> QED BY <1>1, <2>1, <3>1
  <2> HIDE DEF h
  <2>5. x \div PageSz = h
    BY <2>1, <2>4, PageIs
  <2> QED BY <2>3, <2>5 DEF h
<1>5. lastp = lastq /\ lastq >= -1
  <2>1. CASE rest = <<>> /\ full > 0
    <3>1. full - 1 \in Nat /\ first + (full - 1) = first + full - 1 /\ first + full - 1 >= -1
      <4> HIDE DEF first, full
      <4> QED BY <1>2, <1>3, <2>1
    <3>2. lastp = page(full - 1) /\ lastq = first + full - 1
      BY <2>1
    <3> HIDE DEF page, lastp, lastq, first, full
    <3> QED BY <1>4, <3>1, <3>2
  <2>2. CASE ~(rest = <<>> /\ full > 0)
    <3>1. lastp = page(full) /\ lastq = first + full
      BY <2>2
    <3> HIDE DEF page, lastp, lastq, first, full
    <3> QED BY <1>2, <1>3, <1>4, <3>1
  <2> QED BY <2>1, <2>2
<1> HIDE DEF page, lastp, lastq, rest
<1>6. ASSUME NEW a \in Addr
      PROVE  (IF fills(PageOf(a)) # {}
               THEN all[Highest(fills(PageOf(a))) * PageSz + (a % PageSz) + 1] ELSE m[a])
              = (IF PageOf(a) \in first..(first + full - 1)
                   THEN all[a - first * PageSz + 1] ELSE m[a])
  <2> DEFINE q == PageOf(a)
             o == a % PageSz
             S == fills(q)
  <2>1. q \in Nat /\ o \in Nat /\ a \in Nat
    BY AddrPage
  <2>a. a = q * PageSz + o
    BY AddrPage
  <2> HIDE DEF q, o, first, full
  <2>2. CASE q \in first..(first + full - 1)
    <3> DEFINE h == q - first
    <3>1. h \in 0..(full - 1) /\ h \in Nat /\ first + h = q
      BY <1>2, <1>3, <2>1, <2>2
    <3>2. ASSUME NEW j \in 0..(full - 1) PROVE page(j) = q <=> j = h
      <4>1. j \in Nat /\ page(j) = first + j
        BY <1>3, <1>4
      <4>2. j \in Int /\ h \in Int /\ first \in Int /\ q = first + h
        BY <1>2, <3>1, <4>1
      <4> HIDE DEF h, page
      <4>3. page(j) = q <=> j = h
        BY <4>1, <4>2
      <4> QED BY <4>3
    <3>3. S = {h}
      BY <3>1, <3>2
    <3> HIDE DEF h, S
    <3>4. Highest(S) = h
      <4>1. {h} \in SUBSET (0..h) /\ {h} # {}
        BY <3>1
      <4>2. Highest({h}) \in {h}
        BY <3>1, <4>1, HighestIs
      <4> QED BY <3>3, <4>2
    <3>5. h * PageSz + o + 1 = a - first * PageSz + 1
      <4> DEFINE hp == h * PageSz
                 fp == first * PageSz
      <4>a. first \in Int /\ h \in Int
        BY <1>2, <3>1
      <4>1. (first + h) * PageSz = fp + hp /\ fp \in Int /\ hp \in Int
        BY <4>a, PageOrder, Zenon
      <4>2. a = fp + hp + o /\ o \in Int
        BY <2>1, <2>a, <3>1, <4>1
      <4> HIDE DEF hp, fp
      <4>3. hp + o + 1 = a - fp + 1
        BY <4>1, <4>2, SameFirst
      <4> QED BY <4>3 DEF hp, fp
    <3> QED BY <2>2, <3>3, <3>4, <3>5 DEF S, q, o
  <2>3. CASE q \notin first..(first + full - 1)
    <3>1. \A j \in 0..(full - 1) : page(j) # q
      BY <1>2, <1>3, <1>4, <2>1, <2>3
    <3>2. S = {}
      BY <3>1
    <3> QED BY <2>3, <3>2 DEF q
  <2> QED BY <2>2, <2>3
<1>7. paged = pagedq
  BY <1>6, Zenon
<1>8. WriteData(m, l, d, offset, e)
        = [mem |-> IF ~e THEN paged
                   ELSE [a \in Addr |->
                          IF PageOf(a) > lastp /\ lastp >= -1 /\ PageOf(a) < EthPage
                             /\ LooksUsed(paged, PageOf(a))
                            THEN Blank ELSE ended[a]],
           left |-> rest]
  BY Zenon DEF WriteData, rest, lastp, page
<1>9. WriteAligned(m, l, d, offset, e)
        = [mem |-> IF ~e THEN pagedq
                   ELSE [a \in Addr |->
                          IF PageOf(a) > lastq /\ PageOf(a) < EthPage
                             /\ LooksUsed(pagedq, PageOf(a))
                            THEN Blank ELSE endedq[a]],
           left |-> rest]
  BY Zenon DEF WriteAligned, rest, lastq
<1> HIDE DEF paged, pagedq
<1> QED BY <1>5, <1>7, <1>8, <1>9

(* So it is at the start of a page with nothing left over. *)
LEMMA FreshWrite ==
  ASSUME NEW m, NEW d \in Seq(Int), NEW offset \in Nat, offset % PageSz = 0, NEW e
  PROVE  WriteData(m, <<>>, d, offset, e) = WriteAligned(m, <<>>, d, offset, e)
<1>1. <<>> \in Seq(Int) /\ Len(<<>>) = offset % PageSz
  OBVIOUS
<1> QED BY <1>1, AlignedWrite

(***************************************************************************)
(* Types, on any network and with any clients.                             *)
(***************************************************************************)
AnyFile == Puts[TRUE] \union Puts[FALSE]
ClientRecs ==
  {c \in [pc : {"idle", "wrq", "put", "rrq", "get", "done", "failed"},
          file : AnyFile \union {NIL}, name : Names, blk : Nat, got : Seq(Int)] :
     /\ c.pc \in {"wrq", "put"} => c.file \in AnyFile
     /\ c.pc = "put" => c.blk # 0}
ToServer ==
  [op : {"WRQ"}, from : Clients, file : AnyFile]
  \union [op : {"RRQ"}, from : Clients, name : Names]
  \union [op : {"DATA"}, from : Clients, n : Nat, bytes : Seq(Int)]
  \union [op : {"ACK"}, from : Clients, n : Nat]
ToClient ==
  [op : {"DATA"}, from : Clients, n : Nat, bytes : Seq(Int)]
  \union [op : {"ACK"}, from : Clients, n : Nat] \union [op : {"ERROR"}, from : Clients]

(* TypeOK, with the packets and the clients. *)
Typed ==
  /\ TypeOK
  /\ toSrv \subseteq ToServer /\ toCl \subseteq ToClient
  /\ cl \in [Clients -> ClientRecs]
  /\ faulty \in BOOLEAN

(* The packet of a client in a given state. *)
Packet(k, c) ==
  CASE c.pc = "wrq" -> Wrq(k, c.file)
    [] c.pc = "rrq" -> Rrq(k, c.name)
    [] c.pc = "put" -> Data(k, c.blk, Block(Bytes(c.file), c.blk))
    [] c.pc = "get" -> Ack(k, c.blk)

(* The packet a client repeats is the one of its state. *)
LEMMA LastIsPacket ==
  ASSUME NEW k \in Clients
  PROVE  /\ Active(k) => LastSent(k) = Packet(k, cl[k])
         /\ (Active(k) => LastSent(k) = Packet(k, cl[k]))'
BY DEF Active, LastSent, Request, Packet

(* The files of the runs. *)
LEMMA FileType ==
  ASSUME NEW f \in AnyFile
  PROVE  /\ f.kind \in {"script", "image", "other", "badmode"}
         /\ f.tag \in Nat /\ f.len \in Nat \ {0}
         /\ Bytes(f) \in Seq(Nat) /\ Len(Bytes(f)) = f.len
<1>1. f.kind \in {"script", "image", "other", "badmode"} /\ f.tag \in Nat /\ f.len \in Nat \ {0}
  BY TftpAssumption DEF AnyFile
<1>2. \A i \in 1..f.len : 100 * f.tag + i \in Nat
  BY <1>1
<1> QED BY <1>1, <1>2 DEF Bytes

(* A block is made of bytes of the file, and no longer than SEG_SZ. *)
LEMMA BlockType ==
  ASSUME NEW b \in Seq(Int), NEW n \in Nat \ {0}
  PROVE  /\ Block(b, n) \in Seq(Int) /\ Len(Block(b, n)) \in 0..SegSz
         /\ Len(Block(b, n)) = (IF n * SegSz < Len(b) THEN SegSz
                               ELSE IF (n - 1) * SegSz < Len(b) THEN Len(b) - (n - 1) * SegSz
                               ELSE 0)
<1> DEFINE lo == (n - 1) * SegSz
           hi == n * SegSz
           to == IF hi < Len(b) THEN hi ELSE Len(b)
           B == SubSeq(b, lo + 1, to)
<1>1. SegSz \in Nat \ {0} /\ Len(b) \in Nat
  BY TftpAssumption
<1>2. lo \in Nat /\ hi \in Nat /\ hi = lo + SegSz
  <2>1. (n - 1) + 1 = n /\ n - 1 \in Nat /\ 1 * SegSz = SegSz
    BY <1>1
  <2>2. ((n - 1) + 1) * SegSz = (n - 1) * SegSz + 1 * SegSz
    BY <1>1, <2>1, TimesOrder
  <2>3. (n - 1) * SegSz \in Nat
    BY <1>1, <2>1
  <2> QED BY <1>1, <2>1, <2>2, <2>3
<1> HIDE DEF lo, hi
<1>3. to \in Nat /\ to <= Len(b) /\ to <= hi
  BY <1>1, <1>2
<1>4. \A i \in (lo + 1)..to : b[i] \in Int
  <2>1. \A i \in (lo + 1)..to : i \in 1..Len(b)
    BY <1>1, <1>2, <1>3
  <2> QED BY <2>1
<1>5. B \in Seq(Int) /\ Len(B) = IF lo + 1 <= to THEN to - (lo + 1) + 1 ELSE 0
  <2> HIDE DEF to
  <2> QED BY <1>2, <1>3, <1>4, SubSeqProperties
<1> HIDE DEF B
<1>6. Len(B) = (IF hi < Len(b) THEN SegSz ELSE IF lo < Len(b) THEN Len(b) - lo ELSE 0)
  BY <1>1, <1>2, <1>5
<1>7. Len(B) \in 0..SegSz
  BY <1>1, <1>2, <1>6
<1>8. Block(b, n) = B
  BY DEF Block, B, lo, hi
<1> QED BY <1>5, <1>6, <1>7, <1>8 DEF lo, hi

(* A packet of a client is one that may be under way. *)
LEMMA PacketType ==
  ASSUME NEW k \in Clients, NEW c \in ClientRecs, c.pc \in {"wrq", "put", "rrq", "get"}
  PROVE  Packet(k, c) \in ToServer
<1>1. CASE c.pc = "put"
  <2>1. c.file \in AnyFile /\ c.blk \in Nat \ {0}
    BY <1>1 DEF ClientRecs
  <2>2. Bytes(c.file) \in Seq(Int)
    BY <2>1, FileType
  <2>3. Block(Bytes(c.file), c.blk) \in Seq(Int)
    BY <2>1, <2>2, BlockType
  <2>4. Packet(k, c) = Data(k, c.blk, Block(Bytes(c.file), c.blk))
    BY <1>1 DEF Packet
  <2> QED BY <2>1, <2>3, <2>4 DEF Data, ToServer
<1>2. CASE c.pc = "wrq"
  BY <1>2 DEF Packet, ToServer, Wrq, ClientRecs
<1>3. CASE c.pc = "rrq"
  BY <1>3 DEF Packet, ToServer, Rrq, ClientRecs
<1>4. CASE c.pc = "get"
  BY <1>4 DEF Packet, ToServer, Ack, ClientRecs
<1> QED BY <1>1, <1>2, <1>3, <1>4

(* A function on 1..m is a sequence of length m. *)
LEMMA FunctionIsSeq ==
  ASSUME NEW S, NEW m \in Nat, NEW q \in [1..m -> S]
  PROVE  q \in Seq(S) /\ Len(q) = m
OBVIOUS

(* What is found in the bank, and what a request leaves of it. *)
LEMMA BankType ==
  ASSUME NEW m \in [Addr -> Int]
  PROVE  /\ GetLength(m) <= (EthPage + 1) * PageSz
         /\ \A i \in 1..GetLength(m) : i - 1 \in Addr
         /\ Stored(m) \in Seq(Int)
         /\ \A e \in BOOLEAN : Prepare(m, e) \in [Addr -> Int]
<1> DEFINE n == GetLength(m)
           e == EthPage * PageSz
           b == (EthPage + 1) * PageSz
<1>1. n \in Nat /\ n < e /\ e \in Int /\ b \in Int /\ e <= b
  <2>1. EthPage \in Int /\ EthPage + 1 \in Int /\ EthPage <= EthPage + 1
    BY FlashAssumption
  <2>2. e \in Int /\ b \in Int /\ e <= b
    BY <2>1, PageOrder
  <2>3. n \in Nat /\ n < e
    BY LengthBound
  <2> QED BY <2>2, <2>3
<1> HIDE DEF n, e, b
<1>2. \A i \in 1..n : i - 1 \in 0..(b - 1)
  BY <1>1
<1>3. \A i \in 1..n : i - 1 \in Addr
  BY <1>2 DEF Addr, BankSz, b
<1>4. \A i \in 1..n : m[i - 1] \in Int
  BY <1>3
<1>5. [i \in 1..n |-> m[i - 1]] \in Seq(Int)
  BY <1>1, <1>4
<1>6. Erased \in [Addr -> Int] /\ WithConfig(Erased) \in [Addr -> Int]
  <2>1. Erased \in [Addr -> Int]
    BY DEF Erased, Blank
  <2>2. \A i \in Nat : i < 1 => <<Config>>[i + 1] \in Int
    BY DEF Config
  <2>3. \A a \in Addr : a % PageSz \in Nat
    BY AddrPage
  <2>4. Len(<<Config>>) = 1
    OBVIOUS
  <2> QED BY <2>1, <2>2, <2>3, <2>4 DEF WithConfig, WritePage, Blank
<1> QED BY <1>1, <1>3, <1>5, <1>6 DEF n, b, Stored, Prepare

(* tftpd_data_out() sends at most SEG_SZ bytes, wherever they lie. *)
LEMMA SendBlockType ==
  ASSUME Typed, NEW k \in Clients, NEW from \in Int, NEW to \in Int, NEW n \in Nat,
         SendBlock(k, from, to, n)
  PROVE  toCl' \subseteq ToClient /\ start' \in Int /\ ackn' \in Nat
<1> DEFINE size == IF to - from \in 0..SegSz THEN to - from ELSE SegSz
           bytes == [i \in 1..size |-> MemoryAt(from + i - 1)]
<1>1. size \in Nat
  BY TftpAssumption
<1>2. \A a \in Int : MemoryAt(a) \in Int
  <2>1. Beyond \in Int /\ mem \in [Addr -> Int] /\ efc0 \in [Addr -> Int]
    BY DEF Beyond, Typed, TypeOK
  <2> QED BY <2>1 DEF MemoryAt
<1>3. /\ toCl' = toCl \union {Data(k, n, bytes)}
      /\ start' = from + size
      /\ ackn' = IF size # SegSz THEN 0 ELSE n + 1
  BY DEF SendBlock, Reply
<1> HIDE DEF size
<1>4. bytes \in Seq(Int)
  <2>1. \A i \in 1..size : from + i - 1 \in Int
    BY <1>1
  <2>2. bytes \in [1..size -> Int]
    BY <1>2, <2>1
  <2> QED BY <1>1, <2>2, FunctionIsSeq
<1> HIDE DEF bytes
<1> QED BY <1>1, <1>3, <1>4 DEF Typed, ToClient, Data

(* efc1_write_data() leaves less than a page in efc_databuf. *)
LEMMA StoreType ==
  ASSUME Typed, NEW b \in Seq(Int), StoreBlock(b)
  PROVE  mem' \in [Addr -> Int] /\ left' \in Seq(Int) /\ Len(left') < PageSz /\ start' \in Int
<1>1. /\ mem \in [Addr -> Int] /\ left \in Seq(Int) /\ Len(left) < PageSz /\ start \in Int
      /\ Len(b) \in Nat
  BY DEF Typed, TypeOK
<1>2. CASE b = <<>>
  BY <1>1, <1>2 DEF StoreBlock, efcVars
<1>3. CASE b # <<>>
  <2> DEFINE l == IF start = 0 THEN <<>> ELSE left
             ends == Len(b) # SegSz
             w == WriteData(mem, l, b, start, ends)
  <2>1. mem' = w.mem /\ left' = w.left /\ start' = start + Len(b)
    BY <1>3 DEF StoreBlock
  <2> HIDE DEF ends
  <2>2. l \in Seq(Int)
    <3>1. <<>> \in Seq(Int)
      OBVIOUS
    <3> QED BY <1>1, <3>1
  <2> HIDE DEF l
  <2>3. /\ w.mem \in [Addr -> Int] /\ w.left \in Seq(Int)
        /\ Len(w.left) = (Len(l) + Len(b)) % PageSz
    <3>1. mem \in [Addr -> Int] /\ start \in Int
      BY <1>1
    <3> QED BY <2>2, <3>1, WriteType
  <2> HIDE DEF w
  <2>5. Len(l) + Len(b) \in Nat
    BY <1>1, <2>2
  <2>6. Len(w.left) < PageSz
    BY <2>3, <2>5, PageOffset
  <2> QED BY <1>1, <2>1, <2>3, <2>6
<1> QED BY <1>2, <1>3

(* tftpd_appcall() keeps the types. *)
LEMMA ServerType ==
  ASSUME Typed, NEW p \in toSrv,
         HandleWrq(p) \/ HandleData(p) \/ HandleRrq(p) \/ HandleAck(p)
  PROVE  Typed'
<1> USE DEF Typed, TypeOK, mainVars, efcVars, srvVars
<1>1. /\ toSrv' \subseteq ToServer /\ faults' \in 0..MaxFaults /\ UNCHANGED <<mainVars, cl, faulty, starts>>
  BY TftpAssumption DEF HandleWrq, HandleData, HandleRrq, HandleAck, Take
<1>2. p \in ToServer /\ p.from \in Clients
  BY DEF ToServer
<1>3. BankSz \in Int
  BY FlashAssumption DEF BankSz
<1>4. CASE HandleWrq(p)
  <2>1. p.file \in AnyFile
    BY <1>2, <1>4 DEF HandleWrq, ToServer
  <2>2. CASE WrqRefused(p.from)
    <3>1. toCl' \subseteq ToClient
      BY <1>2, <2>2 DEF WrqRefused, Reply, Err, ToClient
    <3>2. crc' = <<>> /\ crc' \in Seq(Nat)
      BY <2>2 DEF WrqRefused
    <3> QED BY <1>1, <2>2, <3>1, <3>2 DEF WrqRefused
  <2>3. CASE WrqAccepted(p.from, p.file)
    <3>1. toCl' \subseteq ToClient
      BY <1>2, <2>3 DEF WrqAccepted, Reply, Ack, ToClient
    <3>2. crc' \in Seq(Nat)
      BY <2>1, <2>3, FileType DEF WrqAccepted
    <3>3. mem' \in [Addr -> Int]
      BY <2>3, BankType, TftpAssumption DEF WrqAccepted
    <3> QED BY <1>1, <1>3, <2>3, <3>1, <3>2, <3>3 DEF WrqAccepted
  <2> QED BY <1>4, <2>2, <2>3 DEF HandleWrq
<1>5. CASE HandleData(p)
  <2>1. CASE UNCHANGED <<srvVars, efcVars, toCl>>
    BY <1>1, <2>1
  <2>2. CASE ~UNCHANGED <<srvVars, efcVars, toCl>>
    <3>1. p.bytes \in Seq(Int) /\ p.op = "DATA"
      BY <1>2, <1>5 DEF HandleData, ToServer
    <3>2. /\ StoreBlock(p.bytes) /\ toCl' = toCl \union {Ack(p.from, ackn)}
          /\ ackn' = (IF Len(p.bytes) # SegSz THEN 0 ELSE ackn + 1)
          /\ UNCHANGED <<mode, end, crc>>
      BY <1>5, <2>2 DEF HandleData, Reply
    <3>3. toCl' \subseteq ToClient
      BY <1>2, <3>2 DEF Ack, ToClient
    <3>4. mem' \in [Addr -> Int] /\ left' \in Seq(Int) /\ Len(left') < PageSz /\ start' \in Int
      BY <3>1, <3>2, StoreType
    <3> QED BY <1>1, <3>2, <3>3, <3>4
  <2> QED BY <2>1, <2>2
<1>6. CASE HandleRrq(p)
  <2>1. crc' = <<>> /\ crc' \in Seq(Nat) /\ UNCHANGED <<mem, left>>
    BY <1>6 DEF HandleRrq
  <2>2. ASSUME NEW from \in Int, NEW len \in Int, RrqAccepted(p.from, from, len) PROVE Typed'
    <3>1. mode' = "rrq" /\ end' = from + len /\ SendBlock(p.from, from, from + len, 1)
      BY <2>2 DEF RrqAccepted
    <3>2. toCl' \subseteq ToClient /\ start' \in Int /\ ackn' \in Nat
      BY <1>2, <3>1, SendBlockType
    <3> QED BY <1>1, <2>1, <3>1, <3>2
  <2>3. ASSUME NEW n \in Nat, RrqRefused(p.from, n) PROVE Typed'
    <3>1. toCl' \subseteq ToClient
      BY <1>2, <2>3 DEF RrqRefused, Reply, Err, ToClient
    <3> QED BY <1>1, <2>1, <2>3, <3>1 DEF RrqRefused
  <2>4. GetLength(mem) \in Int /\ GetLength(efc0) \in Int /\ -BankSz \in Int
    <3>1. -BankSz \in Int
      BY FlashAssumption DEF BankSz
    <3> QED BY <3>1, LengthBound
  <2> QED BY <1>6, <2>2, <2>3, <2>4 DEF HandleRrq
<1>7. CASE HandleAck(p)
  <2>1. CASE UNCHANGED <<srvVars, toCl>>
    BY <1>1, <1>7, <2>1 DEF HandleAck
  <2>2. CASE SendBlock(p.from, start, end, ackn) /\ UNCHANGED <<mode, end, crc>>
    BY <1>1, <1>2, <1>7, <2>2, SendBlockType DEF HandleAck
  <2> QED BY <1>7, <2>1, <2>2 DEF HandleAck
<1> QED BY <1>4, <1>5, <1>6, <1>7

(* The states of clients are those TypeOK lists. *)
LEMMA PcType ==
  ASSUME NEW q \in [Clients -> ClientRecs], NEW k \in Clients
  PROVE  q[k].pc \in {"idle", "wrq", "put", "rrq", "get", "done", "failed"}
BY DEF ClientRecs

(* A client that begins, moves on or is through is still one. *)
LEMMA MovesType ==
  ASSUME Typed, NEW k \in Clients, NEW c \in ClientRecs, cl' = [cl EXCEPT ![k] = c]
  PROVE  /\ cl' \in [Clients -> ClientRecs] /\ cl'[k] = c
         /\ (Active(k) => LastSent(k) \in ToServer)'
<1>1. cl' \in [Clients -> ClientRecs] /\ cl'[k] = c
  BY DEF Typed
<1>2. Active(k)' => LastSent(k)' = Packet(k, c) /\ c.pc \in {"wrq", "put", "rrq", "get"}
  BY <1>1, LastIsPacket DEF Active
<1>3. Active(k)' => LastSent(k)' \in ToServer
  BY <1>2, PacketType
<1> QED BY <1>1, <1>3

(* So is what an answer makes of it. *)
LEMMA HearType ==
  ASSUME Typed, NEW k \in Clients, NEW p \in toCl, Hear(k, p)
  PROVE  Typed'
<1> USE DEF srvVars, efcVars, mainVars, boundVars
<1> DEFINE c == cl[k]
<1>1. /\ toCl' = toCl \ {p} /\ UNCHANGED <<srvVars, efcVars, mainVars, boundVars>> /\ p.from = k
  BY DEF Hear
<1>2. c \in ClientRecs /\ p \in ToClient /\ toSrv \subseteq ToServer
  BY DEF Typed
<1>3. cl' \in [Clients -> ClientRecs] /\ toSrv' \subseteq ToServer
  <2>1. CASE UNCHANGED <<cl, toSrv>>
    BY <1>2, <2>1 DEF Typed
  <2>2. ASSUME NEW pc \in {"done", "failed"}, Through(k, [c EXCEPT !.pc = pc])
        PROVE  cl' \in [Clients -> ClientRecs] /\ toSrv' \subseteq ToServer
    <3>1. [c EXCEPT !.pc = pc] \in ClientRecs
      BY <1>2, <2>2 DEF ClientRecs
    <3> QED BY <1>2, <2>2, <3>1, MovesType DEF Through
  <2>3. CASE PutAcked(k, p) /\ Advance(k, [c EXCEPT !.pc = "put", !.blk = @ + 1])
    <3>1. [c EXCEPT !.pc = "put", !.blk = @ + 1] \in ClientRecs
      <4>1. c.file \in AnyFile /\ c.blk \in Nat /\ c.blk + 1 # 0 /\ c.blk + 1 \in Nat
        BY <1>2, <2>3 DEF ClientRecs, PutAcked
      <4> QED BY <1>2, <4>1 DEF ClientRecs
    <3>2. toSrv' = (toSrv \ Older(k)) \union {LastSent(k)'} /\ Active(k)'
      BY <2>3, <3>1, MovesType DEF Advance, Active, ClientRecs
    <3> QED BY <1>2, <2>3, <3>1, <3>2, MovesType DEF Advance
  <2>4. CASE GotBlock(k, p) /\ ~UNCHANGED <<cl, toSrv>>
    <3> DEFINE next == [c EXCEPT !.pc = IF Len(p.bytes) < SegSz THEN "done" ELSE "get",
                                 !.blk = p.n, !.got = @ \o p.bytes]
    <3>1. cl' = [cl EXCEPT ![k] = next] /\ toSrv' = (toSrv \ Older(k)) \union {Ack(k, p.n)}
          /\ p.op = "DATA"
      BY <2>4 DEF GotBlock
    <3>2. p.n \in Nat /\ p.bytes \in Seq(Int)
      BY <1>2, <3>1 DEF ToClient
    <3>3. next \in ClientRecs
      <4>1. c.got \o p.bytes \in Seq(Int)
        BY <1>2, <3>2 DEF ClientRecs
      <4>2. (IF Len(p.bytes) < SegSz THEN "done" ELSE "get") \in {"done", "get"}
        OBVIOUS
      <4> QED BY <1>2, <3>2, <4>1, <4>2 DEF ClientRecs
    <3>4. toSrv' \subseteq ToServer
      BY <1>2, <3>1, <3>2 DEF Ack, ToServer
    <3> HIDE DEF next
    <3> QED BY <3>1, <3>3, <3>4, MovesType
  <2>5. CASE PutAcked(k, p)
    BY <2>1, <2>2, <2>3, <2>5 DEF PutAcked
  <2> QED BY <2>1, <2>2, <2>4, <2>5 DEF Hear
<1> QED BY <1>1, <1>3, PcType DEF Typed, TypeOK

(* A client that begins to write, or to read. *)
Writer(f) == [Idle EXCEPT !.pc = "wrq", !.file = f]
Reader(c, name) ==
  [Idle EXCEPT !.pc = "rrq", !.name = name, !.file = Expected(c, name)]

LEMMA PutRec ==
  ASSUME Typed, NEW f \in Puts[faulty]
  PROVE  /\ Writer(f) \in ClientRecs
         /\ Writer(f).pc = "wrq" /\ Writer(f).file = f
         /\ Writer(f).blk = 0 /\ Writer(f).got = <<>>
<1>1. f \in AnyFile
  <2>1. faulty = TRUE \/ faulty = FALSE
    BY DEF Typed
  <2> QED BY <2>1, Zenon DEF AnyFile
<1>2. <<>> \in Seq(Int)
  OBVIOUS
<1> QED BY <1>1, <1>2 DEF ClientRecs, Writer, Idle, Names

(* The state of a client that begins to read. *)
LEMMA GetRec ==
  ASSUME Typed, NEW k \in Clients, NEW name \in Gets
  PROVE  LET c == Reader(cl[k], name) IN
         /\ c \in ClientRecs
         /\ c.pc = "rrq" /\ c.name = name /\ c.file = Expected(cl[k], name)
         /\ c.blk = 0 /\ c.got = <<>>
<1> DEFINE f == Expected(cl[k], name)
<1>1. f \in AnyFile \union {NIL} /\ <<>> \in Seq(Int)
  BY DEF Typed, ClientRecs, Expected
<1>2. name \in Names
  BY TftpAssumption
<1>3. f = Expected(cl[k], name)
  OBVIOUS
<1> HIDE DEF f
<1>4. /\ Reader(cl[k], name).pc = "rrq" /\ Reader(cl[k], name).name = name
      /\ Reader(cl[k], name).file = f
      /\ Reader(cl[k], name).blk = 0 /\ Reader(cl[k], name).got = <<>>
  BY <1>3 DEF Reader, Idle
<1>5. Reader(cl[k], name) \in ClientRecs
  BY <1>1, <1>2, <1>3 DEF Reader, Idle, ClientRecs
<1> QED BY <1>3, <1>4, <1>5

(* Everything else a client does. *)
LEMMA ClientType ==
  ASSUME Typed, NEW k \in Clients, Client(k)
  PROVE  Typed'
<1> USE DEF srvVars, efcVars, mainVars, boundVars
<1>1. ASSUME NEW c \in ClientRecs, c.pc \in {"wrq", "rrq"}, Begin(k, c) PROVE Typed'
  <2>1. Active(k)' /\ LastSent(k)' \in ToServer /\ cl' \in [Clients -> ClientRecs]
    BY <1>1, MovesType DEF Begin, Active
  <2>2. starts' \in 0..MaxStarts
    BY <1>1, TftpAssumption DEF Begin, Typed, TypeOK
  <2> QED BY <1>1, <2>1, <2>2, PcType DEF Begin, Typed, TypeOK
<1>2. CASE BeginPut(k)
  <2>1. PICK f \in Puts[faulty] : Begin(k, Writer(f))
    BY <1>2 DEF BeginPut, Writer
  <2> QED BY <1>1, <2>1, PutRec
<1>3. CASE BeginGet(k)
  <2>1. PICK name \in Gets : Begin(k, Reader(cl[k], name))
    BY <1>3 DEF BeginGet, Reader
  <2> QED BY <1>1, <2>1, GetRec
<1>4. CASE Repeat(k)
  <2>1. Active(k) /\ LastSent(k) = Packet(k, cl[k]) /\ cl[k] \in ClientRecs
    BY <1>4, LastIsPacket DEF Repeat, Typed
  <2>2. LastSent(k) \in ToServer
    BY <2>1, PacketType DEF Active
  <2>3. faults' \in 0..MaxFaults
    BY <1>4, TftpAssumption DEF Repeat, Typed, TypeOK
  <2> QED BY <1>4, <2>2, <2>3 DEF Repeat, Typed, TypeOK
<1>5. CASE GiveUp(k)
  <2>1. [cl[k] EXCEPT !.pc = "failed"] \in ClientRecs
    BY DEF Typed, ClientRecs
  <2>2. cl' \in [Clients -> ClientRecs] /\ toSrv' \subseteq toSrv
    BY <1>5, <2>1, MovesType DEF GiveUp, Through
  <2> QED BY <1>5, <2>2, PcType DEF GiveUp, Typed, TypeOK
<1>6. CASE \E p \in toCl : Hear(k, p)
  BY <1>6, HearType
<1> QED BY <1>2, <1>3, <1>4, <1>5, <1>6 DEF Client

(* Every variable starts with its type. *)
LEMMA TypeInit == Init => Typed
<1> SUFFICES ASSUME Init PROVE Typed
  OBVIOUS
<1>1. Erased \in [Addr -> Int]
  BY DEF Erased, Blank
<1>2. mem \in [Addr -> Int]
  <2>1. \A i \in Nat : i < 1 => <<Config>>[i + 1] \in Int
    BY DEF Config
  <2>2. \A a \in Addr : a % PageSz \in Nat
    BY AddrPage
  <2>3. Len(<<Config>>) = 1
    OBVIOUS
  <2> QED BY <1>1, <2>1, <2>2, <2>3 DEF Init, WithConfig, WritePage, Blank
<1>3. /\ Len(left) = 0 /\ left \in Seq(Int) /\ crc \in Seq(Nat) /\ loaded \in Seq(Int)
      /\ mode = "none" /\ ackn = 0 /\ start = 0 /\ end = 0 /\ efc0 = Running /\ pend = {}
      /\ mainPc = "run" /\ toSrv = {} /\ toCl = {} /\ starts = 0
  BY DEF Init
<1>4. PageSz \in Nat \ {0} /\ Running \in [Addr -> Int]
  BY FlashAssumption DEF Running, Firmware, Blank
<1>5. faults \in 0..MaxFaults /\ faulty \in BOOLEAN /\ starts \in 0..MaxStarts
  <2>1. MaxFaults \in Nat /\ MaxStarts \in Nat /\ starts = 0
    BY TftpAssumption DEF Init
  <2>2. faulty \in BOOLEAN /\ (faults = 0 \/ faults = MaxFaults)
    BY DEF Init
  <2> QED BY <2>1, <2>2
<1>6. cl \in [Clients -> ClientRecs]
  <2>1. Idle \in ClientRecs
    <3>1. <<>> \in Seq(Int)
      OBVIOUS
    <3> QED BY <3>1 DEF Idle, ClientRecs, Names
  <2> QED BY <2>1 DEF Init
<1>7. \A k \in Clients : cl[k].pc \in {"idle", "wrq", "put", "rrq", "get", "done", "failed"}
  BY <1>6 DEF ClientRecs
<1> QED BY <1>1, <1>2, <1>3, <1>4, <1>5, <1>6, <1>7 DEF Typed, TypeOK

(* Every step keeps the types. *)
LEMMA TypeStep ==
  ASSUME Typed, [Next]_vars
  PROVE  Typed'
<1> USE DEF srvVars, efcVars, mainVars, boundVars
<1>1. CASE BatchEnd
  <2>1. crc' = <<>> /\ crc' \in Seq(Nat) /\ mode' = "none" /\ pend' \subseteq {"FWUPG", "PCLUPD"}
    BY <1>1 DEF BatchEnd, Completion, Typed, TypeOK
  <2> QED BY <1>1, <2>1 DEF BatchEnd, Typed, TypeOK
<1>2. CASE MainWakes
  <2>1. loaded' \in Seq(Int)
    BY <1>2, BankType DEF MainWakes, Typed, TypeOK
  <2> QED BY <1>2, <2>1 DEF MainWakes, Typed, TypeOK
<1>3. CASE MainCopies
  BY <1>3 DEF MainCopies, Typed, TypeOK
<1>4. CASE Lose
  BY <1>4, TftpAssumption DEF Lose, Typed, TypeOK
<1>5. CASE Over \/ UNCHANGED vars
  BY <1>5 DEF Over, vars, Typed, TypeOK
<1> QED BY <1>1, <1>2, <1>3, <1>4, <1>5, ServerType, ClientType DEF Next, Server, Main

(* On any network, with clients that repeat, overlap and reorder what they *)
(* send, every variable keeps its type, and what waits in efc_databuf is   *)
(* always less than a page (efc.c).                                        *)
THEOREM TypesHold == Spec => []TypeOK
<1>1. Typed /\ [Next]_vars => Typed'
  BY TypeStep
<1>2. Typed => TypeOK
  BY DEF Typed
<1> QED BY TypeInit, <1>1, <1>2, PTL DEF Spec

(***************************************************************************)
(* Clients that wait until the board is idle again, on a network that      *)
(* loses and repeats packets but does not let one overtake another.        *)
(***************************************************************************)
Patient == ~Reorders /\ ~Impatient

Putting == \E k \in Clients : cl[k].pc \in {"wrq", "put"}
Reading == (\E p \in toSrv : p.op = "ACK") \/ (\E p \in toCl : p.op = "DATA")

(* A packet under way is the last one its client sent, but for the         *)
(* acknowledgement of the last block read.                                 *)
Own(p) == \/ Active(p.from) /\ p = Packet(p.from, cl[p.from])
          \/ p.op = "ACK" /\ cl[p.from].pc = "done"

(* One transfer at a time, and nothing of an earlier one under way. *)
TransferInv ==
  /\ \A j, k \in Clients : Active(j) /\ Active(k) => j = k
  /\ \A p \in toSrv : Own(p)
  /\ Reading => ~Putting
  /\ \A k \in Clients : cl[k].pc \in {"wrq", "put"} => cl[k].file \in Puts[faulty]

(* Who sent a packet, and what it is. *)
LEMMA PacketOf ==
  ASSUME NEW k \in Clients, NEW c \in ClientRecs, c.pc \in {"wrq", "put", "rrq", "get"}
  PROVE  /\ Packet(k, c).from = k
         /\ Packet(k, c).op = "WRQ" <=> c.pc = "wrq"
         /\ Packet(k, c).op = "RRQ" <=> c.pc = "rrq"
         /\ Packet(k, c).op = "DATA" <=> c.pc = "put"
         /\ Packet(k, c).op = "ACK" <=> c.pc = "get"
         /\ c.pc = "wrq" => Packet(k, c).file = c.file
         /\ c.pc = "rrq" => Packet(k, c).name = c.name
<1>1. CASE c.pc = "wrq"
  BY <1>1 DEF Packet, Wrq
<1>2. CASE c.pc = "put"
  BY <1>2 DEF Packet, Data
<1>3. CASE c.pc = "rrq"
  BY <1>3 DEF Packet, Rrq
<1>4. CASE c.pc = "get"
  BY <1>4 DEF Packet, Ack
<1> QED BY <1>1, <1>2, <1>3, <1>4

(* At the start nothing is under way. *)
LEMMA TransferInit == Init => TransferInv
BY DEF Init, TransferInv, Reading, Putting, Active, Idle

(* The server takes a packet or leaves it, and answers who sent it. *)
LEMMA TransferServer ==
  ASSUME Typed, TransferInv, NEW p \in toSrv,
         HandleWrq(p) \/ HandleData(p) \/ HandleRrq(p) \/ HandleAck(p)
  PROVE  TransferInv'
<1> USE DEF srvVars, efcVars, mainVars
<1>1. /\ toSrv' \subseteq toSrv /\ UNCHANGED <<cl, faulty>>
  BY DEF HandleWrq, HandleData, HandleRrq, HandleAck, Take
<1>2. p \in ToServer /\ p.from \in Clients /\ cl[p.from] \in ClientRecs
  BY DEF Typed, ToServer
<1>3. /\ \A j, k \in Clients : (Active(j) /\ Active(k))' => j = k
      /\ \A q \in toSrv' : Own(q)'
      /\ Putting' = Putting
      /\ \A k \in Clients : cl'[k].pc \in {"wrq", "put"} => cl'[k].file \in Puts[faulty']
  BY <1>1 DEF TransferInv, Active, Own, Putting
<1>4. CASE \A q \in toCl' : q \in toCl \/ q.op # "DATA"
  BY <1>1, <1>3, <1>4 DEF TransferInv, Reading
<1>5. CASE HandleWrq(p)
  BY <1>4, <1>5 DEF HandleWrq, WrqRefused, WrqAccepted, Reply, Err, Ack
<1>6. CASE HandleData(p)
  BY <1>4, <1>6 DEF HandleData, Reply, Ack
<1>7. CASE HandleRrq(p)
  <2>1. Own(p) /\ p.op = "RRQ"
    BY <1>7 DEF HandleRrq, TransferInv
  <2>2. Active(p.from) /\ cl[p.from].pc = "rrq"
    BY <1>2, <2>1, PacketOf DEF Own, Active
  <2>3. ~Putting
    <3>1. ASSUME NEW k \in Clients, cl[k].pc \in {"wrq", "put"} PROVE FALSE
      <4>1. Active(k) /\ k # p.from
        BY <2>2, <3>1 DEF Active
      <4> QED BY <1>2, <2>2, <4>1 DEF TransferInv
    <3> QED BY <3>1 DEF Putting
  <2> QED BY <1>3, <2>3 DEF TransferInv
<1>8. CASE HandleAck(p)
  <2>1. Reading
    BY <1>8 DEF HandleAck, Reading
  <2> QED BY <1>3, <2>1 DEF TransferInv
<1> QED BY <1>5, <1>6, <1>7, <1>8

(* A step of a client that was alone, and sent c's packet or nothing. *)
LEMMA TransferMoves ==
  ASSUME Typed, TransferInv, NEW k \in Clients, NEW c \in ClientRecs,
         \A j \in Clients : Active(j) => j = k,
         cl' = [cl EXCEPT ![k] = c], faulty' = faulty,
         c.pc \in {"wrq", "put"} => c.file \in Puts[faulty],
         \A p \in toSrv' : \/ p \in toSrv /\ p.from # k
                           \/ c.pc \in {"wrq", "put", "rrq", "get"} /\ p = Packet(k, c)
                           \/ p.op = "ACK" /\ p.from = k /\ c.pc = "done",
         \A p \in toCl' : p \in toCl,
         c.pc \in {"wrq", "put"} => ~Reading \/ Putting
  PROVE  TransferInv'
<1>1. cl'[k] = c /\ \A j \in Clients : j # k => cl'[j] = cl[j] /\ ~Active(j)
  BY DEF Typed
<1>2. \A j \in Clients : j # k => ~Active(j)'
  BY <1>1 DEF Active
<1>3. \A i, j \in Clients : (Active(i) /\ Active(j))' => i = j
  BY <1>2
<1>4. ASSUME NEW p \in toSrv' PROVE Own(p)'
  <2>1. CASE p \in toSrv /\ p.from # k
    <3>1. Own(p) /\ p.from \in Clients
      BY <2>1 DEF TransferInv, Typed, ToServer
    <3> QED BY <1>1, <2>1, <3>1 DEF Own
  <2>2. CASE c.pc \in {"wrq", "put", "rrq", "get"} /\ p = Packet(k, c)
    BY <1>1, <2>2, PacketOf DEF Own, Active
  <2>3. CASE p.op = "ACK" /\ p.from = k /\ c.pc = "done"
    BY <1>1, <2>3 DEF Own
  <2> QED BY <2>1, <2>2, <2>3
<1>5. \A j \in Clients : cl'[j].pc \in {"wrq", "put"} => j = k
  BY <1>1 DEF Active
<1>6. Reading' => ~Putting'
  <2> SUFFICES ASSUME Reading', Putting' PROVE FALSE
    OBVIOUS
  <2>1. c.pc \in {"wrq", "put"}
    BY <1>1, <1>5 DEF Putting
  <2>2. ~Reading
    BY <2>1 DEF TransferInv
  <2>3. \A p \in toSrv' : p.op # "ACK"
    BY <2>1, <2>2, PacketOf DEF Reading
  <2> QED BY <2>2, <2>3 DEF Reading
<1>7. \A j \in Clients : cl'[j].pc \in {"wrq", "put"} => cl'[j].file \in Puts[faulty']
  BY <1>1, <1>5
<1> QED BY <1>3, <1>4, <1>6, <1>7 DEF TransferInv

(* What a client hears. *)
LEMMA TransferHears ==
  ASSUME Patient, Typed, TransferInv, NEW k \in Clients, NEW p \in toCl, Hear(k, p)
  PROVE  TransferInv'
<1> USE DEF srvVars, efcVars, mainVars, boundVars
<1> DEFINE c == cl[k]
<1>1. /\ toCl' = toCl \ {p} /\ faulty' = faulty /\ p \in ToClient /\ c \in ClientRecs
      /\ \A q \in toCl' : q \in toCl
  BY DEF Hear, Typed
<1>2. Older(k) = {q \in toSrv : q.from = k}
  BY DEF Older, Patient
<1>3. CASE UNCHANGED <<cl, toSrv>>
  <2>1. \A q \in toSrv' : Own(q)'
    BY <1>3 DEF TransferInv, Own, Active
  <2>2. Reading' => Reading
    BY <1>1, <1>3 DEF Reading
  <2> QED BY <1>1, <1>3, <2>1, <2>2 DEF TransferInv, Active, Putting
<1>4. Active(k) => \A j \in Clients : Active(j) => j = k
  BY DEF TransferInv
<1>5. ASSUME NEW pc \in {"done", "failed"}, Active(k), Through(k, [c EXCEPT !.pc = pc])
      PROVE  TransferInv'
  <2> DEFINE n == [c EXCEPT !.pc = pc]
  <2>1. n \in ClientRecs /\ n.pc = pc
    BY <1>1 DEF ClientRecs
  <2>2. cl' = [cl EXCEPT ![k] = n] /\ \A q \in toSrv' : q \in toSrv /\ q.from # k
    BY <1>5 DEF Through
  <2> HIDE DEF n
  <2>3. n.pc \notin {"wrq", "put"}
    BY <2>1
  <2> QED BY <1>1, <1>4, <1>5, <2>1, <2>2, <2>3, TransferMoves
<1>6. CASE PutAcked(k, p) /\ Advance(k, [c EXCEPT !.pc = "put", !.blk = @ + 1])
  <2> DEFINE n == [c EXCEPT !.pc = "put", !.blk = @ + 1]
  <2>1. c.pc \in {"wrq", "put"} /\ Active(k) /\ Putting
    BY <1>6 DEF PutAcked, Active, Putting
  <2>2. n \in ClientRecs /\ n.pc = "put" /\ n.file = c.file
    <3>1. c.file \in AnyFile /\ c.blk \in Nat /\ c.blk + 1 # 0 /\ c.blk + 1 \in Nat
      BY <1>1, <2>1 DEF ClientRecs
    <3> QED BY <1>1, <3>1 DEF ClientRecs
  <2>3. cl' = [cl EXCEPT ![k] = n] /\ toSrv' = (toSrv \ Older(k)) \union {LastSent(k)'}
    BY <1>6 DEF Advance
  <2> HIDE DEF n
  <2>4. cl'[k] = n
    BY <2>3 DEF Typed
  <2>5. LastSent(k)' = Packet(k, n)
    BY <2>2, <2>4, LastIsPacket DEF Active
  <2>6. \A q \in toSrv' : (q \in toSrv /\ q.from # k) \/ q = Packet(k, n)
    BY <1>2, <2>3, <2>5
  <2>7. n.file \in Puts[faulty]
    BY <2>1, <2>2 DEF TransferInv
  <2> QED BY <1>1, <1>4, <2>1, <2>2, <2>3, <2>6, <2>7, TransferMoves
<1>7. CASE GotBlock(k, p) /\ ~UNCHANGED <<cl, toSrv>>
  <2> DEFINE n == [c EXCEPT !.pc = IF Len(p.bytes) < SegSz THEN "done" ELSE "get",
                            !.blk = p.n, !.got = @ \o p.bytes]
  <2>1. /\ cl' = [cl EXCEPT ![k] = n] /\ toSrv' = (toSrv \ Older(k)) \union {Ack(k, p.n)}
        /\ p.op = "DATA" /\ Active(k)
    BY <1>7 DEF GotBlock, Active
  <2>2. n \in ClientRecs /\ n.pc \in {"done", "get"} /\ n.blk = p.n
    <3>1. p.n \in Nat /\ p.bytes \in Seq(Int)
      BY <1>1, <2>1 DEF ToClient
    <3>2. c.got \o p.bytes \in Seq(Int)
      BY <1>1, <3>1 DEF ClientRecs
    <3>3. (IF Len(p.bytes) < SegSz THEN "done" ELSE "get") \in {"done", "get"}
      OBVIOUS
    <3> QED BY <1>1, <3>1, <3>2, <3>3 DEF ClientRecs
  <2> HIDE DEF n
  <2>3. n.pc = "get" => Ack(k, p.n) = Packet(k, n)
    BY <2>2 DEF Packet
  <2>4. Ack(k, p.n).op = "ACK" /\ Ack(k, p.n).from = k
    BY DEF Ack
  <2>5. \A q \in toSrv' : (q \in toSrv /\ q.from # k) \/ q = Ack(k, p.n)
    BY <1>2, <2>1
  <2>6. n.pc \notin {"wrq", "put"}
    BY <2>2
  <2>7. \A q \in toSrv' : \/ q \in toSrv /\ q.from # k
                          \/ n.pc \in {"wrq", "put", "rrq", "get"} /\ q = Packet(k, n)
                          \/ q.op = "ACK" /\ q.from = k /\ n.pc = "done"
    BY <2>2, <2>3, <2>4, <2>5
  <2> QED BY <1>1, <1>4, <2>1, <2>2, <2>6, <2>7, TransferMoves
<1>8. CASE PutAcked(k, p)
  BY <1>3, <1>5, <1>6, <1>8 DEF PutAcked, Active
<1> QED BY <1>3, <1>5, <1>7, <1>8 DEF Hear

(* A client begins when the board is idle and nothing is under way. *)
LEMMA TransferBegins ==
  ASSUME Patient, Typed, TransferInv, NEW k \in Clients, NEW c \in ClientRecs, Begin(k, c),
         c.pc = "rrq" \/ (c.pc = "wrq" /\ c.file \in Puts[faulty])
  PROVE  TransferInv' /\ toSrv' = {Packet(k, c)} /\ toCl' = {} /\ Settled
<1>1. Settled /\ cl' = [cl EXCEPT ![k] = c] /\ faulty' = faulty
  BY DEF Begin, Patient
<1>2. toSrv = {} /\ toCl = {} /\ \A j \in Clients : ~Active(j)
  BY <1>1 DEF Settled
<1>3. cl'[k] = c
  BY <1>1 DEF Typed
<1>4. LastSent(k)' = Packet(k, c)
  BY <1>3, LastIsPacket DEF Active
<1>5. toSrv' = {Packet(k, c)} /\ toCl' = {}
  BY <1>2, <1>4 DEF Begin
<1>6. ~Reading
  BY <1>2 DEF Reading
<1>7. c.pc = "wrq" => c.file \in Puts[faulty]
  OBVIOUS
<1>8. c.pc \in {"wrq", "put"} => c.file \in Puts[faulty]
  BY <1>7
<1>9. TransferInv'
  BY <1>1, <1>2, <1>5, <1>6, <1>8, TransferMoves
<1> QED BY <1>1, <1>5, <1>9

(* Every step keeps the transfers apart. *)
LEMMA TransferStep ==
  ASSUME Patient, Typed, TransferInv, [Next]_vars
  PROVE  TransferInv'
<1> USE DEF srvVars, efcVars, mainVars, boundVars
<1>1. ASSUME /\ UNCHANGED <<cl, faulty>>
             /\ \A p \in toSrv' : p \in toSrv \/ \E k \in Clients : Active(k) /\ p = LastSent(k)
             /\ toCl' \subseteq toCl
      PROVE  TransferInv'
  <2>1. \A p \in toSrv' : p \in toSrv
                          \/ \E k \in Clients : Active(k) /\ p = Packet(k, cl[k])
    BY <1>1, LastIsPacket
  <2>2. \A k \in Clients : Active(k) => Packet(k, cl[k]).from = k
                              /\ (Packet(k, cl[k]).op = "ACK" => cl[k].pc = "get")
    <3> SUFFICES ASSUME NEW k \in Clients, Active(k)
                 PROVE  /\ Packet(k, cl[k]).from = k
                        /\ Packet(k, cl[k]).op = "ACK" => cl[k].pc = "get"
      OBVIOUS
    <3>1. cl[k] \in ClientRecs
      BY DEF Typed
    <3> QED BY <3>1, PacketOf DEF Active
  <2>3. \A p \in toSrv' : Own(p)
    BY <2>1, <2>2 DEF TransferInv, Own
  <2>4. Reading' => Reading \/ \E k \in Clients : cl[k].pc = "get"
    BY <1>1, <2>1, <2>2 DEF Reading
  <2>5. (\E k \in Clients : cl[k].pc = "get") => ~Putting
    <3> SUFFICES ASSUME NEW k \in Clients, cl[k].pc = "get", Putting PROVE FALSE
      OBVIOUS
    <3>1. PICK j \in Clients : cl[j].pc \in {"wrq", "put"}
      BY DEF Putting
    <3> QED BY <3>1 DEF TransferInv, Active
  <2>6. Putting' = Putting
    BY <1>1 DEF Putting
  <2>7. Reading' => ~Putting'
    BY <2>4, <2>5, <2>6 DEF TransferInv
  <2> QED BY <1>1, <2>3, <2>7 DEF TransferInv, Own, Active
<1>2. CASE BatchEnd \/ Main \/ Lose \/ Over \/ UNCHANGED vars
  <2>1. UNCHANGED <<cl, faulty>> /\ toSrv' \subseteq toSrv /\ toCl' \subseteq toCl
    BY <1>2 DEF BatchEnd, Main, MainWakes, MainCopies, Lose, Over, vars
  <2> QED BY <1>1, <2>1
<1>3. CASE \E p \in toSrv : HandleWrq(p) \/ HandleData(p) \/ HandleRrq(p) \/ HandleAck(p)
  BY <1>3, TransferServer
<1>4. ASSUME NEW k \in Clients, Client(k) PROVE TransferInv'
  <2>1. CASE BeginPut(k)
    <3>1. PICK f \in Puts[faulty] : Begin(k, Writer(f))
      BY <2>1 DEF BeginPut, Writer
    <3> QED BY <3>1, PutRec, TransferBegins
  <2>2. CASE BeginGet(k)
    <3>1. PICK name \in Gets : Begin(k, Reader(cl[k], name))
      BY <2>2 DEF BeginGet, Reader
    <3> QED BY <3>1, GetRec, TransferBegins
  <2>3. CASE Repeat(k)
    BY <1>1, <2>3 DEF Repeat
  <2>4. CASE GiveUp(k)
    <3> DEFINE n == [cl[k] EXCEPT !.pc = "failed"]
    <3>1. n \in ClientRecs /\ n.pc = "failed"
      BY DEF Typed, ClientRecs
    <3>2. /\ cl' = [cl EXCEPT ![k] = n] /\ (\A p \in toSrv' : p \in toSrv /\ p.from # k)
          /\ faulty' = faulty /\ (\A p \in toCl' : p \in toCl) /\ Active(k)
      BY <2>4 DEF GiveUp, Through
    <3> HIDE DEF n
    <3>3. n.pc \notin {"wrq", "put"} /\ \A j \in Clients : Active(j) => j = k
      BY <3>1, <3>2 DEF TransferInv
    <3> QED BY <3>1, <3>2, <3>3, TransferMoves
  <2>5. CASE \E p \in toCl : Hear(k, p)
    BY <2>5, TransferHears
  <2> QED BY <1>4, <2>1, <2>2, <2>3, <2>4, <2>5 DEF Client
<1> QED BY <1>2, <1>3, <1>4 DEF Next, Server

(***************************************************************************)
(* A firmware image.                                                       *)
(***************************************************************************)
(* No request is under way, and none can be made but by a new transfer. *)
Quiet ==
  /\ \A k \in Clients : cl[k].pc \notin {"wrq", "rrq", "get"}
  /\ \A p \in toSrv : p.op = "DATA"

(* While an image is expected nothing is read, and once its last block has *)
(* come no request can interfere before the CRC is looked at.              *)
CrcInv ==
  crc # <<>> =>
    /\ crc \in Contents /\ mode # "none"
    /\ ~Reading /\ \A k \in Clients : cl[k].pc # "get"
    /\ ackn = 0 => Quiet

(* From then on the bank is left alone until it is copied. *)
Chosen == "FWUPG" \in pend \/ mainPc = "grace"
ChosenInv == Chosen => mode = "none" /\ Quiet /\ Stored(mem) \in Contents

ImageInv == CrcInv /\ ChosenInv /\ InstalledImageIsWhole

(* Nobody asks for anything unless a transfer begins. *)
LEMMA QuietStep ==
  ASSUME Patient, Typed, TransferInv, Quiet, ~Settled, [Next]_vars
  PROVE  Quiet'
<1> USE DEF srvVars, efcVars, mainVars, boundVars
<1>1. CASE UNCHANGED cl /\ toSrv' \subseteq toSrv
  BY <1>1 DEF Quiet
<1>2. CASE Server \/ Main \/ Lose \/ Over \/ UNCHANGED vars
  <2>1. UNCHANGED cl /\ toSrv' \subseteq toSrv
    BY <1>2 DEF Server, HandleWrq, HandleData, HandleRrq, HandleAck, Take,
                BatchEnd, Main, MainWakes, MainCopies, Lose, Over, vars
  <2> QED BY <1>1, <2>1
<1>3. ASSUME NEW k \in Clients, Client(k) PROVE Quiet'
  <2>1. cl[k] \in ClientRecs
    BY DEF Typed
  <2>2. CASE BeginPut(k) \/ BeginGet(k)
    BY <2>2 DEF BeginPut, BeginGet, Begin, Patient
  <2>3. CASE Repeat(k)
    <3>1. cl[k].pc = "put" /\ LastSent(k) = Packet(k, cl[k])
      BY <2>3, LastIsPacket DEF Repeat, Active, Quiet
    <3>2. LastSent(k).op = "DATA"
      BY <2>1, <3>1, PacketOf
    <3> QED BY <2>3, <3>2 DEF Repeat, Quiet
  <2>4. ASSUME NEW c \in ClientRecs, cl' = [cl EXCEPT ![k] = c],
               c.pc \in {"put", "done", "failed"},
               \A q \in toSrv' : q \in toSrv \/ (c.pc = "put" /\ q = LastSent(k)')
        PROVE  Quiet'
    <3>1. cl'[k] = c /\ \A j \in Clients : j # k => cl'[j] = cl[j]
      BY <2>4 DEF Typed
    <3>2. c.pc = "put" => LastSent(k)' = Packet(k, c)
      BY <3>1, LastIsPacket DEF Active
    <3>3. c.pc = "put" => LastSent(k)'.op = "DATA"
      BY <2>4, <3>2, PacketOf
    <3>4. \A q \in toSrv' : q.op = "DATA"
      BY <2>4, <3>3 DEF Quiet
    <3> QED BY <2>4, <3>1, <3>4 DEF Quiet
  <2>5. ASSUME NEW pc \in {"done", "failed"}, Through(k, [cl[k] EXCEPT !.pc = pc]) PROVE Quiet'
    <3> DEFINE n == [cl[k] EXCEPT !.pc = pc]
    <3>1. n \in ClientRecs /\ n.pc = pc
      BY <2>1 DEF ClientRecs
    <3>2. cl' = [cl EXCEPT ![k] = n] /\ \A q \in toSrv' : q \in toSrv
      BY <2>5 DEF Through
    <3> HIDE DEF n
    <3> QED BY <2>4, <3>1, <3>2
  <2>6. CASE GiveUp(k)
    BY <2>5, <2>6 DEF GiveUp
  <2>7. CASE \E p \in toCl : Hear(k, p)
    <3>1. PICK p \in toCl : Hear(k, p)
      BY <2>7
    <3>2. ~GotBlock(k, p)
      BY DEF GotBlock, Quiet
    <3>3. CASE PutAcked(k, p) /\ Advance(k, [cl[k] EXCEPT !.pc = "put", !.blk = @ + 1])
      <4> DEFINE n == [cl[k] EXCEPT !.pc = "put", !.blk = @ + 1]
      <4>1. n \in ClientRecs /\ n.pc = "put"
        <5>1. cl[k].pc \in {"wrq", "put"}
          BY <3>3 DEF PutAcked
        <5>2. cl[k].file \in AnyFile /\ cl[k].blk \in Nat /\ cl[k].blk + 1 # 0
              /\ cl[k].blk + 1 \in Nat
          BY <2>1, <5>1 DEF ClientRecs
        <5> QED BY <2>1, <5>2 DEF ClientRecs
      <4>2. cl' = [cl EXCEPT ![k] = n] /\ \A q \in toSrv' : q \in toSrv \/ q = LastSent(k)'
        BY <3>3 DEF Advance
      <4> HIDE DEF n
      <4> QED BY <2>4, <4>1, <4>2
    <3>4. CASE PutAcked(k, p)
      BY <1>1, <2>5, <3>3, <3>4 DEF PutAcked
    <3> QED BY <1>1, <2>5, <3>1, <3>2, <3>4 DEF Hear
  <2> QED BY <1>3, <2>2, <2>3, <2>6, <2>7 DEF Client
<1> QED BY <1>2, <1>3 DEF Next

(* A request comes from a client that waits for its answer. *)
LEMMA SenderOf ==
  ASSUME Typed, TransferInv, NEW p \in toSrv
  PROVE  /\ p.from \in Clients /\ cl[p.from] \in ClientRecs
         /\ p.op = "WRQ" => cl[p.from].pc = "wrq" /\ p.file = cl[p.from].file
         /\ p.op = "RRQ" => cl[p.from].pc = "rrq" /\ p.name = cl[p.from].name
         /\ p.op = "DATA" => cl[p.from].pc = "put"
         /\ p.op # "ACK" => Active(p.from) /\ p = Packet(p.from, cl[p.from])
<1>1. p.from \in Clients /\ cl[p.from] \in ClientRecs
  BY DEF Typed, ToServer
<1>2. CASE p.op = "ACK"
  BY <1>1, <1>2
<1>3. CASE p.op # "ACK"
  <2>1. Active(p.from) /\ p = Packet(p.from, cl[p.from])
    BY <1>3 DEF TransferInv, Own
  <2> QED BY <1>1, <2>1, PacketOf DEF Active
<1> QED BY <1>2, <1>3

(* Who is active is alone. *)
LEMMA Alone ==
  ASSUME TransferInv, NEW k \in Clients, NEW j \in Clients, Active(k), Active(j)
  PROVE  j = k
BY DEF TransferInv

(* The files that may be written stay the same. *)
LEMMA ContentsKept ==
  ASSUME [Next]_vars
  PROVE  faulty' = faulty /\ Contents' = Contents
<1> USE DEF srvVars, efcVars, mainVars, boundVars
<1>1. faulty' = faulty
  BY DEF Next, Server, HandleWrq, HandleData, HandleRrq, HandleAck, BatchEnd, Main, MainWakes,
         MainCopies, Lose, Over, Client, BeginPut, BeginGet, Begin, Repeat, GiveUp, Hear, vars
<1> QED BY <1>1 DEF Contents

(* While an image is expected, no client does anything that reads. *)
LEMMA CrcClient ==
  ASSUME Patient, Typed, TransferInv, CrcInv, crc # <<>>, NEW k \in Clients, Client(k)
  PROVE  ~Reading' /\ \A j \in Clients : cl'[j].pc # "get"
<1> USE DEF srvVars, efcVars, mainVars, boundVars
<1>1. cl[k] \in ClientRecs /\ ~Reading /\ \A j \in Clients : cl[j].pc # "get"
  BY DEF Typed, CrcInv
<1>2. ASSUME NEW c \in ClientRecs, cl' = [cl EXCEPT ![k] = c],
             c.pc \in {"wrq", "rrq", "put", "done", "failed"},
             \A q \in toSrv' : \/ q \in toSrv
                               \/ c.pc \in {"wrq", "rrq", "put"} /\ q = LastSent(k)',
             \A q \in toCl' : q \in toCl
      PROVE  ~Reading' /\ \A j \in Clients : cl'[j].pc # "get"
  <2>1. cl'[k] = c /\ \A j \in Clients : j # k => cl'[j] = cl[j]
    BY <1>2 DEF Typed
  <2>2. c.pc \in {"wrq", "rrq", "put"} => LastSent(k)' = Packet(k, c)
    BY <2>1, LastIsPacket DEF Active
  <2>3. c.pc \in {"wrq", "rrq", "put"} => LastSent(k)'.op # "ACK"
    BY <1>2, <2>2, PacketOf
  <2>4. ~Reading'
    BY <1>1, <1>2, <2>3 DEF Reading
  <2> QED BY <1>1, <1>2, <2>1, <2>4
<1>3. ASSUME NEW c \in ClientRecs, Begin(k, c), c.pc \in {"wrq", "rrq"}
      PROVE  ~Reading' /\ \A j \in Clients : cl'[j].pc # "get"
  <2>1. /\ cl' = [cl EXCEPT ![k] = c] /\ (\A q \in toSrv' : q \in toSrv \/ q = LastSent(k)')
        /\ \A q \in toCl' : q \in toCl
    BY <1>3 DEF Begin
  <2> QED BY <1>2, <1>3, <2>1
<1>4. CASE BeginPut(k)
  <2>1. PICK f \in Puts[faulty] : Begin(k, Writer(f))
    BY <1>4 DEF BeginPut, Writer
  <2> QED BY <1>3, <2>1, PutRec
<1>5. CASE BeginGet(k)
  <2>1. PICK name \in Gets : Begin(k, Reader(cl[k], name))
    BY <1>5 DEF BeginGet, Reader
  <2> QED BY <1>3, <2>1, GetRec
<1>6. CASE Repeat(k)
  <2>1. LastSent(k) = Packet(k, cl[k]) /\ cl[k].pc \in {"wrq", "put", "rrq"}
    BY <1>1, <1>6, LastIsPacket DEF Repeat, Active
  <2>2. LastSent(k).op # "ACK"
    BY <1>1, <2>1, PacketOf
  <2>3. ~Reading'
    BY <1>1, <1>6, <2>2 DEF Repeat, Reading
  <2> QED BY <1>1, <1>6, <2>3 DEF Repeat
<1>7. ASSUME NEW pc \in {"done", "failed"}, Through(k, [cl[k] EXCEPT !.pc = pc]), toCl' \subseteq toCl
      PROVE  ~Reading' /\ \A j \in Clients : cl'[j].pc # "get"
  <2> DEFINE n == [cl[k] EXCEPT !.pc = pc]
  <2>1. n \in ClientRecs /\ n.pc = pc
    BY <1>1 DEF ClientRecs
  <2>2. cl' = [cl EXCEPT ![k] = n] /\ \A q \in toSrv' : q \in toSrv
    BY <1>7 DEF Through
  <2> HIDE DEF n
  <2> QED BY <1>2, <1>7, <2>1, <2>2
<1>8. CASE GiveUp(k)
  BY <1>7, <1>8 DEF GiveUp
<1>9. CASE \E p \in toCl : Hear(k, p)
  <2>1. PICK p \in toCl : Hear(k, p)
    BY <1>9
  <2>2. toCl' \subseteq toCl /\ p.op # "DATA"
    BY <1>1, <2>1 DEF Hear, Reading
  <2>3. CASE UNCHANGED <<cl, toSrv>>
    BY <1>1, <2>2, <2>3 DEF Reading
  <2>4. CASE PutAcked(k, p) /\ Advance(k, [cl[k] EXCEPT !.pc = "put", !.blk = @ + 1])
    <3> DEFINE n == [cl[k] EXCEPT !.pc = "put", !.blk = @ + 1]
    <3>1. n \in ClientRecs /\ n.pc = "put"
      <4>1. cl[k].pc \in {"wrq", "put"}
        BY <2>4 DEF PutAcked
      <4>2. cl[k].file \in AnyFile /\ cl[k].blk \in Nat /\ cl[k].blk + 1 # 0
            /\ cl[k].blk + 1 \in Nat
        BY <1>1, <4>1 DEF ClientRecs
      <4> QED BY <1>1, <4>2 DEF ClientRecs
    <3>2. cl' = [cl EXCEPT ![k] = n] /\ \A q \in toSrv' : q \in toSrv \/ q = LastSent(k)'
      BY <2>4 DEF Advance
    <3> HIDE DEF n
    <3> QED BY <1>2, <2>2, <3>1, <3>2
  <2>5. CASE PutAcked(k, p)
    BY <1>7, <2>2, <2>3, <2>4, <2>5 DEF PutAcked
  <2> QED BY <1>7, <2>1, <2>2, <2>3, <2>5 DEF Hear, GotBlock
<1> QED BY <1>4, <1>5, <1>6, <1>8, <1>9 DEF Client

(* Only an image being written makes the board expect one. *)
LEMMA CrcStep ==
  ASSUME Patient, Typed, TransferInv, CrcInv, [Next]_vars
  PROVE  CrcInv'
<1> USE DEF srvVars, efcVars, mainVars, boundVars
<1>1. Contents' = Contents /\ ackn \in Nat
  BY ContentsKept DEF Typed, TypeOK
<1>2. CASE UNCHANGED <<crc, mode, ackn, cl>> /\ toSrv' \subseteq toSrv /\ toCl' \subseteq toCl
  BY <1>1, <1>2 DEF CrcInv, Reading, Quiet
<1>3. CASE Main \/ Lose \/ Over \/ UNCHANGED vars
  <2>1. UNCHANGED <<crc, mode, ackn, cl>> /\ toSrv' \subseteq toSrv /\ toCl' \subseteq toCl
    BY <1>3 DEF Main, MainWakes, MainCopies, Lose, Over, vars
  <2> QED BY <1>2, <2>1
<1>4. CASE BatchEnd
  BY <1>4 DEF BatchEnd, CrcInv
<1>5. ASSUME NEW k \in Clients, Client(k) PROVE CrcInv'
  <2>1. UNCHANGED <<crc, mode, ackn>>
    BY <1>5 DEF Client, BeginPut, BeginGet, Begin, Repeat, GiveUp, Hear
  <2> SUFFICES ASSUME crc # <<>> PROVE CrcInv'
    BY <2>1 DEF CrcInv
  <2>2. ~Reading' /\ \A j \in Clients : cl'[j].pc # "get"
    BY <1>5, CrcClient
  <2>3. ackn = 0 => Quiet'
    BY QuietStep DEF CrcInv, Settled
  <2> QED BY <1>1, <2>1, <2>2, <2>3 DEF CrcInv
<1>6. ASSUME NEW p \in toSrv, HandleWrq(p) PROVE CrcInv'
  <2>1. CASE WrqRefused(p.from)
    BY <2>1 DEF WrqRefused, CrcInv
  <2>2. CASE WrqAccepted(p.from, p.file) /\ p.file.kind # "image"
    BY <2>2 DEF WrqAccepted, CrcInv
  <2>3. CASE WrqAccepted(p.from, p.file) /\ p.file.kind = "image"
    <3>1. /\ p.from \in Clients /\ cl[p.from].pc = "wrq" /\ Active(p.from)
          /\ p.file = cl[p.from].file
      BY <1>6, SenderOf DEF HandleWrq, Active
    <3>2. p.file \in Puts[faulty] /\ Bytes(p.file) \in Contents
      BY <2>3, <3>1 DEF TransferInv, Contents
    <3>3. ~Reading
      BY <3>1 DEF TransferInv, Putting
    <3>4. \A j \in Clients : cl[j].pc # "get"
      <4> SUFFICES ASSUME NEW j \in Clients, cl[j].pc = "get" PROVE FALSE
        OBVIOUS
      <4>1. Active(j)
        BY DEF Active
      <4> QED BY <3>1, <4>1, Alone
    <3>5. /\ crc' = Bytes(p.file) /\ mode' = "wrq" /\ ackn' = 1 /\ cl' = cl
          /\ toSrv' \subseteq toSrv /\ toCl' = toCl \union {Ack(p.from, 0)}
      BY <1>6, <2>3 DEF HandleWrq, WrqAccepted, Take, Reply
    <3>6. ~Reading'
      BY <3>3, <3>5 DEF Reading, Ack
    <3> QED BY <1>1, <3>2, <3>4, <3>5, <3>6 DEF CrcInv
  <2> QED BY <1>6, <2>1, <2>2, <2>3 DEF HandleWrq
<1>7. ASSUME NEW p \in toSrv, HandleData(p) PROVE CrcInv'
  <2>1. CASE UNCHANGED <<srvVars, efcVars, toCl>>
    <3>1. toSrv' \subseteq toSrv /\ cl' = cl
      BY <1>7 DEF HandleData, Take
    <3> QED BY <1>2, <2>1, <3>1
  <2>2. CASE ~UNCHANGED <<srvVars, efcVars, toCl>>
    <3>1. /\ toCl' = toCl \union {Ack(p.from, ackn)} /\ UNCHANGED <<mode, crc, cl>>
          /\ toSrv' \subseteq toSrv
      BY <1>7, <2>2 DEF HandleData, Reply, Take
    <3> SUFFICES ASSUME crc # <<>> PROVE CrcInv'
      BY <3>1 DEF CrcInv
    <3>2. ~Reading /\ ~Reading'
      BY <3>1 DEF CrcInv, Reading, Ack
    <3>3. p.from \in Clients /\ cl[p.from].pc = "put" /\ Active(p.from)
      BY <1>7, SenderOf DEF HandleData
    <3>4. \A j \in Clients : cl[j].pc \notin {"wrq", "rrq", "get"}
      <4> SUFFICES ASSUME NEW j \in Clients, cl[j].pc \in {"wrq", "rrq", "get"} PROVE FALSE
        OBVIOUS
      <4>1. Active(j)
        BY DEF Active
      <4> QED BY <3>3, <4>1, Alone
    <3>5. ASSUME NEW q \in toSrv PROVE q.op = "DATA"
      <4>1. q.op # "ACK" /\ q \in ToServer
        BY <3>2 DEF Reading, Typed
      <4>2. q.op \in {"WRQ", "RRQ", "DATA"}
        BY <4>1 DEF ToServer
      <4> QED BY <3>4, <4>2, SenderOf
    <3>6. Quiet'
      BY <3>1, <3>4, <3>5 DEF Quiet
    <3> QED BY <1>1, <3>1, <3>2, <3>4, <3>6 DEF CrcInv
  <2> QED BY <2>1, <2>2
<1>8. ASSUME NEW p \in toSrv, HandleRrq(p) PROVE CrcInv'
  BY <1>8 DEF HandleRrq, CrcInv
<1>9. ASSUME NEW p \in toSrv, HandleAck(p) PROVE CrcInv'
  BY <1>9 DEF HandleAck, CrcInv, Reading
<1> QED BY <1>3, <1>4, <1>5, <1>6, <1>7, <1>8, <1>9 DEF Next, Server

(* A chosen image was compared with its CRC, and stays as it was. *)
LEMMA ChosenStep ==
  ASSUME Patient, Typed, TransferInv, CrcInv, ChosenInv, [Next]_vars
  PROVE  ChosenInv'
<1> USE DEF srvVars, efcVars, mainVars, boundVars
<1>1. Contents' = Contents
  BY ContentsKept
<1>2. CASE Chosen
  <2>1. mode = "none" /\ Quiet /\ Stored(mem) \in Contents
    BY <1>2 DEF ChosenInv
  <2>2. Quiet'
    BY <1>2, <2>1, QuietStep DEF Chosen, Settled
  <2>3. mode' = mode /\ mem' = mem
    <3>1. \A p \in toSrv : ~HandleWrq(p) /\ ~HandleRrq(p) /\ ~HandleAck(p)
      BY <2>1 DEF Quiet, HandleWrq, HandleRrq, HandleAck
    <3>2. \A p \in toSrv : HandleData(p) => mode' = mode /\ mem' = mem
      BY <2>1 DEF HandleData
    <3>3. ~BatchEnd
      BY <2>1 DEF BatchEnd
    <3> QED BY <3>1, <3>2, <3>3 DEF Next, Server, Main, MainWakes, MainCopies, Lose, Over,
              Client, BeginPut, BeginGet, Begin, Repeat, GiveUp, Hear, vars
  <2> QED BY <1>1, <2>1, <2>2, <2>3 DEF ChosenInv
<1>3. CASE BatchEnd /\ "FWUPG" \in Completion
  <2>1. crc # <<>> /\ crc = Stored(mem)
    BY <1>3 DEF Completion
  <2>2. Quiet /\ crc \in Contents
    BY <1>3, <2>1 DEF CrcInv, BatchEnd
  <2>3. UNCHANGED <<cl, toSrv, mem>> /\ mode' = "none"
    BY <1>3 DEF BatchEnd
  <2> QED BY <1>1, <2>1, <2>2, <2>3 DEF ChosenInv, Quiet
<1>4. Chosen' => Chosen \/ (BatchEnd /\ "FWUPG" \in Completion)
  BY DEF Chosen, Next, Server, HandleWrq, HandleData, HandleRrq, HandleAck, BatchEnd, Main,
         MainWakes, MainCopies, Lose, Over, Client, BeginPut, BeginGet, Begin, Repeat, GiveUp,
         Hear, vars
<1> QED BY <1>2, <1>3, <1>4 DEF ChosenInv

(* Only a chosen image is copied, and the copy is the last thing done. *)
LEMMA InstalledStep ==
  ASSUME ChosenInv, InstalledImageIsWhole, [Next]_vars
  PROVE  InstalledImageIsWhole'
<1> USE DEF srvVars, efcVars, mainVars, boundVars
<1>1. Contents' = Contents
  BY ContentsKept
<1>2. CASE MainCopies
  BY <1>1, <1>2 DEF MainCopies, ChosenInv, Chosen, InstalledImageIsWhole
<1>3. CASE MainWakes
  BY <1>3 DEF MainWakes, InstalledImageIsWhole
<1>4. CASE UNCHANGED <<mainPc, efc0>>
  BY <1>1, <1>4 DEF InstalledImageIsWhole
<1>5. MainCopies \/ MainWakes \/ UNCHANGED <<mainPc, efc0>>
  BY DEF Next, Server, HandleWrq, HandleData, HandleRrq, HandleAck, BatchEnd, Main,
         Lose, Over, Client, BeginPut, BeginGet, Begin, Repeat, GiveUp, Hear, vars
<1> QED BY <1>2, <1>3, <1>4, <1>5

(* The board never boots into anything but an image some client wrote      *)
(* whole: between tftpd_cb()'s comparison of the CRC (tftpd.c) and the     *)
(* copy two seconds later (main.c) nothing writes the bank, however many   *)
(* packets were lost, doubled or repeated.  Patient clients are needed:    *)
(* the server stays open in those two seconds.                             *)
THEOREM InstalledIsWhole ==
  ASSUME Patient
  PROVE  Spec => []InstalledImageIsWhole
<1>1. Init => ImageInv
  BY DEF Init, ImageInv, CrcInv, ChosenInv, Chosen, InstalledImageIsWhole
<1>2. Typed /\ [Next]_vars => Typed'
  BY TypeStep
<1>3. Typed /\ TransferInv /\ [Next]_vars => TransferInv'
  BY TransferStep
<1>4. Typed /\ TransferInv /\ ImageInv /\ [Next]_vars => ImageInv'
  BY CrcStep, ChosenStep, InstalledStep DEF ImageInv
<1>5. ImageInv => InstalledImageIsWhole
  BY DEF ImageInv
<1> QED BY TypeInit, TransferInit, <1>1, <1>2, <1>3, <1>4, <1>5, PTL DEF Spec

(***************************************************************************)
(* A calm network: one client, and no fault.                               *)
(***************************************************************************)
(* Two sequences joined. *)
LEMMA JoinType ==
  ASSUME NEW l \in Seq(Int), NEW d \in Seq(Int)
  PROVE  /\ l \o d \in Seq(Int) /\ Len(l \o d) = Len(l) + Len(d)
         /\ Len(l) \in Nat /\ Len(d) \in Nat /\ Len(l \o d) \in Nat
OBVIOUS

(* Pages that end before a page boundary. *)
LEMMA EndsBelow ==
  ASSUME NEW p \in Nat, NEW k \in Nat, NEW r \in Nat, NEW q \in Nat,
         p * PageSz + k * PageSz + r <= q * PageSz
  PROVE  p + k <= q /\ (r # 0 => p + k < q)
<1> DEFINE x == p * PageSz
           y == k * PageSz
           z == q * PageSz
           s == p + k
           v == s * PageSz
<1>1. s \in Int /\ x \in Int /\ y \in Int /\ z \in Int /\ v = x + y
  BY PageOrder
<1>2. x + y + r <= z
  OBVIOUS
<1> HIDE DEF s
<1>3. (v <= z => s <= q) /\ (v < z => s < q)
  <2>1. q \in Int
    OBVIOUS
  <2> QED BY <1>1, <2>1, PageOrder
<1> HIDE DEF x, y, z, v
<1>4. v <= z /\ (r # 0 => v < z)
  BY <1>1, <1>2
<1> QED BY <1>3, <1>4 DEF s

(* Remainders add up. *)
LEMMA ModAdd ==
  ASSUME NEW n \in Nat, NEW k \in Nat
  PROVE  ((n % PageSz) + k) % PageSz = (n + k) % PageSz
<1> DEFINE q == n \div PageSz
           r == n % PageSz
           s == (r + k) \div PageSz
           t == (r + k) % PageSz
<1>1. q \in Nat /\ r \in Nat /\ n = q * PageSz + r
  BY PageOffset
<1>2. r + k \in Nat
  BY <1>1
<1>3. s \in Nat /\ t \in Nat /\ t < PageSz /\ r + k = s * PageSz + t
  BY <1>2, PageOffset
<1>4. (q + s) * PageSz = q * PageSz + s * PageSz /\ q * PageSz \in Int /\ s * PageSz \in Int
  <2>1. q \in Int /\ s \in Int
    BY <1>1, <1>3
  <2> HIDE DEF q, s
  <2> QED BY <2>1, PageOrder
<1> DEFINE x == q * PageSz
           y == s * PageSz
           z == (q + s) * PageSz
<1> HIDE DEF q, r, s, t, x, y, z
<1>5. z = x + y /\ x \in Int /\ y \in Int /\ n = x + r /\ r + k = y + t
  BY <1>1, <1>3, <1>4 DEF x, y, z
<1>6. n + k = z + t /\ z \in Int /\ n + k \in Nat /\ PageSz \in Nat
  BY <1>1, <1>3, <1>5, FlashAssumption
<1>7. z <= n + k /\ n + k < z + PageSz
  BY <1>3, <1>6
<1>8. q + s \in Int
  BY <1>1, <1>3
<1>9. (n + k) % PageSz = (n + k) - z
  BY <1>6, <1>7, <1>8, PageIs DEF z
<1>10. (n + k) - z = t
  BY <1>3, <1>6
<1> QED BY <1>9, <1>10 DEF r, t

(* efc1_write_data() writes no page at or beyond the end of what it was    *)
(* given, if the bytes left over are those before the offset in its page.  *)
LEMMA WriteBelow ==
  ASSUME NEW m \in [Addr -> Int], NEW l \in Seq(Int), NEW d \in Seq(Int),
         NEW offset \in Nat, NEW e, Len(l) = offset % PageSz, Len(d) > 0,
         offset + Len(d) <= EthPage * PageSz,
         NEW a \in Addr, PageOf(a) = EthPage
  PROVE  WriteData(m, l, d, offset, e).mem[a] = m[a]
<1> DEFINE all == l \o d
           first == PageOf(offset)
           n == Len(all)
           full == n \div PageSz
           rest == SubSeq(all, full * PageSz + 1, n)
           lastp == IF rest = <<>> /\ full > 0 THEN first + full - 1 ELSE first + full
           paged == [b \in Addr |->
                      IF PageOf(b) \in first..(first + full - 1)
                        THEN all[b - first * PageSz + 1] ELSE m[b]]
           ended == WritePage(paged, rest, lastp)
           w == WriteData(m, l, d, offset, e)
<1>1. /\ w.mem = IF ~e THEN paged
                 ELSE [b \in Addr |->
                        IF PageOf(b) > lastp /\ PageOf(b) < EthPage /\ LooksUsed(paged, PageOf(b))
                          THEN Blank ELSE ended[b]]
  <2>1. w = WriteAligned(m, l, d, offset, e)
    BY AlignedWrite
  <2> HIDE DEF w
  <2> QED BY <2>1 DEF WriteAligned
<1>2. /\ PageSz \in Nat \ {0} /\ EthPage \in Nat /\ all \in Seq(Int)
      /\ n \in Nat /\ n = Len(l) + Len(d) /\ n > 0
  <2>1. Len(l) \in Nat /\ Len(d) \in Nat /\ n = Len(l) + Len(d) /\ all \in Seq(Int)
    BY JoinType
  <2> HIDE DEF all, n
  <2> QED BY <2>1, FlashAssumption
<1> HIDE DEF all, w
<1> DEFINE sp == first * PageSz
           fp == full * PageSz
           ep == EthPage * PageSz
<1>3. first \in Nat /\ sp \in Int /\ offset = sp + (offset % PageSz)
  BY PageOffset, PageOrder DEF PageOf
<1>4. full \in Nat /\ n % PageSz \in Nat /\ n = fp + (n % PageSz) /\ fp \in Int
  <2>1. full \in Nat /\ n % PageSz \in Nat /\ n = full * PageSz + (n % PageSz)
    BY <1>2, PageOffset
  <2> HIDE DEF full
  <2>2. full * PageSz \in Int
    BY <2>1, PageOrder
  <2> QED BY <2>1, <2>2
<1> DEFINE r == n % PageSz
<1>5. sp + fp + r <= ep
  <2>1. Len(l) \in Nat /\ Len(d) \in Nat /\ offset + Len(d) <= ep /\ ep \in Int
    BY <1>2, JoinType
  <2>2. r \in Nat /\ n = fp + r
    BY <1>4
  <2> DEFINE o == offset % PageSz
  <2>3. o \in Nat /\ offset = sp + o /\ n = o + Len(d) /\ n \in Nat /\ sp \in Int /\ fp \in Int
    <3>1. n = o + Len(d)
      BY <1>2
    <3>2. o \in Nat
      BY PageOffset
    <3> QED BY <1>2, <1>3, <1>4, <3>1, <3>2
  <2> HIDE DEF sp, fp, ep, n, r, o
  <2> QED BY <2>1, <2>2, <2>3
<1> HIDE DEF first, full
<1>6. first + full <= EthPage /\ (r # 0 => first + full < EthPage)
  <2>1. r \in Nat
    BY <1>4
  <2> HIDE DEF r
  <2> QED BY <1>2, <1>3, <1>4, <1>5, <2>1, EndsBelow
<1>7. lastp < EthPage
  <2>1. CASE r = 0
    <3>1. full # 0
      <4>1. full = 0 => fp = 0
        BY <1>2
      <4>2. n = fp + r /\ n > 0 /\ n \in Nat
        BY <1>2, <1>4
      <4> HIDE DEF fp, n, r
      <4> QED BY <2>1, <4>1, <4>2
    <3>2. rest = <<>>
      <4>1. n = fp + r /\ fp \in Int /\ n \in Nat
        BY <1>2, <1>4
      <4>2. rest = SubSeq(all, fp + 1, n)
        OBVIOUS
      <4> HIDE DEF rest, n, fp, r
      <4>3. fp + 1 \in Int /\ n < fp + 1 /\ n \in Int
        BY <2>1, <4>1
      <4> QED BY <4>2, <4>3, SubSeqEmpty
    <3>3. lastp = first + full - 1
      <4> HIDE DEF rest
      <4> QED BY <1>4, <3>1, <3>2
    <3> HIDE DEF lastp
    <3> QED BY <1>2, <1>3, <1>4, <1>6, <3>3
  <2>2. CASE r # 0
    <3>1. lastp = first + full \/ lastp = first + full - 1
      OBVIOUS
    <3>2. first \in Nat /\ full \in Nat
      BY <1>3, <1>4
    <3>3. first + full < EthPage
      BY <1>6, <2>2
    <3> HIDE DEF lastp
    <3> QED BY <1>2, <3>1, <3>2, <3>3
  <2> QED BY <2>1, <2>2
<1>8. PageOf(a) \notin first..(first + full - 1)
  BY <1>2, <1>3, <1>4, <1>6
<1>9. paged[a] = m[a]
  BY <1>8
<1> HIDE DEF paged, lastp, rest
<1>10. lastp # EthPage
  BY <1>2, <1>7
<1>11. ended[a] = m[a]
  BY <1>9, <1>10 DEF WritePage
<1>12. ~(PageOf(a) < EthPage)
  BY <1>2
<1> QED BY <1>1, <1>9, <1>11, <1>12 DEF w

(* The server has stored n blocks, and kept what is not a page yet. *)
At(n) == start = n * SegSz /\ (start # 0 => Len(left) = start % PageSz)

(* A client that writes c.file and waits for the answer to block c.blk:    *)
(* either its packet is under way and the server is a block behind, or the *)
(* answer is and it is not.                                                *)
InStep(c) ==
  /\ toSrv = {} \/ toCl = {}
  /\ \A q, r \in toCl : q = r
  /\ c.pc = "wrq" => c.blk = 0
  /\ c.pc = "put" /\ toSrv # {} => At(c.blk - 1) /\ (c.blk - 1) * SegSz <= c.file.len
  /\ (\E q \in toCl : q.op = "ACK")
     /\ (c.pc = "wrq" \/ Len(Block(Bytes(c.file), c.blk)) = SegSz)
       => At(c.blk) /\ c.blk * SegSz <= c.file.len

CalmInv ==
  ~faulty => /\ faults = MaxFaults
             /\ mem[EthPage * PageSz] = Config
             /\ \A k \in Clients : cl[k].pc \in {"wrq", "put"} => InStep(cl[k])

(* Every file ends below the address settings. *)
FilesFit == \A f \in Puts[FALSE] : f.len <= EthPage * PageSz

(* The settings are in the last page. *)
LEMMA ConfigAddr ==
  EthPage * PageSz \in Addr /\ PageOf(EthPage * PageSz) = EthPage /\ (EthPage * PageSz) % PageSz = 0
<1> DEFINE e == EthPage * PageSz
<1>1. e \in Nat /\ PageSz \in Nat \ {0} /\ EthPage \in Int
  BY FlashAssumption
<1>2. (EthPage + 1) * PageSz = e + 1 * PageSz /\ 1 * PageSz = PageSz
  BY <1>1, PageOrder
<1> DEFINE v == (EthPage + 1) * PageSz
<1>3. e \div PageSz = EthPage /\ e % PageSz = e - e
  <2>1. EthPage * PageSz <= e /\ e < EthPage * PageSz + PageSz
    <3>1. e <= e /\ e < e + PageSz
      <4> HIDE DEF e
      <4> QED BY <1>1
    <3> QED BY <3>1
  <2> QED BY <1>1, <2>1, PageIs
<1> HIDE DEF e, v
<1>4. e \in 0..(v - 1)
  BY <1>1, <1>2 DEF v
<1>5. e - e = 0
  BY <1>1
<1> QED BY <1>3, <1>4, <1>5 DEF e, v, Addr, BankSz, PageOf

(* A bank with the settings in it has them. *)
LEMMA WithConfigHas ==
  ASSUME NEW m
  PROVE  WithConfig(m)[EthPage * PageSz] = Config
<1>1. Len(<<Config>>) = 1 /\ <<Config>>[0 + 1] = Config /\ 0 < 1
  OBVIOUS
<1> QED BY <1>1, ConfigAddr DEF WithConfig, WritePage

(* The blocks before the last are SEG_SZ long; what is sent of a file with *)
(* them ends in the file.                                                  *)
LEMMA BlockEnds ==
  ASSUME NEW b \in Seq(Int), NEW n \in Nat \ {0}, (n - 1) * SegSz <= Len(b)
  PROVE  /\ (n - 1) * SegSz \in Nat
         /\ (n - 1) * SegSz + Len(Block(b, n)) <= Len(b)
         /\ Len(Block(b, n)) = SegSz => n * SegSz = (n - 1) * SegSz + Len(Block(b, n))
<1> DEFINE lo == (n - 1) * SegSz
           hi == n * SegSz
           w == Len(Block(b, n))
<1>1. SegSz \in Nat \ {0} /\ Len(b) \in Nat
  BY TftpAssumption
<1>2. lo \in Nat /\ hi \in Nat /\ hi = lo + SegSz
  <2>1. (n - 1) + 1 = n /\ n - 1 \in Nat /\ 1 * SegSz = SegSz
    BY <1>1
  <2>2. ((n - 1) + 1) * SegSz = (n - 1) * SegSz + 1 * SegSz
    BY <1>1, <2>1, TimesOrder
  <2>3. (n - 1) * SegSz \in Nat
    BY <1>1, <2>1
  <2> QED BY <1>1, <2>1, <2>2, <2>3
<1>3. /\ w \in 0..SegSz
      /\ w = (IF hi < Len(b) THEN SegSz ELSE IF lo < Len(b) THEN Len(b) - lo ELSE 0)
  BY BlockType
<1>4. lo <= Len(b)
  OBVIOUS
<1> HIDE DEF lo, hi, w
<1>5. lo + w <= Len(b) /\ (w = SegSz => hi = lo + w)
  BY <1>1, <1>2, <1>3, <1>4
<1> QED BY <1>2, <1>5 DEF lo, hi, w

(* What efc1_write_data() makes of the bank and of the page buffer.        *)
NewMem(m, l, d, offset, e) == WriteData(m, l, d, offset, e).mem
NewLeft(m, l, d, offset, e) == WriteData(m, l, d, offset, e).left

(* Where in its page an address is, and what the settings are.            *)
OfPage(n) == n % PageSz
Settings(m) == m[EthPage * PageSz]
Offsets == Nat

(* The page buffer has the bytes of the last page that was reached; data   *)
(* at an offset end below the settings.                                    *)
Aligned == start # 0 => Len(left) = OfPage(start)
Clear(offset, d) == offset + Len(d) <= EthPage * PageSz

(* What is left is less than a page. *)
LEMMA NewLeftLength ==
  ASSUME NEW m \in [Addr -> Int], NEW l \in Seq(Int), NEW d \in Seq(Int),
         NEW offset \in Offsets, NEW e
  PROVE  Len(NewLeft(m, l, d, offset, e)) = OfPage(Len(l) + Len(d))
BY WriteType DEF NewLeft, OfPage, Offsets

(* The page of the settings is not touched. *)
LEMMA NewMemKeeps ==
  ASSUME NEW m \in [Addr -> Int], NEW l \in Seq(Int), NEW d \in Seq(Int),
         NEW offset \in Offsets, NEW e, Len(l) = OfPage(offset), d # <<>>, Clear(offset, d)
  PROVE  Settings(NewMem(m, l, d, offset, e)) = Settings(m)
<1>1. offset \in Nat /\ offset + Len(d) <= EthPage * PageSz /\ Len(d) > 0
  BY DEF Offsets, Clear
<1>2. Len(l) = offset % PageSz
  BY DEF OfPage
<1>3. WriteData(m, l, d, offset, e).mem[EthPage * PageSz] = m[EthPage * PageSz]
  BY <1>1, <1>2, ConfigAddr, WriteBelow
<1> QED BY <1>3 DEF Settings, NewMem

(* tftpd_data_in() leaves the bytes of the last page it reached that are   *)
(* not a page yet, and does not touch the page of the settings.            *)
LEMMA StoreCalm ==
  ASSUME Typed, NEW b \in Seq(Int), b # <<>>, StoreBlock(b),
         start \in Offsets, Aligned, Clear(start, b)
  PROVE  /\ Settings(mem') = Settings(mem)
         /\ Len(left') = OfPage(start') /\ start' = start + Len(b)
<1>1. mem \in [Addr -> Int] /\ left \in Seq(Int) /\ start \in Offsets
  BY DEF Typed, TypeOK
<1>2. PICK l \in Seq(Int) : l = IF start = 0 THEN <<>> ELSE left
  <2>1. <<>> \in Seq(Int)
    OBVIOUS
  <2> QED BY <1>1, <2>1
<1>3. PICK e : e = (Len(b) # SegSz)
  OBVIOUS
<1>4. /\ mem' = NewMem(mem, l, b, start, e) /\ left' = NewLeft(mem, l, b, start, e)
      /\ start' = start + Len(b)
  BY <1>2, <1>3 DEF StoreBlock, NewMem, NewLeft
<1>5. Len(l) = OfPage(start)
  <2>1. Len(<<>>) = 0 /\ 0 % PageSz = 0
    <3>1. PageSz \in Nat \ {0}
      BY FlashAssumption
    <3> QED BY <3>1
  <2> QED BY <1>2, <2>1 DEF Aligned, OfPage
<1>6. Settings(NewMem(mem, l, b, start, e)) = Settings(mem)
  BY <1>1, <1>5, NewMemKeeps
<1>7. Len(NewLeft(mem, l, b, start, e)) = OfPage(Len(l) + Len(b))
  BY <1>1, NewLeftLength, Z3
<1>8. OfPage(OfPage(start) + Len(b)) = OfPage(start + Len(b))
  <2>1. start \in Nat /\ Len(b) \in Nat
    BY <1>1 DEF Offsets
  <2>2. ((start % PageSz) + Len(b)) % PageSz = (start + Len(b)) % PageSz
    BY <2>1, ModAdd, Zenon
  <2> QED BY <2>2, Zenon DEF OfPage
<1>9. Len(NewLeft(mem, l, b, start, e)) = OfPage(start + Len(b))
  BY <1>5, <1>7, <1>8, Zenon
<1> QED BY <1>4, <1>6, <1>9, Zenon

(* tftpd_data_in() keeps step with a client's blocks, and clear of the     *)
(* settings.                                                               *)
LEMMA StoreInStep ==
  ASSUME Typed, FilesFit, NEW f \in Puts[FALSE], NEW n \in Nat \ {0},
         At(n - 1), (n - 1) * SegSz <= f.len, StoreBlock(Block(Bytes(f), n))
  PROVE  /\ mem'[EthPage * PageSz] = mem[EthPage * PageSz]
         /\ Len(Block(Bytes(f), n)) = SegSz => At(n)' /\ n * SegSz <= f.len
<1> DEFINE b == Bytes(f)
           d == Block(b, n)
<1>1. f \in AnyFile /\ Len(b) = f.len /\ b \in Seq(Int)
  <2>1. f \in AnyFile
    BY DEF AnyFile
  <2> QED BY <2>1, FileType
<1>2. d \in Seq(Int) /\ Len(d) \in 0..SegSz /\ SegSz \in Nat \ {0}
  BY <1>1, BlockType, TftpAssumption
<1>3. /\ start \in Nat /\ start + Len(d) <= f.len
      /\ Len(d) = SegSz => n * SegSz = start + Len(d)
  BY <1>1, BlockEnds DEF At
<1>4. f.len <= EthPage * PageSz /\ f.len \in Nat /\ EthPage * PageSz \in Int
  <2>1. EthPage * PageSz \in Int
    BY FlashAssumption
  <2>2. f.len \in Nat
    BY <1>1, FileType
  <2> QED BY <2>1, <2>2 DEF FilesFit
<1> HIDE DEF b, d
<1>5. CASE d = <<>>
  <2>1. Len(d) = 0
    BY <1>5
  <2>2. Len(d) # SegSz
    BY <1>2, <2>1
  <2> QED BY <1>5, <2>2 DEF StoreBlock, efcVars, d, b
<1>6. CASE d # <<>>
  <2>1. Aligned /\ Clear(start, d) /\ start \in Offsets
    BY <1>2, <1>3, <1>4 DEF At, Aligned, Clear, OfPage, Offsets
  <2>2. /\ mem'[EthPage * PageSz] = mem[EthPage * PageSz]
        /\ Len(left') = start' % PageSz /\ start' = start + Len(d)
    BY <1>2, <1>3, <1>6, <2>1, StoreCalm DEF d, b, Settings, OfPage
  <2>3. Len(d) = SegSz => start' = n * SegSz /\ n * SegSz <= f.len
    BY <1>3, <2>2
  <2> QED BY <2>2, <2>3 DEF At, d, b
<1> QED BY <1>5, <1>6

(* While a client writes, only its packet is under way to the server. *)
LEMMA OneWriter ==
  ASSUME Typed, TransferInv, NEW k \in Clients, cl[k].pc \in {"wrq", "put"}, NEW p \in toSrv
  PROVE  p = Packet(k, cl[k])
<1>1. p.op # "ACK"
  BY DEF TransferInv, Reading, Putting
<1>2. Active(p.from) /\ p = Packet(p.from, cl[p.from]) /\ p.from \in Clients /\ Active(k)
  BY <1>1, SenderOf DEF Active
<1>3. p.from = k
  BY <1>2, Alone
<1> QED BY <1>2, <1>3

(* At the start the settings are there and no client writes. *)
LEMMA CalmInit == Init => CalmInv
<1> SUFFICES ASSUME Init PROVE CalmInv
  OBVIOUS
<1>1. mem[EthPage * PageSz] = Config
  BY WithConfigHas DEF Init
<1>2. \A k \in Clients : cl[k].pc = "idle"
  BY DEF Init, Idle
<1>3. ~faulty => faults = MaxFaults
  BY DEF Init
<1> QED BY <1>1, <1>2, <1>3 DEF CalmInv

(* The server answers the one packet under way, and is in step again. *)
LEMMA CalmServer ==
  ASSUME Typed, TransferInv, CalmInv, Enabled, FilesFit, ~faulty, NEW p \in toSrv,
         HandleWrq(p) \/ HandleData(p) \/ HandleRrq(p) \/ HandleAck(p)
  PROVE  CalmInv'
<1> USE DEF srvVars, efcVars, mainVars
<1>1. faults = MaxFaults /\ mem[EthPage * PageSz] = Config /\ MaxFaults \in Nat
  BY TftpAssumption DEF CalmInv
<1>2. toSrv' = toSrv \ {p} /\ UNCHANGED <<cl, faulty, faults>>
  <2>1. ~(MaxFaults < MaxFaults)
    BY <1>1
  <2> QED BY <1>1, <2>1 DEF HandleWrq, HandleData, HandleRrq, HandleAck, Take
<1>3. p.from \in Clients /\ cl[p.from] \in ClientRecs
  BY SenderOf
<1>4. ASSUME NEW k \in Clients, cl[k].pc \in {"wrq", "put"}
      PROVE  /\ p = Packet(k, cl[k]) /\ toSrv' = {} /\ toCl = {} /\ InStep(cl[k])
             /\ cl[k] \in ClientRecs
  <2>1. \A q \in toSrv : q = Packet(k, cl[k])
    BY <1>4, OneWriter
  <2>2. InStep(cl[k])
    BY <1>4 DEF CalmInv
  <2> QED BY <1>2, <2>1, <2>2 DEF InStep, Typed
<1>5. CASE HandleRrq(p) \/ HandleAck(p)
  <2>1. ~Putting
    <3>1. CASE HandleAck(p)
      BY <3>1 DEF HandleAck, TransferInv, Reading
    <3>2. CASE HandleRrq(p)
      <4>1. p.op = "RRQ"
        BY <3>2 DEF HandleRrq
      <4> SUFFICES ASSUME NEW k \in Clients, cl[k].pc \in {"wrq", "put"} PROVE FALSE
        BY DEF Putting
      <4>2. Packet(k, cl[k]).op # "RRQ"
        BY <1>4, PacketOf
      <4> QED BY <1>4, <4>1, <4>2
    <3> QED BY <1>5, <3>1, <3>2
  <2>2. mem' = mem
    BY <1>5 DEF HandleRrq, HandleAck
  <2> QED BY <1>1, <1>2, <2>1, <2>2 DEF CalmInv, Putting
<1>6. CASE HandleWrq(p)
  <2>1. cl[p.from].pc = "wrq" /\ p.op = "WRQ"
    BY <1>6, SenderOf DEF HandleWrq
  <2>2. ASSUME NEW k \in Clients, cl[k].pc \in {"wrq", "put"}
        PROVE  cl[k].pc = "wrq" /\ toSrv' = {} /\ toCl = {} /\ cl[k].blk = 0
    <3>1. Active(k) /\ Active(p.from)
      BY <2>1, <2>2 DEF Active
    <3>2. k = p.from
      BY <1>3, <3>1, Alone
    <3> QED BY <1>4, <2>1, <2>2, <3>2 DEF InStep
  <2>3. CASE WrqRefused(p.from)
    <3>1. toCl' = toCl \union {Err(p.from)} /\ mem' = mem
      BY <2>3 DEF WrqRefused, Reply
    <3>2. ASSUME NEW k \in Clients, cl[k].pc \in {"wrq", "put"} PROVE InStep(cl[k])'
      <4>1. toCl' = {Err(p.from)} /\ Err(p.from).op # "ACK"
        BY <2>2, <3>1, <3>2 DEF Err
      <4> QED BY <1>2, <2>2, <3>2, <4>1 DEF InStep
    <3> QED BY <1>1, <1>2, <3>1, <3>2 DEF CalmInv
  <2>4. CASE WrqAccepted(p.from, p.file)
    <3>1. toCl' = toCl \union {Ack(p.from, 0)} /\ mem' = Prepare(mem, Enabled) /\ start' = 0
      BY <2>4 DEF WrqAccepted, Reply
    <3>2. mem'[EthPage * PageSz] = Config
      BY <1>1, <3>1, WithConfigHas DEF Prepare
    <3>3. ASSUME NEW k \in Clients, cl[k].pc \in {"wrq", "put"} PROVE InStep(cl[k])'
      <4>1. toCl' = {Ack(p.from, 0)} /\ toSrv' = {} /\ cl'[k] = cl[k]
        BY <1>2, <2>2, <3>1, <3>3
      <4>2. cl[k].blk = 0 /\ cl[k].pc = "wrq"
        BY <2>2, <3>3
      <4>3. 0 * SegSz = 0 /\ cl[k].file.len \in Nat
        <5>1. cl[k].file \in AnyFile
          BY <1>4, <4>2 DEF ClientRecs
        <5> QED BY <5>1, FileType, TftpAssumption
      <4>4. At(cl[k].blk)' /\ cl[k].blk * SegSz <= cl[k].file.len
        BY <3>1, <4>1, <4>2, <4>3 DEF At
      <4> QED BY <4>1, <4>2, <4>4 DEF InStep
    <3> QED BY <1>1, <1>2, <3>2, <3>3 DEF CalmInv
  <2> QED BY <1>6, <2>3, <2>4 DEF HandleWrq
<1>7. CASE HandleData(p)
  <2> DEFINE k == p.from
             c == cl[k]
  <2>1. c.pc = "put" /\ k \in Clients /\ p.op = "DATA"
    BY <1>7, SenderOf DEF HandleData
  <2>2. /\ p = Packet(k, c) /\ toSrv' = {} /\ toCl = {} /\ InStep(c) /\ c \in ClientRecs
        /\ \A j \in Clients : cl[j].pc \in {"wrq", "put"} => j = k
    <3>1. \A j \in Clients : cl[j].pc \in {"wrq", "put"} => Active(j) /\ Active(k)
      BY <2>1 DEF Active
    <3> QED BY <1>4, <2>1, <3>1, Alone
  <2>3. /\ p.bytes = Block(Bytes(c.file), c.blk) /\ c.file \in Puts[FALSE] /\ c.blk \in Nat \ {0}
        /\ At(c.blk - 1) /\ (c.blk - 1) * SegSz <= c.file.len
    <3>1. p.bytes = Block(Bytes(c.file), c.blk)
      BY <2>1, <2>2 DEF Packet, Data
    <3>2. c.file \in Puts[FALSE]
      <4>1. c.file \in Puts[faulty] /\ faulty = FALSE
        BY <2>1 DEF TransferInv, Typed
      <4> QED BY <4>1
    <3>3. c.blk \in Nat \ {0}
      BY <2>1, <2>2 DEF ClientRecs
    <3>4. At(c.blk - 1) /\ (c.blk - 1) * SegSz <= c.file.len
      BY <2>1, <2>2 DEF InStep
    <3> QED BY <3>1, <3>2, <3>3, <3>4
  <2>4. CASE UNCHANGED <<srvVars, efcVars, toCl>>
    <3>1. InStep(c)'
      BY <1>2, <2>1, <2>2, <2>4 DEF InStep
    <3>2. \A j \in Clients : cl'[j].pc \in {"wrq", "put"} => InStep(cl[j])'
      BY <1>2, <2>2, <3>1
    <3> QED BY <1>1, <1>2, <2>4, <3>2 DEF CalmInv
  <2>5. CASE ~UNCHANGED <<srvVars, efcVars, toCl>>
    <3>1. StoreBlock(p.bytes) /\ toCl' = toCl \union {Ack(k, ackn)}
      BY <1>7, <2>5 DEF HandleData, Reply
    <3>2. PICK n, f : n = c.blk /\ f = c.file
      OBVIOUS
    <3>3. /\ mem'[EthPage * PageSz] = mem[EthPage * PageSz]
          /\ Len(Block(Bytes(f), n)) = SegSz => At(n)' /\ n * SegSz <= f.len
      BY <2>3, <3>1, <3>2, StoreInStep
    <3>4. InStep(cl[k])'
      <4>1. toCl' = {Ack(k, ackn)} /\ toSrv' = {} /\ cl'[k] = c
        BY <1>2, <2>2, <3>1
      <4>2. cl'[k].pc = "put" /\ cl'[k].blk = n /\ cl'[k].file = f
        BY <2>1, <3>2, <4>1
      <4> HIDE DEF c, k
      <4> QED BY <3>3, <4>1, <4>2 DEF InStep, At
    <3>5. \A j \in Clients : cl'[j].pc \in {"wrq", "put"} => InStep(cl[j])'
      BY <1>2, <2>2, <3>4
    <3> QED BY <1>1, <1>2, <3>3, <3>5 DEF CalmInv
  <2> QED BY <2>4, <2>5
<1> QED BY <1>5, <1>6, <1>7

(* The writer moves on when it hears the answer it waits for. *)
LEMMA CalmHears ==
  ASSUME Patient, Typed, TransferInv, CalmInv, ~faulty, NEW k \in Clients, NEW p \in toCl, Hear(k, p)
  PROVE  CalmInv'
<1> USE DEF srvVars, efcVars, mainVars, boundVars
<1>1. /\ toCl' = toCl \ {p} /\ UNCHANGED <<start, left, mem, faulty, faults>>
      /\ faults = MaxFaults /\ mem[EthPage * PageSz] = Config /\ cl[k] \in ClientRecs
  BY DEF Hear, CalmInv, Typed
<1>2. CASE UNCHANGED <<cl, toSrv>>
  BY <1>1, <1>2 DEF CalmInv, InStep, At
<1>3. ASSUME NEW c \in ClientRecs, Active(k), cl' = [cl EXCEPT ![k] = c],
             c.pc \notin {"wrq", "put"} \/ InStep(c)'
      PROVE  CalmInv'
  <2>1. cl'[k] = c /\ \A j \in Clients : j # k => cl'[j] = cl[j]
    BY <1>3 DEF Typed
  <2>2. \A j \in Clients : j # k => cl[j].pc \notin {"wrq", "put"}
    BY <1>3 DEF TransferInv, Active
  <2> QED BY <1>1, <1>3, <2>1, <2>2 DEF CalmInv
<1>4. ASSUME NEW pc \in {"done", "failed"}, Active(k), Through(k, [cl[k] EXCEPT !.pc = pc])
      PROVE  CalmInv'
  <2>1. PICK c \in ClientRecs : c = [cl[k] EXCEPT !.pc = pc] /\ c.pc = pc
    <3> DEFINE n == [cl[k] EXCEPT !.pc = pc]
    <3>1. n \in ClientRecs /\ n.pc = pc
      BY <1>1, <1>4 DEF ClientRecs
    <3> HIDE DEF n
    <3>2. \E c \in ClientRecs : c = n /\ c.pc = pc
      BY <3>1
    <3> QED BY <3>2 DEF n
  <2>2. cl' = [cl EXCEPT ![k] = c] /\ c.pc \notin {"wrq", "put"}
    BY <1>4, <2>1 DEF Through
  <2> QED BY <1>3, <1>4, <2>2
<1>5. CASE GotBlock(k, p) /\ ~UNCHANGED <<cl, toSrv>>
  <2> DEFINE n == [cl[k] EXCEPT !.pc = IF Len(p.bytes) < SegSz THEN "done" ELSE "get",
                                !.blk = p.n, !.got = @ \o p.bytes]
  <2>1. cl' = [cl EXCEPT ![k] = n] /\ p.op = "DATA" /\ Active(k)
    BY <1>5 DEF GotBlock, Active
  <2>2. Putting' = FALSE
    <3>1. n.pc \in {"done", "get"}
      BY <1>1 DEF ClientRecs
    <3> HIDE DEF n
    <3>2. cl'[k] = n /\ \A j \in Clients : j # k => cl'[j] = cl[j]
      BY <2>1 DEF Typed
    <3>3. \A j \in Clients : j # k => cl[j].pc \notin {"wrq", "put"}
      BY <2>1 DEF TransferInv, Active
    <3> QED BY <3>1, <3>2, <3>3 DEF Putting
  <2> QED BY <1>1, <2>2 DEF CalmInv, Putting
<1>6. CASE PutAcked(k, p) /\ ~UNCHANGED <<cl, toSrv>>
           /\ Advance(k, [cl[k] EXCEPT !.pc = "put", !.blk = @ + 1])
  <2>1. PICK b, f : b = cl[k].blk /\ f = cl[k].file
    OBVIOUS
  <2>2. p.op = "ACK" /\ cl[k].pc \in {"wrq", "put"} /\ Active(k) /\ InStep(cl[k])
    BY <1>6 DEF PutAcked, Active, CalmInv
  <2>3. b \in Nat /\ f \in AnyFile /\ b + 1 # 0 /\ b + 1 \in Nat /\ (b + 1) - 1 = b
        /\ (cl[k].pc = "put" => b # 0)
    BY <1>1, <2>1, <2>2 DEF ClientRecs
  <2>4. cl[k].pc = "put" => ~(Len(Block(Bytes(f), b)) < SegSz)
    <3>1. p.n # b => UNCHANGED <<cl, toSrv>>
      BY <1>6, <2>1 DEF PutAcked
    <3>2. p.n = b /\ cl[k].pc = "put" /\ Len(Block(Bytes(f), b)) < SegSz
            => Through(k, [cl[k] EXCEPT !.pc = "done"])
      BY <1>6, <2>1 DEF PutAcked
    <3>3. Through(k, [cl[k] EXCEPT !.pc = "done"]) => cl'[k].pc = "done"
      BY <1>1 DEF Through, Typed, ClientRecs
    <3>4. cl'[k].pc = "put"
      BY <1>1, <1>6 DEF Advance, Typed, ClientRecs
    <3> QED BY <1>6, <3>1, <3>2, <3>3, <3>4
  <2>5. cl[k].pc = "put" => Len(Block(Bytes(f), b)) = SegSz
    <3> SUFFICES ASSUME cl[k].pc = "put" PROVE Len(Block(Bytes(f), b)) = SegSz
      OBVIOUS
    <3>1. Bytes(f) \in Seq(Int) /\ b \in Nat \ {0}
      BY <2>3, FileType
    <3>2. Len(Block(Bytes(f), b)) \in 0..SegSz /\ SegSz \in Nat
      BY <3>1, BlockType, TftpAssumption
    <3> QED BY <2>4, <3>2
  <2>6. At(b) /\ b * SegSz <= f.len /\ toSrv = {} /\ toCl' = {}
    <3>1. toSrv = {} /\ toCl' = {}
      BY <1>1, <2>2 DEF InStep
    <3>2. At(cl[k].blk) /\ cl[k].blk * SegSz <= cl[k].file.len
      BY <2>1, <2>2, <2>5 DEF InStep
    <3> QED BY <2>1, <3>1, <3>2
  <2>7. PICK c \in ClientRecs : /\ c = [cl[k] EXCEPT !.pc = "put", !.blk = @ + 1]
                                /\ c.pc = "put" /\ c.blk = b + 1 /\ c.file = f
    <3> DEFINE n == [cl[k] EXCEPT !.pc = "put", !.blk = @ + 1]
    <3>1. n \in ClientRecs /\ n.pc = "put" /\ n.blk = b + 1 /\ n.file = f
      BY <1>1, <2>1, <2>3 DEF ClientRecs
    <3> HIDE DEF n
    <3>2. \E c \in ClientRecs : c = n /\ c.pc = "put" /\ c.blk = b + 1 /\ c.file = f
      BY <3>1
    <3> QED BY <3>2 DEF n
  <2>8. InStep(c)'
    <3>1. At(b)'
      BY <1>1, <2>6 DEF At
    <3> QED BY <2>3, <2>6, <2>7, <3>1 DEF InStep
  <2>9. cl' = [cl EXCEPT ![k] = c]
    BY <1>6, <2>7 DEF Advance
  <2> QED BY <1>3, <2>2, <2>8, <2>9
<1>7. CASE PutAcked(k, p)
  BY <1>2, <1>4, <1>6, <1>7 DEF PutAcked, Active
<1> QED BY <1>2, <1>4, <1>5, <1>7 DEF Hear

(* Every step of a calm network keeps the writer in step and the settings. *)
LEMMA CalmStep ==
  ASSUME Patient, Typed, TransferInv, CalmInv, Enabled, FilesFit, [Next]_vars
  PROVE  CalmInv'
<1> USE DEF srvVars, efcVars, mainVars, boundVars
<1>1. faulty' = faulty
  BY ContentsKept
<1> SUFFICES ASSUME ~faulty PROVE CalmInv'
  BY <1>1 DEF CalmInv
<1>2. /\ faults = MaxFaults /\ mem[EthPage * PageSz] = Config /\ ~(faults < MaxFaults)
  BY TftpAssumption DEF CalmInv
<1>3. CASE BatchEnd \/ Main \/ Over \/ UNCHANGED vars
  <2>1. UNCHANGED <<cl, toSrv, toCl, mem, start, left, faults>>
    BY <1>3 DEF BatchEnd, Main, MainWakes, MainCopies, Over, vars
  <2> QED BY <1>1, <2>1 DEF CalmInv, InStep, At
<1>4. ~Lose
  BY <1>2 DEF Lose
<1>5. ASSUME NEW k \in Clients, Client(k) PROVE CalmInv'
  <2>1. ASSUME NEW c \in ClientRecs, Begin(k, c),
               c.pc = "rrq" \/ (c.pc = "wrq" /\ c.file \in Puts[faulty] /\ c.blk = 0)
        PROVE  CalmInv'
    <3>1. toCl' = {} /\ Settled
      BY <2>1, TransferBegins
    <3>2. cl' = [cl EXCEPT ![k] = c] /\ UNCHANGED <<mem, faults>>
      BY <2>1 DEF Begin
    <3>3. cl'[k] = c /\ \A j \in Clients : j # k => cl'[j].pc \notin {"wrq", "put"}
      BY <3>1, <3>2 DEF Typed, Settled, Active
    <3>4. c.pc = "wrq" => InStep(c)'
      BY <2>1, <3>1 DEF InStep
    <3> QED BY <1>1, <1>2, <2>1, <3>2, <3>3, <3>4 DEF CalmInv
  <2>2. CASE BeginPut(k)
    <3>1. PICK f \in Puts[faulty] : Begin(k, Writer(f))
      BY <2>2 DEF BeginPut, Writer
    <3> QED BY <2>1, <3>1, PutRec
  <2>3. CASE BeginGet(k)
    <3>1. PICK name \in Gets : Begin(k, Reader(cl[k], name))
      BY <2>3 DEF BeginGet, Reader
    <3> QED BY <2>1, <3>1, GetRec
  <2>4. ~Repeat(k)
    BY <1>2 DEF Repeat
  <2>5. CASE GiveUp(k)
    <3>1. PICK n : n = [cl[k] EXCEPT !.pc = "failed"]
      OBVIOUS
    <3>2. n.pc = "failed" /\ cl' = [cl EXCEPT ![k] = n] /\ Active(k) /\ UNCHANGED <<mem, faults>>
      BY <2>5, <3>1 DEF GiveUp, Through, Typed, ClientRecs
    <3>3. cl'[k] = n /\ \A j \in Clients : j # k => cl'[j].pc \notin {"wrq", "put"}
      BY <3>2 DEF Typed, TransferInv, Active
    <3> QED BY <1>1, <1>2, <3>2, <3>3 DEF CalmInv
  <2>6. CASE \E p \in toCl : Hear(k, p)
    BY <2>6, CalmHears
  <2> QED BY <1>5, <2>2, <2>3, <2>4, <2>5, <2>6 DEF Client
<1>6. CASE \E p \in toSrv : HandleWrq(p) \/ HandleData(p) \/ HandleRrq(p) \/ HandleAck(p)
  BY <1>6, CalmServer
<1> QED BY <1>3, <1>4, <1>5, <1>6 DEF Next, Server

(* The address settings survive every transfer of a file that ends below   *)
(* them: the block that tftpd_wrq() erases holds them and has them written *)
(* back, and no page efc1_write_data() programs or clears is theirs,       *)
(* although nothing in tftpd.c compares tfs.start with a bound.  A network *)
(* without faults is needed: a repeated block is stored a second time.     *)
THEOREM SettingsSurvive ==
  ASSUME Patient, Enabled, FilesFit
  PROVE  Spec => []ConfigKept
<1>1. Typed /\ [Next]_vars => Typed'
  BY TypeStep
<1>2. Typed /\ TransferInv /\ [Next]_vars => TransferInv'
  BY TransferStep
<1>3. Typed /\ TransferInv /\ CalmInv /\ [Next]_vars => CalmInv'
  BY CalmStep
<1>4. CalmInv => ConfigKept
  BY DEF CalmInv, ConfigKept
<1> QED BY TypeInit, TransferInit, CalmInit, <1>1, <1>2, <1>3, <1>4, PTL DEF Spec

(***************************************************************************)
(* What a calm network leaves in the bank.                                 *)
(***************************************************************************)
(* The bank holds the first n bytes of f, the settings and nothing else. *)
Holds(m, f, n) ==
  \A a \in Addr :
    m[a] = IF a < n THEN Bytes(f)[a + 1] ELSE IF a = EthPage * PageSz THEN Config ELSE Blank

(* A block is a number of pages: SEG_SZ is 512, EFC_PAGE_SZ is 256. *)
WholePages == SegSz % PageSz = 0

(* No file ends on the last two bytes of a page: efc_get_length() does not *)
(* look at them.                                                           *)
EndsInPage == \A f \in Puts[FALSE] : f.len % PageSz # 0 /\ f.len % PageSz # PageSz - 1

(* An upper bound that is in the set is the highest. *)
LEMMA HighestUnique ==
  ASSUME NEW S, NEW x \in S, \A n \in S : n \in Int /\ n <= x
  PROVE  Highest(S) = x
<1>1. \E m \in S : \A n \in S : n <= m
  OBVIOUS
<1>2. Highest(S) \in S /\ \A n \in S : n <= Highest(S)
  BY <1>1 DEF Highest
<1>3. Highest(S) <= x /\ x <= Highest(S) /\ Highest(S) \in Int /\ x \in Int
  BY <1>2
<1> QED BY <1>3

(* A byte of a file that may be written. *)
LEMMA FileByte ==
  ASSUME NEW f \in Puts[FALSE], NEW i \in 1..f.len
  PROVE  Bytes(f)[i] \in Nat /\ Bytes(f)[i] # Blank /\ Bytes(f)[i] # Config
<1>1. f \in AnyFile
  BY DEF AnyFile
<1>2. f.tag \in Nat /\ f.len \in Nat
  BY <1>1, FileType
<1>3. Bytes(f)[i] = 100 * f.tag + i
  BY DEF Bytes
<1>4. 100 * f.tag + i \in Nat
  BY <1>2
<1> QED BY <1>3, <1>4 DEF Blank, Config

(* An address in a page, from the page and the offset. *)
LEMMA AddrIs ==
  ASSUME NEW p \in Nat, p <= EthPage, NEW i \in 0..(PageSz - 1)
  PROVE  /\ p * PageSz + i \in Addr
         /\ PageOf(p * PageSz + i) = p /\ (p * PageSz + i) % PageSz = i
<1> DEFINE x == p * PageSz
           e == (EthPage + 1) * PageSz
           a == x + i
<1>1. PageSz \in Nat \ {0} /\ EthPage \in Nat /\ p \in Int /\ p + 1 \in Int /\ EthPage + 1 \in Int
  BY FlashAssumption
<1>2. x \in Nat /\ e \in Int
  <2>1. 0 * PageSz <= x /\ 0 * PageSz = 0 /\ x \in Int
    BY <1>1, PageOrder
  <2> HIDE DEF x
  <2> QED BY <1>1, <2>1, PageOrder
<1>3. x + PageSz <= e
  <2>1. (p + 1) * PageSz = x + 1 * PageSz /\ 1 * PageSz = PageSz
    BY <1>1, PageOrder
  <2>2. p + 1 <= EthPage + 1
    BY <1>1
  <2> DEFINE v == (p + 1) * PageSz
             n == p + 1
             h == EthPage + 1
  <2>3. n * PageSz <= h * PageSz
    <3> HIDE DEF n, h
    <3>1. n \in Int /\ h \in Int /\ n <= h
      BY <1>1, <2>2 DEF n, h
    <3> QED BY <3>1, PageOrder
  <2>4. v <= e
    BY <2>3
  <2> HIDE DEF v, e, x, n, h
  <2> QED BY <2>1, <2>4 DEF v
<1>4. a \in Nat /\ x <= a /\ a < x + PageSz /\ a \in 0..(e - 1) /\ a - x = i
  <2> HIDE DEF x, e
  <2> QED BY <1>1, <1>2, <1>3
<1>5. a \div PageSz = p /\ a % PageSz = a - x
  <2> HIDE DEF a
  <2> QED BY <1>1, <1>4, PageIs
<1> HIDE DEF x, e
<1> QED BY <1>4, <1>5 DEF x, e, Addr, BankSz, PageOf

(* efc_get_length() finds a byte at the start of the bank. *)
LEMMA LengthSome ==
  ASSUME NEW m, PageSz >= 3, m[0] # Blank
  PROVE  GetLength(m) # 0
<1> DEFINE P == {0} \union {p \in 1..TopPage(m) : LooksUsed(m, p)}
           lp == LastPage(m)
           last == lp * PageSz + PageSz - 1
           K == {0} \union {k \in 1..(last - 1) : m[k - 1] # Blank}
<1>1. /\ PageSz \in Nat \ {0} /\ GpioPage \in Nat \ {0}
      /\ EthPage \in Nat /\ EthPage > GpioPage
  BY FlashAssumption
<1>2. TopPage(m) \in Nat
  BY <1>1 DEF TopPage
<1>3. lp \in Nat
  <2>1. P \in SUBSET (0..TopPage(m)) /\ P # {}
    BY <1>2
  <2> HIDE DEF P
  <2>2. Highest(P) \in P
    BY <1>2, <2>1, HighestIs
  <2>3. Highest(P) \in 0..TopPage(m)
    BY <2>1, <2>2, Zenon
  <2>4. Highest(P) \in Nat
    BY <1>2, <2>3
  <2> QED BY <2>4 DEF LastPage, P
<1>4. last - 1 >= 1 /\ last \in Nat
  <2>1. lp * PageSz \in Int /\ 0 * PageSz <= lp * PageSz /\ 0 * PageSz = 0
    BY <1>1, <1>3, PageOrder
  <2> DEFINE w == lp * PageSz
  <2> HIDE DEF w
  <2>2. w \in Int /\ 0 <= w /\ last = w + PageSz - 1
    BY <2>1 DEF w
  <2> HIDE DEF last
  <2> QED BY <1>1, <2>2
<1> HIDE DEF last
<1>5. K \in SUBSET (0..last) /\ 1 \in K
  BY <1>4
<1> HIDE DEF K
<1>6. Highest(K) \in K /\ \A n \in K : n <= Highest(K)
  BY <1>4, <1>5, HighestIs
<1>7. Highest(K) # 0
  BY <1>5, <1>6
<1> QED BY <1>7 DEF GetLength, K, last

(* efc_get_length() and crc32() find the file that was written. *)
LEMMA LengthIs ==
  ASSUME FilesFit, EndsInPage, NEW f \in Puts[FALSE], NEW m, Holds(m, f, f.len)
  PROVE  GetLength(m) = f.len /\ Stored(m) = Bytes(f)
<1> DEFINE b == Bytes(f)
           n == f.len
           q == (n - 1) \div PageSz
           o == (n - 1) % PageSz
           x == q * PageSz
           e == EthPage * PageSz
<1>1. /\ PageSz \in Nat \ {0} /\ PageSz >= 2 * WordSz /\ WordSz \in Nat \ {0}
      /\ GpioPage \in Nat \ {0} /\ EthPage \in Nat /\ EthPage > GpioPage /\ e \in Int
  BY FlashAssumption
<1>2. n \in Nat \ {0} /\ n <= e /\ n - 1 \in Nat
  <2>1. f \in AnyFile
    BY DEF AnyFile
  <2>2. n \in Nat \ {0}
    BY <2>1, FileType
  <2>3. n <= e
    BY DEF FilesFit
  <2> HIDE DEF n, e
  <2> QED BY <2>2, <2>3
<1>3. q \in Nat /\ o \in Nat /\ o < PageSz /\ n - 1 = x + o /\ x \in Int
  <2>1. PICK t \in Nat : t = n - 1
    BY <1>2
  <2>2. q = t \div PageSz /\ o = t % PageSz
    BY <2>1
  <2>3. /\ t \div PageSz \in Nat /\ t % PageSz \in Nat /\ t % PageSz < PageSz
        /\ t = (t \div PageSz) * PageSz + (t % PageSz)
    BY PageOffset
  <2> HIDE DEF q, o
  <2>4. x \in Int
    BY <2>2, <2>3, PageOrder
  <2> QED BY <2>1, <2>2, <2>3, <2>4
<1>4. q < EthPage
  <2>1. x < e
    <3> HIDE DEF n, x, e, q, o
    <3> QED BY <1>1, <1>2, <1>3
  <2> HIDE DEF q
  <2>2. q \in Int /\ EthPage \in Int
    BY <1>1, <1>3
  <2> QED BY <2>1, <2>2, PageOrder
<1>5. o + 2 < PageSz
  <2>1. CASE o = PageSz - 1
    <3>1. n = (q + 1) * PageSz /\ q + 1 \in Int
      <4>1. (q + 1) * PageSz = x + 1 * PageSz /\ 1 * PageSz = PageSz
        BY <1>1, <1>3, PageOrder
      <4> DEFINE v == (q + 1) * PageSz
      <4> HIDE DEF v, x, n, q, o
      <4>2. n = v
        BY <1>1, <1>2, <1>3, <2>1, <4>1 DEF v
      <4> QED BY <1>3, <4>2 DEF v
    <3> DEFINE y == q + 1
    <3>2. y * PageSz <= n /\ n < y * PageSz + PageSz /\ y \in Int /\ n - y * PageSz = 0
      <4> HIDE DEF n, q
      <4>1. y \in Int /\ n = y * PageSz /\ n \in Int
        BY <1>2, <3>1
      <4> HIDE DEF y
      <4> QED BY <1>1, <4>1
    <3> HIDE DEF y
    <3>3. n % PageSz = 0
      <4> HIDE DEF n
      <4>1. n % PageSz = n - y * PageSz
        BY <1>2, <3>2, PageIs
      <4> QED BY <3>2, <4>1
    <3> QED BY <3>3 DEF EndsInPage
  <2>2. CASE o = PageSz - 2
    <3>1. x <= n /\ n < x + PageSz /\ n - x = PageSz - 1
      <4> HIDE DEF n, x, q, o
      <4> QED BY <1>1, <1>2, <1>3, <2>2
    <3>2. n % PageSz = n - x
      <4> HIDE DEF n, q, o
      <4> QED BY <1>2, <1>3, <3>1, PageIs
    <3>3. n % PageSz = PageSz - 1
      BY <3>1, <3>2
    <3> QED BY <3>3 DEF EndsInPage
  <2> HIDE DEF o
  <2> QED BY <1>1, <1>3, <2>1, <2>2
<1>6. ASSUME NEW i \in 0..(n - 1) PROVE i \in Addr /\ m[i] = b[i + 1] /\ m[i] # Blank
  <2>1. i + 1 \in 1..n /\ i \in Nat /\ i < n
    <3> HIDE DEF n
    <3> QED BY <1>2
  <2>2. i \in Addr
    <3>1. (EthPage + 1) * PageSz = e + 1 * PageSz /\ 1 * PageSz = PageSz
      BY <1>1, PageOrder
    <3> DEFINE v == (EthPage + 1) * PageSz
    <3> HIDE DEF v, e, n
    <3>2. i \in 0..(v - 1)
      BY <1>1, <1>2, <2>1, <3>1 DEF v
    <3> QED BY <3>2 DEF v, Addr, BankSz
  <2>3. b[i + 1] # Blank
    BY <2>1, FileByte
  <2> QED BY <2>1, <2>2, <2>3 DEF Holds
<1>7. ASSUME NEW p \in Nat, p <= q PROVE LooksUsed(m, p)
  <2>1. p * PageSz <= x /\ p * PageSz \in Int /\ 0 * PageSz <= p * PageSz /\ 0 * PageSz = 0
    <3> HIDE DEF q
    <3> QED BY <1>1, <1>3, <1>7, PageOrder
  <2> DEFINE y == p * PageSz
  <2>2. y \in 0..(n - 1) /\ y + 0 = y
    <3> HIDE DEF n, x, y, q, o
    <3> QED BY <1>2, <1>3, <2>1 DEF y
  <2>3. m[y + 0] # Blank
    BY <1>6, <2>2
  <2>4. 0 \in (0..(WordSz - 1)) \union ((PageSz - WordSz)..(PageSz - 1))
    BY <1>1
  <2> HIDE DEF y
  <2> QED BY <2>3, <2>4 DEF LooksUsed, y
<1>8. ASSUME NEW p \in Nat, q < p, p < EthPage PROVE ~LooksUsed(m, p)
  <2> SUFFICES ASSUME NEW i \in (0..(WordSz - 1)) \union ((PageSz - WordSz)..(PageSz - 1))
               PROVE  m[p * PageSz + i] = Blank
    BY DEF LooksUsed
  <2>1. i \in 0..(PageSz - 1)
    BY <1>1
  <2> DEFINE a == p * PageSz + i
  <2>2. a \in Addr /\ PageOf(a) = p
    <3>1. p <= EthPage
      BY <1>1, <1>8
    <3> QED BY <2>1, <3>1, AddrIs
  <2>3. a # e
    <3>1. PageOf(e) = EthPage
      BY ConfigAddr
    <3>2. p # EthPage
      BY <1>1, <1>8
    <3> HIDE DEF a, e
    <3> QED BY <2>2, <3>1, <3>2
  <2>4. ~(a < n)
    <3>1. (q + 1) * PageSz = q * PageSz + PageSz /\ (q + 1) * PageSz \in Int
      <4>1. q \in Int
        BY <1>3
      <4> HIDE DEF q
      <4> QED BY <4>1, NextPage
    <3>2. (q + 1) * PageSz <= p * PageSz /\ p * PageSz \in Int
      <4>1. q + 1 \in Int /\ q + 1 <= p /\ p \in Int
        BY <1>3, <1>8
      <4> DEFINE r == q + 1
      <4> HIDE DEF r
      <4>2. r * PageSz <= p * PageSz /\ p * PageSz \in Int
        BY <4>1, PageOrder DEF r
      <4> QED BY <4>2 DEF r
    <3> DEFINE v == (q + 1) * PageSz
               y == p * PageSz
    <3> HIDE DEF v, y, n, x, q, o
    <3>3. v = x + PageSz /\ v <= y /\ v \in Int /\ y \in Int
      BY <3>1, <3>2 DEF v, y, x
    <3>4. a = y + i
      BY DEF y
    <3> HIDE DEF a
    <3> QED BY <1>1, <1>2, <1>3, <2>1, <3>3, <3>4
  <2> HIDE DEF a, e, n
  <2> QED BY <2>2, <2>3, <2>4 DEF Holds, a, e, n
<1>9. q <= TopPage(m) /\ TopPage(m) \in Nat /\ TopPage(m) < EthPage
  <2>1. TopPage(m) = IF LooksUsed(m, GpioPage - 1) THEN EthPage - 1 ELSE GpioPage - 1
    BY DEF TopPage
  <2>2. GpioPage - 1 \in Nat
    BY <1>1
  <2>3. ~LooksUsed(m, GpioPage - 1) => q < GpioPage - 1
    <3> HIDE DEF q
    <3>1. q < GpioPage - 1 \/ GpioPage - 1 <= q
      BY <1>3, <2>2
    <3> QED BY <1>7, <2>2, <3>1
  <2> HIDE DEF q
  <2> QED BY <1>1, <1>3, <1>4, <2>1, <2>3
<1>10. LastPage(m) = q
  <2> DEFINE S == {0} \union {p \in 1..TopPage(m) : LooksUsed(m, p)}
  <2>1. q \in S
    <3>1. q = 0 \/ q \in 1..TopPage(m)
      <4> HIDE DEF q
      <4> QED BY <1>3, <1>9
    <3>2. LooksUsed(m, q)
      <4> HIDE DEF q
      <4> QED BY <1>3, <1>7
    <3> QED BY <3>1, <3>2
  <2>2. \A p \in S : p \in Int /\ p <= q
    <3> SUFFICES ASSUME NEW p \in 1..TopPage(m), LooksUsed(m, p) PROVE p <= q
      BY <1>3
    <3>1. p \in Nat /\ p < EthPage
      BY <1>1, <1>9
    <3> HIDE DEF q
    <3> QED BY <1>3, <1>8, <3>1
  <2> HIDE DEF S, q
  <2>3. Highest(S) = q
    BY <2>1, <2>2, HighestUnique
  <2> QED BY <2>3 DEF S, LastPage
<1> DEFINE last == q * PageSz + PageSz - 1
           K == {0} \union {k \in 1..(last - 1) : m[k - 1] # Blank}
<1>11. GetLength(m) = Highest(K)
  BY <1>10 DEF GetLength
<1>12. Highest(K) = n
  <2>1. last = x + PageSz - 1
    OBVIOUS
  <2> HIDE DEF q, x, o
  <2>2. n \in 1..(last - 1) /\ last \in Int /\ n - 1 \in 0..(n - 1)
    <3> HIDE DEF n, last
    <3> QED BY <1>1, <1>2, <1>3, <1>5, <2>1
  <2>3. n \in K
    BY <1>6, <2>2
  <2>4. ASSUME NEW k \in 1..(last - 1), k > n PROVE m[k - 1] = Blank
    <3> DEFINE i == k - 1 - x
    <3>1. i \in 0..(PageSz - 1) /\ ~(k - 1 < n) /\ k - 1 = x + i /\ k \in Int
      <4> HIDE DEF n, last
      <4> QED BY <1>1, <1>2, <1>3, <2>1, <2>2, <2>4
    <3> HIDE DEF i
    <3>2. k - 1 \in Addr /\ PageOf(k - 1) = q
      <4>1. q \in Nat /\ q <= EthPage
        BY <1>1, <1>3, <1>4
      <4>2. q * PageSz + i \in Addr /\ PageOf(q * PageSz + i) = q
        BY <3>1, <4>1, AddrIs
      <4>3. k - 1 = q * PageSz + i
        BY <3>1 DEF x
      <4> QED BY <4>2, <4>3
    <3>3. k - 1 # e
      <4>1. PageOf(e) = EthPage
        BY ConfigAddr
      <4>2. q # EthPage
        BY <1>1, <1>3, <1>4
      <4> HIDE DEF e
      <4> QED BY <3>2, <4>1, <4>2
    <3> QED BY <3>1, <3>2, <3>3 DEF Holds
  <2>5. \A k \in K : k \in Int /\ k <= n
    <3> SUFFICES ASSUME NEW k \in 1..(last - 1), m[k - 1] # Blank PROVE k <= n
      BY <1>2
    <3> HIDE DEF n, last
    <3> QED BY <1>2, <2>2, <2>4
  <2> HIDE DEF K, n
  <2> QED BY <2>3, <2>5, HighestUnique
<1>13. GetLength(m) = n
  BY <1>11, <1>12
<1>14. \A i \in 1..n : m[i - 1] = b[i]
  <2> SUFFICES ASSUME NEW i \in 1..n PROVE m[i - 1] = b[i]
    OBVIOUS
  <2>1. i - 1 \in 0..(n - 1) /\ (i - 1) + 1 = i
    <3> HIDE DEF n
    <3> QED BY <1>2
  <2> QED BY <1>6, <2>1
<1>15. Stored(m) = b
  <2>1. Stored(m) = [i \in 1..n |-> m[i - 1]]
    BY <1>13 DEF Stored
  <2>2. b = [i \in 1..n |-> b[i]]
    BY DEF Bytes
  <2> HIDE DEF n, b
  <2> QED BY <1>14, <2>1, <2>2
<1> QED BY <1>13, <1>15

(* An address is below a page boundary when its page is. *)
LEMMA PageBelow ==
  ASSUME NEW a \in Addr, NEW q \in Int
  PROVE  PageOf(a) < q <=> a < q * PageSz
<1> DEFINE p == PageOf(a)
           x == p * PageSz
           y == q * PageSz
           z == (p + 1) * PageSz
<1>1. a \in Nat /\ p \in Nat /\ x \in Int /\ x <= a /\ a < x + PageSz
  BY AddrPage
<1>2. p \in Int /\ p + 1 \in Int
  BY <1>1
<1> HIDE DEF p
<1>3. z = x + PageSz /\ z \in Int /\ y \in Int
  BY <1>2, NextPage, PageOrder
<1>4. p < q => z <= y
  <2> DEFINE r == p + 1
  <2>1. p < q => r <= q
    BY <1>2
  <2>2. r \in Int
    BY <1>2
  <2> HIDE DEF r
  <2>3. p < q => r * PageSz <= q * PageSz
    BY <2>1, <2>2, PageOrder
  <2> QED BY <2>3 DEF r
<1>5. q <= p => y <= x
  BY <1>2, PageOrder
<1>6. p < q \/ q <= p
  BY <1>2
<1>7. PageSz \in Nat
  BY FlashAssumption
<1> HIDE DEF x, y, z
<1>8. p < q <=> a < y
  <2>1. p < q => a < y
    BY <1>1, <1>3, <1>4, <1>7
  <2>2. q <= p => ~(a < y) /\ ~(p < q)
    BY <1>1, <1>2, <1>3, <1>5
  <2> QED BY <1>6, <2>1, <2>2
<1> QED BY <1>8 DEF p, y

(* The end of a sequence of n that is left after fp. *)
LEMMA RestIs ==
  ASSUME NEW fp \in Nat, NEW n \in Nat, NEW r \in Nat, n = fp + r, r # 0
  PROVE  /\ fp + 1 \in Int /\ n \in Int /\ n - (fp + 1) + 1 = r /\ fp + 1 <= n
         /\ \A i \in 1..r : fp + 1 + i - 1 = fp + i /\ fp + i \in 1..n
OBVIOUS

(* efc1_write_data() at the start of a page, with nothing left over,       *)
(* stores what it is given.                                                *)
LEMMA WriteHolds ==
  ASSUME FilesFit, NEW f \in Puts[FALSE], NEW m \in [Addr -> Int], NEW j \in Nat,
         NEW d \in Seq(Int), Len(d) > 0, j * PageSz + Len(d) <= f.len,
         \A i \in 1..Len(d) : d[i] = Bytes(f)[j * PageSz + i],
         Holds(m, f, j * PageSz), NEW e,
         e => j * PageSz + Len(d) = f.len /\ f.len % PageSz # 0,
         ~e => Len(d) % PageSz = 0
  PROVE  Holds(WriteData(m, <<>>, d, j * PageSz, e).mem, f, j * PageSz + Len(d))
<1> DEFINE b == Bytes(f)
           sp == j * PageSz
           all == <<>> \o d
           first == PageOf(sp)
           n == Len(all)
           full == n \div PageSz
           r == n % PageSz
           fp == full * PageSz
           rest == SubSeq(all, full * PageSz + 1, n)
           lastp == IF rest = <<>> /\ full > 0 THEN first + full - 1 ELSE first + full
           paged == [a \in Addr |->
                      IF PageOf(a) \in first..(first + full - 1)
                        THEN all[a - first * PageSz + 1] ELSE m[a]]
           ended == WritePage(paged, rest, lastp)
           w == WriteData(m, <<>>, d, sp, e)
           ep == EthPage * PageSz
           t == sp + n
<1>1. /\ w.mem = IF ~e THEN paged
                 ELSE [a \in Addr |->
                        IF PageOf(a) > lastp /\ PageOf(a) < EthPage /\ LooksUsed(paged, PageOf(a))
                          THEN Blank ELSE ended[a]]
  <2>1. w = WriteAligned(m, <<>>, d, sp, e)
    <3>1. sp \in Nat /\ sp % PageSz = 0
      BY PageStart
    <3> HIDE DEF sp
    <3> QED BY <3>1, FreshWrite
  <2> HIDE DEF w, sp
  <2> DEFINE new == IF ~e THEN paged
                    ELSE [a \in Addr |->
                           IF PageOf(a) > lastp /\ PageOf(a) < EthPage
                              /\ LooksUsed(paged, PageOf(a))
                             THEN Blank ELSE ended[a]]
  <2>2. WriteAligned(m, <<>>, d, sp, e) = [mem |-> new, left |-> rest]
    BY Zenon DEF WriteAligned
  <2>3. ASSUME NEW x, NEW y PROVE [mem |-> x, left |-> y].mem = x
    OBVIOUS
  <2> HIDE DEF new, rest
  <2>4. w.mem = new
    BY <2>1, <2>2, <2>3
  <2> QED BY <2>4 DEF new
<1>2. all = d
  BY ConcatEmptySeq
<1>3. /\ PageSz \in Nat \ {0} /\ EthPage \in Nat /\ n \in Nat /\ n > 0 /\ all \in Seq(Int)
      /\ \A i \in 1..n : all[i] = b[sp + i]
  BY <1>2, FlashAssumption
<1> HIDE DEF w, all
<1>4. sp \in Nat /\ first = j
  <2>1. sp \in Int /\ 0 * PageSz <= sp /\ 0 * PageSz = 0
    <3>1. 0 * PageSz = 0
      BY <1>3
    <3> QED BY <3>1, PageOrder
  <2> DEFINE x == sp
  <2>2. x \in Nat /\ j * PageSz <= x /\ x < j * PageSz + PageSz
    <3>1. sp \in Nat /\ sp <= sp /\ sp < sp + PageSz
      <4> HIDE DEF sp
      <4> QED BY <1>3, <2>1
    <3> QED BY <3>1
  <2> HIDE DEF x
  <2>3. x \div PageSz = j
    BY <2>2, PageIs
  <2> QED BY <2>2, <2>3 DEF x, PageOf
<1> HIDE DEF first
<1>5. full \in Nat /\ r \in Nat /\ r < PageSz /\ n = fp + r /\ fp \in Nat
  <2> HIDE DEF n
  <2>1. full \in Nat /\ r \in Nat /\ r < PageSz /\ n = fp + r
    BY <1>3, PageOffset
  <2> HIDE DEF full, r
  <2>2. fp \in Int /\ 0 * PageSz <= fp /\ 0 * PageSz = 0
    <3>1. 0 * PageSz = 0
      BY <1>3
    <3> QED BY <2>1, <3>1, PageOrder
  <2> HIDE DEF fp
  <2> QED BY <2>1, <2>2
<1>6. t <= f.len /\ t \in Nat /\ f.len \in Nat
  <2>1. f \in AnyFile
    BY DEF AnyFile
  <2>2. f.len \in Nat
    BY <2>1, FileType
  <2>3. sp + n <= f.len
    BY <1>2
  <2> HIDE DEF sp, n
  <2> QED BY <1>3, <1>4, <2>2, <2>3
<1>7. (j + full) * PageSz = sp + fp /\ j + full \in Nat
  <2> HIDE DEF full
  <2> QED BY <1>5, PageOrder
<1> HIDE DEF full, r, n
<1>8. Holds(paged, f, sp + fp)
  <2> SUFFICES ASSUME NEW a \in Addr
               PROVE  paged[a] = IF a < sp + fp THEN b[a + 1] ELSE IF a = ep THEN Config ELSE Blank
    BY DEF Holds
  <2>1. a \in Nat /\ PageOf(a) \in Nat
    BY AddrPage
  <2>2. (PageOf(a) < j <=> a < sp) /\ (PageOf(a) < j + full <=> a < sp + fp)
    <3>1. PageOf(a) < j + full <=> a < (j + full) * PageSz
      <4> DEFINE h == j + full
      <4>1. h \in Int
        BY <1>7
      <4> HIDE DEF h
      <4>2. PageOf(a) < h <=> a < h * PageSz
        BY <4>1, PageBelow
      <4> QED BY <4>2 DEF h
    <3>2. PageOf(a) < j <=> a < sp
      BY PageBelow
    <3> QED BY <1>7, <3>1, <3>2
  <2>3. m[a] = IF a < sp THEN b[a + 1] ELSE IF a = ep THEN Config ELSE Blank
    BY DEF Holds
  <2>4. CASE a < sp
    <3>1. PageOf(a) \notin first..(first + full - 1) /\ a < sp + fp
      <4> HIDE DEF sp, fp
      <4> QED BY <1>4, <1>5, <2>1, <2>2, <2>4
    <3> QED BY <2>3, <2>4, <3>1
  <2>5. CASE ~(a < sp) /\ a < sp + fp
    <3>1. PageOf(a) \in first..(first + full - 1)
      <4> HIDE DEF sp, fp
      <4> QED BY <1>4, <1>5, <2>1, <2>2, <2>5
    <3>2. first * PageSz = sp
      BY <1>4
    <3>3. a - sp + 1 \in 1..n /\ sp + (a - sp + 1) = a + 1
      <4> HIDE DEF sp, fp
      <4> QED BY <1>3, <1>4, <1>5, <2>1, <2>5
    <3>4. paged[a] = all[a - sp + 1]
      BY <3>1, <3>2
    <3>5. all[a - sp + 1] = b[sp + (a - sp + 1)]
      <4> HIDE DEF sp, b
      <4> QED BY <1>3, <3>3
    <3> HIDE DEF paged, sp, fp, b
    <3> QED BY <2>5, <3>3, <3>4, <3>5
  <2>6. CASE ~(a < sp + fp)
    <3>1. PageOf(a) \notin first..(first + full - 1) /\ ~(a < sp)
      <4> HIDE DEF sp, fp
      <4> QED BY <1>4, <1>5, <1>7, <2>1, <2>2, <2>6
    <3> QED BY <2>3, <2>6, <3>1
  <2> QED BY <2>4, <2>5, <2>6
<1> HIDE DEF paged
<1>9. CASE ~e
  <2>1. r = 0
    BY <1>2, <1>9 DEF r, n
  <2>2. sp + fp = t
    <3> HIDE DEF sp, fp
    <3> QED BY <1>4, <1>5, <2>1
  <2>3. w.mem = paged
    BY <1>1, <1>9
  <2>4. t = j * PageSz + Len(d)
    BY <1>2 DEF n
  <2> HIDE DEF t, fp, sp
  <2>5. Holds(w.mem, f, t)
    BY <1>8, <2>2, <2>3
  <2> QED BY <2>4, <2>5 DEF w, sp
<1>10. CASE e
  <2>1. t = f.len /\ f.len % PageSz # 0 /\ t <= ep /\ ep \in Int
    <3>1. t = f.len /\ f.len % PageSz # 0
      BY <1>2, <1>10 DEF n
    <3>2. ep \in Int
      BY <1>3
    <3>3. f.len <= ep
      BY DEF FilesFit
    <3> HIDE DEF t, ep
    <3> QED BY <3>1, <3>2, <3>3
  <2>2. r # 0
    <3> SUFFICES ASSUME r = 0 PROVE FALSE
      OBVIOUS
    <3>1. f.len = (j + full) * PageSz
      <4>1. t = sp + fp
        <5> HIDE DEF sp, fp
        <5> QED BY <1>4, <1>5
      <4> QED BY <1>7, <2>1, <4>1
    <3> DEFINE h == j + full
               x == h * PageSz
    <3>2. x \in Nat /\ x = f.len /\ h \in Int
      BY <1>6, <1>7, <3>1
    <3>3. h * PageSz <= x /\ x < h * PageSz + PageSz /\ x - h * PageSz = 0
      <4>1. x <= x /\ x < x + PageSz /\ x - x = 0
        <5> HIDE DEF x
        <5> QED BY <1>3, <3>2
      <4> QED BY <4>1
    <3> HIDE DEF x, h
    <3>4. x % PageSz = x - h * PageSz
      BY <3>2, <3>3, PageIs
    <3> QED BY <2>1, <3>2, <3>3, <3>4
  <2>3. j + full < EthPage
    <3>1. j * PageSz + full * PageSz + r <= EthPage * PageSz
      <4>1. sp + fp + r <= ep
        <5> HIDE DEF sp, fp, ep
        <5> QED BY <1>4, <1>5, <2>1
      <4> QED BY <4>1
    <3> QED BY <1>3, <1>5, <2>2, <3>1, EndsBelow
  <2>4. Len(rest) = r /\ \A i \in 1..r : rest[i] = b[sp + fp + i]
    <3>1. rest = SubSeq(all, fp + 1, n)
      OBVIOUS
    <3>2. fp + 1 \in Int /\ n \in Int /\ n - (fp + 1) + 1 = r /\ fp + 1 <= n
      <4> HIDE DEF fp
      <4> QED BY <1>3, <1>5, <2>2, RestIs
    <3>3. \A i \in (fp + 1)..n : all[i] \in Int
      <4> SUFFICES ASSUME NEW i \in (fp + 1)..n PROVE all[i] \in Int
        OBVIOUS
      <4>1. i \in 1..Len(all)
        <5>1. i \in 1..n
          <6> HIDE DEF fp
          <6> QED BY <1>3, <1>5
        <5> QED BY <5>1 DEF n
      <4> QED BY <1>3, <4>1
    <3> HIDE DEF rest, fp
    <3>4. Len(rest) = n - (fp + 1) + 1 /\ \A i \in 1..(n - (fp + 1) + 1) : rest[i] = all[fp + 1 + i - 1]
      BY <3>1, <3>2, <3>3, SubSeqProperties
    <3>5. ASSUME NEW i \in 1..r PROVE rest[i] = b[sp + fp + i]
      <4>1. rest[i] = all[fp + 1 + i - 1] /\ fp + 1 + i - 1 = fp + i /\ fp + i \in 1..n
        <5>1. fp + 1 + i - 1 = fp + i /\ fp + i \in 1..n
          BY <1>3, <1>5, <2>2, RestIs
        <5> QED BY <3>2, <3>4, <5>1
      <4>2. sp + (fp + i) = sp + fp + i
        <5> HIDE DEF sp
        <5> QED BY <1>4, <1>5
      <4> HIDE DEF sp, b
      <4> QED BY <1>3, <4>1, <4>2
    <3> QED BY <3>2, <3>4, <3>5
  <2>5. lastp = j + full
    <3>1. Len(<<>>) = 0
      OBVIOUS
    <3>2. rest # <<>>
      BY <2>2, <2>4, <3>1
    <3> QED BY <1>4, <3>2
  <2> HIDE DEF rest, lastp
  <2> SUFFICES ASSUME NEW a \in Addr
               PROVE  w.mem[a] = IF a < t THEN b[a + 1] ELSE IF a = ep THEN Config ELSE Blank
    <3>1. t = j * PageSz + Len(d)
      BY <1>2 DEF n
    <3> HIDE DEF t, ep, b
    <3>2. Holds(w.mem, f, t)
      BY DEF Holds, ep, b
    <3> QED BY <3>1, <3>2 DEF w, sp
  <2> DEFINE pg == PageOf(a)
             o == a % PageSz
  <2>6. /\ a \in Nat /\ pg \in Nat /\ o \in Nat /\ o < PageSz /\ a = pg * PageSz + o
        /\ (pg = j + full => a = sp + fp + o)
        /\ (pg < j + full => a < sp + fp) /\ (pg > j + full => a >= sp + fp + PageSz)
        /\ (pg < EthPage => a # ep)
    <3>1. a \in Nat /\ pg \in Nat /\ o \in Nat /\ a = pg * PageSz + o
      BY AddrPage
    <3>2. o < PageSz
      BY <3>1, PageOffset
    <3> DEFINE h == j + full
    <3>3. h \in Int /\ h + 1 \in Int /\ h * PageSz = sp + fp
      BY <1>7
    <3> HIDE DEF h
    <3>4. (pg < h <=> a < h * PageSz) /\ (pg < h + 1 <=> a < (h + 1) * PageSz)
      <4> DEFINE y == h + 1
      <4>1. y \in Int
        BY <3>3
      <4> HIDE DEF y
      <4>2. (pg < h <=> a < h * PageSz) /\ (pg < y <=> a < y * PageSz)
        BY <3>3, <4>1, PageBelow
      <4> QED BY <4>2 DEF y
    <3>5. (h + 1) * PageSz = h * PageSz + PageSz
      BY <3>3, NextPage
    <3>6. pg = h => a = sp + fp + o
      BY <3>1, <3>3
    <3>7. pg < h => a < sp + fp
      BY <3>3, <3>4
    <3>8. pg > h => a >= sp + fp + PageSz
      <4>1. pg > h => ~(pg < h + 1)
        BY <3>1, <3>3
      <4>2. pg > h => ~(a < sp + fp + PageSz)
        BY <3>3, <3>4, <3>5, <4>1
      <4> HIDE DEF sp, fp, pg
      <4> QED BY <1>3, <1>4, <1>5, <3>1, <4>2
    <3>9. pg < EthPage => a # ep
      <4>1. PageOf(ep) = EthPage
        BY ConfigAddr
      <4>2. a = ep => pg = EthPage
        BY <4>1
      <4> HIDE DEF pg, ep
      <4> QED BY <1>3, <3>1, <4>2
    <3> QED BY <3>1, <3>2, <3>6, <3>7, <3>8, <3>9 DEF h
  <2>7. paged[a] = IF a < sp + fp THEN b[a + 1] ELSE IF a = ep THEN Config ELSE Blank
    BY <1>8 DEF Holds
  <2>8. t = sp + fp + r
    <3> HIDE DEF sp, fp
    <3> QED BY <1>4, <1>5
  <2>9. ended[a] = IF pg # lastp THEN paged[a] ELSE IF o < Len(rest) THEN rest[o + 1] ELSE Blank
    BY DEF WritePage
  <2>10. w.mem[a] = IF pg > lastp /\ pg < EthPage /\ LooksUsed(paged, pg) THEN Blank ELSE ended[a]
    BY <1>1, <1>10 DEF w
  <2> HIDE DEF ended, pg, o, t, ep, sp, fp, b, w
  <2>11. CASE pg < j + full
    <3>1. a < sp + fp /\ a < t /\ ~(pg > lastp) /\ pg # lastp
      BY <1>4, <1>5, <1>7, <2>5, <2>6, <2>8, <2>11
    <3> QED BY <2>7, <2>9, <2>10, <3>1
  <2>12. CASE pg > j + full
    <3>1. ~(a < sp + fp) /\ ~(a < t) /\ pg # lastp
      BY <1>3, <1>4, <1>5, <1>7, <2>5, <2>6, <2>8, <2>12
    <3> QED BY <2>6, <2>7, <2>9, <2>10, <3>1
  <2>13. CASE pg = j + full
    <3>1. ~(pg > lastp) /\ a = sp + fp + o /\ a # ep /\ pg = lastp
      BY <1>7, <2>3, <2>5, <2>6, <2>13
    <3>2. CASE o < r
      <4>1. o + 1 \in 1..r /\ sp + fp + (o + 1) = a + 1 /\ a < t
        BY <1>4, <1>5, <2>6, <2>8, <3>1, <3>2
      <4> QED BY <2>4, <2>9, <2>10, <3>1, <3>2, <4>1
    <3>3. CASE ~(o < r)
      <4>1. ~(a < t)
        BY <1>4, <1>5, <2>6, <2>8, <3>1, <3>3
      <4> QED BY <2>4, <2>9, <2>10, <3>1, <3>3, <4>1
    <3> QED BY <3>2, <3>3
  <2>14. pg < j + full \/ pg > j + full \/ pg = j + full
    BY <1>7, <2>6
  <2> QED BY <2>11, <2>12, <2>13, <2>14
<1> QED BY <1>9, <1>10

(* What SubSeq takes out of a sequence. *)
LEMMA SubSeqAt ==
  ASSUME NEW S, NEW s \in Seq(S), NEW lo \in Nat, NEW to \in Nat, to <= Len(s),
         NEW i \in 1..Len(SubSeq(s, lo + 1, to))
  PROVE  SubSeq(s, lo + 1, to)[i] = s[lo + i]
<1> DEFINE q == SubSeq(s, lo + 1, to)
           m == lo + 1
<1>1. m \in Int /\ to \in Int /\ m >= 1
  OBVIOUS
<1> HIDE DEF m
<1>2. \A k \in m..to : s[k] \in S
  BY <1>1
<1>3. /\ SubSeq(s, m, to) \in Seq(S)
      /\ Len(SubSeq(s, m, to)) = IF m <= to THEN to - m + 1 ELSE 0
      /\ \A k \in 1..(to - m + 1) : SubSeq(s, m, to)[k] = s[m + k - 1]
  BY <1>1, <1>2, SubSeqProperties
<1>4. Len(q) = (IF m <= to THEN to - m + 1 ELSE 0) /\ \A k \in 1..(to - m + 1) : q[k] = s[m + k - 1]
  BY <1>3 DEF m
<1>5. i \in 1..Len(q)
  OBVIOUS
<1> HIDE DEF q
<1>6. i \in 1..(to - m + 1)
  BY <1>1, <1>4, <1>5
<1>7. q[i] = s[m + i - 1] /\ m + i - 1 = lo + i
  BY <1>1, <1>4, <1>6 DEF m
<1> QED BY <1>7 DEF q

(* The bytes of a block. *)
LEMMA BlockIs ==
  ASSUME NEW b \in Seq(Int), NEW n \in Nat \ {0}, NEW i \in 1..Len(Block(b, n))
  PROVE  Block(b, n)[i] = b[(n - 1) * SegSz + i]
<1> DEFINE lo == (n - 1) * SegSz
           hi == n * SegSz
           to == IF hi < Len(b) THEN hi ELSE Len(b)
           B == SubSeq(b, lo + 1, to)
<1>1. SegSz \in Nat \ {0} /\ Len(b) \in Nat
  BY TftpAssumption
<1>2. lo \in Nat /\ hi \in Nat
  BY <1>1
<1>3. Block(b, n) = B
  BY DEF Block
<1> HIDE DEF lo, hi
<1>4. to \in Nat /\ to <= Len(b)
  BY <1>1, <1>2
<1> HIDE DEF to
<1>5. i \in 1..Len(SubSeq(b, lo + 1, to))
  BY <1>3, Zenon
<1>6. SubSeq(b, lo + 1, to)[i] = b[lo + i]
  BY <1>2, <1>4, <1>5, SubSeqAt, Zenon
<1> QED BY <1>3, <1>6 DEF lo

(* Blocks begin at the start of a page. *)
LEMMA BlockPage ==
  ASSUME WholePages, NEW n \in Nat
  PROVE  \E j \in Nat : n * SegSz = j * PageSz
<1>1. SegSz \in Nat \ {0} /\ PageSz \in Nat \ {0}
  BY TftpAssumption, FlashAssumption
<1>2. PICK g \in Nat : SegSz = g * PageSz
  <2> DEFINE g == SegSz \div PageSz
  <2>1. g \in Nat /\ SegSz = g * PageSz + (SegSz % PageSz)
    BY <1>1, PageOffset
  <2> HIDE DEF g
  <2>2. g * PageSz \in Int
    BY <2>1, PageOrder
  <2>3. SegSz = g * PageSz
    BY <2>1, <2>2 DEF WholePages
  <2> QED BY <2>1, <2>3
<1>3. \A a, b, c \in Nat : a * (b * c) = (a * b) * c
  OBVIOUS
<1>4. n * (g * PageSz) = (n * g) * PageSz /\ n * g \in Nat
  BY <1>1, <1>3
<1> QED BY <1>2, <1>4

(* tftpd_data_in() stores the blocks of a file one behind the other. *)
LEMMA StoreHolds ==
  ASSUME Typed, FilesFit, EndsInPage, WholePages, NEW f \in Puts[FALSE], NEW n \in Nat \ {0},
         At(n - 1), (n - 1) * SegSz <= f.len, Holds(mem, f, (n - 1) * SegSz),
         StoreBlock(Block(Bytes(f), n))
  PROVE  Holds(mem', f, IF Len(Block(Bytes(f), n)) = SegSz THEN n * SegSz ELSE f.len)
<1> DEFINE b == Bytes(f)
           d == Block(b, n)
           lo == (n - 1) * SegSz
<1>1. f \in AnyFile /\ Len(b) = f.len /\ b \in Seq(Int) /\ f.len \in Nat
  <2>1. f \in AnyFile
    BY DEF AnyFile
  <2> QED BY <2>1, FileType
<1>2. d \in Seq(Int) /\ Len(d) \in 0..SegSz /\ SegSz \in Nat \ {0}
      /\ (Len(d) # SegSz /\ lo < f.len => Len(d) = f.len - lo)
  <2>1. SegSz \in Nat \ {0}
    BY TftpAssumption
  <2> QED BY <1>1, <2>1, BlockType
<1>3. /\ lo \in Nat /\ lo + Len(d) <= f.len
      /\ Len(d) = SegSz => n * SegSz = lo + Len(d)
  BY <1>1, BlockEnds
<1>4. \A i \in 1..Len(d) : d[i] = b[lo + i]
  BY <1>1, BlockIs
<1>5. PICK j \in Nat : lo = j * PageSz
  <2> DEFINE h == n - 1
  <2>1. h \in Nat
    OBVIOUS
  <2> HIDE DEF h
  <2>2. \E j \in Nat : h * SegSz = j * PageSz
    BY <2>1, BlockPage
  <2> QED BY <2>2 DEF h
<1>6. start = lo /\ start \in Nat
  BY <1>3 DEF At
<1> HIDE DEF b, d, lo
<1>7. CASE d = <<>>
  <2>1. Len(d) = 0
    BY <1>7
  <2>2. Len(d) # SegSz /\ lo = f.len
    <3>1. Len(d) # SegSz
      BY <1>2, <2>1
    <3>2. ~(lo < f.len)
      BY <1>1, <1>2, <1>3, <2>1, <3>1
    <3>3. lo <= f.len
      BY DEF lo
    <3> QED BY <1>1, <1>3, <3>1, <3>2, <3>3
  <2>3. mem' = mem
    BY <1>7 DEF StoreBlock, efcVars, d, b
  <2>4. Holds(mem, f, lo)
    BY DEF lo
  <2>5. Holds(mem', f, f.len)
    BY <2>2, <2>3, <2>4
  <2> QED BY <2>2, <2>5 DEF d, b
<1>8. CASE d # <<>>
  <2> DEFINE l == IF start = 0 THEN <<>> ELSE left
  <2>1. mem' = WriteData(mem, l, d, start, Len(d) # SegSz).mem
    BY <1>8 DEF StoreBlock, d, b
  <2>2. l = <<>>
    <3>1. start % PageSz = 0
      <4>1. j * PageSz <= start /\ start < j * PageSz + PageSz /\ start - j * PageSz = 0
        <5> DEFINE x == j * PageSz
        <5> HIDE DEF x
        <5>1. start = x /\ start \in Nat /\ PageSz \in Nat \ {0}
          BY <1>5, <1>6, FlashAssumption DEF x
        <5>2. x <= start /\ start < x + PageSz /\ start - x = 0
          BY <5>1
        <5> QED BY <5>2 DEF x
      <4>2. start % PageSz = start - j * PageSz
        BY <1>6, <4>1, PageIs
      <4> QED BY <4>1, <4>2
    <3>2. start # 0 => Len(left) = 0
      BY <3>1 DEF At
    <3> QED BY <3>2 DEF Typed, TypeOK
  <2>3. Len(d) > 0 /\ Len(d) \in Nat
    BY <1>2, <1>8
  <2>4. mem \in [Addr -> Int]
    BY DEF Typed, TypeOK
  <2>5. Holds(mem, f, j * PageSz)
    BY <1>5 DEF lo
  <2>6. /\ j * PageSz + Len(d) <= f.len
        /\ \A i \in 1..Len(d) : d[i] = Bytes(f)[j * PageSz + i]
    <3>1. lo + Len(d) <= f.len /\ \A i \in 1..Len(d) : d[i] = Bytes(f)[lo + i]
      BY <1>3, <1>4 DEF b
    <3> QED BY <1>5, <3>1
  <2>7. Len(d) # SegSz => j * PageSz + Len(d) = f.len /\ f.len % PageSz # 0
    <3>1. Len(d) # SegSz => lo + Len(d) = f.len
      <4>1. PICK w \in Nat : w = Len(d)
        BY <2>3
      <4>2. w > 0 /\ lo + w <= f.len /\ lo \in Nat /\ f.len \in Nat
        BY <1>1, <1>3, <2>3, <4>1
      <4>3. lo < f.len
        BY <4>2
      <4>4. Len(d) # SegSz => w = f.len - lo
        BY <1>2, <4>1, <4>3
      <4>5. w = f.len - lo => lo + w = f.len
        BY <4>2
      <4> QED BY <4>1, <4>4, <4>5
    <3> QED BY <1>5, <3>1 DEF EndsInPage
  <2>8. ~(Len(d) # SegSz) => Len(d) % PageSz = 0
    BY DEF WholePages
  <2>9. Holds(WriteData(mem, <<>>, d, j * PageSz, Len(d) # SegSz).mem, f, j * PageSz + Len(d))
    BY <1>2, <2>3, <2>4, <2>5, <2>6, <2>7, <2>8, WriteHolds
  <2>10. start = j * PageSz
    BY <1>5, <1>6
  <2>11. Holds(mem', f, lo + Len(d))
    BY <1>5, <2>1, <2>2, <2>9, <2>10
  <2>12. lo + Len(d) = IF Len(d) = SegSz THEN n * SegSz ELSE f.len
    BY <1>3, <1>5, <2>7
  <2> QED BY <2>11, <2>12 DEF d, b
<1> QED BY <1>7, <1>8

(* A bank in which no length is found is erased, but for the settings. *)
Clean(m) == GetLength(m) = 0 =>
              \A a \in Addr : m[a] = IF a = EthPage * PageSz THEN Config ELSE Blank

(* The server knows what f is to be compared with; once f is stored, the   *)
(* comparison, the copy and the reset come one after the other.            *)
Expects(f) == mode = "none" \/ crc = IF f.kind = "image" THEN Bytes(f) ELSE <<>>
Coming(f) ==
  f.kind = "image" => \/ mode # "none" /\ ackn = 0 /\ crc = Bytes(f)
                      \/ "FWUPG" \in pend \/ mainPc # "run"

(* A client that writes: what is stored when its packet, and when the      *)
(* answer to it, is under way.                                             *)
Writes(c) ==
  /\ c.got = <<>>
  /\ c.pc = "put" /\ toSrv # {} => Holds(mem, c.file, (c.blk - 1) * SegSz) /\ Expects(c.file)
  /\ (\E q \in toCl : q.op = "ACK") =>
       IF c.pc = "wrq" \/ Len(Block(Bytes(c.file), c.blk)) = SegSz
         THEN Holds(mem, c.file, c.blk * SegSz) /\ Expects(c.file)
         ELSE Holds(mem, c.file, c.file.len) /\ Coming(c.file)

(* A client that reads the file back: what it has, and what is sent next. *)
Reads(c) ==
  /\ c.file \in Puts[FALSE] /\ Holds(mem, c.file, c.file.len) /\ c.name = "stored"
  /\ c.pc = "rrq" => c.blk = 0
  /\ toSrv = {} \/ toCl = {}
  /\ \A q, r \in toCl : q = r
  /\ c.blk * SegSz <= c.file.len /\ c.got = SubSeq(Bytes(c.file), 1, c.blk * SegSz)
  /\ c.pc = "get" /\ toSrv # {} => start = c.blk * SegSz /\ end = c.file.len
  /\ \A q \in toCl : q.op = "DATA" =>
       /\ q.bytes = Block(Bytes(c.file), c.blk + 1)
       /\ Len(q.bytes) = SegSz => start = (c.blk + 1) * SegSz /\ end = c.file.len

(* A client that is through with its file. *)
Done(c) ==
  /\ c.file \in Puts[FALSE] /\ Holds(mem, c.file, c.file.len)
  /\ (c.got = <<>> /\ Coming(c.file)) \/ c.got = Bytes(c.file)

Content(c) ==
  /\ c.pc \in {"wrq", "put"} => Writes(c)
  /\ c.pc \in {"rrq", "get"} /\ c.file # NIL => Reads(c)
  /\ c.pc = "done" /\ c.file # NIL => Done(c)

ContentInv ==
  ~faulty => /\ Clean(mem)
             /\ \A k \in Clients : k # CalmClient => cl[k].pc = "idle"
             /\ \A k \in Clients : Content(cl[k])

(* What is known of a file that may be written. *)
LEMMA FileFacts ==
  ASSUME EndsInPage, FilesFit, NEW f \in Puts[FALSE]
  PROVE  /\ f \in AnyFile /\ f.len \in Nat \ {0} /\ f.len <= EthPage * PageSz /\ PageSz >= 3
         /\ Bytes(f) \in Seq(Int) /\ Len(Bytes(f)) = f.len /\ Bytes(f) # <<>>
<1>1. f \in AnyFile
  BY DEF AnyFile
<1>2. f.len \in Nat \ {0} /\ Bytes(f) \in Seq(Nat) /\ Len(Bytes(f)) = f.len
  BY <1>1, FileType
<1>3. PageSz >= 3
  <2>1. PageSz \in Nat /\ PageSz >= 2
    BY FlashAssumption
  <2>2. PICK r : r = f.len % PageSz
    OBVIOUS
  <2>3. r \in Nat /\ r < PageSz
    BY <1>2, <2>2, PageOffset
  <2>4. r # 0 /\ r # PageSz - 1
    BY <2>2 DEF EndsInPage
  <2> QED BY <2>1, <2>3, <2>4
<1>4. Bytes(f) # <<>>
  <2>1. Len(<<>>) = 0
    OBVIOUS
  <2> QED BY <1>2, <2>1
<1>5. Bytes(f) \in Seq(Int)
  BY <1>2
<1>6. f.len <= EthPage * PageSz
  BY DEF FilesFit
<1> QED BY <1>1, <1>2, <1>3, <1>4, <1>5, <1>6

(* A bank that holds part of a file is clean. *)
LEMMA HoldsClean ==
  ASSUME EndsInPage, FilesFit, NEW f \in Puts[FALSE], NEW m, NEW n \in Nat, n <= f.len, Holds(m, f, n)
  PROVE  Clean(m)
<1>1. CASE n = 0
  <2>1. \A a \in Addr : ~(a < 0)
    BY AddrPage
  <2> QED BY <1>1, <2>1 DEF Clean, Holds
<1>2. CASE n # 0
  <2>1. 0 \in Addr
    <3>1. 0 * PageSz + 0 = 0 /\ 0 \in 0..(PageSz - 1) /\ 0 <= EthPage
      BY FlashAssumption
    <3>2. 0 * PageSz + 0 \in Addr
      BY <3>1, AddrIs
    <3> QED BY <3>1, <3>2
  <2>2. 1 \in 1..f.len /\ 0 < n
    <3>1. f.len \in Nat \ {0}
      BY FileFacts
    <3> QED BY <1>2, <3>1
  <2>3. m[0] = Bytes(f)[1]
    <3>1. m[0] = Bytes(f)[0 + 1]
      BY <2>1, <2>2 DEF Holds
    <3> QED BY <3>1
  <2>4. m[0] # Blank
    <3>1. Bytes(f)[1] # Blank
      BY <2>2, FileByte
    <3> QED BY <2>3, <3>1
  <2>5. GetLength(m) # 0
    BY <2>4, FileFacts, LengthSome
  <2> QED BY <2>5 DEF Clean
<1> QED BY <1>1, <1>2

(* The erased bank with the settings written to it has nothing else. *)
LEMMA ConfigOnly ==
  ASSUME NEW a \in Addr
  PROVE  WithConfig(Erased)[a] = IF a = EthPage * PageSz THEN Config ELSE Blank
<1>1. Len(<<Config>>) = 1 /\ <<Config>>[0 + 1] = Config
  OBVIOUS
<1>2. a % PageSz \in Nat /\ a = PageOf(a) * PageSz + (a % PageSz)
  BY AddrPage
<1>3. a = EthPage * PageSz <=> PageOf(a) = EthPage /\ a % PageSz = 0
  <2>1. a = EthPage * PageSz => PageOf(a) = EthPage /\ a % PageSz = 0
    BY ConfigAddr
  <2>2. PageOf(a) = EthPage /\ a % PageSz = 0 => a = EthPage * PageSz
    <3> SUFFICES ASSUME PageOf(a) = EthPage, a % PageSz = 0 PROVE a = EthPage * PageSz
      OBVIOUS
    <3>1. a = EthPage * PageSz + 0 /\ EthPage * PageSz \in Int
      BY <1>2, FlashAssumption
    <3> QED BY <3>1
  <2> QED BY <2>1, <2>2
<1>4. Erased[a] = Blank
  BY DEF Erased
<1>5. a % PageSz < 1 <=> a % PageSz = 0
  <2>1. PICK i : i = a % PageSz
    OBVIOUS
  <2> QED BY <1>2, <2>1
<1> QED BY <1>1, <1>3, <1>4, <1>5 DEF WithConfig, WritePage

(* The start of WRQ leaves a bank with the settings and nothing else. *)
LEMMA PrepareHolds ==
  ASSUME Enabled, NEW m, Clean(m), NEW f
  PROVE  Holds(Prepare(m, Enabled), f, 0)
<1>1. \A a \in Addr : ~(a < 0)
  BY AddrPage
<1>2. CASE GetLength(m) = 0
  BY <1>1, <1>2 DEF Clean, Holds, Prepare
<1>3. CASE GetLength(m) # 0
  <2>1. Prepare(m, Enabled) = WithConfig(Erased)
    BY <1>3 DEF Prepare
  <2> QED BY <1>1, <2>1, ConfigOnly DEF Holds
<1> QED BY <1>2, <1>3

(* A part of a file and the next block of it. *)
LEMMA JoinIs ==
  ASSUME NEW b \in Seq(Int), NEW n \in Nat, NEW d \in Seq(Int), n + Len(d) <= Len(b),
         \A i \in 1..Len(d) : d[i] = b[n + i]
  PROVE  SubSeq(b, 1, n) \o d = SubSeq(b, 1, n + Len(d))
<1> DEFINE u == SubSeq(b, 1, n)
           w == Len(d)
           v == SubSeq(b, 1, n + w)
<1>1. w \in Nat /\ Len(b) \in Nat
  OBVIOUS
<1>2. n + w <= Len(b)
  OBVIOUS
<1>3. \A i \in 1..Len(b) : b[i] \in Int
  OBVIOUS
<1>4. ASSUME NEW h \in Nat, h <= Len(b)
      PROVE  /\ SubSeq(b, 1, h) \in Seq(Int) /\ Len(SubSeq(b, 1, h)) = h
             /\ \A i \in 1..h : SubSeq(b, 1, h)[i] = b[i]
  <2>1. \A i \in 1..h : b[i] \in Int
    BY <1>1, <1>3, <1>4
  <2>2. /\ SubSeq(b, 1, h) \in Seq(Int)
        /\ Len(SubSeq(b, 1, h)) = IF 1 <= h THEN h - 1 + 1 ELSE 0
        /\ \A i \in 1..(h - 1 + 1) : SubSeq(b, 1, h)[i] = b[1 + i - 1]
    BY <2>1, SubSeqProperties
  <2>3. (IF 1 <= h THEN h - 1 + 1 ELSE 0) = h /\ h - 1 + 1 = h /\ \A i \in 1..h : 1 + i - 1 = i
    OBVIOUS
  <2> QED BY <2>2, <2>3
<1> HIDE DEF w
<1>5. n + w \in Nat /\ n <= Len(b)
  BY <1>1, <1>2
<1>6. u \in Seq(Int) /\ Len(u) = n /\ \A i \in 1..n : u[i] = b[i]
  BY <1>4, <1>5
<1>7. v \in Seq(Int) /\ Len(v) = n + w /\ \A i \in 1..(n + w) : v[i] = b[i]
  BY <1>2, <1>4, <1>5
<1> HIDE DEF u, v
<1>8. /\ u \o d \in Seq(Int) /\ Len(u \o d) = n + w
      /\ \A i \in 1..(n + w) : (u \o d)[i] = IF i <= n THEN u[i] ELSE d[i - n]
  BY <1>6, ConcatProperties DEF w
<1>9. ASSUME NEW i \in 1..(n + w) PROVE (u \o d)[i] = v[i]
  <2>1. CASE i <= n
    <3>1. i \in 1..n
      BY <1>1, <2>1
    <3> QED BY <1>6, <1>7, <1>8, <2>1, <3>1
  <2>2. CASE ~(i <= n)
    <3>1. i - n \in 1..w /\ n + (i - n) = i
      BY <1>1, <2>2
    <3>2. d[i - n] = b[n + (i - n)]
      BY <3>1 DEF w
    <3> QED BY <1>7, <1>8, <2>2, <3>1, <3>2
  <2> QED BY <2>1, <2>2
<1>10. u \o d = v
  <2> DEFINE x == u \o d
  <2>1. x \in Seq(Int) /\ Len(x) = Len(v) /\ v \in Seq(Int) /\ \A i \in 1..Len(v) : x[i] = v[i]
    BY <1>7, <1>8, <1>9
  <2> HIDE DEF x
  <2>2. x = v
    BY <2>1, SeqEqual
  <2> QED BY <2>2 DEF x
<1> QED BY <1>10 DEF u, v, w

(* The two ways to say how long the next block is. *)
LEMMA BlockSize ==
  ASSUME NEW len \in Nat, NEW lo \in Nat, lo <= len, NEW s \in Nat \ {0}, NEW size,
         size = (IF len - lo \in 0..s THEN len - lo ELSE s)
  PROVE  /\ size = (IF lo + s < len THEN s ELSE IF lo < len THEN len - lo ELSE 0)
         /\ size \in Nat /\ lo + size <= len
<1>1. CASE lo + s < len
  <2>1. size = s
    BY <1>1
  <2> QED BY <1>1, <2>1
<1>2. CASE ~(lo + s < len)
  <2>1. size = len - lo
    BY <1>2
  <2> QED BY <1>2, <2>1
<1> QED BY <1>1, <1>2

(* tftpd_data_out() sends the next block of a stored file. *)
LEMMA ReadBlock ==
  ASSUME FilesFit, EndsInPage, NEW f \in Puts[FALSE], Holds(mem, f, f.len),
         NEW n \in Nat, n * SegSz <= f.len, NEW k, NEW x, SendBlock(k, n * SegSz, f.len, x)
  PROVE  /\ toCl' = toCl \union {Data(k, x, Block(Bytes(f), n + 1))}
         /\ Len(Block(Bytes(f), n + 1)) = SegSz => start' = (n + 1) * SegSz
<1> DEFINE b == Bytes(f)
           d == Block(b, n + 1)
           lo == n * SegSz
           hi == (n + 1) * SegSz
           e == EthPage * PageSz
           size == IF f.len - lo \in 0..SegSz THEN f.len - lo ELSE SegSz
           sent == [i \in 1..size |-> MemoryAt(lo + i - 1)]
<1>1. /\ b \in Seq(Int) /\ Len(b) = f.len /\ f.len \in Nat /\ f.len <= e /\ e \in Int
      /\ SegSz \in Nat \ {0} /\ (n + 1) - 1 = n /\ n + 1 \in Nat \ {0}
  <2>1. e \in Int
    BY FlashAssumption
  <2>2. SegSz \in Nat \ {0}
    BY TftpAssumption
  <2> HIDE DEF b, e
  <2>3. b \in Seq(Int) /\ Len(b) = f.len /\ f.len \in Nat /\ f.len <= e
    BY FileFacts DEF b, e
  <2> QED BY <2>1, <2>2, <2>3
<1>2. lo \in Nat /\ lo <= f.len /\ hi = lo + SegSz
  <2>1. (n + 1) * SegSz = n * SegSz + 1 * SegSz /\ 1 * SegSz = SegSz
    BY <1>1, TimesOrder
  <2>2. n * SegSz \in Nat
    BY <1>1
  <2> QED BY <2>1, <2>2
<1>3. /\ d \in Seq(Int)
      /\ Len(d) = (IF hi < Len(b) THEN SegSz ELSE IF lo < Len(b) THEN Len(b) - lo ELSE 0)
  <2> DEFINE j == n + 1
  <2>1. j \in Nat \ {0} /\ j - 1 = n
    BY <1>1
  <2> HIDE DEF j
  <2>2. /\ Block(b, j) \in Seq(Int)
        /\ Len(Block(b, j)) = (IF j * SegSz < Len(b) THEN SegSz
                               ELSE IF (j - 1) * SegSz < Len(b) THEN Len(b) - (j - 1) * SegSz
                               ELSE 0)
    BY <1>1, <2>1, BlockType
  <2> QED BY <2>1, <2>2 DEF j
<1>4. \A i \in 1..Len(d) : d[i] = b[lo + i]
  <2> DEFINE j == n + 1
  <2>1. j \in Nat \ {0} /\ j - 1 = n
    BY <1>1
  <2> HIDE DEF j
  <2>2. \A i \in 1..Len(Block(b, j)) : Block(b, j)[i] = b[(j - 1) * SegSz + i]
    BY <1>1, <2>1, BlockIs
  <2> QED BY <2>1, <2>2 DEF j
<1>5. toCl' = toCl \union {Data(k, x, sent)} /\ start' = lo + size
  BY DEF SendBlock, Reply
<1> HIDE DEF b, d, lo, hi, e
<1>6. size = Len(d) /\ size \in Nat /\ lo + size <= f.len
  <2>1. /\ size = (IF lo + SegSz < f.len THEN SegSz ELSE IF lo < f.len THEN f.len - lo ELSE 0)
        /\ size \in Nat /\ lo + size <= f.len
    BY <1>1, <1>2, BlockSize
  <2> QED BY <1>1, <1>2, <1>3, <2>1
<1> HIDE DEF size
<1>7. ASSUME NEW i \in 1..size PROVE MemoryAt(lo + i - 1) = d[i]
  <2>1. lo + i - 1 \in Nat /\ lo + i - 1 < f.len /\ (lo + i - 1) + 1 = lo + i
    BY <1>1, <1>2, <1>6
  <2>2. lo + i - 1 \in Addr
    <3>1. e \in Addr
      BY ConfigAddr DEF e
    <3>2. lo + i - 1 <= e
      BY <1>1, <2>1
    <3> DEFINE v == (EthPage + 1) * PageSz
    <3>3. Addr = 0..(v - 1) /\ v \in Int
      BY FlashAssumption DEF Addr, BankSz
    <3> HIDE DEF v
    <3> QED BY <2>1, <3>1, <3>2, <3>3
  <2>3. mem[lo + i - 1] = b[(lo + i - 1) + 1]
    BY <2>1, <2>2 DEF Holds, b
  <2>4. MemoryAt(lo + i - 1) = mem[lo + i - 1]
    BY <2>2 DEF MemoryAt
  <2> QED BY <1>4, <1>6, <2>1, <2>3, <2>4
<1>8. sent = d
  <2>1. d = [i \in 1..Len(d) |-> d[i]]
    BY <1>3
  <2>2. sent = [i \in 1..size |-> d[i]]
    BY <1>7
  <2> QED BY <1>6, <2>1, <2>2
<1>9. size = SegSz => start' = hi
  BY <1>2, <1>5
<1> HIDE DEF sent
<1> QED BY <1>5, <1>6, <1>8, <1>9 DEF d, b, hi

(* On a calm network only the one client's packets are under way. *)
LEMMA OnePacket ==
  ASSUME Typed, TransferInv, ContentInv, ~faulty, NEW p \in toSrv
  PROVE  /\ CalmClient \in Clients /\ p.from = CalmClient
         /\ \/ Active(CalmClient) /\ p = Packet(CalmClient, cl[CalmClient])
            \/ p.op = "ACK" /\ cl[CalmClient].pc = "done"
<1>1. p.from \in Clients
  BY SenderOf
<1>2. Own(p)
  BY DEF TransferInv
<1>3. cl[p.from].pc # "idle"
  BY <1>2 DEF Own, Active
<1>4. p.from = CalmClient
  BY <1>1, <1>3 DEF ContentInv
<1> HIDE DEF CalmClient
<1> QED BY <1>1, <1>2, <1>4 DEF Own

(* When only the one client changes, it is enough to look at that one. *)
LEMMA ContentOne ==
  ASSUME Typed, ContentInv, ~faulty, NEW k \in Clients, k = CalmClient, NEW c, cl'[k] = c,
         \A j \in Clients : j # k => cl'[j] = cl[j], Clean(mem'), Content(c)'
  PROVE  ContentInv'
<1>1. \A j \in Clients : j # k => cl'[j].pc = "idle"
  BY DEF ContentInv
<1>2. ASSUME NEW d, d.pc = "idle" PROVE Content(d)'
  BY <1>2 DEF Content
<1>3. ASSUME NEW j \in Clients PROVE Content(cl[j])'
  <2>1. CASE j = k
    BY <2>1
  <2>2. CASE j # k
    <3>1. PICK d : d = cl'[j]
      OBVIOUS
    <3>2. Content(d)'
      BY <1>1, <1>2, <2>2, <3>1
    <3> QED BY <3>1, <3>2
  <2> QED BY <2>1, <2>2
<1> QED BY <1>1, <1>3 DEF ContentInv, CalmClient

(* What leaves the clients, the bank and the packets alone keeps their     *)
(* content, if what is to come still comes.                                *)
LEMMA ContentKept ==
  ASSUME Typed, TransferInv, ContentInv, faulty' = faulty,
         UNCHANGED <<cl, mem, start, end, toSrv>>, toCl' \subseteq toCl,
         \A f \in Puts[FALSE] : /\ Expects(f) => Expects(f)'
                                /\ Holds(mem, f, f.len) /\ Coming(f) => Coming(f)'
  PROVE  ContentInv'
<1> SUFFICES ASSUME ~faulty PROVE ContentInv'
  BY DEF ContentInv
<1>1. ASSUME NEW c, Content(c), c.pc \in {"wrq", "put"} => c.file \in Puts[FALSE]
      PROVE  Content(c)'
  <2>1. ASSUME c.pc \in {"wrq", "put"} PROVE Writes(c)'
    <3>1. c.file \in Puts[FALSE] /\ Writes(c)
      BY <1>1, <2>1 DEF Content
    <3> QED BY <3>1 DEF Writes
  <2>2. ASSUME c.pc \in {"rrq", "get"}, c.file # NIL PROVE Reads(c)'
    BY <1>1, <2>2 DEF Content, Reads
  <2>3. ASSUME c.pc = "done", c.file # NIL PROVE Done(c)'
    BY <1>1, <2>3 DEF Content, Done
  <2> QED BY <2>1, <2>2, <2>3 DEF Content
<1>2. ASSUME NEW j \in Clients PROVE Content(cl[j])'
  <2>1. PICK c : c = cl[j]
    OBVIOUS
  <2>2. Content(c) /\ (c.pc \in {"wrq", "put"} => c.file \in Puts[FALSE])
    BY <2>1, Zenon DEF ContentInv, TransferInv, Typed
  <2>3. Content(c)'
    BY <1>1, <2>2
  <2> QED BY <2>1, <2>3
<1> QED BY <1>2 DEF ContentInv, Clean, CalmClient

(* A request to write leaves a clean bank, and the server expects the file. *)
LEMMA ContentWrq ==
  ASSUME Typed, TransferInv, CalmInv, ContentInv, Enabled, FilesFit, EndsInPage, ~faulty,
         NEW k \in Clients, k = CalmClient, NEW c \in ClientRecs, c = cl[k], c.pc = "wrq",
         c.file \in Puts[FALSE], toSrv' = {}, toCl = {}, UNCHANGED <<cl, faulty>>,
         WrqRefused(k) \/ WrqAccepted(k, c.file)
  PROVE  ContentInv'
<1>1. Clean(mem) /\ Writes(c) /\ cl'[k] = c /\ c.blk = 0
  BY DEF ContentInv, Content, CalmInv, InStep
<1>2. SegSz \in Nat /\ 0 * SegSz = 0
  BY TftpAssumption
<1>3. CASE WrqRefused(k)
  <2>1. mem' = mem /\ toCl' = {Err(k)} /\ Err(k).op # "ACK"
    BY <1>3 DEF WrqRefused, Reply, efcVars, Err
  <2>2. Writes(c)'
    BY <1>1, <2>1 DEF Writes
  <2>3. Content(c)' /\ Clean(mem')
    BY <1>1, <2>1, <2>2 DEF Content
  <2> QED BY <1>1, <2>3, ContentOne
<1>4. CASE WrqAccepted(k, c.file)
  <2>1. Holds(mem', c.file, 0)
    BY <1>1, <1>4, PrepareHolds DEF WrqAccepted
  <2>2. Clean(mem')
    <3>1. PICK f \in Puts[FALSE] : f = c.file
      OBVIOUS
    <3>2. f.len \in Nat
      BY FileFacts
    <3>3. PICK n \in Nat : n = 0
      OBVIOUS
    <3>4. Holds(mem', f, n) /\ n <= f.len
      BY <2>1, <3>1, <3>2, <3>3
    <3> QED BY <3>4, HoldsClean
  <2>3. Expects(c.file)'
    BY <1>4 DEF WrqAccepted, Expects
  <2>4. Holds(mem', c.file, c.blk * SegSz)
    BY <1>1, <1>2, <2>1
  <2>5. Writes(c)'
    BY <1>1, <2>3, <2>4 DEF Writes
  <2>6. Content(c)'
    BY <1>1, <2>5 DEF Content
  <2> QED BY <1>1, <2>2, <2>6, ContentOne
<1> QED BY <1>3, <1>4

(* A block that arrives is stored behind the ones before it. *)
LEMMA ContentData ==
  ASSUME Typed, TransferInv, CalmInv, ContentInv, FilesFit, EndsInPage, WholePages, ~faulty,
         NEW k \in Clients, k = CalmClient, NEW c \in ClientRecs, c = cl[k], c.pc = "put",
         c.file \in Puts[FALSE], NEW p \in toSrv, p = Packet(k, c), HandleData(p),
         toSrv' = {}, toCl = {}, UNCHANGED <<cl, faulty>>
  PROVE  ContentInv'
<1> USE DEF srvVars, efcVars, mainVars
<1>1. Clean(mem) /\ Writes(c) /\ InStep(c) /\ cl'[k] = c /\ toSrv # {}
  BY DEF ContentInv, Content, CalmInv
<1>2. /\ Holds(mem, c.file, (c.blk - 1) * SegSz) /\ Expects(c.file)
      /\ At(c.blk - 1) /\ (c.blk - 1) * SegSz <= c.file.len
      /\ c.blk \in Nat \ {0} /\ p.bytes = Block(Bytes(c.file), c.blk)
  BY <1>1 DEF Writes, InStep, ClientRecs, Packet, Data
<1>3. CASE UNCHANGED <<srvVars, efcVars, toCl>>
  <2>1. Writes(c)'
    BY <1>1, <1>3 DEF Writes
  <2>2. Content(c)' /\ Clean(mem')
    BY <1>1, <1>3, <2>1 DEF Content
  <2> QED BY <1>1, <2>2, ContentOne
<1>4. CASE mode # "none"
  <2>1. /\ StoreBlock(Block(Bytes(c.file), c.blk)) /\ UNCHANGED <<mode, crc>>
        /\ ackn' = IF Len(Block(Bytes(c.file), c.blk)) # SegSz THEN 0 ELSE ackn + 1
    BY <1>2, <1>4 DEF HandleData
  <2> DEFINE d == Block(Bytes(c.file), c.blk)
             n == c.blk * SegSz
  <2>2. Holds(mem', c.file, IF Len(d) = SegSz THEN n ELSE c.file.len)
    <3>1. PICK b \in Nat \ {0} : b = c.blk
      BY <1>2
    <3>2. PICK f \in Puts[FALSE] : f = c.file
      OBVIOUS
    <3>3. /\ At(b - 1) /\ (b - 1) * SegSz <= f.len /\ Holds(mem, f, (b - 1) * SegSz)
          /\ StoreBlock(Block(Bytes(f), b))
      BY <1>2, <2>1, <3>1, <3>2
    <3>4. Holds(mem', f, IF Len(Block(Bytes(f), b)) = SegSz THEN b * SegSz ELSE f.len)
      BY <3>3, StoreHolds
    <3> QED BY <3>1, <3>2, <3>4
  <2>3. Len(d) = SegSz => n <= c.file.len /\ n \in Nat
    <3>1. PICK b \in Nat \ {0} : b = c.blk
      BY <1>2
    <3>2. PICK f \in Puts[FALSE] : f = c.file
      OBVIOUS
    <3>3. Bytes(f) \in Seq(Int) /\ Len(Bytes(f)) = f.len /\ (b - 1) * SegSz <= f.len
      BY <1>2, <3>1, <3>2, FileFacts
    <3>4. /\ (b - 1) * SegSz + Len(Block(Bytes(f), b)) <= f.len
          /\ Len(Block(Bytes(f), b)) = SegSz
               => b * SegSz = (b - 1) * SegSz + Len(Block(Bytes(f), b))
      BY <3>3, BlockEnds
    <3>5. b * SegSz \in Nat
      BY TftpAssumption
    <3> QED BY <3>1, <3>2, <3>4, <3>5
  <2> HIDE DEF n
  <2>4. Clean(mem')
    <3>1. CASE Len(d) = SegSz
      <4>1. Holds(mem', c.file, n) /\ n \in Nat /\ n <= c.file.len
        BY <2>2, <2>3, <3>1
      <4> QED BY <4>1, HoldsClean
    <3>2. CASE Len(d) # SegSz
      <4>1. Holds(mem', c.file, c.file.len)
        BY <2>2, <3>2
      <4>2. PICK m \in Nat : m = c.file.len /\ m <= c.file.len
        <5>1. c.file.len \in Nat
          BY FileFacts
        <5> QED BY <5>1
      <4> QED BY <4>1, <4>2, HoldsClean
    <3> QED BY <3>1, <3>2
  <2>5. crc = IF c.file.kind = "image" THEN Bytes(c.file) ELSE <<>>
    BY <1>2, <1>4 DEF Expects
  <2>6. Expects(c.file)' /\ (Len(d) # SegSz => Coming(c.file)')
    BY <1>4, <2>1, <2>5 DEF Expects, Coming
  <2>7. Writes(c)'
    BY <1>1, <2>2, <2>6 DEF Writes, n
  <2>8. Content(c)'
    BY <2>7 DEF Content
  <2> QED BY <1>1, <2>4, <2>8, ContentOne
<1> QED BY <1>3, <1>4 DEF HandleData

(* What is sent of a file that is read back is the next block of it. *)
LEMMA ContentSent ==
  ASSUME Typed, ContentInv, FilesFit, EndsInPage, ~faulty,
         NEW k \in Clients, k = CalmClient, NEW c \in ClientRecs, c = cl[k], c.pc \in {"rrq", "get"},
         c.file # NIL => Reads(c), NEW x,
         c.file # NIL => SendBlock(k, c.blk * SegSz, c.file.len, x) /\ end' = c.file.len,
         toSrv' = {}, toCl = {}, UNCHANGED <<cl, mem, faulty>>
  PROVE  ContentInv'
<1>1. Clean(mem') /\ cl'[k] = c
  BY DEF ContentInv
<1>2. ASSUME c.file # NIL PROVE Reads(c)'
  <2>1. PICK n \in Nat : n = c.blk
    BY DEF ClientRecs
  <2>2. PICK f \in Puts[FALSE] : f = c.file
    BY <1>2 DEF Reads
  <2>3. Holds(mem, f, f.len) /\ n * SegSz <= f.len /\ SendBlock(k, n * SegSz, f.len, x)
    BY <1>2, <2>1, <2>2 DEF Reads
  <2>4. /\ toCl' = toCl \union {Data(k, x, Block(Bytes(f), n + 1))}
        /\ Len(Block(Bytes(f), n + 1)) = SegSz => start' = (n + 1) * SegSz
    BY <2>3, ReadBlock
  <2>5. Data(k, x, Block(Bytes(f), n + 1)).bytes = Block(Bytes(f), n + 1)
    BY DEF Data
  <2> QED BY <1>2, <2>1, <2>2, <2>4, <2>5 DEF Reads
<1>3. Content(c)'
  BY <1>2 DEF Content
<1> QED BY <1>1, <1>3, ContentOne

(* The server keeps what it stored, and sends it when it is asked. *)
LEMMA ContentServer ==
  ASSUME Typed, TransferInv, CrcInv, CalmInv, ContentInv, Enabled, FilesFit, EndsInPage, WholePages,
         ~faulty, NEW p \in toSrv,
         HandleWrq(p) \/ HandleData(p) \/ HandleRrq(p) \/ HandleAck(p)
  PROVE  ContentInv'
<1> USE DEF srvVars, efcVars, mainVars
<1>1. PICK k : k = CalmClient
  OBVIOUS
<1>2. /\ k \in Clients /\ p.from = k
      /\ \/ Active(k) /\ p = Packet(k, cl[k])
         \/ p.op = "ACK" /\ cl[k].pc = "done"
  BY <1>1, OnePacket
<1>3. \A q \in toSrv : Active(k) => q = Packet(k, cl[k])
  <2> SUFFICES ASSUME NEW q \in toSrv, Active(k) PROVE q = Packet(k, cl[k])
    OBVIOUS
  <2>1. cl[k].pc # "done"
    BY DEF Active
  <2> QED BY <1>1, <2>1, OnePacket
<1>4. toSrv' = toSrv \ {p} /\ UNCHANGED <<cl, faulty>>
  <2>1. faults = MaxFaults /\ ~(MaxFaults < MaxFaults)
    BY TftpAssumption DEF CalmInv
  <2> QED BY <2>1 DEF HandleWrq, HandleData, HandleRrq, HandleAck, Take
<1>5. PICK c \in ClientRecs : c = cl[k]
  BY <1>2 DEF Typed
<1>6. cl'[k] = c /\ (\A j \in Clients : j # k => cl'[j] = cl[j]) /\ Content(c) /\ Clean(mem)
  BY <1>2, <1>4, <1>5 DEF ContentInv
<1>7. /\ (c.pc \in {"wrq", "put"} => c.file \in Puts[FALSE] /\ InStep(c))
      /\ Active(k) <=> c.pc \in {"wrq", "put", "rrq", "get"}
      /\ p.op = "WRQ" => c.pc = "wrq" /\ p.file = c.file
      /\ p.op = "RRQ" => c.pc = "rrq" /\ p.name = c.name
      /\ p.op = "DATA" => c.pc = "put"
  <2>1. faulty = FALSE
    BY DEF Typed
  <2>2. c.pc \in {"wrq", "put"} => c.file \in Puts[FALSE] /\ InStep(c)
    BY <1>2, <1>5, <2>1 DEF TransferInv, CalmInv
  <2> QED BY <1>2, <1>5, <2>2, SenderOf DEF Active
<1>8. c.pc \in {"wrq", "put", "rrq", "get"} => toSrv' = {} /\ p = Packet(k, c)
  BY <1>3, <1>4, <1>5, <1>7
<1>9. c.pc \in {"wrq", "put"} => toCl = {}
  BY <1>7 DEF InStep
<1>10. c.pc \in {"rrq", "get"} /\ c.file # NIL => Reads(c) /\ toCl = {}
  BY <1>6 DEF Content, Reads
<1>11. CASE HandleWrq(p)
  <2>1. c.pc = "wrq" /\ p.file = c.file /\ (WrqRefused(k) \/ WrqAccepted(k, c.file))
    BY <1>2, <1>7, <1>11 DEF HandleWrq
  <2> QED BY <1>1, <1>2, <1>4, <1>5, <1>7, <1>8, <1>9, <2>1, ContentWrq
<1>12. CASE HandleData(p)
  <2>1. c.pc = "put"
    BY <1>7, <1>12 DEF HandleData
  <2> QED BY <1>1, <1>2, <1>4, <1>5, <1>7, <1>8, <1>9, <1>12, <2>1, ContentData
<1>13. CASE c.pc \in {"rrq", "get"} /\ c.file = NIL /\ mem' = mem
  <2>1. Content(c)' /\ Clean(mem')
    BY <1>6, <1>13 DEF Content
  <2> QED BY <1>1, <1>2, <1>6, <2>1, ContentOne
<1>14. CASE HandleRrq(p)
  <2>1. c.pc = "rrq" /\ mem' = mem
    BY <1>7, <1>14 DEF HandleRrq
  <2>2. ASSUME c.file # NIL
        PROVE  SendBlock(k, c.blk * SegSz, c.file.len, 1) /\ end' = c.file.len
    <3>1. Reads(c) /\ GetLength(mem) = c.file.len
      BY <1>10, <2>1, <2>2, LengthIs DEF Reads
    <3>2. c.blk = 0 /\ 0 * SegSz = 0
      BY <2>1, <3>1, TftpAssumption DEF Reads
    <3>3. RrqAccepted(k, 0, c.file.len)
      BY <1>2, <1>7, <1>14, <3>1 DEF HandleRrq, Reads
    <3>4. PICK n \in Nat : n = c.file.len
      BY <3>1, FileFacts DEF Reads
    <3>5. 0 + n = n
      OBVIOUS
    <3>6. SendBlock(k, 0, n, 1) /\ end' = n
      BY <3>3, <3>4, <3>5 DEF RrqAccepted
    <3> QED BY <3>2, <3>4, <3>6
  <2>3. CASE c.file # NIL
    BY <1>1, <1>2, <1>4, <1>5, <1>8, <1>10, <2>1, <2>2, <2>3, ContentSent
  <2> QED BY <1>13, <2>1, <2>3
<1>15. CASE HandleAck(p)
  <2>1. mem' = mem /\ p.op = "ACK" /\ Reading
    BY <1>15 DEF HandleAck, Reading
  <2>2. c.pc \in {"get", "done"}
    <3>1. c.pc = "done" \/ (c.pc \in {"wrq", "put", "rrq", "get"} /\ p = Packet(k, c))
      BY <1>2, <1>5, <1>7
    <3>2. c.pc \in {"wrq", "put", "rrq"} => Packet(k, c).op # "ACK"
      BY <1>2, PacketOf
    <3> QED BY <2>1, <3>1, <3>2
  <2>3. CASE c.pc = "done"
    <3>1. crc = <<>>
      BY <2>1 DEF CrcInv
    <3>2. ASSUME c.file # NIL PROVE Done(c)'
      <4>1. Done(c) /\ UNCHANGED <<mem, pend, mainPc>>
        BY <1>6, <1>15, <2>3, <3>2 DEF Content, HandleAck
      <4>2. Bytes(c.file) # <<>>
        BY <4>1, FileFacts DEF Done
      <4>3. Coming(c.file) => Coming(c.file)'
        BY <3>1, <4>1, <4>2 DEF Coming
      <4> QED BY <4>1, <4>3 DEF Done
    <3>3. Content(c)' /\ Clean(mem')
      BY <1>6, <2>1, <2>3, <3>2 DEF Content
    <3> QED BY <1>1, <1>2, <1>6, <3>3, ContentOne
  <2>4. CASE c.pc = "get" /\ c.file # NIL /\ mode = "none"
    <3>1. Reads(c) /\ toCl' = {} /\ toSrv' = {} /\ c.pc = "get"
      BY <1>8, <1>10, <1>15, <2>4 DEF HandleAck
    <3>2. Reads(c)'
      BY <2>1, <3>1 DEF Reads
    <3>3. Content(c)' /\ Clean(mem')
      BY <1>6, <2>1, <3>1, <3>2 DEF Content
    <3> QED BY <1>1, <1>2, <1>6, <3>3, ContentOne
  <2>5. CASE c.pc = "get" /\ c.file # NIL /\ mode # "none"
    <3>1. SendBlock(k, start, end, ackn) /\ end' = end
      BY <1>2, <1>15, <2>5 DEF HandleAck
    <3>2. start = c.blk * SegSz /\ end = c.file.len
      BY <1>10, <2>5 DEF Reads
    <3>3. PICK x : x = ackn
      OBVIOUS
    <3>4. SendBlock(k, c.blk * SegSz, c.file.len, x) /\ end' = c.file.len
      BY <3>1, <3>2, <3>3
    <3> QED BY <1>1, <1>2, <1>4, <1>5, <1>8, <1>10, <2>1, <2>5, <3>4, ContentSent
  <2> QED BY <1>13, <2>1, <2>2, <2>3, <2>4, <2>5
<1> QED BY <1>11, <1>12, <1>14, <1>15

(* A block that is read joins the ones before it. *)
LEMMA ReadJoins ==
  ASSUME FilesFit, EndsInPage, NEW f \in Puts[FALSE], NEW n \in Nat, n * SegSz <= f.len,
         NEW d, d = Block(Bytes(f), n + 1)
  PROVE  /\ Len(d) \in 0..SegSz
         /\ SubSeq(Bytes(f), 1, 0) = <<>>
         /\ Len(d) = SegSz
              => /\ (n + 1) * SegSz <= f.len
                 /\ SubSeq(Bytes(f), 1, n * SegSz) \o d = SubSeq(Bytes(f), 1, (n + 1) * SegSz)
         /\ Len(d) # SegSz => SubSeq(Bytes(f), 1, n * SegSz) \o d = Bytes(f)
<1> DEFINE b == Bytes(f)
           j == n + 1
           lo == n * SegSz
           hi == j * SegSz
<1>1. /\ b \in Seq(Int) /\ Len(b) = f.len /\ f.len \in Nat /\ SegSz \in Nat \ {0}
      /\ j \in Nat \ {0} /\ j - 1 = n
  <2>1. b \in Seq(Int) /\ Len(b) = f.len /\ f.len \in Nat
    BY FileFacts
  <2>2. SegSz \in Nat \ {0}
    BY TftpAssumption
  <2>3. j \in Nat \ {0} /\ j - 1 = n
    OBVIOUS
  <2> QED BY <2>1, <2>2, <2>3
<1>2. (j - 1) * SegSz = lo /\ (j - 1) * SegSz <= Len(b)
  <2> HIDE DEF j, b
  <2> QED BY <1>1
<1> HIDE DEF j
<1>3. /\ d \in Seq(Int) /\ Len(d) \in 0..SegSz
      /\ Len(d) = (IF hi < Len(b) THEN SegSz ELSE IF lo < Len(b) THEN Len(b) - lo ELSE 0)
  <2>1. /\ Block(b, j) \in Seq(Int) /\ Len(Block(b, j)) \in 0..SegSz
        /\ Len(Block(b, j)) = (IF j * SegSz < Len(b) THEN SegSz
                               ELSE IF (j - 1) * SegSz < Len(b) THEN Len(b) - (j - 1) * SegSz
                               ELSE 0)
    BY <1>1, BlockType
  <2>2. d = Block(b, j)
    BY DEF j
  <2> QED BY <1>2, <2>1, <2>2
<1>4. lo \in Nat /\ lo + Len(d) <= Len(b) /\ (Len(d) = SegSz => hi = lo + Len(d))
  <2>1. /\ (j - 1) * SegSz \in Nat /\ (j - 1) * SegSz + Len(Block(b, j)) <= Len(b)
        /\ Len(Block(b, j)) = SegSz => j * SegSz = (j - 1) * SegSz + Len(Block(b, j))
    BY <1>1, <1>2, BlockEnds
  <2> QED BY <1>2, <2>1 DEF j
<1>5. \A i \in 1..Len(d) : d[i] = b[lo + i]
  <2>1. \A i \in 1..Len(Block(b, j)) : Block(b, j)[i] = b[(j - 1) * SegSz + i]
    BY <1>1, BlockIs
  <2> QED BY <1>2, <2>1 DEF j
<1> HIDE DEF b, lo, hi
<1>6. SubSeq(b, 1, lo) \o d = SubSeq(b, 1, lo + Len(d))
  BY <1>1, <1>3, <1>4, <1>5, JoinIs
<1>7. Len(d) # SegSz => lo + Len(d) = Len(b)
  <2> SUFFICES ASSUME Len(d) # SegSz PROVE lo + Len(d) = Len(b)
    OBVIOUS
  <2>1. CASE lo < Len(b)
    <3>1. Len(d) = Len(b) - lo /\ Len(b) \in Nat
      BY <1>1, <1>3, <2>1
    <3> QED BY <1>4, <3>1
  <2>2. CASE ~(lo < Len(b))
    <3>1. Len(d) \in Nat /\ Len(b) \in Nat
      BY <1>1, <1>3
    <3> QED BY <1>4, <2>2, <3>1
  <2> QED BY <2>1, <2>2
<1>8. SubSeq(b, 1, Len(b)) = b
  BY <1>1, SubSeqFull
<1>9. SubSeq(b, 1, 0) = <<>>
  BY SubSeqEmpty
<1>10. Len(d) = SegSz => hi <= f.len
  BY <1>1, <1>4
<1> QED BY <1>3, <1>4, <1>6, <1>7, <1>8, <1>9, <1>10 DEF b, lo, hi, j

(* A client reads on, or has the whole file. *)
LEMMA ContentGot ==
  ASSUME Typed, TransferInv, ContentInv, FilesFit, EndsInPage, ~faulty,
         NEW k \in Clients, k = CalmClient, NEW p \in toCl, toCl' = toCl \ {p}, p.op = "DATA",
         NEW c \in ClientRecs, c = cl[k], c.pc \in {"rrq", "get"}, p.n = c.blk + 1,
         NEW d, d.pc = (IF Len(p.bytes) < SegSz THEN "done" ELSE "get"), d.file = c.file,
         d.name = c.name, d.blk = p.n, d.got = c.got \o p.bytes, cl' = [cl EXCEPT ![k] = d],
         UNCHANGED <<mem, start, end, faulty>>
  PROVE  ContentInv'
<1>1. /\ cl'[k] = d /\ (\A j \in Clients : j # k => cl'[j] = cl[j])
      /\ Clean(mem') /\ d.pc \in {"done", "get"}
  BY DEF Typed, ContentInv
<1>2. CASE c.file = NIL
  <2>1. Content(d)'
    BY <1>1, <1>2 DEF Content
  <2> QED BY <1>1, <2>1, ContentOne
<1>3. CASE c.file # NIL
  <2>1. Reads(c)
    BY <1>3 DEF ContentInv, Content
  <2>2. PICK f \in Puts[FALSE] : f = c.file
    BY <2>1 DEF Reads
  <2>3. PICK n \in Nat : n = c.blk
    BY DEF ClientRecs
  <2>4. PICK b : b = p.bytes
    OBVIOUS
  <2>5. /\ Holds(mem, f, f.len) /\ toCl' = {} /\ n * SegSz <= f.len
        /\ c.got = SubSeq(Bytes(f), 1, n * SegSz) /\ b = Block(Bytes(f), n + 1)
        /\ Len(b) = SegSz => start = (n + 1) * SegSz /\ end = f.len
    BY <2>1, <2>2, <2>3, <2>4 DEF Reads
  <2>6. /\ Len(b) \in 0..SegSz
        /\ Len(b) = SegSz
             => /\ (n + 1) * SegSz <= f.len
                /\ SubSeq(Bytes(f), 1, n * SegSz) \o b = SubSeq(Bytes(f), 1, (n + 1) * SegSz)
        /\ Len(b) # SegSz => SubSeq(Bytes(f), 1, n * SegSz) \o b = Bytes(f)
    BY <2>5, ReadJoins
  <2>7. Holds(mem', f, f.len) /\ (Len(b) < SegSz <=> Len(b) # SegSz)
    <3>1. Len(b) \in 0..SegSz /\ SegSz \in Nat
      BY <2>6, TftpAssumption
    <3>2. Len(b) < SegSz <=> Len(b) # SegSz
      BY <3>1
    <3> QED BY <2>5, <3>2
  <2>8. CASE Len(b) = SegSz
    <3>1. d.pc = "get" /\ d.blk = n + 1 /\ d.file = f /\ d.name = "stored"
      BY <2>1, <2>2, <2>3, <2>4, <2>7, <2>8 DEF Reads
    <3>2. d.got = SubSeq(Bytes(f), 1, (n + 1) * SegSz)
      BY <2>4, <2>5, <2>6, <2>8, Zenon
    <3>3. /\ (n + 1) * SegSz <= f.len /\ Holds(mem', f, f.len) /\ toCl' = {}
          /\ start' = (n + 1) * SegSz /\ end' = f.len
      BY <2>5, <2>6, <2>7, <2>8
    <3>4. Reads(d)'
      BY <3>1, <3>2, <3>3 DEF Reads
    <3>5. Content(d)'
      BY <3>1, <3>4 DEF Content
    <3> QED BY <1>1, <3>5, ContentOne
  <2>9. CASE Len(b) # SegSz
    <3>1. d.pc = "done" /\ d.file = f
      BY <2>2, <2>4, <2>7, <2>9
    <3>2. d.got = Bytes(f)
      BY <2>4, <2>5, <2>6, <2>9, Zenon
    <3>3. Done(d)'
      BY <2>7, <3>1, <3>2 DEF Done
    <3>4. Content(d)'
      BY <3>1, <3>3 DEF Content
    <3> QED BY <1>1, <3>4, ContentOne
  <2> QED BY <2>8, <2>9
<1> QED BY <1>2, <1>3

(* A client that writes goes on when its block is stored. *)
LEMMA ContentAcked ==
  ASSUME Typed, TransferInv, CalmInv, ContentInv, FilesFit, EndsInPage, ~faulty,
         NEW k \in Clients, k = CalmClient, NEW p \in toCl, toCl' = toCl \ {p}, p.op = "ACK",
         NEW c \in ClientRecs, c = cl[k], c.pc \in {"wrq", "put"}, NEW d, cl' = [cl EXCEPT ![k] = d],
         d.file = c.file, d.got = c.got,
         \/ /\ d.pc = "put" /\ d.blk = c.blk + 1
            /\ c.pc = "wrq" \/ Len(Block(Bytes(c.file), c.blk)) = SegSz
         \/ d.pc = "done" /\ c.pc = "put" /\ Len(Block(Bytes(c.file), c.blk)) # SegSz,
         UNCHANGED <<mode, ackn, crc, pend, mainPc, mem, faulty>>
  PROVE  ContentInv'
<1>1. /\ cl'[k] = d /\ (\A j \in Clients : j # k => cl'[j] = cl[j])
      /\ Clean(mem') /\ Writes(c) /\ InStep(c)
  BY DEF Typed, ContentInv, Content, CalmInv
<1>2. toCl' = {} /\ c.file \in Puts[FALSE] /\ c.blk \in Nat /\ c.got = <<>>
  <2>1. faulty = FALSE
    BY DEF Typed
  <2> QED BY <1>1, <2>1 DEF InStep, TransferInv, ClientRecs, Writes
<1>3. CASE d.pc = "put"
  <2>1. Holds(mem, c.file, c.blk * SegSz) /\ Expects(c.file)
    BY <1>1, <1>3 DEF Writes
  <2>2. d.blk - 1 = c.blk
    BY <1>2, <1>3
  <2>3. Holds(mem', d.file, (d.blk - 1) * SegSz) /\ Expects(d.file)'
    BY <2>1, <2>2 DEF Expects
  <2>4. Writes(d)'
    BY <1>2, <2>3 DEF Writes
  <2>5. Content(d)'
    BY <1>3, <2>4 DEF Content
  <2> QED BY <1>1, <2>5, ContentOne
<1>4. CASE d.pc = "done"
  <2>1. Holds(mem, c.file, c.file.len) /\ Coming(c.file)
    BY <1>1, <1>4 DEF Writes
  <2>2. Coming(d.file)' /\ Holds(mem', d.file, d.file.len)
    BY <2>1 DEF Coming
  <2>3. Done(d)'
    BY <1>2, <2>2 DEF Done
  <2>4. Content(d)'
    BY <1>4, <2>3 DEF Content
  <2> QED BY <1>1, <2>4, ContentOne
<1> QED BY <1>3, <1>4

(* What a client hears keeps the content. *)
LEMMA ContentHears ==
  ASSUME Patient, Typed, TransferInv, CalmInv, ContentInv, FilesFit, EndsInPage, ~faulty,
         NEW k \in Clients, NEW p \in toCl, Hear(k, p)
  PROVE  ContentInv'
<1> USE DEF srvVars, efcVars, mainVars, boundVars
<1>1. /\ toCl' = toCl \ {p} /\ cl[k] \in ClientRecs
      /\ UNCHANGED <<mode, ackn, start, end, crc, mem, pend, mainPc, faulty>>
  BY DEF Hear, Typed
<1>2. CASE UNCHANGED <<cl, toSrv>>
  <2>1. \A f \in Puts[FALSE] : /\ Expects(f) => Expects(f)'
                               /\ Holds(mem, f, f.len) /\ Coming(f) => Coming(f)'
    BY <1>1 DEF Expects, Coming
  <2> QED BY <1>1, <1>2, <2>1, ContentKept
<1>3. CASE ~UNCHANGED <<cl, toSrv>>
  <2>1. Active(k)
    BY <1>3 DEF Hear, PutAcked, GotBlock, Active
  <2>2. k = CalmClient
    BY <2>1 DEF ContentInv, Active
  <2>3. CASE Through(k, [cl[k] EXCEPT !.pc = "failed"])
    <3>1. PICK d : d = [cl[k] EXCEPT !.pc = "failed"]
      OBVIOUS
    <3>2. d.pc = "failed" /\ cl' = [cl EXCEPT ![k] = d] /\ Clean(mem')
      BY <1>1, <2>3, <3>1 DEF Through, ClientRecs, ContentInv
    <3>3. cl'[k] = d /\ \A j \in Clients : j # k => cl'[j] = cl[j]
      BY <3>2 DEF Typed
    <3>4. Content(d)'
      BY <3>2 DEF Content
    <3> QED BY <2>2, <3>2, <3>3, <3>4, ContentOne
  <2>4. CASE GotBlock(k, p)
    <3>1. PICK c \in ClientRecs : c = cl[k]
      BY <1>1
    <3>2. PICK d : d = [c EXCEPT !.pc = IF Len(p.bytes) < SegSz THEN "done" ELSE "get",
                                 !.blk = p.n, !.got = @ \o p.bytes]
      OBVIOUS
    <3>3. /\ p.op = "DATA" /\ c.pc \in {"rrq", "get"} /\ p.n = c.blk + 1
          /\ cl' = [cl EXCEPT ![k] = d]
      BY <1>3, <2>4, <3>1, <3>2 DEF GotBlock
    <3>4. /\ d.pc = (IF Len(p.bytes) < SegSz THEN "done" ELSE "get") /\ d.file = c.file
          /\ d.name = c.name /\ d.blk = p.n /\ d.got = c.got \o p.bytes
      BY <3>2 DEF ClientRecs
    <3> QED BY <1>1, <2>2, <3>1, <3>3, <3>4, ContentGot
  <2>5. CASE PutAcked(k, p)
    <3>1. PICK c \in ClientRecs : c = cl[k]
      BY <1>1
    <3>2. p.op = "ACK" /\ c.pc \in {"wrq", "put"} /\ p.n = c.blk
      BY <1>3, <2>5, <3>1 DEF PutAcked
    <3>3. c.pc = "put" => Len(Block(Bytes(c.file), c.blk)) \in 0..SegSz /\ SegSz \in Nat
      <4>1. c.pc = "put" => c.blk \in Nat \ {0} /\ c.file \in AnyFile
        BY DEF ClientRecs
      <4>2. c.pc = "put" => Bytes(c.file) \in Seq(Int)
        BY <4>1, FileType
      <4> QED BY <4>1, <4>2, BlockType, TftpAssumption
    <3>4. CASE c.pc = "put" /\ Len(Block(Bytes(c.file), c.blk)) < SegSz
      <4>1. Through(k, [c EXCEPT !.pc = "done"])
        BY <2>5, <3>1, <3>2, <3>4 DEF PutAcked
      <4>2. PICK d : d = [c EXCEPT !.pc = "done"]
        OBVIOUS
      <4>3. d.pc = "done" /\ d.file = c.file /\ d.got = c.got /\ cl' = [cl EXCEPT ![k] = d]
        BY <4>1, <4>2 DEF Through, ClientRecs
      <4>4. Len(Block(Bytes(c.file), c.blk)) # SegSz
        BY <3>3, <3>4
      <4> QED BY <1>1, <2>2, <3>1, <3>2, <3>4, <4>3, <4>4, ContentAcked
    <3>5. CASE ~(c.pc = "put" /\ Len(Block(Bytes(c.file), c.blk)) < SegSz)
      <4>1. Advance(k, [c EXCEPT !.pc = "put", !.blk = @ + 1])
        BY <2>5, <3>1, <3>2, <3>5 DEF PutAcked
      <4>2. PICK d : d = [c EXCEPT !.pc = "put", !.blk = @ + 1]
        OBVIOUS
      <4>3. /\ d.pc = "put" /\ d.blk = c.blk + 1 /\ d.file = c.file /\ d.got = c.got
            /\ cl' = [cl EXCEPT ![k] = d]
        BY <4>1, <4>2 DEF Advance, ClientRecs
      <4>4. c.pc = "wrq" \/ Len(Block(Bytes(c.file), c.blk)) = SegSz
        BY <3>2, <3>3, <3>5
      <4> QED BY <1>1, <2>2, <3>1, <3>2, <4>3, <4>4, ContentAcked
    <3> QED BY <3>4, <3>5
  <2> QED BY <1>3, <2>1, <2>3, <2>4, <2>5 DEF Hear
<1> QED BY <1>2, <1>3

(* At the start the bank has the settings and nothing else. *)
LEMMA ContentInit ==
  ASSUME Init
  PROVE  ContentInv
<1>1. \A k \in Clients : cl[k].pc = "idle"
  BY DEF Init, Idle
<1>2. Clean(mem)
  <2> SUFFICES ASSUME NEW a \in Addr
               PROVE  mem[a] = IF a = EthPage * PageSz THEN Config ELSE Blank
    BY DEF Clean
  <2>1. mem = WithConfig(Erased)
    BY DEF Init
  <2> QED BY <2>1, ConfigOnly
<1> QED BY <1>1, <1>2 DEF ContentInv, Content

(* Every step keeps what a calm network leaves in the bank. *)
LEMMA ContentStep ==
  ASSUME Patient, Typed, TransferInv, CrcInv, CalmInv, ContentInv, Enabled, FilesFit, EndsInPage,
         WholePages, [Next]_vars
  PROVE  ContentInv'
<1> USE DEF srvVars, efcVars, mainVars, boundVars
<1>1. faulty' = faulty
  BY ContentsKept
<1> SUFFICES ASSUME ~faulty PROVE ContentInv'
  BY <1>1 DEF ContentInv
<1>2. ~(faults < MaxFaults)
  BY TftpAssumption DEF CalmInv
<1>3. CASE BatchEnd \/ Main \/ Over \/ UNCHANGED vars
  <2>1. UNCHANGED <<cl, mem, start, end, toSrv, toCl>>
    BY <1>3 DEF BatchEnd, Main, MainWakes, MainCopies, Over, vars
  <2>2. ASSUME NEW f \in Puts[FALSE], Expects(f) PROVE Expects(f)'
    BY <1>3, <2>2 DEF BatchEnd, Main, MainWakes, MainCopies, Over, vars, Expects
  <2>3. ASSUME NEW f \in Puts[FALSE], Holds(mem, f, f.len), Coming(f) PROVE Coming(f)'
    <3>1. CASE f.kind # "image"
      BY <3>1 DEF Coming
    <3>2. CASE f.kind = "image" /\ BatchEnd
      <4>1. Stored(mem) = Bytes(f) /\ Bytes(f) # <<>>
        BY <2>3, LengthIs, FileFacts
      <4>2. CASE mode # "none" /\ ackn = 0 /\ crc = Bytes(f)
        <5>1. Completion = {"FWUPG"}
          BY <4>1, <4>2 DEF Completion
        <5>2. "FWUPG" \in pend'
          BY <3>2, <5>1 DEF BatchEnd
        <5> QED BY <5>2 DEF Coming
      <4>3. CASE "FWUPG" \in pend \/ mainPc # "run"
        <5>1. "FWUPG" \in pend' \/ mainPc' # "run"
          BY <3>2, <4>3 DEF BatchEnd
        <5> QED BY <5>1 DEF Coming
      <4> QED BY <2>3, <3>2, <4>2, <4>3 DEF Coming
    <3>3. CASE f.kind = "image" /\ Main
      <4>1. UNCHANGED <<mode, ackn, crc>>
        BY <3>3 DEF Main, MainWakes, MainCopies
      <4>2. "FWUPG" \in pend \/ mainPc # "run" => "FWUPG" \in pend' \/ mainPc' # "run"
        BY <3>3 DEF Main, MainWakes, MainCopies
      <4> QED BY <2>3, <3>3, <4>1, <4>2 DEF Coming
    <3>4. CASE Over \/ UNCHANGED vars
      BY <2>3, <3>4 DEF Over, vars, Coming
    <3> QED BY <1>3, <3>1, <3>2, <3>3, <3>4
  <2> QED BY <1>1, <2>1, <2>2, <2>3, ContentKept
<1>4. ~Lose
  BY <1>2 DEF Lose
<1>5. ASSUME NEW k \in Clients, Client(k) PROVE ContentInv'
  <2>1. ASSUME NEW c \in ClientRecs, Begin(k, c), c.got = <<>>, c.blk = 0,
               \/ c.pc = "wrq" /\ c.file \in Puts[faulty]
               \/ c.pc = "rrq" /\ c.file = Expected(cl[k], c.name)
        PROVE  ContentInv'
    <3>1. k = CalmClient /\ cl' = [cl EXCEPT ![k] = c] /\ mem' = mem /\ toCl' = {}
      BY <2>1, TransferBegins DEF Begin
    <3>2. cl'[k] = c /\ (\A j \in Clients : j # k => cl'[j] = cl[j]) /\ Clean(mem')
      BY <3>1 DEF Typed, ContentInv
    <3>3. CASE c.pc = "wrq"
      <4>1. Writes(c)'
        BY <2>1, <3>1, <3>3 DEF Writes
      <4>2. Content(c)'
        BY <3>3, <4>1 DEF Content
      <4> QED BY <3>1, <3>2, <4>2, ContentOne
    <3>4. CASE c.pc = "rrq" /\ c.file # NIL
      <4>1. cl[k].pc = "done" /\ c.file = cl[k].file /\ c.name = "stored"
        BY <2>1, <3>4 DEF Expected
      <4>2. c.file \in Puts[FALSE] /\ Holds(mem, c.file, c.file.len)
        <5>1. Done(cl[k])
          BY <3>4, <4>1 DEF ContentInv, Content
        <5> QED BY <4>1, <5>1 DEF Done
      <4>3. PICK f \in Puts[FALSE] : f = c.file
        BY <4>2
      <4>4. c.blk * SegSz = 0 /\ 0 <= f.len /\ SubSeq(Bytes(f), 1, 0) = <<>>
        <5>1. SegSz \in Nat /\ f.len \in Nat
          BY FileFacts, TftpAssumption
        <5>2. SubSeq(Bytes(f), 1, 0) = <<>>
          BY SubSeqEmpty
        <5> QED BY <2>1, <5>1, <5>2
      <4>5. Reads(c)'
        BY <2>1, <3>1, <3>4, <4>1, <4>2, <4>3, <4>4 DEF Reads
      <4>6. Content(c)'
        BY <3>4, <4>5 DEF Content
      <4> QED BY <3>1, <3>2, <4>6, ContentOne
    <3>5. CASE c.pc = "rrq" /\ c.file = NIL
      <4>1. Content(c)'
        BY <3>5 DEF Content
      <4> QED BY <3>1, <3>2, <4>1, ContentOne
    <3> QED BY <2>1, <3>3, <3>4, <3>5
  <2>2. CASE BeginPut(k)
    <3>1. PICK f \in Puts[faulty] : Begin(k, Writer(f))
      BY <2>2 DEF BeginPut, Writer
    <3> QED BY <2>1, <3>1, PutRec
  <2>3. CASE BeginGet(k)
    <3>1. PICK name \in Gets : Begin(k, Reader(cl[k], name))
      BY <2>3 DEF BeginGet, Reader
    <3>2. PICK c : c = Reader(cl[k], name)
      OBVIOUS
    <3>3. /\ c \in ClientRecs /\ Begin(k, c) /\ c.pc = "rrq" /\ c.got = <<>> /\ c.blk = 0
          /\ c.file = Expected(cl[k], c.name)
      BY <3>1, <3>2, GetRec
    <3> QED BY <2>1, <3>3
  <2>4. ~Repeat(k)
    BY <1>2 DEF Repeat
  <2>5. CASE GiveUp(k)
    <3>1. PICK n : n = [cl[k] EXCEPT !.pc = "failed"]
      OBVIOUS
    <3>2. n.pc = "failed" /\ cl' = [cl EXCEPT ![k] = n] /\ Active(k) /\ mem' = mem
      BY <2>5, <3>1 DEF GiveUp, Through, Typed, ClientRecs
    <3>3. k = CalmClient /\ cl'[k] = n /\ (\A j \in Clients : j # k => cl'[j] = cl[j]) /\ Clean(mem')
      BY <3>2 DEF Typed, ContentInv, Active
    <3>4. Content(n)'
      BY <3>2 DEF Content
    <3> QED BY <3>3, <3>4, ContentOne
  <2>6. CASE \E p \in toCl : Hear(k, p)
    BY <2>6, ContentHears
  <2> QED BY <1>5, <2>2, <2>3, <2>4, <2>5, <2>6 DEF Client
<1>6. CASE \E p \in toSrv : HandleWrq(p) \/ HandleData(p) \/ HandleRrq(p) \/ HandleAck(p)
  BY <1>6, ContentServer
<1> QED BY <1>3, <1>4, <1>5, <1>6 DEF Next, Server

(* On a network with faults nothing is read. *)
NoReader == faulty => \A k \in Clients : cl[k].pc \notin {"rrq", "get"} /\ cl[k].got = <<>>

(* Clients read on a calm network only. *)
LEMMA ReaderStep ==
  ASSUME Typed, NoReader, [Next]_vars
  PROVE  NoReader'
<1> USE DEF srvVars, efcVars, mainVars, boundVars
<1>1. faulty' = faulty
  BY ContentsKept
<1> SUFFICES ASSUME faulty PROVE NoReader'
  BY <1>1 DEF NoReader
<1>2. CASE UNCHANGED cl
  BY <1>1, <1>2 DEF NoReader
<1>3. ASSUME NEW k \in Clients, NEW c, cl' = [cl EXCEPT ![k] = c],
             c.pc \notin {"rrq", "get"}, c.got = <<>>
      PROVE  NoReader'
  <2>1. cl'[k] = c /\ \A j \in Clients : j # k => cl'[j] = cl[j]
    BY <1>3 DEF Typed
  <2> QED BY <1>1, <1>3, <2>1 DEF NoReader
<1>4. ASSUME NEW k \in Clients, Client(k) PROVE NoReader'
  <2>1. cl[k] \in ClientRecs /\ cl[k].pc \notin {"rrq", "get"} /\ cl[k].got = <<>>
    BY DEF Typed, NoReader
  <2>2. ASSUME NEW pc \in {"done", "failed"}, Through(k, [cl[k] EXCEPT !.pc = pc]) PROVE NoReader'
    <3>1. PICK n : n = [cl[k] EXCEPT !.pc = pc]
      OBVIOUS
    <3>2. n.pc \notin {"rrq", "get"} /\ n.got = <<>> /\ cl' = [cl EXCEPT ![k] = n]
      BY <2>1, <2>2, <3>1 DEF Through, ClientRecs
    <3> QED BY <1>3, <3>2
  <2>3. CASE BeginPut(k)
    <3>1. PICK f \in Puts[faulty] : Begin(k, Writer(f))
      BY <2>3 DEF BeginPut, Writer
    <3>2. PICK n : n = Writer(f)
      OBVIOUS
    <3>3. n.pc \notin {"rrq", "get"} /\ n.got = <<>> /\ cl' = [cl EXCEPT ![k] = n]
      BY <3>1, <3>2, PutRec DEF Begin
    <3> QED BY <1>3, <3>3
  <2>4. ~BeginGet(k)
    BY DEF BeginGet
  <2>5. CASE Repeat(k)
    BY <1>2, <2>5 DEF Repeat
  <2>6. CASE GiveUp(k)
    BY <2>2, <2>6 DEF GiveUp
  <2>7. CASE \E p \in toCl : Hear(k, p)
    <3>1. PICK p \in toCl : Hear(k, p)
      BY <2>7
    <3>2. CASE Advance(k, [cl[k] EXCEPT !.pc = "put", !.blk = @ + 1])
      <4>1. PICK n : n = [cl[k] EXCEPT !.pc = "put", !.blk = @ + 1]
        OBVIOUS
      <4>2. n.pc \notin {"rrq", "get"} /\ n.got = <<>> /\ cl' = [cl EXCEPT ![k] = n]
        BY <2>1, <3>2, <4>1 DEF Advance, ClientRecs
      <4> QED BY <1>3, <4>2
    <3>3. ~GotBlock(k, p)
      BY <2>1 DEF GotBlock
    <3> QED BY <1>2, <2>2, <3>1, <3>2, <3>3 DEF Hear, PutAcked
  <2> QED BY <1>4, <2>3, <2>4, <2>5, <2>6, <2>7 DEF Client
<1>5. CASE Server \/ Main \/ Lose \/ Over \/ UNCHANGED vars
  <2>1. UNCHANGED cl
    BY <1>5 DEF Server, BatchEnd, HandleWrq, HandleData, HandleRrq, HandleAck, Main, MainWakes,
                MainCopies, Lose, Over, vars
  <2> QED BY <1>2, <2>1
<1> QED BY <1>4, <1>5 DEF Next

(* Without faults, a file that is read back after it was written is the    *)
(* file, byte for byte, whatever its size: tftpd_data_in() puts the blocks *)
(* one behind the other, efc_get_length() finds where the last one ends,   *)
(* and tftpd_data_out() sends the same blocks.                             *)
THEOREM ReadBackIsWritten ==
  ASSUME Patient, Enabled, FilesFit, EndsInPage, WholePages
  PROVE  Spec => []WrittenIsRead
<1>1. Typed /\ [Next]_vars => Typed'
  BY TypeStep
<1>2. Typed /\ TransferInv /\ [Next]_vars => TransferInv'
  BY TransferStep
<1>3. Typed /\ TransferInv /\ CrcInv /\ [Next]_vars => CrcInv'
  BY CrcStep
<1>4. Typed /\ TransferInv /\ CalmInv /\ [Next]_vars => CalmInv'
  BY CalmStep
<1>5. Typed /\ TransferInv /\ CrcInv /\ CalmInv /\ ContentInv /\ [Next]_vars => ContentInv'
  BY ContentStep
<1>6. Typed /\ NoReader /\ [Next]_vars => NoReader'
  BY ReaderStep
<1>7. Init => ContentInv
  BY ContentInit
<1>8. Init => CrcInv /\ NoReader
  BY DEF Init, CrcInv, NoReader, Idle
<1>9. Typed /\ ContentInv /\ NoReader => WrittenIsRead
  BY DEF Typed, ContentInv, Content, Done, NoReader, WrittenIsRead
<1> QED BY TypeInit, TransferInit, CalmInit, <1>1, <1>2, <1>3, <1>4, <1>5, <1>6, <1>7, <1>8, <1>9,
       PTL DEF Spec

(* Without faults, the board does not settle back to rest with an image    *)
(* that a client wrote without an error and that was not installed: what   *)
(* tftpd_cb() computes the CRC of is the file, so the comparison with the  *)
(* name of the file succeeds, and what follows it ends in the reset.       *)
THEOREM WrittenIsInstalled ==
  ASSUME Patient, Enabled, FilesFit, EndsInPage, WholePages
  PROVE  Spec => []AcceptedImageIsInstalled
<1>1. Typed /\ [Next]_vars => Typed'
  BY TypeStep
<1>2. Typed /\ TransferInv /\ [Next]_vars => TransferInv'
  BY TransferStep
<1>3. Typed /\ TransferInv /\ CrcInv /\ [Next]_vars => CrcInv'
  BY CrcStep
<1>4. Typed /\ TransferInv /\ CalmInv /\ [Next]_vars => CalmInv'
  BY CalmStep
<1>5. Typed /\ TransferInv /\ CrcInv /\ CalmInv /\ ContentInv /\ [Next]_vars => ContentInv'
  BY ContentStep
<1>6. Init => CrcInv /\ ContentInv
  BY ContentInit, Zenon DEF Init, CrcInv
<1>7. ContentInv => AcceptedImageIsInstalled
  <2> SUFFICES ASSUME ContentInv, ~faulty, NEW k \in Clients, Wrote(k), cl[k].file.kind = "image"
               PROVE  ~Settled
    BY DEF AcceptedImageIsInstalled
  <2>1. Done(cl[k]) /\ cl[k].got = <<>>
    BY DEF ContentInv, Content, Wrote
  <2>2. Bytes(cl[k].file) # <<>>
    BY <2>1, FileFacts DEF Done
  <2>3. Coming(cl[k].file)
    BY <2>1, <2>2 DEF Done
  <2> QED BY <2>3 DEF Coming, Settled
<1> QED BY TypeInit, TransferInit, CalmInit, <1>1, <1>2, <1>3, <1>4, <1>5, <1>6, <1>7, PTL DEF Spec
=============================================================================
