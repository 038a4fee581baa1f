--------------------------- MODULE TelnetdProofs ---------------------------
(***************************************************************************)
(* Proofs about Telnetd, for any number of connections, lines, blocks and  *)
(* bytes of input and in every environment the constants allow.            *)
(***************************************************************************)
EXTENDS Telnetd, FiniteSetTheorems, SequenceTheorems, TLAPS

(* Line 344 tells connections apart. *)
KeysDiffer == \A c, d \in Conns : Key[c] = Key[d] => c = d

(* What the server believes and what is so. *)
PortInv == st \in [Conns -> ConnStates] /\ AtMostOneServed

(* At telnetd_init() no connection is served. *)
LEMMA PortInit == Init => PortInv
  BY DEF Init, PortInv, ConnStates, AtMostOneServed

(* An event of connection c that may only end its own session keeps the    *)
(* invariant: the heart of the argument is that the connection whose key   *)
(* clears telnetd_rport is the one that stops being served.                *)
LEMMA EndOfOne ==
  ASSUME KeysDiffer, PortInv, NEW c \in Conns, NEW s \in ConnStates \ {"est"},
         st' = [st EXCEPT ![c] = s],
         rport' \in {rport, IF rport # NIL /\ Key[rport] = Key[c] THEN NIL ELSE rport}
  PROVE  PortInv'
  BY DEF KeysDiffer, PortInv, AtMostOneServed

(* Every step keeps it. *)
LEMMA PortStep ==
  ASSUME KeysDiffer, PortInv, [Next]_vars
  PROVE  PortInv'
<1>1. ASSUME UNCHANGED <<rport, st>> PROVE PortInv'
  BY <1>1 DEF PortInv, AtMostOneServed
<1>2. CASE ShellOutput
  BY <1>1, <1>2 DEF ShellOutput, uipVars
<1>3. CASE EatByte
  BY <1>1, <1>3 DEF EatByte, uipVars
<1>4. CASE EndCall
  <2>1. CASE st' = st
    BY <1>1, <1>4, <2>1 DEF EndCall
  <2>2. CASE UipClose(rport)
    BY <1>4, <2>2 DEF EndCall, UipClose, PortInv, AtMostOneServed, ConnStates
  <2> QED
    BY <1>4, <2>1, <2>2 DEF EndCall
<1>5. ASSUME NEW c \in Conns, Uip(c) PROVE PortInv'
  <2>1. CASE AckEvent(c)
    BY <1>1, <2>1, EndOfOne DEF AckEvent, CloseNow, UipClose, ConnStates
  <2>2. CASE Poll(c)
    BY <1>1, <2>2, EndOfOne DEF Poll, CloseNow, UipClose, ConnStates
  <2>3. CASE Rexmit(c)
    BY <1>1, <2>3 DEF Rexmit
  <2> QED
    BY <1>5, <2>1, <2>2, <2>3 DEF Uip
<1>6. ASSUME NEW c \in Conns, Client(c) PROVE PortInv'
  <2>1. CASE Reject(c)
    BY <2>1, EndOfOne DEF Reject, ConnStates
  <2>2. CASE Accept(c)
    BY <2>2, ConnAssumption DEF Accept, PortInv, AtMostOneServed, ConnStates
  <2>3. CASE NewData(c)
    BY <1>1, <2>3, EndOfOne DEF NewData, CloseNow, UipClose, ConnStates
  <2>4. CASE ClientFin(c)
    BY <2>4, EndOfOne DEF ClientFin, Terminal, Forget, ConnStates
  <2>5. CASE ClientFinAck(c)
    BY <2>5, EndOfOne DEF ClientFinAck, ConnStates
  <2> QED
    BY <1>6, <2>1, <2>2, <2>3, <2>4, <2>5 DEF Client
<1>7. ASSUME NEW c \in Conns, HandshakeEnds(c) PROVE PortInv'
  BY <1>7, EndOfOne DEF HandshakeEnds, Terminal, Forget, ConnStates
<1>8. ASSUME NEW c \in Conns, Abort(c) PROVE PortInv'
  BY <1>8, EndOfOne DEF Abort, Terminal, Forget, ConnStates
<1>9. ASSUME NEW c \in Conns, Expire(c) PROVE PortInv'
  BY <1>9, EndOfOne DEF Expire, ConnStates
<1>10. CASE Receive
  BY <1>1, <1>10 DEF Receive
<1>11. CASE CallbackPuts
  BY <1>1, <1>11 DEF CallbackPuts, uipVars
<1>12. CASE MainQuits
  BY <1>1, <1>12 DEF MainQuits, uipVars
<1>13. CASE Quiet \/ UNCHANGED vars
  BY <1>1, <1>13 DEF Quiet, vars, uipVars
<1> QED
  BY <1>2, <1>3, <1>4, <1>5, <1>6, <1>7, <1>8, <1>9, <1>10, <1>11, <1>12, <1>13
  DEF Next

(* As long as line 344 tells the connections apart, the server never       *)
(* serves a connection other than the one it remembers, whatever clients,  *)
(* aborts, callbacks and pending shell_quit() requests do.                 *)
THEOREM OneServed ==
  ASSUME KeysDiffer
  PROVE  Spec => []AtMostOneServed
<1>1. PortInv /\ [Next]_vars => PortInv'
  BY PortStep
<1>2. PortInv => AtMostOneServed
  BY DEF PortInv
<1> QED
  BY PortInit, <1>1, <1>2, PTL DEF Spec

(***************************************************************************)
(* The ranges of the session's fields, in every environment.               *)
(***************************************************************************)
(* A function on 1..m is a sequence of length m. *)
LEMMA FunctionIsSeq ==
  ASSUME NEW S, NEW m \in Nat, NEW q \in [1..m -> S]
  PROVE  q \in Seq(S) /\ Len(q) = m
OBVIOUS

(* What acked() frees and what it moves up. *)
LEMMA UnsentLines ==
  ASSUME NEW S, lines \in Seq(S), numsent \in Nat
  PROVE  /\ Unsent \in Seq(S) /\ Len(Unsent) \in Nat /\ Len(Unsent) <= Len(lines)
         /\ DOMAIN Sent = 1..numsent
         /\ numsent <= Len(lines) =>
              /\ Len(Unsent) = Len(lines) - numsent
              /\ \A i \in 1..Len(Unsent) : Unsent[i] = lines[numsent + i]
              /\ \A i \in 1..numsent : Sent[i] = lines[i]
<1> DEFINE n == Len(lines)
           k == numsent
           U == SubSeq(lines, k + 1, n)
           V == SubSeq(lines, 1, k)
           T == {lines[i] : i \in 1..k}
<1>1. n \in Nat /\ k \in Nat /\ k + 1 \in Int
      /\ \A i \in (k + 1)..n : lines[i] \in S
  OBVIOUS
<1>2. \A i \in 1..k : lines[i] \in T
  OBVIOUS
<1> HIDE DEF n, k, T
<1>3. /\ U \in Seq(S)
      /\ Len(U) = IF k + 1 <= n THEN n - (k + 1) + 1 ELSE 0
      /\ \A i \in 1..(n - (k + 1) + 1) : U[i] = lines[k + 1 + i - 1]
  BY <1>1, SubSeqProperties
<1>4. /\ V \in Seq(T)
      /\ Len(V) = IF 1 <= k THEN k - 1 + 1 ELSE 0
      /\ \A i \in 1..(k - 1 + 1) : V[i] = lines[1 + i - 1]
  BY <1>1, <1>2, SubSeqProperties
<1> HIDE DEF U, V
<1>5. Len(V) = k /\ \A i \in 1..k : V[i] = lines[i]
  <2>1. \A i \in 1..k : i \in 1..(k - 1 + 1) /\ 1 + i - 1 = i
    BY <1>1
  <2>2. \A i \in 1..k : V[i] = lines[i]
    BY <1>4, <2>1, Zenon
  <2>3. Len(V) = k
    BY <1>1, <1>4
  <2> QED BY <2>2, <2>3
<1>6. DOMAIN V = 1..k
  BY <1>4, <1>5
<1>7. Len(U) \in Nat /\ Len(U) <= n /\ (k <= n => Len(U) = n - k)
  BY <1>1, <1>3
<1>8. k <= n => \A i \in 1..Len(U) : U[i] = lines[k + i]
  <2> SUFFICES ASSUME k <= n, NEW i \in 1..Len(U) PROVE U[i] = lines[k + i]
    OBVIOUS
  <2>1. i \in 1..(n - (k + 1) + 1) /\ k + 1 + i - 1 = k + i
    BY <1>1, <1>7
  <2> QED BY <1>3, <2>1, Zenon
<1>9. Unsent = U /\ Sent = V
  BY DEF Unsent, Sent, U, V, n, k
<1> QED
  BY <1>3, <1>5, <1>6, <1>7, <1>8, <1>9 DEF n, k

(* memb_free() of any blocks leaves counts. *)
LEMMA DeallocType ==
  ASSUME count \in [Slots -> Int], NEW q, NEW m \in Nat, DOMAIN q = 1..m
  PROVE  Dealloc(q) \in [Slots -> Int]
<1>1. \A s \in Slots : Cardinality({i \in DOMAIN q : q[i] = s}) \in Nat
  <2> TAKE s \in Slots
  <2>1. IsFiniteSet(1..m)
    BY FS_Interval
  <2>2. {i \in DOMAIN q : q[i] = s} \subseteq 1..m
    OBVIOUS
  <2> QED BY <2>1, <2>2, FS_Subset, FS_CardinalityType
<1> QED BY <1>1 DEF Dealloc

(* alloc_line() and sendline() keep s.lines within its array. *)
LEMMA QueueType ==
  ASSUME TypeOK, QueueLine
  PROVE  /\ lines' \in Seq(Slots) /\ Len(lines') <= NumLines
         /\ count' \in [Slots -> Int] /\ content' \in [Slots -> Nat] /\ said' \in Nat
<1> USE DEF TypeOK, QueueLine, poolVars
<1>1. CASE FreeSlots = {}
  BY <1>1
<1>2. CASE FreeSlots # {}
  <2>1. NextFree \in Slots
    BY <1>2 DEF NextFree, FreeSlots
  <2>2. content' \in [Slots -> Nat]
    <3>1. content' = [content EXCEPT ![NextFree] = said + 1]
      BY <1>2
    <3> QED BY <2>1, <3>1
  <2>3. NumLines \in Nat
    BY SizeAssumption
  <2>4. CASE Len(lines) < NumLines
    <3>1. lines' = Append(lines, NextFree) /\ count' = [count EXCEPT ![NextFree] = 1]
          /\ said' = said + 1
      BY <1>2, <2>4
    <3>2. lines' \in Seq(Slots) /\ Len(lines') = Len(lines) + 1 /\ Len(lines) \in Nat
      BY <2>1, <3>1
    <3>3. count' \in [Slots -> Int]
      BY <2>1, <3>1
    <3> QED BY <2>2, <2>3, <2>4, <3>1, <3>2, <3>3
  <2>5. CASE ~(Len(lines) < NumLines)
    BY <1>2, <2>2, <2>5
  <2> QED BY <2>4, <2>5
<1> QED BY <1>1, <1>2

(* What senddata() hands to uIP. *)
LEMMA SendType ==
  ASSUME TypeOK, SendData
  PROVE  numsent' \in 0..NumLines /\ inflight' \in Seq(Nat) /\ arrived' \in BOOLEAN
<1> DEFINE n == Len(lines)
<1>1. n \in Nat /\ n <= NumLines /\ NumLines \in Nat /\ SegLines \in Nat
  BY SizeAssumption DEF TypeOK
<1>2. numsent' \in 0..NumLines /\ numsent' <= n /\ numsent' \in Nat
  BY <1>1 DEF SendData, Least
<1>3. ASSUME NEW m \in Nat, m <= n PROVE Segment(m) \in Seq(Nat)
  <2>0. \A i \in 1..m : lines[i] \in Slots
    BY <1>1, <1>3 DEF TypeOK
  <2>1. \A i \in 1..m : content[lines[i]] \in Nat
    BY <2>0 DEF TypeOK
  <2> QED BY <2>1 DEF Segment
<1>4. Len(inflight) \in Nat
  BY DEF TypeOK
<1>5. Least(Len(inflight), numsent') \in Nat /\ Least(Len(inflight), numsent') <= n
  BY <1>1, <1>2, <1>4 DEF Least
<1>6. Segment(numsent') \in Seq(Nat) /\ Segment(Least(Len(inflight), numsent')) \in Seq(Nat)
  BY <1>2, <1>3, <1>5
<1>7. inflight' \in {Segment(numsent'), inflight, Segment(Least(Len(inflight), numsent'))}
  BY DEF SendData
<1>8. inflight' \in Seq(Nat) /\ arrived' \in BOOLEAN
  BY <1>6, <1>7 DEF SendData, TypeOK
<1> QED
  BY <1>2, <1>8

(* get_char() does not overrun s.buf. *)
LEMMA GetCharType ==
  ASSUME TypeOK, NEW c \in AllTokens, GetChar(c)
  PROVE  /\ buf' \in Seq(AllTokens) /\ Len(buf') < BufLen
         /\ owed' \in Nat /\ entered' \in Nat /\ quit' \in BOOLEAN
<1>0. BufLen \in Nat \ {0, 1} /\ Prints(buf) \subseteq Nat
  <2>1. BufLen \in Nat \ {0, 1} /\ MaxReply \in Nat
    BY SizeAssumption
  <2> QED BY <2>1 DEF Prints
<1> USE DEF TypeOK, GetChar
<1>1. CASE c = "cr"
  BY <1>1
<1>2. CASE c # "cr" /\ Completes(c)
  <2>1. buf' = <<>> /\ Len(buf') = 0 /\ owed' \in Prints(buf) /\ entered' = entered + 1
    BY <1>2
  <2>2. owed' \in Nat
    BY <1>0, <2>1
  <2>3. quit' = (quit \/ Exits(c))
    BY <1>2
  <2>4. quit' \in BOOLEAN
    BY <2>3
  <2>5. buf' \in Seq(AllTokens) /\ entered' \in Nat
    BY <2>1
  <2> QED BY <1>0, <2>1, <2>2, <2>4, <2>5
<1>3. CASE c # "cr" /\ ~Completes(c)
  <2>1. buf' = Append(buf, c) /\ UNCHANGED <<owed, entered, quit>>
    BY <1>3
  <2>2. buf' \in Seq(AllTokens) /\ Len(buf') = Len(buf) + 1 /\ Len(buf) \in Nat
    BY <2>1
  <2>3. Len(buf) # BufLen - 1
    BY <1>3 DEF Completes
  <2> QED BY <1>0, <2>1, <2>2, <2>3
<1> QED BY <1>1, <1>2, <1>3

(* At telnetd_init() every field is in its range. *)
LEMMA TypeInit == Init => TypeOK
<1> SUFFICES ASSUME Init PROVE TypeOK
  OBVIOUS
<1>1. /\ lines \in Seq(Slots) /\ Len(lines) = 0
      /\ buf \in Seq(AllTokens) /\ Len(buf) = 0
      /\ rx \in Seq(AllTokens) /\ inflight \in Seq(Nat) /\ shown \in Seq(Nat)
  BY DEF Init
<1>2. /\ count \in [Slots -> Int] /\ content \in [Slots -> Nat]
      /\ st \in [Conns -> ConnStates] /\ typed \in [Conns -> 0..MaxTyped]
  BY SizeAssumption DEF Init, ConnStates
<1>3. NumLines \in Nat /\ BufLen \in Nat \ {0} /\ MaxPuts \in Nat
  BY SizeAssumption
<1>4. /\ rport \in Conns \union {NIL} /\ sstate \in SessStates
      /\ phase \in {"idle", "start", "bytes"}
      /\ numsent = 0 /\ owed = 0 /\ puts = 0 /\ said = 0 /\ entered = 0
      /\ arrived \in BOOLEAN /\ quit \in BOOLEAN
  BY DEF Init, SessStates
<1> QED BY <1>1, <1>2, <1>3, <1>4 DEF TypeOK

(* The uIP event handlers keep the ranges. *)
LEMMA UipType ==
  ASSUME TypeOK, NEW c \in Conns, Uip(c)
  PROVE  TypeOK'
<1> USE DEF sessHist, callVars, poolVars, uipVars
<1>1. /\ lines \in Seq(Slots) /\ numsent \in Nat /\ Len(lines) \in Nat /\ Len(lines) <= NumLines
      /\ NumLines \in Nat /\ SegLines \in Nat /\ count \in [Slots -> Int]
  BY SizeAssumption DEF TypeOK
<1>2. ASSUME UNCHANGED <<typed, puts, sessHist>>, CloseNow(c) PROVE TypeOK'
  BY <1>2 DEF TypeOK, CloseNow, CloseRequested, UipClose, SessStates, ConnStates
<1>3. ASSUME UNCHANGED <<rport, lines, buf, sstate, callVars, poolVars, st, typed, puts, sessHist>>,
             SendData
      PROVE  TypeOK'
  BY <1>3, SendType DEF TypeOK
<1>4. ASSUME UNCHANGED <<rport, buf, sstate, callVars, content, st, typed, puts, sessHist>>, SendUnsent
      PROVE  TypeOK'
  <2>1. lines' \in Seq(Slots) /\ Len(lines') \in Nat /\ Len(lines') <= NumLines
        /\ lines' = Unsent
    BY <1>1, <1>4, UnsentLines DEF SendUnsent
  <2>2. count' \in [Slots -> Int]
    BY <1>1, <1>4, UnsentLines, DeallocType DEF SendUnsent
  <2>3. numsent' \in 0..NumLines /\ numsent' <= Len(lines')
    <3>1. numsent' = Least(Len(lines'), SegLines)
      BY <1>4, <2>1 DEF SendUnsent
    <3> DEFINE m == Len(lines')
    <3>2. m \in Nat /\ m <= NumLines /\ numsent' = IF m < SegLines THEN m ELSE SegLines
      BY <2>1, <3>1 DEF Least
    <3> HIDE DEF m
    <3>3. numsent' \in 0..NumLines /\ numsent' <= m
      BY <1>1, <3>2
    <3> QED BY <3>3 DEF m
  <2>4. \A i \in 1..numsent' : content[lines'[i]] \in Nat
    <3>1. \A i \in 1..numsent' : lines'[i] \in Slots
      BY <1>1, <2>1, <2>3
    <3>2. content \in [Slots -> Nat]
      BY DEF TypeOK
    <3> QED BY <3>1, <3>2
  <2>5. inflight' \in Seq(Nat) /\ arrived' \in BOOLEAN
    <3>1. Unsent = lines' /\ inflight' = [i \in 1..numsent' |-> content[Unsent[i]]] /\ arrived' = FALSE
      BY <1>4, <2>1 DEF SendUnsent
    <3>2. numsent' \in Nat
      BY <1>1, <2>3
    <3>3. \A i \in 1..numsent' : content[Unsent[i]] \in Nat
      BY <2>4, <3>1
    <3>4. inflight' \in [1..numsent' -> Nat]
      BY <3>1, <3>3
    <3> QED BY <3>1, <3>2, <3>4, FunctionIsSeq
  <2> QED BY <1>4, <2>1, <2>2, <2>3, <2>5 DEF TypeOK
<1>5. CASE AckEvent(c)
  BY <1>2, <1>4, <1>5 DEF AckEvent
<1>6. CASE Poll(c)
  BY <1>2, <1>3, <1>6 DEF Poll
<1>7. CASE Rexmit(c)
  <2>1. CASE CloseRequested /\ UNCHANGED <<numsent, inflight, arrived>>
    BY <1>7, <2>1 DEF Rexmit, CloseRequested, TypeOK, SessStates
  <2>2. CASE SendData /\ UNCHANGED sstate
    BY <1>3, <1>7, <2>2 DEF Rexmit
  <2> QED BY <1>7, <2>1, <2>2 DEF Rexmit
<1> QED BY <1>5, <1>6, <1>7 DEF Uip

(* So do the events clients cause. *)
LEMMA ClientType ==
  ASSUME TypeOK, NEW c \in Conns, Client(c)
  PROVE  TypeOK'
<1> USE DEF sessHist, callVars, poolVars, uipVars
<1>1. /\ lines \in Seq(Slots) /\ numsent \in Nat /\ Len(lines) \in Nat /\ Len(lines) <= NumLines
      /\ NumLines \in Nat /\ SegLines \in Nat /\ MaxTyped \in Nat /\ BufLen \in Nat \ {0, 1}
      /\ count \in [Slots -> Int]
  BY SizeAssumption DEF TypeOK
<1>2. FreeAll \in [Slots -> Int]
  BY <1>1, DeallocType DEF FreeAll
<1>3. Unsent \in Seq(Slots) /\ Len(Unsent) \in Nat /\ Len(Unsent) <= NumLines
  BY <1>1, UnsentLines
<1>4. Dealloc(Sent) \in [Slots -> Int]
  BY <1>1, UnsentLines, DeallocType
<1>5. CASE Reject(c)
  BY <1>5 DEF Reject, TypeOK, ConnStates
<1>6. CASE Accept(c)
  <2>1. /\ lines' = <<>> /\ buf' = <<>> /\ sstate' = "normal" /\ inflight' = <<>> /\ rx' = <<>>
        /\ shown' = <<>> /\ phase' = "start" /\ owed' = 2 /\ said' = 0 /\ entered' = 0
        /\ arrived' = FALSE /\ quit' = FALSE /\ rport' = c
        /\ UNCHANGED <<numsent, count, content, typed, puts>>
    BY <1>6 DEF Accept
  <2>2. st' \in [Conns -> ConnStates]
    BY <1>6 DEF Accept, TypeOK, ConnStates
  <2>3. /\ lines' \in Seq(Slots) /\ Len(lines') <= NumLines
        /\ buf' \in Seq(AllTokens) /\ Len(buf') < BufLen
    BY <1>1, <2>1
  <2>4. rx' \in Seq(AllTokens) /\ inflight' \in Seq(Nat) /\ shown' \in Seq(Nat)
    BY <2>1
  <2>5. /\ rport' \in Conns \union {NIL} /\ sstate' \in SessStates
        /\ phase' \in {"idle", "start", "bytes"} /\ owed' \in Nat
        /\ said' \in Nat /\ entered' \in Nat /\ arrived' \in BOOLEAN /\ quit' \in BOOLEAN
    BY <2>1 DEF SessStates
  <2>6. UNCHANGED <<numsent, count, content, typed, puts>>
    BY <2>1
  <2> QED BY <2>2, <2>3, <2>4, <2>5, <2>6 DEF TypeOK
<1>7. CASE NewData(c)
  <2>1. typed' \in [Conns -> 0..MaxTyped] /\ UNCHANGED <<puts, sessHist>>
    <3>1. typed' = [typed EXCEPT ![c] = @ + 1] /\ typed[c] < MaxTyped /\ UNCHANGED <<puts, sessHist>>
      BY <1>7 DEF NewData
    <3>2. typed \in [Conns -> 0..MaxTyped] /\ MaxTyped \in Nat
      BY <1>1 DEF TypeOK
    <3> QED BY <3>1, <3>2
  <2>2. CASE CloseNow(c)
    BY <2>1, <2>2 DEF TypeOK, CloseNow, CloseRequested, UipClose, SessStates, ConnStates
  <2>3. CASE ~CloseNow(c)
    <3>1. /\ rx' \in Seq(AllTokens) /\ phase' = "bytes"
          /\ UNCHANGED <<rport, buf, sstate, owed, content, st, arrived>>
      BY <1>7, <2>3, EnvAssumption DEF NewData
    <3>2. CASE UNCHANGED <<lines, count, numsent, inflight>>
      BY <2>1, <3>1, <3>2 DEF TypeOK
    <3>3. CASE Acked
      <4>1. /\ lines' \in Seq(Slots) /\ Len(lines') <= NumLines /\ count' \in [Slots -> Int]
            /\ numsent' \in 0..NumLines /\ inflight' \in Seq(Nat)
        BY <1>1, <1>3, <1>4, <3>3 DEF Acked
      <4>2. Len(buf') < BufLen /\ buf' \in Seq(AllTokens)
        BY <3>1 DEF TypeOK
      <4> QED BY <2>1, <3>1, <4>1, <4>2 DEF TypeOK
    <3> QED BY <1>7, <2>3, <3>2, <3>3 DEF NewData
  <2> QED BY <2>2, <2>3
<1>8. CASE ClientFin(c)
  BY <1>2, <1>8 DEF ClientFin, Terminal, Forget, CloseRequested, TypeOK, ConnStates, SessStates
<1>9. CASE ClientFinAck(c)
  <2>1. /\ inflight' = <<>> /\ UNCHANGED <<buf, callVars, content, arrived, typed, puts, sessHist>>
        /\ st' = [st EXCEPT ![c] = "lastack"]
    BY <1>9 DEF ClientFinAck
  <2>2. st' \in [Conns -> ConnStates]
    BY <2>1 DEF TypeOK, ConnStates
  <2>3. CASE sstate # "close"
    <3>1. /\ rport' = IF rport # NIL /\ Key[rport] = Key[c] THEN NIL ELSE rport
          /\ lines' = Unsent /\ UNCHANGED sstate
          /\ count' = [s \in Slots |-> FreeAll[s] + Dealloc(Sent)[s] - count[s]]
          /\ numsent' = Least(Len(Unsent), SegLines)
      BY <1>9, <2>3 DEF ClientFinAck, CloseRequested
    <3>2. count' \in [Slots -> Int]
      BY <1>1, <1>2, <1>4, <3>1
    <3>3. numsent' \in 0..NumLines
      <4> DEFINE m == Len(Unsent)
      <4>1. m \in Nat /\ m <= NumLines /\ numsent' = IF m < SegLines THEN m ELSE SegLines
        BY <1>3, <3>1 DEF Least
      <4> HIDE DEF m
      <4> QED BY <1>1, <4>1
    <3>4. rport' \in Conns \union {NIL} /\ sstate' \in SessStates
      BY <3>1 DEF TypeOK
    <3>5. lines' \in Seq(Slots) /\ Len(lines') <= NumLines
      BY <1>3, <3>1
    <3> QED BY <2>1, <2>2, <3>2, <3>3, <3>4, <3>5, SMTT(30) DEF TypeOK
  <2>4. CASE CloseRequested /\ UNCHANGED <<rport, lines, count, numsent>>
    BY <2>1, <2>2, <2>4 DEF TypeOK, CloseRequested, SessStates
  <2> QED BY <1>9, <2>3, <2>4 DEF ClientFinAck
<1> QED BY <1>5, <1>6, <1>7, <1>8, <1>9 DEF Client

(* Reading a byte keeps the ranges. *)
LEMMA ByteType ==
  ASSUME TypeOK, EatByte
  PROVE  TypeOK'
<1> DEFINE c == Head(rx)
<1> USE DEF sessHist, poolVars, uipVars
<1>1. /\ rx # <<>> /\ owed = 0
      /\ rx' = Tail(rx) /\ UNCHANGED <<rport, numsent, phase, st, inflight, arrived, typed, puts, shown>>
      /\ ByteNormal(c) \/ ByteIac(c) \/ ByteOption \/ ByteIgnored
  BY DEF EatByte
<1>2. c \in AllTokens /\ rx' \in Seq(AllTokens)
  BY <1>1 DEF TypeOK
<1> HIDE DEF c
<1>3. GetChar(c) \/ UNCHANGED <<buf, owed, entered, quit>> =>
        /\ buf' \in Seq(AllTokens) /\ Len(buf') < BufLen
        /\ owed' \in Nat /\ entered' \in Nat /\ quit' \in BOOLEAN
  BY <1>2, GetCharType DEF TypeOK
<1>4. QueueLine \/ UNCHANGED <<lines, poolVars, said>> =>
        /\ lines' \in Seq(Slots) /\ Len(lines') <= NumLines
        /\ count' \in [Slots -> Int] /\ content' \in [Slots -> Nat] /\ said' \in Nat
  BY QueueType DEF TypeOK
<1>5. sstate' \in SessStates
  BY <1>1 DEF ByteNormal, ByteIac, ByteOption, ByteIgnored, SessStates
<1>6. GetChar(c) \/ UNCHANGED <<buf, owed, entered, quit>>
  BY <1>1 DEF ByteNormal, ByteIac, ByteOption, ByteIgnored
<1>7. QueueLine \/ UNCHANGED <<lines, poolVars, said>>
  BY <1>1 DEF ByteNormal, ByteIac, ByteOption, ByteIgnored
<1> QED BY <1>1, <1>2, <1>3, <1>4, <1>5, <1>6, <1>7 DEF TypeOK

(* Every step keeps the ranges. *)
LEMMA TypeStep ==
  ASSUME TypeOK, [Next]_vars
  PROVE  TypeOK'
<1> USE DEF sessHist, callVars, poolVars, uipVars
<1>1. CASE ShellOutput
  <2>1. owed' \in Nat
    BY <1>1 DEF ShellOutput, TypeOK
  <2> QED BY <1>1, <2>1, QueueType DEF ShellOutput, TypeOK
<1>2. CASE EatByte
  BY <1>2, ByteType
<1>3. CASE EndCall
  <2>1. CASE sstate' = "normal" /\ UipClose(rport) /\ UNCHANGED numsent
    <3>1. st' \in [Conns -> ConnStates]
      BY <2>1 DEF UipClose, TypeOK, ConnStates
    <3>2. inflight' \in Seq(Nat)
      BY <2>1 DEF UipClose
    <3> QED BY <1>3, <2>1, <3>1, <3>2 DEF EndCall, UipClose, TypeOK, SessStates
  <2>2. CASE SendData /\ UNCHANGED <<st, sstate>>
    BY <1>3, <2>2, SendType DEF EndCall, TypeOK
  <2> QED BY <1>3, <2>1, <2>2 DEF EndCall
<1>4. CASE \E c \in Conns : Uip(c)
  BY <1>4, UipType
<1>5. CASE \E c \in Conns : Client(c)
  BY <1>5, ClientType
<1>6. ASSUME NEW c \in Conns, HandshakeEnds(c) \/ Abort(c) \/ Expire(c) PROVE TypeOK'
  <2>1. FreeAll \in [Slots -> Int]
    BY DeallocType DEF FreeAll, TypeOK
  <2>2. CASE HandshakeEnds(c)
    BY <2>1, <2>2 DEF HandshakeEnds, Terminal, Forget, CloseRequested, TypeOK, ConnStates, SessStates
  <2>3. CASE Abort(c)
    <3>1. st' \in [Conns -> ConnStates]
      BY <2>3 DEF Abort, TypeOK, ConnStates
    <3>2. inflight' \in Seq(Nat)
      BY <2>3 DEF Abort, TypeOK
    <3> QED BY <2>1, <2>3, <3>1, <3>2 DEF Abort, Terminal, Forget, CloseRequested, TypeOK, SessStates
  <2>4. CASE Expire(c)
    BY <2>4 DEF Expire, TypeOK, ConnStates
  <2> QED BY <1>6, <2>2, <2>3, <2>4
<1>7. CASE Receive
  BY <1>7 DEF Receive, TypeOK
<1>8. CASE CallbackPuts
  <2>1. puts' \in 0..MaxPuts
    BY <1>8, SizeAssumption DEF CallbackPuts, TypeOK
  <2> QED BY <1>8, <2>1, QueueType DEF CallbackPuts, TypeOK
<1>9. CASE MainQuits
  BY <1>9 DEF MainQuits, TypeOK, SessStates
<1>10. CASE Quiet \/ UNCHANGED vars
  BY <1>10 DEF Quiet, vars, TypeOK
<1> QED
  BY <1>1, <1>2, <1>3, <1>4, <1>5, <1>6, <1>7, <1>8, <1>9, <1>10 DEF Next

(* s.lines, s.numsent and s.buf never leave their arrays, whatever clients *)
(* type, however connections overlap, end or break off, and wherever       *)
(* callbacks print (telnetd.c:86-218).                                     *)
THEOREM ArraysHold == Spec => []TypeOK
<1>1. TypeOK /\ [Next]_vars => TypeOK'
  BY TypeStep
<1> QED BY TypeInit, <1>1, PTL DEF Spec

(***************************************************************************)
(* One polite client at a time: it waits for the output of a line before   *)
(* it types the next and before it leaves, callbacks print only while it   *)
(* is there and nothing is on its way, and no connection is broken off.    *)
(***************************************************************************)
Polite == ~Pipelining /\ ~EarlyFin /\ ~Overlap /\ ~Unwatched /\ ~Aborts /\ ~MainQuit

Engaged(c) == st[c] \in {"est", "finwait", "lastack"}
Served == rport # NIL /\ st[rport] = "est"

(* Who is connected, and what the server believes of it. *)
SessInv ==
  /\ \A c, d \in Conns : Engaged(c) /\ Engaged(d) => c = d
  /\ \A c \in Conns : st[c] \in {"est", "finwait"} => rport = c
  /\ \A c \in Conns : st[c] = "lastack" => lines = <<>>
  /\ rport # NIL => Engaged(rport)
  /\ \A c \in Conns : st[c] \in {"finwait", "lastack"} => sstate # "close"
  /\ phase # "idle" => Served /\ inflight = <<>>
  /\ phase = "idle" => owed = 0
  /\ inflight # <<>> => Served

(* Nobody is connected at telnetd_init(). *)
LEMMA SessInit == Init => SessInv
  BY DEF Init, SessInv, Engaged, Served

(* What neither connects nor closes, and queues lines only for a client. *)
LEMMA SessStill ==
  ASSUME TypeOK, SessInv, UNCHANGED <<rport, st>>,
         lines' = lines \/ Served,
         sstate' = sstate \/ sstate' # "close" \/ Served,
         phase' = phase \/ phase' = "idle" \/ (Served /\ inflight' = <<>>),
         phase' # "idle" => inflight' = inflight \/ inflight' = <<>>,
         phase' = "idle" => owed' = 0,
         inflight' = <<>> \/ Served
  PROVE  SessInv'
<1> USE DEF SessInv, Engaged, Served, TypeOK
<1>1. Served => \A c \in Conns : st[c] \notin {"finwait", "lastack"}
  OBVIOUS
<1> QED BY <1>1

(* uip_close() of the session, by CloseNow() or at its start. *)
LEMMA SessClosed ==
  ASSUME TypeOK, SessInv, Served, st' = [st EXCEPT ![rport] = "finwait"],
         UNCHANGED <<rport, lines>>, sstate' = "normal", phase' = "idle", owed' = 0, inflight' = <<>>
  PROVE  SessInv'
BY DEF SessInv, Engaged, Served, TypeOK

(* A connection ends: closed() by a client that has seen everything, or    *)
(* after uip_close().                                                      *)
LEMMA SessEnded ==
  ASSUME TypeOK, SessInv, NEW c \in Conns, Engaged(c), NEW x \in {"lastack", "gone"},
         st' = [st EXCEPT ![c] = x], x = "lastack" => lines = <<>>,
         rport' = NIL \/ (x = "lastack" /\ rport' = rport),
         sstate' = sstate \/ sstate' = "normal", x = "lastack" => sstate' # "close",
         inflight = <<>>, phase = "idle",
         UNCHANGED <<lines, phase, owed, inflight>>
  PROVE  SessInv'
<1> USE DEF SessInv, Engaged, Served, TypeOK
<1>1. \A d \in Conns : d # c => ~Engaged(d) /\ st'[d] = st[d]
  OBVIOUS
<1>2. st'[c] = x
  OBVIOUS
<1> QED BY <1>1, <1>2

(* Every step of a polite environment keeps SessInv. *)
LEMMA SessStep ==
  ASSUME Polite, TypeOK, SessInv, [Next]_vars
  PROVE  SessInv'
<1> USE DEF Polite, sessHist, callVars, poolVars, uipVars
<1>1. CASE ShellOutput
  <2>1. Served /\ phase # "idle"
    BY <1>1 DEF ShellOutput, SessInv
  <2> QED BY <1>1, <2>1, SessStill DEF ShellOutput
<1>2. CASE EatByte
  <2>1. Served /\ phase # "idle"
    BY <1>2 DEF EatByte, SessInv
  <2> QED BY <1>2, <2>1, SessStill DEF EatByte
<1>3. CASE EndCall
  <2>1. Served /\ phase # "idle"
    BY <1>3 DEF EndCall, SessInv
  <2>2. CASE sstate' = "normal" /\ UipClose(rport)
    BY <1>3, <2>1, <2>2, SessClosed DEF EndCall, UipClose
  <2>3. CASE SendData /\ UNCHANGED <<st, sstate>>
    BY <1>3, <2>1, <2>3, SessStill DEF EndCall
  <2> QED BY <1>3, <2>2, <2>3 DEF EndCall
<1>4. ASSUME NEW c \in Conns, st[c] = "est"
      PROVE  /\ Served /\ c = rport
             /\ \A d \in Conns : d # c => st[d] \notin {"est", "finwait", "lastack"}
  BY <1>4, ConnAssumption DEF SessInv, Served, Engaged
<1>5. ASSUME NEW c \in Conns, Uip(c) PROVE SessInv'
  <2>1. Served /\ c = rport /\ phase = "idle" /\ owed = 0
    BY <1>4, <1>5 DEF Uip, AckEvent, Poll, Rexmit, SessInv
  <2>2. CASE CloseNow(c)
    BY <2>1, <2>2, SessClosed DEF CloseNow, CloseRequested, UipClose
  <2>3. CASE ~CloseNow(c)
    BY <1>5, <2>1, <2>3, SessStill DEF Uip, AckEvent, Poll, Rexmit, CloseRequested
  <2> QED BY <2>2, <2>3
<1>6. ASSUME NEW c \in Conns, Client(c) PROVE SessInv'
  <2>1. CASE Reject(c)
    BY <2>1 DEF Reject, Alone, SessInv, Engaged, TypeOK
  <2>2. CASE Accept(c)
    <3>1. \A d \in Conns : ~Engaged(d)
      BY <2>2 DEF Accept, Alone, Engaged
    <3> QED BY <2>2, <3>1, ConnAssumption DEF Accept, SessInv, Engaged, Served, TypeOK
  <2>3. CASE NewData(c)
    <3>1. Served /\ c = rport /\ inflight = <<>> /\ phase = "idle" /\ owed = 0
      BY <1>4, <2>3 DEF NewData, Drained, SessInv
    <3>2. CASE CloseNow(c)
      BY <3>1, <3>2, SessClosed DEF CloseNow, CloseRequested, UipClose
    <3>3. CASE ~CloseNow(c)
      BY <2>3, <3>1, <3>3, SessStill DEF NewData
    <3> QED BY <3>2, <3>3
  <2>4. CASE ClientFin(c)
    <3>1. Engaged(c) /\ inflight = <<>> /\ phase = "idle" /\ lines = <<>> /\ rport = c
      BY <1>4, <2>4 DEF ClientFin, Drained, Engaged
    <3> QED BY <2>4, <3>1, SessEnded DEF ClientFin, Terminal, Forget, CloseRequested
  <2>5. CASE ClientFinAck(c)
    BY <2>5 DEF ClientFinAck
  <2> QED BY <1>6, <2>1, <2>2, <2>3, <2>4, <2>5 DEF Client
<1>7. ASSUME NEW c \in Conns, HandshakeEnds(c) PROVE SessInv'
  <2>1. Engaged(c) /\ inflight = <<>> /\ phase = "idle" /\ rport \in {c, NIL} /\ sstate # "close"
    BY <1>7, ConnAssumption DEF HandshakeEnds, Engaged, SessInv, Served, TypeOK
  <2> QED BY <1>7, <2>1, SessEnded DEF HandshakeEnds, Terminal, Forget, CloseRequested
<1>8. CASE \E c \in Conns : Abort(c) \/ Expire(c)
  BY <1>8 DEF Abort, Expire
<1>9. CASE Receive
  BY <1>9, SessStill DEF Receive, SessInv
<1>10. CASE CallbackPuts
  <2>1. Served /\ phase = "idle"
    BY <1>4, <1>10 DEF CallbackPuts
  <2> QED BY <1>10, <2>1, SessStill DEF CallbackPuts, SessInv
<1>11. CASE MainQuits
  BY <1>11 DEF MainQuits
<1>12. CASE Quiet \/ UNCHANGED vars
  BY <1>12 DEF Quiet, vars, SessInv, Engaged, Served
<1> QED
  BY <1>1, <1>2, <1>3, <1>5, <1>6, <1>7, <1>8, <1>9, <1>10, <1>11, <1>12 DEF Next

(* The state of a polite environment. *)
PoliteInv == TypeOK /\ SessInv

(* It is kept whatever happens. *)
LEMMA PoliteAlways ==
  ASSUME Polite
  PROVE  Spec => []PoliteInv
<1>1. Init => PoliteInv
  BY TypeInit, SessInit DEF PoliteInv
<1>2. PoliteInv /\ [Next]_vars => PoliteInv'
  BY TypeStep, SessStep DEF PoliteInv
<1> QED BY <1>1, <1>2, PTL DEF Spec

(* When every client of a polite environment has gone, the handshakes that *)
(* ended have cleared telnetd_rport (telnetd.c:344): the server accepts    *)
(* the next one, whatever was typed and whichever side closed.             *)
THEOREM NextIsAccepted ==
  ASSUME Polite
  PROVE  Spec => []NoLockout
<1>1. PoliteInv => NoLockout
  BY ConnAssumption DEF PoliteInv, TypeOK, SessInv, Engaged, NoLockout
<1> QED BY PoliteAlways, <1>1, PTL

(* What a step may do to the queue, the pool and the segment on its way.   *)
outVars == <<lines, count, content, said, shown, inflight, arrived, numsent>>
Starts ==
  /\ rport = NIL /\ rport' # NIL
  /\ lines' = <<>> /\ inflight' = <<>> /\ said' = 0 /\ shown' = <<>>
  /\ UNCHANGED <<count, content>>
Queues ==
  /\ Served /\ inflight = <<>> /\ QueueLine
  /\ UNCHANGED <<rport, st, shown, inflight, arrived, numsent>>
Sends ==
  /\ Served /\ SendData
  /\ UNCHANGED <<rport, st, lines, count, content, said, shown>>
Acks ==
  /\ Served /\ inflight # <<>> /\ arrived /\ SendUnsent
  /\ UNCHANGED <<rport, st, content, said, shown>>
Arrives ==
  /\ Served /\ inflight # <<>> /\ ~arrived
  /\ arrived' = TRUE /\ shown' = shown \o inflight
  /\ UNCHANGED <<rport, st, lines, count, content, said, inflight, numsent>>
Closes ==
  /\ ~Served' /\ inflight' = <<>>
  /\ UNCHANGED <<rport, lines, count, content, said, shown>>
Forgets ==
  /\ inflight' = <<>> /\ rport' = NIL /\ count' = FreeAll
  /\ rport = NIL => lines = <<>>
  /\ UNCHANGED <<lines, content, said, shown>>

(* Every step of a polite environment does one of these. *)
LEMMA PoliteStep ==
  ASSUME Polite, PoliteInv, [Next]_vars
  PROVE  \/ Starts \/ Queues \/ Sends \/ Acks \/ Arrives \/ Closes \/ Forgets
         \/ UNCHANGED <<rport, st, outVars>>
<1> USE DEF Polite, PoliteInv, sessHist, callVars, poolVars, uipVars, outVars
<1>1. CASE ShellOutput
  BY <1>1 DEF ShellOutput, SessInv, TypeOK, Queues
<1>2. CASE EatByte
  <2>1. Served /\ inflight = <<>>
    BY <1>2 DEF EatByte, SessInv
  <2> QED
    BY <1>2, <2>1 DEF EatByte, ByteNormal, ByteIac, ByteOption, ByteIgnored, Queues
<1>3. CASE EndCall
  <2>1. Served /\ inflight = <<>> /\ rport \in Conns
    BY <1>3 DEF EndCall, SessInv, Served, TypeOK
  <2>2. CASE UipClose(rport) /\ UNCHANGED numsent
    BY <1>3, <2>1, <2>2 DEF EndCall, UipClose, Closes, Served, TypeOK
  <2>3. CASE SendData /\ UNCHANGED <<st, sstate>>
    BY <1>3, <2>1, <2>3 DEF EndCall, Sends
  <2> QED BY <1>3, <2>2, <2>3 DEF EndCall
<1>4. ASSUME NEW c \in Conns, st[c] = "est" PROVE Served /\ c = rport
  BY <1>4, ConnAssumption DEF SessInv, Served
<1>5. ASSUME NEW c \in Conns, st[c] = "est", CloseNow(c), UNCHANGED sessHist PROVE Closes
  BY <1>4, <1>5 DEF CloseNow, UipClose, Closes, Served, TypeOK
<1>6. ASSUME NEW c \in Conns, Uip(c)
      PROVE  Closes \/ Sends \/ Acks \/ UNCHANGED <<rport, st, outVars>>
  <2>1. CASE AckEvent(c)
    BY <1>4, <1>5, <2>1 DEF AckEvent, Acks
  <2>2. CASE Poll(c)
    BY <1>4, <1>5, <2>2 DEF Poll, Sends
  <2>3. CASE Rexmit(c)
    BY <1>4, <2>3 DEF Rexmit, Sends
  <2> QED BY <1>6, <2>1, <2>2, <2>3 DEF Uip
<1>7. ASSUME NEW c \in Conns, Client(c)
      PROVE  Starts \/ Closes \/ Forgets \/ UNCHANGED <<rport, st, outVars>>
  <2>1. CASE Reject(c)
    BY <2>1 DEF Reject, Alone, SessInv, Engaged, TypeOK
  <2>2. CASE Accept(c)
    BY <2>2, ConnAssumption DEF Accept, Starts
  <2>3. CASE NewData(c)
    <3>1. inflight = <<>>
      BY <2>3 DEF NewData, Drained
    <3>2. CASE CloseNow(c)
      BY <1>5, <2>3, <3>2 DEF NewData
    <3> QED BY <2>3, <3>1, <3>2 DEF NewData
  <2>4. CASE ClientFin(c)
    <3>1. Served /\ c = rport /\ inflight = <<>>
      BY <1>4, <2>4 DEF ClientFin
    <3>2. CASE Forget(c) /\ count' = FreeAll
      BY <2>4, <3>1, <3>2, ConnAssumption DEF ClientFin, Forget, Forgets, Served
    <3>3. CASE CloseRequested /\ UNCHANGED <<rport, lines, numsent, buf, callVars, poolVars>>
      BY <2>4, <3>1, <3>3 DEF ClientFin, Closes, Served, TypeOK
    <3> QED BY <2>4, <3>2, <3>3 DEF ClientFin, Terminal
  <2>5. CASE ClientFinAck(c)
    BY <2>5 DEF ClientFinAck
  <2> QED BY <1>7, <2>1, <2>2, <2>3, <2>4, <2>5 DEF Client
<1>8. ASSUME NEW c \in Conns, HandshakeEnds(c) PROVE Forgets
  <2>1. /\ inflight = <<>> /\ rport \in {c, NIL} /\ sstate # "close"
        /\ rport = NIL => lines = <<>>
    BY <1>8, ConnAssumption DEF HandshakeEnds, Engaged, SessInv, Served, TypeOK
  <2>2. Forget(c) /\ count' = FreeAll
    BY <1>8, <2>1 DEF HandshakeEnds, Terminal, CloseRequested
  <2> QED BY <1>8, <2>1, <2>2 DEF HandshakeEnds, Forget, Forgets
<1>9. CASE \E c \in Conns : Abort(c) \/ Expire(c)
  BY <1>9 DEF Abort, Expire
<1>10. CASE Receive
  BY <1>10 DEF Receive, SessInv, Arrives
<1>11. CASE CallbackPuts
  BY <1>4, <1>11 DEF CallbackPuts, Queues
<1>12. CASE MainQuits
  BY <1>12 DEF MainQuits
<1>13. CASE Quiet \/ UNCHANGED vars
  BY <1>13 DEF Quiet, vars
<1> QED
  BY <1>1, <1>2, <1>3, <1>6, <1>7, <1>8, <1>9, <1>10, <1>11, <1>12, <1>13 DEF Next

(* The blocks of a queue, and a queue no block is in twice. *)
Held(q) == {q[i] : i \in DOMAIN q}
Distinct(q) == \A i, j \in DOMAIN q : q[i] = q[j] => i = j

(* memb_free() of such a queue frees each of its blocks once. *)
LEMMA FreedOnce ==
  ASSUME NEW q, Distinct(q), NEW s
  PROVE  Cardinality({i \in DOMAIN q : q[i] = s}) = IF s \in Held(q) THEN 1 ELSE 0
<1>1. CASE s \in Held(q)
  <2>1. PICK i \in DOMAIN q : q[i] = s
    BY <1>1 DEF Held
  <2>2. {j \in DOMAIN q : q[j] = s} = {i}
    BY <2>1 DEF Distinct
  <2> QED BY <1>1, <2>2, FS_Singleton
<1>2. CASE s \notin Held(q)
  <2>1. {j \in DOMAIN q : q[j] = s} = {}
    BY <1>2 DEF Held
  <2> QED BY <1>2, <2>1, FS_EmptySet
<1> QED BY <1>1, <1>2

(* The segment on its way is made of the first lines of the queue. *)
SegInv ==
  inflight # <<>> =>
    /\ numsent = Least(Len(lines), SegLines)
    /\ Len(inflight) = numsent

(* A block is allocated exactly while it is queued, and queued once. *)
PoolInv ==
  /\ Distinct(lines)
  /\ \A s \in Slots : count[s] = IF rport # NIL /\ s \in Held(lines) THEN 1 ELSE 0

(* What Append does to a sequence. *)
LEMMA Appended ==
  ASSUME NEW S, NEW q \in Seq(S), NEW s \in S
  PROVE  /\ Len(q) \in Nat /\ DOMAIN q = 1..Len(q)
         /\ DOMAIN Append(q, s) = 1..(Len(q) + 1) /\ Len(Append(q, s)) = Len(q) + 1
         /\ \A i \in DOMAIN q : Append(q, s)[i] = q[i]
         /\ Append(q, s)[Len(q) + 1] = s
OBVIOUS

(* alloc_line() hands out a block nobody holds. *)
LEMMA QueuePool ==
  ASSUME TypeOK, PoolInv, Queues
  PROVE  /\ PoolInv'
         /\ \A i \in DOMAIN lines : content'[lines[i]] = content[lines[i]]
         /\ \/ UNCHANGED <<lines, said>>
            \/ /\ Len(lines') = Len(lines) + 1 /\ said' = said + 1
               /\ \A i \in DOMAIN lines : lines'[i] = lines[i]
               /\ content'[lines'[Len(lines) + 1]] = said + 1
<1> USE DEF Queues, QueueLine, poolVars, Served
<1>1. CASE FreeSlots = {}
  BY <1>1 DEF PoolInv, TypeOK
<1>2. CASE FreeSlots # {}
  <2>1. NextFree \in Slots /\ count[NextFree] = 0
    BY <1>2 DEF NextFree, FreeSlots
  <2>2. NextFree \notin Held(lines)
    BY <2>1 DEF PoolInv
  <2>3. content' = [content EXCEPT ![NextFree] = said + 1]
    BY <1>2
  <2>4. \A i \in DOMAIN lines : content'[lines[i]] = content[lines[i]]
    BY <2>2, <2>3 DEF Held, TypeOK
  <2>5. CASE Len(lines) < NumLines
    <3>1. lines' = Append(lines, NextFree) /\ said' = said + 1
          /\ count' = [count EXCEPT ![NextFree] = 1]
      BY <1>2, <2>5
    <3>2. /\ Len(lines) \in Nat /\ DOMAIN lines = 1..Len(lines)
          /\ DOMAIN lines' = 1..(Len(lines) + 1) /\ Len(lines') = Len(lines) + 1
          /\ \A i \in DOMAIN lines : lines'[i] = lines[i]
          /\ lines'[Len(lines) + 1] = NextFree
      <4>1. lines \in Seq(Slots)
        BY DEF TypeOK
      <4>2. PICK s \in Slots : s = NextFree
        BY <2>1
      <4>3. lines' = Append(lines, s)
        BY <3>1, <4>2
      <4> QED BY <4>1, <4>2, <4>3, Appended
    <3>3. content'[NextFree] = said + 1
      BY <2>1, <2>3 DEF TypeOK
    <3>4. \A i \in DOMAIN lines' : i \in DOMAIN lines \/ i = Len(lines) + 1
      BY <3>2
    <3>5. Distinct(lines')
      BY <2>2, <3>2, <3>4 DEF Distinct, Held, PoolInv
    <3>6. Held(lines') = Held(lines) \union {NextFree}
      BY <3>2, <3>4 DEF Held
    <3>7. \A s \in Slots : count'[s] = IF s \in Held(lines') THEN 1 ELSE 0
      BY <2>1, <2>2, <3>1, <3>6 DEF PoolInv, TypeOK
    <3>8. PoolInv'
      BY <3>5, <3>7 DEF PoolInv
    <3> QED BY <2>4, <3>1, <3>2, <3>3, <3>8
  <2>6. CASE ~(Len(lines) < NumLines)
    <3>1. UNCHANGED <<lines, count, said>>
      BY <1>2, <2>6
    <3> QED BY <2>4, <3>1 DEF PoolInv
  <2> QED BY <2>5, <2>6
<1> QED BY <1>1, <1>2

(* acked() frees the lines that were sent and keeps the others. *)
LEMMA AckPool ==
  ASSUME TypeOK, PoolInv, SegInv, Acks
  PROVE  PoolInv' /\ SegInv' /\ numsent \in Nat /\ numsent <= Len(lines)
<1>1. /\ lines' = Unsent /\ count' = Dealloc(Sent) /\ rport' = rport /\ rport # NIL
      /\ numsent' = Least(Len(lines'), SegLines)
      /\ inflight' = [i \in 1..numsent' |-> content[Unsent[i]]]
  BY DEF Acks, SendUnsent, Served
<1>2. /\ numsent \in Nat /\ Len(lines) \in Nat /\ SegLines \in Nat /\ numsent <= Len(lines)
      /\ lines \in Seq(Slots) /\ DOMAIN lines = 1..Len(lines)
  <2>a. lines \in Seq(Slots) /\ numsent \in 0..NumLines
    BY DEF TypeOK
  <2>b. SegLines \in Nat
    BY SizeAssumption
  <2>1. lines \in Seq(Slots) /\ numsent \in Nat /\ SegLines \in Nat
    BY <2>a, <2>b
  <2>2. Len(lines) \in Nat /\ DOMAIN lines = 1..Len(lines)
    BY <2>1
  <2>3. numsent <= Len(lines)
    <3>1. numsent = Least(Len(lines), SegLines)
      BY DEF SegInv, Acks
    <3> DEFINE n == Len(lines)
    <3>2. n \in Nat /\ numsent = IF n < SegLines THEN n ELSE SegLines
      BY <2>2, <3>1 DEF Least
    <3> HIDE DEF n
    <3>3. numsent <= n
      BY <2>1, <3>2
    <3> QED BY <3>3 DEF n
  <2> QED BY <2>1, <2>2, <2>3
<1>3. /\ lines' \in Seq(Slots) /\ Len(lines') = Len(lines) - numsent
      /\ DOMAIN Sent = 1..numsent
      /\ \A i \in 1..Len(lines') : lines'[i] = lines[numsent + i]
      /\ \A i \in 1..numsent : Sent[i] = lines[i]
  <2>1. /\ \A i \in 1..Len(Unsent) : Unsent[i] = lines[numsent + i]
        /\ Unsent \in Seq(Slots) /\ Len(Unsent) = Len(lines) - numsent
        /\ DOMAIN Sent = 1..numsent /\ \A i \in 1..numsent : Sent[i] = lines[i]
    BY <1>2, UnsentLines, Zenon
  <2> QED BY <1>1, <2>1
<1>4. Distinct(Sent)
  BY <1>2, <1>3 DEF Distinct, PoolInv
<1>5. DOMAIN lines' = 1..Len(lines')
  BY <1>3
<1>6. \A i \in DOMAIN lines' : numsent + i \in DOMAIN lines /\ lines'[i] = lines[numsent + i]
  BY <1>2, <1>3, <1>5
<1>7. Distinct(lines')
  <2> SUFFICES ASSUME NEW i \in DOMAIN lines', NEW j \in DOMAIN lines', lines'[i] = lines'[j]
               PROVE  i = j
    BY DEF Distinct
  <2>1. numsent + i = numsent + j
    BY <1>6 DEF Distinct, PoolInv
  <2> QED BY <1>2, <1>5, <2>1
<1>8. ASSUME NEW s \in Slots
      PROVE  count'[s] = IF s \in Held(lines') THEN 1 ELSE 0
  <2>1. count'[s] = count[s] - (IF s \in Held(Sent) THEN 1 ELSE 0)
    BY <1>1, <1>4, FreedOnce DEF Dealloc
  <2>2. count[s] = IF s \in Held(lines) THEN 1 ELSE 0
    BY <1>1 DEF PoolInv
  <2>3. s \in Held(lines) <=> s \in Held(Sent) \/ s \in Held(lines')
    <3>1. ASSUME s \in Held(Sent) \/ s \in Held(lines') PROVE s \in Held(lines)
      BY <1>2, <1>3, <1>6, <3>1 DEF Held
    <3>2. ASSUME s \in Held(lines) PROVE s \in Held(Sent) \/ s \in Held(lines')
      <4>1. PICK i \in DOMAIN lines : lines[i] = s
        BY <3>2 DEF Held
      <4>2. CASE i <= numsent
        <5>1. i \in 1..numsent
          BY <1>2, <4>2
        <5> QED BY <1>3, <4>1, <5>1 DEF Held
      <4>3. CASE ~(i <= numsent)
        <5>1. i - numsent \in 1..Len(lines') /\ numsent + (i - numsent) = i
          BY <1>2, <1>3, <4>3
        <5> QED BY <1>3, <1>5, <4>1, <5>1 DEF Held
      <4> QED BY <4>2, <4>3
    <3> QED BY <3>1, <3>2
  <2>4. ~(s \in Held(Sent) /\ s \in Held(lines'))
    <3> SUFFICES ASSUME NEW i \in 1..numsent, NEW j \in DOMAIN lines', Sent[i] = lines'[j]
                 PROVE  FALSE
      BY <1>3 DEF Held
    <3>1. i \in DOMAIN lines /\ numsent + j \in DOMAIN lines /\ lines[i] = lines[numsent + j]
      BY <1>2, <1>3, <1>6
    <3>2. i = numsent + j
      BY <3>1 DEF Distinct, PoolInv
    <3> QED BY <1>2, <1>5, <3>2
  <2> QED BY <2>1, <2>2, <2>3, <2>4
<1>9. numsent' \in Nat
  BY <1>1, <1>2, <1>3 DEF Least
<1>10. Len(inflight') = numsent'
  BY <1>1, <1>9
<1> QED BY <1>1, <1>2, <1>7, <1>8, <1>10 DEF PoolInv, SegInv

(* senddata() sends the first lines. *)
LEMMA SendSeg ==
  ASSUME TypeOK, SegInv, Sends
  PROVE  /\ SegInv' /\ Len(inflight') = numsent'
         /\ \/ inflight' = inflight /\ arrived' = arrived /\ inflight # <<>>
            \/ inflight' = Segment(numsent') /\ ~arrived' /\ (arrived => inflight = <<>>)
<1> DEFINE k == Least(Len(lines), SegLines)
<1>1. k \in Nat /\ numsent' = k /\ lines' = lines
  BY SizeAssumption DEF TypeOK, Least, Sends, SendData
<1> HIDE DEF k
<1>2. Len(Segment(k)) = k
  BY <1>1 DEF Segment
<1>3. CASE inflight = <<>>
  <2>1. inflight' = Segment(k) /\ arrived' = FALSE
    BY <1>1, <1>3 DEF Sends, SendData
  <2> QED BY <1>1, <1>2, <1>3, <2>1 DEF SegInv, k
<1>4. CASE inflight # <<>>
  <2>1. Len(inflight) = k /\ numsent = k
    BY <1>4 DEF SegInv, k
  <2>2. Least(Len(inflight), numsent') = k
    BY <1>1, <2>1 DEF Least
  <2>3. inflight' = (IF arrived THEN inflight ELSE Segment(k)) /\ arrived' = arrived
    BY <1>1, <1>4, <2>2 DEF Sends, SendData
  <2>4. arrived \in BOOLEAN
    BY DEF TypeOK
  <2> QED BY <1>1, <1>2, <1>4, <2>1, <2>3, <2>4 DEF SegInv, k
<1> QED BY <1>3, <1>4

(* closed() frees every block that is queued. *)
LEMMA ForgetPool ==
  ASSUME TypeOK, PoolInv, Forgets
  PROVE  PoolInv'
<1>1. count' = Dealloc(lines) /\ lines' = lines /\ rport' = NIL /\ (rport = NIL => lines = <<>>)
  BY DEF Forgets, FreeAll
<1>2. ASSUME NEW s \in Slots PROVE count'[s] = 0
  <2>1. count'[s] = count[s] - (IF s \in Held(lines) THEN 1 ELSE 0)
    BY <1>1, FreedOnce DEF Dealloc, PoolInv
  <2>2. rport = NIL => s \notin Held(lines)
    BY <1>1 DEF Held
  <2> QED BY <2>1, <2>2 DEF PoolInv
<1> QED BY <1>1, <1>2 DEF PoolInv

(* The pool stays exact in every step of a polite environment. *)
LEMMA PoolStep ==
  ASSUME Polite, PoliteInv, PoolInv, SegInv, [Next]_vars
  PROVE  PoolInv' /\ SegInv'
<1>0. TypeOK
  BY DEF PoliteInv
<1>1. CASE Starts
  <2>1. Distinct(lines') /\ Held(lines') = {}
    BY <1>1 DEF Starts, Distinct, Held
  <2> QED BY <1>1, <2>1 DEF Starts, PoolInv, SegInv
<1>2. CASE Queues
  BY <1>0, <1>2, QueuePool DEF Queues, SegInv
<1>3. CASE Sends
  <2>1. PoolInv'
    BY <1>3 DEF Sends, PoolInv
  <2> QED BY <1>0, <1>3, <2>1, SendSeg
<1>4. CASE Acks
  BY <1>0, <1>4, AckPool
<1>5. CASE Forgets
  BY <1>0, <1>5, ForgetPool DEF Forgets, SegInv
<1>6. CASE Arrives \/ Closes \/ UNCHANGED <<rport, st, outVars>>
  BY <1>6 DEF Arrives, Closes, outVars, PoolInv, SegInv
<1> QED BY <1>1, <1>2, <1>3, <1>4, <1>5, <1>6, PoliteStep

(* In a polite environment a block of the pool is allocated exactly once   *)
(* for each line queued: acked() (telnetd.c:146) and closed()              *)
(* (telnetd.c:187) between them free every line once, through every        *)
(* retransmission, every line dropped on a full pool or a full s.lines,    *)
(* and every session that ends.                                            *)
THEOREM PoolIsExact ==
  ASSUME Polite
  PROVE  Spec => []PoolExact
<1> DEFINE I == PoolInv /\ SegInv
<1>1. Init => I
  <2> SUFFICES ASSUME Init PROVE PoolInv /\ SegInv
    OBVIOUS
  <2>1. Distinct(lines) /\ Held(lines) = {}
    BY DEF Init, Distinct, Held
  <2> QED BY <2>1 DEF Init, PoolInv, SegInv
<1>2. I /\ PoliteInv /\ [Next]_vars => I'
  BY PoolStep
<1>3. I => PoolExact
  BY FreedOnce DEF PoolInv, PoolExact
<1> HIDE DEF I
<1> QED BY <1>1, <1>2, <1>3, PoliteAlways, PTL DEF Spec

(* How many of the session's lines have been acknowledged. *)
First == said - Len(lines)

(* The queue, the segment on its way and what the client has are three     *)
(* consecutive parts of what the shell printed.                            *)
QueueInv == Served => \A i \in DOMAIN lines : content[lines[i]] = First + i
WireInv == \A i \in DOMAIN inflight : inflight[i] = First + i
ShownInv ==
  /\ Served => Len(shown) = First + (IF arrived THEN Len(inflight) ELSE 0)
  /\ OutputInOrder
OrderInv == PoolInv /\ SegInv /\ QueueInv /\ WireInv /\ ShownInv

(* A new session starts with nothing said. *)
LEMMA StartsInOrder ==
  ASSUME TypeOK, Starts
  PROVE  QueueInv' /\ WireInv' /\ ShownInv'
BY DEF Starts, QueueInv, WireInv, ShownInv, First, OutputInOrder, TypeOK

(* A line queued comes after all the others. *)
LEMMA QueuesInOrder ==
  ASSUME TypeOK, OrderInv, Queues
  PROVE  QueueInv' /\ WireInv' /\ ShownInv'
<1>1. /\ Served /\ inflight = <<>> /\ UNCHANGED <<rport, st, shown, inflight, arrived>>
  BY DEF Queues
<1>2. Len(lines) \in Nat /\ DOMAIN lines = 1..Len(lines) /\ said \in Nat
  BY DEF TypeOK
<1>3. First' = First
  BY <1>2, QueuePool DEF First, OrderInv
<1>4. QueueInv'
  <2>1. CASE UNCHANGED <<lines, said>>
    BY <1>1, <1>3, <2>1, QueuePool DEF QueueInv, OrderInv
  <2>2. CASE ~UNCHANGED <<lines, said>>
    <3>1. /\ Len(lines') = Len(lines) + 1
          /\ \A i \in DOMAIN lines : lines'[i] = lines[i] /\ content'[lines[i]] = content[lines[i]]
          /\ content'[lines'[Len(lines) + 1]] = said + 1
      BY <2>2, QueuePool DEF OrderInv
    <3>2. lines' \in Seq(Slots)
      BY QueueType DEF Queues
    <3>3. \A i \in DOMAIN lines' : i \in DOMAIN lines \/ i = Len(lines) + 1
      BY <1>2, <3>1, <3>2
    <3>4. First + (Len(lines) + 1) = said + 1
      BY <1>2 DEF First
    <3>5. \A i \in DOMAIN lines : content[lines[i]] = First + i
      BY <1>1 DEF QueueInv, OrderInv
    <3>6. \A i \in DOMAIN lines' : content'[lines'[i]] = First + i
      BY <3>1, <3>3, <3>4, <3>5
    <3> QED BY <1>3, <3>6 DEF QueueInv
  <2> QED BY <2>1, <2>2
<1>5. ShownInv'
  BY <1>1, <1>3 DEF OrderInv, ShownInv, OutputInOrder, Served
<1> QED BY <1>1, <1>3, <1>4, <1>5 DEF OrderInv, WireInv

(* A segment sent, or sent again, says what the first lines say. *)
LEMMA SendsInOrder ==
  ASSUME TypeOK, OrderInv, Sends
  PROVE  QueueInv' /\ WireInv' /\ ShownInv'
<1>1. Served /\ UNCHANGED <<rport, st, lines, count, content, said, shown>>
  BY DEF Sends
<1>2. QueueInv' /\ First' = First
  BY <1>1 DEF OrderInv, QueueInv, Served, First
<1>3. CASE inflight' = inflight /\ arrived' = arrived
  BY <1>1, <1>2, <1>3 DEF OrderInv, WireInv, ShownInv, OutputInOrder, Served
<1>4. CASE inflight' = Segment(numsent') /\ ~arrived' /\ (arrived => inflight = <<>>)
  <2>1. numsent' \in Nat /\ numsent' <= Len(lines)
    BY SizeAssumption DEF TypeOK, Sends, SendData, Least
  <2>2. \A i \in 1..numsent' : i \in DOMAIN lines
    BY <2>1 DEF TypeOK
  <2>3. DOMAIN inflight' = 1..numsent' /\ \A i \in 1..numsent' : inflight'[i] = content[lines[i]]
    BY <1>4 DEF Segment
  <2>4. WireInv'
    BY <1>1, <1>2, <2>2, <2>3 DEF OrderInv, QueueInv, WireInv
  <2>5. First \in Int
    BY DEF First, TypeOK
  <2>6. Len(shown) = First
    BY <1>1, <1>4, <2>5 DEF OrderInv, ShownInv
  <2>7. ShownInv'
    BY <1>1, <1>2, <1>4, <2>5, <2>6 DEF OrderInv, ShownInv, OutputInOrder
  <2> QED BY <1>2, <2>4, <2>7
<1> QED BY <1>3, <1>4, SendSeg DEF OrderInv

(* What acked() takes off the queue is what the client has. *)
LEMMA AcksInOrder ==
  ASSUME TypeOK, OrderInv, Acks
  PROVE  QueueInv' /\ WireInv' /\ ShownInv'
<1>1. /\ Served /\ inflight # <<>> /\ arrived /\ UNCHANGED <<rport, st, content, said, shown>>
      /\ lines' = Unsent /\ arrived' = FALSE
      /\ numsent' = Least(Len(lines'), SegLines)
      /\ inflight' = [i \in 1..numsent' |-> content[lines'[i]]]
  BY DEF Acks, SendUnsent
<1>2. /\ numsent \in Nat /\ numsent <= Len(lines) /\ Len(inflight) = numsent
      /\ Len(lines) \in Nat /\ DOMAIN lines = 1..Len(lines) /\ said \in Nat
  BY <1>1, AckPool DEF OrderInv, SegInv, TypeOK
<1>3. /\ Len(lines') = Len(lines) - numsent
      /\ \A i \in 1..Len(lines') : lines'[i] = lines[numsent + i]
      /\ lines' \in Seq(Slots)
  BY <1>1, <1>2, UnsentLines DEF TypeOK
<1>4. First' = First + numsent /\ First \in Int
  BY <1>1, <1>2, <1>3 DEF First
<1>5. DOMAIN lines' = 1..Len(lines')
  BY <1>3
<1>6. \A i \in DOMAIN lines : content[lines[i]] = First + i
  BY <1>1 DEF OrderInv, QueueInv
<1>7. \A i \in 1..Len(lines') : content[lines'[i]] = First' + i
  <2> TAKE i \in 1..Len(lines')
  <2>1. numsent + i \in DOMAIN lines /\ i \in Int
    BY <1>2, <1>3
  <2>2. content[lines'[i]] = First + (numsent + i)
    BY <1>3, <1>6, <2>1
  <2> QED BY <1>2, <1>4, <2>1, <2>2
<1>8. QueueInv'
  BY <1>1, <1>5, <1>7 DEF QueueInv
<1>9. WireInv'
  <2>1. numsent' \in Nat /\ numsent' <= Len(lines')
    BY <1>1, <1>2, <1>3, SizeAssumption DEF Least
  <2>2. \A i \in 1..numsent' : i \in 1..Len(lines')
    BY <1>2, <1>3, <2>1
  <2> QED BY <1>1, <1>7, <2>2 DEF WireInv
<1>10. ShownInv'
  <2>1. Len(shown) = First + numsent
    BY <1>1, <1>2 DEF OrderInv, ShownInv
  <2>2. Len(shown') = First'
    BY <1>1, <1>4, <2>1
  <2>3. First' \in Int
    BY <1>2, <1>4
  <2> QED BY <1>1, <2>2, <2>3 DEF OrderInv, ShownInv, OutputInOrder
<1> QED BY <1>8, <1>9, <1>10

(* The segment that arrives continues what the client has. *)
LEMMA ArrivesInOrder ==
  ASSUME TypeOK, OrderInv, Arrives
  PROVE  QueueInv' /\ WireInv' /\ ShownInv'
<1>1. /\ Served /\ ~arrived /\ arrived' = TRUE /\ shown' = shown \o inflight
      /\ UNCHANGED <<rport, st, lines, content, said, inflight>>
  BY DEF Arrives
<1>2. /\ shown \in Seq(Nat) /\ inflight \in Seq(Nat) /\ First \in Int
      /\ Len(shown) \in Nat /\ Len(inflight) \in Nat
      /\ DOMAIN shown = 1..Len(shown) /\ DOMAIN inflight = 1..Len(inflight)
  BY DEF TypeOK, First
<1>3. Len(shown) = First
  BY <1>1, <1>2 DEF OrderInv, ShownInv
<1>4. /\ Len(shown') = Len(shown) + Len(inflight)
      /\ DOMAIN shown' = 1..(Len(shown) + Len(inflight))
      /\ \A i \in 1..(Len(shown) + Len(inflight)) :
            shown'[i] = IF i <= Len(shown) THEN shown[i] ELSE inflight[i - Len(shown)]
  BY <1>1, <1>2
<1>5. ASSUME NEW i \in DOMAIN shown' PROVE shown'[i] = i
  <2>1. CASE i <= Len(shown)
    <3>1. i \in DOMAIN shown
      BY <1>2, <1>4, <2>1
    <3> QED BY <1>4, <1>5, <2>1, <3>1 DEF OrderInv, ShownInv, OutputInOrder
  <2>2. CASE ~(i <= Len(shown))
    <3>1. i - Len(shown) \in DOMAIN inflight /\ i \in Int
      BY <1>2, <1>4, <2>2
    <3>2. shown'[i] = First + (i - Len(shown))
      BY <1>4, <1>5, <2>2, <3>1 DEF OrderInv, WireInv
    <3> QED BY <1>2, <1>3, <3>1, <3>2
  <2> QED BY <2>1, <2>2
<1>6. ShownInv'
  BY <1>1, <1>3, <1>4, <1>5 DEF ShownInv, OutputInOrder, First
<1> QED BY <1>1, <1>6 DEF OrderInv, QueueInv, WireInv, Served, First

(* Every step of a polite environment keeps the order. *)
LEMMA OrderStep ==
  ASSUME Polite, PoliteInv, OrderInv, [Next]_vars
  PROVE  OrderInv'
<1>0. TypeOK
  BY DEF PoliteInv
<1>1. PoolInv' /\ SegInv'
  BY PoolStep DEF OrderInv
<1>2. CASE Starts \/ Queues \/ Sends \/ Acks \/ Arrives
  BY <1>0, <1>1, <1>2, StartsInOrder, QueuesInOrder, SendsInOrder, AcksInOrder, ArrivesInOrder
  DEF OrderInv
<1>3. CASE Closes \/ Forgets
  <2>1. ~Served' /\ inflight' = <<>> /\ shown' = shown
    BY <1>3 DEF Closes, Forgets, Served
  <2> QED BY <1>1, <2>1 DEF OrderInv, QueueInv, WireInv, ShownInv, OutputInOrder
<1>4. CASE UNCHANGED <<rport, st, outVars>>
  BY <1>1, <1>4 DEF outVars, OrderInv, QueueInv, WireInv, ShownInv, OutputInOrder, First, Served
<1> QED BY <1>2, <1>3, <1>4, PoliteStep

(* A polite client sees what the shell printed in this session in order,   *)
(* each line once and none left out: senddata() repeats the same segment   *)
(* until it is acknowledged, and a block is not used again while it is     *)
(* queued (telnetd.c:146-183).                                             *)
THEOREM OutputKeepsOrder ==
  ASSUME Polite
  PROVE  Spec => []OutputInOrder
<1>1. Init => OrderInv
  <2> SUFFICES ASSUME Init PROVE OrderInv
    OBVIOUS
  <2>1. Distinct(lines) /\ Held(lines) = {} /\ inflight = <<>> /\ ~Served /\ shown = <<>>
    BY DEF Init, Distinct, Held, Served
  <2>2. PoolInv /\ SegInv
    BY <2>1 DEF Init, PoolInv, SegInv
  <2> QED BY <2>1, <2>2 DEF OrderInv, QueueInv, WireInv, ShownInv, OutputInOrder
<1>2. OrderInv /\ PoliteInv /\ [Next]_vars => OrderInv'
  BY OrderStep
<1>3. OrderInv => OutputInOrder
  BY DEF OrderInv, ShownInv
<1> HIDE DEF OrderInv
<1> QED BY <1>1, <1>2, <1>3, PoliteAlways, PTL DEF Spec

(***************************************************************************)
(* exit.  A client that types it as a line of its own, at the start of     *)
(* what it sends: behind other input its answer is still on its way, and   *)
(* TelnetdExitHonoured shows what becomes of the request then.             *)
(***************************************************************************)
ExitAlone ==
  \A q \in Chunks : \A i \in DOMAIN q :
    q[i] = "exit" => i = 1 /\ Len(q) > 1 /\ q[2] = "nl"

(* Nothing is queued, on its way or about to be printed. *)
Silent == lines = <<>> /\ inflight = <<>> /\ owed = 0

(* The request to close stays until the next event, as there is no         *)
(* segment a retransmission could ask for.                                 *)
QuitInv ==
  /\ quit /\ Served => sstate = "close" /\ Silent
  /\ buf # <<>> /\ Head(buf) = "exit" =>
       sstate = "normal" /\ rx # <<>> /\ Head(rx) = "nl" /\ Silent
  /\ \A i \in DOMAIN rx : rx[i] = "exit" =>
       i = 1 /\ Len(rx) > 1 /\ rx[2] = "nl" /\ Silent
  /\ phase = "idle" => rx = <<>>

(* Nothing is typed at telnetd_init(). *)
LEMMA QuitInit == Init => QuitInv
BY DEF Init, QuitInv

(* No step between two calls of telnetd_appcall() types anything. *)
LEMMA QuitBetween ==
  ASSUME QuitInv, rx = <<>>, UNCHANGED <<rx, buf>>,
         (quit /\ Served)' => sstate' = "close" /\ Silent'
  PROVE  QuitInv'
BY DEF QuitInv

(* What remains of a segment once its first byte is read. *)
LEMMA RestOfSegment ==
  ASSUME TypeOK, QuitInv, rx # <<>>, rx' = Tail(rx)
  PROVE  /\ \A i \in DOMAIN rx' : rx'[i] # "exit"
         /\ Head(rx) = "exit" => rx' # <<>> /\ Head(rx') = "nl" /\ Silent
<1>1. /\ rx \in Seq(AllTokens) /\ Len(rx) \in Nat /\ Len(rx) > 0 /\ DOMAIN rx = 1..Len(rx)
      /\ Head(rx) = rx[1]
  BY DEF TypeOK
<1>2. /\ rx' \in Seq(AllTokens) /\ Len(rx') = Len(rx) - 1 /\ DOMAIN rx' = 1..(Len(rx) - 1)
      /\ \A i \in 1..(Len(rx) - 1) : rx'[i] = rx[i + 1]
  BY <1>1
<1>3. ASSUME NEW i \in DOMAIN rx', rx'[i] = "exit" PROVE FALSE
  <2>1. i + 1 \in DOMAIN rx /\ rx[i + 1] = "exit" /\ i + 1 # 1
    BY <1>1, <1>2, <1>3
  <2> QED BY <2>1 DEF QuitInv
<1>4. ASSUME Head(rx) = "exit" PROVE rx' # <<>> /\ Head(rx') = "nl" /\ Silent
  <2>1. 1 \in DOMAIN rx /\ rx[1] = "exit"
    BY <1>1, <1>4
  <2>2. Len(rx) > 1 /\ rx[2] = "nl" /\ Silent
    BY <2>1 DEF QuitInv
  <2>3. rx'[1] = rx[2] /\ Len(rx') > 0
    BY <1>1, <1>2, <2>2
  <2>4. rx' # <<>>
    <3>1. Len(<<>>) = 0
      OBVIOUS
    <3>2. Len(rx') # 0
      BY <1>2, <2>3
    <3> QED BY <3>1, <3>2, Zenon
  <2> QED BY <1>2, <2>2, <2>3, <2>4
<1> QED BY <1>3, <1>4

(* Reading a byte: only the newline behind exit enters it. *)
LEMMA QuitByte ==
  ASSUME Polite, PoliteInv, QuitInv, EatByte
  PROVE  QuitInv' /\ (entered' > entered => ~quit)
<1> DEFINE c == Head(rx)
<1> USE DEF uipVars, poolVars
<1>1. /\ phase = "bytes" /\ owed = 0 /\ rx # <<>> /\ rx' = Tail(rx)
      /\ UNCHANGED <<rport, phase, st, inflight>>
      /\ ByteNormal(c) \/ ByteIac(c) \/ ByteOption \/ ByteIgnored
  BY DEF EatByte
<1>2. Served /\ inflight = <<>> /\ Served' = Served
  BY <1>1 DEF PoliteInv, SessInv, Served
<1>3. /\ \A i \in DOMAIN rx' : rx'[i] # "exit"
      /\ c = "exit" => rx' # <<>> /\ Head(rx') = "nl" /\ Silent
  BY <1>1, RestOfSegment DEF PoliteInv
<1>4. /\ buf \in Seq(AllTokens) /\ Len(buf) \in Nat /\ BufLen \in Nat \ {0, 1} /\ c \in AllTokens
      /\ buf # <<>> /\ Head(buf) = "exit" =>
           sstate = "normal" /\ c = "nl" /\ Silent
  BY <1>1, SizeAssumption DEF PoliteInv, TypeOK, QuitInv
<1>5. quit => sstate = "close" /\ Silent
  BY <1>2 DEF QuitInv
<1>6. entered \in Nat
  BY DEF PoliteInv, TypeOK
<1> HIDE DEF c
<1>7. CASE ByteIgnored
  <2>1. /\ UNCHANGED <<sstate, lines, buf, owed, entered, quit>> /\ sstate = "close"
    BY <1>7 DEF ByteIgnored
  <2>2. QuitInv'
    BY <1>1, <1>2, <1>3, <1>4, <1>5, <2>1 DEF QuitInv, Silent
  <2> QED BY <1>6, <2>1, <2>2
<1>8. CASE UNCHANGED <<buf, owed, entered, quit>> /\ sstate # "close"
  <2>1. ~quit /\ ~quit'
    BY <1>5, <1>8
  <2>2. CASE ~(buf # <<>> /\ Head(buf) = "exit")
    BY <1>1, <1>3, <1>6, <1>8, <2>1, <2>2 DEF QuitInv
  <2>3. CASE buf # <<>> /\ Head(buf) = "exit"
    <3>1. ByteNormal(c) /\ c = "nl" /\ sstate = "normal"
      BY <1>1, <1>4, <2>3 DEF ByteIac, ByteOption, ByteIgnored
    <3>2. GetChar(c) /\ Completes(c)
      BY <3>1 DEF ByteNormal, Completes
    <3>3. entered' = entered + 1
      BY <3>1, <3>2 DEF GetChar
    <3> QED BY <1>6, <1>8, <3>3
  <2> QED BY <2>2, <2>3
<1>9. CASE GetChar(c) /\ sstate # "close" /\ UNCHANGED lines
           /\ sstate' = "normal" /\ ~Exits(c)
  <2>1. ~quit /\ ~quit'
    BY <1>5, <1>9 DEF GetChar
  <2>2. buf' # <<>> /\ Head(buf') = "exit" => c = "exit" /\ UNCHANGED owed
    <3>1. CASE UNCHANGED <<buf, owed>>
      BY <1>4, <1>9, <3>1 DEF Exits, Completes
    <3>2. CASE buf' = <<>>
      BY <3>2
    <3>3. CASE buf' = Append(buf, c) /\ UNCHANGED owed
      <4>1. buf = <<>> => Head(buf') = c
        BY <1>4, <3>3
      <4>2. buf # <<>> => Head(buf') = Head(buf)
        BY <1>4, <3>3
      <4> QED BY <1>4, <1>9, <3>3, <4>1, <4>2 DEF Exits, Completes
    <3> QED BY <1>9, <3>1, <3>2, <3>3 DEF GetChar
  <2>3. buf' # <<>> /\ Head(buf') = "exit" =>
          sstate' = "normal" /\ rx' # <<>> /\ Head(rx') = "nl" /\ Silent'
    BY <1>1, <1>3, <1>9, <2>2 DEF Silent
  <2>4. QuitInv'
    BY <1>1, <1>3, <2>1, <2>3 DEF QuitInv
  <2> QED BY <2>1, <2>4
<1>10. CASE ByteNormal(c) /\ c # "iac" /\ Exits(c)
  <2>1. /\ buf # <<>> /\ Head(buf) = "exit" /\ Completes(c) /\ Silent /\ sstate = "normal"
        /\ c = "nl"
    BY <1>4, <1>10 DEF Exits
  <2>2. /\ buf' = <<>> /\ owed' \in Prints(buf) /\ sstate' = "close" /\ lines' = lines
    BY <1>10, <2>1 DEF ByteNormal, GetChar
  <2>3. owed' = 0
    BY <2>1, <2>2 DEF Prints
  <2> QED BY <1>1, <1>3, <1>5, <2>1, <2>2, <2>3 DEF QuitInv, Silent
<1> QED
  <2>1. CASE ByteNormal(c)
    BY <1>8, <1>9, <1>10, <2>1 DEF ByteNormal
  <2>2. CASE ByteIac(c)
    BY <1>4, <1>8, <1>9, <2>2 DEF ByteIac, Exits
  <2>3. CASE ByteOption
    BY <1>8, <2>3 DEF ByteOption
  <2> QED BY <1>1, <1>7, <2>1, <2>2, <2>3

(* Every step keeps it, and enters no command once exit is entered. *)
LEMMA QuitStep ==
  ASSUME Polite, ExitAlone, PoliteInv, QuitInv, [Next]_vars
  PROVE  QuitInv' /\ (entered' > entered => ~quit)
<1> USE DEF Polite, sessHist, callVars, poolVars, uipVars
<1>0. entered \in Nat /\ (Served => rport \in Conns)
  BY DEF PoliteInv, TypeOK, Served
<1>1. CASE ShellOutput
  <2>1. owed > 0 /\ Served
    BY <1>1 DEF ShellOutput, PoliteInv, SessInv
  <2>2. owed # 0 /\ UNCHANGED <<rport, st, rx, buf, phase, quit, entered>>
    BY <1>1, <2>1 DEF ShellOutput
  <2> QED BY <1>0, <2>1, <2>2 DEF QuitInv, Silent
<1>2. CASE EatByte
  BY <1>2, QuitByte
<1>3. ASSUME phase = "idle", UNCHANGED <<rx, buf, entered>>,
             (quit /\ Served)' => sstate' = "close" /\ Silent'
      PROVE  QuitInv' /\ (entered' > entered => ~quit)
  <2>1. rx = <<>>
    BY <1>3 DEF QuitInv
  <2> QED BY <1>0, <1>3, <2>1, QuitBetween
<1>4. CASE EndCall
  <2>1. rx = <<>> /\ UNCHANGED <<rx, buf, rport, lines, owed, entered, quit>>
    BY <1>4 DEF EndCall
  <2>2. CASE UipClose(rport)
    <3>1. ~Served'
      BY <1>0, <1>4, <2>1, <2>2 DEF UipClose, Served, PoliteInv, TypeOK, EndCall, SessInv
    <3> QED BY <1>0, <2>1, <3>1, QuitBetween
  <2>3. CASE SendData /\ UNCHANGED <<st, sstate>>
    <3>1. inflight = <<>>
      BY <1>4 DEF EndCall, PoliteInv, SessInv
    <3>2. quit /\ Served => inflight' = <<>>
      <4>1. SUFFICES ASSUME quit /\ Served PROVE inflight' = <<>>
        OBVIOUS
      <4>2. Len(lines) = 0 /\ SegLines \in Nat \ {0}
        BY <4>1, SizeAssumption DEF QuitInv, Silent
      <4>3. numsent' = 0
        BY <2>3, <4>2 DEF SendData, Least
      <4>4. inflight' = Segment(0)
        BY <2>3, <3>1, <4>3 DEF SendData
      <4> QED BY <4>4 DEF Segment
    <3> QED BY <1>0, <2>1, <2>3, <3>2, QuitBetween DEF QuitInv, Silent, Served
  <2> QED BY <1>4, <2>2, <2>3 DEF EndCall
<1>5. ASSUME NEW c \in Conns, st[c] = "est" PROVE Served /\ c = rport
  BY <1>5, ConnAssumption DEF PoliteInv, SessInv, Served
<1>6. ASSUME NEW c \in Conns, st[c] = "est", CloseNow(c), phase = "idle", UNCHANGED sessHist
      PROVE  QuitInv' /\ (entered' > entered => ~quit)
  <2>1. ~Served'
    BY <1>5, <1>6 DEF CloseNow, UipClose, Served, PoliteInv, TypeOK
  <2> QED BY <1>3, <1>6, <2>1 DEF CloseNow
<1>7. ASSUME NEW c \in Conns, Uip(c) PROVE QuitInv' /\ (entered' > entered => ~quit)
  <2>1. CASE CloseNow(c)
    BY <1>6, <1>7, <2>1 DEF Uip, AckEvent, Poll, Rexmit, CloseNow, UipClose, PoliteInv, TypeOK
  <2>2. CASE ~CloseNow(c)
    <3>1. Served /\ ~quit
      BY <1>5, <1>7, <2>2 DEF Uip, AckEvent, Poll, Rexmit, QuitInv, Silent
    <3>2. phase = "idle" /\ UNCHANGED <<rx, buf, entered, quit>>
      BY <1>7, <2>2 DEF Uip, AckEvent, Poll, Rexmit
    <3> QED BY <1>3, <3>1, <3>2
  <2> QED BY <2>1, <2>2
<1>8. ASSUME NEW c \in Conns, Client(c) PROVE QuitInv' /\ (entered' > entered => ~quit)
  <2>1. CASE Reject(c)
    BY <2>1 DEF Reject, Alone, PoliteInv, SessInv, Engaged, TypeOK
  <2>2. CASE Accept(c)
    <3>1. rx' = <<>> /\ buf' = <<>> /\ quit' = FALSE /\ entered' = 0 /\ phase' = "start"
      BY <2>2 DEF Accept
    <3> QED BY <1>0, <3>1 DEF QuitInv
  <2>3. CASE NewData(c)
    <3>1. CASE CloseNow(c)
      BY <1>6, <2>3, <3>1 DEF NewData
    <3>2. CASE ~CloseNow(c)
      <4>1. /\ Served /\ sstate # "close" /\ phase = "idle" /\ rx' \in Chunks /\ phase' = "bytes"
            /\ lines = <<>> /\ inflight = <<>> /\ UNCHANGED <<buf, owed, lines, inflight, entered, quit>>
        BY <1>5, <2>3, <3>2 DEF NewData, Drained
      <4>2. Silent /\ ~quit /\ rx = <<>> /\ Silent'
        BY <4>1 DEF PoliteInv, SessInv, QuitInv, Silent
      <4> QED BY <1>0, <4>1, <4>2 DEF QuitInv, ExitAlone
    <3> QED BY <3>1, <3>2
  <2>4. CASE ClientFin(c)
    <3>1. Served /\ c = rport /\ phase = "idle" /\ UNCHANGED <<rx, buf, entered, quit>>
      BY <1>5, <2>4 DEF ClientFin, Terminal, Forget
    <3>2. ~Served'
      BY <2>4, <3>1 DEF ClientFin, Terminal, Forget, Served, PoliteInv, TypeOK
    <3> QED BY <1>3, <3>1, <3>2
  <2>5. CASE ClientFinAck(c)
    BY <2>5 DEF ClientFinAck
  <2> QED BY <1>8, <2>1, <2>2, <2>3, <2>4, <2>5 DEF Client
<1>9. ASSUME NEW c \in Conns, HandshakeEnds(c) PROVE QuitInv' /\ (entered' > entered => ~quit)
  <2>1. phase = "idle" /\ UNCHANGED <<rx, buf, entered, quit>> /\ rport' \in {c, NIL}
    BY <1>9, ConnAssumption
    DEF HandshakeEnds, Terminal, Forget, PoliteInv, SessInv, Engaged, Served, TypeOK
  <2>2. ~Served'
    BY <1>9, <2>1 DEF HandshakeEnds, Served, PoliteInv, TypeOK
  <2> QED BY <1>3, <2>1, <2>2
<1>10. CASE \E c \in Conns : Abort(c) \/ Expire(c)
  BY <1>10 DEF Abort, Expire
<1>11. CASE Receive
  <2>1. /\ ~(quit /\ Served)
        /\ UNCHANGED <<rport, st, rx, buf, phase, sstate, lines, inflight, owed, quit, entered>>
    BY <1>11 DEF Receive, QuitInv, Silent
  <2> QED BY <1>0, <2>1 DEF QuitInv, Silent, Served
<1>12. CASE CallbackPuts
  <2>1. /\ Served /\ sstate # "close" /\ phase = "idle"
        /\ UNCHANGED <<rport, st, rx, buf, quit, entered>>
    BY <1>5, <1>12 DEF CallbackPuts
  <2>2. ~quit /\ ~quit'
    BY <2>1 DEF QuitInv
  <2> QED BY <1>3, <2>1, <2>2
<1>13. CASE MainQuits
  BY <1>13 DEF MainQuits
<1>14. CASE Quiet \/ UNCHANGED vars
  <2>1. UNCHANGED <<rport, st, rx, buf, phase, sstate, lines, inflight, owed, quit, entered>>
    BY <1>14 DEF Quiet, vars
  <2> QED BY <1>0, <2>1 DEF QuitInv, Silent, Served
<1> QED
  BY <1>1, <1>2, <1>4, <1>7, <1>8, <1>9, <1>10, <1>11, <1>12, <1>13, <1>14 DEF Next

(* Nothing a polite client types behind exit is executed: newdata() drops  *)
(* what is left of the segment, and the connection is closed before the    *)
(* next is read (telnetd.c:335-339, shell1.c:120).                         *)
THEOREM ExitIsFinal ==
  ASSUME Polite, ExitAlone
  PROVE  Spec => QuitIsFinal
<1> DEFINE Step == entered' > entered => ~quit
<1>1. QuitInv /\ PoliteInv /\ [Next]_vars => QuitInv' /\ [Step]_vars
  BY QuitStep
<1>2. QuitIsFinal <=> [][Step]_vars
  BY DEF QuitIsFinal
<1> HIDE DEF Step, QuitInv
<1> QED BY QuitInit, <1>1, <1>2, PoliteAlways, PTL DEF Spec
=============================================================================
