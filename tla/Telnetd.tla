------------------------------ MODULE Telnetd ------------------------------
(***************************************************************************)
(* The telnet shell server, src/eth/telnetd.c, with the command line part  *)
(* of src/eth/shell1.c.                                                    *)
(*                                                                         *)
(* There is one session, the static struct s, and any number of TCP        *)
(* connections to port 23.  Output is queued as lines: each is a block of  *)
(* a fixed pool (linemem), and s.lines[] says in which order they go out.  *)
(* uIP keeps no copy of what it sent: it calls telnetd_appcall() with the  *)
(* event (connected, acked, new data, poll, retransmit, closed) and        *)
(* expects the application to produce the same bytes again.                *)
(*                                                                         *)
(* uIP 1.0 and its memb pool are not part of the repository; they are      *)
(* modelled from the calls telnetd.c makes and the flags it tests.  Every  *)
(* line has length one and a segment carries at most SegLines of them.     *)
(* The events `exit` and `reboot` send to the main thread are in PclExec.  *)
(***************************************************************************)
EXTENDS Integers, Sequences, FiniteSets

CONSTANTS
  Conns,       \* TCP connections clients make, each once
  NIL,         \* no connection
  Key,         \* what line 344 compares of a connection: Conns -> a set
  NumLines,    \* TELNETD_CONF_NUMLINES, also the size of the pool
  SegLines,    \* how many lines fit a segment (uip_mss)
  BufLen,      \* sizeof(s.buf)
  Chunks,      \* what clients put in a segment, sequences over AllTokens
  MaxTyped,    \* bound: segments typed over one connection
  MaxReply,    \* bound: lines of output of one PCL command
  MaxPuts,     \* bound: lines printed by callbacks on the main thread
  Pipelining,  \* TRUE: input and callbacks come while output is on its way
  EarlyFin,    \* TRUE: clients close while output is on its way
  Overlap,     \* TRUE: clients connect while another connection exists
  Unwatched,   \* TRUE: callbacks print while no session is served
  Aborts,      \* TRUE: connections are reset, time out or expire
  MainQuit     \* TRUE: main() may call shell_quit(0) on its way to a reset

AllTokens == {"a", "help", "exit", "nl", "cr", "iac", "will", "wont", "do", "dont"}

ASSUME ConnAssumption == NIL \notin Conns
ASSUME SizeAssumption == /\ NumLines \in Nat \ {0}
                         /\ SegLines \in Nat \ {0}
                         /\ BufLen \in Nat \ {0, 1}
                         /\ MaxTyped \in Nat
                         /\ MaxReply \in Nat
                         /\ MaxPuts \in Nat
ASSUME EnvAssumption ==
  /\ Chunks \subseteq Seq(AllTokens)
  /\ {Pipelining, EarlyFin, Overlap, Unwatched, Aborts, MainQuit} \subseteq BOOLEAN

Slots == 1..NumLines

VARIABLES
  (* telnetd.c *)
  rport,      \* telnetd_rport, telnetd_ripaddr: the connection served
  lines,      \* s.lines, up to the first NULL
  numsent,    \* s.numsent
  buf,        \* s.buf up to s.bufptr
  sstate,     \* s.state
  (* the call in progress *)
  phase,      \* "idle" outside telnetd_appcall()
  rx,         \* what newdata() has not read yet
  owed,       \* lines the shell has yet to print before it reads on
  (* memb and uIP *)
  count,      \* reference counts of the pool
  content,    \* what each block of the pool says
  st,         \* state of each connection
  inflight,   \* the lines of the segment uIP has not seen acknowledged
  arrived,    \* the client has that segment
  (* bounds and history *)
  typed,      \* segments typed over each connection
  puts,       \* lines printed by callbacks
  said,       \* lines queued in this session
  shown,      \* the lines the client of this session has received
  quit,       \* exit was entered in this session
  entered     \* command lines entered in this session

callVars == <<phase, rx, owed>>
poolVars == <<count, content>>
uipVars  == <<st, inflight, arrived>>
sessHist == <<said, shown, quit, entered>>
vars == <<rport, lines, numsent, buf, sstate, callVars, poolVars, uipVars,
          typed, puts, sessHist>>

SessStates == {"normal", "iac", "will", "wont", "do", "dont", "close"}
ConnStates == {"none", "est", "finwait", "lastack", "gone"}

(* The session's fields keep their ranges: s.lines and s.numsent never     *)
(* exceed the array, s.bufptr stays below the last byte of s.buf.          *)
TypeOK ==
  /\ rport \in Conns \union {NIL}
  /\ lines \in Seq(Slots) /\ Len(lines) <= NumLines
  /\ numsent \in 0..NumLines
  /\ buf \in Seq(AllTokens) /\ Len(buf) < BufLen
  /\ sstate \in SessStates
  /\ phase \in {"idle", "start", "bytes"}
  /\ rx \in Seq(AllTokens)
  /\ owed \in Nat
  /\ count \in [Slots -> Int]
  /\ content \in [Slots -> Nat]
  /\ st \in [Conns -> ConnStates]
  /\ inflight \in Seq(Nat)
  /\ arrived \in BOOLEAN
  /\ typed \in [Conns -> 0..MaxTyped]
  /\ puts \in 0..MaxPuts
  /\ said \in Nat
  /\ shown \in Seq(Nat)
  /\ quit \in BOOLEAN
  /\ entered \in Nat

Init ==
  /\ rport = NIL /\ lines = <<>> /\ numsent = 0 /\ buf = <<>> /\ sstate = "normal"
  /\ phase = "idle" /\ rx = <<>> /\ owed = 0
  /\ count = [s \in Slots |-> 0] /\ content = [s \in Slots |-> 0]
  /\ st = [c \in Conns |-> "none"] /\ inflight = <<>> /\ arrived = FALSE
  /\ typed = [c \in Conns |-> 0] /\ puts = 0
  /\ said = 0 /\ shown = <<>> /\ quit = FALSE /\ entered = 0

-----------------------------------------------------------------------------
(* The pool and the line queue. *)

Least(a, b) == IF a < b THEN a ELSE b

(* memb_free() on every block of a sequence: the count goes down, whatever *)
(* it was.                                                                 *)
Dealloc(blocks) ==
  [s \in Slots |-> count[s] - Cardinality({i \in DOMAIN blocks : blocks[i] = s})]

(* memb_alloc() takes the first block whose count is zero. *)
FreeSlots == {s \in Slots : count[s] = 0}
NextFree == CHOOSE s \in FreeSlots : TRUE

(* alloc_line() and sendline(): queue one more line of output.  It is      *)
(* dropped when the pool is empty, or freed again when s.lines is full.    *)
QueueLine ==
  IF FreeSlots = {} THEN UNCHANGED <<lines, poolVars, said>>
  ELSE /\ content' = [content EXCEPT ![NextFree] = said + 1]
       /\ IF Len(lines) < NumLines
            THEN /\ lines' = Append(lines, NextFree)
                 /\ count' = [count EXCEPT ![NextFree] = 1]
                 /\ said' = said + 1
            ELSE UNCHANGED <<lines, count, said>>

(* What a segment made of the first n lines says now. *)
Segment(n) == [i \in 1..n |-> content[lines[i]]]

(* Mutant: the line that did not fit the segment is counted as sent. *)
SendData_CountsAll ==
  /\ numsent' = Len(lines)
  /\ IF inflight = <<>>
       THEN inflight' = Segment(Least(Len(lines), SegLines)) /\ arrived' = FALSE
       ELSE UNCHANGED <<inflight, arrived>>

(* senddata() and what uIP makes of it: with a segment outstanding it      *)
(* sends that many bytes again, whatever the application asked for.        *)
SendData ==
  /\ numsent' = Least(Len(lines), SegLines)
  /\ IF inflight = <<>>
       THEN inflight' = Segment(numsent') /\ arrived' = FALSE
       ELSE /\ inflight' = IF arrived THEN inflight
                           ELSE Segment(Least(Len(inflight), numsent'))
            /\ UNCHANGED arrived

(* Mutant: acked() moves the lines up by one too few. *)
Unsent_OffByOne == SubSeq(lines, IF numsent = 0 THEN 1 ELSE numsent, Len(lines))

(* acked(): the lines of the last senddata() are freed, the others move up. *)
Unsent == SubSeq(lines, numsent + 1, Len(lines))
Sent == SubSeq(lines, 1, numsent)

(* closed(): every line is freed, s.lines[] keeps the pointers. *)
FreeAll == Dealloc(lines)

-----------------------------------------------------------------------------
(* uip_close() in an event that honours it: uIP sends FIN and forgets what *)
(* was outstanding.                                                        *)
UipClose(c) ==
  /\ st' = [st EXCEPT ![c] = "finwait"]
  /\ inflight' = <<>>
  /\ UNCHANGED arrived

(* The test of STATE_CLOSE, which comes before any event but a rejected    *)
(* connection is looked at: the request is used up.                        *)
CloseRequested == sstate = "close" /\ sstate' = "normal"

(* Mutant: the request is used up and uip_close() forgotten. *)
CloseNow_Forgotten(c) ==
  /\ CloseRequested
  /\ UNCHANGED <<rport, lines, numsent, buf, callVars, poolVars, uipVars>>

CloseNow(c) ==
  /\ CloseRequested
  /\ UipClose(c)
  /\ UNCHANGED <<rport, lines, numsent, buf, callVars, poolVars>>

(* Mutants: any connection ends the session; no connection does. *)
Forget_AnyConnection(c) ==
  /\ sstate # "close"
  /\ rport' = NIL
  /\ UNCHANGED <<lines, numsent, buf, sstate, callVars, content>>

Forget_KeepsPort(c) ==
  /\ sstate # "close"
  /\ UNCHANGED <<rport, lines, numsent, buf, sstate, callVars, content>>

(* The part of telnetd_appcall() for closed, aborted and timed out.        *)
Forget(c) ==
  /\ sstate # "close"
  /\ rport' = IF rport # NIL /\ Key[rport] = Key[c] THEN NIL ELSE rport
  /\ UNCHANGED <<lines, numsent, buf, sstate, callVars, content>>

Terminal(c) ==
  \/ Forget(c) /\ count' = FreeAll
  \/ CloseRequested /\ UNCHANGED <<rport, lines, numsent, buf, callVars, poolVars>>

(* Nobody else is connected, or the environment lets clients overlap. *)
Alone(c) == Overlap \/ \A d \in Conns \ {c} : st[d] \in {"none", "gone"}

Reject(c) ==
  /\ phase = "idle" /\ st[c] = "none" /\ Alone(c)
  /\ rport # NIL
  /\ st' = [st EXCEPT ![c] = "finwait"]
  /\ UNCHANGED <<rport, lines, numsent, buf, sstate, callVars, poolVars,
                 inflight, arrived, typed, puts, sessHist>>

(* A new session: shell_start() prints a hint and a prompt. *)
Accept(c) ==
  /\ phase = "idle" /\ st[c] = "none" /\ Alone(c)
  /\ rport = NIL
  /\ rport' = c /\ lines' = <<>> /\ buf' = <<>> /\ sstate' = "normal"
  /\ st' = [st EXCEPT ![c] = "est"]
  /\ inflight' = <<>> /\ arrived' = FALSE
  /\ phase' = "start" /\ rx' = <<>> /\ owed' = 2
  /\ said' = 0 /\ shown' = <<>> /\ quit' = FALSE /\ entered' = 0
  /\ UNCHANGED <<numsent, poolVars, typed, puts>>

(* shell_output(), shell_prompt(): the shell prints its next line. *)
ShellOutput ==
  /\ owed > 0
  /\ owed' = owed - 1
  /\ QueueLine
  /\ UNCHANGED <<rport, numsent, buf, sstate, phase, rx, uipVars, typed, puts,
                 shown, quit, entered>>

(* The end of telnetd_appcall(); a session just started looks at           *)
(* STATE_CLOSE only now.                                                   *)
EndCall ==
  /\ phase # "idle" /\ owed = 0 /\ rx = <<>>
  /\ phase' = "idle"
  /\ IF phase = "start" /\ sstate = "close"
       THEN sstate' = "normal" /\ UipClose(rport) /\ UNCHANGED numsent
       ELSE SendData /\ UNCHANGED <<st, sstate>>
  /\ UNCHANGED <<rport, lines, buf, rx, owed, poolVars, typed, puts, sessHist>>

-----------------------------------------------------------------------------
(* newdata(), one byte at a time. *)

(* shell_input() and parse(): how many lines a command line prints. *)
Prints(line) ==
  CASE line = <<>>           -> {1}
    [] line # <<>> /\ Head(line) = "exit" -> {0}
    [] line # <<>> /\ Head(line) = "help" -> {3}
    [] OTHER                 -> 1..(MaxReply + 1)

(* Mutant: the end of s.buf is not looked at. *)
Completes_NoLimit(c) == c = "nl"

(* A line is complete at a newline, or when the byte does not fit: then it *)
(* is overwritten by the terminator.                                       *)
Completes(c) == c = "nl" \/ (c # "cr" /\ Len(buf) = BufLen - 1)
Exits(c) == Completes(c) /\ buf # <<>> /\ Head(buf) = "exit"

GetChar(c) ==
  IF c = "cr" THEN UNCHANGED <<buf, owed, entered, quit>>
  ELSE IF Completes(c)
    THEN /\ buf' = <<>>
         /\ owed' \in Prints(buf)
         /\ entered' = entered + 1
         /\ quit' = (quit \/ Exits(c))
    ELSE /\ buf' = Append(buf, c)
         /\ UNCHANGED <<owed, entered, quit>>

(* Mutant: what follows exit in the same segment is read like the rest. *)
ByteNormal_AfterExit(c) ==
  /\ sstate \in {"normal", "close"}
  /\ sstate' = IF Exits(c) THEN "close" ELSE sstate
  /\ GetChar(c)
  /\ UNCHANGED <<lines, poolVars, said>>

ByteNormal(c) ==
  /\ sstate = "normal"
  /\ IF c = "iac"
       THEN sstate' = "iac" /\ UNCHANGED <<buf, owed, entered, quit>>
       ELSE sstate' = (IF Exits(c) THEN "close" ELSE "normal") /\ GetChar(c)
  /\ UNCHANGED <<lines, poolVars, said>>

(* IAC IAC is the byte 255; the state is set after get_char() returns. *)
ByteIac(c) ==
  /\ sstate = "iac"
  /\ sstate' = IF c \in {"will", "wont", "do", "dont"} THEN c ELSE "normal"
  /\ IF c = "iac" THEN GetChar(c) ELSE UNCHANGED <<buf, owed, entered, quit>>
  /\ UNCHANGED <<lines, poolVars, said>>

(* sendopt(): every option is refused. *)
ByteOption ==
  /\ sstate \in {"will", "wont", "do", "dont"}
  /\ sstate' = "normal"
  /\ QueueLine
  /\ UNCHANGED <<buf, owed, entered, quit>>

(* The switch has no case for STATE_CLOSE. *)
ByteIgnored ==
  /\ sstate = "close"
  /\ UNCHANGED <<sstate, lines, poolVars, said, buf, owed, entered, quit>>

EatByte ==
  /\ phase = "bytes" /\ owed = 0 /\ rx # <<>>
  /\ rx' = Tail(rx)
  /\ \/ ByteNormal(Head(rx)) \/ ByteIac(Head(rx)) \/ ByteOption \/ ByteIgnored
  /\ UNCHANGED <<rport, numsent, phase, uipVars, typed, puts, shown>>

-----------------------------------------------------------------------------
(* The events uIP reports for an established connection. *)

Drained == inflight = <<>> /\ lines = <<>>

Acked ==
  /\ lines' = Unsent /\ count' = Dealloc(Sent) /\ numsent' = 0
  /\ inflight' = <<>>

(* The client sends a segment; it also acknowledges what has arrived,      *)
(* unless the two crossed.                                                 *)
NewData(c) ==
  /\ phase = "idle" /\ st[c] = "est" /\ typed[c] < MaxTyped
  /\ Pipelining \/ Drained
  /\ typed' = [typed EXCEPT ![c] = @ + 1]
  /\ \/ CloseNow(c)
     \/ /\ sstate # "close"
        /\ \E chunk \in Chunks : rx' = chunk
        /\ phase' = "bytes"
        /\ \/ UNCHANGED <<lines, count, numsent, inflight>>
           \/ inflight # <<>> /\ arrived /\ Acked
        /\ UNCHANGED <<rport, buf, sstate, owed, content, st, arrived>>
  /\ UNCHANGED <<puts, sessHist>>

(* senddata() after acked(), in one call. *)
SendUnsent ==
  /\ lines' = Unsent /\ count' = Dealloc(Sent)
  /\ numsent' = Least(Len(Unsent), SegLines)
  /\ inflight' = [i \in 1..numsent' |-> content[Unsent[i]]]
  /\ arrived' = FALSE

AckEvent(c) ==
  /\ phase = "idle" /\ st[c] = "est" /\ inflight # <<>> /\ arrived
  /\ \/ CloseNow(c)
     \/ /\ sstate # "close"
        /\ SendUnsent
        /\ UNCHANGED <<rport, buf, sstate, callVars, content, st>>
  /\ UNCHANGED <<typed, puts, sessHist>>

(* Mutant: senddata() is not called for uip_poll(). *)
Poll_Silent(c) ==
  /\ phase = "idle" /\ st[c] = "est" /\ inflight = <<>>
  /\ CloseNow(c)
  /\ UNCHANGED <<typed, puts, sessHist>>

(* uIP polls a connection with nothing outstanding. *)
Poll(c) ==
  /\ phase = "idle" /\ st[c] = "est" /\ inflight = <<>>
  /\ \/ CloseNow(c)
     \/ /\ sstate # "close"
        /\ SendData
        /\ UNCHANGED <<rport, lines, buf, sstate, callVars, poolVars, st>>
  /\ UNCHANGED <<typed, puts, sessHist>>

(* ... and asks for the outstanding segment again when its acknowledgement *)
(* is late.  It then sends data or nothing: uip_close() has no effect.     *)
Rexmit(c) ==
  /\ phase = "idle" /\ st[c] = "est" /\ inflight # <<>>
  /\ \/ /\ CloseRequested
        /\ UNCHANGED <<numsent, inflight, arrived>>
     \/ sstate # "close" /\ SendData /\ UNCHANGED sstate
  /\ UNCHANGED <<rport, lines, buf, callVars, poolVars, st, typed, puts, sessHist>>

(* The client closes first.  uIP takes its FIN when nothing is outstanding; *)
(* the FIN may itself acknowledge the last segment, then the event is both  *)
(* closed and acked.                                                        *)
ClientFin(c) ==
  /\ phase = "idle" /\ st[c] = "est" /\ inflight = <<>>
  /\ EarlyFin \/ Drained
  /\ Terminal(c)
  /\ st' = [st EXCEPT ![c] = "lastack"]
  /\ UNCHANGED <<inflight, arrived, typed, puts, sessHist>>

ClientFinAck(c) ==
  /\ phase = "idle" /\ st[c] = "est" /\ inflight # <<>> /\ arrived /\ EarlyFin
  /\ \/ /\ sstate # "close"
        /\ rport' = IF rport # NIL /\ Key[rport] = Key[c] THEN NIL ELSE rport
        /\ lines' = Unsent
        /\ count' = [s \in Slots |-> FreeAll[s] + Dealloc(Sent)[s] - count[s]]
        /\ numsent' = Least(Len(Unsent), SegLines)
        /\ UNCHANGED sstate
     \/ CloseRequested /\ UNCHANGED <<rport, lines, count, numsent>>
  /\ st' = [st EXCEPT ![c] = "lastack"]
  /\ inflight' = <<>>
  /\ UNCHANGED <<buf, callVars, content, arrived, typed, puts, sessHist>>

(* The handshake of a connection being closed ends: the client's FIN, or   *)
(* its acknowledgement of ours.  Both are reported as closed.              *)
HandshakeEnds(c) ==
  /\ phase = "idle" /\ st[c] \in {"finwait", "lastack"}
  /\ Terminal(c)
  /\ st' = [st EXCEPT ![c] = "gone"]
  /\ UNCHANGED <<inflight, arrived, typed, puts, sessHist>>

(* A reset, or too many retransmissions. *)
Abort(c) ==
  /\ Aborts /\ phase = "idle" /\ st[c] \in {"est", "finwait", "lastack"}
  /\ Terminal(c)
  /\ st' = [st EXCEPT ![c] = "gone"]
  /\ inflight' = IF st[c] = "est" THEN <<>> ELSE inflight
  /\ UNCHANGED <<arrived, typed, puts, sessHist>>

(* uIP drops a connection whose client never sends its FIN without a call. *)
Expire(c) ==
  /\ Aborts /\ st[c] = "finwait"
  /\ st' = [st EXCEPT ![c] = "gone"]
  /\ UNCHANGED <<rport, lines, numsent, buf, sstate, callVars, poolVars,
                 inflight, arrived, typed, puts, sessHist>>

(* The client receives the segment.  One sent again is discarded by TCP. *)
Receive ==
  /\ inflight # <<>> /\ ~arrived
  /\ arrived' = TRUE
  /\ shown' = shown \o inflight
  /\ UNCHANGED <<rport, lines, numsent, buf, sstate, callVars, poolVars, st,
                 inflight, typed, puts, said, quit, entered>>

-----------------------------------------------------------------------------
(* The main thread, between any two of the above. *)

(* A timer or button callback that prints: pcl_puts() calls shell_output(). *)
CallbackPuts ==
  /\ puts < MaxPuts
  /\ Unwatched \/ \E c \in Conns : st[c] = "est"
  /\ Pipelining \/ (phase = "idle" /\ inflight = <<>> /\ sstate # "close")
  /\ puts' = puts + 1
  /\ QueueLine
  /\ UNCHANGED <<rport, numsent, buf, sstate, callVars, uipVars, typed, shown,
                 quit, entered>>

MainQuits ==
  /\ MainQuit
  /\ sstate' = "close"
  /\ UNCHANGED <<rport, lines, numsent, buf, callVars, poolVars, uipVars, typed,
                 puts, sessHist>>

(* Every client came and went. *)
Quiet ==
  /\ phase = "idle" /\ \A c \in Conns : st[c] = "gone"
  /\ UNCHANGED vars

-----------------------------------------------------------------------------
Uip(c) == AckEvent(c) \/ Poll(c) \/ Rexmit(c)
Client(c) == Reject(c) \/ Accept(c) \/ NewData(c) \/ ClientFin(c) \/ ClientFinAck(c)

Next ==
  \/ ShellOutput \/ EatByte \/ EndCall
  \/ \E c \in Conns : \/ Uip(c) \/ Client(c)
                      \/ HandshakeEnds(c) \/ Abort(c) \/ Expire(c)
  \/ Receive \/ CallbackPuts \/ MainQuits \/ Quiet

(* The web thread keeps running and polling; the network delivers segments *)
(* and acknowledgements in the end, but need not bring new input.          *)
Fairness ==
  /\ WF_vars(ShellOutput \/ EatByte \/ EndCall)
  /\ WF_vars(Receive)
  /\ \A c \in Conns : /\ WF_vars(Poll(c))
                      /\ WF_vars(AckEvent(c))
                      /\ WF_vars(HandshakeEnds(c))

Spec == Init /\ [][Next]_vars /\ Fairness

-----------------------------------------------------------------------------
(* At most one client is served: the server believes exactly that of the   *)
(* connection telnetd_rport names, and tells every other one to go away,   *)
(* so no two clients can type into the one command buffer.                 *)
AtMostOneServed ==
  \A c \in Conns : st[c] = "est" => rport = c

(* While a session is served the pool and the queue agree: a block is      *)
(* allocated once for each queued line and free otherwise; with no session *)
(* the pool is whole again.  A block freed twice can never be allocated    *)
(* again, one never freed is lost, and the session goes silent.            *)
PoolExact ==
  IF rport = NIL THEN \A s \in Slots : count[s] = 0
  ELSE \A s \in Slots : count[s] = Cardinality({i \in DOMAIN lines : lines[i] = s})

(* The client sees the lines the shell queued in this session in order,    *)
(* each once, none left out, through retransmissions, acknowledgements     *)
(* that come with new input, and reuse of blocks.                          *)
OutputInOrder == \A i \in DOMAIN shown : shown[i] = i

(* Nothing typed after exit is executed. *)
QuitIsFinal == [][entered' > entered => ~quit]_vars

(* When every client is gone the server accepts the next one. *)
NoLockout ==
  phase = "idle" /\ (\A c \in Conns : st[c] \in {"none", "gone"}) => rport = NIL

(* "exit - exit shell" (shell1.c): the connection gets closed. *)
ExitHonoured ==
  \A c \in Conns : (quit /\ st[c] = "est") ~> (st[c] # "est")

(* "Print a string to the shell window" (shell1.h): what was queued reaches *)
(* the client, as long as the client stays.                                 *)
OutputShown ==
  \A c \in Conns : (st[c] = "est" /\ Len(shown) < said) ~>
                     (Len(shown) >= said \/ st[c] # "est")
=============================================================================
