------------------------------- MODULE Serial -------------------------------
(***************************************************************************)
(* The spi, uart and temp commands (src/my/spi1.c, src/my/uart1.c,         *)
(* src/pcl/pcl_sam.c).  A command either makes one transfer or leaves a    *)
(* loop thread behind that repeats it; spi1_io() and uart1_io() first end  *)
(* the loop thread that an earlier command left.  Commands are serialised  *)
(* by pcl_mtx, the loop threads run beside them and share with them the    *)
(* message and the registers of the bus.                                   *)
(***************************************************************************)
EXTENDS Integers

CONSTANTS
  Slaves,   \* the spi numbers in use, 0..15 are on bus 1, 16..19 on bus 2
  Modes,    \* the values of cpol and ncpha together
  InitMode, \* cpol 1 and ncpha 1, from spi1_init()
  TempMode, \* cpol 1 and ncpha 0, for the thermometer
  Texts      \* what may be sent

ASSUME SerialAssumption == Slaves \subseteq 0..19 /\ {InitMode, TempMode} \subseteq Modes

VARIABLES
  csr,    \* CSR of each slot: [mode, bits]
  mr,     \* MR of each bus: the slave selected
  msg,    \* spi_msg and uart1_msg: [to, tx]
  loop,   \* the loop thread of each: none, running, ending
  wire,   \* who is sending on each: none, loop, or io for the command
  pc,     \* where the running command is
  cmd,    \* its arguments: [dev, to, tx, mode, old, loops, temp]
  sent,   \* history: the message the loop thread is sending
  want    \* history: the mode each slot was left with

serialVars == <<csr, mr, msg, loop, wire, pc, cmd, sent, want>>

Devs == {"spi", "uart"}
Bus(n) == IF n <= 15 THEN 1 ELSE 2
Slot(n) == IF n <= 15 THEN n \div 4 ELSE n - 12   \* spix_find_csr()
Slots == {Slot(n) : n \in Slaves}
Buses == {Bus(n) : n \in Slaves}
Widths == {8, 16}
Empty == [to |-> CHOOSE n \in Slaves : TRUE, tx |-> CHOOSE d \in Texts : TRUE]
NoCmd == [dev |-> "spi", to |-> Empty.to, tx |-> Empty.tx, mode |-> TempMode,
          old |-> TempMode, loops |-> FALSE, temp |-> FALSE]

SerialInit ==
  /\ csr = [s \in Slots |-> [mode |-> InitMode, bits |-> 8]]
  /\ mr = [b \in Buses |-> -1]
  /\ msg = [d \in Devs |-> Empty]
  /\ loop = [d \in Devs |-> "none"] /\ wire = [d \in Devs |-> "none"]
  /\ pc = "idle" /\ cmd = NoCmd
  /\ sent = [d \in Devs |-> Empty] /\ want = [s \in Slots |-> InitMode]

-----------------------------------------------------------------------------
(* The command. *)

(* spi1_ncpha() and spi1_cpol() *)
InMode(s, mode) == [csr EXCEPT ![s].mode = mode]

(* spi n ncpha|cpol|bits ... : spi1_csr_bits(). *)
SetCsr(s, mode, bits) ==
  /\ pc = "idle"
  /\ csr' = [csr EXCEPT ![s] = [mode |-> mode, bits |-> bits]]
  /\ want' = [want EXCEPT ![s] = mode]
  /\ UNCHANGED <<mr, msg, loop, wire, pc, cmd, sent>>

(* spi n data cpol ncpha: the mode is set, and the old one kept, while the *)
(* loop thread still runs.                                                 *)
SpiIo(n, tx, mode) ==
  LET s == Slot(n) IN
  /\ pc = "idle"
  /\ cmd' = [NoCmd EXCEPT !.to = n, !.tx = tx, !.mode = mode, !.old = csr[s].mode]
  /\ csr' = InMode(s, mode)
  /\ pc' = "stop"
  /\ UNCHANGED <<mr, msg, loop, wire, sent, want>>

(* spi n data loop, uart n data and uart n data loop. *)
Start(c) ==
  /\ pc = "idle"
  /\ cmd' = c /\ pc' = "stop"
  /\ UNCHANGED <<csr, mr, msg, loop, wire, sent, want>>

SpiLoop(n, tx) ==
  Start([NoCmd EXCEPT !.to = n, !.tx = tx, !.mode = csr[Slot(n)].mode,
                      !.old = csr[Slot(n)].mode, !.loops = TRUE])

Uart(n, tx, loops) ==
  Start([NoCmd EXCEPT !.dev = "uart", !.to = n, !.tx = tx, !.loops = loops])

(* spi1_get_temp(): the mode is set for good, and the slave selected, while *)
(* the loop thread still runs.                                             *)
Temp(n) ==
  LET s == Slot(n) IN
  /\ pc = "idle"
  /\ cmd' = [NoCmd EXCEPT !.to = n, !.temp = TRUE]
  /\ csr' = InMode(s, TempMode)
  /\ want' = [want EXCEPT ![s] = TempMode]
  /\ mr' = [mr EXCEPT ![Bus(n)] = n]
  /\ pc' = "stop"
  /\ UNCHANGED <<msg, loop, wire, sent>>

(* chThdTerminate() *)
Stop ==
  /\ pc = "stop" /\ pc' = "join"
  /\ loop' = [loop EXCEPT ![cmd.dev] = IF @ = "none" THEN @ ELSE "ending"]
  /\ UNCHANGED <<csr, mr, msg, wire, cmd, sent, want>>

(* Mutant: the loop thread is not waited for. *)
Joined_AtOnce == TRUE

(* chThdWait() *)
Joined == loop[cmd.dev] = "none"

(* spi1_csr_bits(0, n, 4, 7, 0) and spi1_select(n) *)
Prepared(c) ==
  /\ csr' = [csr EXCEPT ![Slot(c.to)].bits = 8]
  /\ mr' = [mr EXCEPT ![Bus(c.to)] = c.to]

(* The message is written and the bus set up; the loop thread starts, or   *)
(* the command makes its own transfer.                                     *)
Set ==
  /\ pc = "join" /\ Joined
  /\ msg' = [msg EXCEPT ![cmd.dev] = [to |-> cmd.to, tx |-> cmd.tx]]
  /\ IF cmd.dev = "spi" THEN Prepared(cmd) ELSE UNCHANGED <<csr, mr>>
  /\ IF cmd.loops
     THEN /\ loop' = [loop EXCEPT ![cmd.dev] = "running"]
          /\ pc' = "idle" /\ cmd' = NoCmd /\ UNCHANGED wire
     ELSE /\ wire' = [wire EXCEPT ![cmd.dev] = "io"]
          /\ pc' = "exchange" /\ UNCHANGED <<loop, cmd>>
  /\ UNCHANGED <<sent, want>>

(* The transfer ends, and the mode goes back to what it was. *)
Exchanged ==
  /\ pc = "exchange" /\ pc' = "idle" /\ cmd' = NoCmd
  /\ wire' = [wire EXCEPT ![cmd.dev] = "none"]
  /\ IF cmd.dev = "spi" /\ ~cmd.temp
     THEN csr' = InMode(Slot(cmd.to), cmd.old)
     ELSE UNCHANGED csr
  /\ UNCHANGED <<mr, msg, loop, sent, want>>

-----------------------------------------------------------------------------
(* LoopThread() and UART1LoopThread(): send, and look whether to end. *)

Send(d) ==
  /\ loop[d] = "running" /\ wire[d] = "none"
  /\ wire' = [wire EXCEPT ![d] = "loop"]
  /\ sent' = [sent EXCEPT ![d] = msg[d]]
  /\ UNCHANGED <<csr, mr, msg, loop, pc, cmd, want>>

SendEnds(d) ==
  /\ wire[d] = "loop"
  /\ wire' = [wire EXCEPT ![d] = "none"]
  /\ UNCHANGED <<csr, mr, msg, loop, pc, cmd, sent, want>>

LoopEnds(d) ==
  /\ loop[d] = "ending" /\ wire[d] = "none"
  /\ loop' = [loop EXCEPT ![d] = "none"]
  /\ UNCHANGED <<csr, mr, msg, wire, pc, cmd, sent, want>>

SerialNext ==
  \/ \E s \in Slots, mode \in Modes, bits \in Widths : SetCsr(s, mode, bits)
  \/ \E n \in Slaves, tx \in Texts, mode \in Modes : SpiIo(n, tx, mode)
  \/ \E n \in Slaves, tx \in Texts : SpiLoop(n, tx)
  \/ \E n \in Slaves, tx \in Texts, loops \in BOOLEAN : Uart(n, tx, loops)
  \/ \E n \in Slaves : Temp(n)
  \/ Stop \/ Set \/ Exchanged
  \/ \E d \in Devs : Send(d) \/ SendEnds(d) \/ LoopEnds(d)

SerialSpec == SerialInit /\ [][SerialNext]_serialVars

-----------------------------------------------------------------------------
(* What goes over a wire is what a command asked for: a command's own      *)
(* transfer runs when no loop thread uses the bus, in its mode, with eight *)
(* bits and its slave selected; a message is not rewritten under the loop  *)
(* thread that sends it, and only temp takes the slave from a loop; and a  *)
(* command leaves every slot in the mode it found.                         *)
BusAsAsked ==
  /\ wire["spi"] = "io" =>
       /\ loop["spi"] = "none" /\ mr[Bus(cmd.to)] = cmd.to
       /\ csr[Slot(cmd.to)] = [mode |-> cmd.mode, bits |-> 8]
  /\ \A d \in Devs : wire[d] = "loop" => msg[d] = sent[d]
  /\ loop["spi"] = "running" /\ ~cmd.temp => mr[Bus(msg["spi"].to)] = msg["spi"].to
  /\ pc = "idle" => \A s \in Slots : csr[s].mode = want[s]
=============================================================================
