------------------------------- MODULE Tftpd -------------------------------
(***************************************************************************)
(* The TFTP server, src/eth/tftpd.c, the flash bank it writes (Efc), and   *)
(* what the main thread does with a file once it is complete: a script is  *)
(* loaded (EVT_PCLUPD), a firmware image whose CRC is its name is copied   *)
(* over the running one before a reset (EVT_FWUPG).                        *)
(*                                                                         *)
(* The server keeps one transfer, the static struct tfs, for all clients.  *)
(* It has no timer; a client repeats its last packet when no answer comes. *)
(* Frames are handled in batches by the web thread; the end of a batch     *)
(* calls tftpd_cb(), which is where a finished transfer is noticed.        *)
(*                                                                         *)
(* Clients are not part of the repository.  fwupg.sh uses a common tftp:   *)
(* its packets and its retries are modelled as that program has them.  A   *)
(* CRC is modelled as the bytes it is computed from, none as <<>>.         *)
(***************************************************************************)
EXTENDS Efc

CONSTANTS
  Clients,      \* the tftp clients
  NIL,          \* no file
  SegSz,        \* SEG_SZ
  Puts,         \* files clients may write, on a calm and a faulty network:
                \* [faulty -> set of [kind, tag, len]]
  Gets,         \* the names clients read on a calm network
  MaxStarts,    \* bound: transfers begun
  MaxFaults,    \* bound: packets lost, duplicated or repeated
  Enabled,      \* the static enable of efc_commit()
  Reorders,     \* TRUE: a copy may arrive after what was sent later
  Impatient     \* TRUE: a transfer may begin while the board is still busy

(* What a read asks for: script.pcl or image1.bin, which are EFC1 up to its *)
(* length, image0.bin, which is EFC0, another image or a bad mode, another *)
(* name.                                                                   *)
Names == {"stored", "image0", "refused", "unknown"}

ASSUME TftpAssumption ==
  /\ SegSz \in Nat \ {0}
  /\ \A f \in BOOLEAN :
       Puts[f] \subseteq [kind : {"script", "image", "other", "badmode"},
                         tag : Nat, len : Nat \ {0}]
  /\ MaxStarts \in Nat /\ MaxFaults \in Nat
  /\ Gets \subseteq Names
  /\ {Enabled, Reorders, Impatient} \subseteq BOOLEAN

VARIABLES
  (* tfs *)
  mode,     \* "none", "wrq" or "rrq"
  ackn,     \* the next block number
  start,    \* the next address, counted from the start of EFC1
  end,      \* where a read ends
  crc,      \* the CRC a firmware image must have, <<>> for a script
  (* efc.c *)
  mem,      \* the content of EFC1
  left,     \* efc_databuf, up to efc_counter
  efc0,     \* the content of EFC0, the running firmware
  (* main.c *)
  pend,     \* event flags of the main thread
  mainPc,   \* "run", "grace" (the 2 s before the copy) or "reset"
  loaded,   \* the script pcl_load() evaluated last
  (* network and clients *)
  toSrv, toCl,   \* packets under way
  cl,            \* each client: [pc, file, blk, got]
  faulty,        \* TRUE: two clients and a network with faults; FALSE: neither
  starts, faults

srvVars == <<mode, ackn, start, end, crc>>
efcVars == <<mem, left>>
mainVars == <<efc0, pend, mainPc, loaded>>
boundVars == <<faulty, starts, faults>>
vars == <<srvVars, efcVars, mainVars, toSrv, toCl, cl, boundVars>>

(* The bytes of a file, different for different files. *)
Bytes(f) == [i \in 1..f.len |-> 100 * f.tag + i]

(* DATA block n of a file; the last one is short, perhaps empty. *)
Block(bytes, n) ==
  SubSeq(bytes, (n - 1) * SegSz + 1,
         IF n * SegSz < Len(bytes) THEN n * SegSz ELSE Len(bytes))

(* The firmware the board runs: a block and a bit. *)
Running == [a \in Addr |-> IF a < SegSz + 1 THEN Firmware ELSE Blank]

Wrq(k, f)     == [op |-> "WRQ", from |-> k, file |-> f]
Rrq(k, name)  == [op |-> "RRQ", from |-> k, name |-> name]
Data(k, n, b) == [op |-> "DATA", from |-> k, n |-> n, bytes |-> b]
Ack(k, n)     == [op |-> "ACK", from |-> k, n |-> n]
Err(k)        == [op |-> "ERROR", from |-> k]

Idle == [pc |-> "idle", file |-> NIL, name |-> "stored", blk |-> 0, got |-> <<>>]

(* Every variable has its type; what waits for a full page is less than    *)
(* one, so efc_databuf never overflows.                                    *)
TypeOK ==
  /\ mode \in {"none", "wrq", "rrq"}
  /\ ackn \in Nat /\ start \in Int /\ end \in Int
  /\ crc \in Seq(Nat)
  /\ mem \in [Addr -> Int] /\ efc0 \in [Addr -> Int]
  /\ left \in Seq(Int) /\ Len(left) < PageSz
  /\ pend \subseteq {"FWUPG", "PCLUPD"}
  /\ mainPc \in {"run", "grace", "reset"}
  /\ loaded \in Seq(Int)
  /\ \A k \in Clients : cl[k].pc \in {"idle", "wrq", "put", "rrq", "get", "done", "failed"}
  /\ starts \in 0..MaxStarts /\ faults \in 0..MaxFaults

Init ==
  /\ mode = "none" /\ ackn = 0 /\ start = 0 /\ end = 0 /\ crc = <<>>
  /\ mem = WithConfig(Erased) /\ left = <<>>
  /\ efc0 = Running /\ pend = {} /\ mainPc = "run" /\ loaded = <<>>
  /\ toSrv = {} /\ toCl = {} /\ cl = [k \in Clients |-> Idle]
  /\ faulty \in IF MaxFaults = 0 THEN {FALSE} ELSE BOOLEAN
  /\ starts = 0 /\ faults = IF faulty THEN 0 ELSE MaxFaults

-----------------------------------------------------------------------------
(* The server: one action per packet type, tftpd_appcall(). *)

(* A packet is taken from the network, which may deliver it once more. *)
Take(p) ==
  /\ p \in toSrv /\ mainPc # "reset"
  /\ \/ toSrv' = toSrv \ {p} /\ UNCHANGED faults
     \/ toSrv' = toSrv /\ faults < MaxFaults /\ faults' = faults + 1

Reply(p) == toCl' = toCl \union {p}

(* tftpd_ack() *)
SendAck(k) == Reply(Ack(k, ackn)) /\ ackn' = ackn + 1

(* tftpd_wrq(): any request ends the transfer in progress.  Names other    *)
(* than script.pcl and XXXXXXXX.bin go to a PCL command assembled from an  *)
(* uninitialised buffer, so its outcome is open.                           *)
WrqRefused(k) ==
  /\ Reply(Err(k))
  /\ mode' = "none" /\ crc' = <<>> /\ ackn' = 0
  /\ UNCHANGED <<start, end, efcVars>>

WrqAccepted(k, f) ==
  /\ crc' = IF f.kind = "image" THEN Bytes(f) ELSE <<>>
  /\ mem' = Prepare(mem, Enabled)
  /\ mode' = "wrq" /\ start' = 0 /\ end' = BankSz
  /\ Reply(Ack(k, 0)) /\ ackn' = 1
  /\ UNCHANGED left

HandleWrq(p) ==
  /\ p.op = "WRQ" /\ Take(p)
  /\ \/ p.file.kind \in {"badmode", "other"} /\ WrqRefused(p.from)
     \/ p.file.kind # "badmode" /\ WrqAccepted(p.from, p.file)
  /\ UNCHANGED <<mainVars, cl, faulty, starts>>

(* Mutant: the short block is not taken for the last one. *)
StoreBlock_NeverEnds(bytes) ==
  LET w == WriteData(mem, IF start = 0 THEN <<>> ELSE left, bytes, start, FALSE)
  IN mem' = w.mem /\ left' = w.left /\ start' = start + Len(bytes)

(* tftpd_data_in(): the block number is not looked at.  Offset 0 restarts  *)
(* the page buffer.  A short block ends the transfer.                      *)
StoreBlock(bytes) ==
  IF bytes = <<>> THEN UNCHANGED <<efcVars, start>>
  ELSE LET w == WriteData(mem, IF start = 0 THEN <<>> ELSE left, bytes, start,
                          Len(bytes) # SegSz)
       IN mem' = w.mem /\ left' = w.left /\ start' = start + Len(bytes)

(* Mutant: tfs.ackn is not reset after the last block. *)
HandleData_NoReset(p) ==
  /\ p.op = "DATA" /\ Take(p)
  /\ IF mode = "none" THEN UNCHANGED <<srvVars, efcVars, toCl>>
     ELSE /\ StoreBlock(p.bytes)
          /\ Reply(Ack(p.from, ackn)) /\ ackn' = ackn + 1
          /\ UNCHANGED <<mode, end, crc>>
  /\ UNCHANGED <<mainVars, cl, faulty, starts>>

(* tftpd_appcall() for a DATA packet. *)
HandleData(p) ==
  /\ p.op = "DATA" /\ Take(p)
  /\ IF mode = "none" THEN UNCHANGED <<srvVars, efcVars, toCl>>
     ELSE /\ StoreBlock(p.bytes)
          /\ Reply(Ack(p.from, ackn))
          /\ ackn' = IF Len(p.bytes) # SegSz THEN 0 ELSE ackn + 1
          /\ UNCHANGED <<mode, end, crc>>
  /\ UNCHANGED <<mainVars, cl, faulty, starts>>

(* The memory around EFC1: EFC0 is below it. *)
MemoryAt(a) == IF a \in Addr THEN mem[a]
               ELSE IF a + BankSz \in Addr THEN efc0[a + BankSz] ELSE Beyond

(* tftpd_data_out(): the next block of what is read.  The bytes to go are  *)
(* counted without a sign: behind the end there are as many as ever.       *)
SendBlock(k, from, to, n) ==
  LET size == IF to - from \in 0..SegSz THEN to - from ELSE SegSz
  IN /\ Reply(Data(k, n, [i \in 1..size |-> MemoryAt(from + i - 1)]))
     /\ start' = from + size
     /\ ackn' = IF size # SegSz THEN 0 ELSE n + 1

(* tftpd_rrq(): any request ends the transfer in progress. *)
RrqAccepted(k, from, len) ==
  /\ mode' = "rrq" /\ end' = from + len
  /\ SendBlock(k, from, from + len, 1)

RrqRefused(k, n) ==
  /\ Reply(Err(k))
  /\ mode' = "none" /\ ackn' = n
  /\ UNCHANGED <<start, end>>

HandleRrq(p) ==
  /\ p.op = "RRQ" /\ Take(p)
  /\ crc' = <<>>
  /\ \/ p.name = "stored" /\ RrqAccepted(p.from, 0, GetLength(mem))
     \/ p.name = "image0" /\ RrqAccepted(p.from, -BankSz, GetLength(efc0))
     \/ p.name = "refused" /\ RrqRefused(p.from, 0)
     \/ p.name = "unknown" /\ RrqRefused(p.from, 1)
  /\ UNCHANGED <<efcVars, mainVars, cl, faulty, starts>>

(* An acknowledgement asks for the next block, whichever it acknowledges.  *)
HandleAck(p) ==
  /\ p.op = "ACK" /\ Take(p)
  /\ IF mode = "none" THEN UNCHANGED <<srvVars, toCl>>
     ELSE SendBlock(p.from, start, end, ackn) /\ UNCHANGED <<mode, end, crc>>
  /\ UNCHANGED <<efcVars, mainVars, cl, faulty, starts>>

(* Mutant: the CRC is not compared. *)
Completion_Unchecked == IF crc # <<>> THEN {"FWUPG"} ELSE {"PCLUPD"}

(* tftpd_cb(), at the end of a batch of frames of any kind. *)
Completion ==
  IF crc # <<>>
    THEN IF crc = Stored(mem) THEN {"FWUPG"} ELSE {}
    ELSE IF GetLength(mem) # 0 THEN {"PCLUPD"} ELSE {}

BatchEnd ==
  /\ mainPc # "reset" /\ mode # "none" /\ ackn = 0
  /\ pend' = pend \union Completion
  /\ crc' = <<>> /\ mode' = "none"
  /\ UNCHANGED <<ackn, start, end, efcVars, efc0, mainPc, loaded, toSrv, toCl, cl,
                 boundVars>>

-----------------------------------------------------------------------------
(* The main thread. *)

MainWakes ==
  /\ mainPc = "run" /\ pend # {}
  /\ pend' = {}
  /\ loaded' = IF "PCLUPD" \in pend /\ GetLength(mem) # 0 THEN Stored(mem) ELSE loaded
  /\ mainPc' = IF "FWUPG" \in pend THEN "grace" ELSE "run"
  /\ UNCHANGED <<srvVars, efcVars, efc0, toSrv, toCl, cl, boundVars>>

(* The web thread is stopped 2 s later, then EFC1 is copied over EFC0. *)
MainCopies ==
  /\ mainPc = "grace"
  /\ mainPc' = "reset" /\ efc0' = mem
  /\ UNCHANGED <<srvVars, efcVars, pend, loaded, toSrv, toCl, cl, boundVars>>

-----------------------------------------------------------------------------
(* The clients. *)

Active(k) == cl[k].pc \in {"wrq", "put", "rrq", "get"}

(* A client that waits begins when the last transfer has had its effect.   *)
Settled == /\ mode = "none" \/ ackn # 0
           /\ pend = {} /\ mainPc = "run"
           /\ toSrv = {} /\ toCl = {}
           /\ \A k \in Clients : ~Active(k)

Request(k) == IF cl[k].pc = "wrq" THEN Wrq(k, cl[k].file) ELSE Rrq(k, cl[k].name)

(* The packet a client repeats when it hears nothing. *)
LastSent(k) ==
  CASE cl[k].pc \in {"wrq", "rrq"} -> Request(k)
    [] cl[k].pc = "put" -> Data(k, cl[k].blk, Block(Bytes(cl[k].file), cl[k].blk))
    [] cl[k].pc = "get" -> Ack(k, cl[k].blk)

(* On a calm network one client is active. *)
CalmClient == CHOOSE k \in Clients : TRUE

(* A transfer has a port of its own: answers to the last one are lost. *)
Begin(k, c) ==
  /\ faulty \/ k = CalmClient
  /\ ~Active(k) /\ starts < MaxStarts
  /\ Impatient \/ Settled
  /\ starts' = starts + 1
  /\ cl' = [cl EXCEPT ![k] = c]
  /\ toSrv' = toSrv \union {LastSent(k)'}
  /\ toCl' = {p \in toCl : p.from # k}
  /\ UNCHANGED <<srvVars, efcVars, mainVars, faulty, faults>>

BeginPut(k) == \E f \in Puts[faulty] : Begin(k, [Idle EXCEPT !.pc = "wrq", !.file = f])

(* The file that is compared with what is read. *)
Expected(c, name) == IF c.pc = "done" /\ name = "stored" THEN c.file ELSE NIL

BeginGet(k) ==
  /\ ~faulty
  /\ \E name \in Gets :
       Begin(k, [Idle EXCEPT !.pc = "rrq", !.name = name, !.file = Expected(cl[k], name)])

(* A client moves on to its next packet, or is through: what is still      *)
(* under way of its transfer is too late to matter to anyone.              *)
Older(k) == IF Reorders THEN {} ELSE {p \in toSrv : p.from = k}

Advance(k, c) ==
  /\ cl' = [cl EXCEPT ![k] = c]
  /\ toSrv' = (toSrv \ Older(k)) \union {LastSent(k)'}

Through(k, c) ==
  /\ cl' = [cl EXCEPT ![k] = c]
  /\ toSrv' = {p \in toSrv : p.from # k}

PutAcked(k, p) ==
  LET c == cl[k] IN
  /\ p.op = "ACK" /\ c.pc \in {"wrq", "put"}
  /\ CASE p.n # c.blk -> UNCHANGED <<cl, toSrv>>
       [] p.n = c.blk /\ c.pc = "put" /\ Len(Block(Bytes(c.file), c.blk)) < SegSz
            -> Through(k, [c EXCEPT !.pc = "done"])
       [] OTHER -> Advance(k, [c EXCEPT !.pc = "put", !.blk = @ + 1])

GotBlock(k, p) ==
  LET c == cl[k]
      next == [c EXCEPT !.pc = IF Len(p.bytes) < SegSz THEN "done" ELSE "get",
                        !.blk = p.n, !.got = @ \o p.bytes]
  IN
  /\ p.op = "DATA" /\ c.pc \in {"rrq", "get"}
  /\ IF p.n # c.blk + 1 THEN UNCHANGED <<cl, toSrv>>
     ELSE /\ cl' = [cl EXCEPT ![k] = next]
          /\ toSrv' = (toSrv \ Older(k)) \union {Ack(k, p.n)}

Hear(k, p) ==
  /\ p \in toCl /\ p.from = k
  /\ toCl' = toCl \ {p}
  /\ \/ PutAcked(k, p)
     \/ GotBlock(k, p)
     \/ p.op = "ERROR" /\ Active(k) /\ Through(k, [cl[k] EXCEPT !.pc = "failed"])
     \/ ~Active(k) /\ UNCHANGED <<cl, toSrv>>
     \/ Active(k) /\ p.op = "DATA" /\ cl[k].pc \in {"wrq", "put"} /\ UNCHANGED <<cl, toSrv>>
     \/ Active(k) /\ p.op = "ACK" /\ cl[k].pc \in {"rrq", "get"} /\ UNCHANGED <<cl, toSrv>>
  /\ UNCHANGED <<srvVars, efcVars, mainVars, boundVars>>

(* No answer: the last packet again, or in the end no more. *)
Repeat(k) ==
  /\ Active(k) /\ faults < MaxFaults
  /\ faults' = faults + 1
  /\ toSrv' = toSrv \union {LastSent(k)}
  /\ UNCHANGED <<srvVars, efcVars, mainVars, toCl, cl, faulty, starts>>

GiveUp(k) ==
  /\ Active(k)
  /\ mainPc = "reset" \/ (faults = MaxFaults /\ toSrv = {} /\ toCl = {})
  /\ Through(k, [cl[k] EXCEPT !.pc = "failed"])
  /\ UNCHANGED <<srvVars, efcVars, mainVars, toCl, boundVars>>

Lose ==
  /\ faults < MaxFaults /\ faults' = faults + 1
  /\ \/ \E p \in toSrv : toSrv' = toSrv \ {p} /\ UNCHANGED toCl
     \/ \E p \in toCl : toCl' = toCl \ {p} /\ UNCHANGED toSrv
  /\ UNCHANGED <<srvVars, efcVars, mainVars, cl, faulty, starts>>

(* Every transfer was made, or the board has reset. *)
Over ==
  /\ starts = MaxStarts \/ mainPc = "reset"
  /\ \A k \in Clients : ~Active(k)
  /\ UNCHANGED vars

-----------------------------------------------------------------------------
Server == BatchEnd \/ \E p \in toSrv : \/ HandleWrq(p) \/ HandleData(p)
                                       \/ HandleRrq(p) \/ HandleAck(p)
Main == MainWakes \/ MainCopies
Client(k) == \/ BeginPut(k) \/ BeginGet(k) \/ Repeat(k) \/ GiveUp(k)
             \/ \E p \in toCl : Hear(k, p)

Next == Server \/ Main \/ Lose \/ Over \/ \E k \in Clients : Client(k)

(* Both threads run, and clients listen to what reaches them. *)
Fairness == /\ WF_vars(Server) /\ WF_vars(Main)
            /\ \A k \in Clients : WF_vars(\E p \in toCl : Hear(k, p))

Spec == Init /\ [][Next]_vars /\ Fairness

-----------------------------------------------------------------------------
Wrote(k) == cl[k].pc = "done" /\ cl[k].file # NIL /\ cl[k].got = <<>>

Contents == {Bytes(f) : f \in {g \in Puts[faulty] : g.kind = "image"}}

(* The board never boots into anything but an image some client wrote: the *)
(* CRC is checked when the transfer ends, the copy is made seconds later.  *)
InstalledImageIsWhole == mainPc = "reset" => Stored(efc0) \in Contents

(* "tftp put $fname $crc.bin" (fwupg.sh): the board does not settle back   *)
(* with an image that was written without an error not installed.          *)
AcceptedImageIsInstalled ==
  ~faulty => \A k \in Clients : Wrote(k) /\ cl[k].file.kind = "image" => ~Settled

(* Without faults, a file read back after it was written is the file, byte for byte. *)
WrittenIsRead ==
  \A k \in Clients : cl[k].pc = "done" /\ cl[k].got # <<>> /\ cl[k].file # NIL
                        => cl[k].got = Bytes(cl[k].file)

(* Without faults, a script that was written is what pcl_load() then       *)
(* evaluates.                                                              *)
ScriptIsLoaded ==
  \A f \in {g \in Puts[FALSE] : g.kind = "script"} :
    (~faulty /\ Wrote(CalmClient) /\ cl[CalmClient].file = f)
      ~> (loaded = Bytes(f))

(* Without faults the address settings survive every transfer of a file    *)
(* that ends below them.  (Nothing compares tfs.start with the end of the  *)
(* bank while writing, tftpd.c:111: a block that is repeated is stored     *)
(* again behind itself, and often enough the settings are overwritten.)    *)
ConfigKept == ~faulty => mem[EthPage * PageSz] = Config
=============================================================================
