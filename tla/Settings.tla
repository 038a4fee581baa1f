------------------------------ MODULE Settings ------------------------------
(***************************************************************************)
(* The settings in the last pages of the second flash bank: the network    *)
(* address, and words that scripts keep for pins and spi devices           *)
(* (src/my/efc.c), written by the gpio, spi and efc commands               *)
(* (src/pcl/pcl_sam.c), by main() at start (src/main.c), and by the        *)
(* network thread when a TFTP write begins and ends (src/eth/tftpd.c).     *)
(*                                                                         *)
(* The flash controller is hardware: a word that is stored goes to one     *)
(* write buffer for all pages; a page command erases the page, programs    *)
(* the whole buffer into it and leaves the buffer blank.  A page is one    *)
(* word here: the address and the MAC, which are written together, the     *)
(* level of a pin, or what a script keeps for an spi device.               *)
(*                                                                         *)
(* Commands run one at a time under pcl_mtx, which the network thread does *)
(* not take: it may come in while a command prints what it commits         *)
(* (efc.c:106), and any command may while it sleeps, prints or is          *)
(* preempted.                                                              *)
(***************************************************************************)
EXTENDS Integers

CONSTANTS
  Pins,   \* gpio numbers in use, 0..63
  Spis,   \* spi numbers whose pages are in use
  Vals,   \* what the gpio command is asked to write
  Addrs,  \* network addresses, of which
  Default \* is 192.168.0.1

ASSUME SettingsAssumption ==
  Pins \subseteq 0..63 /\ Vals \subseteq Nat /\ Addrs \subseteq Nat /\ Default \in Addrs

VARIABLES
  flash,     \* the word of each page
  latch,     \* the write buffer
  enable,    \* of efc_commit()
  ip,        \* ip_addr
  erasing,   \* who erased the bank and has not yet written the address back
  job,       \* the page whose words a thread has stored and not committed
  mixed,     \* history: the other thread used the write buffer meanwhile
  accepted,  \* history: the address that should be stored, or Lost
  saved      \* history: the level last saved for a pin, or Lost

setVars == <<flash, latch, enable, ip, erasing, job, mixed, accepted, saved>>

Threads == {"main", "net"}
NoWord == -1
Lost == -2
AnyWord == -3
Eth == <<"eth", 0>>
Gpio(n) == <<"gpio", n>>
Spi(n) == <<"spi", n>>
NoPage == <<"none", 0>>
Pages == {Eth} \union {Gpio(n) : n \in Pins} \union {Spi(n) : n \in Spis}
NoJob == [page |-> NoPage, word |-> Lost]

-----------------------------------------------------------------------------
(* The bank. *)

(* efc_ipaddr_read() *)
IpRead(bank) == IF bank[Eth] = NoWord THEN Default ELSE bank[Eth]

(* Thread t uses the write buffer: what the other one has in it is mixed.  *)
Uses(t) == mixed' = [u \in Threads |-> u # t /\ job[u] # NoJob]

(* A page command. *)
Program(page) ==
  /\ flash' = [flash EXCEPT ![page] = latch]
  /\ latch' = NoWord

(* t stores what page has to hold, or with Lost stores nothing.            *)
Store(t, page, word) ==
  /\ latch' = IF word = Lost THEN latch ELSE word
  /\ job' = [job EXCEPT ![t] = [page |-> page, word |-> word]]
  /\ Uses(t)

(* efc_commit() of what t has stored. *)
Commit(t) ==
  /\ IF enable THEN Program(job[t].page) ELSE UNCHANGED <<flash, latch>>
  /\ job' = [job EXCEPT ![t] = NoJob]
  /\ Uses(t)

SettingsInit ==
  /\ flash = [p \in Pages |-> NoWord] /\ latch = NoWord
  /\ enable = TRUE /\ ip = Default
  /\ erasing = {}
  /\ job = [t \in Threads |-> NoJob]
  /\ mixed = [t \in Threads |-> FALSE]
  /\ accepted = Lost
  /\ saved = [n \in Pins |-> Lost]

(* Commands are the main thread's.                                         *)
Ready == "main" \notin erasing /\ job["main"] = NoJob

-----------------------------------------------------------------------------
(* gpio n v 1 *)

(* efc_gpio_write() stores no other value than 0 and 1; the page is        *)
(* committed even when the value was not stored.                           *)
GpioCmd(n, v) ==
  /\ Ready
  /\ IF flash[Gpio(n)] = v
     THEN saved' = [saved EXCEPT ![n] = v] /\ UNCHANGED <<latch, job, mixed>>
     ELSE Store("main", Gpio(n), IF v \in {0, 1} THEN v ELSE Lost) /\ UNCHANGED saved
  /\ UNCHANGED <<flash, enable, ip, erasing, accepted>>

-----------------------------------------------------------------------------
(* The efc command. *)

(* efc gpio n v, and the word that spi n data cpol ncpha offset keeps. *)
StoreWord(v) ==
  /\ Ready /\ Uses("main")
  /\ latch' = v
  /\ UNCHANGED <<flash, enable, ip, erasing, job, accepted, saved>>

(* efc spi n upd offset: a word that is not blank is stored again. *)
SpiUpd(n) ==
  /\ Ready /\ Uses("main")
  /\ latch' = IF flash[Spi(n)] # NoWord THEN flash[Spi(n)] ELSE latch
  /\ UNCHANGED <<flash, enable, ip, erasing, job, accepted, saved>>

(* A commit of page p by hand, or of a page of a file: what the buffer     *)
(* holds is nothing the histories promise.                                 *)
Overwrite(p) ==
  /\ Program(p)
  /\ accepted' = IF p = Eth THEN Lost ELSE accepted
  /\ saved' = [n \in Pins |-> IF p = Gpio(n) THEN Lost ELSE saved[n]]
  /\ UNCHANGED <<enable, ip, erasing, job>>

(* efc commit gpio|spi|eth n *)
CommitCmd(p) == Ready /\ enable /\ Uses("main") /\ Overwrite(p)

(* efc commit ON|OFF *)
CommitEnable(on) ==
  /\ Ready /\ enable' = on
  /\ UNCHANGED <<flash, latch, ip, erasing, job, mixed, accepted, saved>>

(* efc ipaddr a *)
IpAddr(a) ==
  /\ Ready
  /\ ip' = a
  /\ Store("main", Eth, a)
  /\ UNCHANGED <<flash, enable, erasing, accepted, saved>>

(* An address that is refused has replaced ip_addr, or part of it. *)
IpRefused(a) ==
  /\ Ready /\ ip' = a
  /\ UNCHANGED <<flash, latch, enable, erasing, job, mixed, accepted, saved>>

(* efc ipaddr: ipaddr_str() reads it again. *)
IpShow ==
  /\ Ready /\ ip' = IpRead(flash)
  /\ UNCHANGED <<flash, latch, enable, erasing, job, mixed, accepted, saved>>

(* The commit at the end of gpio and of efc ipaddr. *)
CommandEnds ==
  /\ "main" \notin erasing /\ job["main"] # NoJob
  /\ Commit("main")
  /\ LET page == job["main"].page
         kept == IF mixed["main"] THEN Lost ELSE job["main"].word
     IN  /\ accepted' = IF enable /\ page = Eth THEN kept ELSE accepted
         /\ saved' = [n \in Pins |-> IF enable /\ page = Gpio(n) THEN kept ELSE saved[n]]
  /\ UNCHANGED <<enable, ip, erasing>>

-----------------------------------------------------------------------------
(* efc erase, main() at start, and tftpd_wrq(): the bank is erased, which  *)
(* takes a tenth of a second, and the address in RAM is written back.      *)

Erase(t) ==
  /\ t \notin erasing /\ job[t] = NoJob
  /\ erasing' = erasing \union {t}
  /\ flash' = [p \in Pages |-> NoWord]
  /\ saved' = [n \in Pins |-> Lost]
  /\ UNCHANGED <<latch, enable, ip, job, mixed, accepted>>

WriteBack(t) ==
  /\ t \in erasing /\ job[t] = NoJob
  /\ Store(t, Eth, ip)
  /\ accepted' = IF ip = accepted THEN accepted ELSE Lost
  /\ UNCHANGED <<flash, enable, ip, erasing, saved>>

(* Mutant: the address is not committed. *)
WriteBackEnds_Missing(t) ==
  /\ t \in erasing /\ job[t] # NoJob
  /\ erasing' = erasing \ {t}
  /\ job' = [job EXCEPT ![t] = NoJob] /\ Uses(t)
  /\ UNCHANGED <<flash, latch, enable, ip, accepted, saved>>

WriteBackEnds(t) ==
  /\ t \in erasing /\ job[t] # NoJob
  /\ Commit(t)
  /\ erasing' = erasing \ {t}
  /\ accepted' = IF mixed[t] \/ ~enable THEN Lost ELSE accepted
  /\ UNCHANGED <<enable, ip, saved>>

(* Blocks of a TFTP write fill the same buffer, and efc1_write_data()      *)
(* ends a file by programming every page behind it that is not blank.      *)
TftpStores(v) ==
  /\ "net" \notin erasing /\ Uses("net")
  /\ latch' = v
  /\ UNCHANGED <<flash, enable, ip, erasing, job, accepted, saved>>

TftpEnds(p) ==
  /\ "net" \notin erasing /\ p # Eth /\ flash[p] # NoWord
  /\ Uses("net") /\ Overwrite(p)

-----------------------------------------------------------------------------
(* Power fails, also during an erase or between the erase of a page and    *)
(* its programming, and main() begins again: it reads the address, and     *)
(* erases the bank when the button is held.  The saved levels are not      *)
(* driven again.                                                           *)
Restart ==
  /\ \/ /\ accepted' = IF erasing # {} THEN Lost ELSE accepted
        /\ UNCHANGED <<flash, saved>>
     \/ \E p \in Pages, word \in {NoWord, AnyWord} :
          /\ enable \/ p # Eth
          /\ flash' = [flash EXCEPT ![p] = word]
          /\ accepted' = IF erasing # {} \/ p = Eth THEN Lost ELSE accepted
          /\ saved' = [n \in Pins |-> IF p = Gpio(n) THEN Lost ELSE saved[n]]
  /\ latch' = NoWord /\ enable' = TRUE /\ ip' = IpRead(flash')
  /\ erasing' = {}
  /\ job' = [t \in Threads |-> NoJob]
  /\ mixed' = [t \in Threads |-> FALSE]

SettingsNext ==
  \/ \E n \in Pins, v \in Vals : GpioCmd(n, v)
  \/ \E v \in {0, 1, AnyWord} : StoreWord(v)
  \/ \E n \in Spis : SpiUpd(n)
  \/ \E p \in Pages : CommitCmd(p) \/ TftpEnds(p)
  \/ \E on \in BOOLEAN : CommitEnable(on)
  \/ \E a \in Addrs : IpAddr(a) \/ IpRefused(a)
  \/ IpShow \/ CommandEnds \/ Restart
  \/ \E t \in Threads : Erase(t) \/ WriteBack(t) \/ WriteBackEnds(t)
  \/ \E v \in {NoWord, AnyWord} : TftpStores(v)

SettingsSpec == SettingsInit /\ [][SettingsNext]_setVars

-----------------------------------------------------------------------------
(* What a command has saved stays saved over every other command, a TFTP   *)
(* write and a restart, though all pages share one write buffer that any   *)
(* script may leave full.  Lost are: an address at a commit of its page by *)
(* hand, and at an erase if commits are off or ip_addr has become another  *)
(* one (one that was refused, or the default efc ipaddr reads from the     *)
(* erased bank); the level of a pin at an erase, a commit by hand, the end *)
(* of a TFTP write, or when it is neither 0 nor 1; both when two threads   *)
(* are in the write buffer together, and when power cuts an erase or the   *)
(* commit of their page.                                                   *)
SettingsKept ==
  /\ accepted # Lost /\ erasing = {} => flash[Eth] = accepted
  /\ \A n \in Pins : saved[n] # Lost => flash[Gpio(n)] = saved[n]
=============================================================================
