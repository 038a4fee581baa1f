# A formal model of the sam7x firmware

`sam7x` is the firmware of a board with an AT91SAM7X512: ChibiOS/RT, the uIP TCP/IP
stack, a Tcl-like command language (Picol, here called PCL), a telnet shell, a TFTP
server for scripts and firmware images, and a flash bank that keeps them. This directory
holds TLA+ modules translated from its source, TLC configurations that check them on small
instances, and proofs checked by TLAPS.

Contents: [inventory](#inventory), [modules](#modules), [runs](#runs),
[fairness](#fairness), [proofs](#proofs), [findings](#findings),
[not modelled](#not-modelled), [plan](#plan).

## Inventory

| component | state | operations | meets the others through |
|---|---|---|---|
| main thread (`main.c`) | event mask, `ret`, `restart_os` | event loop: CMDSTART, PCLUPD, FWUPG, REBOOT, CMDEND, BTN; timer and display update; erase at start; restart and copy | event flags of `my/events.h`, `pcl_str`, thread joins |
| PCL hand-off (`pcl/pcl_sam.c:1041-1235`) | `interp`, `pcl_mtx`, `pcl_str`, timer | `pcl_exec`, `pcl_exec2`, `pcl_load` and its chunks, timer, boot and button callbacks | called by both threads |
| network thread (`eth/webthread.c`) | event dispatch | frames, periodic timer, ARP timer | calls telnetd and tftpd through uIP |
| telnet server and shell (`eth/telnetd.c`, `eth/shell1.c`) | `struct telnetd_state s`, `linemem`, `telnetd_rport` | `telnetd_appcall`, `shell_input`, `shell_output` | uIP callbacks; `pcl_exec2`; output from callbacks on main |
| TFTP server (`eth/tftpd.c`) | `struct tftpd_state tfs` | WRQ, RRQ, DATA, ACK, `tftpd_cb` | writes EFC1, signals PCLUPD or FWUPG |
| flash bank EFC1 (`my/efc.c`) | the flash, its write buffer, `efc_counter`, `enable`, `ip_addr` | stream and page writes, erase, commit, length search, settings, copy to EFC0 | shared by tftpd on the network thread, `pcl_load` and PCL commands on main, start |
| Picol frames and control flow (`pcl/picol.c`) | `callframe`, `level`, return codes | procedure call, `uplevel`, `catch`, `if`, `while`, `for`, `foreach` | every evaluation |
| Picol variables (`pcl/picol.c`) | the lists of the frames | `set`, `incr`, `append`, `lappend`, `global`, `variable`, `unset`, parameters | every evaluation; `DEV` is read by the shell |
| Picol text, lists, values (`pcl/picol.c`) | the parser's position | tokens, words, list parsing and quoting, list and string commands, `switch`, arrays | every evaluation |
| VFD menu (`btn/vfd.c`), which no build of the Makefile has | menu and selection, items | `vfd` commands of scripts, periodic update by main | `pcl_exec`, from main without the mutex and from scripts with it |
| PCL hardware commands, drivers (`pcl/pcl_sam.c`, `my/spi1.c`, `my/uart1.c`, `my/gpio.c`) | chip-select and mode registers, message and loop thread of each bus, saved settings | `spi`, `uart`, `temp`, `gpio`, `efc`, `timer` | loop threads beside the command; the flash |
| watchdog thread, button interrupt | none that is shared | blink; signal BTN | event flags, join |
| utilities (`my/util.c`, CRC, MD5, code page) | none | conversions | pure |

What is hard here:

* **Two threads and no lock on `pcl_str`.** A command typed in telnet goes to the main
  thread in a global string, with event flags for "go" and "done" and a two-second limit.
  Only the order of steps, and the priorities, keep the string alive.
* **An event-driven server on a stack without buffers.** uIP forgets what it sent; telnetd
  must produce it again, and must count what uIP really sent.
* **A session flag tested by whichever event comes next**, of whichever connection.
* **A stateless-looking file protocol with one global transfer**, retries, duplicates and
  a reboot into what was received.
* **A file length that is not stored** but found by looking for the last byte that is not
  blank.
* **Frames dropped by "the current one"** instead of by the one a call made.
* **Variables that are links**, which every command has to follow by itself.
* **A mutex that its owner cannot take twice**, and a menu that evaluates scripts from
  inside scripts.
* **One write buffer for all settings pages**, filled by some commands and committed by
  others, and by the TFTP server on another thread, which does not take the mutex.
* **Loop threads that keep using a message and a bus** which the next command rewrites.
* **Ticks that wrap**, and a loop that comes round late.
* **Text that is read in pieces**: a script in chunks, commands rebuilt as lists and parsed
  again.

What makes each component correct: the string main evaluates is the one WebThread waits for,
and every allocation is freed once (hand-off); output arrives complete and in order, at most
one client is served, and the server is free again afterwards (telnet); only a whole image
is installed, what was accepted is installed, and the board's address survives (TFTP and
flash); a script works in the frame it was started in, no loop swallows an error, and a
value set through a link is seen through every other (Picol); a list gives back the words it
was made of and a script cut into chunks runs as the whole (text); a script hangs in the
menu, and main behind it, only where a value has to be shown (VFD); what was saved is there
after any other command, a TFTP write and a restart (settings); a transfer has the bus to
itself in its mode (buses); a timer fires neither early nor late (ticks). The hazards behind
these, with their lines, are in `PROJECT.json`.

## Modules

| module | models | abstracts |
|---|---|---|
| `CommandService` | what the shell promises: a line is accepted, evaluated once, answered with its own result | everything below |
| `PclExec` | main's loop, `pcl_exec`, `pcl_exec2`, callbacks, shutdown, watchdog, button | text to "line c", "output of c", "garbage"; an evaluation to begin, sleep, end |
| `Telnetd` | telnetd and the shell's line handling, with uIP's retransmission around it | lines to numbers, all of length one |
| `Efc` | `efc.c` as functions of the bank's content | a bank of 8 pages of 4 bytes |
| `Tftpd` | tftpd, main's reaction, clients and a faulty network; extends `Efc` | CRC to the bytes themselves, the two UDP connections |
| `PicolFrames` | calls, recursion limit, `uplevel`, `catch`, control flow and return codes | scripts to "any command" |
| `PicolVars` | variables and links in those frames; extends `PicolFrames` | values to small numbers |
| `PicolText` | tokens, words, list elements and quoting, as operators | backslashes and `{*}` |
| `Script` | `pcl_load`: a script in chunks; extends `PicolText` | a command to "runs" or "fails" |
| `PicolValues`, `PicolCalls` | list, text, array and number commands as operators; every call with small arguments | numbers to integers |
| `Vfd` | the menu as scripts of either thread move it, main's update, and the mutex | the items to their number |
| `Ticks` | the script's timer by the tick counter | |
| `Serial` | `spi`, `uart`, `temp` and their loop threads | a transfer to its begin and end |
| `Settings` | the settings pages, their write buffer, erase on either thread, TFTP writes, power cuts | a page to one word |
| `Commands` | the five modules above that PCL commands drive, in one specification | |
| `MC*` | instances for TLC | |
| `PclExecProofs`, `TelnetdProofs`, `TftpdProofs`, `VfdProofs` | proofs about the module of that name | |
| `PicolProofs` | proofs about `PicolFrames` and `PicolVars` | |
| `DeviceProofs` | proofs about `Ticks`, `Serial`, `Settings` and `Commands` | |
| `TextProofs` | proofs about `PicolText` and `Script` | |
| `ValuesProofs` | proofs about `PicolText`'s lists, `PicolValues` and `PicolCalls` | |

### PclExec

`mainPc` is the place in the loop of `main()`: `top` (before `pcl_try_timer_cb`), `wait`
(`chEvtWaitAnyTimeout`), `batch` (handling the flags in `batch`, in the order of the
`if`s), `lock`/`asleep`/`eval` (inside `pcl_exec` or `pcl_load`, for the `job` at hand),
`publish` (the `free`/`strdup`/signal of lines 150-153), `bootcb`, then the shutdown of
lines 200-220. `webPc` is the place of WebThread: `loop` (dispatch), the statements of
`pcl_exec2` (`free` to `clear`), the return to the shell (`prompt`), an evaluation of its own
for TFTP (`lock`, `eval`), `dead`, and `wild` for a jump through `evhndl` beyond its end.

Scheduling: main has NORMALPRIO, WebThread LOWPRIO. ChibiOS is strictly preemptive, so
WebThread takes a step only in states where main is blocked (`MainBlocked`), while main
takes steps between any two of WebThread's. The mutex is handed over on unlock. The heap
is a map from blocks to texts, so a stale pointer is a pointer to a free block, and
`heapFault` records a `free` of one. `HeapFull` says whether `strdup` may find no memory,
because the interpreter has used it up; then a command or its result is lost and the string
`pcl_exec2` reads is NULL. `Overrun` says whether an evaluation may outlast the
2000 ticks; the time-out of `pcl_exec2` is otherwise possible only once main has left its
loop.

### Telnetd

`lines`, `numsent`, `buf`, `sstate`, `rport` are the fields of the session. `phase`, `rx`
and `owed` are the call in progress: bytes of the segment not read yet, lines the shell
has still to print. `count` and `content` are the memb pool, `count` below zero a block
freed twice. `inflight` and `arrived` are uIP's side: the segment outstanding, and whether
the client has it. uIP's rules the model relies on: an event is reported only for a live
connection; polls only with nothing outstanding; `uip_send` in a retransmission sends as
many bytes as before; `uip_close` is ignored in a retransmission; a closed event is
reported for both ends of the handshake; FIN_WAIT_2 expires without a call.
Environment constants (`Pipelining`, `EarlyFin`, `Overlap`, `Unwatched`, `Aborts`,
`MainQuit`) say which clients and which network a run admits.

### Efc and Tftpd

`Efc` is stateless: `WriteData`, `GetLength`, `Prepare` and so on take the content of the
bank and return the new one. A page command leaves the write buffer blank, which the code
itself relies on (`efc.c:244`, `efc.c:282-287`). `Tftpd` keeps `tfs`, the bank, the running
firmware, main's event flags and a set of packets in each direction. A client is the common
`tftp` program `fwupg.sh` calls: it waits for the acknowledgement of its block, repeats its
last packet, and gives up in the end. `Settled` says the board has finished with the last
transfer; `Impatient` clients do not wait for it. A script name is accepted, as is a
CRC-named image, and a read of either bank (`Gets`); a request that is refused ends the
transfer in progress all the same. Other names run a PCL command put together from an
uninitialised buffer (`tftpd.c:149`, whose arguments are in the wrong order), so either
outcome is possible.

A block to send is as long as what is left, counted without a sign as in `tftpd.c:180`: with
`start` beyond `end` it is a whole segment of what lies behind (`MemoryAt`, `Beyond`).
`WriteData` places the bytes that wait in `efc_databuf` by `efc_counter`, also where that
does not fit the offset.

A variable `faulty` says from the start whether the network of a behaviour loses, repeats
and duplicates packets. Without faults one client stores, reads and is refused what the
configuration names. With them two clients store files, one after the other: a client waits
until the board has finished with the one before (`Settled`), so none cuts into a transfer
of another; what a second request does to a transfer is exercised by those repeated or
delivered twice.

### PicolFrames and PicolVars

The C stack is the sequence `stack` of activations: a procedure, `uplevel`, `catch`, the
test or body of a loop, or `eval` for every command that only passes the code on. `own` is
the frame a procedure made, or the one `uplevel` saved in `cf`; `at` is the frame the
script of the activation is meant to work in. `rc` is the return code: while it is `ok`
the script in progress starts any command or ends, any other code ends it and the command
that evaluated it decides (`While`, `For`, `Foreach`, `If`, `LeaveProc`, `LeaveCatch`; the
differences between the loops, such as `for` swallowing `return` and `foreach` passing
`break` on, are the code's). `refused` remembers that the recursion limit was hit.

`PicolVars` gives each frame a value, no value (`ABSENT`) or a link (`LINK`: `val` is NULL)
for each name. Commands follow links or not as the code does; `append` and `lappend` on a
link, and a write to a link in the top frame, end in `fault`.

### PicolText, Script, PicolValues, PicolCalls

Text is a sequence of characters. `GetToken` is `picolGetToken` with its parse functions,
`Commands` the words `picolEval2` makes of the tokens, `Elements` and `LAppend` the list
parser and the `LAPPEND` macro. `Chars` is what scripts and words are made of: blanks and
braces, and any others but the characters the parser treats in a way of their own
(`Marks`). `Script` runs `pcl_load` over every script of up to `MaxFile` characters of
`Uploaded` and lets each chunk run or fail. `PicolCalls` makes one call of one command with
every argument of a set (`Words`, `Cases`, `Letters`, `Indices`, `Numbers`, `Amounts`,
`Digits`), and `ValuesAgree` compares the result with what the command means, said of words
and positions and not of text. Loops of the code are recursive functions over a range of
numbers (`after`, `body`, `best`): one value for each turn.

### Vfd

The Makefile leaves `VFD` undefined; the module is about a build with it. Buttons are no part
of it: the mask `main()` waits with (`main.c:131`) has none of their events, and `vfdmask`
and `vfd_irq_init()` are declared nowhere, so `main.c:181-195` cannot run. The menu is moved
by the `vfd` commands of scripts, which run with the mutex (`owner`), and main looks at it in
`vfd_menu_try_update()` without. A thread that calls `pcl_exec` from `vfd.c` is in `waits`;
if it is the owner it is `Hung`, for ChibiOS does not let an owner take its mutex again.

That decides what can happen at all. The first `vfd right` that enters a menu draws an item,
evaluates the item's script, and so hangs: the menu is never below its top level but for a
hung script (`MenuStaysAtTop`). What `vfd.c` does at an item, with an edit and in the rest of
the update is therefore left out. Main goes to wait only in `vfd_menu_try_update()`, for a
script of the network thread that has hung at a monitoring item.

### Ticks, Serial, Settings

`Ticks` is `pcl_try_timer_cb`; it counts modulo `Wrap` and lets the main loop come round up
to `Pass` ticks late; the histories `since` and `due` count without a wrap. Of the two places in
`vfd.c` that compare ticks one is never reached, and the other does not come back from its
first update (see `Vfd`). `Serial` splits a command at the
points where a loop thread can be between: mode set, loop told to end, loop ended, message
written, transfer ended. `want` is the mode each slot was left with by a command that sets
modes. `Settings` has the pages the gpio, spi and efc commands write; `latch` is the write
buffer the controller shares among pages. A command stores (`job`) and commits in two steps,
an erase and the write back of the address are three. Commands run on main; the network
thread erases, writes back and fills the same buffer for a TFTP write without `pcl_mtx`, and
may come in at each of these points (`mixed` remembers that it did), as main may in the
network thread's erase: an `efc ipaddr` meanwhile reads the default from the erased bank, and
the write back stores that. Power may fail at each point too, and inside a page command,
between the erase of the page and its programming (`Restart`).

`Commands` is the sum of `Ticks`, `Serial`, `Settings`, `Script` and `PicolCalls`: `part`
says which of them a behaviour is about, the others do not move. They share no variable in
the code, and a run of one is one of the sum.

## Runs

All runs finish within two minutes with two workers, most in seconds.

| run | asks | instance and bounds | result |
|---|---|---|---|
| `PclExec` | types, the string under evaluation, the heap, stray answers; answers, reboot, refinement of `CommandService` | 2 commands, 2 blocks, a heap that suffices, 1 button press, every callback, TFTP evaluations, shutdown at any time | holds, 351 000 states |
| `PclExecStuck` | an evaluation that never wakes, or a full heap, does not hang the network | 1 command, overruns, `strdup` may return NULL, no TFTP evaluations | holds, 64 000 |
| `TelnetdPolite` | pool, order, completeness, exit, lock-out | 2 clients in turn, 3 blocks, 2 lines a segment, buffer 2, 2 segments typed each, a callback's line | holds, 20 000 |
| `TelnetdOverlap` | at most one client served | 3 clients, every environment flag TRUE | holds, 2.5 million |
| `TelnetdExitHonoured` | "exit shell" | 1 client that types ahead | violated |
| `TelnetdOutputShown` | "print a string to the shell window" | 1 client that types ahead | violated |
| `Tftpd` | stored, read back, loaded, installed, address kept; only whole images installed | without faults 1 client, 7 files and 4 kinds of read; with up to 3 faults 2 patient clients in turn; 3 transfers | holds, 19 000 |
| `TftpdLength` | what was accepted is installed | images of 1 to 12 bytes | violated |
| `Picol` | frames, errors, links | limit 1, 3 frames (symmetric), depth 3, 1 name, values 1 and 2 | holds, 401 000 |
| `PicolLimit` | the frame at top level | limit 1, 4 frames, depth 4 | violated |
| `Commands` | timers, buses, settings, script chunks, values | below | holds, 1.0 million |
| `Vfd` | where a script hangs, and main behind it | up to 4 monitoring items, any scripts of both threads | holds, 134 |

Why the bounds are enough: two commands and two blocks let one command meet the remains of
the one before it and let a freed block be used again; a queue of three with segments of two
makes the pool run out, makes a line not fit the segment, and makes blocks be reused; a
buffer of two makes a line end at its size; pages of four bytes and blocks of eight put two
pages in a block; the files of `Tftpd` are shorter than a page, than a block, and longer
than one and than two blocks, and end on the first two bytes of a page, where the length
search finds the end; `TftpdLength` has every length up to three pages; three transfers let
one meet the remains of two others; a limit of one and a depth of three or four let an
uplevel, a loop or a catch lie between the refused call and the top, and two frames besides
the top one have links of their own to one global. In `Commands` a wrap at 11 ticks with
periods of 2 and 3 and rounds of up to 2 ticks lets a timer be due before, at and after the
wrap, and lets the loop step over the ticks in which it would see it due; slaves 0, 1 and 16
are two that share a chip-select register and one on the other bus, two modes let a command
change one and have to put it back; one pin and one spi device have pages of their own
beside the address, and 1 and 2 are a level that is stored and one that is not; two
addresses let one be refused after another; a script of six characters holds two commands
and a blank line, in braces or not; words of up to four characters and lists of up to three
words have every kind of element (empty, plain, with a blank, braced). In `Vfd` the number
of monitoring items is without consequence beyond one.

`PclExec` with `HeapFull` TRUE has 1.15 million states, too many for its liveness properties
in a run of minutes; all its properties but `ServiceSpec` hold there as well, and the
invariants are proved for either value. `ServiceSpec` needs memory enough: a line `strdup`
has no room for is not evaluated.

Each property of a passing run is also checked against a mutant of the code that breaks it
(`PROJECT.json`, "mutants"; the mutated operators stand before the ones they replace).
`Commands` and `Vfd` switch the deadlock check off: a script that is loaded is over, a call
is made once, and a hung board is what `HangsAtValues` is about.

Things that hold only for the environments named above, because the code does not defend
itself: `PoolExact` and `NoLockout` for clients that come in turn; `ExitHonoured` and
`OutputShown` for clients that wait for the prompt; `InstalledImageIsWhole` for clients
that wait for the restart and a network that keeps order (a WRQ in the two seconds before
the copy erases what is about to be copied); `EvaluatedLineIsHeld`, `NoDoubleFree`,
`MailboxReleased`, `NoStrayPclEvent` and `ServiceSpec` while no evaluation outlasts the 2000
ticks; `NetworkOutlivesEval` while no TFTP request evaluates; `ConfigKept` while commits are
on and files end below the settings; `ScriptIsLoaded` and `WrittenIsRead` for one client on
a calm network.

Exclusions a property itself names are places where the code does something else than the
command's name says; each is in the comment of its property:

* `HangsAtValues`: a `vfd` command in a script that comes to an item, and every `vfd ctrl`,
  hangs the board.
* `OwnFrame`, `FramesAreCalls`: only until the recursion limit was hit (finding 4).
* `WritesAreRead`: not `append` and `lappend` on a link, nor a link in the top frame.
* `TokensAgree`: not a script with a blank line inside braces or after a blank, where
  `pcl_get_chunksz` cuts a command in two.
* `ValuesAgree`: `lindex` and `linsert` past the end, `lset` just after it, `lreplace` of a
  range that is empty or begins past the end, `concat` of a word that begins with a blank,
  `split` with a field shorter than one before it, `switch` where a body reads like a
  pattern, glob patterns with a star in the middle or a question mark between two stars or
  past the end of the text, `string range` from 0, a third key in a bucket, three arguments
  of `max`, `max` and `min` if the byte at address 0 is zero (`strlen(argv[0] == 3)` in
  `pcl_sam.c:912` reads it, and the arguments are then skipped), bytes in hexadecimal with a
  character from `:` to `@`, or where digits happen to follow the two that `strtoul` gets
  without an end (`util.c:185`), rounding of negative numbers without decimals, pin 31.
* `BusAsAsked`: `temp` selects its slave while a loop thread still uses the bus.
* `SettingsKept`: an address is lost to a commit by hand, to an erase while commits are off,
  or when `ip_addr` has become another one (an address that was refused, or the default that
  `efc ipaddr` reads from the erased bank), and to a power failure during an erase or a
  commit of its page; a saved level to an erase, a commit by hand, the end of a TFTP write,
  which programs every page behind it, and a power failure in a commit of its page; both
  when the two threads are in the write buffer together.
* `PeriodsKept`: a second round of the loop in the tick `timer_cb` returned; and a period
  may take twice as long, and three rounds, when the counter wraps: `pcl_try_timer_cb`
  begins it again at 0, and the ticks between the end of the first one and the wrap can
  fall between two rounds. Rounds of one or two ticks would suggest a tighter bound; with
  rounds of four, three are needed.

## Fairness

* `PclExec`: weak for main (highest of the two priorities, its evaluations end) and for the
  watchdog thread; strong for WebThread, which is runnable again and again because main
  waits in every turn of its loop. In `StuckSpec` a sleeping evaluation need not wake.
* `Telnetd`: weak for the call in progress, for polls (the 500 ms timer), for delivery of
  the outstanding segment and of its acknowledgement, and for the end of a closing
  handshake. None for new input, new clients or retransmissions.
* `Tftpd`: weak for the server, for main and for clients hearing what has arrived. None
  for repeats.

A run other than `Commands` and `Vfd` checks for deadlock: a state without a step is an
error unless the board has reset (`Halted`, `Over`) or every client is gone (`Quiet`).

## Proofs

Every safety property of the passing runs is proved, for every value of the constants.
The proofs are inductive: an invariant that implies the property is kept by every step.
They assume what the modules' `ASSUME`s say of the constants and, where a theorem says so,
one of these conditions, which are those of the runs:

| condition | on | why it is needed |
|---|---|---|
| `~Overrun` | `PclExec` | an evaluation that outlasts the wait takes `pcl_str` from under `pcl_exec2` |
| `~HeapFull` | `PclExec`, `ServiceImplemented` only | a line for which there is no memory is not evaluated |
| `KeysDiffer` | `Telnetd` | what line 344 compares must tell connections apart |
| `Polite` | `Telnetd` | clients come in turn, wait for the prompt and stay until it |
| `ExitAlone` | `Telnetd` | output of what comes before `exit` in its segment can be retransmitted, finding 1 |
| `Patient` | `Tftpd` | order is kept, clients wait for the restart |
| `Enabled`, `FilesFit` | `Tftpd` | an erase writes the settings back only while commits are on; a file that reaches them replaces them |
| `EndsInPage` | `Tftpd` | finding 3 |
| `WholePages` | `Tftpd` | 512 bytes of a block are two pages of 256 |

`PclExecProofs`:

* `TypeCorrect`: `Spec => []TypeOK`, for any commands, heap, callbacks and number of
  presses, overruns and a full heap or not.
* `HandoffInvariant`, from it `LineHeld`, `MailboxSafe`, `MailboxEmptied` and `NoStray`
  (`~Overrun`, the heap full or not). The properties are not inductive: that no answer is
  stray depends on CMDSTART being pending only while WebThread waits. `HandoffInv` adds who
  owns the one live block (`OwnInv`: `pcl_str` from the `strdup` to the last `free` of
  `pcl_exec2`, nobody otherwise), where the one CMDSTART is (`CmdInv`, `BatchInv`: pending,
  or in main's batch, or in its evaluation, and then unanswered) and that there is one
  answer at a time.
* `ServiceImplemented` (`~Overrun`, `~HeapFull`): the initial states are initial states of
  `CommandService` and every step is a step of it or a stutter, under the refinement mapping
  of the run. `RanInv` ties the history of evaluations to the place of the command in the
  two threads. The fairness of the service is left to the run.

`TelnetdProofs`:

* `ArraysHold`: `Spec => []TypeOK`, whatever the clients and the network do.
* `OneServed` (`KeysDiffer`), for any environment. `PortInv` adds the type of `st`.
* `NextIsAccepted`, `PoolIsExact`, `OutputKeepsOrder` (`Polite`). `SessInv` says who is
  connected and what the server believes of it; `PoolInv` that a block is allocated exactly
  while it is queued, and queued once; `SegInv` that the outstanding segment is made of the
  first lines of the queue, so a retransmission builds the same one; `OrderInv` that what
  the client has seen, what is on its way and what is queued are consecutive lines.
* `ExitIsFinal` (`Polite`, `ExitAlone`). `QuitInv`: after `exit` nothing is queued, on its
  way or still to be printed, so the request to close stays until the next event.

`TftpdProofs`, which also has the lemmas about the functions of `Efc` (a page write, the
length search, an erase with its write back, the write buffer):

* `TypesHold`: the types of `Tftpd`, and that less than a page waits in `efc_databuf`, so
  that the buffer does not overflow; on any network. It says nothing of what a read sends: a DATA
  packet in the middle of a read can move `start` beyond `end`, and then memory behind the
  file is sent, and behind that.
* `InstalledIsWhole` (`Patient`). `TransferInv` has what the packets under way say of the
  transfer in progress; `CrcInv` that while an image is expected nothing is read, and that
  no request comes between its last block and the comparison; `ChosenInv` that what was
  found equal is left alone until it is copied.
* `SettingsSurvive` (and `Enabled`, `FilesFit`): the lemmas show that an erase writes the
  settings back and no block reaches them; `CalmInv` that the client and the server are at
  the same block.
* `ReadBackIsWritten`, `WrittenIsInstalled` (and `EndsInPage`, `WholePages`). `ContentInv`
  says that after n bytes the pages written and the write buffer are the first n bytes of
  the file, and the rest is blank; `LengthIs` that the length search then finds n,
  `StoreHolds` and `ReadBlock` that a block is stored and read as it was sent.

`PicolProofs`, for any frames, recursion limit and depth:

* `ScriptsStayInFrame`, `FramesAreGivenBack`: `OwnFrame` and `FramesAreCalls`, until a call
  is refused. What `LeaveProc` makes current is the parent of the current frame, so one has
  to know of every activation below that it remembers its caller's frame, or has left the
  frame alone (`Nested`), and that a frame has one owner and is in use exactly while it has
  it (`Owned`).
* `FramesStayLive`: `FramesLive`, after refused calls too. Then the stack and the frames no
  longer match: a call that returns drops whatever frame is current. The argument counts.
  An uplevel begins a stretch of the stack; `LiveInv` says that there is a set of frames in
  use with their callers, each with the number of its stretch and a rank in it, such that
  the current frame, and each one an uplevel will go back to, has at least the rank of the
  calls still to end in its stretch. So the last of them at most ends in the stretch below.
  `Ancestor` climbs by a recursive function; `AncestorIn` shows by well-founded induction
  on the levels that it does not leave a set closed under callers.
* `ErrorsAlwaysSeen`, `VarsKeepFrames` (every behaviour of `PicolVars` is one of
  `PicolFrames`) and `WritesAreSeen`: links are resolved in the frame without a caller, and
  that this is a frame, after refused calls too, follows from `LiveInv` (`RootIsFrame`).
* `FieldsAreTyped`: `TypeOK` of `PicolFrames`, again by `LiveInv`: what a return or the end
  of an uplevel makes current is a frame in use.

The others:

* `SettingsAreKept`, for any pins, devices, values and addresses. The property says nothing
  of the bank while it is erased and nothing of the write buffer. `JobLatch` adds that what a
  thread has stored is in the buffer until it commits, unless the other one has used it;
  `JobBack` that what a write back has stored is the address that is counted on.
* `BusHolds`, for any slaves, modes and texts. `WireOwned` adds that a command transfers
  only after its loop thread has ended, `Selected` when `temp` may have taken the slave from
  a loop, `ModeRemembered` what the running command remembers of the mode it will put back.
* `TopOrHung` and `HangsWhereShown`, of `VfdProofs`, for any number of items. `WaitInv` adds
  that the network thread asks only as the owner of the mutex, after which it is hung and
  moves the menu no more, and that main waits in the update only for such a thread.
* `PeriodsAreKept`, for any width of the counter, any lateness of the loop, and periods
  below half a turn. `CountInv` says that a history is no less than the way round from the
  tick it began at. `DueInv` follows the round before: the ticks at which the loop does not
  see a period over form two ranges, from `ts` and from the wrap, and it can step over one
  of the gaps between them but not over both.

* `CommandsAreParts`: every behaviour of `Commands`, the specification of the run, is one of
  each of its five parts, so the theorems about `TickSpec`, `SerialSpec`, `SettingsSpec`,
  `ScriptSpec` and `CallsSpec` hold of it; `CommandsKeep` says so of the first three.

`TextProofs` and `ValuesProofs` are about recursive functions, for texts, lists and scripts
of any length. The library's induction theorems cannot be instantiated here, because they
take a predicate as a parameter; `Induct` takes a set of numbers instead, and every
induction defines the set of the numbers for which what it shows holds. A function is first
shown to exist (`StepsExist`, `PiecesExist`, `Recursion`), then used by its equation.
Operators that choose a place (`Skip`, `UpTo`, `BraceEnd`, `ElementEnd`) come with a
predicate that only the chosen place fits (`SkipSpec` to `EndSpec`).

`TextProofs`:

* `ScriptWhole`: `ScriptSpec => []TokensAgree`, for scripts and buffers of any length.
  `ScriptInv` says that while loading goes on, what ran and the commands of what is left
  are the commands of the whole (`Loads`). That needs three facts of the parser. Newlines
  before a command are passed over (`NewlinesPassed`). A token that ends before a blank or
  a newline is the same whatever follows (`GoodToken`). So a script cut at a blank line
  outside braces has the commands of the one part and then of the other (`CutIsSplit`), and
  a chunk is such a part (`ChunkIsSplit`). `Halts` shows that `Commands` takes enough turns
  for every script: each turn takes a character, and two end it.

`ValuesProofs`:

* `ListFaithful`: a list of any storable words is read back, by `FOREACH` as its elements
  and by the interpreter as the words of one command. `ItemFacts` says that a word as
  `LAPPEND` writes it is never outside braces at a blank, `ElementsConcat` that two lists
  with a blank between them have the elements of both, `ReadsAppend` that one more word in
  the text is one more word of the command.
* `ValuesRight`: `CallsSpec => []ValuesAgree`, for any words, texts, patterns and numbers
  the constants allow, and lists and texts up to any bound. `CallsRight` has a step for
  each command. Each rests on a lemma about the operator, which holds for all arguments and
  not for those of `PicolCalls` only: the list commands by what a loop over the elements
  leaves (`FlatAround`, `FlatWithin`; `LrangeIs`, `LreplaceIs`, `LinsertIs`, `LsetIs`,
  `ConcatIs`), `split` by following one field from separator to separator (`WordRead`,
  `SplitIs`), `switch` by induction from the last body back (`SwitchIs`), patterns by what
  each prefix of them can match (`ReachedIs`, `MatchIs`), `string last` by mirroring both
  texts (`LastIs`), arrays by the invariant that a bucket of two keys has the newest value of each
  (`BucketIs`), `max`, `interpolate` and the conversions by arithmetic (`MinMaxIs`,
  `ThroughIs`, `InterpolateIs`, `TenthsIs`, `BytesIs`, `DrivenIs`).

Model-checked only: liveness (`CommandAnswered`, `RebootHonoured`, `NetworkOutlivesEval`,
`ExitHonoured`, `OutputShown`, `ScriptIsLoaded`, the fairness of `CommandService`), which
the temporal prover does not do under fairness; and what needs `ENABLED`, such as the
absence of deadlock.

## Findings

1. *exit lost* (`telnetd.c:335`, `TelnetdExitHonoured`): a retransmission event uses
   `STATE_CLOSE` up.
2. *output lost* (`telnetd.c:168`, `TelnetdOutputShown`): a line queued while a segment is
   outstanding is counted as sent.
3. *image not installed* (`efc.c:362`, `TftpdLength`): the length search never sees the
   last two bytes of a page.
4. *top-level frame lost* (`picol.c:513`, `PicolLimit`): the recursion limit returns with
   the new frame current.

## Not modelled

* Of Picol: backslashes and `{*}`; `expr` and the arithmetic commands; `format`, `scan`,
  `clock`, `info`, `interp`, `rename`, `lsort` and the file commands. They compute on
  strings and C numbers without shared state.
* Of the menu: the buttons and their filter, which `main()` does not wait for; edits, lists and
  the redraw, which lie behind a wait that does not end.
* The value of `DEV` the prompt shows (`shell1.c:152`): a callback may replace it between the
  look-up and its use, so no property about it holds.
* The two UDP connections of tftpd, and what a read that begins during another client's
  transfer does to it on a faulty network.
* Of the hardware commands: `adc`, `mdio`, `pio`, `sys`, and the conversions `int`, `hex`,
  `ord`: a register access or a conversion each.
* CRC and MD5 (`Tftpd` takes the CRC to tell images apart), the code page, the layout of
  the display.
* `telnetd.c:88`: the static loop variables of `sendline` and `shell_output`, which both
  threads use: `Telnetd` queues a line in one step. Whether `malloc` of two threads
  interleaves (`main.c:150`): its structures are newlib's.
* `rx.c` and `tx.c`, whose start is commented out; `multiapp.c`, a choice by port; board
  files, linker script and kernel options, which have no behaviour of their own.
* uIP, memb, newlib's heap, the flash controller and ChibiOS are external and modelled
  from their use.

## Plan

Done: `CommandService`, `PclExec`, `Telnetd`, `Efc`, `Tftpd`, `PicolFrames`, then `Vfd`,
`Ticks`, `Serial`, `Settings`, `Script`, `PicolText`, `PicolVars`, `PicolValues`,
`PicolCalls`, `Commands`; the proofs of every safety property, `TokensAgree` and
`ValuesAgree` last. `CommandService` without its fairness is proved to be implemented by
`PclExec`.

No theorem states the types of the variables of `Vfd`, `Serial` and `Settings` by
themselves; they are part of the invariants.

Open in the model: `LineBuffer`, `shell_output` from two threads at the grain of its static
variables; `Board`, hand-off and TFTP composed through main's loop and the flash.
