---------------------------- MODULE DeviceProofs ----------------------------
(***************************************************************************)
(* Proofs about the devices the commands reach: the timer (Ticks), the     *)
(* buses (Serial) and the settings in flash (Settings), and that the       *)
(* commands taken together (Commands) are those parts.                     *)
(***************************************************************************)
EXTENDS Commands, TLAPS

-----------------------------------------------------------------------------
(***************************************************************************)
(* Proofs about Ticks, for any width of the tick counter, any periods,     *)
(* however late the main loop comes round and however long timer_cb takes. *)
(*                                                                         *)
(* The histories count without a wrap, the code compares ticks that have   *)
(* wrapped.  Since what those two have to do with each other is lost after *)
(* a whole turn of the counter, the invariants say no more than that the   *)
(* history is no less than the way from one tick to the other, and in the  *)
(* same tick either nothing or a turn.  How long the timer may be late     *)
(* needs the place of the round before: see DueInv.                        *)
(***************************************************************************)

(* The ticks from a to b, the counter wrapping at most once. *)
Dist(a, b) == IF b >= a THEN b - a ELSE b - a + Wrap

(* A history that began at tick a, n ticks ago. *)
Counts(a, n) == n = MaxSince \/ (n >= Dist(a, tnow) /\ (tnow = a => n = 0 \/ n >= Wrap))

TypeInv ==
  /\ tnow \in 0..(Wrap - 1) /\ ts \in 0..(Wrap - 1)
  /\ timer_dt \in Periods \union {0} /\ late \in 0..Pass
  /\ since \in 0..MaxSince /\ due \in 0..MaxSince
  /\ fired \in -1..MaxSince

(* since counts from ts, and a run of timer_cb that this round made was    *)
(* not early.                                                              *)
CountInv ==
  /\ Counts(ts, since)
  /\ fired <= 0 \/ fired >= timer_dt

(* The tick of the last round of the main loop. *)
Came == Dist(late, tnow)

(* Where the loop does not see the period over: from ts on, and again from *)
(* the wrap on.                                                            *)
Early(p) == (ts < p /\ p < ts + timer_dt) \/ (p <= ts /\ p < timer_dt)

(* How much can be due in a round at tick p that does not run timer_cb.    *)
(* The two ranges of Early lie apart before and after the wrap; the loop   *)
(* can step over one of the gaps between them, not over both, or it would  *)
(* go round for ever: that is what the assumption on Wrap is for.          *)
AtMost(p) ==
  IF ts + timer_dt + Pass > Wrap THEN Dist(ts, p) + Pass
  ELSE IF ts < timer_dt + Pass \/ p <= ts THEN p + Pass
  ELSE p - ts + Pass

(* The period was set after the last round, or that round came too early. *)
DueInv ==
  timer_dt # 0 => due <= late \/ (Early(Came) /\ due - late <= AtMost(Came))

TickInv == TypeInv /\ CountInv /\ DueInv

-----------------------------------------------------------------------------
(* The counter goes on, or begins again at 0. *)
LEMMA Wraps ==
  ASSUME NEW t \in 0..(Wrap - 1), NEW d \in Nat, d < Wrap
  PROVE  (t + d) % Wrap = IF t + d < Wrap THEN t + d ELSE t + d - Wrap
<1>1. Wrap \in Nat /\ Wrap > 0
  BY TicksAssumption
<1>2. CASE t + d < Wrap
  BY <1>1, <1>2
<1>3. CASE t + d >= Wrap
  BY <1>1, <1>3
<1> QED BY <1>1, <1>2, <1>3

(* The bounds of the constants, for the period in force. *)
LEMMA Bounds ==
  ASSUME TypeInv
  PROVE  /\ Wrap \in Nat /\ Pass \in Nat /\ Run \in Nat /\ MaxSince \in Nat
         /\ Pass < Wrap /\ Run < Wrap
         /\ timer_dt \in Nat
         /\ timer_dt # 0 =>
              2 * timer_dt + 3 * Pass < MaxSince /\ 2 * timer_dt + 2 * Pass < Wrap
BY TicksAssumption DEF TypeInv

(* A history that goes on with the counter still counts. *)
LEMMA CountsOn ==
  ASSUME NEW a \in 0..(Wrap - 1), NEW n \in 0..MaxSince, NEW d \in Nat, d < Wrap,
         tnow \in 0..(Wrap - 1), tnow' = (tnow + d) % Wrap, Counts(a, n)
  PROVE  /\ Count(n, d) \in 0..MaxSince
         /\ \/ Count(n, d) = MaxSince
            \/ /\ Count(n, d) >= Dist(a, tnow')
               /\ tnow' = a => Count(n, d) = 0 \/ Count(n, d) >= Wrap
<1>1. Wrap \in Nat /\ MaxSince \in Nat
  BY TicksAssumption
<1>2. tnow' = IF tnow + d < Wrap THEN tnow + d ELSE tnow + d - Wrap
  BY Wraps
<1> QED BY <1>1, <1>2 DEF Count, Counts, Dist

(* The invariant holds at the beginning. *)
LEMMA TicksBegin == TickInit => TickInv
BY TicksAssumption DEF TickInit, TickInv, TypeInv, CountInv, DueInv, Counts, Dist

(* The types, in a step. *)
LEMMA TypeStep ==
  ASSUME TypeInv, [TickNext]_tickVars
  PROVE  TypeInv'
<1> USE TicksAssumption DEF TypeInv
<1>1. CASE Tick
  <2>1. tnow' \in 0..(Wrap - 1)
    BY <1>1 DEF Tick
  <2> QED BY <1>1, <2>1 DEF Tick, Count
<1>2. CASE TryTimerCb
  <2>1. CASE timer_dt # 0 /\ Over(ts, timer_dt)
    <3>1. PICK d \in 0..Run : /\ tnow' = (tnow + d) % Wrap /\ ts' = tnow'
                              /\ fired' = since /\ since' = 0 /\ due' = 0
      BY <1>2, <2>1 DEF TryTimerCb
    <3>2. tnow' \in 0..(Wrap - 1)
      BY <3>1
    <3> QED BY <1>2, <3>1, <3>2 DEF TryTimerCb, Count
  <2>2. CASE ~(timer_dt # 0 /\ Over(ts, timer_dt))
    BY <1>2, <2>2 DEF TryTimerCb
  <2> QED BY <2>1, <2>2
<1>3. CASE \E dt \in Periods : SetTimer(dt)
  BY <1>3 DEF SetTimer
<1>4. CASE UNCHANGED tickVars
  BY <1>4 DEF tickVars
<1> QED BY <1>1, <1>2, <1>3, <1>4 DEF TickNext

(* A round that runs timer_cb does so when since is no less than timer_dt, *)
(* or in the tick in which timer_cb returned.                              *)
LEMMA NotEarly ==
  ASSUME TypeInv, Counts(ts, since), timer_dt # 0, Over(ts, timer_dt)
  PROVE  since = 0 \/ since >= timer_dt
BY Bounds DEF TypeInv, Counts, Dist, Over

(* The count of the timer, in a step. *)
LEMMA CountStep ==
  ASSUME TypeInv, CountInv, [TickNext]_tickVars
  PROVE  CountInv'
<1> USE DEF TypeInv, CountInv
<1>1. CASE Tick
  <2>1. 1 \in Nat /\ (Wrap > 1 \/ Wrap = 1)
    BY TicksAssumption
  <2>2. Pass >= 1 /\ 1 < Wrap
    BY <1>1, TicksAssumption DEF Tick
  <2>3. Counts(ts, since)'
    BY <1>1, <2>1, <2>2, CountsOn DEF Tick, Counts
  <2> QED BY <1>1, <2>3 DEF Tick
<1>2. CASE TryTimerCb
  <2>1. CASE timer_dt # 0 /\ Over(ts, timer_dt)
    <3>1. PICK d \in 0..Run : /\ tnow' = (tnow + d) % Wrap /\ ts' = tnow'
                              /\ fired' = since /\ since' = 0 /\ due' = 0
      BY <1>2, <2>1 DEF TryTimerCb
    <3>2. d \in Nat /\ d < Wrap
      BY Bounds
    <3>4. tnow' \in 0..(Wrap - 1)
      BY <3>1, TypeStep DEF TickNext
    <3>5. Counts(ts, since)'
      BY <3>1, <3>4, Bounds DEF Counts, Dist
    <3> QED BY <1>2, <2>1, <3>1, <3>5, NotEarly DEF TryTimerCb
  <2>2. CASE ~(timer_dt # 0 /\ Over(ts, timer_dt))
    BY <1>2, <2>2 DEF TryTimerCb, Counts, Dist
  <2> QED BY <2>1, <2>2
<1>3. CASE \E dt \in Periods : SetTimer(dt)
  BY <1>3 DEF SetTimer, Counts, Dist
<1>4. CASE UNCHANGED tickVars
  BY <1>4 DEF tickVars, Counts, Dist
<1> QED BY <1>1, <1>2, <1>3, <1>4 DEF TickNext

-----------------------------------------------------------------------------
(* From a round that came too early to the next one that does, what may be *)
(* due grows by the ticks between them at least; and it is never more than *)
(* two periods and two rounds.                                             *)
LEMMA AtMostGrows ==
  ASSUME TypeInv, timer_dt # 0, NEW p \in 0..(Wrap - 1), p = Came, Early(p), Early(tnow)
  PROVE  AtMost(tnow) >= AtMost(p) + late
BY Bounds DEF TypeInv, Came, Dist, Early, AtMost

(* The bound on the time due. *)
LEMMA AtMostBounds ==
  ASSUME TypeInv, timer_dt # 0, NEW p \in 0..(Wrap - 1), Early(p)
  PROVE  AtMost(p) \in Pass..(2 * timer_dt + 2 * Pass)
BY Bounds DEF TypeInv, Dist, Early, AtMost

(* When the timer last came. *)
LEMMA CameType ==
  ASSUME TypeInv
  PROVE  Came \in 0..(Wrap - 1)
BY Bounds DEF TypeInv, Came, Dist

(* The time due is no more than the property allows. *)
InTime == timer_dt # 0 => due <= 2 * timer_dt + 3 * Pass

(* The bound is what the property allows. *)
LEMMA DueBounds ==
  ASSUME TypeInv, DueInv
  PROVE  InTime
<1> SUFFICES ASSUME timer_dt # 0
             PROVE  due <= 2 * timer_dt + 3 * Pass
  BY DEF InTime
<1>1. CASE due <= late
  BY <1>1, Bounds DEF TypeInv
<1>2. CASE Early(Came) /\ due - late <= AtMost(Came)
  BY <1>2, Bounds, CameType, AtMostBounds DEF TypeInv
<1> QED BY <1>1, <1>2 DEF DueInv

(* The time due, in a step. *)
LEMMA DueStep ==
  ASSUME TypeInv, DueInv, [TickNext]_tickVars
  PROVE  DueInv'
<1> USE DEF TypeInv, DueInv
<1>1. CASE Tick
  <2>0. /\ late < Pass /\ late' = late + 1 /\ due' = Count(due, 1)
        /\ UNCHANGED <<timer_dt, ts>>
    BY <1>1 DEF Tick
  <2>1. Came' = Came
    <3>1. tnow' = IF tnow + 1 < Wrap THEN tnow + 1 ELSE tnow + 1 - Wrap
      BY <1>1, Wraps, Bounds DEF Tick
    <3> QED BY <2>0, <3>1, Bounds DEF Came, Dist
  <2>2. CASE due <= late
    <3>1. due \in Int /\ late \in Int /\ MaxSince \in Int
      BY Bounds
    <3>2. due' <= late'
      BY <2>0, <2>2, <3>1 DEF Count
    <3> QED BY <3>2
  <2>3. CASE Early(Came) /\ due - late <= AtMost(Came)
    <3>1. Came \in 0..(Wrap - 1)
      BY CameType
    <3>2. PICK p \in 0..(Wrap - 1) : p = Came
      BY <3>1
    <3>3. Early(p)' <=> Early(p)
      BY <1>1 DEF Tick, Early
    <3>4. AtMost(p)' = AtMost(p)
      BY <1>1 DEF Tick, AtMost, Dist
    <3>5. Early(Came)' /\ AtMost(Came)' = AtMost(p)
      BY <2>1, <2>3, <3>2, <3>3, <3>4 DEF Early, AtMost, Dist
    <3>6. timer_dt # 0 => AtMost(p) \in Nat
      BY <2>3, <3>2, AtMostBounds, Bounds
    <3>7. timer_dt # 0 => (due - late)' <= AtMost(p)
      BY <2>0, <2>3, <3>2, <3>6, Bounds DEF Count
    <3> QED BY <2>0, <3>5, <3>7
  <2>4. CASE timer_dt = 0
    BY <2>0, <2>4
  <2> QED BY <2>2, <2>3, <2>4
<1>2. CASE TryTimerCb
  <2>1. CASE timer_dt # 0 /\ Over(ts, timer_dt)
    BY <1>2, <2>1 DEF TryTimerCb
  <2>2. CASE timer_dt = 0
    BY <1>2, <2>2 DEF TryTimerCb
  <2>3. CASE timer_dt # 0 /\ ~Over(ts, timer_dt)
    <3>1. UNCHANGED <<tnow, ts, due, timer_dt>> /\ late' = 0
      BY <1>2, <2>3 DEF TryTimerCb
    <3>2. Early(tnow)
      BY <2>3, Bounds DEF Over, Early
    <3>3. Came' = tnow
      BY <3>1, Bounds DEF Came, Dist
    <3>4. due <= AtMost(tnow)
      <4>1. CASE due <= late
        BY <2>3, <3>2, <4>1, AtMostBounds, Bounds
      <4>2. CASE Early(Came) /\ due - late <= AtMost(Came)
        BY <2>3, <3>2, <4>2, AtMostBounds, AtMostGrows, CameType, Bounds
      <4> QED BY <2>3, <4>1, <4>2
    <3>5. Early(Came)' /\ AtMost(Came)' = AtMost(tnow)
      BY <3>1, <3>2, <3>3 DEF Early, AtMost, Dist
    <3>6. (due - late)' = due
      BY <3>1, Bounds
    <3> QED BY <3>4, <3>5, <3>6
  <2> QED BY <2>1, <2>2, <2>3
<1>3. CASE \E dt \in Periods : SetTimer(dt)
  BY <1>3 DEF SetTimer
<1>4. CASE UNCHANGED tickVars
  BY <1>4 DEF tickVars, Came, Dist, Early, AtMost
<1> QED BY <1>1, <1>2, <1>3, <1>4 DEF TickNext

-----------------------------------------------------------------------------
(* timer_cb comes neither early nor late wherever the counter wraps: for   *)
(* any width of it, any periods shorter than half of it, and however long  *)
(* a round and timer_cb take.                                              *)
THEOREM PeriodsAreKept == TickSpec => PeriodsKept
<1>1. TickInit => TickInv
  BY TicksBegin
<1>2. TickInv /\ [TickNext]_tickVars => TickInv'
  BY TypeStep, CountStep, DueStep DEF TickInv
<1>3. TickInv => InTime
  BY DueBounds DEF TickInv
<1>4. TickInv /\ TickInv' /\ InTime' =>
        [/\ timer_dt' # 0 => due' <= 2 * timer_dt' + 3 * Pass
         /\ fired' <= 0 \/ fired' >= timer_dt']_tickVars
  <2> SUFFICES ASSUME TickInv, TickInv', InTime'
               PROVE  /\ timer_dt' # 0 => due' <= 2 * timer_dt' + 3 * Pass
                      /\ fired' <= 0 \/ fired' >= timer_dt'
    OBVIOUS
  <2>1. timer_dt' # 0 => due' <= 2 * timer_dt' + 3 * Pass
    BY DEF InTime
  <2>2. fired' <= 0 \/ fired' >= timer_dt'
    BY DEF TickInv, CountInv
  <2> QED BY <2>1, <2>2
<1> QED
  BY <1>1, <1>2, <1>3, <1>4, PTL DEF TickSpec, PeriodsKept

-----------------------------------------------------------------------------
(***************************************************************************)
(* What the spi, uart and temp commands put on a wire is what they were    *)
(* asked for, for any slaves, modes and texts.                             *)
(*                                                                         *)
(* BusAsAsked is not inductive: that a command's transfer has the bus for  *)
(* itself rests on where the command is and what its loop thread does, and *)
(* that a slot gets its mode back rests on what the command remembers.     *)
(***************************************************************************)

Msgs == [to : Slaves \union {Empty.to}, tx : Texts \union {Empty.tx}]

SerialTypes ==
  /\ csr \in [Slots -> [mode : Modes, bits : Widths]]
  /\ mr \in [Buses -> Slaves \union {-1}]
  /\ msg \in [Devs -> Msgs] /\ sent \in [Devs -> Msgs]
  /\ loop \in [Devs -> {"none", "running", "ending"}]
  /\ wire \in [Devs -> {"none", "loop", "io"}]
  /\ pc \in {"idle", "stop", "join", "exchange"}
  /\ want \in [Slots -> Modes]
  /\ cmd.dev \in Devs /\ cmd.loops \in BOOLEAN /\ cmd.temp \in BOOLEAN
  /\ cmd.tx \in Texts \union {Empty.tx}
  /\ pc # "idle" => cmd.to \in Slaves /\ cmd.mode \in Modes /\ cmd.old \in Modes

(* Who is on a wire, and what the loop thread does meanwhile. *)
WireOwned ==
  /\ \A d \in Devs : wire[d] = "io" <=> (pc = "exchange" /\ cmd.dev = d)
  /\ \A d \in Devs : wire[d] = "loop" => loop[d] # "none" /\ msg[d] = sent[d]
  /\ pc = "exchange" => loop[cmd.dev] = "none" /\ ~cmd.loops

(* The slave selected: temp takes it from a loop only before it stops it. *)
Selected ==
  /\ pc = "idle" => ~cmd.temp
  /\ cmd.temp => cmd.dev = "spi" /\ ~cmd.loops
  /\ loop["spi"] = "running" /\ cmd.temp => pc = "stop"
  /\ loop["spi"] = "running" /\ ~cmd.temp => mr[Bus(msg["spi"].to)] = msg["spi"].to
  /\ pc = "exchange" /\ cmd.dev = "spi" =>
       mr[Bus(cmd.to)] = cmd.to /\ csr[Slot(cmd.to)].bits = 8

(* The mode of each slot: the one asked for under a command that keeps the *)
(* old one, the one it was left with everywhere else.                      *)
Keeps == pc # "idle" /\ cmd.dev = "spi"
ModeRemembered ==
  /\ Keeps => /\ csr[Slot(cmd.to)].mode = cmd.mode
              /\ cmd.temp => cmd.mode = want[Slot(cmd.to)]
              /\ ~cmd.temp => cmd.old = want[Slot(cmd.to)]
              /\ cmd.loops => cmd.mode = cmd.old
  /\ \A s \in Slots : ~(Keeps /\ s = Slot(cmd.to)) => csr[s].mode = want[s]

SerialInv == SerialTypes /\ WireOwned /\ Selected /\ ModeRemembered

-----------------------------------------------------------------------------
(* A slave has a slot, and a bus, of its own number. *)
LEMMA SlotsAre == \A n \in Slaves : Slot(n) \in Slots /\ Bus(n) \in Buses
  BY DEF Slots, Buses

(* No command, and what each command is made of. *)
LEMMA NoCommand ==
  /\ NoCmd.dev = "spi" /\ NoCmd.loops = FALSE /\ NoCmd.temp = FALSE
  /\ NoCmd.tx = Empty.tx /\ NoCmd.mode = TempMode
  BY DEF NoCmd

(* What a command assembled from NoCmd is. *)
LEMMA BusCommands ==
  /\ \A n, tx, mode, old : 
       LET c == [NoCmd EXCEPT !.to = n, !.tx = tx, !.mode = mode, !.old = old]
       IN c.dev = "spi" /\ c.to = n /\ c.tx = tx /\ c.mode = mode /\ c.old = old
          /\ c.loops = FALSE /\ c.temp = FALSE
  /\ \A n, tx, mode, old :
       LET c == [NoCmd EXCEPT !.to = n, !.tx = tx, !.mode = mode, !.old = old, !.loops = TRUE]
       IN c.dev = "spi" /\ c.to = n /\ c.tx = tx /\ c.mode = mode /\ c.old = old
          /\ c.loops = TRUE /\ c.temp = FALSE
  /\ \A n, tx, loops :
       LET c == [NoCmd EXCEPT !.dev = "uart", !.to = n, !.tx = tx, !.loops = loops]
       IN c.dev = "uart" /\ c.to = n /\ c.tx = tx /\ c.mode = TempMode /\ c.old = TempMode
          /\ c.loops = loops /\ c.temp = FALSE
  /\ \A n :
       LET c == [NoCmd EXCEPT !.to = n, !.temp = TRUE]
       IN c.dev = "spi" /\ c.to = n /\ c.tx = Empty.tx /\ c.mode = TempMode
          /\ c.old = TempMode /\ c.loops = FALSE /\ c.temp = TRUE
  BY DEF NoCmd

(* At the start nothing is commanded. *)
LEMMA SerialInitially == SerialInit => SerialInv
  <1> SUFFICES ASSUME SerialInit PROVE SerialInv
    OBVIOUS
  <1> USE SerialAssumption, NoCommand DEF SerialInit
  <1>1. Empty \in Msgs
    BY DEF Msgs, Empty
  <1>2. SerialTypes
    BY <1>1 DEF SerialTypes, Devs, Widths
  <1>3. WireOwned /\ Selected /\ ModeRemembered
    BY DEF WireOwned, Selected, ModeRemembered, Keeps, Devs
  <1> QED BY <1>2, <1>3 DEF SerialInv

(* Each command, and each step of a loop thread, keeps the invariant. *)
LEMMA SerialInvKept == SerialInv /\ [SerialNext]_serialVars => SerialInv'
  <1> SUFFICES ASSUME SerialInv, [SerialNext]_serialVars PROVE SerialInv'
    OBVIOUS
  <1> USE SerialAssumption, SlotsAre DEF SerialInv, Devs
  <1>1. ASSUME NEW s \in Slots, NEW mode \in Modes, NEW bits \in Widths, SetCsr(s, mode, bits)
        PROVE SerialInv'
    <2> USE <1>1 DEF SetCsr
    <2>1. SerialTypes'
      BY DEF SerialTypes
    <2>2. WireOwned' /\ Selected'
      BY DEF SerialTypes, WireOwned, Selected
    <2>3. ModeRemembered'
      BY DEF SerialTypes, ModeRemembered, Keeps
    <2> QED BY <2>1, <2>2, <2>3
  <1>2. ASSUME NEW n \in Slaves, NEW tx \in Texts, NEW mode \in Modes, SpiIo(n, tx, mode)
        PROVE SerialInv'
    <2> USE <1>2 DEF SpiIo, InMode
    <2>1. /\ cmd'.dev = "spi" /\ cmd'.to = n /\ cmd'.tx = tx /\ cmd'.mode = mode
          /\ cmd'.old = csr[Slot(n)].mode /\ cmd'.loops = FALSE /\ cmd'.temp = FALSE
      BY BusCommands
    <2>2. SerialTypes'
      BY <2>1 DEF SerialTypes
    <2>3. WireOwned' /\ Selected'
      BY <2>1 DEF SerialTypes, WireOwned, Selected
    <2>4. ModeRemembered'
      BY <2>1 DEF SerialTypes, ModeRemembered, Keeps
    <2> QED BY <2>2, <2>3, <2>4
  <1>3. ASSUME NEW n \in Slaves, NEW tx \in Texts, SpiLoop(n, tx)
        PROVE SerialInv'
    <2> USE <1>3 DEF SpiLoop, Start
    <2>1. /\ cmd'.dev = "spi" /\ cmd'.to = n /\ cmd'.tx = tx /\ cmd'.mode = csr[Slot(n)].mode
          /\ cmd'.old = csr[Slot(n)].mode /\ cmd'.loops = TRUE /\ cmd'.temp = FALSE
      BY BusCommands
    <2>2. SerialTypes'
      BY <2>1 DEF SerialTypes
    <2>3. WireOwned' /\ Selected'
      BY <2>1 DEF SerialTypes, WireOwned, Selected
    <2>4. ModeRemembered'
      BY <2>1 DEF SerialTypes, ModeRemembered, Keeps
    <2> QED BY <2>2, <2>3, <2>4
  <1>4. ASSUME NEW n \in Slaves, NEW tx \in Texts, NEW loops \in BOOLEAN, Uart(n, tx, loops)
        PROVE SerialInv'
    <2> USE <1>4 DEF Uart, Start
    <2>1. /\ cmd'.dev = "uart" /\ cmd'.to = n /\ cmd'.tx = tx /\ cmd'.mode = TempMode
          /\ cmd'.old = TempMode /\ cmd'.loops = loops /\ cmd'.temp = FALSE
      BY BusCommands
    <2>2. SerialTypes'
      BY <2>1 DEF SerialTypes
    <2>3. WireOwned' /\ Selected'
      BY <2>1 DEF SerialTypes, WireOwned, Selected
    <2>4. ModeRemembered'
      BY <2>1 DEF SerialTypes, ModeRemembered, Keeps
    <2> QED BY <2>2, <2>3, <2>4
  <1>5. ASSUME NEW n \in Slaves, Temp(n)
        PROVE SerialInv'
    <2> USE <1>5 DEF Temp, InMode
    <2>1. /\ cmd'.dev = "spi" /\ cmd'.to = n /\ cmd'.tx = Empty.tx /\ cmd'.mode = TempMode
          /\ cmd'.old = TempMode /\ cmd'.loops = FALSE /\ cmd'.temp = TRUE
      BY BusCommands
    <2>2. SerialTypes'
      BY <2>1 DEF SerialTypes
    <2>3. WireOwned' /\ Selected'
      BY <2>1 DEF SerialTypes, WireOwned, Selected
    <2>4. ModeRemembered'
      BY <2>1 DEF SerialTypes, ModeRemembered, Keeps
    <2> QED BY <2>2, <2>3, <2>4
  <1>6. CASE Stop
    <2> USE <1>6 DEF Stop
    <2>1. SerialTypes'
      BY DEF SerialTypes
    <2>2. WireOwned' /\ Selected' /\ ModeRemembered'
      BY DEF SerialTypes, WireOwned, Selected, ModeRemembered, Keeps
    <2> QED BY <2>1, <2>2
  <1>7. CASE Set
    <2> USE <1>7 DEF Set, Joined
    <2>0. cmd.to \in Slaves /\ cmd.mode \in Modes /\ cmd.old \in Modes
      BY DEF SerialTypes
    <2>1. msg' \in [Devs -> Msgs] /\ msg'[cmd.dev].to = cmd.to
      BY <2>0 DEF SerialTypes, Msgs
    <2>2. /\ cmd.loops => /\ loop' = [loop EXCEPT ![cmd.dev] = "running"]
                          /\ pc' = "idle" /\ cmd' = NoCmd /\ wire' = wire
          /\ ~cmd.loops => /\ wire' = [wire EXCEPT ![cmd.dev] = "io"]
                           /\ pc' = "exchange" /\ loop' = loop /\ cmd' = cmd
      BY DEF SerialTypes
    <2>3. /\ cmd'.dev \in Devs /\ cmd'.loops \in BOOLEAN /\ cmd'.temp \in BOOLEAN
          /\ cmd'.tx \in Texts \union {Empty.tx}
          /\ pc' # "idle" => cmd' = cmd
      BY <2>2, NoCommand DEF SerialTypes
    <2>4. /\ loop' \in [Devs -> {"none", "running", "ending"}]
          /\ wire' \in [Devs -> {"none", "loop", "io"}]
          /\ pc' \in {"idle", "exchange"}
      BY <2>2 DEF SerialTypes
    <2>5. CASE cmd.dev = "spi"
      <3>1. \A s \in Slots : csr'[s].mode = csr[s].mode
        BY <2>0, <2>5 DEF Prepared, SerialTypes, Widths
      <3>2. csr' \in [Slots -> [mode : Modes, bits : Widths]] /\ csr'[Slot(cmd.to)].bits = 8
        BY <2>0, <2>5 DEF Prepared, SerialTypes, Widths
      <3>3. mr' \in [Buses -> Slaves \union {-1}] /\ mr'[Bus(cmd.to)] = cmd.to
        BY <2>0, <2>5 DEF Prepared, SerialTypes
      <3>4. SerialTypes'
        BY <2>0, <2>1, <2>3, <2>4, <3>2, <3>3 DEF SerialTypes
      <3>5. CASE cmd.loops
        <4>1. WireOwned' /\ Selected'
          BY <2>0, <2>1, <2>2, <2>5, <3>3, <3>5, NoCommand DEF SerialTypes, WireOwned, Selected
        <4>2. ModeRemembered'
          BY <2>0, <2>2, <2>5, <3>1, <3>5, NoCommand DEF ModeRemembered, Keeps, Selected
        <4> QED BY <3>4, <4>1, <4>2
      <3>6. CASE ~cmd.loops
        <4>1. WireOwned' /\ Selected'
          BY <2>0, <2>1, <2>2, <2>5, <3>2, <3>3, <3>6 DEF SerialTypes, WireOwned, Selected
        <4>2. ModeRemembered'
          BY <2>0, <2>2, <2>5, <3>1, <3>6 DEF ModeRemembered, Keeps
        <4> QED BY <3>4, <4>1, <4>2
      <3> QED BY <3>5, <3>6
    <2>6. CASE cmd.dev = "uart"
      <3>1. csr' = csr /\ mr' = mr
        BY <2>6
      <3>2. SerialTypes'
        BY <2>1, <2>3, <2>4, <3>1 DEF SerialTypes
      <3>3. msg'["spi"] = msg["spi"] /\ loop'["spi"] = loop["spi"] /\ wire'["spi"] = wire["spi"]
        BY <2>2, <2>6 DEF SerialTypes
      <3>4. WireOwned'
        BY <2>1, <2>2, <2>6, NoCommand DEF SerialTypes, WireOwned
      <3>5. Selected'
        BY <2>2, <2>6, <3>1, <3>3, NoCommand DEF Selected
      <3>6. ModeRemembered'
        BY <2>2, <2>6, <3>1, NoCommand DEF ModeRemembered, Keeps
      <3> QED BY <3>2, <3>4, <3>5, <3>6
    <2> QED BY <2>5, <2>6 DEF SerialTypes
  <1>8. CASE Exchanged
    <2> USE <1>8 DEF Exchanged, InMode
    <2>0. cmd.to \in Slaves /\ cmd.old \in Modes /\ cmd' = NoCmd /\ pc' = "idle"
      BY DEF SerialTypes
    <2>1. /\ csr' \in [Slots -> [mode : Modes, bits : Widths]]
          /\ \A s \in Slots : csr'[s].mode =
               IF cmd.dev = "spi" /\ ~cmd.temp /\ s = Slot(cmd.to) THEN cmd.old ELSE csr[s].mode
      <3>1. CASE cmd.dev = "spi" /\ ~cmd.temp
        <4>1. PICK s \in Slots : s = Slot(cmd.to)
          BY <2>0, SlotsAre
        <4>2. csr' = [csr EXCEPT ![s].mode = cmd.old] /\ csr[s] \in [mode : Modes, bits : Widths]
          BY <3>1, <4>1 DEF SerialTypes
        <4>3. [csr[s] EXCEPT !.mode = cmd.old] \in [mode : Modes, bits : Widths]
              /\ [csr[s] EXCEPT !.mode = cmd.old].mode = cmd.old
          BY <2>0, <4>2
        <4> QED BY <3>1, <4>1, <4>2, <4>3 DEF SerialTypes
      <3>2. CASE ~(cmd.dev = "spi" /\ ~cmd.temp)
        BY <3>2 DEF SerialTypes
      <3> QED BY <3>1, <3>2
    <2>2. wire' \in [Devs -> {"none", "loop", "io"}] /\ wire'[cmd.dev] = "none"
      BY DEF SerialTypes
    <2>3. SerialTypes'
      BY <2>0, <2>1, <2>2, NoCommand DEF SerialTypes
    <2>4. WireOwned' /\ Selected'
      BY <2>0, <2>2, NoCommand DEF SerialTypes, WireOwned, Selected
    <2>5. ModeRemembered'
      BY <2>0, <2>1, NoCommand DEF SerialTypes, ModeRemembered, Keeps
    <2> QED BY <2>3, <2>4, <2>5
  <1>9. ASSUME NEW d \in Devs, Send(d) \/ SendEnds(d) \/ LoopEnds(d)
        PROVE SerialInv'
    <2> USE <1>9 DEF Send, SendEnds, LoopEnds
    <2>1. SerialTypes'
      BY DEF SerialTypes
    <2>2. WireOwned' /\ Selected' /\ ModeRemembered'
      BY DEF SerialTypes, WireOwned, Selected, ModeRemembered, Keeps
    <2> QED BY <2>1, <2>2
  <1>10. CASE UNCHANGED serialVars
    BY <1>10 DEF serialVars, SerialTypes, WireOwned, Selected, ModeRemembered, Keeps
  <1> QED BY <1>1, <1>2, <1>3, <1>4, <1>5, <1>6, <1>7, <1>8, <1>9, <1>10 DEF SerialNext

(* A command's own transfer has the bus for itself, in its mode and with   *)
(* its slave; a loop thread sends the message it was given; and every slot *)
(* keeps its mode (spi1_io(), uart1_io(), spi1_get_temp()).                *)
THEOREM BusHolds == SerialSpec => []BusAsAsked
  <1>1. SerialInv => BusAsAsked
    <2> SUFFICES ASSUME SerialInv PROVE BusAsAsked
      OBVIOUS
    <2>1. wire["spi"] = "io" =>
            /\ loop["spi"] = "none" /\ mr[Bus(cmd.to)] = cmd.to
            /\ csr[Slot(cmd.to)] = [mode |-> cmd.mode, bits |-> 8]
      BY SlotsAre DEF SerialInv, SerialTypes, WireOwned, Selected, ModeRemembered, Keeps, Devs
    <2>2. \A d \in Devs : wire[d] = "loop" => msg[d] = sent[d]
      BY DEF SerialInv, WireOwned
    <2>3. loop["spi"] = "running" /\ ~cmd.temp => mr[Bus(msg["spi"].to)] = msg["spi"].to
      BY DEF SerialInv, Selected
    <2>4. pc = "idle" => \A s \in Slots : csr[s].mode = want[s]
      BY DEF SerialInv, ModeRemembered, Keeps
    <2> QED BY <2>1, <2>2, <2>3, <2>4 DEF BusAsAsked
  <1> QED BY <1>1, SerialInitially, SerialInvKept, PTL DEF SerialSpec

-----------------------------------------------------------------------------
(***************************************************************************)
(* SettingsKept for any pins, spi devices, values and addresses.           *)
(*                                                                         *)
(* The property says nothing of the bank while it is erased and nothing of *)
(* the write buffer, so it does not follow from itself that an address     *)
(* comes back or that a page gets what was stored for it: JobLatch adds    *)
(* that a job no other thread has mixed with still has its word in the     *)
(* buffer, and JobBack that the word of a write-back is the address that   *)
(* is counted on.                                                          *)
(***************************************************************************)

PageWords == Int
Jobs == [page : Pages \union {NoPage}, word : PageWords]

SettingsType ==
  /\ flash \in [Pages -> PageWords] /\ latch \in PageWords /\ ip \in PageWords
  /\ job \in [Threads -> Jobs]
  /\ accepted \in PageWords
  /\ saved \in [Pins -> PageWords]

JobLatch ==
  \A t \in Threads :
    job[t] # NoJob => /\ job[t].page \in Pages
                      /\ ~mixed[t] /\ job[t].word # Lost => latch = job[t].word

JobBack ==
  \A t \in Threads :
    job[t] # NoJob /\ (t = "net" \/ t \in erasing) =>
      /\ t \in erasing /\ job[t].page = Eth
      /\ ~mixed[t] /\ accepted # Lost => job[t].word = accepted

SettingsInv == SettingsType /\ JobLatch /\ JobBack /\ SettingsKept

(* Every page is one of its own. *)
LEMMA PagesDiffer ==
  /\ Eth \in Pages /\ NoPage \notin Pages
  /\ \A n \in Pins : Gpio(n) \in Pages /\ Gpio(n) # Eth
  /\ \A n \in Spis : Spi(n) \in Pages
  /\ \A n, k \in Pins : Gpio(n) = Gpio(k) => n = k
  BY DEF Pages, Eth, Gpio, Spi, NoPage

(* The constants are words. *)
LEMMA WordsAre ==
  /\ Default \in PageWords /\ Addrs \subseteq PageWords /\ Vals \subseteq PageWords
  /\ NoWord \in PageWords /\ Lost \in PageWords /\ AnyWord \in PageWords
  /\ NoJob \in Jobs /\ NoJob.page = NoPage
  BY SettingsAssumption DEF PageWords, NoWord, Lost, AnyWord, NoJob, Jobs

(* A thread that uses the write buffer mixes with every job of the other.  *)
LEMMA Mixing ==
  ASSUME NEW t \in Threads, Uses(t)
  PROVE  \A u \in Threads : u # t /\ job[u] # NoJob => mixed'[u]
  BY DEF Uses

(* What is stored is in the buffer until the other thread uses it.         *)
LEMMA StoreKeeps ==
  ASSUME SettingsInv, NEW t \in Threads, NEW page \in Pages, NEW word \in PageWords,
         Store(t, page, word), UNCHANGED erasing, accepted' \in {accepted, Lost},
         t = "net" => t \in erasing,
         t \in erasing => page = Eth /\ (accepted' # Lost => word = accepted')
  PROVE  /\ latch' \in PageWords /\ job' \in [Threads -> Jobs]
         /\ JobLatch' /\ JobBack'
  <1> USE DEF Store, SettingsInv, SettingsType
  <1>1. [page |-> page, word |-> word] \in Jobs
    BY DEF Jobs
  <1>2. /\ latch' \in PageWords /\ job' \in [Threads -> Jobs]
        /\ job'[t].page = page /\ job'[t].word = word
        /\ \A u \in Threads : u # t => job'[u] = job[u]
    BY <1>1
  <1>3. \A u \in Threads : u # t /\ job[u] # NoJob => mixed'[u]
    BY Mixing
  <1>4. JobLatch'
    BY <1>2, <1>3 DEF JobLatch
  <1>5. JobBack'
    BY <1>2, <1>3 DEF JobBack
  <1> QED BY <1>2, <1>4, <1>5

(* A commit ends the job of a thread and is mixed with that of the other.  *)
LEMMA CommitKeeps ==
  ASSUME SettingsInv, NEW t \in Threads, job[t] # NoJob, Commit(t),
         erasing' \in {erasing, erasing \ {t}}
  PROVE  /\ flash' \in [Pages -> PageWords] /\ latch' \in PageWords /\ job' \in [Threads -> Jobs]
         /\ \A p \in Pages :
              flash'[p] = IF enable /\ p = job[t].page THEN latch ELSE flash[p]
         /\ JobLatch' /\ JobBack'
  <1> USE DEF Commit, Program, SettingsInv, SettingsType
  <1>1. /\ flash' \in [Pages -> PageWords] /\ latch' \in PageWords
        /\ \A p \in Pages :
             flash'[p] = IF enable /\ p = job[t].page THEN latch ELSE flash[p]
    BY WordsAre
  <1>2. /\ job' \in [Threads -> Jobs] /\ job'[t] = NoJob
        /\ \A u \in Threads : u # t => job'[u] = job[u]
    BY WordsAre
  <1>3. \A u \in Threads : u # t /\ job[u] # NoJob => mixed'[u]
    BY Mixing
  <1>4. JobLatch'
    BY <1>2, <1>3 DEF JobLatch
  <1>5. JobBack'
    BY <1>2, <1>3 DEF JobBack
  <1> QED BY <1>1, <1>2, <1>4, <1>5

(* A thread without a job may put anything in the buffer.                  *)
LEMMA UseKeeps ==
  ASSUME SettingsInv, NEW t \in Threads, job[t] = NoJob, Uses(t), UNCHANGED <<erasing, job>>,
         accepted' \in {accepted, Lost}
  PROVE  JobLatch' /\ JobBack'
  BY Mixing DEF SettingsInv, JobLatch, JobBack

(* A page that is overwritten is one the histories no longer promise.      *)
LEMMA OverwriteKeeps ==
  ASSUME SettingsInv, NEW t \in Threads, job[t] = NoJob, Uses(t), NEW p \in Pages, Overwrite(p)
  PROVE  SettingsInv'
  <1> USE DEF Overwrite, Program
  <1>1. SettingsType'
    BY WordsAre DEF SettingsInv, SettingsType
  <1>2. JobLatch' /\ JobBack'
    BY UseKeeps
  <1>3. SettingsKept'
    BY PagesDiffer DEF SettingsInv, SettingsType, SettingsKept
  <1> QED BY <1>1, <1>2, <1>3 DEF SettingsInv

(* At the start the pages are blank and nothing is promised. *)
LEMMA SettingsInitially == SettingsInit => SettingsInv
  BY WordsAre, PagesDiffer
  DEF SettingsInit, SettingsInv, SettingsType, JobLatch, JobBack, SettingsKept

(* Every step keeps the invariant. *)
LEMMA SettingsInvKept == SettingsInv /\ [SettingsNext]_setVars => SettingsInv'
<1> SUFFICES ASSUME SettingsInv, [SettingsNext]_setVars PROVE SettingsInv'
  OBVIOUS
<1> SettingsType /\ JobLatch /\ JobBack /\ SettingsKept
  BY DEF SettingsInv
<1>0. "main" \in Threads /\ "net" \in Threads
  BY DEF Threads
<1>1. ASSUME NEW n \in Pins, NEW v \in Vals, GpioCmd(n, v) PROVE SettingsInv'
  <2> USE <1>1 DEF GpioCmd, Ready
  <2>1. v \in PageWords /\ Gpio(n) \in Pages
    BY WordsAre, PagesDiffer
  <2>2. CASE flash[Gpio(n)] = v
    BY <2>1, <2>2 DEF SettingsInv, SettingsType, JobLatch, JobBack, SettingsKept
  <2>3. CASE flash[Gpio(n)] # v
    <3>1. PICK w \in PageWords : Store("main", Gpio(n), w)
      BY <2>1, <2>3, WordsAre
    <3>2. /\ latch' \in PageWords /\ job' \in [Threads -> Jobs]
          /\ JobLatch' /\ JobBack'
      BY <1>0, <2>1, <3>1, StoreKeeps
    <3> QED BY <2>3, <3>2 DEF SettingsInv, SettingsType, SettingsKept
  <2> QED BY <2>2, <2>3
<1>2. ASSUME NEW v \in {0, 1, AnyWord}, StoreWord(v) PROVE SettingsInv'
  <2> USE <1>2 DEF StoreWord, Ready
  <2>1. v \in PageWords
    BY WordsAre DEF PageWords
  <2>2. JobLatch' /\ JobBack'
    BY <1>0, UseKeeps
  <2> QED BY <2>1, <2>2 DEF SettingsInv, SettingsType, SettingsKept
<1>3. ASSUME NEW n \in Spis, SpiUpd(n) PROVE SettingsInv'
  <2> USE <1>3 DEF SpiUpd, Ready
  <2>1. latch' \in PageWords
    BY PagesDiffer DEF SettingsType
  <2>2. JobLatch' /\ JobBack'
    BY <1>0, UseKeeps
  <2> QED BY <2>1, <2>2 DEF SettingsInv, SettingsType, SettingsKept
<1>4. ASSUME NEW p \in Pages, CommitCmd(p) \/ TftpEnds(p) PROVE SettingsInv'
  <2>1. CASE CommitCmd(p)
    BY <1>0, <2>1, OverwriteKeeps DEF CommitCmd, Ready
  <2>2. CASE TftpEnds(p)
    <3>1. job["net"] = NoJob
      BY <1>0, <2>2 DEF TftpEnds, JobBack
    <3> QED BY <1>0, <2>2, <3>1, OverwriteKeeps DEF TftpEnds
  <2> QED BY <1>4, <2>1, <2>2
<1>5. ASSUME NEW on \in BOOLEAN, CommitEnable(on) PROVE SettingsInv'
  BY <1>5 DEF CommitEnable, SettingsInv, SettingsType, JobLatch, JobBack, SettingsKept
<1>6. ASSUME NEW a \in Addrs, IpAddr(a) PROVE SettingsInv'
  <2> USE <1>6 DEF IpAddr, Ready
  <2>1. a \in PageWords /\ Eth \in Pages
    BY WordsAre, PagesDiffer
  <2>2. /\ latch' \in PageWords /\ job' \in [Threads -> Jobs]
        /\ JobLatch' /\ JobBack'
    BY <1>0, <2>1, StoreKeeps
  <2> QED BY <2>1, <2>2 DEF SettingsInv, SettingsType, SettingsKept
<1>7. ASSUME NEW a \in Addrs, IpRefused(a) PROVE SettingsInv'
  BY <1>7, WordsAre DEF IpRefused, SettingsInv, SettingsType, JobLatch, JobBack, SettingsKept
<1>8. CASE IpShow
  <2>1. IpRead(flash) \in PageWords
    BY WordsAre, PagesDiffer DEF IpRead, SettingsType
  <2> QED BY <1>8, <2>1 DEF IpShow, SettingsInv, SettingsType, JobLatch, JobBack, SettingsKept
<1>9. CASE CommandEnds
  <2> USE <1>9 DEF CommandEnds
  <2> DEFINE page == job["main"].page
             kept == IF mixed["main"] THEN Lost ELSE job["main"].word
  <2>1. /\ flash' \in [Pages -> PageWords] /\ latch' \in PageWords /\ job' \in [Threads -> Jobs]
        /\ \A p \in Pages : flash'[p] = IF enable /\ p = page THEN latch ELSE flash[p]
        /\ JobLatch'
        /\ JobBack'
    BY <1>0, CommitKeeps
  <2>2. kept \in PageWords /\ (kept # Lost => latch = kept)
    BY <1>0, WordsAre DEF SettingsType, Jobs, JobLatch
  <2>3. /\ accepted' = IF enable /\ page = Eth THEN kept ELSE accepted
        /\ saved' = [n \in Pins |-> IF enable /\ page = Gpio(n) THEN kept ELSE saved[n]]
    OBVIOUS
  <2> HIDE DEF page, kept
  <2>4. SettingsType'
    BY <2>1, <2>2, <2>3 DEF SettingsType
  <2>5. SettingsKept'
    BY <2>1, <2>2, <2>3, PagesDiffer DEF SettingsKept
  <2> QED BY <2>1, <2>4, <2>5 DEF SettingsInv
<1>10. ASSUME NEW t \in Threads, Erase(t) PROVE SettingsInv'
  <2> USE <1>10 DEF Erase
  <2>1. SettingsType'
    BY WordsAre DEF SettingsType
  <2>2. JobLatch' /\ JobBack'
    BY DEF JobLatch, JobBack
  <2>3. SettingsKept'
    BY DEF SettingsKept
  <2> QED BY <2>1, <2>2, <2>3 DEF SettingsInv
<1>11. ASSUME NEW t \in Threads, WriteBack(t) PROVE SettingsInv'
  <2> USE <1>11 DEF WriteBack
  <2>1. ip \in PageWords /\ Eth \in Pages
    BY PagesDiffer DEF SettingsType
  <2>2. /\ latch' \in PageWords /\ job' \in [Threads -> Jobs]
        /\ JobLatch' /\ JobBack'
    BY <2>1, StoreKeeps
  <2>3. SettingsType'
    BY <2>2, WordsAre DEF SettingsType
  <2> QED BY <2>2, <2>3 DEF SettingsInv, SettingsKept
<1>12. ASSUME NEW t \in Threads, WriteBackEnds(t) PROVE SettingsInv'
  <2> USE <1>12 DEF WriteBackEnds
  <2>1. /\ flash' \in [Pages -> PageWords] /\ latch' \in PageWords /\ job' \in [Threads -> Jobs]
        /\ \A p \in Pages :
             flash'[p] = IF enable /\ p = job[t].page THEN latch ELSE flash[p]
    BY CommitKeeps
  <2>2. JobLatch' /\ JobBack'
    <3>1. /\ \A u \in Threads : u # t /\ job[u] # NoJob => mixed'[u]
          /\ job'[t] = NoJob
          /\ \A u \in Threads : u # t => job'[u] = job[u]
      BY Mixing DEF Commit, SettingsType
    <3> QED BY <3>1 DEF JobLatch, JobBack
  <2>3. job[t].page = Eth
    BY DEF JobBack
  <2>4. accepted' # Lost => accepted' = accepted /\ flash'[Eth] = accepted
    BY <2>1, <2>3, PagesDiffer DEF JobBack, JobLatch
  <2>5. \A n \in Pins : flash'[Gpio(n)] = flash[Gpio(n)]
    BY <2>1, <2>3, PagesDiffer
  <2>6. SettingsType'
    BY <2>1, WordsAre DEF SettingsType
  <2> QED BY <2>2, <2>4, <2>5, <2>6 DEF SettingsInv, SettingsKept
<1>13. ASSUME NEW v \in {NoWord, AnyWord}, TftpStores(v) PROVE SettingsInv'
  <2> USE <1>13 DEF TftpStores
  <2>1. v \in PageWords
    BY WordsAre
  <2>2. job["net"] = NoJob
    BY <1>0 DEF JobBack
  <2>3. JobLatch' /\ JobBack'
    BY <1>0, <2>2, UseKeeps
  <2> QED BY <2>1, <2>3 DEF SettingsInv, SettingsType, SettingsKept
<1>14. CASE Restart
  <2> USE <1>14 DEF Restart
  <2>1. flash' \in [Pages -> PageWords] /\ saved' \in [Pins -> PageWords] /\ accepted' \in PageWords
    BY WordsAre DEF SettingsType
  <2>2. ip' \in PageWords
    BY <2>1, WordsAre, PagesDiffer DEF IpRead
  <2>3. SettingsType'
    BY <2>1, <2>2, WordsAre DEF SettingsType
  <2>4. JobLatch' /\ JobBack'
    BY DEF JobLatch, JobBack
  <2>5. SettingsKept'
    BY PagesDiffer DEF SettingsKept, SettingsType
  <2> QED BY <2>3, <2>4, <2>5 DEF SettingsInv
<1>15. CASE UNCHANGED setVars
  BY <1>15 DEF setVars, SettingsInv, SettingsType, JobLatch, JobBack, SettingsKept
<1> QED
  BY <1>1, <1>2, <1>3, <1>4, <1>5, <1>6, <1>7, <1>8, <1>9, <1>10, <1>11, <1>12, <1>13,
     <1>14, <1>15 DEF SettingsNext

(* What gpio and efc ipaddr have saved is still there after any other      *)
(* commands and restarts, but for the losses the property names.           *)
THEOREM SettingsAreKept == SettingsSpec => []SettingsKept
<1>1. SettingsInv => SettingsKept
  BY DEF SettingsInv
<1> QED BY SettingsInitially, SettingsInvKept, <1>1, PTL DEF SettingsSpec

-----------------------------------------------------------------------------
(* Every behaviour of Commands is one of each of its parts: the commands   *)
(* that drive one of them change no state of another (pcl_sam.c).          *)
THEOREM CommandsAreParts == Spec => TickSpec /\ SerialSpec /\ SettingsSpec /\ ScriptSpec /\ CallsSpec
<1>1. Init => TickInit /\ SerialInit /\ SettingsInit /\ ScriptInit /\ CallsInit
  BY DEF Init
<1>2. TicksStep => TickNext /\ UNCHANGED <<serialVars, setVars, scriptVars, callVars>>
  BY DEF TicksStep
<1>3. SerialStep => SerialNext /\ UNCHANGED <<tickVars, setVars, scriptVars, callVars>>
  BY DEF SerialStep
<1>4. SettingsStep => SettingsNext /\ UNCHANGED <<tickVars, serialVars, scriptVars, callVars>>
  BY DEF SettingsStep
<1>5. ScriptStep => ScriptNext /\ UNCHANGED <<tickVars, serialVars, setVars, callVars>>
  BY DEF ScriptStep
<1>6. CallsStep => CallsNext /\ UNCHANGED <<tickVars, serialVars, setVars, scriptVars>>
  BY DEF CallsStep
<1>7. UNCHANGED vars => UNCHANGED <<tickVars, serialVars, setVars, scriptVars, callVars>>
  BY DEF vars
<1>8. [Next]_vars => /\ [TickNext]_tickVars /\ [SerialNext]_serialVars /\ [SettingsNext]_setVars
                     /\ [ScriptNext]_scriptVars /\ [CallsNext]_callVars
  BY <1>2, <1>3, <1>4, <1>5, <1>6, <1>7, Zenon DEF Next
<1> QED BY <1>1, <1>8, PTL DEF Spec, TickSpec, SerialSpec, SettingsSpec, ScriptSpec, CallsSpec

(* With all the commands there are, timer_cb keeps its periods, the buses  *)
(* do what they are asked and what was saved is kept.                      *)
THEOREM CommandsKeep == Spec => PeriodsKept /\ []BusAsAsked /\ []SettingsKept
BY CommandsAreParts, PeriodsAreKept, BusHolds, SettingsAreKept, PTL
=============================================================================
