------------------------------- MODULE Ticks -------------------------------
(***************************************************************************)
(* What the main loop does by the system tick: pcl_try_timer_cb()          *)
(* (src/pcl/pcl_sam.c), which runs the script's timer_cb every timer_dt    *)
(* ticks.  Ticks are counted in 32 bits and wrap.                          *)
(*                                                                         *)
(* src/btn/vfd.c compares ticks in two more places, which are left out:    *)
(* vfd_menu_try_update() does not come back from its first update (see     *)
(* Vfd), and vfd_filter_event() is for events that main() does not wait    *)
(* for (main.c:131).                                                       *)
(***************************************************************************)
EXTENDS Integers

CONSTANTS
  Wrap,     \* ticks are 0..Wrap-1, 2^32 in the code
  Periods,  \* what the timer command may set, 0 turns it off
  Pass,     \* bound: ticks until the main loop comes round, its wait is 500
  Run,      \* bound: ticks that timer_cb takes
  MaxSince  \* bound of the histories that count ticks

ASSUME TicksAssumption ==
  /\ Wrap \in Nat /\ Pass \in Nat /\ Run \in Nat
  /\ MaxSince \in Nat
  /\ Pass < Wrap /\ Run < Wrap
  /\ \A dt \in Periods : dt \in Nat /\ 2 * dt + 3 * Pass < MaxSince
  /\ \A dt \in Periods : 2 * dt + 2 * Pass < Wrap

VARIABLES
  tnow,      \* chTimeNow()
  timer_dt,
  ts,        \* when timer_cb returned last
  late,      \* ticks since the main loop came round
  since,     \* history: ticks since timer_cb returned
  due,       \* history: the same, or since its period was set
  fired      \* history: the value of since when this round ran timer_cb, or -1

tickVars == <<tnow, timer_dt, ts, late, since, due, fired>>

Count(n, d) == IF n + d < MaxSince THEN n + d ELSE MaxSince

(* Mutant: after a wrap the time is taken for not yet come. *)
Over_NoWrap(last, dt) == tnow > last /\ tnow - last >= dt

(* The comparison of timers.  After a wrap the count begins at 0.          *)
Over(last, dt) == IF tnow > last THEN tnow - last >= dt ELSE tnow >= dt

TickInit ==
  /\ tnow = 0 /\ timer_dt = 0 /\ ts = 0
  /\ late = 0 /\ since = 0 /\ due = 0 /\ fired = -1

Tick ==
  /\ late < Pass
  /\ tnow' = (tnow + 1) % Wrap
  /\ late' = late + 1
  /\ since' = Count(since, 1) /\ due' = Count(due, 1)
  /\ UNCHANGED <<timer_dt, ts, fired>>

(* pcl_try_timer_cb(), once in each round of the main loop. *)
TryTimerCb ==
  /\ late' = 0
  /\ IF timer_dt # 0 /\ Over(ts, timer_dt)
     THEN \E d \in 0..Run :
            /\ tnow' = (tnow + d) % Wrap /\ ts' = tnow'
            /\ fired' = since /\ since' = 0 /\ due' = 0
     ELSE fired' = -1 /\ UNCHANGED <<tnow, ts, since, due>>
  /\ UNCHANGED timer_dt

(* The timer command, from any script. *)
SetTimer(dt) ==
  /\ timer_dt' = dt /\ due' = 0 /\ fired' = -1
  /\ UNCHANGED <<tnow, ts, late, since>>

TickNext ==
  \/ Tick \/ TryTimerCb
  \/ \E dt \in Periods : SetTimer(dt)

TickSpec == TickInit /\ [][TickNext]_tickVars

-----------------------------------------------------------------------------
(* timer_cb comes in time wherever the tick counter wraps: not within its  *)
(* period but for a second round of the loop in the tick it returned, and  *)
(* no later than two periods and three rounds after that or after the      *)
(* period was set: it begins again at a wrap, and the loop may step over   *)
(* the few ticks in which it would see the first one over.                 *)
PeriodsKept ==
  [][/\ timer_dt' # 0 => due' <= 2 * timer_dt' + 3 * Pass
     /\ fired' <= 0 \/ fired' >= timer_dt']_tickVars
=============================================================================
