-------------------------------- MODULE Vfd --------------------------------
(***************************************************************************)
(* The menu on the display, src/btn/vfd.c, in a build with VFD (which the  *)
(* Makefile leaves undefined).                                             *)
(*                                                                         *)
(* The menu has two levels: Control, Monitoring and System, and the items  *)
(* of each.  An item shows the result of a script, for which vfd.c calls   *)
(* pcl_exec(), and that takes pcl_mtx.  Scripts move the menu with the vfd *)
(* command, that is by a thread that has pcl_mtx already, and chMtxLock()  *)
(* of a mutex the thread has itself never returns.                         *)
(*                                                                         *)
(* Buttons do not move it: the mask main() waits with (main.c:131) has     *)
(* none of their events, and vfdmask, vfd_irq_init() are declared nowhere, *)
(* so main.c:181-195 and vfd_filter_event() are left out.  Of vfd.c main() *)
(* itself calls vfd_menu_try_update(), without the mutex.                  *)
(*                                                                         *)
(* What the four moves do at an item, the edit of a value, and how         *)
(* vfd_menu_update_val() and vfd_menu_try_update() go on once they have    *)
(* the mutex, are left out because no thread gets there: MenuStaysAtTop.   *)
(* vfd br, cls, text and draw in the top menu only write on the display.   *)
(***************************************************************************)
EXTENDS Integers

CONSTANT MaxMon  \* bound: vfd mon items

ASSUME VfdAssumption == MaxMon \in Nat

VARIABLES
  owner,   \* who has pcl_mtx, running a script
  waits,   \* what a thread in vfd.c asked pcl_exec() for
  lvl, scroll,  \* pstate
  sel,     \* pmain->sel
  count    \* the items of each menu, 0 where sub is NULL

vars == <<owner, waits, lvl, scroll, sel, count>>

(* The main thread evaluates commands of the shell, loaded scripts and     *)
(* callbacks, the other one what tftpd_wrq() makes of a buffer it has not  *)
(* initialised, which may be any script.                                   *)
Threads == {"main", "net"}
NULL == "null"
Menus == 0..2
CTRL == 0
MON == 1
SYS == 2

(* vfd_menu_init(): address, version and brightness. *)
Init ==
  /\ owner = NULL /\ waits = [t \in Threads |-> "none"]
  /\ lvl = 0 /\ scroll = 0 /\ sel = 0
  /\ count = [m \in Menus |-> IF m = SYS THEN 3 ELSE 0]

Asks(t, what) == waits' = [waits EXCEPT ![t] = what]

(* A vfd command of the script t runs. *)
Runs(t) == owner = t /\ waits[t] = "none"

(* Mutants: the value is asked for in the top menu as well, or never. *)
Draw_Falls(t, l, m) ==
  IF count[m] > 0 THEN Asks(t, "show") ELSE UNCHANGED waits
Draw_NoValue(t, l, m) == UNCHANGED waits

(* vfd_menu_draw(): the item of menu m at level 1 is drawn with its value. *)
Draw(t, l, m) ==
  IF l = 1 /\ count[m] > 0 THEN Asks(t, "show") ELSE UNCHANGED waits

(* The selection moves by one but for the last line, and the two lines of  *)
(* the display, scroll and the next one, follow it.                        *)
Step(t, by, last) ==
  /\ sel' = IF sel # last THEN sel + by ELSE sel
  /\ scroll' = IF scroll > sel' THEN scroll - 1
               ELSE IF sel' > scroll + 1 THEN scroll + 1 ELSE scroll
  /\ Draw(t, lvl, sel')
  /\ UNCHANGED <<owner, lvl, count>>

Up(t)   == Runs(t) /\ Step(t, -1, 0)
Down(t) == Runs(t) /\ Step(t, 1, 2)

(* Left goes up a level, and draws. *)
Left(t) ==
  /\ Runs(t)
  /\ lvl' = IF lvl > 0 THEN lvl - 1 ELSE lvl
  /\ Draw(t, lvl', sel)
  /\ UNCHANGED <<owner, scroll, sel, count>>

(* Right enters a menu that has items. *)
Right(t) ==
  /\ Runs(t)
  /\ lvl' = IF count[sel] > 0 THEN lvl + 1 ELSE lvl
  /\ Draw(t, lvl', sel)
  /\ UNCHANGED <<owner, scroll, sel, count>>

(* vfd mon adds an item. *)
VfdMon(t) ==
  /\ Runs(t) /\ count[MON] < MaxMon
  /\ count' = [count EXCEPT ![MON] = @ + 1]
  /\ UNCHANGED <<owner, waits, lvl, scroll, sel>>

(* vfd ctrl adds one as well, and asks for the value an edit begins with.  *)
VfdCtrl(t) ==
  /\ Runs(t)
  /\ count' = [count EXCEPT ![CTRL] = @ + 1]
  /\ Asks(t, "ctrl")
  /\ UNCHANGED <<owner, lvl, scroll, sel>>

(* pcl_exec() and pcl_load() of a thread that gets the mutex, and their    *)
(* end.                                                                    *)
StartScript(t) ==
  /\ owner = NULL /\ waits[t] = "none"
  /\ owner' = t
  /\ UNCHANGED <<waits, lvl, scroll, sel, count>>

EndScript(t) ==
  /\ Runs(t)
  /\ owner' = NULL
  /\ UNCHANGED <<waits, lvl, scroll, sel, count>>

(* vfd_menu_try_update() in the main loop, when a period is over. *)
TryUpdate ==
  /\ owner # "main" /\ waits["main"] = "none"
  /\ sel = MON /\ lvl # 0
  /\ Asks("main", "show")
  /\ UNCHANGED <<owner, lvl, scroll, sel, count>>

Next ==
  \/ TryUpdate
  \/ \E t \in Threads : \/ StartScript(t) \/ EndScript(t)
                        \/ Up(t) \/ Down(t) \/ Left(t) \/ Right(t)
                        \/ VfdMon(t) \/ VfdCtrl(t)

Spec == Init /\ [][Next]_vars

-----------------------------------------------------------------------------
(* A thread that waits for the mutex it has: it never comes back, and with *)
(* it goes everything that evaluates scripts.                              *)
Hung == owner # NULL /\ waits[owner] # "none"

(* A script hangs in a vfd command only where a value is needed: when it   *)
(* comes to an item, or in vfd ctrl (vfd.c:128, 139, 367).                 *)
HangsAtValues ==
  [][~Hung /\ Hung' => lvl' = 1 \/ waits'[owner] = "ctrl"]_vars

(* As long as no thread hangs the menu is in its top level, whatever       *)
(* scripts did: the first vfd right that enters a menu is the last thing   *)
(* the thread does, so items, edits and the periodic update never come     *)
(* into use (vfd.c:292-356, 387-412).  The main loop waits in              *)
(* vfd_menu_try_update() only for a script that hangs, at a monitoring     *)
(* item.  The selected line is one of the two the display has.             *)
MenuStaysAtTop ==
  /\ ~Hung => lvl = 0
  /\ owner # "main" /\ waits["main"] # "none" => Hung /\ sel = MON
  /\ sel \in Menus \intersect (scroll..(scroll + 1))
=============================================================================
