----------------------------- MODULE VfdProofs -----------------------------
(***************************************************************************)
(* The menu on the display, for any number of items.                       *)
(*                                                                         *)
(* The invariant follows a thread into vfd.c: one that waits is the owner  *)
(* of pcl_mtx, which then moves the menu no more and gives the mutex to    *)
(* nobody, or it is main(), after the owner has come to stay.              *)
(***************************************************************************)
EXTENDS Vfd, TLAPS

VfdType ==
  /\ owner \in Threads \union {NULL}
  /\ waits \in [Threads -> {"none", "show", "ctrl"}]
  /\ lvl \in {0, 1} /\ sel \in Menus /\ scroll \in Int
  /\ count \in [Menus -> Nat]

(* Who waits, and where the menu then is. *)
WaitInv ==
  /\ waits["net"] # "none" => owner = "net"
  /\ waits["main"] # "none" /\ owner # "main" => Hung /\ sel = MON

(* Only a thread that hangs has left the top level. *)
LevelInv == lvl = 1 => Hung

VfdInv == VfdType /\ WaitInv /\ LevelInv /\ sel \in scroll..(scroll + 1)

-----------------------------------------------------------------------------
(* The menu begins at the top. *)
LEMMA VfdInitially == Init => VfdInv
  BY DEF Init, VfdInv, VfdType, WaitInv, LevelInv, Menus, Threads, SYS, NULL

(* A thread that draws asks for a value exactly at an item. *)
LEMMA Drawn ==
  ASSUME VfdType, NEW t \in Threads, NEW l \in Int, NEW m \in Menus, Draw(t, l, m)
  PROVE  /\ waits' \in [Threads -> {"none", "show", "ctrl"}]
         /\ \A u \in Threads : u # t => waits'[u] = waits[u]
         /\ waits'[t] = IF l = 1 /\ count[m] > 0 THEN "show" ELSE waits[t]
  BY DEF Draw, Asks, VfdType

(* When a script runs nobody waits and the menu is in its top level. *)
LEMMA RunsAtTop ==
  ASSUME VfdInv, NEW t \in Threads, Runs(t)
  PROVE  lvl = 0 /\ owner = t /\ ~Hung /\ \A u \in Threads : waits[u] = "none"
  BY DEF VfdInv, VfdType, WaitInv, LevelInv, Runs, Hung, Threads, NULL

(* Up and down keep the selected line on the display. *)
LEMMA StepKeeps ==
  ASSUME VfdInv, NEW t \in Threads, Runs(t), NEW by \in {-1, 1}, NEW last \in Int,
         Step(t, by, last), by = -1 => last = 0, by = 1 => last = 2
  PROVE  VfdInv' /\ ~Hung'
  <1> USE DEF Step
  <1>1. lvl = 0 /\ owner = t /\ \A u \in Threads : waits[u] = "none"
    BY RunsAtTop
  <1>2. sel \in {0, 1, 2} /\ scroll \in Int /\ scroll <= sel /\ sel <= scroll + 1
    BY DEF VfdInv, VfdType, Menus
  <1>3. sel' \in {0, 1, 2} /\ sel - 1 <= sel' /\ sel' <= sel + 1
    BY <1>2
  <1>4. sel' \in Menus /\ scroll' \in Int /\ sel' \in scroll'..(scroll' + 1)
    BY <1>2, <1>3 DEF Menus
  <1>5. waits' \in [Threads -> {"none", "show", "ctrl"}] /\ \A u \in Threads : waits'[u] = "none"
    BY <1>1, <1>4, Drawn DEF VfdInv
  <1>6. VfdType'
    BY <1>4, <1>5 DEF VfdInv, VfdType
  <1> QED BY <1>1, <1>4, <1>5, <1>6 DEF VfdInv, WaitInv, LevelInv, Hung, Threads

(* Left in the top level only draws, and right may be the last step.       *)
LEMMA EnterKeeps ==
  ASSUME VfdInv, NEW t \in Threads, Runs(t),
         lvl' = 0 \/ (lvl' = 1 /\ count[sel] > 0),
         Draw(t, lvl', sel), UNCHANGED <<owner, scroll, sel, count>>
  PROVE  VfdInv' /\ (Hung' => lvl' = 1)
  <1>1. owner = t /\ owner' = t /\ \A u \in Threads : waits[u] = "none"
    BY RunsAtTop
  <1>2. /\ waits' \in [Threads -> {"none", "show", "ctrl"}]
        /\ \A u \in Threads : u # t => waits'[u] = "none"
        /\ waits'[t] = IF lvl' = 1 THEN "show" ELSE "none"
    BY <1>1, Drawn DEF VfdInv, VfdType
  <1>3. VfdType'
    BY <1>2 DEF VfdInv, VfdType
  <1> QED BY <1>1, <1>2, <1>3 DEF VfdInv, WaitInv, LevelInv, Hung, Threads, NULL

(* Every step keeps the invariant, and hangs only as HangsAtValues says. *)
LEMMA VfdStep ==
  VfdInv /\ [Next]_vars => VfdInv' /\ (~Hung /\ Hung' => lvl' = 1 \/ waits'[owner] = "ctrl")
  <1> SUFFICES ASSUME VfdInv, [Next]_vars
               PROVE  VfdInv' /\ (~Hung /\ Hung' => lvl' = 1 \/ waits'[owner] = "ctrl")
    OBVIOUS
  <1>1. ASSUME NEW t \in Threads, Up(t) \/ Down(t) PROVE VfdInv' /\ ~Hung'
    BY <1>1, StepKeeps DEF Up, Down
  <1>2. ASSUME NEW t \in Threads, Left(t) PROVE VfdInv' /\ (Hung' => lvl' = 1)
    <2>1. lvl = 0
      BY <1>2, RunsAtTop DEF Left
    <2> QED BY <1>2, <2>1, EnterKeeps DEF Left
  <1>3. ASSUME NEW t \in Threads, Right(t) PROVE VfdInv' /\ (Hung' => lvl' = 1)
    <2>1. lvl = 0
      BY <1>3, RunsAtTop DEF Right
    <2> QED BY <1>3, <2>1, EnterKeeps DEF Right
  <1>4. ASSUME NEW t \in Threads, VfdMon(t) PROVE VfdInv' /\ ~Hung'
    <2>1. ~Hung
      BY <1>4, RunsAtTop DEF VfdMon
    <2>2. count' \in [Menus -> Nat]
      BY <1>4 DEF VfdMon, VfdInv, VfdType, Menus, MON
    <2> QED BY <1>4, <2>1, <2>2 DEF VfdMon, VfdInv, VfdType, WaitInv, LevelInv, Hung
  <1>5. ASSUME NEW t \in Threads, VfdCtrl(t) PROVE VfdInv' /\ waits'[owner] = "ctrl"
    <2>1. lvl = 0 /\ owner = t /\ \A u \in Threads : waits[u] = "none"
      BY <1>5, RunsAtTop DEF VfdCtrl
    <2>2. count' \in [Menus -> Nat]
      BY <1>5 DEF VfdCtrl, VfdInv, VfdType, Menus, CTRL
    <2>3. /\ waits' \in [Threads -> {"none", "show", "ctrl"}] /\ waits'[t] = "ctrl"
          /\ \A u \in Threads : u # t => waits'[u] = "none"
      BY <1>5, <2>1 DEF VfdCtrl, Asks, VfdInv, VfdType
    <2> QED BY <1>5, <2>1, <2>2, <2>3 DEF VfdCtrl, VfdInv, VfdType, WaitInv, LevelInv, Threads
  <1>6. ASSUME NEW t \in Threads, StartScript(t) \/ EndScript(t) PROVE VfdInv' /\ ~Hung'
    <2>1. ~Hung /\ waits[t] = "none" /\ lvl = 0
      BY <1>6, RunsAtTop DEF StartScript, EndScript, Hung, VfdInv, VfdType, LevelInv
    <2>2. \A u \in Threads : waits[u] = "none"
      BY <1>6, <2>1 DEF StartScript, EndScript, Runs, VfdInv, WaitInv, Hung, Threads, NULL
    <2> QED BY <1>6, <2>1, <2>2 DEF StartScript, EndScript, VfdInv, VfdType, WaitInv, LevelInv,
                                  Hung, Threads, NULL
  <1>7. ASSUME TryUpdate PROVE VfdInv' /\ (~Hung => ~Hung')
    <2>1. Hung /\ owner = "net"
      BY <1>7 DEF TryUpdate, VfdInv, VfdType, LevelInv, Hung, Threads
    <2>2. /\ waits' \in [Threads -> {"none", "show", "ctrl"}]
          /\ waits'["net"] = waits["net"]
      BY <1>7 DEF TryUpdate, Asks, VfdInv, VfdType, Threads
    <2> QED BY <1>7, <2>1, <2>2 DEF TryUpdate, VfdInv, VfdType, WaitInv, LevelInv, Hung, NULL
  <1>8. CASE UNCHANGED vars
    BY <1>8 DEF vars, VfdInv, VfdType, WaitInv, LevelInv, Hung
  <1> QED BY <1>1, <1>2, <1>3, <1>4, <1>5, <1>6, <1>7, <1>8 DEF Next

(* A script hangs only where a value is needed, when it comes to an item   *)
(* of a menu or in vfd ctrl: pcl_exec() takes pcl_mtx a second time.       *)
THEOREM HangsWhereShown == Spec => HangsAtValues
  BY VfdInitially, VfdStep, PTL DEF Spec, HangsAtValues

(* The menu leaves its top level only with a thread that never returns,    *)
(* and main() waits in vfd_menu_try_update() only for such a thread.       *)
THEOREM TopOrHung == Spec => []MenuStaysAtTop
  <1>1. VfdInv => MenuStaysAtTop
    BY DEF VfdInv, VfdType, WaitInv, LevelInv, MenuStaysAtTop
  <1> QED BY <1>1, VfdInitially, VfdStep, PTL DEF Spec
=============================================================================
