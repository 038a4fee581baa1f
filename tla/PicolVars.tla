----------------------------- MODULE PicolVars -----------------------------
(***************************************************************************)
(* The variables of the Picol interpreter, src/pcl/picol.c, in the frames  *)
(* of PicolFrames.                                                         *)
(*                                                                         *)
(* A frame keeps a list of names and values.  `global x` puts x into the   *)
(* list with no value (val is NULL), which means: look in the top frame.   *)
(* Every command that reads or writes a variable has to follow that link   *)
(* itself; append and lappend do not, and copy a string from address 0.    *)
(* A link in the top frame leads to itself: a write to it never returns.   *)
(***************************************************************************)
EXTENDS PicolFrames

CONSTANTS
  Names,     \* variable names
  MaxInt     \* bound: values are 1..MaxInt, incr wraps

ASSUME VarsAssumption == MaxInt \in Nat \ {0}

VARIABLES
  vals,      \* vals[f][x]: the value, LINK (val is NULL) or ABSENT
  fault      \* "none"; "null": NULL was read; "loop": picolSetVar2 recurs for ever

pVars == <<vars, vals, fault>>

Values == 1..MaxInt
LINK == 0
ABSENT == -1

NoVars == [x \in Names |-> ABSENT]

(* The frame without a parent, where global variables live. *)
Root == Ancestor(callframe, MaxDepth + 1)

(* picolGetVar() and picolGetGlobalVar() *)
Local(x) == vals[callframe][x]
Global(x) == vals[Root][x]

(* What $x stands for: the second look-up follows a link. *)
Seen(x) == IF Local(x) = LINK THEN Global(x) ELSE Local(x)

Put(f, x, v) == vals' = [vals EXCEPT ![f][x] = v] /\ UNCHANGED fault
Faults(how) == fault' = how /\ UNCHANGED vals
Running2 == rc = "ok" /\ fault = "none"

(* picolSetGlobalVar() creates the variable in the top frame. *)
SetGlobalVar(x, v) == IF Global(x) = LINK THEN Faults("loop") ELSE Put(Root, x, v)

(* Mutant: a link is overwritten with the value. *)
SetVar_BreaksLink(x, v) == Put(callframe, x, v)

(* picolSetVar(): a variable without a value stands for the global one. *)
SetVar(x, v) == IF Local(x) = LINK THEN SetGlobalVar(x, v) ELSE Put(callframe, x, v)

Quiet == UNCHANGED vars
Error == rc' = "error" /\ UNCHANGED <<alloc, parent, callframe, level, stack, refused>>

-----------------------------------------------------------------------------
(* Also: the variable of foreach and of catch. *)
Set(x, v) == Running2 /\ SetVar(x, v) /\ Quiet

(* $x and `set x`; a link in the top frame is dereferenced by the first    *)
(* and reported by the second.                                             *)
Read(x) ==
  /\ Running2
  /\ \/ Seen(x) \in Values /\ Quiet /\ UNCHANGED <<vals, fault>>
     \/ Seen(x) = ABSENT /\ Error /\ UNCHANGED <<vals, fault>>
     \/ Seen(x) = LINK /\ Quiet /\ Faults("null")
     \/ Seen(x) = LINK /\ Error /\ UNCHANGED <<vals, fault>>

(* incr creates what does not exist. *)
Incr(x) ==
  /\ Running2 /\ Quiet
  /\ CASE Seen(x) = LINK -> Faults("null")
       [] Seen(x) = ABSENT -> SetVar(x, 1)
       [] OTHER -> SetVar(x, (Seen(x) % MaxInt) + 1)

(* append and lappend copy v->val before they look whether it is NULL. *)
AppendTo(x, v) ==
  /\ Running2 /\ Quiet
  /\ IF Local(x) = LINK THEN Faults("null") ELSE SetVar(x, v)

(* global does nothing outside procedures, and refuses a known name.       *)
Link(x) ==
  /\ Running2
  /\ \/ level = 0 /\ Quiet /\ UNCHANGED <<vals, fault>>
     \/ level > 0 /\ Local(x) # ABSENT /\ Error /\ UNCHANGED <<vals, fault>>
     \/ level > 0 /\ Local(x) = ABSENT /\ Quiet /\ Put(callframe, x, LINK)

(* variable x v: global, then a value for the global variable.             *)
Variable(x, v) ==
  /\ Running2
  /\ IF level > 0 /\ Local(x) # ABSENT
     THEN Error /\ UNCHANGED <<vals, fault>>
     ELSE /\ Quiet
          /\ IF level > 0 /\ callframe = Root THEN
               vals' = [vals EXCEPT ![Root][x] = LINK] /\ fault' = "loop"
             ELSE IF level > 0 /\ Global(x) # LINK THEN
               vals' = [vals EXCEPT ![callframe][x] = LINK, ![Root][x] = v] /\ UNCHANGED fault
             ELSE SetGlobalVar(x, v)

(* unset looks in the current frame only and drops a link, not its target. *)
Unset(x) == Running2 /\ Quiet /\ Put(callframe, x, ABSENT)

(* A call may have the variable as its parameter. *)
Call(f) ==
  /\ fault = "none" /\ CallProc(f) /\ UNCHANGED fault
  /\ \E args \in {NoVars} \union {[NoVars EXCEPT ![x] = 1] : x \in Names} :
       vals' = [vals EXCEPT ![f] = args]

Return ==
  /\ fault = "none" /\ LeaveProc /\ UNCHANGED fault
  /\ vals' = [vals EXCEPT ![callframe] = NoVars]

(* Everything else leaves the variables alone. *)
Control ==
  /\ fault = "none"
  /\ \/ \E f \in Frames : CallRefused(f) \/ WrongArgs(f)
     \/ \E delta \in {1, 2, MaxDepth} : Uplevel(delta)
     \/ \E kind \in {"catch", "eval", "if", "whiletest", "forinit", "foreach"} : Starts(kind)
     \/ Raises \/ LeaveUplevel \/ LeaveCatch \/ LeaveEval
     \/ If \/ While \/ For \/ Foreach \/ Reported
  /\ UNCHANGED <<vals, fault>>

Faulted == fault # "none" /\ UNCHANGED pVars

VarsInit == Init /\ vals = [f \in AllFrames |-> NoVars] /\ fault = "none"

VarsNext ==
  \/ \E f \in Frames : Call(f)
  \/ Return \/ Control \/ Faulted
  \/ \E x \in Names : Read(x) \/ Incr(x) \/ Link(x) \/ Unset(x)
  \/ \E x \in Names, v \in Values : Set(x, v) \/ AppendTo(x, v) \/ Variable(x, v)

VarsSpec == VarsInit /\ [][VarsNext]_pVars

-----------------------------------------------------------------------------
(* The frame that holds the variable called x in frame f, and its value.   *)
Owner(f, x) == IF vals[f][x] = LINK THEN Root ELSE f
SeenIn(f, x) == vals[Owner(f, x)][x]

(* A value a command has set is what every frame sees that shares the      *)
(* variable, by links of its own, whether or not the global existed before *)
(* the links; frames with a variable of that name of their own keep it.    *)
WritesAreRead ==
  [][\A x \in Names, v \in Values :
       Set(x, v) /\ fault' = "none" =>
         \A f \in alloc \union {Top} :
           SeenIn(f, x)' = IF Owner(f, x) = Owner(callframe, x) THEN v ELSE SeenIn(f, x)]_pVars
=============================================================================
