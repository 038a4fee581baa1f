---------------------------- MODULE PicolFrames ----------------------------
(***************************************************************************)
(* Call frames and control flow of the Picol interpreter,                  *)
(* src/pcl/picol.c.                                                        *)
(*                                                                         *)
(* Variables live in frames.  i->callframe points at the frame commands    *)
(* work in, a frame points at its caller's, and i->level counts procedure  *)
(* calls.  A command that evaluates a script (a procedure, a loop, catch)  *)
(* puts an activation on the C stack, here the sequence stack.  Scripts    *)
(* are not given: whenever the return code is "ok" the script in progress  *)
(* either starts any command or ends.  Any other code ends it at once      *)
(* (picolEval2, goto err), and the command that evaluated it decides what  *)
(* becomes of the code.                                                    *)
(*                                                                         *)
(* picolDropCallFrame() is applied to i->callframe, not to the frame its   *)
(* caller made, so frames stay right only if every command leaves          *)
(* i->callframe as it found it.                                            *)
(***************************************************************************)
EXTENDS Integers, Sequences, FiniteSets

CONSTANTS
  Frames,        \* blocks calloc() may return for a frame
  Top,           \* the frame picolInitInterp() makes
  NULL,          \* no frame
  MAXRECURSION,  \* the limit on i->level
  MaxDepth       \* bound: activations on the C stack

ASSUME FrameAssumption == /\ Top \notin Frames /\ NULL \notin Frames /\ Top # NULL
                          /\ MAXRECURSION \in Nat /\ MaxDepth \in Nat

VARIABLES
  alloc,      \* frames in use, besides Top
  parent,     \* cf->parent
  callframe,  \* i->callframe
  level,      \* i->level
  stack,      \* activations: [kind, own, at]
  rc,         \* PICOL_OK, or the code that unwinds the stack
  refused     \* history: the limit on i->level was hit

vars == <<alloc, parent, callframe, level, stack, rc, refused>>

AllFrames == Frames \union {Top}

Codes == {"ok", "error", "return", "break", "continue"}

(* What a script is evaluated for: a procedure's body, uplevel, catch; the *)
(* test of if; test and body of while; the four scripts of for; the body   *)
(* of foreach; eval stands for every command that only passes the code on  *)
(* (eval, the branches of if, switch, subst, lsort and brackets).          *)
Kinds == {"proc", "uplevel", "catch", "eval", "if", "whiletest", "while",
          "forinit", "for", "forstep", "fortest", "foreach"}

(* own is the frame a call made or uplevel saved, at is the frame whose    *)
(* variables the script of the activation is meant to see.                 *)
Activation(kind, own, at) == [kind |-> kind, own |-> own, at |-> at]

(* The types of the interpreter's fields; the level exceeds MAXRECURSION   *)
(* by at most one, since line 513 tests it before it is counted up.        *)
TypeOK ==
  /\ alloc \subseteq Frames
  /\ parent \in [AllFrames -> AllFrames \union {NULL}]
  /\ callframe \in alloc \union {Top}
  /\ level \in 0..(MAXRECURSION + 1)
  /\ stack \in Seq([kind : Kinds, own : AllFrames, at : AllFrames])
  /\ rc \in Codes
  /\ refused \in BOOLEAN

Init ==
  /\ alloc = {} /\ parent = [f \in AllFrames |-> NULL]
  /\ callframe = Top /\ level = 0 /\ stack = <<>> /\ rc = "ok"
  /\ refused = FALSE

Running == rc = "ok" /\ Len(stack) < MaxDepth
Inner == stack[Len(stack)]
Outer == SubSeq(stack, 1, Len(stack) - 1)

NewFrame(f) ==
  /\ f \in Frames \ alloc
  /\ alloc' = alloc \union {f}
  /\ parent' = [parent EXCEPT ![f] = callframe]

(* picolCallProc(): the frame is current before the level is tested. *)
CallProc(f) ==
  /\ Running
  /\ NewFrame(f)
  /\ callframe' = f
  /\ level <= MAXRECURSION
  /\ level' = level + 1
  /\ stack' = Append(stack, Activation("proc", f, f))
  /\ UNCHANGED <<rc, refused>>

(* Too many nested evaluations: an error, the frame stays. *)
CallRefused(f) ==
  /\ Running
  /\ NewFrame(f)
  /\ callframe' = f
  /\ level > MAXRECURSION
  /\ rc' = "error" /\ refused' = TRUE
  /\ UNCHANGED <<level, stack>>

(* Mutant: the frame of a call with wrong arguments is not dropped. *)
WrongArgs_Kept(f) ==
  /\ Running /\ level <= MAXRECURSION
  /\ NewFrame(f) /\ callframe' = f
  /\ rc' = "error"
  /\ UNCHANGED <<level, stack, refused>>

(* Wrong number of arguments: the frame is dropped again. *)
WrongArgs(f) ==
  /\ Running /\ level <= MAXRECURSION
  /\ f \in Frames \ alloc
  /\ rc' = "error"
  /\ UNCHANGED <<alloc, parent, callframe, level, stack, refused>>

(* uplevel: delta frames up, not beyond the last; "#0" is 9999. *)
Up(f) == IF parent[f] = NULL THEN f ELSE parent[f]

Ancestor(f, delta) ==
  LET at[n \in 0..delta] == IF n = 0 THEN f ELSE Up(at[n - 1]) IN at[delta]

Uplevel(delta) ==
  /\ Running
  /\ callframe' = Ancestor(callframe, delta)
  /\ stack' = Append(stack, Activation("uplevel", callframe, callframe'))
  /\ UNCHANGED <<alloc, parent, level, rc, refused>>

(* Other commands evaluate their scripts in the current frame. *)
Starts(kind) ==
  /\ Running
  /\ stack' = Append(stack, Activation(kind, callframe, callframe))
  /\ UNCHANGED <<alloc, parent, callframe, level, rc, refused>>

(* Any other command may fail; return, break and continue always do.       *)
Raises ==
  /\ rc = "ok"
  /\ rc' \in Codes \ {"ok"}
  /\ UNCHANGED <<alloc, parent, callframe, level, stack, refused>>

(* The command that evaluated the script ends, or goes on with another.    *)
End(code) ==
  /\ stack' = Outer /\ rc' = code
  /\ UNCHANGED <<alloc, parent, callframe, level, refused>>

GoTo(kind) ==
  /\ stack' = [stack EXCEPT ![Len(stack)].kind = kind] /\ rc' = "ok"
  /\ UNCHANGED <<alloc, parent, callframe, level, refused>>

In(kind) == stack # <<>> /\ Inner.kind = kind

LeaveEval == In("eval") /\ End(rc)

(* A test that succeeds leaves 0 or 1 in i->result. *)
If ==
  /\ In("if")
  /\ \/ rc = "ok" /\ (GoTo("eval") \/ End("ok"))
     \/ rc # "ok" /\ End(rc)

While ==
  \/ /\ In("whiletest")
     /\ \/ rc = "ok" /\ (GoTo("while") \/ End("ok"))
        \/ rc # "ok" /\ End(rc)
  \/ /\ In("while")
     /\ \/ rc \in {"ok", "continue"} /\ GoTo("whiletest")
        \/ rc = "break" /\ End("ok")
        \/ rc \in {"error", "return"} /\ End(rc)

(* The body comes before the first test.  A return in it is swallowed.     *)
For ==
  \/ /\ In("forinit")
     /\ IF rc = "ok" THEN GoTo("for") ELSE End(rc)
  \/ /\ In("for")
     /\ \/ rc = "break" /\ End("ok")
        \/ rc = "error" /\ End(rc)
        \/ rc \in {"ok", "return", "continue"} /\ GoTo("forstep")
  \/ /\ In("forstep")
     /\ IF rc = "ok" THEN GoTo("fortest") ELSE End(rc)
  \/ /\ In("fortest")
     /\ \/ rc = "ok" /\ (GoTo("for") \/ End("ok"))
        \/ rc # "ok" /\ End(rc)

(* Mutant: the loop goes on after an error. *)
Foreach_OnlyBreak ==
  /\ In("foreach")
  /\ \/ rc = "break" /\ End(rc)
     \/ rc # "break" /\ (GoTo("foreach") \/ End("ok"))

(* A break is passed on to the script around the loop. *)
Foreach ==
  /\ In("foreach")
  /\ \/ rc \in {"error", "break"} /\ End(rc)
     \/ rc \in {"ok", "return", "continue"} /\ (GoTo("foreach") \/ End("ok"))

(* Mutant: the level is not put back after an error. *)
LeaveProc_LevelStays ==
  /\ In("proc")
  /\ alloc' = alloc \ {callframe}
  /\ callframe' = parent[callframe]
  /\ level' = IF rc = "ok" THEN level - 1 ELSE level
  /\ stack' = Outer
  /\ parent' = [parent EXCEPT ![callframe] = NULL]
  /\ rc' = IF rc = "return" THEN "ok" ELSE rc
  /\ UNCHANGED refused

(* A procedure ends, by whatever code: picolDropCallFrame().  Only return  *)
(* becomes ok.  What a freed frame holds is of no interest.                *)
LeaveProc ==
  /\ In("proc")
  /\ alloc' = alloc \ {callframe}
  /\ callframe' = parent[callframe]
  /\ level' = level - 1
  /\ stack' = Outer
  /\ parent' = [parent EXCEPT ![callframe] = NULL]
  /\ rc' = IF rc = "return" THEN "ok" ELSE rc
  /\ UNCHANGED refused

(* Mutant: an error leaves uplevel before the frame is put back. *)
LeaveUplevel_NotOnError ==
  /\ In("uplevel")
  /\ callframe' = IF rc = "ok" THEN Inner.own ELSE callframe
  /\ stack' = Outer
  /\ UNCHANGED <<alloc, parent, level, rc, refused>>

LeaveUplevel ==
  /\ In("uplevel")
  /\ callframe' = Inner.own
  /\ stack' = Outer
  /\ UNCHANGED <<alloc, parent, level, rc, refused>>

(* catch turns the return code into a result. *)
LeaveCatch == In("catch") /\ End("ok")

(* The command line is through, with a code; the next one may come. *)
Reported ==
  /\ stack = <<>> /\ rc # "ok"
  /\ rc' = "ok"
  /\ UNCHANGED <<alloc, parent, callframe, level, stack, refused>>

Next ==
  \/ \E f \in Frames : CallProc(f) \/ CallRefused(f) \/ WrongArgs(f)
  \/ Uplevel(1) \/ Uplevel(2) \/ Uplevel(MaxDepth)
  \/ \E kind \in {"catch", "eval", "if", "whiletest", "forinit", "foreach"} : Starts(kind)
  \/ Raises \/ LeaveProc \/ LeaveUplevel \/ LeaveCatch \/ LeaveEval
  \/ If \/ While \/ For \/ Foreach \/ Reported

Spec == Init /\ [][Next]_vars

-----------------------------------------------------------------------------
(* A script works in the frame it was started in, whatever the calls,      *)
(* uplevels and caught errors before this point did: a command typed at    *)
(* the prompt sees the global variables.  Until the limit was hit.         *)
OwnFrame ==
  ~refused => callframe = IF stack = <<>> THEN Top ELSE Inner.at

(* Only catch and the prompt put an error aside; no loop swallows one. *)
ErrorsAreSeen ==
  [][rc = "error" /\ rc' # "error" => stack = <<>> \/ In("catch")]_vars

(* The procedure calls in progress. *)
Procs == {i \in DOMAIN stack : stack[i].kind = "proc"}

(* Every frame belongs to a call in progress, and is given back when the   *)
(* call ends.  Until the limit was hit.                                    *)
FramesAreCalls == ~refused => alloc = {stack[i].own : i \in Procs}

(* The frame and all its callers are in use. *)
Live(f) == \A n \in 0..(MaxDepth + 1) : Ancestor(f, n) \in alloc \union {Top}

(* Even after the limit was hit no freed frame is used: the current frame, *)
(* the frames uplevel will go back to and all their callers are in use,    *)
(* and the level counts the calls.                                         *)
FramesLive ==
  /\ Live(callframe)
  /\ \A i \in DOMAIN stack : stack[i].kind = "uplevel" => Live(stack[i].own)
  /\ level = Cardinality(Procs)

(* "parent is NULL at top level" (picol.h): between two command lines the  *)
(* current frame is the one without a parent.                              *)
TopLevelHasNoParent == stack = <<>> => parent[callframe] = NULL
=============================================================================
