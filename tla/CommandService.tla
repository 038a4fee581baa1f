--------------------------- MODULE CommandService ---------------------------
(***************************************************************************)
(* What the telnet shell promises about a PCL command line: one line at a  *)
(* time is accepted, it is evaluated exactly once, and the answer shown is *)
(* the result and the return code of that very evaluation.  Only once the  *)
(* device is on its way to a reset may a line be given up unevaluated.     *)
(*                                                                         *)
(* PclExec implements this service with two threads, a shared string and   *)
(* two event flags.                                                        *)
(***************************************************************************)
EXTENDS Naturals, Sequences

CONSTANTS Cmds, NIL

(* A text is a command line or what evaluating one left in interp->result. *)
Line(c)  == [kind |-> "line", of |-> c]
Output(c) == [kind |-> "output", of |-> c]

VARIABLES
  req,       \* the line being served, NIL when none is
  stage,     \* how far it got
  typed,     \* the lines accepted so far
  ran,       \* every evaluation done for the shell, with its return code
  answers,   \* every answer shown
  open       \* FALSE once the device shuts down

vars == <<req, stage, typed, ran, answers, open>>

Init == /\ req = NIL
        /\ stage = "idle"
        /\ typed = {}
        /\ ran = <<>>
        /\ answers = <<>>
        /\ open = TRUE

Submit(c) == /\ stage = "idle"
             /\ c \notin typed
             /\ req' = c
             /\ stage' = "posted"
             /\ typed' = typed \union {c}
             /\ UNCHANGED <<ran, answers, open>>

Execute == /\ stage = "posted"
           /\ open
           /\ stage' = "executed"
           /\ \E r \in {0, 1} :
                ran' = Append(ran, [text |-> Line(req), ret |-> r])
           /\ UNCHANGED <<req, typed, answers, open>>

Answer == /\ stage = "executed"
          /\ stage' = "idle"
          /\ req' = NIL
          /\ answers' = Append(answers, [cmd |-> req, text |-> Output(req),
                                         ret |-> ran[Len(ran)].ret])
          /\ UNCHANGED <<typed, ran, open>>

Abandon == /\ stage = "posted"
           /\ ~open
           /\ stage' = "idle"
           /\ req' = NIL
           /\ UNCHANGED <<typed, ran, answers, open>>

Close == /\ open
         /\ open' = FALSE
         /\ UNCHANGED <<req, stage, typed, ran, answers>>

Next == (\E c \in Cmds : Submit(c)) \/ Execute \/ Answer \/ Abandon \/ Close

Fairness == WF_vars(Execute) /\ WF_vars(Answer) /\ WF_vars(Abandon)

Spec == Init /\ [][Next]_vars /\ Fairness
=============================================================================
