--------------------------- MODULE PclExecProofs ---------------------------
(***************************************************************************)
(* Proofs about PclExec: its types, the hand-off between the two threads,  *)
(* the command service they implement; for every set of commands and heap. *)
(***************************************************************************)
EXTENDS PclExec, TLAPS

(***************************************************************************)
(* Every variable keeps its type.                                          *)
(***************************************************************************)
(* The texts an evaluation can leave, garbage included, are texts. *)
LEMMA TextTypes ==
  /\ \A c \in Cmds : Line(c) \in Texts /\ Output(c) \in Texts
  /\ Garbage \in Texts
BY DEF Texts

(* strdup() into pcl_str keeps the types of the pointer and of the heap. *)
LEMMA StrdupType ==
  ASSUME NEW t \in Texts, NEW h \in [Blocks -> Texts \union {Freed}],
         StrdupToMailbox(t, h)
  PROVE  pclStr' \in Blocks \union {NIL} /\ heap' \in [Blocks -> Texts \union {Freed}]
BY DEF StrdupToMailbox

(* So does free(). *)
LEMMA WithoutType ==
  ASSUME NEW h \in [Blocks -> Texts \union {Freed}], NEW p
  PROVE  Without(h, p) \in [Blocks -> Texts \union {Freed}]
BY DEF Without

(* Entering picolEval(), or queueing for the mutex, keeps main's types. *)
LEMMA StartEvalType ==
  ASSUME TypeOK, NEW k \in EvalKinds, NEW p \in Blocks \union {NIL}, StartEval(k, p)
  PROVE  /\ mainPc' \in Evaluating
         /\ job' = k
         /\ job' \in EvalKinds \union {"none"}
         /\ evalPtr' \in Blocks \union {NIL}
         /\ evalText' \in Texts
         /\ mutex' \in {"free", "main", "web"}
<1>1. ReadText(p) \in Texts
  BY TextTypes DEF ReadText, TypeOK, Live
<1> QED
  BY <1>1 DEF StartEval, TypeOK, MainPcs, Evaluating

(* The state main() leaves to the threads is well typed. *)
THEOREM TypeInit == Init => TypeOK
<1> SUFFICES ASSUME Init PROVE TypeOK
  OBVIOUS
<1>1. heap \in [Blocks -> Texts \union {Freed}]
  BY DEF Init
<1>2. /\ ran \in Seq([text : Texts, ret : {0, 1}])
      /\ answers \in Seq([cmd : Cmds \union {NIL}, text : Texts, code : SUBSET WebEvents])
      /\ presses \in 0..MaxPresses
  BY EnvAssumption DEF Init
<1>3. /\ mainPc \in MainPcs /\ mainPc \notin Evaluating
      /\ webPc \in WebPcs /\ webPc \notin Serving
  BY DEF Init, MainPcs, WebPcs, Evaluating, Serving
<1>4. /\ batch \subseteq MainEvents /\ pendMain \subseteq MainEvents
      /\ pendWeb \subseteq WebEvents /\ code \subseteq WebEvents
      /\ typed \subseteq Cmds
  BY DEF Init
<1>5. evalText \in Texts /\ result \in Texts
  BY TextTypes DEF Init
<1>6. /\ job \in EvalKinds \union {"none"} /\ evalPtr \in Blocks \union {NIL}
      /\ ret \in {0, 1} /\ restartOs \in 0..2 /\ cmd \in Cmds \union {NIL}
      /\ pclStr \in Blocks \union {NIL}
      /\ mutex \in {"free", "main", "web"} /\ wdt \in {"running", "ended"}
  BY DEF Init
<1>7. webTerm \in BOOLEAN /\ heapFault \in BOOLEAN
  BY DEF Init
<1> QED
  BY <1>1, <1>2, <1>3, <1>4, <1>5, <1>6, <1>7 DEF TypeOK

(* No step of either thread, the watchdog or the interrupt breaks a type. *)
THEOREM TypeStep == TypeOK /\ [Next]_vars => TypeOK'
<1> SUFFICES ASSUME TypeOK, [Next]_vars PROVE TypeOK'
  OBVIOUS
<1> USE DEF mainVars, webVars, heapVars, evtVars, sysVars, histVars, MainPcs, WebPcs,
            Evaluating, Serving
<1>1. CASE MainTop
  <2>1. CASE StartEval("timer", NIL)
    BY <1>1, <2>1, StartEvalType DEF MainTop, TypeOK, EvalKinds
  <2>2. CASE mainPc' = "wait" /\ UNCHANGED <<job, evalPtr, evalText, mutex>>
    BY <1>1, <2>2 DEF MainTop, TypeOK
  <2> QED BY <1>1, <2>1, <2>2 DEF MainTop
<1>2. CASE MainWait
  BY <1>2 DEF MainWait, TypeOK
<1>3. CASE BatchCmdStart
  <2>1. CASE pclStr # NIL
    <3>1. StartEval("cmd", pclStr)
      BY <1>3, <2>1 DEF BatchCmdStart
    <3> QED BY <1>3, <2>1, <3>1, StartEvalType DEF BatchCmdStart, TypeOK, EvalKinds
  <2>2. CASE pclStr = NIL
    <3>1. pendWeb' \subseteq WebEvents
      BY <1>3, <2>2 DEF BatchCmdStart, TypeOK, SignalWeb, WebEvents
    <3> QED BY <1>3, <2>2, <3>1 DEF BatchCmdStart, TypeOK
  <2> QED BY <2>1, <2>2
<1>4. CASE BatchPclUpd
  <2>1. CASE StartEval("load", NIL)
    BY <1>4, <2>1, StartEvalType DEF BatchPclUpd, TypeOK, EvalKinds
  <2>2. CASE UNCHANGED <<mainPc, job, evalPtr, evalText, mutex>>
    BY <1>4, <2>2 DEF BatchPclUpd, TypeOK
  <2> QED BY <1>4, <2>1, <2>2 DEF BatchPclUpd
<1>5. CASE BatchFwUpg
  BY <1>5 DEF BatchFwUpg, TypeOK
<1>6. CASE BatchRest
  <2>1. CASE StartEval("btn", NIL)
    BY <1>6, <2>1, StartEvalType DEF BatchRest, TypeOK, EvalKinds
  <2>2. CASE mainPc' \in {"joinWdt", "top"} /\ UNCHANGED <<job, evalPtr, evalText, mutex>>
    BY <1>6, <2>2 DEF BatchRest, TypeOK
  <2> QED BY <1>6, <2>1, <2>2 DEF BatchRest
<1>7. CASE MainAwakes
  BY <1>7 DEF MainAwakes, TypeOK
<1>8. CASE MainEvalDone
  <2>1. mainPc' \in MainPcs
    BY <1>8 DEF MainEvalDone, TypeOK, MainPcs, AfterEval, EvalKinds
  <2>2. result' \in Texts
    <3>1. evalText.kind = "line" => Output(evalText.of) \in Texts
      BY DEF TypeOK, Texts, Line, Output, Garbage
    <3> QED BY <1>8, <3>1, TextTypes DEF MainEvalDone, EvalResult
  <2>3. mutex' \in {"free", "main", "web"} /\ webPc' \in WebPcs
    BY <1>8 DEF MainEvalDone, MainUnlock, TypeOK
  <2>4. ret' \in {0, 1} /\ ran' \in Seq([text : Texts, ret : {0, 1}])
    <3>1. CASE job = "cmd"
      <4>1. PICK r \in {0, 1} : ret' = r /\ ran' = Append(ran, [text |-> evalText, ret |-> r])
        BY <1>8, <3>1 DEF MainEvalDone
      <4> QED BY <4>1 DEF TypeOK
    <3>2. CASE job # "cmd"
      BY <1>8, <3>2 DEF MainEvalDone, TypeOK
    <3> QED BY <3>1, <3>2
  <2>5. /\ mainPc' \notin Evaluating
        /\ webPc' \in Serving => cmd' \in Cmds
    BY <1>8 DEF MainEvalDone, MainUnlock, AfterEval, TypeOK, EvalKinds
  <2>6. evalText' \in Texts
    BY <1>8, TextTypes DEF MainEvalDone, TypeOK
  <2> QED
    BY <1>8, <2>1, <2>2, <2>3, <2>4, <2>5, <2>6 DEF MainEvalDone, TypeOK
<1>9. CASE MainBootCb
  BY <1>9, StartEvalType DEF MainBootCb, TypeOK, EvalKinds
<1>10. CASE MainPublish
  <2>1. StrdupToMailbox(result, Without(heap, pclStr))
    BY <1>10 DEF MainPublish
  <2>2. pclStr' \in Blocks \union {NIL} /\ heap' \in [Blocks -> Texts \union {Freed}]
    BY <2>1, WithoutType, StrdupType DEF TypeOK
  <2>3. pendWeb' \subseteq WebEvents
    BY <1>10 DEF MainPublish, SignalWeb, WebEvents, TypeOK
  <2> QED BY <1>10, <2>2, <2>3 DEF MainPublish, TypeOK
<1>11. CASE MainJoinWdt
  BY <1>11 DEF MainJoinWdt, TypeOK
<1>12. CASE MainGrace
  BY <1>12 DEF MainGrace, TypeOK
<1>13. CASE MainReset
  BY <1>13 DEF MainReset, TypeOK
<1>14. CASE WdtEnds
  BY <1>14 DEF WdtEnds, TypeOK
<1>15. CASE ButtonIrq
  BY <1>15, EnvAssumption DEF ButtonIrq, TypeOK, SignalMain, MainEvents
<1>16. CASE WebSignalsMain
  BY <1>16 DEF WebSignalsMain, TypeOK, SignalMain, MainEvents, LoopHead
<1>17. CASE WebTick
  BY <1>17 DEF WebTick, TypeOK
<1>18. CASE WebStrayEvent
  BY <1>18 DEF WebStrayEvent, TypeOK
<1>19. CASE WebEvalStart
  BY <1>19 DEF WebEvalStart, TypeOK
<1>20. CASE WebEvalDone
  BY <1>20, TextTypes DEF WebEvalDone, TypeOK, MainPcs, LoopHead
<1>21. CASE \E c \in Cmds : WebCommand(c)
  BY <1>21 DEF WebCommand, TypeOK
<1>22. CASE WebFreeOld
  BY <1>22, WithoutType DEF WebFreeOld, TypeOK
<1>23. CASE WebPost
  <2>1. pclStr' \in Blocks \union {NIL} /\ heap' \in [Blocks -> Texts \union {Freed}]
    BY <1>23, TextTypes, StrdupType DEF WebPost, TypeOK
  <2> QED BY <1>23, <2>1 DEF WebPost, TypeOK
<1>24. CASE WebSignal
  BY <1>24 DEF WebSignal, SignalMain, MainEvents, TypeOK
<1>25. CASE WebAnswered
  BY <1>25 DEF WebAnswered, TypeOK
<1>26. CASE WebTimeout
  BY <1>26 DEF WebTimeout, TypeOK
<1>27. CASE WebReply
  <2>1. ReadText(pclStr) \in Texts
    BY TextTypes DEF ReadText, TypeOK, Live
  <2>2. answers' \in Seq([cmd : Cmds \union {NIL}, text : Texts, code : SUBSET WebEvents])
    BY <1>27, <2>1 DEF WebReply, TypeOK
  <2> QED BY <1>27, <2>2 DEF WebReply, TypeOK
<1>28. CASE WebDrop
  BY <1>28, WithoutType DEF WebDrop, TypeOK
<1>29. CASE WebClear
  BY <1>29 DEF WebClear, TypeOK
<1>30. CASE WebPrompt
  BY <1>30 DEF WebPrompt, LoopHead, TypeOK
<1>31. CASE UNCHANGED vars
  BY <1>31 DEF vars, TypeOK
<1> QED
  BY <1>1, <1>2, <1>3, <1>4, <1>5, <1>6, <1>7, <1>8, <1>9, <1>10, <1>11, <1>12, <1>13,
     <1>14, <1>15, <1>16, <1>17, <1>18, <1>19, <1>20, <1>21, <1>22, <1>23, <1>24, <1>25,
     <1>26, <1>27, <1>28, <1>29, <1>30, <1>31
     DEF Next, MainStep, WebStep, WebServe, WebInput, Stop

(* TypeOK holds in every reachable state. *)
THEOREM TypeCorrect == Spec => []TypeOK
BY TypeInit, TypeStep, PTL DEF Spec

(***************************************************************************)
(* The hand-off.  pcl_str owns the one live block, if there is one, from   *)
(* the strdup of pcl_exec2 to its last free; EVT_CMDSTART is in exactly    *)
(* one place while WebThread waits and nowhere otherwise, until main has   *)
(* left its loop.                                                          *)
(***************************************************************************)
Held == {"signal", "wait", "reply", "drop"}

(* Who owns the heap: pcl_str, or nobody. *)
OwnInv ==
  /\ webPc \in Held => Live(heap) = {pclStr} \ {NIL}
  /\ webPc \in Held /\ ~HeapFull => pclStr # NIL
  /\ webPc \notin Held => Live(heap) = {}
  /\ webPc \notin Held /\ webPc # "clear" => pclStr = NIL
  /\ webPc = "signal" /\ pclStr # NIL => heap[pclStr] = Line(cmd)
  /\ ~heapFault

(* A command main has been told of is one WebThread waits for, unanswered. *)
CmdInv ==
  mainPc \notin Shutdown /\ ("CMDSTART" \in pendMain \/ "CMDSTART" \in batch) =>
    /\ webPc = "wait"
    /\ pendWeb = {}
    /\ pclStr # NIL => heap[pclStr] = Line(cmd)

BatchInv ==
  /\ mainPc \notin Shutdown => ~("CMDSTART" \in pendMain /\ "CMDSTART" \in batch)
  /\ "CMDSTART" \in batch /\ mainPc \notin Shutdown =>
       \/ mainPc \in {"batch", "publish"}
       \/ mainPc \in Evaluating /\ job = "cmd"
  /\ mainPc = "publish" => "CMDSTART" \in batch
  /\ mainPc \in Evaluating /\ job = "cmd" =>
       "CMDSTART" \in batch /\ pclStr # NIL /\ evalPtr = pclStr /\ evalText = Line(cmd)

(* One answer at a time, and only for a waiting WebThread. *)
AnswerInv == NoStrayPclEvent

HandoffInv == TypeOK /\ OwnInv /\ CmdInv /\ BatchInv /\ AnswerInv

(* main() starts the threads with an empty mailbox and nothing pending. *)
LEMMA HandoffInit == Init => HandoffInv
<1> SUFFICES ASSUME Init PROVE HandoffInv
  OBVIOUS
<1>1. Live(heap) = {}
  BY DEF Init, Live
<1> QED
  BY <1>1, TypeInit DEF Init, HandoffInv, OwnInv, CmdInv, BatchInv, AnswerInv,
     NoStrayPclEvent, Held, Evaluating

(* When pcl_str owned what was on the heap and has been freed, it owns what *)
(* strdup() returns, which is NULL only when the heap may be full.         *)
LEMMA StrdupOwns ==
  ASSUME TypeOK, NEW t, t # Freed, Live(heap) = {pclStr} \ {NIL},
         StrdupToMailbox(t, Without(heap, pclStr))
  PROVE  /\ Live(heap)' = {pclStr'} \ {NIL}
         /\ ~HeapFull => pclStr' # NIL
         /\ pclStr' # NIL => heap'[pclStr'] = t
<1> DEFINE h == Without(heap, pclStr)
<1>1. h = [b \in Blocks |-> Freed]
  BY DEF TypeOK, Without, Live
<1>2. Live(h) = {}
  BY <1>1 DEF Live
<1>3. CASE HeapFull /\ pclStr' = NIL /\ heap' = h
  BY <1>2, <1>3 DEF Live
<1>4. CASE \E b \in Blocks \ Live(h) : pclStr' = b /\ heap' = [h EXCEPT ![b] = t]
  <2>1. PICK b \in Blocks : pclStr' = b /\ heap' = [h EXCEPT ![b] = t]
    BY <1>4
  <2>2. Live(heap)' = {b} /\ heap'[b] = t
    BY <1>1, <2>1 DEF Live
  <2> QED BY <2>1, <2>2, NilAssumption
<1> QED
  BY <1>2, <1>3, <1>4, HeapAssumption DEF StrdupToMailbox

(* Every step of main and WebThread keeps the hand-off, case by case. *)
LEMMA HandoffStep ==
  ASSUME ~Overrun, HandoffInv, [Next]_vars
  PROVE  OwnInv' /\ CmdInv' /\ BatchInv' /\ AnswerInv'
<1> USE DEF mainVars, webVars, heapVars, evtVars, sysVars, histVars, Evaluating, Shutdown,
            Held, HandoffInv, OwnInv, CmdInv, BatchInv, AnswerInv, NoStrayPclEvent, Live
<1>1. CASE MainTop
  BY <1>1 DEF MainTop, StartEval
<1>2. CASE MainWait
  BY <1>2 DEF MainWait
<1>3. CASE BatchCmdStart
  BY <1>3 DEF BatchCmdStart, StartEval, SignalWeb, ReadText
<1>4. CASE BatchPclUpd
  BY <1>4 DEF BatchPclUpd, StartEval
<1>5. CASE BatchFwUpg
  BY <1>5 DEF BatchFwUpg
<1>6. CASE BatchRest
  BY <1>6 DEF BatchRest, StartEval
<1>7. CASE MainAwakes
  BY <1>7 DEF MainAwakes
<1>8. CASE MainEvalDone
  <2>1. mainPc' = AfterEval[job] /\ job \in EvalKinds
    BY <1>8 DEF MainEvalDone, TypeOK
  <2>2. job = "cmd" => mainPc' = "publish"
    BY <2>1 DEF AfterEval, EvalKinds
  <2>3. job # "cmd" => mainPc' \in {"bootcb", "batch", "wait", "top"}
    BY <2>1 DEF AfterEval, EvalKinds
  <2> QED
    BY <1>8, <2>2, <2>3 DEF MainEvalDone, MainUnlock
<1>9. CASE MainBootCb
  BY <1>9 DEF MainBootCb, StartEval
<1>10. CASE MainPublish
  <2>1. webPc = "wait" /\ pendWeb = {} /\ "CMDSTART" \notin pendMain
    BY <1>10 DEF MainPublish
  <2>2. Live(heap) = {pclStr} \ {NIL} /\ ~heapFault'
    BY <1>10, <2>1 DEF MainPublish, BadFree
  <2>3. StrdupToMailbox(result, Without(heap, pclStr))
    BY <1>10 DEF MainPublish
  <2>4. result # Freed
    BY DEF TypeOK, Texts, Line, Output, Garbage, Freed
  <2>5. Live(heap)' = {pclStr'} \ {NIL} /\ (~HeapFull => pclStr' # NIL)
    BY <2>2, <2>3, <2>4, StrdupOwns
  <2>6. pendWeb' \in {{"PCLOK"}, {"PCLERR"}}
    BY <1>10, <2>1 DEF MainPublish, SignalWeb
  <2> QED
    BY <1>10, <2>1, <2>2, <2>5, <2>6 DEF MainPublish
<1>11. CASE MainJoinWdt
  BY <1>11 DEF MainJoinWdt
<1>12. CASE MainGrace
  BY <1>12 DEF MainGrace
<1>13. CASE MainReset
  BY <1>13 DEF MainReset
<1>14. CASE WdtEnds
  BY <1>14 DEF WdtEnds
<1>15. CASE ButtonIrq
  BY <1>15 DEF ButtonIrq, SignalMain
<1>16. CASE WebSignalsMain
  BY <1>16 DEF WebSignalsMain, SignalMain, LoopHead
<1>17. CASE WebTick
  BY <1>17 DEF WebTick
<1>18. CASE WebStrayEvent
  BY <1>18 DEF WebStrayEvent
<1>19. CASE WebEvalStart
  BY <1>19 DEF WebEvalStart
<1>20. CASE WebEvalDone
  BY <1>20 DEF WebEvalDone, LoopHead
<1>21. CASE \E c \in Cmds : WebCommand(c)
  BY <1>21 DEF WebCommand
<1>22. CASE WebFreeOld
  BY <1>22 DEF WebFreeOld, Without, BadFree
<1>23. CASE WebPost
  <2>1. Live(heap) = {} /\ pclStr = NIL
    BY <1>23 DEF WebPost
  <2>2. Line(cmd) # Freed
    BY DEF Line, Freed
  <2>3. heap = Without(heap, pclStr)
    BY <2>1 DEF Without, TypeOK
  <2>4. StrdupToMailbox(Line(cmd), Without(heap, pclStr))
    BY <1>23, <2>3 DEF WebPost
  <2>5. /\ Live(heap)' = {pclStr'} \ {NIL}
        /\ ~HeapFull => pclStr' # NIL
        /\ pclStr' # NIL => heap'[pclStr'] = Line(cmd)
    BY <2>1, <2>2, <2>4, StrdupOwns
  <2> QED
    BY <1>23, <2>5 DEF WebPost
<1>24. CASE WebSignal
  BY <1>24 DEF WebSignal, SignalMain, MainBlocked
<1>25. CASE WebAnswered
  BY <1>25 DEF WebAnswered, MainBlocked
<1>26. CASE WebTimeout
  BY <1>26 DEF WebTimeout, MainBlocked
<1>27. CASE WebReply
  BY <1>27 DEF WebReply
<1>28. CASE WebDrop
  BY <1>28 DEF WebDrop, Without, BadFree, Live
<1>29. CASE WebClear
  BY <1>29 DEF WebClear
<1>30. CASE WebPrompt
  BY <1>30 DEF WebPrompt, LoopHead
<1>31. CASE UNCHANGED vars
  BY <1>31 DEF vars
<1> QED
  BY <1>1, <1>2, <1>3, <1>4, <1>5, <1>6, <1>7, <1>8, <1>9, <1>10, <1>11, <1>12, <1>13,
     <1>14, <1>15, <1>16, <1>17, <1>18, <1>19, <1>20, <1>21, <1>22, <1>23, <1>24, <1>25,
     <1>26, <1>27, <1>28, <1>29, <1>30, <1>31
     DEF Next, MainStep, WebStep, WebServe, WebInput, Stop

(* The hand-off invariant contains what the shell relies on. *)
LEMMA HandoffSafe ==
  HandoffInv => /\ EvaluatedLineIsHeld
                /\ NoDoubleFree
                /\ MailboxReleased
                /\ NoStrayPclEvent
BY DEF HandoffInv, OwnInv, CmdInv, BatchInv, AnswerInv, EvaluatedLineIsHeld, NoDoubleFree,
       MailboxReleased, Held, Evaluating, Shutdown

(* As long as no evaluation outlasts the wait of pcl_exec2, HandoffInv     *)
(* holds in every reachable state.                                         *)
THEOREM HandoffInvariant ==
  ASSUME ~Overrun
  PROVE  Spec => []HandoffInv
<1>1. HandoffInv /\ [Next]_vars => HandoffInv'
  BY HandoffStep, TypeStep DEF HandoffInv
<1> QED
  BY <1>1, HandoffInit, PTL DEF Spec

(* The string main evaluates (main.c:149) is not freed or replaced by      *)
(* pcl_exec2 while main is in it.                                          *)
THEOREM LineHeld ==
  ASSUME ~Overrun
  PROVE  Spec => []EvaluatedLineIsHeld
BY HandoffInvariant, HandoffSafe, PTL

(* The frees of pcl_str in main.c and pcl_sam.c never meet a dead block.   *)
THEOREM MailboxSafe ==
  ASSUME ~Overrun
  PROVE  Spec => []NoDoubleFree
BY HandoffInvariant, HandoffSafe, PTL

(* After each command pcl_str is NULL and nothing is left on the heap      *)
(* (pcl_sam.c:1219-1221).                                                  *)
THEOREM MailboxEmptied ==
  ASSUME ~Overrun
  PROVE  Spec => []MailboxReleased
BY HandoffInvariant, HandoffSafe, PTL

(* WebThread never dispatches a PCL event through evhndl.                  *)
THEOREM NoStray ==
  ASSUME ~Overrun
  PROVE  Spec => []NoStrayPclEvent
BY HandoffInvariant, HandoffSafe, PTL

-----------------------------------------------------------------------------
(***************************************************************************)
(* PclExec implements CommandService: two threads, a shared string and two *)
(* event flags do what the one-line-at-a-time service does.                *)
(*                                                                         *)
(* The hand-off says who owns the string.  The service is also about what  *)
(* has been evaluated: RanInv ties the history of evaluations to the place *)
(* of the command in the two threads.                                      *)
(***************************************************************************)
Entries == [text : Texts, ret : {0, 1}]
Shown   == [cmd : Cmds \union {NIL}, text : Texts, code : SUBSET WebEvents]

(* The last evaluation was of the command being served, with return code r. *)
LastIs(r) == ran # <<>> /\ ran[Len(ran)] = [text |-> Line(cmd), ret |-> r]

(* What pcl_exec2 wakes with for return code r. *)
Flag(r) == {IF r # 0 THEN "PCLERR" ELSE "PCLOK"}

(* Only lines that were typed have been evaluated. *)
TypedInv ==
  /\ \A i \in DOMAIN ran : \E c \in typed : ran[i].text = Line(c)
  /\ webPc \in Serving => cmd \in typed

(* The command served has not been evaluated until main has done so. *)
PostedInv ==
  webPc \in {"free", "post", "signal"} \/ (webPc = "wait" /\ pendWeb = {} /\ mainPc # "publish")
    => ~Executed

(* From then on it is the last one, its result waits to be published, ... *)
EvaluatedInv == mainPc = "publish" => LastIs(ret) /\ result = Output(cmd)

(* ... and then is in pcl_str, with the flag of its return code. *)
PublishedInv ==
  /\ webPc = "wait" /\ pendWeb # {} =>
       heap[pclStr] = Output(cmd) /\ \E r \in {0, 1} : LastIs(r) /\ pendWeb = Flag(r)
  /\ webPc = "reply" =>
       heap[pclStr] = Output(cmd) /\ \E r \in {0, 1} : LastIs(r) /\ code = Flag(r)

RanInv == TypedInv /\ PostedInv /\ EvaluatedInv /\ PublishedInv

-----------------------------------------------------------------------------
(* One more evaluation in the history. *)
LEMMA RanAppended ==
  ASSUME NEW s \in Seq(Entries), NEW e \in Entries, NEW t, t = Append(s, e)
  PROVE  /\ Len(s) \in Nat /\ Len(t) = Len(s) + 1 /\ t # <<>>
         /\ DOMAIN s = 1..Len(s) /\ DOMAIN t = 1..(Len(s) + 1)
         /\ \A i \in 1..Len(s) : t[i] = s[i]
         /\ t[Len(t)] = e
OBVIOUS

(* Lines are as different as the commands. *)
LEMMA LinesDiffer == \A c, d : Line(c) = Line(d) => c = d
BY DEF Line

(* At the start nothing has been asked or run. *)
LEMMA RanInit == Init => RanInv
BY DEF Init, RanInv, TypedInv, PostedInv, EvaluatedInv, PublishedInv, Serving, Executed

(* Steps on the way to the post, and steps of nobody's concern: they leave  *)
(* the command and the history alone, and the mailbox once it is posted.   *)
LEMMA RanStill ==
  ASSUME RanInv, AnswerInv, UNCHANGED <<ran, typed, cmd, code, ret, pendWeb>>,
         webPc \in {"wait", "reply"} => UNCHANGED <<pclStr, heap>>,
         \/ webPc' = webPc \/ webPc' \notin Serving
         \/ webPc \in {"free", "post", "signal"} /\ webPc' \in {"post", "signal", "wait"},
         mainPc' = mainPc \/ mainPc # "publish",
         mainPc' = "publish" => mainPc = "publish" /\ result' = result
  PROVE  RanInv'
<1> USE DEF RanInv, Serving, Executed, LastIs
<1>1. TypedInv'
  BY DEF TypedInv
<1>2. PostedInv'
  BY DEF PostedInv
<1>3. EvaluatedInv'
  BY DEF EvaluatedInv
<1>4. PublishedInv'
  BY DEF PublishedInv, AnswerInv, NoStrayPclEvent
<1> QED BY <1>1, <1>2, <1>3, <1>4

(* The evaluation of the command: its line joins the history and its       *)
(* result waits to be published.                                           *)
LEMMA RanEvaluated ==
  ASSUME HandoffInv, RanInv, MainEvalDone, job = "cmd"
  PROVE  /\ RanInv' /\ mainPc' = "publish"
         /\ webPc = "wait" /\ webPc' = "wait" /\ cmd \in Cmds
         /\ ~Executed /\ Executed'
         /\ \E r \in {0, 1} : ran' = Append(ran, [text |-> Line(cmd), ret |-> r])
<1>1. /\ mainPc = "eval" /\ "CMDSTART" \in batch /\ mainPc \notin Shutdown
      /\ pclStr # NIL /\ evalPtr = pclStr /\ evalText = Line(cmd)
  BY DEF MainEvalDone, HandoffInv, BatchInv, Evaluating, Shutdown
<1>2. webPc = "wait" /\ pendWeb = {} /\ heap[pclStr] = Line(cmd) /\ cmd \in Cmds
  BY <1>1 DEF HandoffInv, CmdInv, TypeOK, Serving
<1>3. pclStr \in Live(heap)
  BY <1>1, <1>2 DEF HandoffInv, OwnInv, Held
<1>4. result' = Output(cmd)
  <2>1. ReadText(pclStr) = Line(cmd)
    BY <1>2, <1>3 DEF ReadText
  <2>2. Line(cmd).kind = "line" /\ Line(cmd).of = cmd
    BY DEF Line
  <2> QED BY <1>1, <2>1, <2>2 DEF MainEvalDone, EvalResult
<1>5. mainPc' = "publish" /\ webPc' = "wait" /\ UNCHANGED <<cmd, code, typed, pclStr, heap, pendWeb>>
  BY <1>2 DEF MainEvalDone, MainUnlock, AfterEval, heapVars, evtVars
<1>6. PICK r \in {0, 1} : ret' = r /\ ran' = Append(ran, [text |-> Line(cmd), ret |-> r])
  BY <1>1 DEF MainEvalDone
<1> DEFINE e == [text |-> Line(cmd), ret |-> r]
<1>7. ran \in Seq(Entries) /\ e \in Entries
  BY <1>2, TextTypes DEF HandoffInv, TypeOK, Entries
<1>8. /\ Len(ran) \in Nat /\ Len(ran') = Len(ran) + 1 /\ ran' # <<>>
      /\ DOMAIN ran = 1..Len(ran) /\ DOMAIN ran' = 1..(Len(ran) + 1)
      /\ \A i \in 1..Len(ran) : ran'[i] = ran[i]
      /\ ran'[Len(ran')] = e
  <2> HIDE DEF e
  <2>1. ran' = Append(ran, e)
    BY <1>6 DEF e
  <2> QED BY <1>7, <2>1, RanAppended
<1>9. TypedInv'
  <2>1. cmd \in typed
    BY <1>2 DEF RanInv, TypedInv, Serving
  <2>2. ASSUME NEW i \in DOMAIN ran' PROVE \E c \in typed : ran'[i].text = Line(c)
    <3>1. CASE i \in 1..Len(ran)
      BY <1>8, <3>1 DEF RanInv, TypedInv
    <3>2. CASE i = Len(ran')
      BY <1>8, <2>1, <3>2
    <3> QED BY <1>8, <3>1, <3>2
  <2> QED BY <1>5, <2>1, <2>2 DEF TypedInv
<1>10. LastIs(r)' /\ Executed'
  BY <1>5, <1>8 DEF LastIs, Executed
<1>11. RanInv'
  BY <1>2, <1>4, <1>5, <1>6, <1>9, <1>10 DEF RanInv, PostedInv, EvaluatedInv, PublishedInv
<1>12. ~Executed
  BY <1>1, <1>2 DEF RanInv, PostedInv
<1> QED BY <1>2, <1>5, <1>6, <1>10, <1>11, <1>12

(* The result is published: main leaves it in pcl_str and signals.         *)
LEMMA RanPublished ==
  ASSUME ~HeapFull, HandoffInv, RanInv, MainPublish
  PROVE  RanInv'
<1>1. "CMDSTART" \in batch /\ mainPc = "publish" /\ mainPc \notin Shutdown
  BY DEF MainPublish, HandoffInv, BatchInv, Shutdown
<1>2. webPc = "wait" /\ pendWeb = {}
  BY <1>1 DEF HandoffInv, CmdInv
<1>3. LastIs(ret) /\ result = Output(cmd) /\ ret \in {0, 1}
  BY <1>1 DEF RanInv, EvaluatedInv, HandoffInv, TypeOK
<1>4. /\ mainPc' = "batch" /\ pendWeb' = Flag(ret)
      /\ UNCHANGED <<webPc, cmd, code, typed, ran, ret>>
  BY <1>2 DEF MainPublish, SignalWeb, Flag, webVars, histVars
<1>5. heap'[pclStr'] = Output(cmd)
  <2>1. Live(heap) = {pclStr} \ {NIL}
    BY <1>2 DEF HandoffInv, OwnInv, Held
  <2>2. result # Freed
    BY DEF HandoffInv, TypeOK, Texts, Line, Output, Garbage, Freed
  <2>3. pclStr' # NIL => heap'[pclStr'] = result
    BY <2>1, <2>2, StrdupOwns DEF MainPublish, HandoffInv
  <2>4. pclStr' # NIL
    BY <2>1, <2>2, StrdupOwns DEF MainPublish, HandoffInv
  <2> QED BY <1>3, <2>3, <2>4
<1>6. LastIs(ret)'
  BY <1>3, <1>4 DEF LastIs
<1>7. PublishedInv'
  BY <1>2, <1>3, <1>4, <1>5, <1>6 DEF PublishedInv, LastIs
<1>8. pendWeb' # {}
  BY <1>4 DEF Flag
<1> QED
  BY <1>2, <1>4, <1>7, <1>8 DEF RanInv, TypedInv, PostedInv, EvaluatedInv, Serving

(* WebThread wakes, with the answer to the command it posted.              *)
LEMMA RanAnswered ==
  ASSUME HandoffInv, RanInv, WebAnswered
  PROVE  RanInv'
<1> USE DEF RanInv, Serving, Executed, LastIs, WebAnswered, mainVars, heapVars, histVars
<1>1. mainPc # "publish"
  BY DEF HandoffInv, BatchInv, CmdInv, Shutdown
<1>2. TypedInv' /\ PostedInv' /\ EvaluatedInv'
  BY <1>1 DEF TypedInv, PostedInv, EvaluatedInv
<1>3. PublishedInv'
  BY DEF PublishedInv
<1> QED BY <1>2, <1>3

(* A new command is none that was evaluated.                               *)
LEMMA RanSubmitted ==
  ASSUME HandoffInv, RanInv, NEW c \in Cmds, WebCommand(c)
  PROVE  RanInv' /\ ~Executed'
<1> USE DEF RanInv, Serving, Executed, LastIs, WebCommand, mainVars, heapVars, evtVars
<1>1. TypedInv'
  BY DEF TypedInv
<1>2. ~Executed'
  BY LinesDiffer DEF TypedInv
<1>3. mainPc # "publish"
  BY DEF HandoffInv, BatchInv, CmdInv, Shutdown
<1>4. PostedInv' /\ EvaluatedInv' /\ PublishedInv'
  BY <1>2, <1>3 DEF PostedInv, EvaluatedInv, PublishedInv
<1> QED BY <1>1, <1>2, <1>4

(* Every step keeps RanInv. *)
LEMMA RanStep ==
  ASSUME ~HeapFull, HandoffInv, RanInv, [Next]_vars
  PROVE  RanInv'
<1> USE DEF mainVars, webVars, heapVars, evtVars, sysVars, histVars, Serving
<1>1. AnswerInv /\ (mainPc = "publish" => webPc = "wait")
  BY DEF HandoffInv, BatchInv, CmdInv, Shutdown
<1>2. CASE MainTop
  BY <1>1, <1>2, RanStill DEF MainTop, StartEval
<1>3. CASE MainWait
  BY <1>1, <1>3, RanStill DEF MainWait
<1>4. CASE BatchCmdStart
  <2>1. pclStr # NIL
    BY <1>4, NilAssumption DEF BatchCmdStart, HandoffInv, CmdInv, OwnInv, Held, Shutdown
  <2> QED BY <1>1, <1>4, <2>1, RanStill DEF BatchCmdStart, StartEval
<1>5. CASE BatchPclUpd
  BY <1>1, <1>5, RanStill DEF BatchPclUpd, StartEval
<1>6. CASE BatchFwUpg
  BY <1>1, <1>6, RanStill DEF BatchFwUpg
<1>7. CASE BatchRest
  BY <1>1, <1>7, RanStill DEF BatchRest, StartEval
<1>8. CASE MainAwakes
  BY <1>1, <1>8, RanStill DEF MainAwakes
<1>9. CASE MainEvalDone
  <2>1. CASE job = "cmd"
    BY <1>9, <2>1, RanEvaluated
  <2>2. CASE job # "cmd"
    <3>1. mainPc = "eval" /\ mainPc' \in {"bootcb", "batch", "wait", "top"}
      BY <1>9, <2>2 DEF MainEvalDone, HandoffInv, TypeOK, Evaluating, AfterEval, EvalKinds
    <3>2. UNCHANGED <<ran, typed, cmd, code, ret, pendWeb, pclStr, heap>>
      BY <1>9, <2>2 DEF MainEvalDone
    <3>3. webPc' = webPc \/ webPc' = "eval"
      BY <1>9 DEF MainEvalDone, MainUnlock
    <3> QED BY <1>1, <3>1, <3>2, <3>3, RanStill
  <2> QED BY <2>1, <2>2
<1>10. CASE MainBootCb
  BY <1>1, <1>10, RanStill DEF MainBootCb, StartEval
<1>11. CASE MainPublish
  BY <1>11, RanPublished
<1>12. CASE MainJoinWdt \/ MainGrace \/ MainReset
  BY <1>1, <1>12, RanStill DEF MainJoinWdt, MainGrace, MainReset
<1>13. CASE WdtEnds \/ ButtonIrq
  BY <1>1, <1>13, RanStill DEF WdtEnds, ButtonIrq
<1>14. CASE WebSignalsMain
  BY <1>1, <1>14, RanStill DEF WebSignalsMain, LoopHead
<1>15. CASE WebTick \/ WebStrayEvent \/ WebEvalStart
  BY <1>1, <1>15, RanStill DEF WebTick, WebStrayEvent, WebEvalStart
<1>16. CASE WebEvalDone
  BY <1>1, <1>16, RanStill DEF WebEvalDone, LoopHead
<1>17. CASE \E c \in Cmds : WebCommand(c)
  BY <1>17, RanSubmitted
<1>18. CASE WebFreeOld
  BY <1>1, <1>18, RanStill DEF WebFreeOld
<1>19. CASE WebPost
  BY <1>1, <1>19, RanStill DEF WebPost
<1>20. CASE WebSignal
  BY <1>1, <1>20, RanStill DEF WebSignal
<1>21. CASE WebAnswered
  BY <1>21, RanAnswered
<1>22. CASE WebTimeout
  BY <1>1, <1>22, RanStill DEF WebTimeout
<1>23. CASE WebReply
  BY <1>1, <1>23, RanStill DEF WebReply
<1>24. CASE WebDrop
  BY <1>1, <1>24, RanStill DEF WebDrop
<1>25. CASE WebClear
  BY <1>1, <1>25 DEF WebClear, RanInv, TypedInv, PostedInv, EvaluatedInv, PublishedInv
<1>26. CASE WebPrompt
  BY <1>1, <1>26, RanStill DEF WebPrompt, LoopHead
<1>27. CASE UNCHANGED vars
  BY <1>1, <1>27, RanStill DEF vars
<1> QED
  BY <1>2, <1>3, <1>4, <1>5, <1>6, <1>7, <1>8, <1>9, <1>10, <1>11, <1>12, <1>13, <1>14,
     <1>15, <1>16, <1>17, <1>18, <1>19, <1>20, <1>21, <1>22, <1>23, <1>24, <1>25, <1>26, <1>27
     DEF Next, MainStep, WebStep, WebServe, WebInput, Stop

-----------------------------------------------------------------------------
(* One step of PclExec is one of the service, or none of its business.     *)

(* The initial states are those of the service. *)
LEMMA ServiceInit == Init => Service!Init
BY DEF Init, Service!Init, ServedReq, ServedStage, ServedAnswers, ServedOpen, Serving, Shutdown

(* What a step has to leave alone to be none of the service's business.    *)
LEMMA ServiceStill ==
  ASSUME UNCHANGED histVars,
         \/ webPc \notin Serving /\ webPc' \notin Serving
         \/ webPc \in Serving /\ webPc' \in Serving /\ cmd' = cmd,
         mainPc' \in Shutdown <=> mainPc \in Shutdown
  PROVE  UNCHANGED Service!vars
<1>1. ServedReq' = ServedReq
  BY DEF ServedReq
<1>2. ServedStage' = ServedStage
  BY DEF ServedStage, Executed, histVars
<1>3. ServedAnswers' = ServedAnswers
  BY DEF ServedAnswers, histVars
<1>4. ServedOpen' = ServedOpen
  BY DEF ServedOpen
<1> QED
  BY <1>1, <1>2, <1>3, <1>4 DEF Service!vars, histVars

(* shell_input(): Submit. *)
LEMMA ServiceSubmit ==
  ASSUME HandoffInv, RanInv, NEW c \in Cmds, WebCommand(c)
  PROVE  Service!Submit(c)
<1>1. ~Executed'
  BY RanSubmitted
<1>2. ServedStage = "idle" /\ ServedReq' = c /\ ServedStage' = "posted"
  BY <1>1 DEF WebCommand, ServedStage, ServedReq, Serving
<1>3. c \notin typed /\ typed' = typed \union {c} /\ UNCHANGED <<ran, answers, mainPc>>
  BY DEF WebCommand, mainVars
<1>4. UNCHANGED <<ran, ServedAnswers, ServedOpen>>
  BY <1>3 DEF ServedAnswers, ServedOpen
<1> QED BY <1>2, <1>3, <1>4 DEF Service!Submit

(* The evaluation of a shell command: Execute. *)
LEMMA ServiceExecute ==
  ASSUME HandoffInv, RanInv, MainEvalDone, job = "cmd"
  PROVE  Service!Execute
<1>1. /\ mainPc' = "publish" /\ webPc = "wait" /\ webPc' = "wait"
      /\ ~Executed /\ Executed'
      /\ \E r \in {0, 1} : ran' = Append(ran, [text |-> Line(cmd), ret |-> r])
  BY RanEvaluated
<1>2. ServedStage = "posted" /\ ServedStage' = "executed"
  BY <1>1 DEF ServedStage, Serving
<1>3. ServedReq = cmd /\ UNCHANGED ServedReq
  BY <1>1 DEF ServedReq, Serving, MainEvalDone
<1>4. ServedOpen /\ UNCHANGED <<typed, ServedAnswers, ServedOpen>>
  BY <1>1 DEF MainEvalDone, ServedAnswers, ServedOpen, Shutdown
<1>5. \E r \in {0, 1} : ran' = Append(ran, [text |-> Service!Line(ServedReq), ret |-> r])
  BY <1>1, <1>3 DEF Line, Service!Line
<1> QED BY <1>2, <1>3, <1>4, <1>5 DEF Service!Execute

(* What is shown is appended to what the service has answered. *)
LEMMA AnswersAppended ==
  ASSUME answers \in Seq(Shown), NEW a \in Shown, answers' = Append(answers, a)
  PROVE  ServedAnswers' = Append(ServedAnswers, AnswerShown(a))
<1> DEFINE n == Len(answers)
           T == {AnswerShown(b) : b \in Shown}
<1>1. n \in Nat /\ DOMAIN answers = 1..n /\ DOMAIN answers' = 1..(n + 1)
  OBVIOUS
<1>2. answers'[n + 1] = a /\ \A i \in 1..n : answers'[i] = answers[i] /\ answers[i] \in Shown
  OBVIOUS
<1>3. ServedAnswers = [i \in 1..n |-> AnswerShown(answers[i])]
  BY <1>1 DEF ServedAnswers
<1>4. ServedAnswers' = [i \in 1..(n + 1) |-> AnswerShown(answers'[i])]
  BY <1>1 DEF ServedAnswers
<1> HIDE DEF n
<1>5. ServedAnswers \in Seq(T) /\ Len(ServedAnswers) = n
  BY <1>1, <1>2, <1>3
<1>6. AnswerShown(a) \in T
  OBVIOUS
<1> HIDE DEF T
<1>7. /\ Append(ServedAnswers, AnswerShown(a)) \in Seq(T)
      /\ Len(Append(ServedAnswers, AnswerShown(a))) = n + 1
      /\ \A i \in 1..n : Append(ServedAnswers, AnswerShown(a))[i] = ServedAnswers[i]
      /\ Append(ServedAnswers, AnswerShown(a))[n + 1] = AnswerShown(a)
  BY <1>1, <1>5, <1>6
<1>8. \A i \in 1..(n + 1) : ServedAnswers'[i] = Append(ServedAnswers, AnswerShown(a))[i]
  BY <1>1, <1>2, <1>3, <1>4, <1>7
<1>9. ServedAnswers' \in Seq(T) /\ Len(ServedAnswers') = n + 1
  BY <1>1, <1>4, <1>5, <1>6, <1>7, <1>8
<1> QED
  BY <1>1, <1>7, <1>8, <1>9

(* shell_reply(): Answer, with the result and the code of the evaluation.  *)
LEMMA ServiceAnswer ==
  ASSUME ~HeapFull, HandoffInv, RanInv, WebReply
  PROVE  Service!Answer
<1>1. webPc = "reply" /\ webPc' = "drop" /\ UNCHANGED <<cmd, typed, ran, mainPc>>
  BY DEF WebReply, mainVars
<1>2. PICK r \in {0, 1} : LastIs(r) /\ code = Flag(r)
  BY <1>1 DEF RanInv, PublishedInv
<1>3. ran \in Seq(Entries) /\ answers \in Seq(Shown) /\ cmd \in Cmds /\ code \in SUBSET WebEvents
  BY <1>1 DEF HandoffInv, TypeOK, Entries, Shown, Serving
<1>4. Executed
  <2>1. Len(ran) \in DOMAIN ran
    BY <1>2, <1>3 DEF LastIs
  <2> QED BY <1>2, <2>1 DEF LastIs, Executed
<1>5. ServedStage = "executed" /\ ServedStage' = "idle"
  BY <1>1, <1>4 DEF ServedStage, Serving
<1>6. ServedReq = cmd /\ ServedReq' = NIL
  BY <1>1 DEF ServedReq, Serving
<1>7. ReadText(pclStr) = Output(cmd)
  BY <1>1 DEF ReadText, HandoffInv, OwnInv, Held, RanInv, PublishedInv
<1> DEFINE a == [cmd |-> cmd, text |-> Output(cmd), code |-> code]
<1>8. a \in Shown /\ answers' = Append(answers, a)
  BY <1>3, <1>7, TextTypes DEF WebReply, Shown
<1>9. AnswerShown(a) = [cmd |-> cmd, text |-> Output(cmd), ret |-> r]
  BY <1>2 DEF AnswerShown, Flag
<1>10. ran[Len(ran)].ret = r
  BY <1>2 DEF LastIs
<1> HIDE DEF a
<1>11. ServedAnswers' = Append(ServedAnswers, AnswerShown(a))
  BY <1>3, <1>8, AnswersAppended
<1>12. ServedAnswers' = Append(ServedAnswers, [cmd |-> ServedReq, text |-> Service!Output(ServedReq),
                                               ret |-> ran[Len(ran)].ret])
  BY <1>6, <1>9, <1>10, <1>11 DEF Output, Service!Output
<1>13. UNCHANGED <<typed, ran, ServedOpen>>
  BY <1>1 DEF ServedOpen
<1> QED BY <1>5, <1>6, <1>12, <1>13 DEF Service!Answer

(* pcl_exec2() gives up: Abandon, because main is on its way to a reset    *)
(* and has not evaluated the line.                                         *)
LEMMA ServiceAbandon ==
  ASSUME ~Overrun, HandoffInv, RanInv, WebTimeout
  PROVE  Service!Abandon
<1>1. /\ webPc = "wait" /\ webPc' = "drop" /\ pendWeb = {} /\ mainPc \in Shutdown
      /\ UNCHANGED <<typed, ran, answers, mainPc>>
  BY DEF WebTimeout, mainVars, histVars
<1>2. ~Executed
  BY <1>1 DEF RanInv, PostedInv, Shutdown
<1>3. ServedStage = "posted" /\ ServedStage' = "idle" /\ ServedReq' = NIL
  BY <1>1, <1>2 DEF ServedStage, ServedReq, Serving
<1>4. ~ServedOpen /\ UNCHANGED <<ServedAnswers, ServedOpen>>
  BY <1>1 DEF ServedOpen, ServedAnswers
<1> QED BY <1>1, <1>3, <1>4 DEF Service!Abandon

(* main() leaves its loop: Close. *)
LEMMA ServiceClose ==
  ASSUME UNCHANGED <<webVars, histVars>>, mainPc \notin Shutdown, mainPc' \in Shutdown
  PROVE  Service!Close
<1>1. UNCHANGED <<ServedReq, ServedStage, ServedAnswers>>
  BY DEF ServedReq, ServedStage, ServedAnswers, Executed, webVars, histVars
<1>2. ServedOpen /\ ServedOpen' = FALSE
  BY DEF ServedOpen
<1> QED BY <1>1, <1>2 DEF Service!Close, histVars

(* Every step of either thread, the watchdog and the interrupt. *)
LEMMA ServiceStep ==
  ASSUME ~HeapFull, ~Overrun, HandoffInv, RanInv, [Next]_vars
  PROVE  [Service!Next]_(Service!vars)
<1> USE DEF mainVars, webVars, heapVars, evtVars, sysVars, histVars, Serving, Shutdown, Evaluating
<1>1. CASE MainTop
  BY <1>1, ServiceStill DEF MainTop, StartEval
<1>2. CASE MainWait
  BY <1>2, ServiceStill DEF MainWait
<1>3. CASE BatchCmdStart
  BY <1>3, ServiceStill DEF BatchCmdStart, StartEval
<1>4. CASE BatchPclUpd
  BY <1>4, ServiceStill DEF BatchPclUpd, StartEval
<1>5. CASE BatchFwUpg
  BY <1>5, ServiceClose DEF BatchFwUpg, Service!Next
<1>6. CASE BatchRest
  <2>1. CASE mainPc' = "joinWdt"
    BY <1>6, <2>1, ServiceClose DEF BatchRest, Service!Next
  <2>2. CASE mainPc' # "joinWdt"
    BY <1>6, <2>2, ServiceStill DEF BatchRest, StartEval
  <2> QED BY <2>1, <2>2
<1>7. CASE MainAwakes
  BY <1>7, ServiceStill DEF MainAwakes
<1>8. CASE MainEvalDone
  <2>1. CASE job = "cmd"
    BY <1>8, <2>1, ServiceExecute DEF Service!Next
  <2>2. CASE job # "cmd"
    <3>1. mainPc = "eval" /\ mainPc' \in {"bootcb", "batch", "wait", "top"}
      BY <1>8, <2>2 DEF MainEvalDone, HandoffInv, TypeOK, AfterEval, EvalKinds
    <3>2. webPc' = webPc \/ (webPc = "lock" /\ webPc' = "eval")
      BY <1>8 DEF MainEvalDone, MainUnlock
    <3> QED BY <1>8, <2>2, <3>1, <3>2, ServiceStill DEF MainEvalDone
  <2> QED BY <2>1, <2>2
<1>9. CASE MainBootCb
  BY <1>9, ServiceStill DEF MainBootCb, StartEval
<1>10. CASE MainPublish
  BY <1>10, ServiceStill DEF MainPublish
<1>11. CASE MainJoinWdt \/ MainGrace \/ MainReset
  BY <1>11, ServiceStill DEF MainJoinWdt, MainGrace, MainReset
<1>12. CASE WdtEnds \/ ButtonIrq
  BY <1>12, ServiceStill DEF WdtEnds, ButtonIrq
<1>13. CASE WebSignalsMain \/ WebTick \/ WebStrayEvent \/ WebEvalStart
  BY <1>13, ServiceStill DEF WebSignalsMain, WebTick, WebStrayEvent, WebEvalStart, LoopHead
<1>14. CASE WebEvalDone
  BY <1>14, ServiceStill DEF WebEvalDone, LoopHead
<1>15. CASE \E c \in Cmds : WebCommand(c)
  BY <1>15, ServiceSubmit DEF Service!Next
<1>16. CASE WebFreeOld \/ WebPost \/ WebSignal \/ WebAnswered
  BY <1>16, ServiceStill DEF WebFreeOld, WebPost, WebSignal, WebAnswered
<1>17. CASE WebTimeout
  BY <1>17, ServiceAbandon DEF Service!Next
<1>18. CASE WebReply
  BY <1>18, ServiceAnswer DEF Service!Next
<1>19. CASE WebDrop \/ WebClear \/ WebPrompt
  BY <1>19, ServiceStill DEF WebDrop, WebClear, WebPrompt, LoopHead
<1>20. CASE UNCHANGED vars
  BY <1>20, ServiceStill DEF vars
<1> QED
  BY <1>1, <1>2, <1>3, <1>4, <1>5, <1>6, <1>7, <1>8, <1>9, <1>10, <1>11, <1>12, <1>13,
     <1>14, <1>15, <1>16, <1>17, <1>18, <1>19, <1>20
     DEF Next, MainStep, WebStep, WebServe, WebInput, Stop

(* The two threads implement the service: each line is evaluated at most   *)
(* once, the answer shown is the result and the code of that very          *)
(* evaluation, and only on the way to a reset is a line given up, as long  *)
(* as the heap is not full and no evaluation outlasts the wait of pcl_exec2 (src/main.c:145-155,    *)
(* src/pcl/pcl_sam.c:1203-1222).  What ServiceSpec says beyond that, its   *)
(* fairness, is left to the runs.                                          *)
THEOREM ServiceImplemented ==
  ASSUME ~Overrun, ~HeapFull
  PROVE  Spec => /\ Service!Init /\ [][Service!Next]_(Service!vars)
                 /\ Service!Fairness => ServiceSpec
<1> DEFINE Inv == HandoffInv /\ RanInv
<1>1. Init => Inv
  BY HandoffInit, RanInit
<1>2. Inv /\ [Next]_vars => Inv'
  BY HandoffStep, TypeStep, RanStep DEF HandoffInv
<1>3. Inv /\ [Next]_vars => [Service!Next]_(Service!vars)
  BY ServiceStep
<1> HIDE DEF Inv
<1> QED
  BY <1>1, <1>2, <1>3, ServiceInit, PTL DEF Spec, ServiceSpec, Service!Spec
=============================================================================
