------------------------------ MODULE PclExec ------------------------------
(***************************************************************************)
(* The hand-off of shell commands between the two threads that run PCL.    *)
(*                                                                         *)
(* WebThread (src/eth/webthread.c, LOWPRIO) owns the network.  A line      *)
(* typed in the telnet shell is not evaluated there: pcl_exec2() puts it   *)
(* in the global string pcl_str, signals EVT_CMDSTART to the main thread   *)
(* (src/main.c, NORMALPRIO) and waits at most 2000 ticks for EVT_PCLOK or  *)
(* EVT_PCLERR.  The main thread evaluates the string, frees it, leaves the *)
(* result in the same variable and signals back.  Nothing but the order of *)
(* these steps protects pcl_str.                                           *)
(*                                                                         *)
(* The scheduler is strict-priority: WebThread executes only while main is *)
(* blocked, and main preempts it between any two of its steps.             *)
(*                                                                         *)
(* The heap says what text each live block holds and which blocks are      *)
(* free, so that a dangling pointer is one to a free block.                *)
(***************************************************************************)
EXTENDS Naturals, Sequences

CONSTANTS
  Cmds,        \* shell lines that are PCL commands; each is typed at most once
  Blocks,      \* heap blocks strdup() can return
  NIL,         \* the null pointer, and "no command"
  Overrun,     \* TRUE: an evaluation may outlast the 2000-tick wait of pcl_exec2
  WebEvals,    \* TRUE: a TFTP request may run tftp_wrq_cb on WebThread
  HeapFull,    \* TRUE: the interpreter may have used up the heap when strdup() is called
  MaxPresses   \* bound: button interrupts of a behaviour

EvalKinds == {"cmd", "load", "boot", "timer", "btn"}

ASSUME NilAssumption == NIL \notin Blocks /\ NIL \notin Cmds
ASSUME HeapAssumption == Blocks # {}
ASSUME EnvAssumption == /\ Overrun \in BOOLEAN
                        /\ WebEvals \in BOOLEAN
                        /\ HeapFull \in BOOLEAN
                        /\ MaxPresses \in Nat

Line(c)   == [kind |-> "line", of |-> c]
Output(c) == [kind |-> "output", of |-> c]
Garbage   == [kind |-> "garbage", of |-> NIL]
Freed     == [kind |-> "freed", of |-> NIL]
Texts     == {Line(c) : c \in Cmds} \union {Output(c) : c \in Cmds} \union {Garbage}

(* The bits of my/events.h the two threads exchange. *)
MainEvents == {"CMDSTART", "CMDEND", "PCLUPD", "REBOOT", "FWUPG", "BTN"}
WebEvents  == {"PCLOK", "PCLERR"}

VARIABLES
  mainPc,     \* where the main thread is in its event loop
  job,        \* the evaluation main is in
  evalPtr,    \* the string it parses, for job "cmd"
  evalText,   \* what that string said when the evaluation began
  batch,      \* the event mask m of main, less what it has handled
  ret,        \* main's local ret
  restartOs,  \* main's local restart_os
  webPc,      \* where WebThread is
  cmd,        \* the argument of pcl_exec2
  code,       \* the mask pcl_exec2 woke with
  pclStr,     \* the global pcl_str
  heap,       \* what each block holds, Freed when it is free
  result,     \* interp->result
  mutex,      \* the owner of pcl_mtx
  pendMain, pendWeb,  \* pending event flags of the threads
  webTerm,    \* chThdTerminate(webtp) was called
  wdt,        \* the watchdog thread
  presses,    \* counts the button interrupts
  typed, ran, answers,  \* history: lines accepted, evaluations, answers shown
  heapFault   \* history: free() got a pointer that is not live

mainVars == <<mainPc, job, evalPtr, evalText, batch, ret, restartOs>>
webVars  == <<webPc, cmd, code>>
heapVars == <<pclStr, heap, heapFault>>
evtVars  == <<pendMain, pendWeb>>
sysVars  == <<webTerm, wdt, presses>>
histVars == <<typed, ran, answers>>
vars == <<mainVars, webVars, heapVars, evtVars, sysVars, histVars, result, mutex>>

MainPcs == {"top", "wait", "batch", "lock", "asleep", "eval", "publish", "bootcb",
            "joinWdt", "grace", "joinWeb", "reset"}
WebPcs  == {"loop", "free", "post", "signal", "wait", "reply", "drop", "clear",
            "prompt", "lock", "eval", "dead", "wild"}
Shutdown == {"joinWdt", "grace", "joinWeb", "reset"}

Evaluating == {"lock", "asleep", "eval"}   \* main is inside pcl_exec or pcl_load
Serving == {"free", "post", "signal", "wait", "reply"}   \* and WebThread in pcl_exec2

(* Every variable has its type; main is in an evaluation of some kind when *)
(* it says so, and pcl_exec2 has a command to serve.                       *)
TypeOK ==
  /\ mainPc \in MainPcs
  /\ job \in EvalKinds \union {"none"}
  /\ evalPtr \in Blocks \union {NIL}
  /\ evalText \in Texts
  /\ batch \subseteq MainEvents
  /\ ret \in {0, 1}
  /\ restartOs \in 0..2
  /\ webPc \in WebPcs
  /\ cmd \in Cmds \union {NIL}
  /\ code \subseteq WebEvents
  /\ pclStr \in Blocks \union {NIL}
  /\ heap \in [Blocks -> Texts \union {Freed}]
  /\ result \in Texts
  /\ mutex \in {"free", "main", "web"}
  /\ pendMain \subseteq MainEvents
  /\ pendWeb \subseteq WebEvents
  /\ webTerm \in BOOLEAN
  /\ wdt \in {"running", "ended"}
  /\ presses \in 0..MaxPresses
  /\ typed \subseteq Cmds
  /\ ran \in Seq([text : Texts, ret : {0, 1}])
  /\ answers \in Seq([cmd : Cmds \union {NIL}, text : Texts, code : SUBSET WebEvents])
  /\ heapFault \in BOOLEAN
  /\ mainPc \in Evaluating => job \in EvalKinds
  /\ webPc \in Serving => cmd \in Cmds

Init ==
  /\ mainPc = "top" /\ job = "none" /\ evalPtr = NIL /\ evalText = Garbage
  /\ batch = {} /\ ret = 0 /\ restartOs = 0
  /\ webPc = "loop" /\ cmd = NIL /\ code = {}
  /\ pclStr = NIL /\ heap = [b \in Blocks |-> Freed]
  /\ heapFault = FALSE
  /\ result = Garbage /\ mutex = "free"
  /\ pendMain = {} /\ pendWeb = {}
  /\ webTerm = FALSE /\ wdt = "running" /\ presses = 0
  /\ typed = {} /\ ran = <<>> /\ answers = <<>>

-----------------------------------------------------------------------------
(* The heap and the kernel calls. *)

Live(h) == {b \in Blocks : h[b] # Freed}

(* free(p): the heap it leaves, and whether p was no block of it. *)
Without(h, p) == [b \in Blocks |-> IF b = p THEN Freed ELSE h[b]]
BadFree(p) == p # NIL /\ p \notin Live(heap)

(* pcl_str = strdup(t) from heap h, which the interpreter shares; NULL when *)
(* there is no block left.                                                 *)
StrdupToMailbox(t, h) ==
  \/ /\ HeapFull \/ Live(h) = Blocks
     /\ pclStr' = NIL
     /\ heap' = h
  \/ \E b \in Blocks \ Live(h) :
       /\ pclStr' = b
       /\ heap' = [h EXCEPT ![b] = t]

ReadText(p) == IF p \in Live(heap) THEN heap[p] ELSE Garbage

(* Main is blocked in the kernel, so WebThread may run.                    *)
MainBlocked ==
  \/ mainPc = "wait" /\ pendMain = {}
  \/ mainPc = "lock"
  \/ mainPc = "asleep"
  \/ mainPc = "joinWdt" /\ wdt = "running"
  \/ mainPc \in {"grace", "joinWeb"}

(* chMtxLock(&pcl_mtx) by main, on the way into picolEval; an evaluation   *)
(* either runs through or sleeps in between (PCL sleep, UART, flash).      *)
StartEval(kind, ptr) ==
  /\ job' = kind
  /\ evalPtr' = ptr
  /\ evalText' = ReadText(ptr)
  /\ \/ mutex = "free" /\ mutex' = "main" /\ mainPc' \in {"asleep", "eval"}
     \/ mutex = "web" /\ mainPc' = "lock" /\ UNCHANGED mutex

(* chMtxUnlock() hands the mutex to the thread queued on it. *)
MainUnlock ==
  IF webPc = "lock" THEN mutex' = "web" /\ webPc' = "eval"
                    ELSE mutex' = "free" /\ UNCHANGED webPc

SignalMain(events) == pendMain' = pendMain \union events
(* Mutants of SignalWeb: the flag of the other thread, the answer inverted. *)
SignalWeb_WrongFlag(r) == pendWeb' = pendWeb \union {"CMDEND"}
SignalWeb_Inverted(r) == pendWeb' = pendWeb \union {IF r = 0 THEN "PCLERR" ELSE "PCLOK"}


SignalWeb(r) == pendWeb' = pendWeb \union {IF r # 0 THEN "PCLERR" ELSE "PCLOK"}

-----------------------------------------------------------------------------
(* The main thread. *)

(* pcl_try_timer_cb(): the callback is due or it is not. *)
MainTop ==
  /\ mainPc = "top"
  /\ \/ StartEval("timer", NIL)
     \/ mainPc' = "wait" /\ UNCHANGED <<job, evalPtr, evalText, mutex>>
  /\ UNCHANGED <<batch, ret, restartOs, webVars, heapVars, evtVars, sysVars,
                 histVars, result>>

(* chEvtWaitAnyTimeout(waitmask, 500) returns what is pending, or 0. *)
MainWait ==
  /\ mainPc = "wait"
  /\ batch' = pendMain
  /\ pendMain' = {}
  /\ mainPc' = IF pendMain = {} THEN "top" ELSE "batch"
  /\ UNCHANGED <<job, evalPtr, evalText, ret, restartOs, webVars, heapVars,
                 pendWeb, sysVars, histVars, result, mutex>>

BatchCmdStart ==
  /\ mainPc = "batch"
  /\ "CMDSTART" \in batch
  /\ IF pclStr # NIL
       THEN /\ StartEval("cmd", pclStr)
            /\ UNCHANGED <<batch, pendWeb>>
       ELSE /\ SignalWeb(ret)
            /\ batch' = batch \ {"CMDSTART"}
            /\ UNCHANGED <<mainPc, job, evalPtr, evalText, mutex>>
  /\ UNCHANGED <<ret, restartOs, webVars, heapVars, pendMain, sysVars, histVars, result>>

(* pcl_load() returns at once when the script area is empty. *)
BatchPclUpd ==
  /\ mainPc = "batch"
  /\ "CMDSTART" \notin batch
  /\ "PCLUPD" \in batch
  /\ batch' = batch \ {"PCLUPD"}
  /\ \/ StartEval("load", NIL)
     \/ UNCHANGED <<mainPc, job, evalPtr, evalText, mutex>>
  /\ UNCHANGED <<ret, restartOs, webVars, heapVars, evtVars, sysVars, histVars, result>>

(* Leaving the loop: shell_quit(0), chThdTerminate(wdtp). *)
BatchFwUpg ==
  /\ mainPc = "batch"
  /\ batch \intersect {"CMDSTART", "PCLUPD"} = {}
  /\ "FWUPG" \in batch
  /\ restartOs' = 1
  /\ mainPc' = "joinWdt"
  /\ UNCHANGED <<job, evalPtr, evalText, batch, ret, webVars, heapVars, evtVars,
                 sysVars, histVars, result, mutex>>

(* Mutant: EVT_CMDEND is looked at before EVT_REBOOT has set restart_os. *)
BatchRest_EndFirst ==
  /\ mainPc = "batch"
  /\ batch \intersect {"CMDSTART", "PCLUPD", "FWUPG"} = {}
  /\ batch' = {}
  /\ restartOs' = IF "REBOOT" \in batch THEN 2 ELSE restartOs
  /\ mainPc' = IF "CMDEND" \in batch /\ restartOs # 0 THEN "joinWdt" ELSE "top"
  /\ UNCHANGED <<job, evalPtr, evalText, mutex, ret, webVars, heapVars, evtVars,
                 sysVars, histVars, result>>


BatchRest ==
  /\ mainPc = "batch"
  /\ batch \intersect {"CMDSTART", "PCLUPD", "FWUPG"} = {}
  /\ batch' = {}
  /\ restartOs' = IF "REBOOT" \in batch THEN 2 ELSE restartOs
  /\ \/ /\ "CMDEND" \in batch
        /\ restartOs' # 0
        /\ mainPc' = "joinWdt"
        /\ UNCHANGED <<job, evalPtr, evalText, mutex>>
     \/ /\ "CMDEND" \notin batch \/ restartOs' = 0
        /\ "BTN" \in batch
        /\ StartEval("btn", NIL)
     \/ /\ "CMDEND" \notin batch \/ restartOs' = 0
        /\ "BTN" \notin batch
        /\ mainPc' = "top"
        /\ UNCHANGED <<job, evalPtr, evalText, mutex>>
  /\ UNCHANGED <<ret, webVars, heapVars, evtVars, sysVars, histVars, result>>

MainAwakes ==
  /\ mainPc = "asleep"
  /\ mainPc' = "eval"
  /\ UNCHANGED <<job, evalPtr, evalText, batch, ret, restartOs, webVars, heapVars,
                 evtVars, sysVars, histVars, result, mutex>>

(* What evaluating evalText leaves in interp->result.  If the string was   *)
(* freed or rewritten meanwhile the parser read garbage.                   *)
EvalResult ==
  IF job = "cmd" /\ ReadText(evalPtr) = evalText /\ evalText.kind = "line"
    THEN Output(evalText.of)
    ELSE Garbage

(* Mutant: the button callback is answered as if it were a command. *)
AfterEval_BtnAnswered == [cmd |-> "publish", load |-> "bootcb", boot |-> "batch",
                          timer |-> "wait", btn |-> "publish"]


AfterEval == [cmd |-> "publish", load |-> "bootcb", boot |-> "batch",
              timer |-> "wait", btn |-> "top"]

(* picolEval() returns and pcl_mtx is released. *)
MainEvalDone ==
  /\ mainPc = "eval"
  /\ mainPc' = AfterEval[job]
  /\ result' = EvalResult
  /\ MainUnlock
  /\ IF job = "cmd"
       THEN \E r \in {0, 1} : /\ ret' = r
                              /\ ran' = Append(ran, [text |-> evalText, ret |-> r])
       ELSE UNCHANGED <<ret, ran>>
  /\ job' = "none" /\ evalPtr' = NIL /\ evalText' = Garbage
  /\ UNCHANGED <<batch, restartOs, cmd, code, heapVars, evtVars, sysVars, typed, answers>>

(* pcl_load() has released the mutex; boot_cb takes it again. *)
MainBootCb ==
  /\ mainPc = "bootcb"
  /\ StartEval("boot", NIL)
  /\ UNCHANGED <<batch, ret, restartOs, webVars, heapVars, evtVars, sysVars,
                 histVars, result>>

(* Mutant: the result is published but WebThread is not told. *)
MainPublish_Silent ==
  /\ mainPc = "publish"
  /\ heapFault' = (heapFault \/ BadFree(pclStr))
  /\ StrdupToMailbox(result, Without(heap, pclStr))
  /\ batch' = batch \ {"CMDSTART"}
  /\ mainPc' = "batch"
  /\ UNCHANGED <<job, evalPtr, evalText, ret, restartOs, webVars, evtVars, sysVars,
                 histVars, result, mutex>>

(* *out = interp->result; free(pcl_str); pcl_str = strdup(out); signal.    *)
MainPublish ==
  /\ mainPc = "publish"
  /\ heapFault' = (heapFault \/ BadFree(pclStr))
  /\ StrdupToMailbox(result, Without(heap, pclStr))
  /\ SignalWeb(ret)
  /\ batch' = batch \ {"CMDSTART"}
  /\ mainPc' = "batch"
  /\ UNCHANGED <<job, evalPtr, evalText, ret, restartOs, webVars, pendMain,
                 sysVars, histVars, result, mutex>>

(* chThdWait(wdtp) *)
MainJoinWdt ==
  /\ mainPc = "joinWdt"
  /\ wdt = "ended"
  /\ mainPc' = "grace"
  /\ UNCHANGED <<job, evalPtr, evalText, batch, ret, restartOs, webVars, heapVars,
                 evtVars, sysVars, histVars, result, mutex>>

(* The two seconds left to WebThread are over: chThdTerminate(webtp). *)
MainGrace ==
  /\ mainPc = "grace"
  /\ webTerm' = TRUE
  /\ mainPc' = "joinWeb"
  /\ UNCHANGED <<job, evalPtr, evalText, batch, ret, restartOs, webVars, heapVars,
                 evtVars, wdt, presses, histVars, result, mutex>>

(* chThdWait(webtp), then the copy or the hardware reset. *)
MainReset ==
  /\ mainPc = "joinWeb"
  /\ webPc = "dead"
  /\ mainPc' = "reset"
  /\ UNCHANGED <<job, evalPtr, evalText, batch, ret, restartOs, webVars, heapVars,
                 evtVars, sysVars, histVars, result, mutex>>

MainStep == \/ MainTop \/ MainWait \/ BatchCmdStart \/ BatchPclUpd \/ BatchFwUpg
            \/ BatchRest \/ MainAwakes \/ MainEvalDone \/ MainBootCb \/ MainPublish
            \/ MainJoinWdt \/ MainGrace \/ MainReset

(* Thread1, HIGHPRIO: leaves its loop when asked to and disarms the watchdog. *)
WdtEnds ==
  /\ mainPc = "joinWdt"
  /\ wdt = "running"
  /\ wdt' = "ended"
  /\ UNCHANGED <<mainVars, webVars, heapVars, evtVars, webTerm, presses, histVars,
                 result, mutex>>

(* PIOIrqHandler *)
ButtonIrq ==
  /\ mainPc # "reset"
  /\ presses < MaxPresses
  /\ presses' = presses + 1
  /\ SignalMain({"BTN"})
  /\ UNCHANGED <<mainVars, webVars, heapVars, pendWeb, webTerm, wdt, histVars,
                 result, mutex>>

-----------------------------------------------------------------------------
(* WebThread.  At "loop" it is blocked in chEvtWaitOne(ALL_EVENTS). *)

LoopHead == IF webTerm THEN "dead" ELSE "loop"

(* A handler that only signals main: `reboot` and `exit` typed in the      *)
(* shell, a finished TFTP transfer (tftpd_cb), or the 500 ms timer.        *)
WebSignalsMain ==
  /\ webPc = "loop" /\ MainBlocked
  /\ \E events \in {{"REBOOT", "CMDEND"}, {"CMDEND"}, {"PCLUPD"}, {"FWUPG"}, {}} :
       SignalMain(events)
  /\ webPc' = LoopHead
  /\ UNCHANGED <<mainVars, cmd, code, heapVars, pendWeb, sysVars, histVars,
                 result, mutex>>

WebTick ==
  /\ webPc = "loop" /\ MainBlocked
  /\ webTerm
  /\ webPc' = "dead"
  /\ UNCHANGED <<mainVars, cmd, code, heapVars, evtVars, sysVars, histVars,
                 result, mutex>>

(* A PCL event nobody waits for is dispatched like any other: evhndl has   *)
(* three entries and is indexed with 30 or 31.                             *)
WebStrayEvent ==
  /\ webPc = "loop" /\ MainBlocked
  /\ pendWeb # {}
  /\ webPc' = "wild"
  /\ UNCHANGED <<mainVars, cmd, code, heapVars, evtVars, sysVars, histVars,
                 result, mutex>>

(* tftpd_wrq() evaluates tftp_wrq_cb on this thread. *)
WebEvalStart ==
  /\ webPc = "loop" /\ MainBlocked
  /\ WebEvals
  /\ IF mutex = "free" THEN mutex' = "web" /\ webPc' = "eval"
                       ELSE webPc' = "lock" /\ UNCHANGED mutex
  /\ UNCHANGED <<mainVars, cmd, code, heapVars, evtVars, sysVars, histVars, result>>

WebEvalDone ==
  /\ webPc = "eval" /\ MainBlocked
  /\ result' = Garbage
  /\ webPc' = LoopHead
  /\ IF mainPc = "lock"
       THEN /\ mutex' = "main"
            /\ mainPc' \in {"asleep", "eval"}
       ELSE /\ mutex' = "free"
            /\ UNCHANGED mainPc
  /\ UNCHANGED <<job, evalPtr, evalText, batch, ret, restartOs, cmd, code,
                 heapVars, evtVars, sysVars, histVars>>

(* shell_input() with a line that no built-in command matches. *)
WebCommand(c) ==
  /\ webPc = "loop" /\ MainBlocked
  /\ c \notin typed
  /\ typed' = typed \union {c}
  /\ cmd' = c
  /\ webPc' = "free"
  /\ UNCHANGED <<mainVars, code, heapVars, evtVars, sysVars, ran, answers,
                 result, mutex>>

(* pcl_exec2(): if(pcl_str) free(pcl_str) *)
WebFreeOld ==
  /\ webPc = "free" /\ MainBlocked
  /\ heap' = Without(heap, pclStr)
  /\ heapFault' = (heapFault \/ BadFree(pclStr))
  /\ webPc' = "post"
  /\ UNCHANGED <<mainVars, cmd, code, pclStr, evtVars, sysVars,
                 histVars, result, mutex>>

WebPost ==
  /\ webPc = "post" /\ MainBlocked
  /\ StrdupToMailbox(Line(cmd), heap)
  /\ webPc' = "signal"
  /\ UNCHANGED <<mainVars, cmd, code, heapFault, evtVars, sysVars,
                 histVars, result, mutex>>

WebSignal ==
  /\ webPc = "signal" /\ MainBlocked
  /\ SignalMain({"CMDSTART"})
  /\ webPc' = "wait"
  /\ UNCHANGED <<mainVars, cmd, code, heapVars, pendWeb, sysVars, histVars,
                 result, mutex>>

WebAnswered ==
  /\ webPc = "wait" /\ MainBlocked
  /\ pendWeb # {}
  /\ code' = pendWeb
  /\ pendWeb' = {}
  /\ webPc' = "reply"
  /\ UNCHANGED <<mainVars, cmd, heapVars, pendMain, sysVars, histVars,
                 result, mutex>>

(* Mutants: a wait too short for the evaluation, a wait without a limit. *)
WebTimeout_Short ==
  /\ webPc = "wait" /\ MainBlocked
  /\ pendWeb = {}
  /\ webPc' = "drop"
  /\ UNCHANGED <<mainVars, cmd, code, heapVars, evtVars, sysVars, histVars,
                 result, mutex>>
WebTimeout_Never ==
  /\ webPc = "wait" /\ MainBlocked
  /\ pendWeb = {}
  /\ mainPc \in Shutdown
  /\ webPc' = "drop"
  /\ UNCHANGED <<mainVars, cmd, code, heapVars, evtVars, sysVars, histVars,
                 result, mutex>>

(* 2000 ticks without an answer: main has left its loop, or an evaluation  *)
(* is that slow.                                                           *)
WebTimeout ==
  /\ webPc = "wait" /\ MainBlocked
  /\ pendWeb = {}
  /\ mainPc \in Shutdown \/ Overrun
  /\ webPc' = "drop"
  /\ UNCHANGED <<mainVars, cmd, code, heapVars, evtVars, sysVars, histVars,
                 result, mutex>>

(* shell_reply(ret, pcl_str) *)
WebReply ==
  /\ webPc = "reply" /\ MainBlocked
  /\ answers' = Append(answers, [cmd |-> cmd, text |-> ReadText(pclStr), code |-> code])
  /\ webPc' = "drop"
  /\ UNCHANGED <<mainVars, cmd, code, heapVars, evtVars, sysVars, typed,
                 ran, result, mutex>>

(* Mutant: the answer is not freed. *)
WebDrop_Leak ==
  /\ webPc = "drop" /\ MainBlocked
  /\ webPc' = "clear"
  /\ UNCHANGED <<mainVars, cmd, code, heapVars, evtVars, sysVars, histVars,
                 result, mutex>>


WebDrop ==
  /\ webPc = "drop" /\ MainBlocked
  /\ heap' = Without(heap, pclStr)
  /\ heapFault' = (heapFault \/ BadFree(pclStr))
  /\ webPc' = "clear"
  /\ UNCHANGED <<mainVars, cmd, code, pclStr, evtVars, sysVars,
                 histVars, result, mutex>>

(* Mutant: pcl_str keeps pointing to the freed answer. *)
WebClear_Dangling ==
  /\ webPc = "clear" /\ MainBlocked
  /\ cmd' = NIL
  /\ code' = {}
  /\ webPc' = "prompt"
  /\ UNCHANGED <<mainVars, heapVars, evtVars, sysVars, histVars, result, mutex>>


WebClear ==
  /\ webPc = "clear" /\ MainBlocked
  /\ pclStr' = NIL
  /\ cmd' = NIL
  /\ code' = {}
  /\ webPc' = "prompt"
  /\ UNCHANGED <<mainVars, heap, heapFault, evtVars, sysVars,
                 histVars, result, mutex>>

(* shell_cmd() *)
WebPrompt ==
  /\ webPc = "prompt" /\ MainBlocked
  /\ webPc' = LoopHead
  /\ UNCHANGED <<mainVars, cmd, code, heapVars, evtVars, sysVars, histVars, result, mutex>>

(* One call of pcl_exec2 and the prompt after it. *)
WebServe == \/ WebFreeOld \/ WebPost \/ WebSignal \/ WebAnswered \/ WebTimeout
            \/ WebReply \/ WebDrop \/ WebClear \/ WebPrompt

WebStep == \/ WebServe \/ WebTick \/ WebStrayEvent \/ WebEvalDone

WebInput == WebSignalsMain \/ WebEvalStart \/ \E c \in Cmds : WebCommand(c)

(* The reset line is pulled, or WebThread jumped through a wild pointer.    *)
(* Anywhere else a state without a step is a deadlock.                     *)
Halted == mainPc = "reset" \/ webPc = "wild"

Stop == Halted /\ UNCHANGED vars

Next == MainStep \/ WdtEnds \/ ButtonIrq \/ WebStep \/ WebInput \/ Stop

(* Main has the priority, the watchdog thread a higher one; an evaluation  *)
(* ends.  WebThread gets the processor whenever main blocks, which it does *)
(* again and again (500 ticks per turn of its loop).                       *)
Fairness == WF_vars(MainStep) /\ WF_vars(WdtEnds) /\ SF_vars(WebStep)

Spec == Init /\ [][Next]_vars /\ Fairness

(* As Spec, but an evaluation that sleeps need not ever wake: `sleep` with *)
(* a huge argument, a peripheral that never answers.                       *)
AwakeMainStep == MainStep /\ mainPc # "asleep"

StuckSpec == /\ Init
             /\ [][Next]_vars
             /\ WF_vars(AwakeMainStep) /\ WF_vars(WdtEnds) /\ SF_vars(WebStep)

-----------------------------------------------------------------------------
(* Properties. *)

(* The string main parses is not freed or replaced under it: it is alive   *)
(* and holds the line WebThread is waiting for (main.c:149, pcl_sam.c:1206). *)
EvaluatedLineIsHeld ==
  mainPc \in {"asleep", "eval"} /\ job = "cmd" =>
    /\ evalPtr = pclStr
    /\ evalPtr \in Live(heap)
    /\ heap[evalPtr] = Line(cmd)
    /\ webPc = "wait"

(* No block is freed twice, by the three frees of pcl_str in two threads. *)
NoDoubleFree == ~heapFault

(* Between commands the mailbox is empty and nothing is left on the heap.  *)
MailboxReleased ==
  webPc = "loop" => pclStr = NIL /\ Live(heap) = {}

(* EVT_PCLOK and EVT_PCLERR are only pending while pcl_exec2 waits for     *)
(* them, and one at a time; a late one would be dispatched by WebThread    *)
(* through evhndl[30] or evhndl[31].                                       *)
NoStrayPclEvent ==
  /\ webPc # "wild"
  /\ pendWeb # {} => webPc = "wait" /\ pendWeb \in {{"PCLOK"}, {"PCLERR"}}

(* The shell gets back to its prompt after every command, or the device    *)
(* ends WebThread.                                                         *)
CommandAnswered == webPc = "free" ~> webPc \in {"loop", "dead"}

(* A reboot asked for in the shell is carried out.                         *)
RebootHonoured == "REBOOT" \in pendMain ~> mainPc = "reset"

(* The network thread outlives an evaluation that never ends: pcl_exec2     *)
(* gives up after its 2000 ticks (pcl_sam.c:1210).  After a double free    *)
(* anything may happen.                                                    *)
NetworkOutlivesEval ==
  webPc = "wait" ~> webPc \in {"loop", "dead", "wild"} \/ heapFault

(* The abstract service: who is served, how far it got, what was shown.    *)
Executed == \E i \in DOMAIN ran : ran[i].text = Line(cmd)

ServedReq == IF webPc \in Serving THEN cmd ELSE NIL

ServedStage == IF webPc \notin Serving THEN "idle"
               ELSE IF Executed THEN "executed" ELSE "posted"

(* EVT_PCLERR is the return code 1, EVT_PCLOK is 0; 2 is neither or both.  *)
AnswerShown(a) ==
  [cmd |-> a.cmd, text |-> a.text,
   ret |-> IF a.code = {"PCLERR"} THEN 1 ELSE IF a.code = {"PCLOK"} THEN 0 ELSE 2]

ServedAnswers == [i \in DOMAIN answers |-> AnswerShown(answers[i])]

ServedOpen == mainPc \notin Shutdown

Service == INSTANCE CommandService WITH
  req <- ServedReq, stage <- ServedStage, answers <- ServedAnswers, open <- ServedOpen

ServiceSpec == Service!Spec
=============================================================================
