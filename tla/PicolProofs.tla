---------------------------- MODULE PicolProofs ----------------------------
(***************************************************************************)
(* The frames and variables of Picol, for any frames, names, values,       *)
(* recursion limit and depth of the C stack.                               *)
(*                                                                         *)
(* Until the limit refuses a call: picolDropCallFrame() drops the current  *)
(* frame, so that a call ends in the frame it was made from rests on every *)
(* activation below.  Nested says that each one remembers, or has left     *)
(* alone, the frame of the one before it, and Owned that every frame in    *)
(* use is the own one of one call.                                         *)
(*                                                                         *)
(* After that the stack and the frames have come apart, but no more calls  *)
(* return than were made: LiveInv has a set of frames that are in use with *)
(* their callers, and counts that between two uplevels enough of them lie  *)
(* below the current frame for the calls that are still to end.            *)
(*                                                                         *)
(* A linked variable is looked up in the frame without a caller; that this *)
(* is a frame, after a refused call too, is LiveInv again (RootIsFrame).   *)
(***************************************************************************)
EXTENDS PicolVars, SequenceTheorems, FiniteSetTheorems, WellFoundedInduction, TLAPS

Acts(S) == [kind : Kinds, own : S, at : S]

(* The frame the script at depth n of the stack s works in. *)
At(s, n) == IF n = 0 THEN Top ELSE s[n].at

FrameTypes ==
  /\ \E S : stack \in Seq(Acts(S))
  /\ alloc \subseteq Frames
  /\ parent = [f \in AllFrames |-> parent[f]]

(* What the activation at depth i of s remembers, with parents p: its      *)
(* caller's frame, or it has left the frame alone.                         *)
Follows(s, p, i) ==
  CASE s[i].kind = "proc"    -> s[i].own = s[i].at /\ p[s[i].own] = At(s, i - 1)
    [] s[i].kind = "uplevel" -> s[i].own = At(s, i - 1)
    [] OTHER                 -> s[i].at = At(s, i - 1)

Nested ==
  /\ callframe = At(stack, Len(stack))
  /\ \A i \in 1..Len(stack) : Follows(stack, parent, i)

Owned ==
  /\ \A f : f \in alloc <=> \E i \in 1..Len(stack) : stack[i].kind = "proc" /\ stack[i].own = f
  /\ \A i, j \in 1..Len(stack) :
       stack[i].kind = "proc" /\ stack[j].kind = "proc" /\ stack[i].own = stack[j].own => i = j

FrameInv == FrameTypes /\ (~refused => Nested /\ Owned)

-----------------------------------------------------------------------------
(* A sequence over a set is one over a larger set. *)
LEMMA SeqGrows ==
  ASSUME NEW S, NEW T, S \subseteq T, NEW s \in Seq(S)
  PROVE  s \in Seq(T)
<1>1. s \in [1..Len(s) -> T]
  OBVIOUS
<1> QED BY <1>1

(* What a command that evaluates a script puts on the stack. *)
LEMMA Pushed ==
  ASSUME FrameTypes, NEW kind \in Kinds, NEW own, NEW at,
         stack' = Append(stack, Activation(kind, own, at))
  PROVE  /\ \E S : stack' \in Seq(Acts(S))
         /\ Len(stack) \in Nat /\ Len(stack') = Len(stack) + 1
         /\ \A i \in 1..Len(stack) : stack'[i] = stack[i]
         /\ stack'[Len(stack) + 1] = [kind |-> kind, own |-> own, at |-> at]
<1>1. PICK S : stack \in Seq(Acts(S))
  BY DEF FrameTypes
<1> DEFINE T == S \union {own, at}
<1>2. Acts(S) \subseteq Acts(T)
  BY DEF Acts
<1>3. stack \in Seq(Acts(T))
  BY <1>1, <1>2, SeqGrows
<1>4. Activation(kind, own, at) \in Acts(T)
  BY DEF Activation, Acts
<1> HIDE DEF T
<1>5. stack' \in Seq(Acts(T))
  BY <1>3, <1>4
<1> QED BY <1>3, <1>4, <1>5 DEF Activation

(* What is left when the innermost activation ends. *)
LEMMA Popped ==
  ASSUME FrameTypes, stack # <<>>, stack' = Outer
  PROVE  /\ \E S : stack' \in Seq(Acts(S))
         /\ Len(stack) \in Nat \ {0} /\ Len(stack') = Len(stack) - 1
         /\ \A i \in 1..(Len(stack) - 1) : stack'[i] = stack[i]
<1>1. PICK S : stack \in Seq(Acts(S))
  BY DEF FrameTypes
<1>2. Len(stack) \in Nat \ {0}
  BY <1>1
<1>3. stack' = SubSeq(stack, 1, Len(stack) - 1)
  BY DEF Outer
<1> DEFINE n == Len(stack) - 1
<1>4. n \in Int /\ \A i \in 1..n : stack[i] \in Acts(S)
  BY <1>1, <1>2
<1>5. /\ SubSeq(stack, 1, n) \in Seq(Acts(S))
      /\ n >= 0 => Len(SubSeq(stack, 1, n)) = n
      /\ \A i \in 1..n : SubSeq(stack, 1, n)[i] = stack[i]
  <2> HIDE DEF n
  <2>1. /\ SubSeq(stack, 1, n) \in Seq(Acts(S))
        /\ Len(SubSeq(stack, 1, n)) = IF 1 <= n THEN n - 1 + 1 ELSE 0
        /\ \A i \in 1..(n - 1 + 1) : SubSeq(stack, 1, n)[i] = stack[1 + i - 1]
    BY <1>4, SubSeqProperties
  <2>2. \A i \in 1..n : i \in 1..(n - 1 + 1) /\ 1 + i - 1 = i
    BY <1>4
  <2>3. n >= 0 => (IF 1 <= n THEN n - 1 + 1 ELSE 0) = n
    BY <1>4
  <2>4. \A i \in 1..n : SubSeq(stack, 1, n)[i] = stack[i]
    BY <2>1, <2>2, Zenon
  <2>5. n >= 0 => Len(SubSeq(stack, 1, n)) = n
    <3> DEFINE len == Len(SubSeq(stack, 1, n))
    <3>1. len = IF 1 <= n THEN n - 1 + 1 ELSE 0
      BY <2>1
    <3> HIDE DEF len
    <3>2. n >= 0 => len = n
      BY <1>4, <3>1
    <3> QED BY <3>2 DEF len
  <2> QED BY <2>1, <2>4, <2>5, Zenon
<1>6. Len(stack') = n /\ \A i \in 1..n : stack'[i] = stack[i]
  <2>1. n >= 0
    BY <1>2
  <2> QED BY <1>3, <1>5, <2>1, Zenon
<1> QED BY <1>2, <1>3, <1>5, <1>6

(* An activation that goes on with another script. *)
LEMMA Turned ==
  ASSUME FrameTypes, stack # <<>>, NEW kind \in Kinds,
         stack' = [stack EXCEPT ![Len(stack)].kind = kind]
  PROVE  /\ \E S : stack' \in Seq(Acts(S))
         /\ Len(stack) \in Nat \ {0} /\ Len(stack') = Len(stack)
         /\ \A i \in 1..(Len(stack) - 1) : stack'[i] = stack[i]
         /\ stack'[Len(stack)].kind = kind
         /\ stack'[Len(stack)].own = stack[Len(stack)].own
         /\ stack'[Len(stack)].at = stack[Len(stack)].at
<1>1. PICK S : stack \in Seq(Acts(S))
  BY DEF FrameTypes
<1>2. Len(stack) \in Nat \ {0} /\ stack[Len(stack)] \in Acts(S)
  BY <1>1
<1>3. [stack[Len(stack)] EXCEPT !.kind = kind] \in Acts(S)
  BY <1>2 DEF Acts
<1>4. stack' = [stack EXCEPT ![Len(stack)] = [stack[Len(stack)] EXCEPT !.kind = kind]]
  BY <1>1, <1>2
<1>5. stack' \in Seq(Acts(S)) /\ Len(stack') = Len(stack)
  BY <1>1, <1>2, <1>3, <1>4
<1>6. stack'[Len(stack)] = [stack[Len(stack)] EXCEPT !.kind = kind]
  BY <1>1, <1>2, <1>3, <1>4
<1>7. /\ stack'[Len(stack)].kind = kind
      /\ stack'[Len(stack)].own = stack[Len(stack)].own
      /\ stack'[Len(stack)].at = stack[Len(stack)].at
  BY <1>2, <1>6 DEF Acts
<1>8. \A i \in 1..(Len(stack) - 1) : stack'[i] = stack[i]
  BY <1>1, <1>2, <1>3, <1>4
<1> QED BY <1>2, <1>5, <1>7, <1>8

-----------------------------------------------------------------------------
(* At the start there is the bottom frame and nothing else. *)
LEMMA FramesInitially == Init => FrameInv
<1> SUFFICES ASSUME Init PROVE FrameInv
  OBVIOUS
<1>1. stack \in Seq(Acts({}))
  BY DEF Init
<1>2. FrameTypes
  BY <1>1 DEF Init, FrameTypes
<1> QED BY <1>2 DEF Init, FrameInv, Nested, Owned, At

(* A script is started in the frame that is current, or by uplevel in      *)
(* another one, while the one it came from is kept.                        *)
LEMMA StartKeeps ==
  ASSUME FrameInv, NEW kind \in Kinds \ {"proc"}, NEW own,
         stack' = Append(stack, Activation(kind, own, callframe')),
         IF kind = "uplevel" THEN own = callframe ELSE callframe' = callframe,
         UNCHANGED <<alloc, parent, refused>>
  PROVE  FrameInv'
<1>1. /\ \E S : stack' \in Seq(Acts(S))
      /\ Len(stack) \in Nat /\ Len(stack') = Len(stack) + 1
      /\ \A i \in 1..Len(stack) : stack'[i] = stack[i]
      /\ stack'[Len(stack) + 1] = [kind |-> kind, own |-> own, at |-> callframe']
  BY Pushed DEF FrameInv
<1>2. FrameTypes'
  BY <1>1 DEF FrameInv, FrameTypes
<1>3. ASSUME ~refused PROVE Nested' /\ Owned'
  <2>1. Nested /\ Owned
    BY <1>3 DEF FrameInv
  <2>2. Nested'
    BY <1>1, <2>1 DEF Nested, Follows, At
  <2>3. Owned'
    BY <1>1, <2>1 DEF Owned
  <2> QED BY <2>2, <2>3
<1> QED BY <1>2, <1>3 DEF FrameInv

(* A command other than a procedure or uplevel ends, in the frame it began *)
(* in.                                                                     *)
LEMMA EndKeeps ==
  ASSUME FrameInv, NEW code, End(code), stack # <<>>, Inner.kind \notin {"proc", "uplevel"}
  PROVE  FrameInv'
<1> USE DEF End, Inner
<1>1. /\ \E S : stack' \in Seq(Acts(S))
      /\ Len(stack) \in Nat \ {0} /\ Len(stack') = Len(stack) - 1
      /\ \A i \in 1..(Len(stack) - 1) : stack'[i] = stack[i]
  BY Popped DEF FrameInv
<1>2. FrameTypes'
  BY <1>1 DEF FrameInv, FrameTypes
<1>3. ASSUME ~refused PROVE Nested' /\ Owned'
  <2>1. Nested /\ Owned
    BY <1>3 DEF FrameInv
  <2>2. callframe' = At(stack, Len(stack) - 1)
    BY <1>1, <2>1 DEF Nested, Follows, At
  <2>3. \A i \in 0..(Len(stack) - 1) : At(stack', i) = At(stack, i)
    BY <1>1 DEF At
  <2>4. Nested'
    BY <1>1, <2>1, <2>2, <2>3 DEF Nested, Follows
  <2>5. Owned'
    BY <1>1, <2>1 DEF Owned
  <2> QED BY <2>4, <2>5
<1> QED BY <1>2, <1>3 DEF FrameInv

(* A construct that goes on, or another that takes its place, is no call. *)
LEMMA TurnKeeps ==
  ASSUME FrameInv, NEW kind \in Kinds \ {"proc", "uplevel"}, GoTo(kind), stack # <<>>,
         Inner.kind \notin {"proc", "uplevel"}
  PROVE  FrameInv'
<1> USE DEF GoTo, Inner
<1>1. /\ \E S : stack' \in Seq(Acts(S))
      /\ Len(stack) \in Nat \ {0} /\ Len(stack') = Len(stack)
      /\ \A i \in 1..(Len(stack) - 1) : stack'[i] = stack[i]
      /\ stack'[Len(stack)].kind = kind
      /\ stack'[Len(stack)].own = stack[Len(stack)].own
      /\ stack'[Len(stack)].at = stack[Len(stack)].at
  BY Turned DEF FrameInv
<1>2. FrameTypes'
  BY <1>1 DEF FrameInv, FrameTypes
<1>3. ASSUME ~refused PROVE Nested' /\ Owned'
  <2>1. Nested /\ Owned
    BY <1>3 DEF FrameInv
  <2>2. Nested'
    BY <1>1, <2>1 DEF Nested, Follows, At
  <2>3. Owned'
    BY <1>1, <2>1 DEF Owned
  <2> QED BY <2>2, <2>3
<1> QED BY <1>2, <1>3 DEF FrameInv

(* A procedure is called, in a frame of its own. *)
LEMMA CallKeeps ==
  ASSUME FrameInv, NEW f \in Frames, CallProc(f)
  PROVE  FrameInv'
<1> USE DEF CallProc, NewFrame
<1>1. /\ \E S : stack' \in Seq(Acts(S))
      /\ Len(stack) \in Nat /\ Len(stack') = Len(stack) + 1
      /\ \A i \in 1..Len(stack) : stack'[i] = stack[i]
      /\ stack'[Len(stack) + 1] = [kind |-> "proc", own |-> f, at |-> f]
  BY Pushed DEF FrameInv, Kinds
<1>2. /\ f \in AllFrames /\ parent' = [g \in AllFrames |-> parent'[g]] /\ parent'[f] = callframe
      /\ \A g \in AllFrames : g # f => parent'[g] = parent[g]
  <2>1. f \in AllFrames
    BY DEF AllFrames
  <2>2. parent' = [g \in AllFrames |-> IF g = f THEN callframe ELSE parent[g]]
    BY <2>1 DEF FrameInv, FrameTypes
  <2> QED BY <2>1, <2>2
<1>3. FrameTypes'
  BY <1>1, <1>2 DEF FrameInv, FrameTypes
<1>4. ASSUME ~refused PROVE Nested' /\ Owned'
  <2>1. Nested /\ Owned
    BY <1>4 DEF FrameInv
  <2>2. \A i \in 0..Len(stack) : At(stack', i) = At(stack, i)
    BY <1>1 DEF At
  <2>3. \A i \in 1..Len(stack) :
          stack[i].kind = "proc" => stack[i].own # f /\ stack[i].own \in AllFrames
    BY <2>1 DEF Owned, FrameInv, FrameTypes, AllFrames
  <2>4. callframe' = At(stack', Len(stack'))
    BY <1>1 DEF At
  <2>6. parent'[f] = At(stack', Len(stack))
    BY <1>1, <1>2, <2>1, <2>2 DEF Nested, Follows
  <2>7. Nested'
    <3>1. ASSUME NEW i \in 1..Len(stack) PROVE Follows(stack', parent', i)
      <4>1. stack'[i] = stack[i] /\ At(stack', i - 1) = At(stack, i - 1)
        BY <1>1, <2>2
      <4>2. stack[i].kind = "proc" => parent'[stack[i].own] = parent[stack[i].own]
        BY <1>2, <2>3
      <4> QED BY <2>1, <4>1, <4>2 DEF Nested, Follows
    <3>2. Follows(stack', parent', Len(stack) + 1)
      BY <1>1, <2>6 DEF Follows
    <3>3. \A i \in 1..Len(stack') : i \in 1..Len(stack) \/ i = Len(stack) + 1
      BY <1>1
    <3> QED BY <2>4, <3>1, <3>2, <3>3 DEF Nested
  <2>8. Owned'
    BY <1>1, <2>1, <2>3 DEF Owned
  <2> QED BY <2>7, <2>8
<1> QED BY <1>3, <1>4 DEF FrameInv

(* A procedure ends: picolDropCallFrame() of the current frame, which is   *)
(* the one the call made.                                                  *)
LEMMA ReturnKeeps ==
  ASSUME FrameInv, LeaveProc
  PROVE  FrameInv'
<1> USE DEF LeaveProc, In, Inner
<1> DEFINE n == Len(stack)
<1>1. /\ \E S : stack' \in Seq(Acts(S))
      /\ n \in Nat \ {0} /\ Len(stack') = n - 1
      /\ \A i \in 1..(n - 1) : stack'[i] = stack[i]
  BY Popped DEF FrameInv
<1>2. /\ alloc' \subseteq Frames /\ parent' = [g \in AllFrames |-> parent'[g]]
      /\ \A g \in AllFrames : g # callframe => parent'[g] = parent[g]
  <2>1. parent' = [g \in AllFrames |-> IF g = callframe THEN NULL ELSE parent[g]]
    BY DEF FrameInv, FrameTypes
  <2> QED BY <2>1 DEF FrameInv, FrameTypes
<1>3. FrameTypes'
  BY <1>1, <1>2 DEF FrameInv, FrameTypes
<1>4. ASSUME ~refused PROVE Nested' /\ Owned'
  <2>1. Nested /\ Owned
    BY <1>4 DEF FrameInv
  <2>2. \A i \in 0..(n - 1) : At(stack', i) = At(stack, i)
    BY <1>1 DEF At
  <2>3. callframe = stack[n].own /\ parent[callframe] = At(stack, n - 1)
    BY <1>1, <2>1 DEF Nested, Follows, At
  <2>4. \A i \in 1..(n - 1) :
          stack[i].kind = "proc" => stack[i].own # callframe /\ stack[i].own \in AllFrames
    BY <1>1, <2>1, <2>3 DEF Owned, FrameInv, FrameTypes, AllFrames
  <2>5. callframe' = At(stack', Len(stack'))
    BY <1>1, <2>2, <2>3
  <2>6. Nested'
    <3>1. ASSUME NEW i \in 1..(n - 1) PROVE Follows(stack', parent', i)
      <4>1. stack'[i] = stack[i] /\ At(stack', i - 1) = At(stack, i - 1)
        BY <1>1, <2>2
      <4>2. stack[i].kind = "proc" => parent'[stack[i].own] = parent[stack[i].own]
        BY <1>2, <2>4
      <4>3. Follows(stack, parent, i)
        BY <1>1, <2>1 DEF Nested
      <4> QED BY <4>1, <4>2, <4>3 DEF Follows
    <3> QED BY <1>1, <2>5, <3>1 DEF Nested
  <2>7. Owned'
    BY <1>1, <2>1, <2>3, <2>4, SMTT(30) DEF Owned
  <2> QED BY <2>6, <2>7
<1> QED BY <1>3, <1>4 DEF FrameInv

(* The end of uplevel gives back the frame it was called in. *)
LEMMA UplevelEndKeeps ==
  ASSUME FrameInv, LeaveUplevel
  PROVE  FrameInv'
<1> USE DEF LeaveUplevel, In, Inner
<1> DEFINE n == Len(stack)
<1>1. /\ \E S : stack' \in Seq(Acts(S))
      /\ n \in Nat \ {0} /\ Len(stack') = n - 1
      /\ \A i \in 1..(n - 1) : stack'[i] = stack[i]
  BY Popped DEF FrameInv
<1>2. FrameTypes'
  BY <1>1 DEF FrameInv, FrameTypes
<1>3. ASSUME ~refused PROVE Nested' /\ Owned'
  <2>1. Nested /\ Owned
    BY <1>3 DEF FrameInv
  <2>2. \A i \in 0..(n - 1) : At(stack', i) = At(stack, i)
    BY <1>1 DEF At
  <2>3. callframe' = At(stack', Len(stack'))
    BY <1>1, <2>1, <2>2 DEF Nested, Follows
  <2>4. Nested'
    <3>1. ASSUME NEW i \in 1..(n - 1) PROVE Follows(stack', parent', i)
      <4>1. stack'[i] = stack[i] /\ At(stack', i - 1) = At(stack, i - 1)
        BY <1>1, <2>2
      <4>2. Follows(stack, parent, i)
        BY <1>1, <2>1 DEF Nested
      <4> QED BY <4>1, <4>2 DEF Follows
    <3> QED BY <1>1, <2>3, <3>1 DEF Nested
  <2>5. Owned'
    BY <1>1, <2>1 DEF Owned
  <2> QED BY <2>4, <2>5
<1> QED BY <1>2, <1>3 DEF FrameInv

(* A call that is refused: nothing more is claimed.  What leaves frames    *)
(* and stack alone keeps the invariant.                                    *)
LEMMA RefusedKeeps ==
  ASSUME FrameInv, NEW f \in Frames, CallRefused(f)
  PROVE  FrameInv'
  BY DEF FrameInv, FrameTypes, CallRefused, NewFrame

(* What leaves the frames and the calls alone keeps them in order. *)
LEMMA StillKeeps ==
  ASSUME FrameInv, UNCHANGED <<alloc, parent, callframe, stack, refused>>
  PROVE  FrameInv'
  BY DEF FrameInv, FrameTypes, Nested, Owned, At

(* Every step keeps the frames in order. *)
LEMMA FramesStep == FrameInv /\ [Next]_vars => FrameInv'
<1> SUFFICES ASSUME FrameInv, [Next]_vars PROVE FrameInv'
  OBVIOUS
<1>1. ASSUME NEW f \in Frames, CallProc(f) \/ CallRefused(f) \/ WrongArgs(f) PROVE FrameInv'
  BY <1>1, CallKeeps, RefusedKeeps, StillKeeps DEF WrongArgs
<1>2. ASSUME NEW delta, Uplevel(delta) PROVE FrameInv'
  <2>1. "uplevel" \in Kinds \ {"proc"}
    BY DEF Kinds
  <2> QED BY <1>2, <2>1, StartKeeps DEF Uplevel
<1>3. ASSUME NEW kind \in {"catch", "eval", "if", "whiletest", "forinit", "foreach"}, Starts(kind)
      PROVE FrameInv'
  <2>1. kind \in Kinds \ {"proc"} /\ kind # "uplevel"
    BY DEF Kinds
  <2>2. callframe' = callframe /\ stack' = Append(stack, Activation(kind, callframe, callframe'))
    BY <1>3 DEF Starts
  <2> QED BY <1>3, <2>1, <2>2, StartKeeps DEF Starts
<1>4. ASSUME NEW code, stack # <<>>, Inner.kind \notin {"proc", "uplevel"}, End(code) PROVE FrameInv'
  BY <1>4, EndKeeps
<1>5. ASSUME NEW kind \in Kinds \ {"proc", "uplevel"}, stack # <<>>,
             Inner.kind \notin {"proc", "uplevel"}, GoTo(kind) PROVE FrameInv'
  BY <1>5, TurnKeeps
<1>6. CASE LeaveCatch \/ LeaveEval \/ If \/ While
  <2>1. stack # <<>> /\ Inner.kind \notin {"proc", "uplevel"}
    BY <1>6 DEF LeaveCatch, LeaveEval, If, While, In
  <2>2. (\E code : End(code)) \/ (\E kind \in Kinds \ {"proc", "uplevel"} : GoTo(kind))
    BY <1>6 DEF LeaveCatch, LeaveEval, If, While, Kinds
  <2> QED BY <1>4, <1>5, <2>1, <2>2
<1>7. CASE For \/ Foreach
  <2>1. stack # <<>> /\ Inner.kind \notin {"proc", "uplevel"}
    BY <1>7 DEF For, Foreach, In
  <2>2. (\E code : End(code)) \/ (\E kind \in Kinds \ {"proc", "uplevel"} : GoTo(kind))
    BY <1>7 DEF For, Foreach, Kinds
  <2> QED BY <1>4, <1>5, <2>1, <2>2
<1>8. CASE LeaveProc \/ LeaveUplevel
  BY <1>8, ReturnKeeps, UplevelEndKeeps
<1>9. CASE Raises \/ Reported \/ UNCHANGED vars
  BY <1>9, StillKeeps DEF Raises, Reported, vars
<1>10. ASSUME Next PROVE FrameInv'
  BY <1>1, <1>2, <1>3, <1>6, <1>7, <1>8, <1>9, <1>10, Zenon DEF Next
<1> QED BY <1>9, <1>10

(* The frames are always in order. *)
LEMMA FramesAlways == Spec => []FrameInv
  BY FramesInitially, FramesStep, PTL DEF Spec

-----------------------------------------------------------------------------
(* A script works in the frame it was started in (picolCallProc(), uplevel *)
(* and every command that evaluates a script), until the limit was hit.    *)
THEOREM ScriptsStayInFrame == Spec => []OwnFrame
<1>1. FrameInv => OwnFrame
  <2> SUFFICES ASSUME FrameInv, ~refused
               PROVE  callframe = IF stack = <<>> THEN Top ELSE Inner.at
    BY DEF OwnFrame
  <2>1. PICK S : stack \in Seq(Acts(S))
    BY DEF FrameInv, FrameTypes
  <2>2. Len(stack) \in Nat /\ (Len(stack) = 0 <=> stack = <<>>)
    BY <2>1
  <2> QED BY <2>2 DEF FrameInv, Nested, At, Inner
<1> QED BY <1>1, FramesAlways, PTL

(* Every frame belongs to a call in progress and is given back when it     *)
(* ends (picolDropCallFrame()), until the limit was hit.                   *)
THEOREM FramesAreGivenBack == Spec => []FramesAreCalls
<1>1. FrameInv => FramesAreCalls
  <2> SUFFICES ASSUME FrameInv, ~refused
               PROVE  alloc = {stack[i].own : i \in Procs}
    BY DEF FramesAreCalls
  <2>1. PICK S : stack \in Seq(Acts(S))
    BY DEF FrameInv, FrameTypes
  <2>2. Procs = {i \in 1..Len(stack) : stack[i].kind = "proc"}
    BY <2>1 DEF Procs
  <2> QED BY <2>2 DEF FrameInv, Owned
<1> QED BY <1>1, FramesAlways, PTL
-----------------------------------------------------------------------------
(* Only catch and the prompt put an error aside: whatever a loop, a test,  *)
(* a procedure or uplevel makes of the other codes (picol.c:896-1033), an  *)
(* error ends it.                                                          *)
THEOREM ErrorsAlwaysSeen == Spec => ErrorsAreSeen
<1>1. ASSUME [Next]_vars, rc = "error", rc' # "error" PROVE stack = <<>> \/ In("catch")
  <2>1. CASE \E f \in Frames : CallProc(f) \/ CallRefused(f) \/ WrongArgs(f)
    BY <1>1, <2>1 DEF CallProc, CallRefused, WrongArgs, Running
  <2>2. CASE (\E delta : Uplevel(delta)) \/ (\E kind : Starts(kind)) \/ Raises
    BY <1>1, <2>2 DEF Uplevel, Starts, Raises, Running
  <2>3. CASE LeaveProc \/ LeaveUplevel \/ LeaveEval
    BY <1>1, <2>3 DEF LeaveProc, LeaveUplevel, LeaveEval, End
  <2>4. CASE If \/ While \/ For \/ Foreach
    BY <1>1, <2>4 DEF If, While, For, Foreach, End
  <2>5. CASE LeaveCatch \/ Reported \/ UNCHANGED vars
    BY <1>1, <2>5 DEF LeaveCatch, Reported, vars
  <2> QED BY <1>1, <2>1, <2>2, <2>3, <2>4, <2>5, Zenon DEF Next
<1> QED BY <1>1, PTL DEF Spec, ErrorsAreSeen

(* The commands on variables move the frames as PicolFrames says. *)
LEMMA VarsMoveFrames == VarsNext => [Next]_vars
<1> SUFFICES ASSUME VarsNext PROVE [Next]_vars
  OBVIOUS
<1>1. ASSUME NEW f \in Frames, Call(f) PROVE Next
  BY <1>1 DEF Call, Next
<1>2. CASE Return
  BY <1>2 DEF Return, Next
<1>3. CASE Control
  <2>1. CASE \E delta \in {1, 2, MaxDepth} : Uplevel(delta)
    BY <2>1 DEF Next
  <2> QED BY <1>3, <2>1, Zenon DEF Control, Next
<1>4. ASSUME Running2, Error PROVE Next
  BY <1>4 DEF Running2, Error, Raises, Codes, Next
<1>5. ASSUME NEW x \in Names, Read(x) \/ Incr(x) \/ Link(x) \/ Unset(x) PROVE [Next]_vars
  BY <1>4, <1>5 DEF Read, Incr, Link, Unset, Quiet
<1>6. ASSUME NEW x \in Names, NEW v \in Values, Set(x, v) \/ AppendTo(x, v) \/ Variable(x, v)
      PROVE [Next]_vars
  BY <1>4, <1>6 DEF Set, AppendTo, Variable, Quiet
<1>7. CASE Faulted
  BY <1>7 DEF Faulted, pVars
<1> QED BY <1>1, <1>2, <1>3, <1>5, <1>6, <1>7 DEF VarsNext

(* What holds of the frames holds of them with variables in them. *)
THEOREM VarsKeepFrames == VarsSpec => Spec
<1>1. [VarsNext]_pVars => [Next]_vars
  BY VarsMoveFrames DEF pVars
<1> QED BY <1>1, PTL DEF VarsSpec, VarsInit, Spec

-----------------------------------------------------------------------------
(***************************************************************************)
(* After a refused call the current frame is one no activation knows of,   *)
(* and the calls that end drop other frames than they made.  That no frame *)
(* that is needed is dropped rests on a count.  An uplevel begins a        *)
(* stretch; stretch[f] is the number of uplevels that were running when f  *)
(* was made, rank[f] how many frames of its stretch its chain has up to f. *)
(* From the current frame up there are at least as many frames of the      *)
(* stretch as calls to end in it, so these calls drop none of an earlier   *)
(* stretch, and uplevel saves no other.  kept are the frames that still    *)
(* count: others stay in use for ever, but nothing leads there.            *)
(***************************************************************************)
(* Induction, for sets of numbers. *)
LEMMA Induct ==
  ASSUME NEW S, 0 \in S, \A n \in Nat : n \in S => n + 1 \in S
  PROVE  Nat \subseteq S
<1> SUFFICES ASSUME Nat \ S # {} PROVE FALSE
  OBVIOUS
<1> DEFINE Upto(n) == 0..n
           F == {Upto(n) : n \in Nat \ S}
<1>1. F \subseteq FiniteSubsetsOf(Nat) /\ F # {}
  <2>1. \A n \in Nat : Upto(n) \in SUBSET Nat /\ IsFiniteSet(Upto(n))
    <3>1. \A n \in Nat : Upto(n) \in SUBSET Nat
      OBVIOUS
    <3>2. \A n \in Nat : IsFiniteSet(Upto(n))
      BY FS_Interval
    <3> QED BY <3>1, <3>2
  <2> HIDE DEF Upto
  <2> QED BY <2>1 DEF FiniteSubsetsOf
<1>2. \E A \in F : \A B \in F : <<B, A>> \notin StrictSubsetOrdering(Nat)
  <2> HIDE DEF F
  <2> QED BY <1>1, FS_StrictSubsetOrderingWellFounded, WFMin
<1>3. PICK m \in Nat \ S : \A n \in Nat \ S : <<Upto(n), Upto(m)>> \notin StrictSubsetOrdering(Nat)
  BY <1>2
<1>4. m - 1 \in Nat /\ m - 1 + 1 = m
  BY <1>3
<1>5. Upto(m - 1) \in SUBSET Nat /\ Upto(m) \in SUBSET Nat
      /\ Upto(m - 1) \subseteq Upto(m) /\ Upto(m - 1) # Upto(m)
  BY <1>4
<1>6. <<Upto(m - 1), Upto(m)>> \in StrictSubsetOrdering(Nat)
  <2> HIDE DEF Upto
  <2> QED BY <1>5 DEF StrictSubsetOrdering
<1> QED BY <1>3, <1>4, <1>6

(* The frames kept are in use, and so are their callers, down to Top. *)
Chain(al, p, kept, stretch, rank) ==
  /\ Top \in kept /\ kept \subseteq al \union {Top} /\ p[Top] = NULL
  /\ stretch \in [AllFrames -> Nat] /\ rank \in [AllFrames -> Nat]
  /\ stretch[Top] = 0 /\ rank[Top] = 0
  /\ \A f \in kept \ {Top} :
       /\ p[f] \in kept /\ stretch[p[f]] <= stretch[f]
       /\ rank[f] = IF stretch[p[f]] = stretch[f] THEN rank[p[f]] + 1 ELSE 1

(* Frame f may be current in stretch s with n calls to end. *)
Sits(f, kept, stretch, rank, s, n) ==
  /\ f \in kept /\ stretch[f] <= s
  /\ n >= 1 => stretch[f] = s /\ rank[f] >= n

(* How a count of uplevels, and one of the calls since the last of them,   *)
(* go on.                                                                  *)
Ups(kind, u) == IF kind = "uplevel" THEN u + 1 ELSE u
Calls(kind, c) == IF kind = "uplevel" THEN 0 ELSE IF kind = "proc" THEN c + 1 ELSE c

(* ups[i] counts the uplevels up to depth i of stack s, calls[i] the calls *)
(* since the last one.                                                     *)
Counted(s, n, ups, calls) ==
  /\ ups \in [Nat -> Nat] /\ calls \in [Nat -> Nat] /\ ups[0] = 0 /\ calls[0] = 0
  /\ \A i, j \in 0..n : i <= j => ups[i] <= ups[j]
  /\ \A i \in 1..n : ups[i] = Ups(s[i].kind, ups[i - 1]) /\ calls[i] = Calls(s[i].kind, calls[i - 1])

(* The frames uplevel will go back to. *)
Saved(s, n, kept, stretch, rank, ups, calls) ==
  \A i \in 1..n :
    s[i].kind = "uplevel" => Sits(s[i].own, kept, stretch, rank, ups[i - 1], calls[i - 1])

Lives(kept, stretch, rank, ups, calls) ==
  /\ Chain(alloc, parent, kept, stretch, rank)
  /\ Counted(stack, Len(stack), ups, calls)
  /\ Sits(callframe, kept, stretch, rank, ups[Len(stack)], calls[Len(stack)])
  /\ Saved(stack, Len(stack), kept, stretch, rank, ups, calls)

LevelInv == IsFiniteSet(Procs) /\ level = Cardinality(Procs)

LiveInv == \E kept, stretch, rank, ups, calls : Lives(kept, stretch, rank, ups, calls)

(* uplevel does not leave a set of frames that has the callers of its own. *)
LEMMA AncestorIn ==
  ASSUME NEW A, NEW f \in A, \A g \in A : Up(g) \in A, NEW delta \in Nat
  PROVE  Ancestor(f, delta) \in A
<1> DEFINE Climbs(g, d) == g = [n \in 0..d |-> IF n = 0 THEN f ELSE Up(g[n - 1])]
           S == {d \in Nat : \E g : Climbs(g, d)}
<1>1. \E g : Climbs(g, 0)
  <2>1. Climbs([n \in 0..0 |-> f], 0)
    OBVIOUS
  <2> QED BY <2>1
<1>2. ASSUME NEW d \in Nat, NEW g, Climbs(g, d) PROVE \E h : Climbs(h, d + 1)
  <2> DEFINE h == [n \in 0..(d + 1) |-> IF n <= d THEN g[n] ELSE Up(g[d])]
  <2>1. ASSUME NEW n \in 0..(d + 1) PROVE h[n] = IF n = 0 THEN f ELSE Up(h[n - 1])
    <3>1. CASE n = 0
      BY <1>2, <3>1
    <3>2. CASE n # 0 /\ n <= d
      <4>1. h[n] = g[n] /\ h[n - 1] = g[n - 1] /\ g[n] = Up(g[n - 1])
        BY <1>2, <3>2
      <4> QED BY <3>2, <4>1
    <3>3. CASE n = d + 1
      <4>1. h[n] = Up(g[d]) /\ h[n - 1] = g[d] /\ n # 0
        BY <3>3
      <4> QED BY <4>1
    <3> QED BY <3>1, <3>2, <3>3
  <2>2. Climbs(h, d + 1)
    BY <2>1
  <2> HIDE DEF h
  <2> QED BY <2>2
<1>3. \E g : Climbs(g, delta)
  <2>1. 0 \in S /\ \A d \in Nat : d \in S => d + 1 \in S
    <3> HIDE DEF Climbs
    <3> QED BY <1>1, <1>2
  <2> HIDE DEF Climbs, S
  <2>2. Nat \subseteq S
    BY <2>1, Induct
  <2> QED BY <2>2 DEF S
<1> DEFINE at == CHOOSE g : Climbs(g, delta)
<1>4. Climbs(at, delta) /\ Ancestor(f, delta) = at[delta]
  <2>1. Climbs(at, delta)
    BY <1>3
  <2>2. Ancestor(f, delta) = at[delta]
    BY DEF Ancestor
  <2> QED BY <2>1, <2>2
<1> HIDE DEF at
<1> DEFINE T == {n \in Nat : n <= delta => at[n] \in A}
<1>5. at[0] = f /\ \A n \in 0..delta : n # 0 => at[n] = Up(at[n - 1])
  BY <1>4
<1> HIDE DEF Climbs
<1>6. 0 \in T /\ \A n \in Nat : n \in T => n + 1 \in T
  BY <1>5
<1> HIDE DEF T
<1>7. Nat \subseteq T
  BY <1>6, Induct
<1> QED BY <1>4, <1>7 DEF T

(* A new frame f comes above the current one, with parents p2. *)
Grows(al, p2, kept, stretch, rank, s, n, f) ==
  \E stretch2, rank2 :
    /\ Chain(al \union {f}, p2, kept \union {f}, stretch2, rank2)
    /\ Sits(f, kept \union {f}, stretch2, rank2, s, n + 1)
    /\ \A g \in kept : stretch2[g] = stretch[g] /\ rank2[g] = rank[g]

(* A frame added to the chain. *)
LEMMA FrameMade ==
  ASSUME NEW al, NEW p, NEW kept, NEW stretch, NEW rank, NEW c, NEW s \in Nat, NEW n \in Nat, NEW f,
         al \subseteq Frames, p = [g \in AllFrames |-> p[g]], f \in Frames \ al,
         Chain(al, p, kept, stretch, rank), Sits(c, kept, stretch, rank, s, n)
  PROVE  Grows(al, [p EXCEPT ![f] = c], kept, stretch, rank, s, n, f)
<1> DEFINE p2 == [p EXCEPT ![f] = c]
           stretch2 == [stretch EXCEPT ![f] = s]
           r == IF stretch[c] = s THEN rank[c] + 1 ELSE 1
           rank2 == [rank EXCEPT ![f] = r]
<1>1. f \in AllFrames /\ f # Top /\ f \notin kept /\ c \in kept /\ kept \subseteq AllFrames
  BY FrameAssumption DEF Chain, Sits, AllFrames
<1>2. stretch[c] \in Nat /\ rank[c] \in Nat /\ r \in Nat
  BY <1>1 DEF Chain
<1>3. /\ stretch2 \in [AllFrames -> Nat] /\ rank2 \in [AllFrames -> Nat]
      /\ stretch2[f] = s /\ rank2[f] = r /\ p2[f] = c
      /\ \A g \in AllFrames : g # f => stretch2[g] = stretch[g] /\ rank2[g] = rank[g] /\ p2[g] = p[g]
  BY <1>1, <1>2 DEF Chain
<1>4. Chain(al \union {f}, p2, kept \union {f}, stretch2, rank2)
  <2> HIDE DEF p2, stretch2, rank2
  <2>1. Top \in AllFrames
    BY DEF AllFrames
  <2>2. ASSUME NEW g \in kept \ {Top}
        PROVE  /\ p2[g] \in kept \union {f} /\ stretch2[p2[g]] <= stretch2[g]
               /\ rank2[g] = IF stretch2[p2[g]] = stretch2[g] THEN rank2[p2[g]] + 1 ELSE 1
    BY <1>1, <1>3 DEF Chain
  <2>3. /\ p2[f] \in kept \union {f} /\ stretch2[p2[f]] <= stretch2[f]
        /\ rank2[f] = IF stretch2[p2[f]] = stretch2[f] THEN rank2[p2[f]] + 1 ELSE 1
    BY <1>1, <1>3 DEF Sits
  <2> QED BY <1>1, <1>3, <2>1, <2>2, <2>3 DEF Chain
<1>5. Sits(f, kept \union {f}, stretch2, rank2, s, n + 1)
  <2> HIDE DEF stretch2, rank2
  <2> QED BY <1>2, <1>3 DEF Sits
<1>6. \A g \in kept : stretch2[g] = stretch[g] /\ rank2[g] = rank[g]
  BY <1>1, <1>3
<1> HIDE DEF p2, stretch2, rank2
<1>7. Grows(al, p2, kept, stretch, rank, s, n, f)
  BY <1>4, <1>5, <1>6 DEF Grows
<1> QED BY <1>7 DEF p2

(* What a call drops is of the current stretch; frames further up in it    *)
(* are leftovers.                                                          *)
LEMMA FrameDropped ==
  ASSUME NEW al \in SUBSET Frames, NEW p, p = [g \in AllFrames |-> p[g]],
         NEW kept, NEW stretch, NEW rank, Chain(al, p, kept, stretch, rank),
         NEW c, NEW s \in Nat, NEW n \in Nat, Sits(c, kept, stretch, rank, s, n + 1)
  PROVE  \E kept2 :
           /\ Chain(al \ {c}, [p EXCEPT ![c] = NULL], kept2, stretch, rank)
           /\ Sits(p[c], kept2, stretch, rank, s, n)
           /\ \A g \in kept : stretch[g] < s => g \in kept2
<1> DEFINE p2 == [p EXCEPT ![c] = NULL]
           kept2 == {g \in kept : stretch[g] < s \/ (stretch[g] = s /\ rank[g] < rank[c])}
<1>1. /\ c \in kept /\ stretch[c] = s /\ rank[c] >= n + 1 /\ c # Top /\ kept \subseteq AllFrames
      /\ Top \in AllFrames
  BY DEF Chain, Sits, AllFrames
<1>2. \A g \in kept : stretch[g] \in Nat /\ rank[g] \in Nat
  BY <1>1 DEF Chain
<1>3. c \notin kept2 /\ kept2 \subseteq kept /\ Top \in kept2
  BY <1>1, <1>2 DEF Chain
<1>4. \A g \in AllFrames : g # c => p2[g] = p[g]
  OBVIOUS
<1>5. ASSUME NEW g \in kept2 \ {Top} PROVE p[g] \in kept2
  <2>1. /\ p[g] \in kept /\ stretch[p[g]] <= stretch[g]
        /\ rank[g] = IF stretch[p[g]] = stretch[g] THEN rank[p[g]] + 1 ELSE 1
    BY DEF Chain
  <2> QED BY <1>1, <1>2, <2>1
<1>6. Chain(al \ {c}, p2, kept2, stretch, rank)
  <2> HIDE DEF p2, kept2
  <2> QED BY <1>1, <1>3, <1>4, <1>5 DEF Chain
<1>7. p[c] \in kept /\ stretch[p[c]] <= s /\ rank[c] = IF stretch[p[c]] = s THEN rank[p[c]] + 1 ELSE 1
  BY <1>1 DEF Chain
<1>8. Sits(p[c], kept2, stretch, rank, s, n)
  BY <1>1, <1>2, <1>7 DEF Sits
<1>9. \A g \in kept : stretch[g] < s => g \in kept2
  OBVIOUS
<1> HIDE DEF p2, kept2
<1>10. p2 = [p EXCEPT ![c] = NULL]
  BY DEF p2
<1> QED BY <1>6, <1>8, <1>9, <1>10

(* Two stacks agree up to depth n. *)
Agree(s, s2, n) == \A i \in 1..n : s2[i] = s[i]

CountsGoOn(s, n, ups, calls) ==
  \E ups2, calls2 :
    /\ Counted(s, n + 1, ups2, calls2)
    /\ \A i \in 0..n : ups2[i] = ups[i] /\ calls2[i] = calls[i]
    /\ ups2[n + 1] = Ups(s[n + 1].kind, ups[n])
    /\ calls2[n + 1] = Calls(s[n + 1].kind, calls[n])

(* The counts go on when an activation is put on the stack. *)
LEMMA CountsGrow ==
  ASSUME NEW s, NEW s2, NEW ups, NEW calls, NEW n \in Nat,
         Agree(s, s2, n), Counted(s, n, ups, calls)
  PROVE  CountsGoOn(s2, n, ups, calls)
<1>1. PICK u : u = Ups(s2[n + 1].kind, ups[n])
  OBVIOUS
<1>2. PICK c : c = Calls(s2[n + 1].kind, calls[n])
  OBVIOUS
<1>3. /\ ups \in [Nat -> Nat] /\ calls \in [Nat -> Nat] /\ ups[0] = 0 /\ calls[0] = 0
      /\ \A i, j \in 0..n : i <= j => ups[i] <= ups[j]
      /\ \A i \in 1..n : ups[i] = Ups(s[i].kind, ups[i - 1]) /\ calls[i] = Calls(s[i].kind, calls[i - 1])
  BY DEF Counted
<1>4. u \in Nat /\ c \in Nat /\ u >= ups[n] /\ ups[n] \in Nat
  BY <1>1, <1>2, <1>3 DEF Ups, Calls
<1> DEFINE ups2 == [ups EXCEPT ![n + 1] = u]
           calls2 == [calls EXCEPT ![n + 1] = c]
<1>5. /\ ups2 \in [Nat -> Nat] /\ calls2 \in [Nat -> Nat]
      /\ ups2[n + 1] = u /\ calls2[n + 1] = c
      /\ \A i \in 0..n : ups2[i] = ups[i] /\ calls2[i] = calls[i]
  BY <1>3, <1>4
<1> HIDE DEF ups2, calls2
<1>6. \A i, j \in 0..(n + 1) : i <= j => ups2[i] <= ups2[j]
  <2> SUFFICES ASSUME NEW i \in 0..(n + 1), NEW j \in 0..(n + 1), i <= j
               PROVE  ups2[i] <= ups2[j]
    OBVIOUS
  <2>1. CASE j <= n
    <3>1. i \in 0..n /\ j \in 0..n
      BY <2>1
    <3>2. ups2[i] = ups[i] /\ ups2[j] = ups[j] /\ ups[i] <= ups[j]
      BY <1>3, <1>5, <3>1, Zenon
    <3> QED BY <3>2
  <2>2. CASE j = n + 1 /\ i <= n
    <3>1. ups[i] <= ups[n] /\ ups[i] \in Nat
      BY <1>3, <2>2
    <3> QED BY <1>4, <1>5, <2>2, <3>1
  <2>3. CASE i = n + 1 /\ j = n + 1
    BY <1>4, <1>5, <2>3
  <2> QED BY <2>1, <2>2, <2>3
<1>7. ASSUME NEW i \in 1..(n + 1)
      PROVE  ups2[i] = Ups(s2[i].kind, ups2[i - 1]) /\ calls2[i] = Calls(s2[i].kind, calls2[i - 1])
  <2>1. CASE i <= n
    <3>1. i \in 1..n /\ i \in 0..n /\ i - 1 \in 0..n
      BY <2>1
    <3>2. /\ ups2[i] = ups[i] /\ calls2[i] = calls[i] /\ s2[i] = s[i]
          /\ ups2[i - 1] = ups[i - 1] /\ calls2[i - 1] = calls[i - 1]
          /\ ups[i] = Ups(s[i].kind, ups[i - 1]) /\ calls[i] = Calls(s[i].kind, calls[i - 1])
      BY <1>3, <1>5, <3>1, Zenon DEF Agree
    <3> QED BY <3>2
  <2>2. CASE i = n + 1
    BY <1>1, <1>2, <1>5, <2>2
  <2> QED BY <2>1, <2>2
<1>8. Counted(s2, n + 1, ups2, calls2)
  BY <1>3, <1>5, <1>6, <1>7 DEF Counted
<1> QED BY <1>1, <1>2, <1>5, <1>8 DEF CountsGoOn

(* The counts at the innermost activation. *)
Last(kind, n, ups, calls) ==
  /\ ups[n] \in Nat /\ calls[n] \in Nat
  /\ ups[n + 1] = Ups(kind, ups[n]) /\ calls[n + 1] = Calls(kind, calls[n])

(* The frames counted up to the last. *)
LEMMA CountLast ==
  ASSUME NEW s, NEW ups, NEW calls, NEW n \in Nat, Counted(s, n + 1, ups, calls)
  PROVE  Last(s[n + 1].kind, n, ups, calls)
<1>1. n + 1 \in 1..(n + 1) /\ n + 1 - 1 = n
  OBVIOUS
<1>2. /\ ups[n + 1] = Ups(s[n + 1].kind, ups[n + 1 - 1])
      /\ calls[n + 1] = Calls(s[n + 1].kind, calls[n + 1 - 1])
  BY <1>1 DEF Counted
<1>3. ups[n] \in Nat /\ calls[n] \in Nat
  BY DEF Counted
<1> QED BY <1>1, <1>2, <1>3 DEF Last

(* What ends leaves the counts below. *)
LEMMA CountsStay ==
  ASSUME NEW s, NEW s2, NEW ups, NEW calls, NEW n \in Nat,
         Agree(s, s2, n), Counted(s, n + 1, ups, calls)
  PROVE  Counted(s2, n, ups, calls)
<1>1. \A i \in 1..n : i \in 1..(n + 1)
  OBVIOUS
<1>2. \A i \in 0..n : i \in 0..(n + 1)
  OBVIOUS
<1> QED BY <1>1, <1>2, Zenon DEF Counted, Agree

-----------------------------------------------------------------------------
(* At the start only Top is there. *)
LEMMA LiveInitially == Init => LiveInv /\ LevelInv
<1> SUFFICES ASSUME Init PROVE LiveInv /\ LevelInv
  OBVIOUS
<1>1. PICK zero : zero = [f \in AllFrames |-> 0]
  OBVIOUS
<1>2. PICK none : none = [i \in Nat |-> 0]
  OBVIOUS
<1>3. Len(stack) = 0 /\ Procs = {}
  BY DEF Init, Procs
<1>4. Chain(alloc, parent, {Top}, zero, zero)
  BY <1>1 DEF Init, Chain, AllFrames
<1>5. Counted(stack, Len(stack), none, none)
  BY <1>2, <1>3 DEF Counted
<1>6. Sits(callframe, {Top}, zero, zero, none[Len(stack)], none[Len(stack)])
  BY <1>1, <1>2, <1>3 DEF Init, Sits, AllFrames
<1>7. Saved(stack, Len(stack), {Top}, zero, zero, none, none)
  BY <1>3 DEF Saved
<1>8. LevelInv
  BY <1>3, FS_EmptySet DEF Init, LevelInv
<1> QED BY <1>4, <1>5, <1>6, <1>7, <1>8, Zenon DEF LiveInv, Lives

(* A command puts an activation on the stack. *)
Puts(kind, own, at) == stack' = Append(stack, Activation(kind, own, at))

(* A script is started, by uplevel in a frame further up. *)
LEMMA LiveStarts ==
  ASSUME FrameInv, LiveInv, NEW kind \in Kinds \ {"proc"}, NEW own,
         Puts(kind, own, callframe'),
         IF kind = "uplevel" THEN own = callframe /\ \E delta \in Nat : callframe' = Ancestor(callframe, delta)
                             ELSE callframe' = callframe,
         UNCHANGED <<alloc, parent>>
  PROVE  LiveInv'
<1>1. PICK kept, stretch, rank, ups, calls : Lives(kept, stretch, rank, ups, calls)
  BY DEF LiveInv
<1>2. /\ Len(stack) \in Nat /\ Len(stack') = Len(stack) + 1
      /\ \A i \in 1..Len(stack) : stack'[i] = stack[i]
      /\ stack'[Len(stack) + 1] = [kind |-> kind, own |-> own, at |-> callframe']
  BY Pushed DEF FrameInv, Puts
<1>3. PICK n \in Nat : n = Len(stack)
  BY <1>2
<1>4. PICK ups2, calls2 :
        /\ Counted(stack', n + 1, ups2, calls2)
        /\ \A i \in 0..n : ups2[i] = ups[i] /\ calls2[i] = calls[i]
        /\ ups2[n + 1] = Ups(kind, ups[n])
        /\ calls2[n + 1] = Calls(kind, calls[n])
  <2>1. Agree(stack, stack', n) /\ Counted(stack, n, ups, calls)
    BY <1>1, <1>2, <1>3 DEF Lives, Agree
  <2>2. stack'[n + 1].kind = kind
    BY <1>2, <1>3
  <2>3. CountsGoOn(stack', n, ups, calls)
    BY <2>1, CountsGrow
  <2> QED BY <2>2, <2>3 DEF CountsGoOn
<1>5. /\ n \in Nat /\ ups[n] \in Nat /\ calls[n] \in Nat /\ ups2[n] = ups[n] /\ calls2[n] = calls[n]
      /\ kind = "uplevel" => ups2[n + 1] = ups[n] + 1 /\ calls2[n + 1] = 0
      /\ kind # "uplevel" => ups2[n + 1] = ups[n] /\ calls2[n + 1] = calls[n]
  <2>1. ups \in [Nat -> Nat] /\ calls \in [Nat -> Nat]
    BY <1>1 DEF Lives, Counted
  <2>2. ups[n] \in Nat /\ calls[n] \in Nat /\ n \in 0..n
    BY <2>1
  <2>3. kind # "proc"
    OBVIOUS
  <2> QED BY <1>4, <2>2, <2>3 DEF Ups, Calls
<1>6. Sits(callframe', kept, stretch, rank, ups2[n + 1], calls2[n + 1])
  <2>1. Sits(callframe, kept, stretch, rank, ups[n], calls[n])
    BY <1>1, <1>3 DEF Lives
  <2>2. CASE kind # "uplevel"
    BY <1>5, <2>1, <2>2
  <2>3. CASE kind = "uplevel"
    <3> DEFINE A == {g \in kept : stretch[g] <= ups[n]}
    <3>1. callframe \in A
      BY <2>1 DEF Sits
    <3>2. ASSUME NEW g \in A PROVE Up(g) \in A
      <4>1. \A h \in kept : stretch[h] \in Nat
        BY <1>1 DEF Lives, Chain, FrameInv, FrameTypes, AllFrames
      <4>2. g = Top => Up(g) = g
        BY <1>1 DEF Lives, Chain, Up
      <4>3. g # Top => Up(g) = parent[g] \/ Up(g) = g
        BY DEF Up
      <4> QED BY <1>1, <1>5, <4>1, <4>2, <4>3 DEF Lives, Chain
    <3> HIDE DEF A
    <3>3. callframe' \in A
      BY <2>3, <3>1, <3>2, AncestorIn
    <3>4. callframe' \in kept /\ stretch[callframe'] <= ups[n] /\ stretch[callframe'] \in Nat
      BY <1>1, <3>3 DEF A, Lives, Chain, FrameInv, FrameTypes, AllFrames
    <3> QED BY <1>5, <2>3, <3>4 DEF Sits
  <2> QED BY <2>2, <2>3
<1>7. Saved(stack', Len(stack'), kept, stretch, rank, ups2, calls2)
  <2> SUFFICES ASSUME NEW i \in 1..(n + 1), stack'[i].kind = "uplevel"
               PROVE  Sits(stack'[i].own, kept, stretch, rank, ups2[i - 1], calls2[i - 1])
    BY <1>2, <1>3 DEF Saved
  <2>1. CASE i \in 1..n
    BY <1>1, <1>2, <1>3, <1>4, <1>5, <2>1 DEF Lives, Saved
  <2>2. CASE i = n + 1
    <3>1. kind = "uplevel" /\ stack'[i].own = callframe /\ i - 1 = n
      BY <1>2, <1>3, <1>5, <2>2
    <3> QED BY <1>1, <1>3, <1>5, <3>1 DEF Lives
  <2>3. i \in 1..n \/ i = n + 1
    OBVIOUS
  <2> QED BY <2>1, <2>2, <2>3
<1>8. Lives(kept, stretch, rank, ups2, calls2)'
  BY <1>1, <1>2, <1>3, <1>4, <1>6, <1>7 DEF Lives
<1> QED BY <1>8 DEF LiveInv

(* A procedure is called, or refused: the new frame has one more below it  *)
(* than the calls need.                                                    *)
LEMMA LiveCalls ==
  ASSUME FrameInv, LiveInv, NEW f \in Frames, CallProc(f) \/ CallRefused(f)
  PROVE  LiveInv'
<1>1. PICK kept, stretch, rank, ups, calls : Lives(kept, stretch, rank, ups, calls)
  BY DEF LiveInv
<1>2. PICK n \in Nat : n = Len(stack)
  BY DEF FrameInv, FrameTypes
<1>3. n \in Nat /\ Len(stack) \in Nat
  BY <1>2
<1>4. ups[n] \in Nat /\ calls[n] \in Nat /\ Sits(callframe, kept, stretch, rank, ups[n], calls[n])
  BY <1>1, <1>2, <1>3 DEF Lives, Counted
<1>5. /\ f \in Frames \ alloc /\ callframe' = f
      /\ alloc' = alloc \union {f} /\ parent' = [parent EXCEPT ![f] = callframe]
  BY DEF CallProc, CallRefused, NewFrame
<1>6. PICK stretch2, rank2 :
        /\ Chain(alloc', parent', kept \union {f}, stretch2, rank2)
        /\ Sits(f, kept \union {f}, stretch2, rank2, ups[n], calls[n] + 1)
        /\ \A g \in kept : stretch2[g] = stretch[g] /\ rank2[g] = rank[g]
  <2>1. alloc \in SUBSET Frames /\ parent = [g \in AllFrames |-> parent[g]]
    BY DEF FrameInv, FrameTypes
  <2>2. Chain(alloc, parent, kept, stretch, rank)
    BY <1>1 DEF Lives
  <2>3. Grows(alloc, [parent EXCEPT ![f] = callframe], kept, stretch, rank, ups[n], calls[n], f)
    BY <1>4, <1>5, <2>1, <2>2, FrameMade
  <2> QED BY <1>5, <2>3 DEF Grows
<1>7. CASE CallRefused(f)
  <2>1. stack' = stack
    BY <1>7 DEF CallRefused
  <2>2. Sits(callframe', kept \union {f}, stretch2, rank2, ups[n], calls[n])
    <3>1. rank2[f] \in Nat
      BY <1>6 DEF Chain, AllFrames
    <3> QED BY <1>4, <1>5, <1>6, <3>1 DEF Sits
  <2>3. Saved(stack', Len(stack'), kept \union {f}, stretch2, rank2, ups, calls)
    BY <1>1, <1>3, <1>6, <2>1 DEF Lives, Saved, Sits
  <2>4. Lives(kept \union {f}, stretch2, rank2, ups, calls)'
    BY <1>1, <1>2, <1>6, <2>1, <2>2, <2>3 DEF Lives
  <2> QED BY <2>4 DEF LiveInv
<1>8. CASE CallProc(f)
  <2>1. /\ Len(stack') = n + 1
        /\ \A i \in 1..n : stack'[i] = stack[i]
        /\ stack'[n + 1].kind = "proc"
    <3>1. "proc" \in Kinds /\ stack' = Append(stack, Activation("proc", f, f))
      BY <1>8 DEF CallProc, Kinds
    <3>2. /\ Len(stack') = Len(stack) + 1
          /\ \A i \in 1..Len(stack) : stack'[i] = stack[i]
          /\ stack'[Len(stack) + 1] = [kind |-> "proc", own |-> f, at |-> f]
      BY <3>1, Pushed DEF FrameInv
    <3> QED BY <1>2, <3>2
  <2>2. PICK ups2, calls2 :
          /\ Counted(stack', n + 1, ups2, calls2)
          /\ \A i \in 0..n : ups2[i] = ups[i] /\ calls2[i] = calls[i]
          /\ ups2[n + 1] = Ups("proc", ups[n]) /\ calls2[n + 1] = Calls("proc", calls[n])
    <3>1. Agree(stack, stack', n) /\ Counted(stack, n, ups, calls)
      BY <1>1, <1>2, <2>1 DEF Lives, Agree
    <3>2. CountsGoOn(stack', n, ups, calls)
      BY <3>1, CountsGrow
    <3> QED BY <2>1, <3>2 DEF CountsGoOn
  <2>3. ups2[n + 1] = ups[n] /\ calls2[n + 1] = calls[n] + 1
    BY <2>2 DEF Ups, Calls
  <2>4. Saved(stack', Len(stack'), kept \union {f}, stretch2, rank2, ups2, calls2)
    <3> SUFFICES ASSUME NEW i \in 1..(n + 1), stack'[i].kind = "uplevel"
                 PROVE  Sits(stack'[i].own, kept \union {f}, stretch2, rank2, ups2[i - 1], calls2[i - 1])
      BY <2>1 DEF Saved
    <3>1. i \in 1..n /\ i - 1 \in 0..n
      BY <1>3, <2>1
    <3>2. Sits(stack[i].own, kept, stretch, rank, ups[i - 1], calls[i - 1])
      BY <1>1, <1>2, <2>1, <3>1 DEF Lives, Saved
    <3> QED BY <1>6, <2>1, <2>2, <3>1, <3>2 DEF Sits
  <2>5. Lives(kept \union {f}, stretch2, rank2, ups2, calls2)'
    BY <1>5, <1>6, <2>1, <2>2, <2>3, <2>4 DEF Lives
  <2> QED BY <2>5 DEF LiveInv
<1> QED BY <1>7, <1>8

(* A procedure ends, and drops a frame of the current stretch. *)
LEMMA LiveReturns ==
  ASSUME FrameInv, LiveInv, LeaveProc
  PROVE  LiveInv'
<1>1. PICK kept, stretch, rank, ups, calls : Lives(kept, stretch, rank, ups, calls)
  BY DEF LiveInv
<1>2. PICK n \in Nat : n = Len(stack) - 1
  <2>1. Len(stack) - 1 \in Nat
    BY Popped DEF FrameInv, LeaveProc, In
  <2> QED BY <2>1
<1>3. /\ n \in Nat /\ Len(stack) = n + 1 /\ Len(stack') = n
      /\ \A i \in 1..n : stack'[i] = stack[i]
      /\ stack[n + 1].kind = "proc"
  BY <1>2, Popped DEF FrameInv, LeaveProc, In, Inner
<1>4. /\ ups[n] \in Nat /\ calls[n] \in Nat
      /\ ups[n + 1] = ups[n] /\ calls[n + 1] = calls[n] + 1
  <2>1. Counted(stack, n + 1, ups, calls)
    BY <1>1, <1>3 DEF Lives
  <2>2. Last(stack[n + 1].kind, n, ups, calls)
    BY <2>1, CountLast
  <2> QED BY <1>3, <2>2 DEF Last, Ups, Calls
<1>5. PICK kept2 :
        /\ Chain(alloc', parent', kept2, stretch, rank)
        /\ Sits(callframe', kept2, stretch, rank, ups[n], calls[n])
        /\ \A g \in kept : stretch[g] < ups[n] => g \in kept2
  <2>1. alloc \in SUBSET Frames /\ parent = [g \in AllFrames |-> parent[g]]
    BY DEF FrameInv, FrameTypes
  <2>2. Chain(alloc, parent, kept, stretch, rank)
    BY <1>1 DEF Lives
  <2>3. Sits(callframe, kept, stretch, rank, ups[n], calls[n] + 1)
    BY <1>1, <1>3, <1>4 DEF Lives
  <2>4. \E kept2 :
          /\ Chain(alloc \ {callframe}, [parent EXCEPT ![callframe] = NULL], kept2, stretch, rank)
          /\ Sits(parent[callframe], kept2, stretch, rank, ups[n], calls[n])
          /\ \A g \in kept : stretch[g] < ups[n] => g \in kept2
    BY <1>4, <2>1, <2>2, <2>3, FrameDropped
  <2> QED BY <2>4 DEF LeaveProc
<1>6. Counted(stack', Len(stack'), ups, calls)
  <2>1. Agree(stack, stack', n) /\ Counted(stack, n + 1, ups, calls)
    BY <1>1, <1>3 DEF Lives, Agree
  <2> QED BY <1>3, <2>1, CountsStay, Zenon
<1>7. Saved(stack', Len(stack'), kept2, stretch, rank, ups, calls)
  <2> SUFFICES ASSUME NEW i \in 1..n, stack[i].kind = "uplevel"
               PROVE  Sits(stack[i].own, kept2, stretch, rank, ups[i - 1], calls[i - 1])
    BY <1>3 DEF Saved
  <2>1. Sits(stack[i].own, kept, stretch, rank, ups[i - 1], calls[i - 1])
    BY <1>1, <1>3 DEF Lives, Saved
  <2>2. ups[i] = ups[i - 1] + 1 /\ ups[i] <= ups[n] /\ ups[i - 1] \in Nat
    <3>1. Counted(stack, n + 1, ups, calls)
      BY <1>1, <1>3 DEF Lives
    <3> QED BY <1>3, <3>1 DEF Counted, Ups
  <2>3. stack[i].own \in kept /\ stretch[stack[i].own] <= ups[i - 1]
    BY <2>1 DEF Sits
  <2>4. stretch[stack[i].own] \in Nat
    BY <1>1, <2>3 DEF Lives, Chain, FrameInv, FrameTypes, AllFrames
  <2>5. stack[i].own \in kept2
    BY <1>4, <1>5, <2>2, <2>3, <2>4
  <2> QED BY <2>1, <2>5 DEF Sits
<1>8. Lives(kept2, stretch, rank, ups, calls)'
  BY <1>3, <1>5, <1>6, <1>7 DEF Lives
<1> QED BY <1>8 DEF LiveInv

(* Anything else ends, uplevel back in the frame it was called in. *)
LEMMA LiveEnds ==
  ASSUME FrameInv, LiveInv, stack # <<>>, stack' = Outer, UNCHANGED <<alloc, parent>>,
         Inner.kind # "proc",
         callframe' = IF Inner.kind = "uplevel" THEN Inner.own ELSE callframe
  PROVE  LiveInv'
<1>1. PICK kept, stretch, rank, ups, calls : Lives(kept, stretch, rank, ups, calls)
  BY DEF LiveInv
<1>2. PICK n \in Nat : n = Len(stack) - 1
  <2>1. Len(stack) - 1 \in Nat
    BY Popped DEF FrameInv
  <2> QED BY <2>1
<1>3. /\ n \in Nat /\ Len(stack) = n + 1 /\ Len(stack') = n
      /\ \A i \in 1..n : stack'[i] = stack[i]
      /\ Inner = stack[n + 1]
  BY <1>2, Popped DEF FrameInv, Inner
<1>4. Sits(callframe', kept, stretch, rank, ups[n], calls[n])
  <2>1. CASE Inner.kind = "uplevel"
    <3>1. n + 1 \in 1..Len(stack) /\ n + 1 - 1 = n
      BY <1>3
    <3>2. Sits(Inner.own, kept, stretch, rank, ups[n + 1 - 1], calls[n + 1 - 1])
      BY <1>1, <1>3, <2>1, <3>1 DEF Lives, Saved
    <3> QED BY <2>1, <3>1, <3>2
  <2>2. CASE Inner.kind # "uplevel"
    <3>1. ups[n + 1] = ups[n] /\ calls[n + 1] = calls[n]
      <4>1. Counted(stack, n + 1, ups, calls)
        BY <1>1, <1>3 DEF Lives
      <4>2. Last(stack[n + 1].kind, n, ups, calls)
        BY <4>1, CountLast
      <4>3. stack[n + 1].kind \notin {"uplevel", "proc"}
        BY <1>3, <2>2
      <4> QED BY <4>2, <4>3 DEF Last, Ups, Calls
    <3> QED BY <1>1, <1>3, <2>2, <3>1 DEF Lives
  <2> QED BY <2>1, <2>2
<1>5. Counted(stack', Len(stack'), ups, calls)
  <2>1. Agree(stack, stack', n) /\ Counted(stack, n + 1, ups, calls)
    BY <1>1, <1>3 DEF Lives, Agree
  <2> QED BY <1>3, <2>1, CountsStay, Zenon
<1>6. Saved(stack', Len(stack'), kept, stretch, rank, ups, calls)
  BY <1>1, <1>3 DEF Lives, Saved
<1>7. Lives(kept, stretch, rank, ups, calls)'
  BY <1>1, <1>3, <1>4, <1>5, <1>6 DEF Lives
<1> QED BY <1>7 DEF LiveInv

(* A construct that goes on, or another that takes its place, is no call. *)
LEMMA LiveTurns ==
  ASSUME FrameInv, LiveInv, NEW kind \in Kinds \ {"proc", "uplevel"}, GoTo(kind), stack # <<>>,
         Inner.kind \notin {"proc", "uplevel"}
  PROVE  LiveInv'
<1> USE DEF GoTo, Inner
<1>1. PICK kept, stretch, rank, ups, calls : Lives(kept, stretch, rank, ups, calls)
  BY DEF LiveInv
<1>2. /\ Len(stack) \in Nat \ {0} /\ Len(stack') = Len(stack)
      /\ \A i \in 1..(Len(stack) - 1) : stack'[i] = stack[i]
      /\ stack'[Len(stack)].kind = kind
  BY Turned DEF FrameInv
<1>3. \A i \in 1..Len(stack) : \/ stack'[i] = stack[i]
                               \/ /\ stack'[i].kind \notin {"proc", "uplevel"}
                                  /\ stack[i].kind \notin {"proc", "uplevel"}
  BY <1>2
<1>4. Counted(stack', Len(stack'), ups, calls)
  <2>1. \A i \in 1..Len(stack) : \A v : /\ Ups(stack'[i].kind, v) = Ups(stack[i].kind, v)
                                        /\ Calls(stack'[i].kind, v) = Calls(stack[i].kind, v)
    BY <1>3 DEF Ups, Calls
  <2>2. Counted(stack, Len(stack), ups, calls) /\ Len(stack') = Len(stack)
    BY <1>1, <1>2 DEF Lives
  <2>3. ASSUME NEW i \in 1..Len(stack)
        PROVE  ups[i] = Ups(stack'[i].kind, ups[i - 1]) /\ calls[i] = Calls(stack'[i].kind, calls[i - 1])
    <3>1. ups[i] = Ups(stack[i].kind, ups[i - 1]) /\ calls[i] = Calls(stack[i].kind, calls[i - 1])
      BY <2>2 DEF Counted
    <3> QED BY <2>1, <3>1
  <2> QED BY <2>2, <2>3 DEF Counted
<1>5. Saved(stack', Len(stack'), kept, stretch, rank, ups, calls)
  BY <1>1, <1>2, <1>3 DEF Lives, Saved
<1>6. Lives(kept, stretch, rank, ups, calls)'
  BY <1>1, <1>2, <1>4, <1>5 DEF Lives
<1> QED BY <1>6 DEF LiveInv

(* What leaves the frames and the stack alone. *)
LEMMA LiveStill ==
  ASSUME LiveInv, UNCHANGED <<alloc, parent, callframe, stack>>
  PROVE  LiveInv'
BY DEF LiveInv, Lives

-----------------------------------------------------------------------------
(* The level is the number of calls on the stack, whatever becomes of the  *)
(* frames.                                                                 *)
LEMMA LevelCalls ==
  ASSUME FrameInv, LevelInv, NEW kind \in Kinds, NEW own, NEW at,
         Puts(kind, own, at),
         level' = IF kind = "proc" THEN level + 1 ELSE level
  PROVE  LevelInv'
<1>1. /\ Len(stack) \in Nat /\ Len(stack') = Len(stack) + 1
      /\ \A i \in 1..Len(stack) : stack'[i] = stack[i]
      /\ stack'[Len(stack) + 1] = [kind |-> kind, own |-> own, at |-> at]
      /\ DOMAIN stack = 1..Len(stack) /\ DOMAIN stack' = 1..Len(stack')
  BY Pushed DEF FrameInv, FrameTypes, Puts
<1>2. Procs' = IF kind = "proc" THEN Procs \union {Len(stack) + 1} ELSE Procs
  BY <1>1 DEF Procs
<1>3. Len(stack) + 1 \notin Procs
  BY <1>1 DEF Procs
<1> QED BY <1>2, <1>3, FS_AddElement DEF LevelInv

(* The level when a frame ends, *)
LEMMA LevelEnds ==
  ASSUME FrameInv, LevelInv, stack # <<>>, stack' = Outer,
         level' = IF Inner.kind = "proc" THEN level - 1 ELSE level
  PROVE  LevelInv'
<1>1. /\ Len(stack) \in Nat \ {0} /\ Len(stack') = Len(stack) - 1
      /\ \A i \in 1..(Len(stack) - 1) : stack'[i] = stack[i]
      /\ DOMAIN stack = 1..Len(stack) /\ DOMAIN stack' = 1..Len(stack')
  BY Popped DEF FrameInv, FrameTypes
<1>2. Procs' = Procs \ {Len(stack)}
  BY <1>1 DEF Procs
<1>3. Len(stack) \in Procs <=> Inner.kind = "proc"
  BY <1>1 DEF Procs, Inner
<1> QED BY <1>2, <1>3, FS_RemoveElement DEF LevelInv

(* and when one becomes another kind. *)
LEMMA LevelTurns ==
  ASSUME FrameInv, LevelInv, NEW kind \in Kinds \ {"proc", "uplevel"}, GoTo(kind), stack # <<>>,
         Inner.kind \notin {"proc", "uplevel"}
  PROVE  LevelInv'
<1>1. /\ Len(stack) \in Nat \ {0} /\ Len(stack') = Len(stack)
      /\ \A i \in 1..(Len(stack) - 1) : stack'[i] = stack[i]
      /\ stack'[Len(stack)].kind = kind
      /\ DOMAIN stack = 1..Len(stack) /\ DOMAIN stack' = 1..Len(stack')
  BY Turned DEF FrameInv, FrameTypes, GoTo
<1>2. Procs' = Procs
  BY <1>1 DEF Procs, Inner
<1> QED BY <1>2 DEF LevelInv, GoTo

(* Every step keeps the frames live and the level right. *)
LEMMA LiveStep == FrameInv /\ LiveInv /\ LevelInv /\ [Next]_vars => LiveInv' /\ LevelInv'
<1> SUFFICES ASSUME FrameInv, LiveInv, LevelInv, [Next]_vars PROVE LiveInv' /\ LevelInv'
  OBVIOUS
<1>1. ASSUME UNCHANGED <<alloc, parent, callframe, stack, level>> PROVE LiveInv' /\ LevelInv'
  <2>1. LevelInv'
    BY <1>1 DEF LevelInv, Procs
  <2> QED BY <1>1, <2>1, LiveStill
<1>2. ASSUME NEW f \in Frames, CallProc(f) \/ CallRefused(f) \/ WrongArgs(f) PROVE LiveInv' /\ LevelInv'
  <2>1. CASE CallProc(f)
    <3>1. "proc" \in Kinds
      BY DEF Kinds
    <3>2. LevelInv'
      BY <2>1, <3>1, LevelCalls DEF CallProc, Puts
    <3> QED BY <2>1, <3>2, LiveCalls
  <2>2. CASE CallRefused(f)
    <3>1. LevelInv'
      BY <2>2 DEF CallRefused, LevelInv, Procs
    <3> QED BY <2>2, <3>1, LiveCalls
  <2>3. CASE WrongArgs(f)
    BY <1>1, <2>3 DEF WrongArgs
  <2> QED BY <1>2, <2>1, <2>2, <2>3
<1>3. ASSUME NEW delta \in Nat, Uplevel(delta) PROVE LiveInv' /\ LevelInv'
  <2>1. "uplevel" \in Kinds \ {"proc"} /\ "uplevel" \in Kinds
    BY DEF Kinds
  <2>2. LevelInv'
    BY <1>3, <2>1, LevelCalls DEF Uplevel, Puts
  <2>3. LiveInv'
    BY <1>3, <2>1, LiveStarts DEF Uplevel, Puts
  <2> QED BY <2>2, <2>3
<1>4. ASSUME NEW kind \in {"catch", "eval", "if", "whiletest", "forinit", "foreach"}, Starts(kind)
      PROVE LiveInv' /\ LevelInv'
  <2>1. kind \in Kinds \ {"proc"} /\ kind # "uplevel" /\ kind \in Kinds /\ kind # "proc"
    BY DEF Kinds
  <2>2. callframe' = callframe /\ Puts(kind, callframe, callframe')
    BY <1>4 DEF Starts, Puts
  <2>3. LevelInv'
    BY <1>4, <2>1, <2>2, LevelCalls DEF Starts
  <2>4. LiveInv'
    BY <1>4, <2>1, <2>2, LiveStarts DEF Starts
  <2> QED BY <2>3, <2>4
<1>5. ASSUME NEW code, stack # <<>>, Inner.kind \notin {"proc", "uplevel"}, End(code) PROVE LiveInv' /\ LevelInv'
  BY <1>5, LiveEnds, LevelEnds DEF End
<1>6. ASSUME NEW kind \in Kinds \ {"proc", "uplevel"}, stack # <<>>,
             Inner.kind \notin {"proc", "uplevel"}, GoTo(kind) PROVE LiveInv' /\ LevelInv'
  BY <1>6, LiveTurns, LevelTurns
<1>7. CASE LeaveCatch \/ LeaveEval \/ If \/ While
  <2>1. stack # <<>> /\ Inner.kind \notin {"proc", "uplevel"}
    BY <1>7 DEF LeaveCatch, LeaveEval, If, While, In
  <2>2. (\E code : End(code)) \/ (\E kind \in Kinds \ {"proc", "uplevel"} : GoTo(kind))
    BY <1>7 DEF LeaveCatch, LeaveEval, If, While, Kinds
  <2> QED BY <1>5, <1>6, <2>1, <2>2
<1>8. CASE For \/ Foreach
  <2>1. stack # <<>> /\ Inner.kind \notin {"proc", "uplevel"}
    BY <1>8 DEF For, Foreach, In
  <2>2. (\E code : End(code)) \/ (\E kind \in Kinds \ {"proc", "uplevel"} : GoTo(kind))
    BY <1>8 DEF For, Foreach, Kinds
  <2> QED BY <1>5, <1>6, <2>1, <2>2
<1>9. CASE LeaveProc
  BY <1>9, LiveReturns, LevelEnds DEF LeaveProc, In
<1>10. CASE LeaveUplevel
  BY <1>10, LiveEnds, LevelEnds DEF LeaveUplevel, In
<1>11. CASE Raises \/ Reported \/ UNCHANGED vars
  BY <1>1, <1>11 DEF Raises, Reported, vars
<1>12. ASSUME Next PROVE LiveInv' /\ LevelInv'
  <2>1. CASE Uplevel(1) \/ Uplevel(2) \/ Uplevel(MaxDepth)
    <3>1. 1 \in Nat /\ 2 \in Nat /\ MaxDepth \in Nat
      BY FrameAssumption
    <3> QED BY <1>3, <2>1, <3>1, Zenon
  <2> QED BY <1>2, <1>4, <1>7, <1>8, <1>9, <1>10, <1>11, <1>12, <2>1, Zenon DEF Next
<1> QED BY <1>11, <1>12

(* Even after the limit was hit no freed frame is used: the current frame, *)
(* those uplevel will go back to (picol.c:1015) and all their callers are  *)
(* in use, and i->level counts the calls.                                  *)
THEOREM FramesStayLive == Spec => []FramesLive
<1>1. LiveInv /\ LevelInv => FramesLive
  <2> SUFFICES ASSUME LiveInv, LevelInv PROVE FramesLive
    OBVIOUS
  <2>1. PICK kept, stretch, rank, ups, calls : Lives(kept, stretch, rank, ups, calls)
    BY DEF LiveInv
  <2>2. ASSUME NEW f \in kept PROVE Live(f)
    <3>1. \A g \in kept : Up(g) \in kept
      BY <2>1 DEF Lives, Chain, Up
    <3>2. \A n \in 0..(MaxDepth + 1) : n \in Nat
      BY FrameAssumption
    <3>3. \A n \in 0..(MaxDepth + 1) : Ancestor(f, n) \in kept
      BY <3>1, <3>2, AncestorIn
    <3> QED BY <2>1, <3>3 DEF Live, Lives, Chain
  <2>3. callframe \in kept
    BY <2>1 DEF Lives, Sits
  <2>4. \A i \in 1..Len(stack) : stack[i].kind = "uplevel" => stack[i].own \in kept
    BY <2>1 DEF Lives, Saved, Sits
  <2> QED BY <2>2, <2>3, <2>4 DEF FramesLive, LevelInv
<1>2. Init => LiveInv /\ LevelInv
  BY LiveInitially
<1> QED BY <1>1, <1>2, LiveStep, FramesAlways, PTL DEF Spec

(* The frames are live at any time. *)
LEMMA LiveAlways == Spec => []LiveInv
<1>1. Init => LiveInv /\ LevelInv
  BY LiveInitially
<1> QED BY <1>1, LiveStep, FramesAlways, PTL DEF Spec

-----------------------------------------------------------------------------
(***************************************************************************)
(* The types of the interpreter's fields.                                  *)
(***************************************************************************)
Stacks == Seq(Acts(AllFrames))

(* An activation of a frame that is in use goes on the stack. *)
LEMMA StackPushed ==
  ASSUME stack \in Stacks, NEW kind \in Kinds, NEW own \in AllFrames, NEW at \in AllFrames,
         stack' = Append(stack, Activation(kind, own, at))
  PROVE  stack' \in Stacks
<1>1. Activation(kind, own, at) \in Acts(AllFrames)
  BY DEF Activation, Acts
<1> QED BY <1>1 DEF Stacks

(* The stack without its last frame, *)
LEMMA StackPopped ==
  ASSUME FrameTypes, stack \in Stacks, stack # <<>>, stack' = Outer
  PROVE  stack' \in Stacks
<1>1. PICK S : stack' \in Seq(Acts(S))
  BY Popped
<1>2. /\ Len(stack) \in Nat \ {0} /\ Len(stack') = Len(stack) - 1
      /\ \A i \in 1..(Len(stack) - 1) : stack'[i] = stack[i]
  BY Popped
<1>3. \A i \in 1..Len(stack) : stack[i] \in Acts(AllFrames)
  BY DEF Stacks
<1>4. \A i \in 1..Len(stack') : stack'[i] \in Acts(AllFrames)
  BY <1>2, <1>3
<1>5. stack' = [i \in 1..Len(stack') |-> stack'[i]] /\ Len(stack') \in Nat
  BY <1>1, <1>2
<1> QED BY <1>4, <1>5 DEF Stacks

(* or with another kind of it. *)
LEMMA StackTurned ==
  ASSUME stack \in Stacks, stack # <<>>, NEW kind \in Kinds,
         stack' = [stack EXCEPT ![Len(stack)].kind = kind]
  PROVE  stack' \in Stacks
<1>1. Len(stack) \in 1..Len(stack) /\ stack[Len(stack)] \in Acts(AllFrames)
  BY DEF Stacks
<1>2. [stack[Len(stack)] EXCEPT !.kind = kind] \in Acts(AllFrames)
  BY <1>1 DEF Acts
<1>3. stack' = [stack EXCEPT ![Len(stack)] = [stack[Len(stack)] EXCEPT !.kind = kind]]
  OBVIOUS
<1> QED BY <1>1, <1>2, <1>3 DEF Stacks

(* The current frame is in use, and the level is a number. *)
InUse == callframe \in alloc \union {Top} /\ level \in Nat

(* The frames that can be reached are in use. *)
LEMMA LiveInUse ==
  ASSUME LiveInv, LevelInv
  PROVE  InUse
<1>1. PICK kept, stretch, rank, ups, calls : Lives(kept, stretch, rank, ups, calls)
  BY DEF LiveInv
<1>2. callframe \in alloc \union {Top}
  BY <1>1 DEF Lives, Sits, Chain
<1>3. level \in Nat
  BY FS_CardinalityType DEF LevelInv
<1> QED BY <1>2, <1>3 DEF InUse

(* The types but for those that LiveInv implies. *)
Fields ==
  /\ alloc \subseteq Frames
  /\ parent \in [AllFrames -> AllFrames \union {NULL}]
  /\ level <= MAXRECURSION + 1
  /\ stack \in Stacks
  /\ rc \in Codes
  /\ refused \in BOOLEAN

(* The fields of the frames, in a step. *)
LEMMA FieldsStep ==
  ASSUME Fields, FrameInv, InUse, InUse', [Next]_vars
  PROVE  Fields'
<1> USE FrameAssumption DEF Fields
<1>1. alloc \subseteq Frames /\ FrameTypes /\ callframe \in AllFrames /\ level \in Nat /\ level' \in Nat
  BY DEF FrameInv, InUse, AllFrames
<1>2. ASSUME NEW f \in Frames, NewFrame(f)
      PROVE  /\ alloc' \subseteq Frames /\ parent' \in [AllFrames -> AllFrames \union {NULL}]
             /\ f \in AllFrames
  BY <1>1, <1>2 DEF NewFrame, AllFrames
<1>3. ASSUME NEW f \in Frames, CallProc(f) \/ CallRefused(f) \/ WrongArgs(f)
      PROVE  Fields'
  <2>1. CASE CallProc(f)
    <3>1. stack' \in Stacks
      BY <1>2, <2>1, StackPushed DEF CallProc, Kinds
    <3>2. level' <= MAXRECURSION + 1
      BY <1>1, <2>1 DEF CallProc
    <3> QED BY <1>2, <2>1, <3>1, <3>2 DEF CallProc
  <2>2. CASE CallRefused(f)
    BY <1>2, <2>2 DEF CallRefused, Codes
  <2>3. CASE WrongArgs(f)
    BY <2>3 DEF WrongArgs, Codes
  <2> QED BY <1>3, <2>1, <2>2, <2>3
<1>4. ASSUME NEW delta, Uplevel(delta) PROVE Fields'
  <2>1. callframe' \in AllFrames
    BY <1>4 DEF Uplevel, InUse, AllFrames
  <2>2. stack' \in Stacks
    BY <1>1, <1>4, <2>1, StackPushed DEF Uplevel, Kinds
  <2> QED BY <1>4, <2>2 DEF Uplevel
<1>5. ASSUME NEW kind \in {"catch", "eval", "if", "whiletest", "forinit", "foreach"}, Starts(kind)
      PROVE  Fields'
  <2>1. stack' \in Stacks
    BY <1>1, <1>5, StackPushed DEF Starts, Kinds
  <2> QED BY <1>5, <2>1 DEF Starts
<1>6. ASSUME NEW code \in Codes, stack # <<>>, End(code) PROVE Fields'
  BY <1>1, <1>6, StackPopped DEF End
<1>7. ASSUME NEW kind \in Kinds, stack # <<>>, GoTo(kind) PROVE Fields'
  BY <1>7, StackTurned DEF GoTo, Codes
<1>8. CASE LeaveCatch \/ LeaveEval \/ If \/ While \/ For \/ Foreach
  <2>1. stack # <<>>
    BY <1>8 DEF LeaveCatch, LeaveEval, If, While, For, Foreach, In
  <2>2. (\E code \in Codes : End(code)) \/ (\E kind \in Kinds : GoTo(kind))
    BY <1>8 DEF LeaveCatch, LeaveEval, If, While, For, Foreach, Codes, Kinds
  <2> QED BY <1>6, <1>7, <2>1, <2>2
<1>9. CASE LeaveProc
  <2>1. stack' \in Stacks
    BY <1>1, <1>9, StackPopped DEF LeaveProc, In
  <2>2. parent' \in [AllFrames -> AllFrames \union {NULL}] /\ alloc' \subseteq Frames
    BY <1>1, <1>9 DEF LeaveProc
  <2>3. level' <= MAXRECURSION + 1
    BY <1>1, <1>9 DEF LeaveProc
  <2> QED BY <1>9, <2>1, <2>2, <2>3 DEF LeaveProc, Codes
<1>10. CASE LeaveUplevel
  BY <1>1, <1>10, StackPopped DEF LeaveUplevel, In
<1>11. CASE Raises \/ Reported
  BY <1>11 DEF Raises, Reported, Codes
<1>12. CASE UNCHANGED vars
  BY <1>12 DEF vars
<1> QED
  BY <1>3, <1>4, <1>5, <1>8, <1>9, <1>10, <1>11, <1>12, Zenon DEF Next

(* The current frame is always one in use, after a refused call too, and   *)
(* i->level exceeds MAXRECURSION by one at most (picol.c:513).             *)
THEOREM FieldsAreTyped == Spec => []TypeOK
<1>1. Init => Fields
  <2> SUFFICES ASSUME Init PROVE Fields
    OBVIOUS
  <2>1. stack \in Stacks
    BY DEF Init, Stacks
  <2>2. parent \in [AllFrames -> AllFrames \union {NULL}]
    BY DEF Init
  <2>3. level <= MAXRECURSION + 1
    BY FrameAssumption DEF Init
  <2> QED BY <2>1, <2>2, <2>3 DEF Init, Fields, Codes
<1>2. LiveInv /\ LevelInv => InUse
  BY LiveInUse
<1>3. Fields /\ FrameInv /\ InUse /\ InUse' /\ [Next]_vars => Fields'
  BY FieldsStep
<1>4. Fields /\ InUse => TypeOK
  BY FrameAssumption DEF Fields, InUse, TypeOK, Stacks, Acts
<1>5. Init => LiveInv /\ LevelInv
  BY LiveInitially
<1> QED
  BY <1>1, <1>2, <1>3, <1>4, <1>5, LiveStep, FramesAlways, PTL DEF Spec

-----------------------------------------------------------------------------
(***************************************************************************)
(* The variables in the frames.                                            *)
(***************************************************************************)
(* Every frame has a place for every name. *)
VarsInv == vals \in [AllFrames -> [Names -> Int]]

(* The frame of global variables is one, and so is the current frame. *)
LEMMA RootIsFrame ==
  ASSUME LiveInv, alloc \subseteq Frames
  PROVE  Root \in AllFrames /\ callframe \in AllFrames
<1>1. PICK kept, stretch, rank, ups, calls : Lives(kept, stretch, rank, ups, calls)
  BY DEF LiveInv
<1>2. callframe \in kept /\ kept \subseteq AllFrames
  BY <1>1 DEF Lives, Sits, Chain, AllFrames
<1>3. \A g \in kept : Up(g) \in kept
  BY <1>1 DEF Lives, Chain, Up
<1>4. MaxDepth + 1 \in Nat
  BY FrameAssumption
<1>5. Ancestor(callframe, MaxDepth + 1) \in kept
  BY <1>2, <1>3, <1>4, AncestorIn
<1> QED BY <1>2, <1>5 DEF Root

(* A value is put into a variable, and nothing else changes. *)
Stored(f, x, v) ==
  /\ VarsInv' /\ vals'[f][x] = v
  /\ \A g \in AllFrames, y \in Names : g # f \/ y # x => vals'[g][y] = vals[g][y]

(* A variable that is set. *)
LEMMA PutKeeps ==
  ASSUME VarsInv, NEW f \in AllFrames, NEW x \in Names, NEW v \in Int,
         vals' = [vals EXCEPT ![f][x] = v]
  PROVE  Stored(f, x, v)
<1>1. vals[f] \in [Names -> Int]
  BY DEF VarsInv
<1>2. PICK new : new = [vals[f] EXCEPT ![x] = v]
  OBVIOUS
<1>3. new \in [Names -> Int] /\ new[x] = v /\ \A y \in Names : y # x => new[y] = vals[f][y]
  BY <1>1, <1>2
<1>4. vals' = [vals EXCEPT ![f] = new]
  BY <1>2
<1>5. VarsInv' /\ vals'[f] = new /\ \A g \in AllFrames : g # f => vals'[g] = vals[g]
  BY <1>3, <1>4 DEF VarsInv
<1> QED BY <1>3, <1>5 DEF Stored

(* The commands on variables keep every value a number. *)
LEMMA VarsStep ==
  ASSUME VarsInv, FrameInv, LiveInv, VarsNext
  PROVE  VarsInv'
<1>1. Root \in AllFrames /\ callframe \in AllFrames
  BY RootIsFrame DEF FrameInv, FrameTypes
<1>2. ASSUME NEW f \in AllFrames, NEW x \in Names, NEW v \in Int, Put(f, x, v) PROVE VarsInv'
  BY <1>2, PutKeeps DEF Put, Stored
<1>3. ASSUME NEW x \in Names, NEW v \in Int, SetVar(x, v) \/ SetGlobalVar(x, v) PROVE VarsInv'
  BY <1>1, <1>2, <1>3 DEF SetVar, SetGlobalVar, Faults, VarsInv
<1>4. \A x \in Names : Seen(x) \in Int
  BY <1>1 DEF Seen, Local, Global, VarsInv
<1>5. Values \subseteq Int /\ LINK \in Int /\ ABSENT \in Int /\ NoVars \in [Names -> Int]
  BY DEF Values, LINK, ABSENT, NoVars
<1>6. ASSUME NEW x \in Names, Read(x) \/ Incr(x) \/ Link(x) \/ Unset(x) PROVE VarsInv'
  <2>1. (Seen(x) % MaxInt) + 1 \in Int
    BY <1>4, VarsAssumption
  <2>2. CASE Read(x)
    BY <2>2 DEF Read, Faults, VarsInv
  <2>3. CASE Incr(x)
    BY <1>3, <2>1, <2>3 DEF Incr, Faults, VarsInv
  <2>4. CASE Link(x) \/ Unset(x)
    BY <1>1, <1>2, <1>5, <2>4 DEF Link, Unset, VarsInv
  <2> QED BY <1>6, <2>2, <2>3, <2>4
<1>7. ASSUME NEW x \in Names, NEW v \in Values, Set(x, v) \/ AppendTo(x, v) PROVE VarsInv'
  BY <1>3, <1>5, <1>7 DEF Set, AppendTo, Faults, VarsInv
<1>8. ASSUME NEW x \in Names, NEW v \in Values, Variable(x, v) PROVE VarsInv'
  <2>1. v \in Int
    BY <1>5
  <2>2. CASE (level > 0 /\ Local(x) # ABSENT) \/ SetGlobalVar(x, v)
    BY <1>3, <1>8, <2>1, <2>2 DEF Variable, VarsInv
  <2>3. CASE vals' = [vals EXCEPT ![Root][x] = LINK]
    BY <1>1, <1>5, <2>3, PutKeeps DEF Stored
  <2>4. CASE vals' = [vals EXCEPT ![callframe][x] = LINK, ![Root][x] = v]
    <3>1. PICK mid : mid = [vals EXCEPT ![callframe][x] = LINK]
      OBVIOUS
    <3>2. mid \in [AllFrames -> [Names -> Int]]
      BY <1>1, <1>5, <3>1 DEF VarsInv
    <3>3. vals' = [mid EXCEPT ![Root][x] = v]
      BY <2>4, <3>1
    <3> QED BY <1>1, <2>1, <3>2, <3>3 DEF VarsInv
  <2> QED BY <1>8, <2>2, <2>3, <2>4 DEF Variable
<1>9. ASSUME NEW f \in Frames, Call(f) PROVE VarsInv'
  <2>1. PICK args \in {NoVars} \union {[NoVars EXCEPT ![x] = 1] : x \in Names} :
          vals' = [vals EXCEPT ![f] = args]
    BY <1>9 DEF Call
  <2>2. args \in [Names -> Int]
    BY <1>5
  <2> QED BY <2>1, <2>2 DEF VarsInv
<1>10. CASE Return
  BY <1>5, <1>10 DEF Return, VarsInv
<1>11. CASE Control \/ Faulted
  BY <1>11 DEF Control, Faulted, pVars, VarsInv
<1> QED BY <1>6, <1>7, <1>8, <1>9, <1>10, <1>11 DEF VarsNext

(* The variables are always there. *)
LEMMA VarsAlways == VarsSpec => [](VarsInv /\ FrameInv /\ LiveInv)
<1>1. VarsInit => VarsInv
  BY DEF VarsInit, VarsInv, NoVars, ABSENT
<1>2. VarsInv /\ FrameInv /\ LiveInv /\ [VarsNext]_pVars => VarsInv'
  BY VarsStep DEF pVars, VarsInv
<1> QED BY <1>1, <1>2, VarsKeepFrames, FramesAlways, LiveAlways, PTL DEF VarsSpec

(* A value a command has set (picolSetVar2()) is what every frame sees     *)
(* that shares the variable by links, and only they, for any names and     *)
(* values, and after a refused call too.                                   *)
THEOREM WritesAreSeen == VarsSpec => WritesAreRead
<1> DEFINE Shared(x, v) ==
             \A f \in alloc \union {Top} :
               SeenIn(f, x)' = IF Owner(f, x) = Owner(callframe, x) THEN v ELSE SeenIn(f, x)
<1>1. ASSUME VarsInv, FrameInv, LiveInv, NEW x \in Names, NEW v \in Values,
             Set(x, v), fault' = "none"
      PROVE  Shared(x, v)
  <2>1. Root \in AllFrames /\ callframe \in AllFrames /\ alloc \union {Top} \subseteq AllFrames
    BY <1>1, RootIsFrame DEF FrameInv, FrameTypes, AllFrames
  <2>2. callframe' = callframe /\ Root' = Root
    <3>1. callframe' = callframe /\ parent' = parent
      BY <1>1 DEF Set, Quiet, vars
    <3>2. Root' = Root
      BY <3>1, Zenon DEF Root, Ancestor, Up
    <3> QED BY <3>1, <3>2
  <2>3. v \in Int /\ v # LINK
    BY VarsAssumption DEF Values, LINK
  <2>4. Put(Owner(callframe, x), x, v) /\ Owner(callframe, x) \in AllFrames
        /\ vals[Owner(callframe, x)][x] # LINK
    BY <1>1, <2>1 DEF Set, SetVar, SetGlobalVar, Faults, Local, Global, Owner, Running2
  <2>5. PICK o : o = Owner(callframe, x)
    OBVIOUS
  <2>6. /\ vals'[o][x] = v
        /\ \A g \in AllFrames, y \in Names : g # o \/ y # x => vals'[g][y] = vals[g][y]
    <3>1. o \in AllFrames /\ vals' = [vals EXCEPT ![o][x] = v]
      BY <2>4, <2>5 DEF Put
    <3>2. VarsInv /\ v \in Int
      BY <1>1, <2>3
    <3>3. Stored(o, x, v)
      BY <3>1, <3>2, PutKeeps, Zenon
    <3> QED BY <3>3, Zenon DEF Stored
  <2>7. ASSUME NEW f \in AllFrames
        PROVE  SeenIn(f, x)' = IF Owner(f, x) = o THEN v ELSE SeenIn(f, x)
    <3>1. Owner(f, x)' = Owner(f, x)
      BY <2>2, <2>3, <2>4, <2>5, <2>6 DEF Owner
    <3>2. Owner(f, x) \in AllFrames
      BY <2>1 DEF Owner
    <3>3. SeenIn(f, x)' = vals'[Owner(f, x)][x] /\ SeenIn(f, x) = vals[Owner(f, x)][x]
      BY <3>1 DEF SeenIn
    <3> QED BY <2>6, <3>2, <3>3
  <2> QED BY <2>1, <2>5, <2>7
<1>2. VarsInv /\ FrameInv /\ LiveInv => \A x \in Names, v \in Values : Set(x, v) /\ fault' = "none" => Shared(x, v)
  BY <1>1
<1> QED BY <1>2, VarsAlways, PTL DEF WritesAreRead
=============================================================================
