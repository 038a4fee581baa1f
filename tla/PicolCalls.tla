----------------------------- MODULE PicolCalls -----------------------------
(***************************************************************************)
(* One call of a command of PicolValues, with every argument of a small    *)
(* set, and what its result means.                                         *)
(***************************************************************************)
EXTENDS PicolValues

CONSTANTS
  Words,     \* what lists are made of
  Cases,     \* patterns and bodies of switch
  Letters,   \* the characters of strings, and of patterns beside * and ?
  Indices,   \* places in lists and strings
  Numbers,   \* what the numeric commands are given
  Amounts,   \* in hundredths, for the printing of a number
  Digits,    \* values of hexadecimal digits, Colon, or 17 for other characters
  MaxList,   \* bound: elements of a list
  MaxArgs    \* bound: characters of a string, arguments of a command

ASSUME CallsAssumption ==
  /\ \A w \in Words \union Cases : w \in Seq(Chars) /\ Storable(w)
  /\ Letters \subseteq Chars \ {LBRACE, RBRACE, "*", "?"}
  /\ MaxList \in Nat /\ MaxList < End /\ MaxArgs \in Nat
  /\ Indices \subseteq Int /\ Numbers \subseteq Int /\ Amounts \subseteq Int
  /\ Digits \subseteq 0..17

VARIABLES
  call,   \* the command and its arguments
  answer  \* its result

callVars == <<call, answer>>

NoCall == <<"none">>
CallsInit == call = NoCall /\ answer = <<>>

WordLists == SeqOf(Words, MaxList)
Strings == SeqOf(Letters, MaxArgs)
Patterns == SeqOf((Letters \ Space) \union {"*", "?"}, MaxList) \ {<<>>}
Sought == SeqOf(Letters, 2) \ {<<>>}
Pads == {<<1, 31>>, <<2, 31>>, <<1, 5>>}

Does(name, args, result) ==
  /\ call' = <<name>> \o args /\ answer' = result

CallLists ==
  \E ws \in WordLists, n \in Indices :
    \/ Does("lindex", <<ws, n>>, Lindex(List(ws), n))
    \/ \E w \in Words :
         \/ Does("linsert", <<ws, n, w>>, Linsert(List(ws), n, w))
         \/ Does("lset", <<ws, n, w>>, Lset(List(ws), n, w))
         \/ Does("in", <<ws, w>>, In(w, List(ws)))
         \/ \E m \in Indices : Does("lreplace", <<ws, n, m, w>>, Lreplace(List(ws), n, m, w))
    \/ \E m \in Indices : Does("lrange", <<ws, n, m>>, Lrange(List(ws), n, m))

CallSequences ==
  \E ws \in WordLists :
    \/ Does("list", <<ws>>, List(ws))
    \/ Does("concat", <<ws>>, Concat(ws))
    \/ Does("join", <<ws>>, Split(Join(List(ws), <<",">>), ","))

CallSwitch ==
  \E ws \in SeqOf(Cases, MaxArgs), w \in Cases : Does("switch", <<ws, w>>, Switch(List(ws), w))

CallStrings ==
  \E s \in Strings :
    \/ \E pat \in Patterns :
         \/ Does("match", <<pat, s>>, Match(pat, s))
         \/ \E c \in Letters : Does("lsearch", <<pat, <<c>>, s>>, Lsearch(List(<<<<c>>, s>>), pat))
    \/ \E sub \in Sought : Does("last", <<sub, s>>, StringLast(sub, s, 0))
    \/ \E n, m \in Indices : /\ s # <<>>
                             /\ \/ Does("range", <<s, n, m>>, StringRange(s, n, m))
                                \/ Does("index", <<s, n>>, StringIndex(s, n))
    \/ \E left, right \in BOOLEAN : Does("trim", <<s, left, right>>, Trim(s, left, right))

CallNumbers ==
  \/ \E sets \in SeqOf(Numbers \X Numbers, MaxList) : Does("array", <<sets>>, Bucket(sets))
  \/ \E vs \in SeqOf(Numbers, MaxArgs), isMax, skipped \in BOOLEAN :
       Len(vs) >= 2 /\ Does("minmax", <<vs, isMax, skipped>>, MinMax(isMax, vs, skipped))
  \/ \E ys \in SeqOf(Numbers, MaxList), x \in Indices :
       /\ Len(ys) >= 2
       /\ Does("interpolate", <<ys, x>>,
               Interpolate([k \in DOMAIN ys |-> <<2 * (k - 1), 2 * ys[k]>>], x))
  \/ \E f \in Amounts, decimals \in {0, 1} :
       Does("totext", <<f, decimals>>, ToText(f, decimals))
  \/ \E ds \in SeqOf(Digits, MaxArgs), behind \in SeqOf(Digits \intersect 0..15, 2) :
       Does("bytes", <<ds, behind>>, Bytes(ds, MaxArgs, behind))
  \/ \E n \in 0..63, v \in {0, 1}, before \in SUBSET Pads :
       Does("gpio", <<n, v, before>>, Driven(before, n, v))

CallsNext ==
  call = NoCall /\ (CallLists \/ CallSequences \/ CallSwitch \/ CallStrings \/ CallNumbers)

CallsSpec == CallsInit /\ [][CallsNext]_callVars

-----------------------------------------------------------------------------
(* What the commands mean, said of the words and not of their text. *)

Is(name) == call[1] = name
Inside(n, ws) == n \in 0..(Len(ws) - 1)

(* The words and positions of a list are what the script put there.        *)
ListsAgree ==
  LET ws == call[2] IN
  /\ Is("list") => ListIsFaithful(ws)
  /\ Is("lindex") /\ Inside(call[3], ws) => answer = ws[call[3] + 1]
  /\ Is("linsert") /\ Inside(call[3], ws) =>
       Elements(answer) = InsertAt(ws, call[3] + 1, call[4])
  /\ Is("linsert") /\ call[3] = End => Elements(answer) = Append(ws, call[4])
  /\ Is("lset") /\ Inside(call[3], ws) =>
       Elements(answer) = ReplaceAt(ws, call[3] + 1, call[4])
  /\ Is("in") => (answer <=> Contains(ws, call[3]))
  /\ Is("lrange") => Elements(answer) =
       SubSeq(ws, Greater(call[3], 0) + 1, Lesser(call[4] + 1, Len(ws)))
  /\ Is("lreplace") /\ Inside(Greater(call[3], 0), ws) /\ call[3] <= call[4] /\ call[4] >= 0 =>
       Elements(answer) = SubSeq(ws, 1, call[3]) \o <<call[5]>>
                            \o SubSeq(ws, call[4] + 2, Len(ws))
  /\ Is("concat") /\ (\A k \in DOMAIN ws : At(ws[k], 1) # SP) => Elements(answer) = FlattenSeq([k \in DOMAIN ws |-> Elements(ws[k])])

(* split takes apart what join put together, while no field is shorter     *)
(* than one before it or holds the character between them.                 *)
SplitAgrees ==
  LET ws == call[2] IN
  /\ Is("join") /\ ws # <<>>
  /\ \A j, k \in DOMAIN ws : j < k => Len(ws[j]) <= Len(ws[k])
  /\ \A k \in DOMAIN ws : \A j \in DOMAIN ws[k] : ws[k][j] # ","
  => Elements(answer) = ws

(* switch runs the body of the first pattern that fits, unless a body      *)
(* before it reads like one.                                               *)
SwitchAgrees ==
  LET ws == call[2]
      fits == {k \in DOMAIN ws : ws[k] \in {call[3], <<"default">>}}
      first == CHOOSE k \in fits : \A j \in fits : k <= j
      bodies == {k \in DOMAIN ws : k > first /\ k % 2 = 0 /\ ws[k] # <<"-">>}
  IN Is("switch") /\ Len(ws) % 2 = 0 /\ fits # {} /\ first % 2 = 1 /\ bodies # {} =>
       answer = ws[CHOOSE k \in bodies : \A j \in bodies : k <= j]

Glob(pat, s) ==
  LET match[i \in 0..Len(pat)] ==
        IF i = 0 THEN {0}
        ELSE IF pat[i] = "*" THEN {j \in 0..Len(s) : \E k \in match[i - 1] : k <= j}
        ELSE {j \in 1..Len(s) : pat[i] \in {s[j], "?"} /\ j - 1 \in match[i - 1]}
  IN Len(s) \in match[Len(pat)]

(* A pattern matches as in a shell, but for a star in the middle, and for  *)
(* a question mark between two stars or where the text ends.               *)
Ordinary(pat, s) ==
  /\ \A k \in 2..(Len(pat) - 1) : pat[k] # "*"
  /\ Contains(pat, "?") => Len(s) >= Len(pat) /\ ~(Head(pat) = "*" /\ Last(pat) = "*")

StringsAgree ==
  /\ Is("match") /\ Ordinary(call[2], call[3]) => (answer <=> Glob(call[2], call[3]))
  /\ Is("lsearch") /\ Ordinary(call[2], call[3]) /\ Ordinary(call[2], call[4]) =>
       answer = IF Glob(call[2], call[3]) THEN 0 ELSE IF Glob(call[2], call[4]) THEN 1 ELSE Nowhere
  /\ Is("last") => LET back == StringFirst(Reverse(call[2]), Reverse(call[3]), 0)
                   IN answer = IF back = Nowhere THEN Nowhere
                               ELSE Len(call[3]) - Len(call[2]) - back
  /\ Is("range") /\ 1 <= call[3] /\ call[3] <= call[4] /\ Inside(call[4], call[2]) =>
       answer = SubSeq(call[2], call[3] + 1, call[4] + 1)
  /\ Is("index") /\ Inside(call[3], call[2]) => answer = <<call[2][call[3] + 1]>>
  /\ Is("trim") => \E i \in 0..Len(call[2]), j \in 0..Len(call[2]) :
       LET cut == SubSeq(call[2], 1, i) \o SubSeq(call[2], Len(call[2]) - j + 1, Len(call[2]))
       IN /\ answer = SubSeq(call[2], i + 1, Len(call[2]) - j)
          /\ \A k \in DOMAIN cut : cut[k] \in Space
          /\ (call[3] /\ answer # <<>> => Head(answer) \notin Space) /\ (~call[3] => i = 0)
          /\ (call[4] /\ answer # <<>> => Last(answer) \notin Space) /\ (~call[4] => j = 0)

(* Arrays keep two keys of a bucket, numbers are rounded to the nearest    *)
(* but for negative ones without decimals, interpolation goes through the  *)
(* points and stays between two neighbours, and a pin reads as it was      *)
(* driven, but for pin 31.  max and min do not skip their arguments, and   *)
(* bytes are what the digits say, while address 0 holds no zero and no     *)
(* digit happens to follow ch[2].                                          *)
NumbersAgree ==
  /\ Is("array") /\ (\E a, b \in DOMAIN call[2] : \A k \in DOMAIN call[2] :
                      call[2][k][1] \in {call[2][a][1], call[2][b][1]}) =>
       \A k \in DOMAIN call[2] :
         (\A j \in DOMAIN call[2] : j > k => call[2][j][1] # call[2][k][1]) =>
           ArrGet(answer, call[2][k][1]) = call[2][k][2]
  /\ Is("minmax") /\ Len(call[2]) # 3 /\ ~call[4] =>
       /\ Contains(call[2], answer)
       /\ \A k \in DOMAIN call[2] : IF call[3] THEN call[2][k] <= answer ELSE call[2][k] >= answer
  /\ Is("interpolate") => \A k \in DOMAIN call[2] : call[3] = 2 * (k - 1) => answer = 2 * call[2][k]
  /\ Is("interpolate") => \A k \in 1..(Len(call[2]) - 1) :
       2 * (k - 1) <= call[3] /\ call[3] <= 2 * k =>
         answer \in 2 * Lesser(call[2][k], call[2][k + 1])..2 * Greater(call[2][k], call[2][k + 1])
  /\ Is("totext") /\ call[3] = 1 =>
       Abs(Abs(call[2]) - (100 * answer[1] + 10 * answer[2])) <= 5
  /\ Is("totext") /\ call[3] = 0 /\ call[2] >= 0 => Abs(call[2] - 100 * answer[1]) <= 50
  /\ Is("bytes") /\ call[3] = <<>> /\ (\A k \in DOMAIN call[2] : call[2][k] < 16) =>
       /\ Len(answer) = Len(call[2]) \div 2
       /\ \A k \in DOMAIN answer : answer[k] \div 16 = call[2][2 * k - 1] /\ answer[k] % 16 = call[2][2 * k]
  /\ Is("gpio") /\ call[2] # 31 => Odsr(answer, call[2]) = call[3]

(* The commands on lists, text and numbers give what their names promise,  *)
(* for the arguments each part names.                                      *)
ValuesAgree ==
  ListsAgree /\ SplitAgrees /\ SwitchAgrees /\ StringsAgree /\ NumbersAgree
=============================================================================
