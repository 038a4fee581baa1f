----------------------------- MODULE PicolText -----------------------------
(***************************************************************************)
(* How Picol reads text, src/pcl/picol.c: the tokens of a script           *)
(* (picolGetToken), the words of its commands (picolEval2), the elements   *)
(* of a list (picolParseList) and how an element is put into a list        *)
(* (LAPPEND).                                                              *)
(*                                                                         *)
(* Text is a sequence of characters, and s is always what is still to be   *)
(* read: the code's pointer and the count of characters after it.  What a  *)
(* backslash does, the {*} marker and the character by which a dollar sign *)
(* alone miscounts are left out.  The text of a variable or of a bracketed *)
(* command stands for its value.                                           *)
(***************************************************************************)
EXTENDS Integers, Sequences, FiniteSets

NUL == "NUL"
NL == "\n"
SP == " "
SEMI == ";"
QUOTE == "\""
LBRACE == "{"
RBRACE == "}"

(* The characters that mean something to the parser, but for blanks,       *)
(* newlines and braces.                                                    *)
Marks == {NUL, "\t", "\r", SEMI, QUOTE, "[", "$", "#"}

CONSTANT Chars   \* the characters of the words and the scripts to be read

ASSUME CharsAssumption == Chars \intersect Marks = {} /\ {SP, LBRACE, RBRACE} \subseteq Chars

At(s, i) == IF i \in DOMAIN s THEN s[i] ELSE NUL
Drop(s, n) == SubSeq(s, n + 1, Len(s))

Blank == {SP, "\t"}
Ends == {NL, "\r", SEMI}
Space == Blank \union {NL, "\r"}
NameChars == {"a", "b", "_", "(", ")"}

(* How many characters at the front are in set; how many come before one   *)
(* that is.                                                                *)
Skip(s, set) == CHOOSE n \in 0..Len(s) : /\ \A k \in 1..n : s[k] \in set
                                         /\ n = Len(s) \/ s[n + 1] \notin set
UpTo(s, set) == CHOOSE n \in 0..Len(s) : /\ \A k \in 1..n : s[k] \notin set
                                         /\ n = Len(s) \/ s[n + 1] \in set

(* A token: its type, its text, and what is left to read after it.         *)
Token(type, text, left, quoted) ==
  [type |-> type, text |-> text, left |-> left, quoted |-> quoted]

-----------------------------------------------------------------------------
(* The braces open after n characters. *)
Level(s, n) == Cardinality({k \in 1..n : s[k] = LBRACE}) - Cardinality({k \in 1..n : s[k] = RBRACE})

(* picolParseBrace: at the brace that closes the one s begins with, or     *)
(* past the end.                                                           *)
BraceEnd(s) == CHOOSE e \in 2..(Len(s) + 1) : /\ e = Len(s) + 1 \/ Level(s, e) = 0
                                              /\ \A k \in 1..(e - 1) : Level(s, k) > 0

ParseBrace(s, type, quoted) ==
  Token(type, SubSeq(s, 2, BraceEnd(s) - 1), Drop(s, BraceEnd(s)), quoted)

(* picolParseCmd: brackets count outside braces, braces always.            *)
Bracket(open, c) ==
  CASE c = "[" /\ open.blevel = 0 -> [open EXCEPT !.level = @ + 1]
    [] c = "]" /\ open.blevel = 0 -> [open EXCEPT !.level = @ - 1]
    [] c = LBRACE                    -> [open EXCEPT !.blevel = @ + 1]
    [] c = RBRACE /\ open.blevel > 0 -> [open EXCEPT !.blevel = @ - 1]
    [] OTHER                      -> open

BracketEnd(s) ==
  LET open[k \in 1..Len(s)] ==
        IF k = 1 THEN [level |-> 1, blevel |-> 0] ELSE Bracket(open[k - 1], s[k])
  IN CHOOSE e \in 2..(Len(s) + 1) : /\ e = Len(s) + 1 \/ open[e].level = 0
                                    /\ \A k \in 1..(e - 1) : open[k].level > 0

ParseCmd(s, quoted) ==
  Token("CMD", SubSeq(s, 2, BracketEnd(s) - 1), Drop(s, BracketEnd(s)), quoted)

(* picolParseString: up to a character that ends the word.                 *)
Stops(quoted) == {"$", "["} \union IF quoted THEN {QUOTE} ELSE Blank \union Ends
BeginsWord(type) == type \in {"SEP", "EOL", "STR"}

ParseString(s, type, quoted) ==
  LET opens == BeginsWord(type) /\ At(s, 1) = QUOTE
      inside == quoted \/ opens
      body == IF opens THEN Tail(s) ELSE s
      n == UpTo(body, Stops(inside))
      closes == inside /\ At(body, n + 1) = QUOTE
  IN IF BeginsWord(type) /\ At(s, 1) = LBRACE THEN ParseBrace(s, "STR", quoted)
     ELSE Token("ESC", SubSeq(body, 1, n), Drop(body, IF closes THEN n + 1 ELSE n),
                inside /\ ~closes)

(* picolParseVar: ${name}, $name, $name(key), or a dollar sign alone: the  *)
(* text after it is read as a string, from the character before on.        *)
ParseVar(s, type, quoted) ==
  LET name == Tail(s)
      n0 == Skip(name, NameChars)
      n == IF n0 > 0 /\ name[n0] = ")" /\ \A k \in 1..n0 : name[k] # "("
           THEN n0 - 1 ELSE n0
      before == IF BeginsWord(type) /\ At(name, 1) = QUOTE THEN QUOTE ELSE "$"
  IN IF At(name, 1) = LBRACE THEN ParseBrace(name, "VAR", quoted)
     ELSE IF n = 0 THEN [ParseString(name, type, quoted) EXCEPT !.type = "STR",
                                                                !.text = <<before>> \o @]
     ELSE Token("VAR", SubSeq(name, 1, n), Drop(name, n), quoted)

(* picolGetToken: type is that of the token before; a comment is passed    *)
(* over first.                                                             *)
GetToken(all, type, quoted) ==
  LET s == IF type = "EOL" /\ At(all, 1) = "#" THEN Drop(all, UpTo(all, {NL})) ELSE all
      c == At(s, 1)
  IN CASE c = NUL -> Token(IF type \in {"EOL", "EOF"} THEN "EOF" ELSE "EOL", <<>>, s, quoted)
       [] c \in Blank /\ ~quoted -> Token("SEP", <<>>, Drop(s, Skip(s, Space)), quoted)
       [] c \in Ends /\ ~quoted -> Token("EOL", <<>>, Drop(s, Skip(s, Space \union {SEMI})), quoted)
       [] c = "[" -> ParseCmd(s, quoted)
       [] c = "$" -> ParseVar(s, type, quoted)
       [] OTHER -> ParseString(s, type, quoted)

(* picolEval2: tokens become words; a token that follows a blank begins a  *)
(* word, any other is added to the last one.  argv is the command so far,  *)
(* cmds are the commands before it.                                        *)
Grow(argv, type, text) ==
  IF type \in {"SEP", "EOL"} THEN Append(argv, text)
  ELSE [argv EXCEPT ![Len(argv)] = @ \o text]

InitParser(s) == [text |-> s, type |-> "EOL", quoted |-> FALSE, argv |-> <<>>, cmds |-> <<>>]

Turn(p) ==
  LET t == GetToken(p.text, p.type, p.quoted)
      past == [p EXCEPT !.text = t.left, !.type = t.type, !.quoted = t.quoted]
  IN CASE t.type = "EOF" -> p
       [] t.type = "SEP" -> past
       [] t.type = "EOL" -> [past EXCEPT !.argv = <<>>,
                                         !.cmds = IF p.argv = <<>> THEN @ ELSE Append(@, p.argv)]
       [] OTHER -> [past EXCEPT !.argv = Grow(@, p.type, t.text)]

(* The state of picolEval2 after n turns of its loop; a token has at least *)
(* a character, but for the two that end the text.                         *)
Turns(p, n) == LET after[k \in 0..n] == IF k = 0 THEN p ELSE Turn(after[k - 1]) IN after[n]

Commands(s) == Turns(InitParser(s), Len(s) + 2).cmds

-----------------------------------------------------------------------------
(* picolParseList: where the first element ends, at its closing quote or   *)
(* after it, 0 if its braces or its quote stay open.                       *)
ElementEnd(s) ==
  LET quotes(k) == {j \in 1..(k - 1) : s[j] = QUOTE /\ Level(s, j) = 0}
      ends == {k \in 1..(Len(s) + 1) :
                 Level(s, k - 1) = 0 /\ IF quotes(k) = {} THEN At(s, k) \in {SP, NUL}
                                        ELSE At(s, k) = QUOTE}
  IN IF ends = {} THEN 0 ELSE CHOOSE k \in ends : \A j \in ends : k <= j

(* A turn of FOREACH: buf, which holds the element, is left alone by one   *)
(* that is not closed, which is the last.                                  *)
NextElement(f) ==
  LET s == f.text
      e == ElementEnd(s)
      word == CASE At(s, 1) = LBRACE  -> SubSeq(s, 2, e - 2)
                [] At(s, 1) = QUOTE -> SubSeq(s, 2, e - 1)
                [] OTHER           -> SubSeq(s, 1, e - 1)
      rest == Drop(s, IF At(s, 1) = QUOTE THEN e ELSE e - 1)
  IN IF s = <<>> THEN f
     ELSE IF e = 0 THEN [f EXCEPT !.text = <<>>, !.visited = Append(@, f.buf)]
     ELSE [text |-> Drop(rest, Skip(rest, {SP})), buf |-> word,
           visited |-> Append(f.visited, word)]

(* The elements FOREACH visits. *)
Foreach(f, n) == LET after[k \in 0..n] == IF k = 0 THEN f ELSE NextElement(after[k - 1]) IN after[n]

Elements(s) == Foreach([text |-> s, buf |-> <<>>, visited |-> <<>>], Len(s)).visited

(* LAPPEND *)
Braced(src) == src = <<>> \/ \E k \in DOMAIN src : src[k] = SP

LAppend(dst, src) ==
  dst \o (IF dst = <<>> THEN <<>> ELSE <<SP>>)
      \o (IF Braced(src) THEN <<LBRACE>> \o src \o <<RBRACE>> ELSE src)

(* picolList *)
List(elems) ==
  LET buf[k \in 0..Len(elems)] == IF k = 0 THEN <<>> ELSE LAppend(buf[k - 1], elems[k])
  IN buf[Len(elems)]

-----------------------------------------------------------------------------
(* Braces pair up, and none closes that was not open. *)
Balanced(s) == Level(s, Len(s)) = 0 /\ \A n \in DOMAIN s : Level(s, n) >= 0

(* Words a list can hold: LAPPEND puts braces around a word only if it has *)
(* a blank, so one that looks braced itself loses its own.                 *)
Storable(w) == /\ Balanced(w)
               /\ \A k \in DOMAIN w : w[k] # QUOTE /\ (w[k] = LBRACE => Braced(w))

(* A list gives back the words it was made of, and a list evaluated as a   *)
(* command has them as its words: lsort, eval, expr and the conditions of  *)
(* if and while build commands that way.                                   *)
ListIsFaithful(words) ==
  /\ Elements(List(words)) = words
  /\ (\A i \in DOMAIN words : \A k \in DOMAIN words[i] : words[i][k] # NL)
       => Commands(List(words)) = IF words = <<>> THEN <<>> ELSE <<words>>
=============================================================================
