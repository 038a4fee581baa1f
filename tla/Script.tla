------------------------------- MODULE Script -------------------------------
(***************************************************************************)
(* pcl_load() (src/pcl/pcl_sam.c): the script in flash is evaluated in     *)
(* chunks that end at blank lines, because a chunk has to fit a buffer,    *)
(* up to the first one that fails.                                         *)
(***************************************************************************)
EXTENDS PicolText, SequencesExt

CONSTANTS
  Uploaded, \* the characters scripts are made of
  MaxFile,  \* bound: characters of a script
  MaxStr    \* MAXSTR, the size of the buffer

ASSUME ScriptAssumption == Uploaded \subseteq Chars

VARIABLES
  file,     \* the script
  left,     \* what is still to be loaded
  ran,      \* the commands evaluated so far
  phase     \* loading, or how it ended

scriptVars == <<file, left, ran, phase>>

ScriptInit ==
  /\ file \in UNION {[1..n -> Uploaded] : n \in 1..MaxFile}
  /\ left = file /\ ran = <<>> /\ phase = "loading"

(* Where the lines of a script end. *)
Newlines(s) == {i \in DOMAIN s : s[i] = NL}

(* Its blank lines: a newline that another one follows. *)
Cuts(s) == {i \in Newlines(s) : At(s, i + 1) = NL}

First(S) == CHOOSE i \in S : \A j \in S : i <= j
Final(S) == CHOOSE i \in S : \A j \in S : i >= j

(* Mutant: a chunk ends at the first newline. *)
ChunkSize_EveryLine(s) == IF Newlines(s) = {} THEN 0 ELSE First(Newlines(s))

(* pcl_get_chunksz(): up to the first blank line, or with the last newline *)
(* of the script.                                                          *)
ChunkSize(s) ==
  IF Cuts(s) # {} THEN First(Cuts(s)) - 1
  ELSE IF Newlines(s) # {} THEN Final(Newlines(s)) ELSE 0

(* The newlines before a chunk are passed over. *)
Trimmed(s) == Drop(s, Skip(s, {NL}))

(* The character after the chunk, a newline, goes with it. *)
Rest(s) == Drop(s, ChunkSize(s) + 1)

(* One chunk: all its commands run, or one of them fails. *)
LoadChunk ==
  LET text == Trimmed(left)
      len  == ChunkSize(text)
      cmds == Commands(SubSeq(text, 1, len))
  IN /\ phase = "loading"
     /\ IF len = 0 THEN phase' = "done" /\ UNCHANGED <<left, ran>>
        ELSE IF len >= MaxStr THEN phase' = "too big" /\ UNCHANGED <<left, ran>>
        ELSE \E k \in 0..Len(cmds) :
               /\ ran' = ran \o SubSeq(cmds, 1, k)
               /\ left' = Rest(text)
               /\ phase' = IF k < Len(cmds) THEN "failed"
                           ELSE IF left' = <<>> THEN "done" ELSE "loading"
     /\ UNCHANGED file

ScriptNext == LoadChunk

ScriptSpec == ScriptInit /\ [][ScriptNext]_scriptVars

-----------------------------------------------------------------------------
(* Chunks and commands end together: no blank line is inside braces, nor   *)
(* follows a blank, which would take the newline for part of itself.       *)
Regular(s) == \A i \in Cuts(s) : Balanced(SubSeq(s, 1, i)) /\ At(s, i - 1) \notin Blank

(* The script up to its last newline: a last line that has none is left    *)
(* out.                                                                    *)
Whole(s) == IF Newlines(s) = {} THEN <<>> ELSE SubSeq(s, 1, Final(Newlines(s)))

(* Cutting a script into chunks changes nothing: the commands that ran are *)
(* the first ones of the script taken as a whole, in its order, and all of *)
(* them when none fails and every chunk fits.                              *)
TokensAgree ==
  Regular(file) =>
    /\ IsPrefix(ran, Commands(Whole(file)))
    /\ phase = "done" => ran = Commands(Whole(file))
=============================================================================
