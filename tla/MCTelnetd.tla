----------------------------- MODULE MCTelnetd -----------------------------
(***************************************************************************)
(* Small instances of Telnetd.                                             *)
(***************************************************************************)
EXTENDS Telnetd

(* Every connection has an address and port of its own. *)
OwnPort == [c \in Conns |-> c]

(* What a line-mode client sends: a line, part of a line, an empty line, an *)
(* option request, exit, and exit with something pasted behind it.          *)
LineAtATime == {<<"a", "cr", "nl">>, <<"a">>, <<"nl">>, <<"help", "nl">>,
                <<"iac", "do", "a">>, <<"exit", "nl">>, <<"exit", "nl", "a", "nl">>}

(* Enough to overlap input with output. *)
Pasted == {<<"a", "nl">>, <<"exit", "nl">>}
=============================================================================
