----------------------------- MODULE MCCommands -----------------------------
EXTENDS Commands

MCUploaded == {"a", SP, NL, LBRACE, RBRACE}
MCWords == {<<>>, <<"a">>, <<"b">>, <<"a", SP, "b">>, <<LBRACE, "b", SP, RBRACE>>}
MCCases == {<<"a">>, <<"b">>, <<"default">>, <<"-">>}
MCLetters == {"a", "b", SP}
MCChars == MCUploaded \union {"b", "default", "-", ","}
MCIndices == -1..5 \union {End}
MCNumbers == -2..2
MCAmounts == -250..250
=============================================================================
