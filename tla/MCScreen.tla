------------------------------ MODULE MCScreen ------------------------------
(* Screen for TLC: characters of one and of two bytes, lines, escape         *)
(* sequences whole, cut off, malformed and doubled.                          *)
EXTENDS Screen

MCTexts ==
    {<<"c", "c", "c">>, <<"c", Return>>,
     <<"c", Newline, "c", Newline, "c", Newline, "c", Newline, "c", Newline, "c", "c">>,
     <<"w", Continuation>>, <<"w", Continuation, "c">>, <<"c", Esc>>, <<Esc, Esc, "c">>,
     <<Esc, "[", "A">>, <<Esc, "[", "2", "B">>, <<Esc, "[", "1", "C">>, <<Esc, "[", "D", "c">>,
     <<Esc, "[", "2", ";", "1", "H">>, <<Esc, "[", "2", "J">>,
     <<"c", Esc, "[", "0", "m", "c">>, <<Esc, "[", "1">>, <<Esc, "[", "2", "5", "6", "m">>}
=============================================================================
