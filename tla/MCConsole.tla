----------------------------- MODULE MCConsole -----------------------------
(***************************************************************************)
(* A screen of a few cells; lines of up to four characters.                *)
(***************************************************************************)
EXTENDS Console

MCPrompt == <<"$">>
MCClear == <<"c">>
MCExit == <<"c", "c">>
MCOutputs == {<<"x", "TAB", "x", "LF">>, <<"x", "x", "CR", "x", "BS">>}
=============================================================================
