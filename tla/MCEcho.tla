------------------------------- MODULE MCEcho -------------------------------
(* A screen of three short rows, and strokes of every kind the tty and the  *)
(* shell tell apart.  A is the self-test, A and a blank another command.    *)
EXTENDS Echo

Bare(k) == <<k, {}>>
Ctrl(k) == <<k, {"CTRL"}>>

MCStroke == {Bare("A"), Bare("SPACE"), Bare("ENTER"), Bare("BACKSPACE"), Bare("TAB"),
             Bare("ESC"), Bare("DELETE"), Ctrl("C"), Ctrl("D"), Ctrl("L"),
             <<"A", {"ALT"}>>}

MCPrompt == <<62>>
MCSelftestCommand == <<97>>
MCClearCommand == <<97, 97>>
MCAnswers == {<<63>>}
=============================================================================
