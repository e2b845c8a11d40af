------------------------------ MODULE MCTyping ------------------------------
(* Small queues and buffers, and strokes of every kind the path tells apart *)
EXTENDS Typing

Bare(k) == <<k, {}>>
Ctrl(k) == <<k, {"CTRL"}>>

SelftestStrokes == {Bare("A"), Bare("ENTER"), Bare("ESC")}
EscapeStrokes == {Bare("ESC"), Bare("UP"), Bare("ENTER")}

\* The boot code gets a session, or does not.
AnySid == {-1, 1}

\* The name of the self-test command is A here.
MCSelftestCommand == <<97>>
=============================================================================
