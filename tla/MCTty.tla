------------------------------- MODULE MCTty -------------------------------
(* Lines of at most three bytes into queues of two: lines overflow, flushes *)
(* are cut off, ptys come, go out of range and are attached half-way.       *)
EXTENDS Tty

\* Ctrl-C, Ctrl-D, Backspace, Newline, Ctrl-L, Esc, '[', a letter, NUL-like 1.
MCByte == {3, 4, 8, 10, 12, 27, 91, 97, 1}
=============================================================================
