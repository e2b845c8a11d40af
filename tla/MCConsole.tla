----------------------------- MODULE MCConsole -----------------------------
(* A text screen of two rows and a framebuffer of one row, and every byte   *)
(* that some branch of the console treats on its own.                       *)
EXTENDS ConsoleText

MCByte == {7, 8, 9, 10, 13, 27, 49, 50, 59, 65, 66, 67, 68, 72, 74, 75, 91, 109,
           115, 117, 169, 195, 226}

\* Printable characters look alike, but for the '?' of other characters.
MCShape(b) == IF b = 32 THEN " " ELSE IF b = 63 THEN "?" ELSE "x"
=============================================================================
