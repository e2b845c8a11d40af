--------------------------- MODULE LineDiscipline ---------------------------
(***************************************************************************)
(* What the terminal promises to whoever reads it.  The text of a line     *)
(* stays private, and can be taken back, until the line is committed; then *)
(* it goes out as a whole, in order and only once.  A single character may *)
(* go out at once: an interrupt, which discards the line, or a request     *)
(* that leaves it alone.  What the reader's queue cannot take is cut off   *)
(* at the end and counted.                                                 *)
(***************************************************************************)
EXTENDS Naturals, Sequences

CONSTANTS
    Char,
    Capacity        \* the longest line, its newline included

VARIABLES
    line,           \* the line being edited
    out,            \* all the reader was or will be given
    lost            \* the characters typed or flushed and not kept

Init == line = <<>> /\ out = <<>> /\ lost = 0

\* Some first part of bs goes out; the rest, and extra, are lost.
Emit(bs, extra) ==
    \E n \in 0 .. Len(bs) :
        /\ out' = out \o SubSeq(bs, 1, n)
        /\ lost' = lost + extra + Len(bs) - n

Type(c) ==
    /\ Len(line) < Capacity
    /\ line' = Append(line, c)
    /\ UNCHANGED <<out, lost>>

TakeBack ==
    /\ line # <<>>
    /\ line' = SubSeq(line, 1, Len(line) - 1)
    /\ UNCHANGED <<out, lost>>

Overflow ==
    /\ Len(line) = Capacity
    /\ lost' = lost + 1
    /\ UNCHANGED <<line, out>>

\* Only a line without room for another character goes out without one.
Commit(c) ==
    /\ line' = <<>>
    /\ \/ Len(line) < Capacity /\ Emit(Append(line, c), 0)
       \/ Len(line) = Capacity /\ Emit(line, 1)
       \/ line # <<>> /\ Emit(line, 0)

Signal(c) ==
    /\ line' \in {line, <<>>}
    /\ Emit(<<c>>, 0)

Next ==
    \/ TakeBack
    \/ Overflow
    \/ \E c \in Char : Type(c) \/ Commit(c) \/ Signal(c)

Spec == Init /\ [][Next]_<<line, out, lost>>
=============================================================================
