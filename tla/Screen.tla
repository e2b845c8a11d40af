------------------------------- MODULE Screen -------------------------------
(***************************************************************************)
(* The console's screen (console.c): its cells and cursor, and what a byte *)
(* of plain text or an erasure does to them.  A screen is a record of      *)
(* term_rows, term_cols, the cursor and the cells.                         *)
(***************************************************************************)
EXTENDS Integers

CONSTANT Shape(_)       \* what a cell shows for a byte, as far as it matters

Blank == Shape(32)
Unknown == Shape(63)        \* '?'
Cells(rows, cols) == (0 .. rows - 1) \X (0 .. cols - 1)

FreshScreen(rows, cols) ==
    [rows |-> rows, cols |-> cols, row |-> 0, col |-> 0,
     cells |-> [p \in Cells(rows, cols) |-> Blank]]

backend_scroll_up(s) ==
    [p \in Cells(s.rows, s.cols) |->
        IF p[1] < s.rows - 1 THEN s.cells[<<p[1] + 1, p[2]>>] ELSE Blank]

scroll_if_needed(s) ==
    IF s.row < s.rows THEN s
    ELSE [s EXCEPT !.cells = backend_scroll_up(s), !.row = s.rows - 1]

raw_put_visible(s, shape) ==
    LET put == [s EXCEPT !.cells[<<s.row, s.col>>] = shape]
    IN  IF s.col + 1 < s.cols
        THEN scroll_if_needed([put EXCEPT !.col = s.col + 1])
        ELSE scroll_if_needed([put EXCEPT !.col = 0, !.row = s.row + 1])

raw_newline(s) == scroll_if_needed([s EXCEPT !.col = 0, !.row = s.row + 1])

\* Blanks up to the next multiple of four: one to four of them.
PutTab(s) ==
    LET one == raw_put_visible(s, Blank)
        two == raw_put_visible(one, Blank)
        three == raw_put_visible(two, Blank)
    IN  CASE s.col % 4 = 3 -> one
          [] s.col % 4 = 2 -> two
          [] s.col % 4 = 1 -> three
          [] OTHER         -> raw_put_visible(three, Blank)

\* The cell before the cursor, in the row above when the cursor is in the
\* first column.
StepBack(s) ==
    IF s.col = 0
    THEN [s EXCEPT !.row = s.row - 1, !.col = s.cols - 1]
    ELSE [s EXCEPT !.col = s.col - 1]

EraseBack(s) ==
    IF s.row = 0 /\ s.col = 0 THEN s
    ELSE [StepBack(s) EXCEPT !.cells[<<StepBack(s).row, StepBack(s).col>>] = Blank]

\* clear_line_range, for as many rows as erased holds cells of.
Erase(s, erased) ==
    [s EXCEPT !.cells = [p \in DOMAIN s.cells |->
                            IF p \in erased THEN Blank ELSE s.cells[p]]]

RowOf(s) == {s.row} \X (0 .. s.cols - 1)
FromCursor(s) == {p \in DOMAIN s.cells : p[1] > s.row \/ (p[1] = s.row /\ p[2] >= s.col)}
UpToCursor(s) == {p \in DOMAIN s.cells : p[1] < s.row \/ (p[1] = s.row /\ p[2] <= s.col)}

\* A byte below 0x80 in the parser's ground state.
PutByte(s, b) ==
    CASE b = 10 -> raw_newline(s)
      [] b = 13 -> [s EXCEPT !.col = 0]
      [] b = 8  -> EraseBack(s)
      [] b = 9  -> PutTab(s)
      [] b \in 32 .. 127 -> raw_put_visible(s, Shape(b))
      [] OTHER  -> s
=============================================================================
