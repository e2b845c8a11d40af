--------------------------- MODULE ConsoleProofs ---------------------------
(***************************************************************************)
(* For every size of the two screens and whatever is written: the cursor   *)
(* never leaves the screen, and the screen shows the text that has been    *)
(* written since it was cleared.                                           *)
(***************************************************************************)
EXTENDS ConsoleText, SequenceTheorems, NaturalsInduction, WellFoundedInduction, TLAPS

\* A screen of some size with its cursor in it, whatever its cells show.
IsScreen(s) ==
    s \in [rows : Nat \ {0}, cols : Nat \ {0}, row : Nat, col : Nat, cells : {s.cells}]
Sound(s) == IsScreen(s) /\ s.row < s.rows /\ s.col < s.cols
SameSize(s, t) == t.rows = s.rows /\ t.cols = s.cols

\* What an operation on the screen has to do.
Keeps(s, t) == Sound(t) /\ SameSize(s, t)

ParamsOK ==
    /\ ansi_params \in Seq(Nat)
    /\ ansi_param_current \in Nat
    /\ ansi_param_active \in BOOLEAN
SavedOK ==
    /\ saved \in [row : Nat, col : Nat]
    /\ saved.row < screen.rows
    /\ saved.col < screen.cols
Inv == Sound(screen) /\ SavedOK /\ ParamsOK
-----------------------------------------------------------------------------
\* A screen with other cells, and one with another cursor.
LEMMA OtherCells ==
    ASSUME NEW s, Sound(s), NEW c
    PROVE  Keeps(s, [s EXCEPT !.cells = c])
  BY DEF Keeps, Sound, SameSize, IsScreen

LEMMA OtherCursor ==
    ASSUME NEW s, Sound(s), NEW r \in Nat, NEW c \in Nat, r < s.rows, c < s.cols
    PROVE  /\ Keeps(s, [s EXCEPT !.row = r, !.col = c])
           /\ Keeps(s, [s EXCEPT !.row = r])
           /\ Keeps(s, [s EXCEPT !.col = c])
  BY DEF Keeps, Sound, SameSize, IsScreen

LEMMA KeepsTransitive ==
    ASSUME NEW s, NEW t, NEW u, Keeps(s, t), Keeps(t, u)
    PROVE  Keeps(s, u)
  BY DEF Keeps, SameSize

\* The cursor may be one row below the screen before it scrolls.
LEMMA ScrollKeeps ==
    ASSUME NEW s, IsScreen(s), s.row <= s.rows, s.col < s.cols
    PROVE  Keeps(s, scroll_if_needed(s))
<1>1. CASE s.row < s.rows
  BY <1>1 DEF Keeps, Sound, SameSize, scroll_if_needed
<1>2. CASE ~ (s.row < s.rows)
  <2> DEFINE c == backend_scroll_up(s)
             t == [s EXCEPT !.cells = c, !.row = s.rows - 1]
  <2>1. scroll_if_needed(s) = t
    BY <1>2 DEF scroll_if_needed
  <2> HIDE DEF c
  <2>2. s.rows - 1 \in Nat /\ s.rows - 1 < s.rows
    BY DEF IsScreen
  <2>3. IsScreen(t) /\ SameSize(s, t) /\ t.row = s.rows - 1 /\ t.col = s.col
    <3>1. PICK r \in Nat : r = s.rows - 1
      BY <2>2
    <3>2. t = [s EXCEPT !.cells = c, !.row = r]
      BY <3>1
    <3>3. IsScreen(t)
      BY <3>2 DEF IsScreen
    <3> QED
      BY <3>1, <3>2, <3>3 DEF IsScreen, SameSize
  <2>4. Keeps(s, t)
    BY <2>2, <2>3 DEF Keeps, Sound, SameSize
  <2> QED
    BY <2>1, <2>4
<1> QED
  BY <1>1, <1>2

\* Putting a glyph (console.c:277-287).
LEMMA PutKeeps ==
    ASSUME NEW s, Sound(s), NEW shape
    PROVE  Keeps(s, raw_put_visible(s, shape))
<1> DEFINE put == [s EXCEPT !.cells[<<s.row, s.col>>] = shape]
           same == [put EXCEPT !.col = s.col + 1]
           next == [put EXCEPT !.col = 0, !.row = s.row + 1]
<1>1. /\ IsScreen(put) /\ SameSize(s, put)
      /\ put.row = s.row /\ put.col = s.col
  BY DEF Sound, SameSize, IsScreen
<1>2. /\ s.rows \in Nat \ {0} /\ s.cols \in Nat \ {0} /\ s.row \in Nat /\ s.col \in Nat
      /\ s.row < s.rows /\ s.col < s.cols
  BY DEF Sound, IsScreen
<1> HIDE DEF put
<1>3. CASE s.col + 1 < s.cols
  <2>1. /\ IsScreen(same) /\ SameSize(s, same)
        /\ same.row = s.row /\ same.col = s.col + 1
    BY <1>1, <1>2 DEF SameSize, IsScreen
  <2>2. Keeps(same, scroll_if_needed(same))
    <3> HIDE DEF same
    <3> QED
      BY <2>1, <1>2, <1>3, ScrollKeeps DEF SameSize
  <2>3. raw_put_visible(s, shape) = scroll_if_needed(same)
    BY <1>3 DEF raw_put_visible, put
  <2> QED
    BY <2>1, <2>2, <2>3 DEF Keeps, SameSize
<1>4. CASE ~ (s.col + 1 < s.cols)
  <2>1. /\ IsScreen(next) /\ SameSize(s, next)
        /\ next.row = s.row + 1 /\ next.col = 0
    <3>1. s.row + 1 \in Nat /\ 0 \in Nat
      BY <1>2
    <3>2. IsScreen(next) /\ SameSize(put, next) /\ next.row = s.row + 1 /\ next.col = 0
      <4>1. PICK r \in Nat : r = s.row + 1
        BY <3>1
      <4>2. next = [put EXCEPT !.col = 0, !.row = r]
        BY <4>1
      <4>3. IsScreen(next)
        BY <1>1, <3>1, <4>2 DEF IsScreen
      <4> QED
        BY <1>1, <4>1, <4>2, <4>3 DEF IsScreen, SameSize
    <3> QED
      BY <1>1, <3>2 DEF SameSize
  <2>2. Keeps(next, scroll_if_needed(next))
    <3> HIDE DEF next
    <3> QED
      BY <2>1, <1>2, ScrollKeeps DEF SameSize
  <2>3. raw_put_visible(s, shape) = scroll_if_needed(next)
    BY <1>4 DEF raw_put_visible, put
  <2> QED
    BY <2>1, <2>2, <2>3 DEF Keeps, SameSize
<1> QED
  BY <1>3, <1>4

\* A newline, a tab, an erased character (console.c:289-293, 581-587, 711-724).
LEMMA NewlineKeeps ==
    ASSUME NEW s, Sound(s)
    PROVE  Keeps(s, raw_newline(s))
<1> DEFINE t == [s EXCEPT !.col = 0, !.row = s.row + 1]
<1>1. /\ s.rows \in Nat \ {0} /\ s.cols \in Nat \ {0} /\ s.row \in Nat
      /\ s.row < s.rows
  BY DEF Sound, IsScreen
<1>2. PICK r \in Nat : r = s.row + 1
  BY <1>1
<1>3. t = [s EXCEPT !.col = 0, !.row = r]
  BY <1>2
<1>4. IsScreen(t)
  BY <1>3 DEF IsScreen, Sound
<1>5. SameSize(s, t) /\ t.row = r /\ t.col = 0
  BY <1>3, <1>4 DEF IsScreen, SameSize, Sound
<1>6. Keeps(t, scroll_if_needed(t))
  <2> HIDE DEF t
  <2> QED
    BY <1>1, <1>2, <1>4, <1>5, ScrollKeeps DEF SameSize
<1>7. raw_newline(s) = scroll_if_needed(t)
  BY DEF raw_newline
<1> QED
  BY <1>5, <1>6, <1>7 DEF Keeps, SameSize

LEMMA TabKeeps ==
    ASSUME NEW s, Sound(s)
    PROVE  Keeps(s, PutTab(s))
<1> DEFINE one == raw_put_visible(s, Blank)
           two == raw_put_visible(one, Blank)
           three == raw_put_visible(two, Blank)
           four == raw_put_visible(three, Blank)
<1>1. Keeps(s, one)
  BY PutKeeps
<1>2. Keeps(s, two)
  <2> HIDE DEF one
  <2>1. Keeps(one, two)
    BY <1>1, PutKeeps DEF Keeps
  <2> QED
    BY <1>1, <2>1, KeepsTransitive
<1>3. Keeps(s, three)
  <2> HIDE DEF two
  <2>1. Keeps(two, three)
    BY <1>2, PutKeeps DEF Keeps
  <2> QED
    BY <1>2, <2>1, KeepsTransitive
<1>4. Keeps(s, four)
  <2> HIDE DEF three
  <2>1. Keeps(three, four)
    BY <1>3, PutKeeps DEF Keeps
  <2> QED
    BY <1>3, <2>1, KeepsTransitive
<1>5. PutTab(s) \in {one, two, three, four}
  <2> HIDE DEF one
  <2> QED
    BY Zenon DEF PutTab, one
<1> QED
  BY <1>1, <1>2, <1>3, <1>4, <1>5, Zenon

LEMMA EraseBackKeeps ==
    ASSUME NEW s, Sound(s)
    PROVE  Keeps(s, EraseBack(s))
<1>1. /\ s.rows \in Nat \ {0} /\ s.cols \in Nat \ {0} /\ s.row \in Nat /\ s.col \in Nat
      /\ s.row < s.rows /\ s.col < s.cols
  BY DEF Sound, IsScreen
<1>2. CASE s.row = 0 /\ s.col = 0
  BY <1>2 DEF EraseBack, Keeps, SameSize
<1>3. CASE s.row # 0 \/ s.col # 0
  <2>1. Keeps(s, StepBack(s))
    <3>1. CASE s.col = 0
      <4>1. PICK r \in Nat, c \in Nat : r = s.row - 1 /\ c = s.cols - 1
        BY <1>1, <1>3, <3>1
      <4>2. StepBack(s) = [s EXCEPT !.row = r, !.col = c]
        BY <3>1, <4>1 DEF StepBack
      <4>3. IsScreen([s EXCEPT !.row = r, !.col = c])
        BY DEF IsScreen, Sound
      <4> QED
        BY <1>1, <4>1, <4>2, <4>3 DEF IsScreen, Keeps, SameSize, Sound
    <3>2. CASE s.col # 0
      <4>1. PICK c \in Nat : c = s.col - 1
        BY <1>1, <3>2
      <4>2. StepBack(s) = [s EXCEPT !.col = c]
        BY <3>2, <4>1 DEF StepBack
      <4>3. IsScreen([s EXCEPT !.col = c])
        BY DEF IsScreen, Sound
      <4> QED
        BY <1>1, <4>1, <4>2, <4>3 DEF IsScreen, Keeps, SameSize, Sound
    <3> QED
      BY <3>1, <3>2
  <2> DEFINE t == StepBack(s)
  <2>2. EraseBack(s) = [t EXCEPT !.cells[<<t.row, t.col>>] = Blank]
    BY <1>3 DEF EraseBack
  <2> HIDE DEF t
  <2>3. Keeps(t, EraseBack(s))
    BY <2>1, <2>2 DEF Keeps, Sound, SameSize, IsScreen, t
  <2> QED
    BY <2>1, <2>3, KeepsTransitive DEF t
<1> QED
  BY <1>2, <1>3

\* The erasing sequences change cells only (console.c:434-461).
LEMMA EraseByKeeps ==
    ASSUME NEW s, Sound(s), NEW final, NEW mode
    PROVE  Keeps(s, EraseBy(s, final, mode))
<1>1. \A c : Keeps(s, [s EXCEPT !.cells = c])
  BY OtherCells
<1>2. \A e : Keeps(s, Erase(s, e))
  BY <1>1, Zenon DEF Erase
<1>3. Keeps(s, s)
  BY DEF Keeps, SameSize
<1>4. EraseBy(s, final, mode) \in
          {s, Erase(s, FromCursor(s)), Erase(s, UpToCursor(s)), Erase(s, RowOf(s)),
           Erase(s, FromCursor(s) \cap RowOf(s)), Erase(s, UpToCursor(s) \cap RowOf(s))}
  BY Zenon DEF EraseBy
<1> QED
  BY <1>2, <1>3, <1>4, Zenon

LEMMA ClampFits ==
    ASSUME NEW size \in Nat \ {0}, NEW x
    PROVE  Clamp(x, size) \in Nat /\ Clamp(x, size) < size
  BY DEF Clamp

\* The sequences that move the cursor (console.c:394-433, 466-475).
LEMMA MoveKeeps ==
    ASSUME NEW s, Sound(s), NEW final, NEW ps \in Seq(Nat)
    PROVE  Keeps(s, MoveCursor(s, final, ps))
<1> DEFINE n == AtLeastOne(ansi_param_at(ps, 1, 1))
           up == IF s.row > n THEN s.row - n ELSE 0
           left == IF s.col > n THEN s.col - n ELSE 0
           down == Clamp(s.row + n, s.rows)
           right == Clamp(s.col + n, s.cols)
           h1 == Clamp(ansi_param_at(ps, 1, 1) - 1, s.rows)
           h2 == Clamp(ansi_param_at(ps, 2, 1) - 1, s.cols)
           u1 == Clamp(saved.row, s.rows)
           u2 == Clamp(saved.col, s.cols)
<1>1. /\ s.rows \in Nat \ {0} /\ s.cols \in Nat \ {0} /\ s.row \in Nat /\ s.col \in Nat
      /\ s.row < s.rows /\ s.col < s.cols
  BY DEF Sound, IsScreen
<1>2. n \in Nat /\ n >= 1
  <2>1. ansi_param_at(ps, 1, 1) \in Nat
    BY LenProperties DEF ansi_param_at
  <2> QED
    BY <2>1 DEF AtLeastOne
<1>3. /\ \A r \in Nat : r < s.rows => Keeps(s, [s EXCEPT !.row = r])
      /\ \A c \in Nat : c < s.cols => Keeps(s, [s EXCEPT !.col = c])
      /\ \A r, c \in Nat : r < s.rows /\ c < s.cols
                            => Keeps(s, [s EXCEPT !.row = r, !.col = c])
  BY <1>1, OtherCursor
<1>4. up \in Nat /\ up < s.rows /\ left \in Nat /\ left < s.cols
  <2> HIDE DEF n
  <2> QED
    BY <1>1, <1>2
<1>5. /\ down \in Nat /\ down < s.rows /\ right \in Nat /\ right < s.cols
      /\ h1 \in Nat /\ h1 < s.rows /\ h2 \in Nat /\ h2 < s.cols
      /\ u1 \in Nat /\ u1 < s.rows /\ u2 \in Nat /\ u2 < s.cols
  BY <1>1, ClampFits
<1>6. MoveCursor(s, final, ps) \in
          {s, [s EXCEPT !.row = up], [s EXCEPT !.row = down], [s EXCEPT !.col = right],
           [s EXCEPT !.col = left], [s EXCEPT !.row = h1, !.col = h2],
           [s EXCEPT !.row = u1, !.col = u2]}
  BY Zenon DEF MoveCursor
<1>7. Keeps(s, s)
  BY DEF Keeps, SameSize
<1> HIDE DEF n, up, left, down, right, h1, h2, u1, u2
<1>8. /\ Keeps(s, [s EXCEPT !.row = up]) /\ Keeps(s, [s EXCEPT !.row = down])
      /\ Keeps(s, [s EXCEPT !.col = right]) /\ Keeps(s, [s EXCEPT !.col = left])
      /\ Keeps(s, [s EXCEPT !.row = h1, !.col = h2])
      /\ Keeps(s, [s EXCEPT !.row = u1, !.col = u2])
  BY <1>3, <1>4, <1>5, Zenon
<1> QED
  BY <1>6, <1>7, <1>8, Zenon

LEMMA PushedAreNumbers ==
    ASSUME ParamsOK
    PROVE  PushedParams \in Seq(Nat)
  BY DEF ParamsOK, PushedParams
-----------------------------------------------------------------------------
\* A step that leaves the size of the screen, the saved position and the types
\* of the parameters alone.
LEMMA ScreenStep ==
    ASSUME Inv, Keeps(screen, screen'), saved' = saved, ParamsOK'
    PROVE  Inv'
  BY DEF Inv, Keeps, SameSize, SavedOK

LEMMA ResetParams ==
    ASSUME ansi_reset_params
    PROVE  ParamsOK'
<1>1. <<>> \in Seq(Nat)
  BY EmptySeq
<1> QED
  BY <1>1 DEF ansi_reset_params, ParamsOK

\* Clearing the screen, for any size.
LEMMA ClearStep ==
    ASSUME NEW rows \in Nat \ {0}, NEW cols \in Nat \ {0}, ClearTo(rows, cols)
    PROVE  Inv'
<1>1. ParamsOK'
  BY ResetParams DEF ClearTo
<1>2. Sound(screen') /\ screen'.rows = rows /\ screen'.cols = cols
  BY DEF ClearTo, FreshScreen, Sound, IsScreen
<1>3. SavedOK'
  BY <1>2 DEF ClearTo, SavedOK
<1> QED
  BY <1>1, <1>2, <1>3 DEF Inv

\* What a byte outside a control sequence does to the screen.
LEMMA GroundStep ==
    ASSUME Inv, NEW b \in Byte, console_handle_ground_byte(b)
    PROVE  Inv'
<1>0. Sound(screen)
  BY DEF Inv
<1>1. CASE GroundAscii(b)
  <2>1. Keeps(screen, PutByte(screen, b))
    <3>1. /\ Keeps(screen, raw_newline(screen)) /\ Keeps(screen, EraseBack(screen))
          /\ Keeps(screen, PutTab(screen)) /\ Keeps(screen, screen)
          /\ Keeps(screen, raw_put_visible(screen, Shape(b)))
      BY <1>0, NewlineKeeps, EraseBackKeeps, TabKeeps, PutKeeps DEF Keeps, SameSize
    <3>2. Keeps(screen, [screen EXCEPT !.col = 0])
      <4>1. 0 \in Nat /\ 0 < screen.cols /\ screen.row \in Nat /\ screen.row < screen.rows
        BY <1>0 DEF Sound, IsScreen
      <4> QED
        BY <1>0, <4>1, OtherCursor
    <3>3. PutByte(screen, b) \in {raw_newline(screen), [screen EXCEPT !.col = 0], EraseBack(screen),
                          PutTab(screen), raw_put_visible(screen, Shape(b)), screen}
      BY Zenon DEF PutByte
    <3> QED
      BY <3>1, <3>2, <3>3, Zenon
  <2>2. ParamsOK' /\ saved' = saved /\ screen' = PutByte(screen, b)
    BY <1>1 DEF GroundAscii, Inv, ParamsOK, paramVars
  <2> QED
    BY <2>1, <2>2, ScreenStep
<1>2. CASE GroundUtf8(b)
  <2>1. screen' = screen \/ screen' = raw_put_visible(screen, Unknown)
    BY <1>2, Zenon DEF GroundUtf8, console_emit_utf8_byte
  <2>2. Keeps(screen, screen')
    BY <1>0, <2>1, PutKeeps DEF Keeps, SameSize
  <2>3. ParamsOK' /\ saved' = saved
    BY <1>2 DEF GroundUtf8, Inv, ParamsOK, paramVars
  <2> QED
    BY <2>2, <2>3, ScreenStep
<1> QED
  BY <1>1, <1>2 DEF console_handle_ground_byte

\* What a byte inside a control sequence does.
LEMMA CsiStep ==
    ASSUME Inv, NEW b \in Byte,
           CsiDigit(b) \/ CsiSeparator(b) \/ CsiClear(b) \/ CsiFinal(b) \/ CsiAbort(b)
    PROVE  Inv'
<1>0. Sound(screen) /\ ParamsOK /\ SavedOK /\ Keeps(screen, screen)
  BY DEF Inv, Keeps, SameSize
<1>1. CASE CsiDigit(b)
  <2>1. b - 48 \in Nat
    BY <1>1 DEF CsiDigit
  <2>2. ParamsOK'
    BY <1>0, <1>1, <2>1 DEF CsiDigit, ParamsOK
  <2> QED
    BY <1>0, <1>1, <2>2, ScreenStep DEF CsiDigit
<1>2. CASE CsiSeparator(b)
  <2>1. ParamsOK'
    BY <1>0, <1>2, PushedAreNumbers DEF CsiSeparator, ParamsOK
  <2> QED
    BY <1>0, <1>2, <2>1, ScreenStep DEF CsiSeparator
<1>3. CASE CsiClear(b)
  <2>1. screen.rows \in Nat \ {0} /\ screen.cols \in Nat \ {0}
    BY <1>0 DEF Sound, IsScreen
  <2> QED
    BY <1>3, <2>1, ClearStep DEF CsiClear, console_clear
<1>4. CASE CsiFinal(b)
  <2> DEFINE moved == MoveCursor(screen, b, PushedParams)
  <2>1. Keeps(screen, moved)
    BY <1>0, MoveKeeps, PushedAreNumbers
  <2>2. Keeps(moved, screen')
    <3>1. screen' = EraseBy(moved, b, ansi_param_at(PushedParams, 1, 0))
      BY <1>4 DEF CsiFinal
    <3> HIDE DEF moved
    <3> QED
      BY <2>1, <3>1, EraseByKeeps DEF Keeps
  <2>3. Keeps(screen, screen')
    <3> HIDE DEF moved
    <3> QED
      BY <2>1, <2>2, KeepsTransitive
  <2>4. ParamsOK'
    BY <1>4, ResetParams DEF CsiFinal
  <2>5. saved' = [row |-> screen.row, col |-> screen.col] \/ saved' = saved
    BY <1>4, Zenon DEF CsiFinal
  <2>6. SavedOK'
    BY <1>0, <2>3, <2>5 DEF SavedOK, Keeps, SameSize, Sound, IsScreen
  <2> QED
    BY <2>3, <2>4, <2>6 DEF Inv, Keeps
<1>5. CASE CsiAbort(b)
  <2>1. ParamsOK'
    BY <1>0, <1>5 DEF CsiAbort, ParamsOK, paramVars
  <2> QED
    BY <1>0, <1>5, <2>1, ScreenStep DEF CsiAbort
<1> QED
  BY <1>1, <1>2, <1>3, <1>4, <1>5

\* The inductive invariant of the console: the cursor and the saved position
\* are on the screen, the parameters are numbers.
THEOREM ConsoleInvariant == ConsoleSpec => []Inv
<1>1. console_init => Inv
  <2> SUFFICES ASSUME console_init PROVE Inv
    OBVIOUS
  <2>1. Sound(screen) /\ screen.rows = VGA_HEIGHT /\ screen.cols = VGA_WIDTH
    BY ConsoleAssumption DEF console_init, FreshScreen, Sound, IsScreen
  <2>2. SavedOK
    BY <2>1, ConsoleAssumption DEF console_init, SavedOK
  <2>3. ParamsOK
    BY EmptySeq DEF console_init, ParamsOK
  <2> QED
    BY <2>1, <2>2, <2>3 DEF Inv
<1>2. Inv /\ [ConsoleNext]_consoleVars => Inv'
  <2> SUFFICES ASSUME Inv, [ConsoleNext]_consoleVars PROVE Inv'
    OBVIOUS
  <2>0. Sound(screen) /\ ParamsOK /\ Keeps(screen, screen)
    BY DEF Inv, Keeps, SameSize
  <2>1. ASSUME NEW b \in Byte, console_putc(b) PROVE Inv'
    <3>1. CASE StartCsi(b)
      <4>1. ParamsOK'
        BY <3>1, ResetParams DEF StartCsi
      <4> QED
        BY <2>0, <3>1, <4>1, ScreenStep DEF StartCsi
    <3> QED
      BY <2>1, <3>1, GroundStep, CsiStep DEF console_putc
  <2>2. CASE console_backspace
    <3>1. ParamsOK' /\ saved' = saved /\ screen' = EraseBack(screen)
      BY <2>0, <2>2 DEF console_backspace, ParamsOK, paramVars
    <3> QED
      BY <2>0, <3>1, EraseBackKeeps, ScreenStep
  <2>3. CASE console_clear
    <3>1. screen.rows \in Nat \ {0} /\ screen.cols \in Nat \ {0}
      BY <2>0 DEF Sound, IsScreen
    <3> QED
      BY <2>3, <3>1, ClearStep DEF console_clear
  <2>4. CASE console_enable_framebuffer
    <3> DEFINE rows == FbHeight \div GLYPH_HEIGHT
               cols == FbWidth \div GLYPH_WIDTH
    <3>1. rows \in Nat \ {0} /\ cols \in Nat \ {0}
      BY <2>4, ConsoleAssumption DEF console_enable_framebuffer
    <3> HIDE DEF rows, cols
    <3>2. /\ AtMost(FB_MAX_ROWS, rows) \in Nat \ {0}
          /\ AtMost(FB_MAX_COLS, cols) \in Nat \ {0}
      BY <3>1, ConsoleAssumption DEF AtMost
    <3> QED
      BY <2>4, <3>2, ClearStep DEF console_enable_framebuffer, rows, cols
  <2>5. CASE UNCHANGED consoleVars
    <3>1. screen' = screen /\ saved' = saved /\ UNCHANGED paramVars
      BY <2>5 DEF consoleVars
    <3>2. ParamsOK'
      BY <2>0, <3>1 DEF ParamsOK, paramVars
    <3> QED
      BY <2>0, <3>1, <3>2, ScreenStep
  <2> QED
    BY <2>1, <2>2, <2>3, <2>4, <2>5 DEF ConsoleNext
<1> QED
  BY <1>1, <1>2, PTL DEF ConsoleSpec

\* For every size of the text screen and of the framebuffer, and whatever is
\* written: the cursor is on the screen (console.c:242-293, 394-479, 711-724).
THEOREM CursorStaysInside == ConsoleSpec => []CursorInside
<1>1. Inv => CursorInside
  BY DEF Inv, Sound, IsScreen, SavedOK, CursorInside, Cells
<1> QED
  BY <1>1, ConsoleInvariant, PTL
-----------------------------------------------------------------------------
(* Drawing in reading order: the cells of the screen are the last ones of *)
(* a longer row of cells, which ends at the cursor.                        *)

\* A set of numbers has a least one.
LEMMA Least ==
    ASSUME NEW T, T \subseteq Nat, T # {}
    PROVE  \E x \in T : \A y \in T : x <= y
<1>1. PICK x \in T : \A y \in T : ~ (<<y, x>> \in OpToRel(<, Nat))
  BY NatLessThanWellFounded, WFMin
<1>2. \A y \in Nat : y < x => <<y, x>> \in OpToRel(<, Nat)
  BY Zenon DEF OpToRel
<1>3. \A y \in T : ~ (y < x)
  BY <1>1, <1>2, Zenon
<1> QED
  BY <1>3

\* A set of numbers that has 0, and has n when it has n - 1, has them all.
LEMMA Climb ==
    ASSUME NEW good, 0 \in good, \A m \in Nat \ {0} : m - 1 \in good => m \in good
    PROVE  Nat \subseteq good
<1> SUFFICES ASSUME Nat \ good # {} PROVE FALSE
  OBVIOUS
<1> DEFINE T == Nat \ good
<1>1. T \subseteq Nat
  OBVIOUS
<1> HIDE DEF T
<1>2. PICK m \in T : \A y \in T : m <= y
  BY <1>1, Least DEF T
<1>3. m \in Nat \ {0} /\ m \notin good
  BY <1>2 DEF T
<1>4. m - 1 \in Nat /\ ~ (m <= m - 1)
  BY <1>3
<1>5. m - 1 \notin T
  BY <1>2, <1>4
<1>6. m - 1 \in good
  BY <1>4, <1>5 DEF T
<1> QED
  BY <1>3, <1>6

\* A cell's row and column.
LEMMA Division ==
    ASSUME NEW c \in Nat \ {0}, NEW n \in Nat
    PROVE  \E q \in Nat, k \in 0 .. c - 1 :
               q = n \div c /\ k = n % c /\ n = q * c + k
<1>1. n % c = n - c * (n \div c)
  OBVIOUS
<1>2. PICK q \in Nat : q = n \div c
  OBVIOUS
<1>3. PICK k \in 0 .. c - 1 : k = n % c
  OBVIOUS
<1>4. k = n - c * q
  BY <1>1, <1>2, <1>3
<1>5. n = q * c + k
  <2> HIDE <1>1, <1>2, <1>3
  <2> QED
    BY <1>4
<1> QED
  BY <1>2, <1>3, <1>5, Zenon

\* A cell of a later row comes later.
LEMMA Fits ==
    ASSUME NEW c \in Nat \ {0}, NEW q \in Nat, NEW r \in Nat, NEW k \in 0 .. c - 1,
           NEW j \in 0 .. c - 1, q < r
    PROVE  q * c + k < r * c + j
<1>1. PICK d \in Nat : r = q + 1 + d
  BY r = q + 1 + (r - q - 1)
<1>2. r * c = q * c + c + d * c
  BY <1>1
<1>3. d * c \in Nat
  OBVIOUS
<1>4. q * c \in Nat /\ r * c \in Nat
  OBVIOUS
<1> QED
  BY <1>2, <1>3, <1>4

\* A cell has one row and one column.
LEMMA Unique ==
    ASSUME NEW c \in Nat \ {0}, NEW q \in Nat, NEW r \in Nat, NEW k \in 0 .. c - 1,
           NEW j \in 0 .. c - 1, q * c + k = r * c + j
    PROVE  q = r /\ k = j
<1>1. ~ (q < r)
  <2>1. q < r => q * c + k < r * c + j
    BY Fits
  <2> QED
    BY <2>1
<1>2. ~ (r < q)
  <2>1. r < q => r * c + j < q * c + k
    BY Fits
  <2> QED
    BY <2>1
<1>3. q = r
  BY <1>1, <1>2
<1> QED
  BY <1>3

-----------------------------------------------------------------------------
\* The cells are those of the screen's size.
Gridded(s) == DOMAIN s.cells = Cells(s.rows, s.cols)

\* The cells show, from the row top on, what cell has; the cursor is at end.
DrawnFrom(s, top, end, cell) ==
    /\ (top + s.row) * s.cols + s.col = end
    /\ \A i \in 0 .. s.rows - 1, j \in 0 .. s.cols - 1 :
           s.cells[<<i, j>>] = cell[(top + i) * s.cols + j]

Drawn(s, end, cell) ==
    /\ Gridded(s)
    /\ \E top \in Nat : /\ top = 0 \/ s.row = s.rows - 1
                        /\ DrawnFrom(s, top, end, cell)

\* A cell is a row and a column.
LEMMA Grid ==
    ASSUME NEW s, Gridded(s)
    PROVE  /\ \A i \in 0 .. s.rows - 1, j \in 0 .. s.cols - 1 : <<i, j>> \in DOMAIN s.cells
           /\ \A p \in DOMAIN s.cells : /\ p[1] \in 0 .. s.rows - 1
                                        /\ p[2] \in 0 .. s.cols - 1
                                        /\ p = <<p[1], p[2]>>
  BY DEF Gridded, Cells

\* What comes before the cursor is drawn, and the cursor is in the row below
\* the screen or in the screen.
LEMMA ScrollDraws ==
    ASSUME NEW s, IsScreen(s), Gridded(s), s.row <= s.rows, s.col < s.cols,
           NEW top \in Nat, NEW end \in Nat, NEW cell, DrawnFrom(s, top, end, cell),
           top = 0 \/ s.row >= s.rows - 1, s.row = s.rows => s.col = 0,
           \A n \in Nat : n >= end => cell[n] = Blank
    PROVE  Drawn(scroll_if_needed(s), end, cell)
<1>1. /\ s.rows \in Nat \ {0} /\ s.cols \in Nat \ {0} /\ s.row \in Nat /\ s.col \in Nat
  BY DEF IsScreen
<1>2. CASE s.row < s.rows
  <2>1. scroll_if_needed(s) = s
    BY <1>2 DEF scroll_if_needed
  <2>2. top = 0 \/ s.row = s.rows - 1
    BY <1>1, <1>2
  <2> QED
    BY <2>1, <2>2 DEF Drawn
<1>3. CASE ~ (s.row < s.rows)
  <2>1. s.row = s.rows /\ s.col = 0
    BY <1>1, <1>3
  <2>2. PICK last \in Nat : last = s.rows - 1
    BY <1>1
  <2> DEFINE c == backend_scroll_up(s)
             t == [s EXCEPT !.cells = c, !.row = last]
  <2>3. scroll_if_needed(s) = t
    BY <1>3, <2>2 DEF scroll_if_needed
  <2>4. /\ DOMAIN c = Cells(s.rows, s.cols)
        /\ \A i \in 0 .. s.rows - 1, j \in 0 .. s.cols - 1 :
               c[<<i, j>>] = IF i < s.rows - 1 THEN s.cells[<<i + 1, j>>] ELSE Blank
    BY DEF backend_scroll_up, Cells
  <2> HIDE DEF c
  <2>5. t.row = last /\ t.col = 0 /\ t.rows = s.rows /\ t.cols = s.cols /\ t.cells = c
    BY <2>1 DEF IsScreen
  <2> HIDE DEF t
  <2>6. top + 1 \in Nat /\ (top + 1) + last = top + s.rows
    BY <1>1, <2>2
  <2>7. ((top + 1) + t.row) * t.cols + t.col = end
    BY <2>1, <2>5, <2>6 DEF DrawnFrom
  <2>8. ASSUME NEW i \in 0 .. s.rows - 1, NEW j \in 0 .. s.cols - 1
        PROVE  c[<<i, j>>] = cell[((top + 1) + i) * s.cols + j]
    <3>1. CASE i < s.rows - 1
      <4>1. i + 1 \in 0 .. s.rows - 1 /\ (top + 1) + i = top + (i + 1)
        BY <1>1, <3>1
      <4>2. s.cells[<<i + 1, j>>] = cell[(top + (i + 1)) * s.cols + j]
        BY <4>1 DEF DrawnFrom
      <4> QED
        BY <2>4, <3>1, <4>1, <4>2
    <3>2. CASE ~ (i < s.rows - 1)
      <4>1. (top + 1) + i = top + s.rows
        BY <1>1, <3>2
      <4>2. end = (top + s.rows) * s.cols + 0
        BY <2>1 DEF DrawnFrom
      <4>3. (top + s.rows) * s.cols \in Nat
        BY <1>1
      <4>4. (top + s.rows) * s.cols + j \in Nat /\ (top + s.rows) * s.cols + j >= end
        BY <4>2, <4>3
      <4> QED
        BY <2>4, <3>2, <4>1, <4>4
    <3> QED
      BY <3>1, <3>2
  <2>9. DrawnFrom(t, top + 1, end, cell)
    BY <2>5, <2>7, <2>8 DEF DrawnFrom
  <2>10. Gridded(t)
    BY <2>4, <2>5 DEF Gridded
  <2> QED
    BY <2>2, <2>3, <2>5, <2>6, <2>9, <2>10 DEF Drawn
<1> QED
  BY <1>2, <1>3

\* A glyph is put where the cursor is.
LEMMA PutDraws ==
    ASSUME NEW s, Sound(s), NEW end \in Nat, NEW cell, Drawn(s, end, cell), NEW g, NEW new,
           \A n \in Nat : n > end => new[n] = Blank,
           new[end] = g, \A n \in Nat : n # end => new[n] = cell[n]
    PROVE  Drawn(raw_put_visible(s, g), end + 1, new)
<1>1. /\ s.rows \in Nat \ {0} /\ s.cols \in Nat \ {0} /\ s.row \in Nat /\ s.col \in Nat
      /\ s.row < s.rows /\ s.col < s.cols
  BY DEF Sound, IsScreen
<1>2. PICK top \in Nat : /\ top = 0 \/ s.row = s.rows - 1
                         /\ DrawnFrom(s, top, end, cell)
  BY DEF Drawn
<1> DEFINE c == [s.cells EXCEPT ![<<s.row, s.col>>] = g]
           put == [s EXCEPT !.cells[<<s.row, s.col>>] = g]
<1>3. /\ IsScreen(put) /\ put.rows = s.rows /\ put.cols = s.cols
      /\ put.row = s.row /\ put.col = s.col /\ put.cells = c
  BY DEF Sound, IsScreen
<1>4. ASSUME NEW i \in 0 .. s.rows - 1, NEW j \in 0 .. s.cols - 1
      PROVE  c[<<i, j>>] = new[(top + i) * s.cols + j]
  <2>1. <<i, j>> \in DOMAIN s.cells
    BY Grid DEF Drawn
  <2>2. (top + i) * s.cols + j \in Nat
    BY <1>1
  <2>3. CASE i = s.row /\ j = s.col
    <3>1. (top + i) * s.cols + j = end
      BY <1>2, <2>3 DEF DrawnFrom
    <3> QED
      BY <2>1, <2>3, <3>1
  <2>4. CASE ~ (i = s.row /\ j = s.col)
    <3>1. top + i \in Nat /\ top + s.row \in Nat /\ s.col \in 0 .. s.cols - 1
      BY <1>1
    <3>2. (top + i) * s.cols + j # (top + s.row) * s.cols + s.col
      <4>1. ASSUME (top + i) * s.cols + j = (top + s.row) * s.cols + s.col
            PROVE  top + i = top + s.row /\ j = s.col
        <5>1. PICK a \in Nat, b \in Nat : a = top + i /\ b = top + s.row
          BY <3>1
        <5>2. PICK c0 \in Nat \ {0}, k \in Nat : c0 = s.cols /\ k = s.col
          BY <1>1, <3>1
        <5>3. a * c0 + j = b * c0 + k /\ j \in 0 .. c0 - 1 /\ k \in 0 .. c0 - 1
          BY <1>1, <4>1, <5>1, <5>2
        <5>4. a = b /\ j = k
          BY <5>3, Unique
        <5> QED
          BY <5>1, <5>2, <5>4
      <4> QED
        BY <1>1, <2>4, <4>1
    <3>3. (top + i) * s.cols + j # end
      BY <1>2, <3>2 DEF DrawnFrom
    <3>4. new[(top + i) * s.cols + j] = cell[(top + i) * s.cols + j]
      BY <2>2, <3>3
    <3>5. s.cells[<<i, j>>] = cell[(top + i) * s.cols + j]
      BY <1>2 DEF DrawnFrom
    <3>6. <<i, j>> # <<s.row, s.col>>
      BY <2>4
    <3> QED
      BY <2>1, <3>4, <3>5, <3>6
  <2> QED
    BY <2>3, <2>4
<1>5. DOMAIN c = Cells(s.rows, s.cols)
  BY DEF Drawn, Gridded
<1>6. \A n \in Nat : n >= end + 1 => new[n] = Blank
  OBVIOUS
<1>7. (top + s.row) * s.cols + s.col = end /\ (top + s.row) * s.cols \in Nat
  BY <1>1, <1>2 DEF DrawnFrom
<1> HIDE DEF c, put
<1>8. CASE s.col + 1 < s.cols
  <2>1. PICK k \in Nat : k = s.col + 1
    BY <1>1
  <2> DEFINE t == [put EXCEPT !.col = k]
  <2>2. /\ IsScreen(t) /\ t.rows = s.rows /\ t.cols = s.cols
        /\ t.row = s.row /\ t.col = k /\ t.cells = c
    BY <1>3 DEF IsScreen
  <2>3. raw_put_visible(s, g) = scroll_if_needed(t)
    BY <1>8, <2>1 DEF raw_put_visible, put
  <2> HIDE DEF t
  <2>4. (top + s.row) * s.cols + k = end + 1
    BY <1>1, <1>7, <2>1
  <2>5. DrawnFrom(t, top, end + 1, new)
    BY <1>4, <2>2, <2>4 DEF DrawnFrom
  <2>6. Gridded(t)
    BY <1>5, <2>2 DEF Gridded
  <2>7. /\ t.row <= t.rows /\ t.col < t.cols /\ (top = 0 \/ t.row >= t.rows - 1)
        /\ (t.row = t.rows => t.col = 0)
    BY <1>1, <1>2, <1>8, <2>1, <2>2
  <2>8. end + 1 \in Nat
    OBVIOUS
  <2> QED
    BY <1>6, <2>2, <2>3, <2>5, <2>6, <2>7, <2>8, ScrollDraws
<1>9. CASE ~ (s.col + 1 < s.cols)
  <2>1. PICK r \in Nat : r = s.row + 1
    BY <1>1
  <2> DEFINE t == [put EXCEPT !.col = 0, !.row = r]
  <2>2. /\ IsScreen(t) /\ t.rows = s.rows /\ t.cols = s.cols
        /\ t.row = r /\ t.col = 0 /\ t.cells = c
    BY <1>3 DEF IsScreen
  <2>3. raw_put_visible(s, g) = scroll_if_needed(t)
    BY <1>9, <2>1 DEF raw_put_visible, put
  <2> HIDE DEF t
  <2>4. (top + r) * s.cols + 0 = end + 1
    <3>1. s.col = s.cols - 1
      BY <1>1, <1>9
    <3>2. (top + r) * s.cols = (top + s.row) * s.cols + s.cols
      BY <1>1, <2>1
    <3> QED
      BY <1>1, <1>7, <3>1, <3>2
  <2>5. DrawnFrom(t, top, end + 1, new)
    BY <1>4, <2>2, <2>4 DEF DrawnFrom
  <2>6. Gridded(t)
    BY <1>5, <2>2 DEF Gridded
  <2>7. /\ t.row <= t.rows /\ t.col < t.cols /\ (top = 0 \/ t.row >= t.rows - 1)
        /\ (t.row = t.rows => t.col = 0)
    BY <1>1, <1>2, <2>1, <2>2
  <2>8. end + 1 \in Nat
    OBVIOUS
  <2> QED
    BY <1>6, <2>2, <2>3, <2>5, <2>6, <2>7, <2>8, ScrollDraws
<1> QED
  BY <1>8, <1>9

\* A newline is blanks to the end of the row.
LEMMA NewlineDraws ==
    ASSUME NEW s, Sound(s), NEW end \in Nat, NEW cell, Drawn(s, end, cell),
           \A n \in Nat : n >= end => cell[n] = Blank
    PROVE  /\ end + (s.cols - s.col) \in Nat
           /\ Drawn(raw_newline(s), end + (s.cols - s.col), cell)
<1>1. /\ s.rows \in Nat \ {0} /\ s.cols \in Nat \ {0} /\ s.row \in Nat /\ s.col \in Nat
      /\ s.row < s.rows /\ s.col < s.cols
  BY DEF Sound, IsScreen
<1>2. PICK top \in Nat : /\ top = 0 \/ s.row = s.rows - 1
                         /\ DrawnFrom(s, top, end, cell)
  BY DEF Drawn
<1>3. PICK r \in Nat : r = s.row + 1
  BY <1>1
<1>4. PICK e \in Nat : e = end + (s.cols - s.col)
  BY <1>1
<1> DEFINE t == [s EXCEPT !.col = 0, !.row = r]
<1>5. /\ IsScreen(t) /\ t.rows = s.rows /\ t.cols = s.cols
      /\ t.row = r /\ t.col = 0 /\ t.cells = s.cells
  BY DEF Sound, IsScreen
<1>6. raw_newline(s) = scroll_if_needed(t)
  BY <1>3 DEF raw_newline
<1> HIDE DEF t
<1>7. (top + r) * s.cols + 0 = e
  <2>1. (top + r) * s.cols = (top + s.row) * s.cols + s.cols
    BY <1>1, <1>3
  <2>2. (top + s.row) * s.cols + s.col = end /\ (top + s.row) * s.cols \in Nat
    BY <1>1, <1>2 DEF DrawnFrom
  <2> QED
    BY <1>1, <1>4, <2>1, <2>2
<1>8. DrawnFrom(t, top, e, cell)
  BY <1>2, <1>5, <1>7 DEF DrawnFrom
<1>9. Gridded(t)
  BY <1>5 DEF Drawn, Gridded
<1>10. /\ t.row <= t.rows /\ t.col < t.cols /\ (top = 0 \/ t.row >= t.rows - 1)
       /\ (t.row = t.rows => t.col = 0)
  BY <1>1, <1>2, <1>3, <1>5
<1>11. \A n \in Nat : n >= e => cell[n] = Blank
  BY <1>1, <1>4
<1>12. Drawn(scroll_if_needed(t), e, cell)
  BY <1>5, <1>8, <1>9, <1>10, <1>11, ScrollDraws
<1> QED
  BY <1>4, <1>6, <1>12

\* A blank where nothing stands yet leaves the row of cells as it is.
LEMMA BlankDraws ==
    ASSUME NEW s, Sound(s), NEW end \in Nat, NEW cell, Drawn(s, end, cell),
           \A n \in Nat : n >= end => cell[n] = Blank
    PROVE  LET t == raw_put_visible(s, Blank)
           IN  /\ Sound(t) /\ end + 1 \in Nat /\ Drawn(t, end + 1, cell)
               /\ \A n \in Nat : n >= end + 1 => cell[n] = Blank
<1>1. Sound(raw_put_visible(s, Blank))
  BY PutKeeps DEF Keeps
<1>2. cell[end] = Blank /\ \A n \in Nat : n > end => cell[n] = Blank
  OBVIOUS
<1>3. Drawn(raw_put_visible(s, Blank), end + 1, cell)
  BY <1>2, PutDraws
<1> QED
  BY <1>1, <1>3

\* A tab is blanks up to the next multiple of four.
LEMMA TabDraws ==
    ASSUME NEW s, Sound(s), NEW end \in Nat, NEW cell, Drawn(s, end, cell),
           \A n \in Nat : n >= end => cell[n] = Blank
    PROVE  /\ end + (4 - (s.col % 4)) \in Nat
           /\ Drawn(PutTab(s), end + (4 - (s.col % 4)), cell)
<1> DEFINE one == raw_put_visible(s, Blank)
           two == raw_put_visible(one, Blank)
           three == raw_put_visible(two, Blank)
           four == raw_put_visible(three, Blank)
<1>1. /\ Sound(one) /\ end + 1 \in Nat /\ Drawn(one, end + 1, cell)
      /\ \A n \in Nat : n >= end + 1 => cell[n] = Blank
  BY BlankDraws
<1>2. /\ Sound(two) /\ end + 2 \in Nat /\ Drawn(two, end + 2, cell)
      /\ \A n \in Nat : n >= end + 2 => cell[n] = Blank
  <2> HIDE DEF one
  <2>1. (end + 1) + 1 = end + 2
    OBVIOUS
  <2> QED
    BY <1>1, <2>1, BlankDraws
<1>3. /\ Sound(three) /\ end + 3 \in Nat /\ Drawn(three, end + 3, cell)
      /\ \A n \in Nat : n >= end + 3 => cell[n] = Blank
  <2> HIDE DEF two
  <2>1. (end + 2) + 1 = end + 3
    OBVIOUS
  <2> QED
    BY <1>2, <2>1, BlankDraws
<1>4. Sound(four) /\ end + 4 \in Nat /\ Drawn(four, end + 4, cell)
  <2> HIDE DEF three
  <2>1. (end + 3) + 1 = end + 4
    OBVIOUS
  <2> QED
    BY <1>3, <2>1, BlankDraws
<1>c. PICK col \in Nat : col = s.col
  BY DEF Sound, IsScreen
<1>5. PICK k \in 0 .. 3 : k = col % 4
  OBVIOUS
<1>6. /\ k = 3 => PutTab(s) = one
      /\ k = 2 => PutTab(s) = two
      /\ k = 1 => PutTab(s) = three
      /\ k = 0 => PutTab(s) = four
  BY <1>c, <1>5 DEF PutTab
<1> HIDE DEF one, two, three, four
<1>7. CASE k = 3
  <2>1. PutTab(s) = one /\ 4 - (col % 4) = 1
    BY <1>5, <1>6, <1>7
  <2> QED
    BY <1>1, <1>c, <2>1, Zenon
<1>8. CASE k = 2
  <2>1. PutTab(s) = two /\ 4 - (col % 4) = 2
    BY <1>5, <1>6, <1>8
  <2> QED
    BY <1>2, <1>c, <2>1, Zenon
<1>9. CASE k = 1
  <2>1. PutTab(s) = three /\ 4 - (col % 4) = 3
    BY <1>5, <1>6, <1>9
  <2> QED
    BY <1>3, <1>c, <2>1, Zenon
<1>10. CASE k = 0
  <2>1. PutTab(s) = four
    BY <1>6, <1>10
  <2>2. 4 - (col % 4) = 4
    BY <1>5, <1>10
  <2> QED
    BY <1>4, <1>c, <2>1, <2>2, Zenon
<1> QED
  BY <1>7, <1>8, <1>9, <1>10

-----------------------------------------------------------------------------
(* The screen shows some units, and goes on to when one more is drawn.     *)

\* What a text is made of.
TextUnit == {9, 10} \cup 32 .. 127

\* The places of the units, one behind the other from the first cell on.
Laid(us, place, cols) ==
    /\ place \in [1 .. Len(us) + 1 -> Nat]
    /\ place[1] = 0
    /\ \A k \in 1 .. Len(us) :
           /\ place[k + 1] = place[k] + Width(us[k], place[k] % cols, cols)
           /\ place[k] < place[Len(us) + 1]

\* The row of cells has the glyphs of the units at their places and no others.
Inked(us, place, cell) ==
    \A n \in Nat : /\ GlyphsAt(us, place, n) = {} => cell[n] = Blank
                   /\ \A k \in GlyphsAt(us, place, n) : cell[n] = Shape(us[k])

\* The screen shows these units.
Shown(us, s) ==
    /\ us \in Seq(TextUnit) /\ Sound(s)
    /\ \E place, cell : /\ Laid(us, place, s.cols) /\ Inked(us, place, cell)
                        /\ Drawn(s, place[Len(us) + 1], cell)

\* The cursor's column is that of the end.
LEMMA CursorColumn ==
    ASSUME NEW s, Sound(s), NEW end \in Nat, NEW cell, Drawn(s, end, cell)
    PROVE  end % s.cols = s.col
<1>1. PICK c \in Nat \ {0}, k \in Nat, r \in Nat :
          c = s.cols /\ k = s.col /\ r = s.row /\ k < c
  BY DEF Sound, IsScreen
<1>2. PICK top \in Nat : (top + r) * c + k = end
  BY <1>1 DEF Drawn, DrawnFrom
<1>3. PICK a \in Nat : a = top + r
  OBVIOUS
<1>4. PICK q \in Nat, j \in 0 .. c - 1 : j = end % c /\ end = q * c + j
  BY Division
<1>5. q * c + j = a * c + k /\ k \in 0 .. c - 1
  BY <1>1, <1>2, <1>3, <1>4
<1>6. j = k
  BY <1>5, Unique
<1> QED
  BY <1>1, <1>4, <1>6

\* Behind the last unit all is blank.
LEMMA NothingAfter ==
    ASSUME NEW us \in Seq(TextUnit), NEW cols, NEW place, Laid(us, place, cols),
           NEW cell, Inked(us, place, cell)
    PROVE  /\ place[Len(us) + 1] \in Nat
           /\ \A n \in Nat : n >= place[Len(us) + 1] => cell[n] = Blank
<1>1. Len(us) \in Nat /\ DOMAIN us = 1 .. Len(us)
  BY LenProperties
<1>2. place[Len(us) + 1] \in Nat /\ \A k \in 1 .. Len(us) : place[k] \in Nat
  BY <1>1 DEF Laid
<1>3. ASSUME NEW n \in Nat, n >= place[Len(us) + 1] PROVE cell[n] = Blank
  <2>1. GlyphsAt(us, place, n) = {}
    <3>1. \A k \in 1 .. Len(us) : place[k] # n
      BY <1>2, <1>3 DEF Laid
    <3> QED
      BY <1>1, <3>1 DEF GlyphsAt
  <2> QED
    BY <2>1 DEF Inked
<1> QED
  BY <1>2, <1>3

\* One more unit is laid behind the others.
LEMMA LayOne ==
    ASSUME NEW us \in Seq(TextUnit), NEW u \in TextUnit, NEW cols, NEW place,
           Laid(us, place, cols), NEW w \in Nat \ {0},
           w = Width(u, place[Len(us) + 1] % cols, cols)
    PROVE  \E next : /\ Laid(Append(us, u), next, cols)
                     /\ next[Len(us) + 2] = place[Len(us) + 1] + w
                     /\ \A k \in 1 .. Len(us) + 1 : next[k] = place[k]
<1>1. PICK n \in Nat : n = Len(us)
  BY LenProperties
<1>2. /\ Len(Append(us, u)) = n + 1 /\ Append(us, u)[n + 1] = u
      /\ \A k \in 1 .. n : Append(us, u)[k] = us[k]
  BY <1>1, AppendProperties
<1>3. PICK end \in Nat : end = place[n + 1]
  BY <1>1 DEF Laid
<1> DEFINE next == [k \in 1 .. n + 2 |-> IF k = n + 2 THEN end + w ELSE place[k]]
<1>4. \A k \in 1 .. n + 1 : place[k] \in Nat
  BY <1>1 DEF Laid
<1>5. /\ next \in [1 .. n + 2 -> Nat] /\ next[n + 2] = end + w
      /\ \A k \in 1 .. n + 1 : next[k] = place[k]
  BY <1>4
<1> HIDE DEF next
<1>6. ASSUME NEW k \in 1 .. n + 1
      PROVE  /\ next[k + 1] = next[k] + Width(Append(us, u)[k], next[k] % cols, cols)
             /\ next[k] < next[n + 2]
  <2>1. CASE k = n + 1
    <3>1. next[k] = end /\ next[k + 1] = end + w /\ Append(us, u)[k] = u
      BY <1>2, <1>3, <1>5, <2>1
    <3>2. w = Width(u, end % cols, cols)
      BY <1>1, <1>3
    <3> QED
      BY <1>5, <3>1, <3>2
  <2>2. CASE k # n + 1
    <3>1. k \in 1 .. n /\ k + 1 \in 1 .. n + 1
      BY <2>2
    <3>2. next[k] = place[k] /\ next[k + 1] = place[k + 1] /\ Append(us, u)[k] = us[k]
      BY <1>2, <1>5, <3>1
    <3>3. place[k + 1] = place[k] + Width(us[k], place[k] % cols, cols) /\ place[k] < end
      BY <1>1, <1>3, <3>1 DEF Laid
    <3>4. place[k] \in Nat
      BY <1>4
    <3> QED
      BY <1>5, <3>2, <3>3, <3>4
  <2> QED
    BY <2>1, <2>2
<1>7. next[1] = 0
  BY <1>1, <1>5 DEF Laid
<1>8. (n + 1) + 1 = n + 2
  OBVIOUS
<1>9. Laid(Append(us, u), next, cols)
  BY <1>2, <1>5, <1>6, <1>7, <1>8 DEF Laid
<1> QED
  BY <1>1, <1>3, <1>5, <1>9

\* A newline or a tab puts no glyph anywhere.
LEMMA NoInk ==
    ASSUME NEW us \in Seq(TextUnit), NEW u \in {9, 10}, NEW place, NEW next, NEW cell,
           \A k \in 1 .. Len(us) + 1 : next[k] = place[k], Inked(us, place, cell)
    PROVE  Inked(Append(us, u), next, cell)
<1>1. /\ Len(us) \in Nat /\ DOMAIN us = 1 .. Len(us) /\ u \in TextUnit
  BY LenProperties DEF TextUnit
<1>2. /\ Append(us, u) \in Seq(TextUnit)
      /\ Len(Append(us, u)) = Len(us) + 1 /\ Append(us, u)[Len(us) + 1] = u
      /\ \A k \in 1 .. Len(us) : Append(us, u)[k] = us[k]
  BY <1>1, AppendProperties
<1>3. DOMAIN Append(us, u) = 1 .. Len(us) + 1
  BY <1>2, LenProperties
<1>4. ASSUME NEW n \in Nat
      PROVE  GlyphsAt(Append(us, u), next, n) = GlyphsAt(us, place, n)
  <2>1. ASSUME NEW k PROVE k \in GlyphsAt(Append(us, u), next, n) <=> k \in GlyphsAt(us, place, n)
    <3>1. CASE k \in 1 .. Len(us)
      BY <1>1, <1>2, <1>3, <3>1 DEF GlyphsAt
    <3>2. CASE k \notin 1 .. Len(us)
      BY <1>1, <1>2, <1>3, <3>2 DEF GlyphsAt
    <3> QED
      BY <3>1, <3>2
  <2> QED
    BY <2>1
<1>5. ASSUME NEW n \in Nat, NEW k \in GlyphsAt(us, place, n)
      PROVE  Append(us, u)[k] = us[k]
  BY <1>1, <1>2 DEF GlyphsAt
<1>6. ASSUME NEW n \in Nat
      PROVE  /\ GlyphsAt(Append(us, u), next, n) = {} => cell[n] = Blank
             /\ \A k \in GlyphsAt(Append(us, u), next, n) : cell[n] = Shape(Append(us, u)[k])
  <2>1. /\ GlyphsAt(us, place, n) = {} => cell[n] = Blank
        /\ \A k \in GlyphsAt(us, place, n) : cell[n] = Shape(us[k])
    BY DEF Inked
  <2>2. \A k \in GlyphsAt(us, place, n) : Append(us, u)[k] = us[k]
    BY <1>5
  <2>3. GlyphsAt(Append(us, u), next, n) = GlyphsAt(us, place, n)
    BY <1>4
  <2> QED
    BY <2>1, <2>2, <2>3
<1> QED
  BY <1>6, Zenon DEF Inked

\* What draws blanks as wide as the unit u shows one u more.
LEMMA ShownBlank ==
    ASSUME NEW us, NEW s, Shown(us, s), NEW u \in {9, 10}, NEW t, Keeps(s, t),
           NEW w, w = Width(u, s.col, s.cols), w # 0,
           \A end \in Nat : \A cell :
               Drawn(s, end, cell) /\ (\A n \in Nat : n >= end => cell[n] = Blank)
                   => end + w \in Nat /\ Drawn(t, end + w, cell),
           w \in Nat
    PROVE  Shown(Append(us, u), t)
<1>1. PICK place, cell : /\ Laid(us, place, s.cols) /\ Inked(us, place, cell)
                         /\ Drawn(s, place[Len(us) + 1], cell)
  BY DEF Shown
<1>2. us \in Seq(TextUnit) /\ Sound(s) /\ u \in TextUnit
  BY DEF Shown, TextUnit
<1>3. /\ place[Len(us) + 1] \in Nat
      /\ \A n \in Nat : n >= place[Len(us) + 1] => cell[n] = Blank
  BY <1>1, <1>2, NothingAfter
<1>4. place[Len(us) + 1] % s.cols = s.col
  BY <1>1, <1>2, <1>3, CursorColumn
<1>5. PICK next : /\ Laid(Append(us, u), next, s.cols)
                  /\ next[Len(us) + 2] = place[Len(us) + 1] + w
                  /\ \A k \in 1 .. Len(us) + 1 : next[k] = place[k]
  <2>1. w = Width(u, place[Len(us) + 1] % s.cols, s.cols)
    BY <1>4
  <2> QED
    BY <1>1, <1>2, <2>1, LayOne
<1>6. Inked(Append(us, u), next, cell)
  BY <1>1, <1>2, <1>5, NoInk
<1>7. Drawn(t, place[Len(us) + 1] + w, cell)
  BY <1>1, <1>3
<1>8. Append(us, u) \in Seq(TextUnit) /\ Len(Append(us, u)) + 1 = Len(us) + 2
  <2>1. Append(us, u) \in Seq(TextUnit) /\ Len(Append(us, u)) = Len(us) + 1 /\ Len(us) \in Nat
    BY <1>2, AppendProperties, LenProperties
  <2> QED
    BY <2>1
<1>9. Sound(t) /\ t.cols = s.cols
  BY DEF Keeps, SameSize
<1>10. /\ Laid(Append(us, u), next, t.cols)
       /\ Drawn(t, next[Len(Append(us, u)) + 1], cell)
  BY <1>5, <1>7, <1>8, <1>9
<1> QED
  BY <1>6, <1>8, <1>9, <1>10, Zenon DEF Shown

\* A newline shows one newline more.
LEMMA ShownNewline ==
    ASSUME NEW us, NEW s, Shown(us, s)
    PROVE  Shown(Append(us, 10), raw_newline(s))
<1>1. Sound(s)
  BY DEF Shown
<1>2. PICK w \in Nat \ {0} : w = s.cols - s.col
  BY <1>1 DEF Sound, IsScreen
<1>3. w = Width(10, s.col, s.cols)
  BY <1>2 DEF Width
<1>4. \A end \in Nat : \A cell :
          Drawn(s, end, cell) /\ (\A n \in Nat : n >= end => cell[n] = Blank)
              => end + w \in Nat /\ Drawn(raw_newline(s), end + w, cell)
  <2> SUFFICES ASSUME NEW end \in Nat, NEW cell, Drawn(s, end, cell),
                      \A n \in Nat : n >= end => cell[n] = Blank
               PROVE  end + w \in Nat /\ Drawn(raw_newline(s), end + w, cell)
    OBVIOUS
  <2>1. /\ end + (s.cols - s.col) \in Nat
        /\ Drawn(raw_newline(s), end + (s.cols - s.col), cell)
    BY <1>1, NewlineDraws
  <2> QED
    BY <1>2, <2>1, Zenon
<1>5. Keeps(s, raw_newline(s))
  BY <1>1, NewlineKeeps
<1> QED
  BY <1>2, <1>3, <1>4, <1>5, ShownBlank

\* A tab shows one tab more.
LEMMA ShownTab ==
    ASSUME NEW us, NEW s, Shown(us, s)
    PROVE  Shown(Append(us, 9), PutTab(s))
<1>1. Sound(s)
  BY DEF Shown
<1>2. PICK w \in Nat \ {0} : w = 4 - (s.col % 4)
  BY <1>1 DEF Sound, IsScreen
<1>3. w = Width(9, s.col, s.cols)
  BY <1>2 DEF Width
<1>4. \A end \in Nat : \A cell :
          Drawn(s, end, cell) /\ (\A n \in Nat : n >= end => cell[n] = Blank)
              => end + w \in Nat /\ Drawn(PutTab(s), end + w, cell)
  <2> SUFFICES ASSUME NEW end \in Nat, NEW cell, Drawn(s, end, cell),
                      \A n \in Nat : n >= end => cell[n] = Blank
               PROVE  end + w \in Nat /\ Drawn(PutTab(s), end + w, cell)
    OBVIOUS
  <2>1. /\ end + (4 - (s.col % 4)) \in Nat
        /\ Drawn(PutTab(s), end + (4 - (s.col % 4)), cell)
    BY <1>1, TabDraws
  <2> QED
    BY <1>2, <2>1, Zenon
<1>5. Keeps(s, PutTab(s))
  BY <1>1, TabKeeps
<1> QED
  BY <1>2, <1>3, <1>4, <1>5, ShownBlank

\* A glyph shows one glyph more (console.c:277-287).
LEMMA ShownGlyph ==
    ASSUME NEW us, NEW s, Shown(us, s), NEW u \in 32 .. 127
    PROVE  Shown(Append(us, u), raw_put_visible(s, Shape(u)))
<1>1. PICK place, cell : /\ Laid(us, place, s.cols) /\ Inked(us, place, cell)
                         /\ Drawn(s, place[Len(us) + 1], cell)
  BY DEF Shown
<1>2. us \in Seq(TextUnit) /\ Sound(s) /\ u \in TextUnit
  BY DEF Shown, TextUnit
<1>3. /\ place[Len(us) + 1] \in Nat
      /\ \A n \in Nat : n >= place[Len(us) + 1] => cell[n] = Blank
  BY <1>1, <1>2, NothingAfter
<1>4. PICK len \in Nat, end \in Nat : len = Len(us) /\ end = place[len + 1]
  BY <1>2, <1>3, LenProperties
<1>5. PICK next : /\ Laid(Append(us, u), next, s.cols)
                  /\ next[len + 2] = end + 1
                  /\ \A k \in 1 .. len + 1 : next[k] = place[k]
  <2>1. 1 = Width(u, place[Len(us) + 1] % s.cols, s.cols) /\ 1 \in Nat \ {0}
    <3>1. u # 10 /\ u # 9
      OBVIOUS
    <3> QED
      BY <3>1 DEF Width
  <2>2. \E next : /\ Laid(Append(us, u), next, s.cols)
                  /\ next[Len(us) + 2] = place[Len(us) + 1] + 1
                  /\ \A k \in 1 .. Len(us) + 1 : next[k] = place[k]
    BY <1>1, <1>2, <2>1, LayOne
  <2> QED
    BY <1>4, <2>2
<1> DEFINE new == [n \in Nat |-> IF n = end THEN Shape(u) ELSE cell[n]]
<1>6. /\ \A n \in Nat : n > end => new[n] = Blank
      /\ new[end] = Shape(u) /\ \A n \in Nat : n # end => new[n] = cell[n]
  BY <1>3, <1>4
<1> HIDE DEF new
<1>7. Drawn(raw_put_visible(s, Shape(u)), end + 1, new)
  <2>1. Drawn(s, end, cell)
    BY <1>1, <1>4
  <2> QED
    BY <1>2, <1>6, <2>1, PutDraws
<1>8. /\ Append(us, u) \in Seq(TextUnit)
      /\ Len(Append(us, u)) = len + 1 /\ Append(us, u)[len + 1] = u
      /\ \A k \in 1 .. len : Append(us, u)[k] = us[k]
  BY <1>2, <1>4, AppendProperties
<1>9. DOMAIN us = 1 .. len /\ DOMAIN Append(us, u) = 1 .. len + 1
  BY <1>2, <1>4, <1>8, LenProperties
<1>10. \A k \in 1 .. len : next[k] = place[k] /\ place[k] \in Nat /\ place[k] < end
  BY <1>1, <1>4, <1>5 DEF Laid
<1>11. next[len + 1] = end
  BY <1>4, <1>5
<1>12. ASSUME NEW n \in Nat
       PROVE  /\ GlyphsAt(Append(us, u), next, n) = {} => new[n] = Blank
              /\ \A k \in GlyphsAt(Append(us, u), next, n) : new[n] = Shape(Append(us, u)[k])
  <2>1. CASE n = end
    <3>1. ASSUME NEW k \in GlyphsAt(Append(us, u), next, n) PROVE k = len + 1
      <4>1. k \in 1 .. len + 1 /\ next[k] = end
        BY <1>9, <2>1 DEF GlyphsAt
      <4>2. k \notin 1 .. len
        BY <1>10, <4>1
      <4> QED
        BY <4>1, <4>2
    <3>2. len + 1 \in GlyphsAt(Append(us, u), next, n)
      BY <1>8, <1>9, <1>11, <2>1 DEF GlyphsAt
    <3> QED
      BY <1>6, <1>8, <2>1, <3>1, <3>2
  <2>2. CASE n # end
    <3>1. ASSUME NEW k
          PROVE  k \in GlyphsAt(Append(us, u), next, n) <=> k \in GlyphsAt(us, place, n)
      <4>1. CASE k \in 1 .. len
        BY <1>8, <1>9, <1>10, <4>1 DEF GlyphsAt
      <4>2. CASE k \notin 1 .. len
        BY <1>9, <1>11, <2>2, <4>2 DEF GlyphsAt
      <4> QED
        BY <4>1, <4>2
    <3>2. GlyphsAt(Append(us, u), next, n) = GlyphsAt(us, place, n)
      BY <3>1
    <3>3. \A k \in GlyphsAt(us, place, n) : Append(us, u)[k] = us[k]
      BY <1>8, <1>9 DEF GlyphsAt
    <3>4. /\ GlyphsAt(us, place, n) = {} => cell[n] = Blank
          /\ \A k \in GlyphsAt(us, place, n) : cell[n] = Shape(us[k])
      BY <1>1 DEF Inked
    <3> QED
      BY <1>6, <2>2, <3>2, <3>3, <3>4
  <2> QED
    BY <2>1, <2>2
<1>13. Inked(Append(us, u), next, new)
  BY <1>12 DEF Inked
<1>14. Sound(raw_put_visible(s, Shape(u))) /\ raw_put_visible(s, Shape(u)).cols = s.cols
  BY <1>2, PutKeeps DEF Keeps, SameSize
<1>15. Len(Append(us, u)) + 1 = len + 2
  BY <1>8
<1> QED
  BY <1>5, <1>7, <1>8, <1>13, <1>14, <1>15, Zenon DEF Shown

\* An empty screen shows no units.
LEMMA ShownFresh ==
    ASSUME NEW rows \in Nat \ {0}, NEW cols \in Nat \ {0}
    PROVE  Shown(<<>>, FreshScreen(rows, cols))
<1> DEFINE s == FreshScreen(rows, cols)
           place == [k \in 1 .. 1 |-> 0]
           cell == [n \in Nat |-> Blank]
<1>1. /\ s.rows = rows /\ s.cols = cols /\ s.row = 0 /\ s.col = 0
      /\ s.cells = [p \in Cells(rows, cols) |-> Blank]
  BY DEF FreshScreen
<1>2. Sound(s)
  BY DEF FreshScreen, Sound, IsScreen
<1>3. <<>> \in Seq(TextUnit) /\ Len(<<>>) = 0 /\ DOMAIN <<>> = {}
  BY EmptySeq
<1>4. Laid(<<>>, place, s.cols)
  BY <1>3 DEF Laid
<1>5. Inked(<<>>, place, cell)
  BY <1>3 DEF Inked, GlyphsAt
<1> HIDE DEF s
<1>6. Drawn(s, 0, cell)
  <2>1. Gridded(s)
    BY <1>1 DEF Gridded
  <2>2. ASSUME NEW i \in 0 .. s.rows - 1, NEW j \in 0 .. s.cols - 1
        PROVE  s.cells[<<i, j>>] = cell[(0 + i) * s.cols + j]
    <3>1. (0 + i) * s.cols + j \in Nat
      BY <1>1
    <3>2. <<i, j>> \in Cells(rows, cols)
      BY <1>1 DEF Cells
    <3> QED
      BY <1>1, <3>1, <3>2
  <2> HIDE DEF cell
  <2>3. DrawnFrom(s, 0, 0, cell)
    <3>1. (0 + s.row) * s.cols + s.col = 0
      BY <1>1
    <3> QED
      BY <2>2, <3>1 DEF DrawnFrom
  <2> QED
    BY <2>1, <2>3 DEF Drawn
<1>7. place[Len(<<>>) + 1] = 0
  BY <1>3
<1> HIDE DEF place, cell
<1> QED
  BY <1>2, <1>3, <1>4, <1>5, <1>6, <1>7 DEF Shown, s

-----------------------------------------------------------------------------
(* A screen that shows the units of the text is what the reference says.   *)

\* The places are those the reference computes.
LEMMA PlacesAre ==
    ASSUME NEW us \in Seq(TextUnit), NEW cols, NEW place, Laid(us, place, cols)
    PROVE  Places(us, cols) = place
<1> DEFINE Turn(f, k) == IF k = 1 THEN 0
                         ELSE f[k - 1] + Width(us[k - 1], f[k - 1] % cols, cols)
           Turns(f) == [k \in 1 .. Len(us) + 1 |-> Turn(f, k)]
           found == CHOOSE f : f = Turns(f)
<1>1. PICK n \in Nat : n = Len(us)
  BY LenProperties
<1>2. place = Turns(place)
  <2>1. ASSUME NEW k \in 1 .. n + 1 PROVE place[k] = Turn(place, k)
    <3>1. CASE k = 1
      BY <3>1 DEF Laid
    <3>2. CASE k # 1
      <4>1. PICK i \in 1 .. n : i = k - 1 /\ i + 1 = k
        BY <3>2
      <4>2. place[i + 1] = place[i] + Width(us[i], place[i] % cols, cols)
        BY <1>1 DEF Laid
      <4> QED
        BY <3>2, <4>1, <4>2
    <3> QED
      BY <3>1, <3>2
  <2>2. place = [k \in 1 .. n + 1 |-> place[k]]
    BY <1>1 DEF Laid
  <2> HIDE DEF Turn
  <2>3. [k \in 1 .. n + 1 |-> place[k]] = [k \in 1 .. n + 1 |-> Turn(place, k)]
    BY <2>1
  <2> QED
    BY <1>1, <2>2, <2>3, Zenon
<1>3. found = Turns(found)
  BY <1>2, Zenon
<1>4. Places(us, cols) = found
  BY Zenon DEF Places
<1> HIDE DEF found
<1> DEFINE good == {m \in Nat : m < n + 1 => found[m + 1] = place[m + 1]}
<1>5. \A k \in 1 .. n + 1 : found[k] = Turn(found, k) /\ place[k] = Turn(place, k)
  BY <1>1, <1>2, <1>3
<1>6. 0 \in good
  BY <1>5
<1>7. ASSUME NEW m \in Nat \ {0}, m - 1 \in good PROVE m \in good
  <2> SUFFICES ASSUME m < n + 1 PROVE found[m + 1] = place[m + 1]
    OBVIOUS
  <2>1. found[m] = place[m]
    BY <1>7
  <2>2. m + 1 \in 1 .. n + 1 /\ m + 1 # 1 /\ (m + 1) - 1 = m
    OBVIOUS
  <2>3. Turn(found, m + 1) = Turn(place, m + 1)
    BY <2>1, <2>2
  <2> HIDE DEF Turn
  <2> QED
    BY <1>5, <2>2, <2>3
<1>8. Nat \subseteq good
  <2> HIDE DEF good
  <2> QED
    BY <1>6, <1>7, Climb
<1>9. \A k \in 1 .. n + 1 : found[k] = place[k]
  <2> SUFFICES ASSUME NEW k \in 1 .. n + 1 PROVE found[k] = place[k]
    OBVIOUS
  <2>1. k - 1 \in good /\ k - 1 < n + 1 /\ (k - 1) + 1 = k
    BY <1>8
  <2> QED
    BY <2>1
<1>10. found = [k \in 1 .. n + 1 |-> found[k]] /\ place = [k \in 1 .. n + 1 |-> place[k]]
  <2> HIDE DEF Turn
  <2>1. /\ found = [k \in 1 .. n + 1 |-> Turn(found, k)]
        /\ place = [k \in 1 .. n + 1 |-> Turn(place, k)]
    BY <1>1, <1>2, <1>3, Zenon
  <2> QED
    BY <2>1
<1> QED
  BY <1>4, <1>9, <1>10

\* Where the screen starts follows from where the text ends.
LEMMA TopIs ==
    ASSUME NEW s, Sound(s), NEW top \in Nat, NEW end \in Nat,
           top = 0 \/ s.row = s.rows - 1, (top + s.row) * s.cols + s.col = end
    PROVE  /\ end \div s.cols = top + s.row /\ end % s.cols = s.col
           /\ (IF end \div s.cols < s.rows THEN 0 ELSE end \div s.cols - s.rows + 1) = top
<1>1. PICK c \in Nat \ {0}, k \in Nat, r \in Nat, rows \in Nat \ {0} :
          c = s.cols /\ k = s.col /\ r = s.row /\ rows = s.rows /\ k < c /\ r < rows
  BY DEF Sound, IsScreen
<1>2. PICK a \in Nat : a = top + r
  OBVIOUS
<1>3. PICK q \in Nat, j \in 0 .. c - 1 : q = end \div c /\ j = end % c /\ end = q * c + j
  BY Division
<1>4. q * c + j = a * c + k /\ k \in 0 .. c - 1
  BY <1>1, <1>2, <1>3
<1>5. q = a /\ j = k
  BY <1>4, Unique
<1>6. end \div s.cols = a /\ end % s.cols = k
  BY <1>1, <1>3, <1>5
<1>7. (IF a < rows THEN 0 ELSE a - rows + 1) = top
  BY <1>1, <1>2
<1> QED
  BY <1>1, <1>2, <1>6, <1>7

\* A screen that shows the units of the text shows the text.
LEMMA ShownReads ==
    ASSUME Shown(Units(shown), screen)
    PROVE  ScreenShowsText
<1> DEFINE us == Units(shown)
<1>1. PICK place, cell : /\ Laid(us, place, screen.cols) /\ Inked(us, place, cell)
                         /\ Drawn(screen, place[Len(us) + 1], cell)
  BY DEF Shown
<1>2. us \in Seq(TextUnit) /\ Sound(screen)
  BY DEF Shown
<1> HIDE DEF us
<1>3. PICK end \in Nat : end = place[Len(us) + 1]
  BY <1>1, <1>2, NothingAfter
<1>4. Places(us, screen.cols) = place
  BY <1>1, <1>2, PlacesAre
<1>5. PICK top \in Nat : /\ top = 0 \/ screen.row = screen.rows - 1
                         /\ DrawnFrom(screen, top, end, cell)
  BY <1>1, <1>3 DEF Drawn
<1> DEFINE last == end \div screen.cols
           first == IF last < screen.rows THEN 0 ELSE last - screen.rows + 1
<1>6. last = top + screen.row /\ end % screen.cols = screen.col /\ first = top
  BY <1>2, <1>5, TopIs DEF DrawnFrom
<1> HIDE DEF first, last
<1>7. screen.row = last - first /\ screen.col = end % screen.cols
  BY <1>2, <1>6 DEF Sound, IsScreen
<1>8. ASSUME NEW p \in DOMAIN screen.cells
      PROVE  LET here == GlyphsAt(us, place, (first + p[1]) * screen.cols + p[2])
             IN  IF here = {} THEN screen.cells[p] = Blank
                 ELSE \A k \in here : screen.cells[p] = Shape(us[k])
  <2>1. /\ p[1] \in 0 .. screen.rows - 1 /\ p[2] \in 0 .. screen.cols - 1
        /\ p = <<p[1], p[2]>>
    BY <1>1, Grid DEF Drawn
  <2>2. PICK n \in Nat : n = (top + p[1]) * screen.cols + p[2]
    <3>1. PICK c \in Nat, i \in Nat, j \in Nat : c = screen.cols /\ i = p[1] /\ j = p[2]
      BY <1>2, <2>1 DEF Sound, IsScreen
    <3>2. (top + i) * c + j \in Nat
      OBVIOUS
    <3> QED
      BY <3>1, <3>2
  <2>3. screen.cells[p] = cell[n]
    BY <1>5, <2>1, <2>2 DEF DrawnFrom
  <2>4. /\ GlyphsAt(us, place, n) = {} => cell[n] = Blank
        /\ \A k \in GlyphsAt(us, place, n) : cell[n] = Shape(us[k])
    BY <1>1 DEF Inked
  <2> QED
    BY <1>6, <2>2, <2>3, <2>4
<1> QED
  BY <1>3, <1>4, <1>7, <1>8, Zenon DEF ScreenShowsText, us, first, last

-----------------------------------------------------------------------------
(* The units of a text, one after another.                                 *)

\* Texts of bytes.
Text == Seq(0 .. 255)

\* What the least element is.
LEMMA MinIs ==
    ASSUME NEW S, S \subseteq Nat, NEW e \in S, \A d \in S : e <= d
    PROVE  Min(S) = e
<1>1. \A x \in S : (\A y \in S : x <= y) => x = e
  OBVIOUS
<1> QED
  BY <1>1 DEF Min

\* A unit ends within the text, and not before it starts.
LEMMA EndsAfter ==
    ASSUME NEW t \in Text, NEW i \in 1 .. Len(t)
    PROVE  Ends(t, i) \subseteq i .. Len(t)
<1>1. Len(t) \in Nat
  BY LenProperties DEF Text
<1> QED
  BY <1>1 DEF Ends

\* A unit that ends does so at one place.
LEMMA EndIsLeast ==
    ASSUME NEW t \in Text, NEW i \in 1 .. Len(t), Ends(t, i) # {}
    PROVE  /\ Min(Ends(t, i)) \in Ends(t, i) /\ Min(Ends(t, i)) \in i .. Len(t)
           /\ Min(Ends(t, i)) + 1 \in i + 1 .. Len(t) + 1
<1>1. Len(t) \in Nat
  BY LenProperties DEF Text
<1>2. Ends(t, i) \subseteq Nat
  BY <1>1, EndsAfter
<1>3. PICK e \in Ends(t, i) : \A d \in Ends(t, i) : e <= d
  BY <1>2, Least
<1>4. Min(Ends(t, i)) = e
  BY <1>2, <1>3, MinIs
<1>5. e \in i .. Len(t)
  BY EndsAfter
<1> QED
  BY <1>1, <1>4, <1>5

\* A unit is a sequence of numbers.
LEMMA UnitIsSeq ==
    ASSUME NEW t \in Text, NEW i \in 1 .. Len(t), NEW e
    PROVE  Unit(t, i, e) \in Seq(Int)
<1>1. t[i] \in Int /\ OtherEffect \in Int /\ 63 \in Int
  <2>1. PICK c \in 0 .. 255 : c = t[i]
    BY LenProperties DEF Text
  <2>2. OtherEffect \in Int
    BY DEF OtherEffect
  <2>3. t[i] \in Int
    BY <2>1
  <2> QED
    BY <2>2, <2>3
<1> DEFINE o == OtherEffect
           c == t[i]
<1>2. <<o>> \in Seq(Int) /\ <<63>> \in Seq(Int) /\ <<c>> \in Seq(Int) /\ <<>> \in Seq(Int)
  <2> HIDE DEF o, c
  <2>1. \A x \in Int : <<x>> \in Seq(Int)
    OBVIOUS
  <2> QED
    BY <1>1, <2>1, EmptySeq DEF o, c
<1>3. Unit(t, i, e) \in {<<o>>, <<63>>, <<c>>, <<>>}
  BY DEF Unit
<1> QED
  BY <1>2, <1>3

\* What a text shows from a unit's start on: the unit, if it has ended, and
\* what is after it.
LEMMA UnitsLoop ==
    ASSUME NEW t \in Text
    PROVE  \A i \in 1 .. Len(t) + 1 :
               /\ UnitsFrom(t, i) \in Seq(Int)
               /\ UnitsFrom(t, i) =
                      IF i > Len(t) \/ Ends(t, i) = {} THEN <<>>
                      ELSE Unit(t, i, Min(Ends(t, i))) \o UnitsFrom(t, Min(Ends(t, i)) + 1)
<1> DEFINE Turn(f, i) == IF i > Len(t) \/ Ends(t, i) = {} THEN <<>>
                         ELSE Unit(t, i, Min(Ends(t, i))) \o f[Min(Ends(t, i)) + 1]
           Turns(f, j) == [i \in j .. Len(t) + 1 |-> Turn(f, i)]
<1>1. PICK n \in Nat : n = Len(t)
  BY LenProperties DEF Text
<1>a. ASSUME NEW i \in 1 .. n, Ends(t, i) # {}
      PROVE  Min(Ends(t, i)) + 1 \in i + 1 .. n + 1
  BY <1>1, <1>a, EndIsLeast
<1> DEFINE good == {m \in Nat : m < n + 1 => \E f : f = Turns(f, n + 1 - m)}
<1>2. 0 \in good
  <2> DEFINE f == [i \in n + 1 .. n + 1 |-> <<>>]
  <2>1. \A i \in n + 1 .. n + 1 : Turn(f, i) = <<>>
    BY <1>1
  <2>2. f = Turns(f, n + 1 - 0)
    <3> HIDE DEF Turn
    <3>1. n + 1 - 0 = n + 1
      OBVIOUS
    <3>2. Turns(f, n + 1) = [i \in n + 1 .. n + 1 |-> Turn(f, i)]
      BY <1>1
    <3>3. f = [i \in n + 1 .. n + 1 |-> Turn(f, i)]
      BY <2>1
    <3> HIDE DEF f, Turns
    <3> QED
      BY <3>1, <3>2, <3>3
  <2> HIDE DEF f, Turn, Turns
  <2> QED
    BY <2>2
<1>3. ASSUME NEW m \in Nat \ {0}, m - 1 \in good PROVE m \in good
  <2> SUFFICES ASSUME m < n + 1 PROVE \E f : f = Turns(f, n + 1 - m)
    OBVIOUS
  <2>1. PICK j \in 1 .. n : j = n + 1 - m /\ n + 1 - (m - 1) = j + 1
    OBVIOUS
  <2>2. PICK g : g = Turns(g, j + 1)
    <3> HIDE DEF Turns
    <3>1. m - 1 < n + 1
      OBVIOUS
    <3>2. \E g : g = Turns(g, n + 1 - (m - 1))
      BY <1>3, <3>1
    <3> QED
      BY <2>1, <3>2
  <2> DEFINE f == [i \in j .. n + 1 |-> IF i = j THEN Turn(g, j) ELSE g[i]]
  <2>3. ASSUME NEW i \in j .. n + 1 PROVE f[i] = Turn(f, i)
    <3>1. \A k \in j + 1 .. n + 1 : f[k] = g[k]
      OBVIOUS
    <3>2. Turn(f, i) = Turn(g, i)
      <4>1. CASE i > n \/ Ends(t, i) = {}
        BY <1>1, <4>1
      <4>2. CASE ~ (i > n \/ Ends(t, i) = {})
        <5>1. i \in 1 .. n
          BY <4>2
        <5>2. Min(Ends(t, i)) + 1 \in j + 1 .. n + 1
          BY <1>a, <4>2, <5>1
        <5> HIDE DEF f
        <5> QED
          BY <1>1, <3>1, <4>2, <5>2
      <4> QED
        BY <4>1, <4>2
    <3>3. i # j => f[i] = Turn(g, i)
      <4>1. i # j => i \in j + 1 .. n + 1
        OBVIOUS
      <4> HIDE DEF Turn
      <4> QED
        BY <1>1, <2>2, <3>1, <4>1
    <3>4. i = j => f[i] = Turn(g, i)
      OBVIOUS
    <3> HIDE DEF f, Turn
    <3> QED
      BY <3>2, <3>3, <3>4
  <2>4. f = Turns(f, j)
    <3>1. f = [i \in j .. n + 1 |-> f[i]]
      OBVIOUS
    <3> HIDE DEF f, Turn
    <3> QED
      BY <1>1, <2>3, <3>1
  <2> HIDE DEF f, Turn, Turns
  <2> QED
    BY <2>1, <2>4
<1>4. \E f : f = Turns(f, 1)
  <2> HIDE DEF good, Turns
  <2>1. n \in good
    BY <1>2, <1>3, Climb
  <2>2. n < n + 1 /\ n + 1 - n = 1
    OBVIOUS
  <2> QED
    BY <2>1, <2>2 DEF good
<1> DEFINE found == CHOOSE f : f = Turns(f, 1)
<1>5. found = Turns(found, 1)
  BY <1>4, Zenon
<1>6. \A i : UnitsFrom(t, i) = found[i]
  BY Zenon DEF UnitsFrom
<1> HIDE DEF found
<1>7. \A i \in 1 .. n + 1 : found[i] = Turn(found, i)
  <2> HIDE DEF Turn
  <2> QED
    BY <1>1, <1>5
<1>8. \A i \in 1 .. n + 1 : UnitsFrom(t, i) =
          IF i > n \/ Ends(t, i) = {} THEN <<>>
          ELSE Unit(t, i, Min(Ends(t, i))) \o UnitsFrom(t, Min(Ends(t, i)) + 1)
  BY <1>1, <1>6, <1>7
<1> HIDE DEF good
<1> DEFINE fine == {m \in Nat : \A i \in 1 .. n + 1 : n + 1 - i <= m => UnitsFrom(t, i) \in Seq(Int)}
<1>9. 0 \in fine
  <2>1. UnitsFrom(t, n + 1) \in Seq(Int)
    <3>1. UnitsFrom(t, n + 1) = <<>>
      BY <1>8
    <3> QED
      BY <3>1, EmptySeq
  <2>2. \A i \in 1 .. n + 1 : n + 1 - i <= 0 => i = n + 1
    OBVIOUS
  <2> QED
    BY <2>1, <2>2
<1>10. ASSUME NEW m \in Nat \ {0}, m - 1 \in fine PROVE m \in fine
  <2> SUFFICES ASSUME NEW i \in 1 .. n + 1, n + 1 - i <= m
               PROVE  UnitsFrom(t, i) \in Seq(Int)
    OBVIOUS
  <2>1. CASE i > n \/ Ends(t, i) = {}
    <3>1. UnitsFrom(t, i) = <<>>
      BY <1>8, <2>1
    <3> QED
      BY <3>1, EmptySeq
  <2>2. CASE ~ (i > n \/ Ends(t, i) = {})
    <3>1. i \in 1 .. n
      BY <2>2
    <3>2. PICK e \in i + 1 .. n + 1 : e = Min(Ends(t, i)) + 1
      BY <1>a, <2>2, <3>1
    <3>3. e \in 1 .. n + 1 /\ n + 1 - e <= m - 1
      BY <3>1, <3>2
    <3>4. UnitsFrom(t, e) \in Seq(Int)
      BY <1>10, <3>3
    <3>5. Unit(t, i, Min(Ends(t, i))) \in Seq(Int)
      BY <1>1, <3>1, UnitIsSeq
    <3>6. UnitsFrom(t, i) = Unit(t, i, Min(Ends(t, i))) \o UnitsFrom(t, e)
      BY <1>8, <2>2, <3>2
    <3> QED
      BY <3>4, <3>5, <3>6, ConcatProperties
  <2> QED
    BY <2>1, <2>2
<1>11. \A i \in 1 .. n + 1 : UnitsFrom(t, i) \in Seq(Int)
  <2>1. n \in fine
    <3> HIDE DEF fine
    <3> QED
      BY <1>9, <1>10, Climb
  <2>2. \A i \in 1 .. n + 1 : n + 1 - i <= n
    OBVIOUS
  <2> QED
    BY <2>1, <2>2
<1> QED
  BY <1>1, <1>8, <1>11

-----------------------------------------------------------------------------
(* What the parser and the decoder have read of the last unit.             *)

\* A text and its continuations.
Extends(s, t) == Len(t) <= Len(s) /\ \A j \in 1 .. Len(t) : s[j] = t[j]

\* However t goes on, it shows these units and then those from i on.
Begins(t, us, i) == \A s \in Text : Extends(s, t) => Units(s) = us \o UnitsFrom(s, i)

\* What the parser and the decoder have read of the unit that starts at i,
\* the last one.
Reading(t, i, state, needed) ==
    \/ /\ state = "GROUND" /\ needed = 0 /\ i = Len(t) + 1
    \/ /\ state = "ESC" /\ needed = 0 /\ i = Len(t) /\ t[i] = 27
    \/ /\ state = "CSI" /\ needed = 0 /\ i + 1 <= Len(t) /\ t[i] = 27 /\ t[i + 1] = 91
       /\ \A j \in i + 2 .. Len(t) : t[j] \in 48 .. 57 \cup {59}
    \/ /\ state = "GROUND" /\ needed > 0 /\ i <= Len(t) /\ Following(t[i]) > 0
       /\ needed = Following(t[i]) - (Len(t) - i)
       /\ \A j \in i + 1 .. Len(t) : t[j] \in 128 .. 191

\* The screen shows the units of t that have ended, and the parser and the
\* decoder have read the last one.
Follows(t, state, needed, scr) ==
    \E us \in Seq(TextUnit), i \in 1 .. Len(t) + 1 :
        Begins(t, us, i) /\ Reading(t, i, state, needed) /\ Shown(us, scr)

\* What a text is.
LEMMA TextByte ==
    ASSUME NEW t \in Text
    PROVE  /\ Len(t) \in Nat
           /\ \A i \in 1 .. Len(t) : t[i] \in 0 .. 255
           /\ Extends(t, t)
<1>1. Len(t) \in Nat /\ t \in [1 .. Len(t) -> 0 .. 255]
  BY LenProperties DEF Text
<1>2. Extends(t, t)
  BY <1>1 DEF Extends
<1> QED
  BY <1>1, <1>2

\* Lead bytes are above 0xBF.
LEMMA FollowingIs ==
    ASSUME NEW c \in 0 .. 255
    PROVE  /\ Following(c) \in 0 .. 3
           /\ Following(c) > 0 => c >= 128 /\ c # 27
           /\ c < 192 => Following(c) = 0
  BY DEF Following

\* A text and one byte more.
LEMMA TextGrows ==
    ASSUME NEW t \in Text, NEW b \in 0 .. 255
    PROVE  /\ Append(t, b) \in Text /\ Len(Append(t, b)) = Len(t) + 1
           /\ Append(t, b)[Len(t) + 1] = b /\ \A j \in 1 .. Len(t) : Append(t, b)[j] = t[j]
           /\ \A s \in Text : Extends(s, Append(t, b)) =>
                  /\ Extends(s, t) /\ Len(t) + 1 <= Len(s) /\ s[Len(t) + 1] = b
                  /\ \A j \in 1 .. Len(t) : s[j] = t[j]
<1>1. /\ Append(t, b) \in Text /\ Len(Append(t, b)) = Len(t) + 1
      /\ Append(t, b)[Len(t) + 1] = b /\ \A j \in 1 .. Len(t) : Append(t, b)[j] = t[j]
  BY AppendProperties DEF Text
<1>2. Len(t) \in Nat
  BY TextByte
<1>3. ASSUME NEW s \in Text, Extends(s, Append(t, b))
      PROVE  /\ Extends(s, t) /\ Len(t) + 1 <= Len(s) /\ s[Len(t) + 1] = b
             /\ \A j \in 1 .. Len(t) : s[j] = t[j]
  <2>1. Len(s) \in Nat /\ Len(t) + 1 <= Len(s)
    BY <1>1, <1>3, TextByte DEF Extends
  <2>2. \A j \in 1 .. Len(t) + 1 : s[j] = Append(t, b)[j]
    BY <1>1, <1>3 DEF Extends
  <2>3. s[Len(t) + 1] = b /\ \A j \in 1 .. Len(t) : s[j] = t[j]
    BY <1>1, <1>2, <2>2
  <2>4. Len(t) <= Len(s)
    BY <1>2, <2>1
  <2> QED
    BY <2>1, <2>3, <2>4 DEF Extends
<1> QED
  BY <1>1, <1>3

\* What has been shown stays shown.
LEMMA BeginsStays ==
    ASSUME NEW t \in Text, NEW b \in 0 .. 255, NEW us, NEW i, Begins(t, us, i)
    PROVE  Begins(Append(t, b), us, i)
  BY TextGrows DEF Begins

\* The units of a text are numbers.
LEMMA UnitsAreInts ==
    ASSUME NEW us \in Seq(TextUnit)
    PROVE  us \in Seq(Int)
<1>1. us \in [1 .. Len(us) -> TextUnit] /\ Len(us) \in Nat
  BY LenProperties
<1>2. TextUnit \subseteq Int
  BY DEF TextUnit
<1>3. us \in [1 .. Len(us) -> Int]
  BY <1>1, <1>2
<1> QED
  BY <1>1, <1>3

\* Joining is associative.
LEMMA Joins ==
    ASSUME NEW p \in Seq(Int), NEW q \in Seq(Int), NEW r \in Seq(Int)
    PROVE  (p \o q) \o r = p \o (q \o r)
<1>1. PICK S : S = Int
  OBVIOUS
<1>2. p \in Seq(S) /\ q \in Seq(S) /\ r \in Seq(S)
  BY <1>1
<1> QED
  BY <1>2, ConcatAssociative, SMT

\* A unit has ended at e, whatever follows.
LEMMA UnitEnds ==
    ASSUME NEW t \in Text, NEW us \in Seq(TextUnit), NEW i \in 1 .. Len(t),
           NEW e \in i .. Len(t), Begins(t, us, i), NEW g \in Seq(TextUnit),
           \A s \in Text : Extends(s, t) =>
               /\ Ends(s, i) # {} /\ Min(Ends(s, i)) = e
               /\ Unit(s, i, e) = g
    PROVE  Begins(t, us \o g, e + 1)
<1> SUFFICES ASSUME NEW s \in Text, Extends(s, t)
             PROVE  Units(s) = (us \o g) \o UnitsFrom(s, e + 1)
  BY DEF Begins
<1>1. PICK n \in Nat : n = Len(s) /\ Len(t) <= n
  BY TextByte DEF Extends
<1>2. i \in 1 .. n + 1 /\ ~ (i > n) /\ e + 1 \in 1 .. n + 1
  BY <1>1, TextByte
<1>3. UnitsFrom(s, i) = g \o UnitsFrom(s, e + 1)
  BY <1>1, <1>2, UnitsLoop
<1>4. PICK rest \in Seq(Int) : rest = UnitsFrom(s, e + 1)
  BY <1>1, <1>2, UnitsLoop
<1>5. us \in Seq(Int) /\ g \in Seq(Int)
  BY UnitsAreInts
<1>6. Units(s) = us \o UnitsFrom(s, i)
  BY DEF Begins
<1>7. (us \o g) \o rest = us \o (g \o rest)
  BY <1>4, <1>5, Joins, Zenon
<1> QED
  BY <1>3, <1>4, <1>6, <1>7, Zenon

\* A unit that does more than add text makes the whole no text.
LEMMA OtherIsNoText ==
    ASSUME NEW t \in Text, NEW us \in Seq(TextUnit), NEW i \in 1 .. Len(t),
           Begins(t, us, i), Ends(t, i) # {},
           Unit(t, i, Min(Ends(t, i))) = <<OtherEffect>>
    PROVE  ~ IsText(t)
<1>1. PICK n \in Nat : n = Len(t)
  BY TextByte
<1>2. PICK e \in 1 .. n + 1 : e = Min(Ends(t, i)) + 1
  BY <1>1, EndIsLeast
<1> DEFINE rest == UnitsFrom(t, e)
           o == OtherEffect
<1>3. o \in Int
  BY DEF OtherEffect
<1>4. Units(t) = us \o (<<o>> \o rest) /\ rest \in Seq(Int)
  <2>1. UnitsFrom(t, i) = <<o>> \o rest /\ rest \in Seq(Int)
    <3>1. i \in 1 .. n + 1 /\ ~ (i > n)
      BY <1>1
    <3>2. UnitsFrom(t, i) = Unit(t, i, Min(Ends(t, i))) \o UnitsFrom(t, e)
      BY <1>1, <1>2, <3>1, UnitsLoop
    <3>3. rest \in Seq(Int)
      BY <1>1, UnitsLoop
    <3> QED
      BY <3>2, <3>3
  <2>2. Units(t) = us \o UnitsFrom(t, i)
    BY TextByte DEF Begins
  <2> QED
    BY <2>1, <2>2
<1> HIDE DEF rest, o
<1>5. us \in Seq(Int)
  BY UnitsAreInts
<1>6. PICK m \in Nat : m = Len(us)
  BY LenProperties
<1>7. <<o>> \in Seq(Int) /\ Len(<<o>>) = 1 /\ <<o>>[1] = o
  BY <1>3
<1>8. /\ <<o>> \o rest \in Seq(Int) /\ Len(<<o>> \o rest) = 1 + Len(rest)
      /\ (<<o>> \o rest)[1] = o
  BY <1>4, <1>7, ConcatProperties, LenProperties
<1>9. PICK tail \in Seq(Int) : tail = <<o>> \o rest
  BY <1>8
<1>10. Len(tail) \in Nat /\ Len(tail) >= 1 /\ tail[1] = o
  BY <1>4, <1>8, <1>9, LenProperties
<1>11. us \o tail \in Seq(Int) /\ Len(us \o tail) = m + Len(tail) /\ (us \o tail)[m + 1] = o
  BY <1>5, <1>6, <1>10, ConcatProperties
<1>12. m + 1 \in DOMAIN (us \o tail)
  BY <1>10, <1>11, LenProperties
<1> QED
  BY <1>4, <1>9, <1>11, <1>12 DEF IsText, o

\* A unit of which the parser waits for more shows nothing yet.
LEMMA ReadingIsNoUnit ==
    ASSUME NEW t \in Text, NEW i \in 1 .. Len(t) + 1, NEW state, NEW needed,
           Reading(t, i, state, needed)
    PROVE  UnitsFrom(t, i) = <<>>
<1>1. PICK n \in Nat : n = Len(t)
  BY TextByte
<1>2. CASE i = n + 1
  BY <1>1, <1>2, UnitsLoop
<1>3. CASE i # n + 1
  <2>1. i \in 1 .. n
    BY <1>1, <1>3
  <2>a. PICK c \in 0 .. 255 : c = t[i]
    BY <1>1, <2>1, TextByte
  <2>2. Ends(t, i) = {}
    <3>1. CASE i = n /\ t[i] = 27
      <4>1. Ends(t, i) = {e \in i + 2 .. n : t[e] \notin 48 .. 57 \cup {59}}
        BY <1>1, <3>1 DEF Ends
      <4> QED
        BY <3>1, <4>1
    <3>2. CASE /\ i + 1 <= n /\ t[i] = 27 /\ t[i + 1] = 91
               /\ \A j \in i + 2 .. n : t[j] \in 48 .. 57 \cup {59}
      <4>1. Ends(t, i) = {e \in i + 2 .. n : t[e] \notin 48 .. 57 \cup {59}}
        <5>1. t[i] = 27 /\ (i = Len(t) \/ t[i + 1] = 91)
          BY <3>2
        <5> QED
          BY <1>1, <2>a, <5>1, FollowingIs, Zenon DEF Ends
      <4> QED
        BY <3>2, <4>1
    <3>3. CASE /\ needed > 0 /\ Following(t[i]) > 0 /\ needed = Following(t[i]) - (n - i)
               /\ \A j \in i + 1 .. n : t[j] \in 128 .. 191
      <4>1. PICK f \in 0 .. 3 : f = Following(t[i])
        BY <2>a, FollowingIs
      <4>2. t[i] # 27
        BY <2>a, <3>3, FollowingIs
      <4>3. ASSUME NEW e \in i + 1 .. n PROVE e # i + f
        BY <3>3, <4>1
      <4>4. Ends(t, i) = {e \in i + 1 .. n : e = i + f \/ t[e] \notin 128 .. 191}
        BY <1>1, <3>3, <4>1, <4>2 DEF Ends
      <4> QED
        BY <3>3, <4>3, <4>4
    <3> QED
      BY <1>1, <1>3, <3>1, <3>2, <3>3 DEF Reading
  <2> QED
    BY <1>1, <2>1, <2>2, UnitsLoop
<1> QED
  BY <1>2, <1>3

LEMMA EndsAlone ==
    ASSUME NEW s \in Text, NEW i \in 1 .. Len(s), Following(s[i]) = 0,
           s[i] = 27 => i # Len(s) /\ s[i + 1] # 91
    PROVE  Ends(s, i) # {} /\ Min(Ends(s, i)) = i
<1>1. Ends(s, i) = {i}
  BY DEF Ends
<1>2. Min({i}) = i
  <2>1. {i} \subseteq Nat /\ i \in {i} /\ \A d \in {i} : i <= d
    OBVIOUS
  <2> QED
    BY <2>1, MinIs
<1> QED
  BY <1>1, <1>2

\* Where a colour sequence ends.
LEMMA EndsColour ==
    ASSUME NEW s \in Text, NEW i \in 1 .. Len(s), s[i] = 27, s[i + 1] = 91,
           NEW e \in i + 2 .. Len(s), s[e] \notin 48 .. 57 \cup {59},
           \A j \in i + 2 .. e - 1 : s[j] \in 48 .. 57 \cup {59}
    PROVE  Ends(s, i) # {} /\ Min(Ends(s, i)) = e
<1>1. Len(s) \in Nat
  BY TextByte
<1>2. Ends(s, i) = {d \in i + 2 .. Len(s) : s[d] \notin 48 .. 57 \cup {59}}
  <2>1. s[i] = 27 /\ (i = Len(s) \/ s[i + 1] = 91)
    OBVIOUS
  <2>2. ~ (Following(s[i]) > 0)
    BY DEF Following
  <2> QED
    BY <2>1, <2>2, Zenon DEF Ends
<1>3. e \in Ends(s, i) /\ Ends(s, i) \subseteq Nat
  BY <1>1, <1>2
<1>4. ASSUME NEW d \in Ends(s, i) PROVE e <= d
  <2>1. d \in i + 2 .. Len(s) /\ s[d] \notin 48 .. 57 \cup {59}
    BY <1>2
  <2>2. d \notin i + 2 .. e - 1
    BY <2>1
  <2> QED
    BY <1>1, <2>1, <2>2
<1> QED
  BY <1>3, <1>4, MinIs

\* Where a multi-byte character ends.
LEMMA EndsCharacter ==
    ASSUME NEW s \in Text, NEW i \in 1 .. Len(s), NEW f \in 1 .. 3, f = Following(s[i]),
           NEW e \in i + 1 .. Len(s), e = i + f \/ s[e] \notin 128 .. 191, e <= i + f,
           \A j \in i + 1 .. e - 1 : s[j] \in 128 .. 191
    PROVE  Ends(s, i) # {} /\ Min(Ends(s, i)) = e /\ s[i] >= 128
<1>1. Len(s) \in Nat
  BY TextByte
<1>2. s[i] # 27 /\ s[i] >= 128
  <2>1. PICK c \in 0 .. 255 : c = s[i]
    BY TextByte
  <2>2. Following(c) > 0
    BY <2>1
  <2>3. c # 27 /\ c >= 128
    BY <2>2, FollowingIs
  <2> QED
    BY <2>1, <2>3
<1>3. Ends(s, i) = {d \in i + 1 .. Len(s) : d = i + f \/ s[d] \notin 128 .. 191}
  BY <1>1, <1>2 DEF Ends
<1>4. e \in Ends(s, i) /\ Ends(s, i) \subseteq Nat
  BY <1>1, <1>3
<1>5. ASSUME NEW d \in Ends(s, i) PROVE e <= d
  <2>1. d \in i + 1 .. Len(s) /\ (d = i + f \/ s[d] \notin 128 .. 191)
    BY <1>3
  <2>2. d \in i + 1 .. e - 1 => d = i + f
    BY <2>1
  <2> QED
    BY <1>1, <2>1, <2>2
<1> QED
  BY <1>2, <1>4, <1>5, MinIs

-----------------------------------------------------------------------------
(* What a byte does, by the state it finds the parser and decoder in.      *)

\* What a byte below 0x80 puts on the screen (console.c:560-599).
LEMMA PutByteIs ==
    ASSUME NEW s, NEW b \in 0 .. 255
    PROVE  /\ b = 10 => PutByte(s, b) = raw_newline(s)
           /\ b = 9 => PutByte(s, b) = PutTab(s)
           /\ b \in 32 .. 127 => PutByte(s, b) = raw_put_visible(s, Shape(b))
           /\ b \notin {8, 9, 10, 13} \cup 32 .. 127 => PutByte(s, b) = s
<1> DEFINE return == [s EXCEPT !.col = 0]
           glyph == raw_put_visible(s, Shape(b))
<1>1. PutByte(s, b) = CASE b = 10 -> raw_newline(s)
                        [] b = 13 -> return
                        [] b = 8  -> EraseBack(s)
                        [] b = 9  -> PutTab(s)
                        [] b \in 32 .. 127 -> glyph
                        [] OTHER  -> s
  BY DEF PutByte
<1> HIDE DEF return, glyph
<1>2. /\ b = 10 => PutByte(s, b) = raw_newline(s)
      /\ b = 9 => PutByte(s, b) = PutTab(s)
      /\ b \in 32 .. 127 => PutByte(s, b) = glyph
      /\ b \notin {8, 9, 10, 13} \cup 32 .. 127 => PutByte(s, b) = s
  BY <1>1
<1> QED
  BY <1>2 DEF glyph

\* The unit that begins with b, and ends at e.
LEMMA UnitIs ==
    ASSUME NEW s, NEW i, NEW e, NEW b \in 0 .. 255, s[i] = b
    PROVE  /\ b = 27 /\ e > i /\ s[e] \in 64 .. 126 \ {109} => Unit(s, i, e) = <<OtherEffect>>
           /\ b = 27 /\ ~ (e > i /\ s[e] \in 64 .. 126 \ {109}) => Unit(s, i, e) = <<>>
           /\ b >= 128 /\ s[e] < 128 => Unit(s, i, e) = <<OtherEffect>>
           /\ b >= 128 /\ ~ (s[e] < 128) => Unit(s, i, e) = <<63>>
           /\ b \in {8, 13} => Unit(s, i, e) = <<OtherEffect>>
           /\ b \in {9, 10} \cup 32 .. 127 => Unit(s, i, e) = <<b>>
           /\ b < 32 /\ b \notin {8, 9, 10, 13, 27} => Unit(s, i, e) = <<>>
<1> DEFINE c == s[i]
           final == e > i /\ s[e] \in 64 .. 126 \ {109}
           short == s[e] < 128
           other == <<OtherEffect>>
           unknown == <<63>>
           single == <<c>>
           none == <<>>
<1>1. Unit(s, i, e) = CASE c = 27 -> IF final THEN other ELSE none
                        [] c >= 128 -> IF short THEN other ELSE unknown
                        [] c \in {8, 13} -> other
                        [] c \in {9, 10} \cup 32 .. 127 -> single
                        [] OTHER -> none
  BY Zenon DEF Unit
<1>2. single = <<b>> /\ c = b
  OBVIOUS
<1> HIDE DEF final, short, other, unknown, single, none, c
<1>3. /\ b = 27 /\ final => Unit(s, i, e) = other
      /\ b = 27 /\ ~ final => Unit(s, i, e) = none
      /\ b >= 128 /\ short => Unit(s, i, e) = other
      /\ b >= 128 /\ ~ short => Unit(s, i, e) = unknown
      /\ b \in {8, 13} => Unit(s, i, e) = other
      /\ b \in {9, 10} \cup 32 .. 127 => Unit(s, i, e) = single
      /\ b < 32 /\ b \notin {8, 9, 10, 13, 27} => Unit(s, i, e) = none
  BY <1>1, <1>2
<1> QED
  BY <1>2, <1>3, Zenon DEF final, short, other, unknown, none

\* A byte that is a unit of its own.
LEMMA UnitAlone ==
    ASSUME NEW s, NEW n \in Nat, NEW b \in 0 .. 255, s[n] = b
    PROVE  /\ b = 27 => Unit(s, n, n) = <<>>
           /\ b >= 128 => Unit(s, n, n) = <<63>>
           /\ b \in {8, 13} => Unit(s, n, n) = <<OtherEffect>>
           /\ b \in {9, 10} \cup 32 .. 127 => Unit(s, n, n) = <<b>>
           /\ b < 32 /\ b \notin {8, 9, 10, 13, 27} => Unit(s, n, n) = <<>>
<1>1. ~ (n > n) /\ (b >= 128 => ~ (s[n] < 128))
  OBVIOUS
<1>2. /\ b = 27 /\ ~ (n > n) => Unit(s, n, n) = <<>>
      /\ b >= 128 /\ ~ (s[n] < 128) => Unit(s, n, n) = <<63>>
      /\ b \in {8, 13} => Unit(s, n, n) = <<OtherEffect>>
      /\ b \in {9, 10} \cup 32 .. 127 => Unit(s, n, n) = <<b>>
      /\ b < 32 /\ b \notin {8, 9, 10, 13, 27} => Unit(s, n, n) = <<>>
  BY UnitIs
<1> QED
  BY <1>1, <1>2

\* What follows a text that goes on with b.
LEMMA GoesOn ==
    ASSUME NEW t \in Text, NEW b \in 0 .. 255
    PROVE  \A s \in Text : Extends(s, Append(t, b)) =>
               /\ Extends(s, t) /\ Len(s) \in Nat /\ Len(t) + 1 <= Len(s) /\ s[Len(t) + 1] = b
               /\ \A j \in 1 .. Len(t) : s[j] = t[j]
<1>1. \A s \in Text : Extends(s, Append(t, b)) =>
          /\ Extends(s, t) /\ Len(t) + 1 <= Len(s) /\ s[Len(t) + 1] = b
          /\ \A j \in 1 .. Len(t) : s[j] = t[j]
  BY TextGrows
<1>2. \A s \in Text : Len(s) \in Nat
  BY TextByte
<1> QED
  BY <1>1, <1>2

\* After a byte that ended a unit.
LEMMA Grown ==
    ASSUME NEW t \in Text, NEW us \in Seq(TextUnit), NEW u \in TextUnit, NEW scr,
           Begins(t, us \o <<u>>, Len(t) + 1), Shown(Append(us, u), scr)
    PROVE  Follows(t, "GROUND", 0, scr)
<1>1. Append(us, u) \in Seq(TextUnit) /\ Append(us, u) = us \o <<u>>
  BY AppendProperties, AppendIsConcat
<1>2. Len(t) + 1 \in 1 .. Len(t) + 1
  BY TextByte
<1>3. Reading(t, Len(t) + 1, "GROUND", 0)
  BY DEF Reading
<1>4. Begins(t, Append(us, u), Len(t) + 1)
  BY <1>1
<1> QED
  BY <1>1, <1>2, <1>3, <1>4, Zenon DEF Follows

\* After a unit that shows nothing.
LEMMA Unchanged ==
    ASSUME NEW t \in Text, NEW us \in Seq(TextUnit), NEW scr,
           Begins(t, us \o <<>>, Len(t) + 1), Shown(us, scr)
    PROVE  Follows(t, "GROUND", 0, scr)
<1>1. us \o <<>> = us
  BY ConcatEmptySeq
<1>2. Len(t) + 1 \in 1 .. Len(t) + 1
  BY TextByte
<1>3. Reading(t, Len(t) + 1, "GROUND", 0)
  BY DEF Reading
<1>4. Begins(t, us, Len(t) + 1)
  BY <1>1
<1> QED
  BY <1>2, <1>3, <1>4, Zenon DEF Follows

\* A byte between units (console.c:481-599).
LEMMA FreshByte ==
    ASSUME NEW t \in Text, NEW b \in 0 .. 255, NEW us \in Seq(TextUnit),
           Begins(Append(t, b), us, Len(t) + 1), Shown(us, screen), utf8_needed = 0,
           console_handle_ground_byte(b), IsText(Append(t, b))
    PROVE  Follows(Append(t, b), ansi_parser_state', utf8_needed', screen')
<1> DEFINE t2 == Append(t, b)
<1>1. PICK n \in Nat \ {0} : n = Len(t) + 1
  BY TextByte
<1>2. t2 \in Text /\ Len(t2) = n /\ t2[n] = b
  BY <1>1, TextGrows
<1>3. \A s \in Text : Extends(s, t2) => n <= Len(s) /\ n \in 1 .. Len(s) /\ s[n] = b
  <2> SUFFICES ASSUME NEW s \in Text, Extends(s, t2)
               PROVE  n <= Len(s) /\ n \in 1 .. Len(s) /\ s[n] = b
    OBVIOUS
  <2>1. PICK m \in Nat : m = Len(t) /\ n = m + 1
    BY <1>1, TextByte
  <2>2. Len(s) \in Nat /\ Len(t) + 1 <= Len(s) /\ s[Len(t) + 1] = b
    BY GoesOn
  <2> QED
    BY <2>1, <2>2
<1>4. Begins(t2, us, n)
  BY <1>1
<1>5. IsText(t2)
  OBVIOUS
<1> SUFFICES Follows(t2, ansi_parser_state', utf8_needed', screen')
  OBVIOUS
<1> HIDE DEF t2
<1>a. PICK f \in 0 .. 3 : /\ f = Following(b) /\ (f > 0 => b >= 128 /\ b # 27)
                          /\ (b < 192 => f = 0)
  BY FollowingIs
\* A byte that stands alone.
<1>6. ASSUME b # 27, f = 0, NEW g \in Seq(TextUnit), \A s \in Text : s[n] = b => Unit(s, n, n) = g
      PROVE  Begins(t2, us \o g, Len(t2) + 1)
  <2>1. ASSUME NEW s \in Text, Extends(s, t2)
        PROVE  /\ Ends(s, n) # {} /\ Min(Ends(s, n)) = n
               /\ Unit(s, n, n) = g
    <3>1. n \in 1 .. Len(s) /\ s[n] = b
      BY <1>3, <2>1
    <3> QED
      BY <1>6, <1>a, <3>1, EndsAlone
  <2>2. n \in 1 .. Len(t2) /\ n \in n .. Len(t2)
    BY <1>2
  <2>3. Begins(t2, us \o g, n + 1)
    BY <1>2, <1>4, <2>1, <2>2, UnitEnds
  <2> QED
    BY <1>2, <2>3
<1>7. ASSUME NEW u \in TextUnit, b # 27, f = 0, Shown(Append(us, u), screen'),
             \A s \in Text : s[n] = b => Unit(s, n, n) = <<u>>,
             ansi_parser_state' = "GROUND", utf8_needed' = 0
      PROVE  Follows(t2, ansi_parser_state', utf8_needed', screen')
  <2>1. <<u>> \in Seq(TextUnit)
    OBVIOUS
  <2>2. Begins(t2, us \o <<u>>, Len(t2) + 1)
    BY <1>6, <1>7, <2>1
  <2>3. Follows(t2, "GROUND", 0, screen')
    BY <1>2, <1>7, <2>2, Grown
  <2> QED
    BY <1>7, <2>3
<1>8. CASE b = 27
  <2>1. screen' = screen /\ ansi_parser_state' = "ESC" /\ utf8_needed' = 0
    BY <1>8 DEF console_handle_ground_byte, GroundAscii, GroundUtf8, PutByte
  <2>2. Reading(t2, n, "ESC", 0) /\ n \in 1 .. Len(t2) + 1
    BY <1>2, <1>8 DEF Reading
  <2>3. Shown(us, screen')
    BY <2>1
  <2> QED
    BY <1>4, <2>1, <2>2, <2>3, Zenon DEF Follows
<1>9. CASE f > 0
  <2>1. b >= 128
    BY <1>9, <1>a
  <2>2. screen' = screen /\ ansi_parser_state' = "GROUND" /\ utf8_needed' = f
    BY <1>9, <1>a, <2>1
    DEF console_handle_ground_byte, GroundAscii, GroundUtf8, console_emit_utf8_byte
  <2>3. Reading(t2, n, "GROUND", f) /\ n \in 1 .. Len(t2) + 1
    BY <1>2, <1>9, <1>a DEF Reading
  <2>4. Shown(us, screen')
    BY <2>2
  <2> QED
    BY <1>4, <2>2, <2>3, <2>4, Zenon DEF Follows
<1>10. CASE b >= 128 /\ f = 0
  <2>1. /\ screen' = raw_put_visible(screen, Shape(63))
        /\ ansi_parser_state' = "GROUND" /\ utf8_needed' = 0
    BY <1>10, <1>a
    DEF console_handle_ground_byte, GroundAscii, GroundUtf8, console_emit_utf8_byte, Unknown
  <2>2. Shown(Append(us, 63), screen')
    BY <2>1, ShownGlyph
  <2>3. ASSUME NEW s \in Text, s[n] = b PROVE Unit(s, n, n) = <<63>>
    BY <1>10, <2>3, UnitAlone
  <2>4. 63 \in TextUnit /\ b # 27
    BY <1>10 DEF TextUnit
  <2> QED
    BY <1>7, <1>10, <2>1, <2>2, <2>3, <2>4
<1>11. ASSUME b < 128 /\ b # 27
       PROVE  /\ f = 0 /\ ansi_parser_state' = "GROUND" /\ utf8_needed' = 0
              /\ screen' = PutByte(screen, b)
  <2>1. f = 0
    BY <1>11, <1>a
  <2> QED
    BY <1>11, <2>1 DEF console_handle_ground_byte, GroundAscii, GroundUtf8
<1>12. CASE b \in {8, 13}
  <2>0. n \in 1 .. Len(t2)
    BY <1>2
  <2>1. Ends(t2, n) # {} /\ Min(Ends(t2, n)) = n
    BY <1>2, <1>11, <1>12, <1>a, <2>0, EndsAlone
  <2>2. Unit(t2, n, n) = <<OtherEffect>>
    BY <1>2, <1>12, UnitAlone
  <2> QED
    BY <1>2, <1>4, <1>5, <2>0, <2>1, <2>2, OtherIsNoText
<1>13. CASE b \in 32 .. 127
  <2>1. screen' = raw_put_visible(screen, Shape(b))
    BY <1>11, <1>13, PutByteIs
  <2>2. Shown(Append(us, b), screen')
    BY <1>13, <2>1, ShownGlyph
  <2>3. ASSUME NEW s \in Text, s[n] = b PROVE Unit(s, n, n) = <<b>>
    BY <1>13, <2>3, UnitAlone
  <2>4. b \in TextUnit
    BY <1>13 DEF TextUnit
  <2> QED
    BY <1>7, <1>11, <1>13, <2>2, <2>3, <2>4
<1>14. CASE b \in {9, 10}
  <2>1. Shown(Append(us, b), screen')
    <3>1. b = 10 => screen' = raw_newline(screen)
      BY <1>11, PutByteIs
    <3>2. b = 9 => screen' = PutTab(screen)
      BY <1>11, PutByteIs
    <3> QED
      BY <1>14, <3>1, <3>2, ShownNewline, ShownTab
  <2>2. ASSUME NEW s \in Text, s[n] = b PROVE Unit(s, n, n) = <<b>>
    BY <1>14, <2>2, UnitAlone
  <2>3. b \in TextUnit
    BY <1>14 DEF TextUnit
  <2> QED
    BY <1>7, <1>11, <1>14, <2>1, <2>2, <2>3
<1>15. CASE b < 32 /\ b \notin {8, 9, 10, 13, 27}
  <2>1. screen' = screen
    BY <1>11, <1>15, PutByteIs
  <2>2. ASSUME NEW s \in Text, s[n] = b PROVE Unit(s, n, n) = <<>>
    BY <1>15, <2>2, UnitAlone
  <2>3. <<>> \in Seq(TextUnit)
    BY EmptySeq
  <2>4. f = 0 /\ b # 27
    BY <1>11, <1>15
  <2>5. Begins(t2, us \o <<>>, Len(t2) + 1)
    BY <1>6, <2>2, <2>3, <2>4
  <2>6. Follows(t2, "GROUND", 0, screen')
    BY <1>2, <2>1, <2>5, Unchanged
  <2> QED
    BY <1>11, <1>15, <2>6
<1> QED
  BY <1>8, <1>9, <1>10, <1>12, <1>13, <1>14, <1>15

\* An Esc and a byte that is no '['.
LEMMA AfterEsc ==
    ASSUME NEW t \in Text, NEW b \in 0 .. 255, b # 91, Follows(t, "ESC", utf8_needed, screen),
           console_handle_ground_byte(b), IsText(Append(t, b))
    PROVE  Follows(Append(t, b), ansi_parser_state', utf8_needed', screen')
<1>0. \A s \in Text : Extends(s, Append(t, b)) =>
          /\ Extends(s, t) /\ Len(s) \in Nat /\ Len(t) + 1 <= Len(s) /\ s[Len(t) + 1] = b
          /\ \A j \in 1 .. Len(t) : s[j] = t[j]
  BY GoesOn, Zenon
<1> DEFINE t2 == Append(t, b)
<1>1. PICK us \in Seq(TextUnit), i \in 1 .. Len(t) + 1 :
          Begins(t, us, i) /\ Reading(t, i, "ESC", utf8_needed) /\ Shown(us, screen)
  BY DEF Follows
<1>2. i = Len(t) /\ t[i] = 27 /\ utf8_needed = 0
  BY <1>1 DEF Reading
<1>3. PICK n \in Nat \ {0} : n = Len(t)
  BY <1>1, <1>2, TextByte
<1>4. t2 \in Text /\ Len(t2) = n + 1 /\ Begins(t2, us, n)
  <2>1. t2 \in Text /\ Len(t2) = n + 1
    BY <1>3, TextGrows
  <2>2. Begins(t2, us, i)
    BY <1>1, BeginsStays
  <2> QED
    BY <1>2, <1>3, <2>1, <2>2
<1>5. ASSUME NEW s \in Text, Extends(s, t2)
      PROVE  /\ Ends(s, n) # {} /\ Min(Ends(s, n)) = n
             /\ Unit(s, n, n) = <<>>
  <2>0. /\ Len(s) \in Nat /\ Len(t) + 1 <= Len(s) /\ s[Len(t) + 1] = b
        /\ \A j \in 1 .. Len(t) : s[j] = t[j]
    BY <1>0, <1>5
  <2>1. n + 1 <= Len(s) /\ s[n + 1] = b /\ s[n] = 27 /\ Len(s) \in Nat
    BY <1>2, <1>3, <2>0
  <2>2. Following(s[n]) = 0
    BY <2>1 DEF Following
  <2>3. n \in 1 .. Len(s) /\ n # Len(s)
    BY <2>1
  <2>4. Ends(s, n) # {} /\ Min(Ends(s, n)) = n
    BY <2>1, <2>2, <2>3, EndsAlone
  <2>5. Unit(s, n, n) = <<>>
    BY <2>1, UnitAlone
  <2> QED
    BY <2>4, <2>5
<1> HIDE DEF t2
<1>6. Begins(t2, us \o <<>>, n + 1)
  <2>1. n \in 1 .. Len(t2) /\ n \in n .. Len(t2) /\ <<>> \in Seq(TextUnit)
    BY <1>4, EmptySeq
  <2> QED
    BY <1>4, <1>5, <2>1, UnitEnds
<1>7. us \o <<>> = us
  BY ConcatEmptySeq
<1>8. Begins(t2, us, Len(t) + 1)
  BY <1>3, <1>6, <1>7
<1> QED
  BY <1>1, <1>2, <1>8, FreshByte DEF t2

\* A control sequence from i to e.
ColourAt(s, i, e) ==
    /\ i \in 1 .. Len(s) /\ e \in i + 2 .. Len(s)
    /\ s[i] = 27 /\ s[i + 1] = 91 /\ s[e] \notin 48 .. 57 \cup {59}
    /\ \A j \in i + 2 .. e - 1 : s[j] \in 48 .. 57 \cup {59}

\* A character from i to e, with f bytes due after the first one.
CharacterAt(s, i, e, f) ==
    /\ i \in 1 .. Len(s) /\ f \in 1 .. 3 /\ f = Following(s[i])
    /\ e \in i + 1 .. Len(s) /\ e <= i + f /\ (e = i + f \/ s[e] \notin 128 .. 191)
    /\ \A j \in i + 1 .. e - 1 : s[j] \in 128 .. 191

\* Where it ends.
LEMMA ColourEnds ==
    ASSUME NEW s \in Text, NEW i, NEW e, ColourAt(s, i, e)
    PROVE  Ends(s, i) # {} /\ Min(Ends(s, i)) = e
  BY EndsColour DEF ColourAt

\* What it shows: nothing, if it sets colours or was broken off.
LEMMA ColourShows ==
    ASSUME NEW s, NEW i, NEW e, ColourAt(s, i, e)
    PROVE  /\ s[e] \in 64 .. 126 \ {109} => Unit(s, i, e) = <<OtherEffect>>
           /\ s[e] \notin 64 .. 126 \ {109} => Unit(s, i, e) = <<>>
<1>1. 27 \in 0 .. 255 /\ s[i] = 27 /\ e > i
  BY DEF ColourAt
<1>2. /\ e > i /\ s[e] \in 64 .. 126 \ {109} => Unit(s, i, e) = <<OtherEffect>>
      /\ ~ (e > i /\ s[e] \in 64 .. 126 \ {109}) => Unit(s, i, e) = <<>>
  BY <1>1, UnitIs, SMT
<1> QED
  BY <1>1, <1>2, Zenon

\* Where the character ends.
LEMMA CharacterEnds ==
    ASSUME NEW s \in Text, NEW i, NEW e, NEW f, CharacterAt(s, i, e, f)
    PROVE  Ends(s, i) # {} /\ Min(Ends(s, i)) = e /\ s[i] >= 128
  BY EndsCharacter DEF CharacterAt

\* The first byte of a control sequence's parameters (console.c:676-681).
LEMMA StartsSequence ==
    ASSUME NEW t \in Text, NEW b \in 0 .. 255, Follows(t, "ESC", utf8_needed, screen),
           StartCsi(b)
    PROVE  Follows(Append(t, b), ansi_parser_state', utf8_needed', screen')
<1> DEFINE t2 == Append(t, b)
<1>1. PICK us \in Seq(TextUnit), i \in 1 .. Len(t) + 1 :
          Begins(t, us, i) /\ Reading(t, i, "ESC", utf8_needed) /\ Shown(us, screen)
  BY DEF Follows
<1>2. i = Len(t) /\ t[i] = 27 /\ utf8_needed = 0
  BY <1>1 DEF Reading
<1>3. PICK n \in Nat \ {0} : n = Len(t)
  BY <1>1, <1>2, TextByte
<1>4. t2 \in Text /\ Len(t2) = n + 1 /\ t2[n + 1] = 91 /\ t2[n] = 27
  BY <1>2, <1>3, TextGrows DEF StartCsi
<1>5. Begins(t2, us, n)
  BY <1>1, <1>2, <1>3, BeginsStays
<1>6. screen' = screen /\ ansi_parser_state' = "CSI" /\ utf8_needed' = 0
  BY <1>2 DEF StartCsi
<1> SUFFICES Follows(t2, ansi_parser_state', utf8_needed', screen')
  OBVIOUS
<1> HIDE DEF t2
<1>7. Reading(t2, n, "CSI", 0) /\ n \in 1 .. Len(t2) + 1
  BY <1>4 DEF Reading
<1>8. Shown(us, screen')
  BY <1>1, <1>6
<1> QED
  BY <1>5, <1>6, <1>7, <1>8, Zenon DEF Follows

\* A byte of a control sequence (console.c:686-708).
LEMMA InSequence ==
    ASSUME NEW t \in Text, NEW b \in 0 .. 255, Follows(t, "CSI", utf8_needed, screen),
           ansi_parser_state = "CSI", IsText(Append(t, b)),
           CsiDigit(b) \/ CsiSeparator(b) \/ CsiClear(b) \/ CsiFinal(b) \/ CsiAbort(b)
    PROVE  Follows(Append(t, b), ansi_parser_state', utf8_needed', screen')
<1>0. \A s \in Text : Extends(s, Append(t, b)) =>
          /\ Extends(s, t) /\ Len(s) \in Nat /\ Len(t) + 1 <= Len(s) /\ s[Len(t) + 1] = b
          /\ \A j \in 1 .. Len(t) : s[j] = t[j]
  BY GoesOn, Zenon
<1> DEFINE t2 == Append(t, b)
<1>1. PICK us \in Seq(TextUnit), i \in 1 .. Len(t) + 1 :
          Begins(t, us, i) /\ Reading(t, i, "CSI", utf8_needed) /\ Shown(us, screen)
  BY DEF Follows
<1>2. PICK n \in Nat : n = Len(t)
  BY TextByte
<1>3. /\ utf8_needed = 0 /\ i \in 1 .. n /\ i + 1 <= n /\ t[i] = 27 /\ t[i + 1] = 91
      /\ \A j \in i + 2 .. n : t[j] \in 48 .. 57 \cup {59}
  BY <1>1, <1>2 DEF Reading
<1>4. /\ t2 \in Text /\ Len(t2) = n + 1 /\ t2[n + 1] = b /\ Extends(t2, t2)
      /\ \A j \in 1 .. n : t2[j] = t[j]
  BY <1>2, TextGrows, TextByte
<1>5. Begins(t2, us, i) /\ IsText(t2)
  BY <1>1, BeginsStays
<1>6. \A s \in Text : Extends(s, t2) => /\ Len(s) \in Nat /\ n + 1 <= Len(s) /\ s[n + 1] = b
                                        /\ \A j \in 1 .. n : s[j] = t[j]
  BY <1>0, <1>2
<1> SUFFICES Follows(t2, ansi_parser_state', utf8_needed', screen')
  OBVIOUS
<1> HIDE DEF t2
<1>7. CASE b \in 48 .. 57 \cup {59}
  <2>1. screen' = screen /\ ansi_parser_state' = "CSI" /\ utf8_needed' = 0
    BY <1>3, <1>7 DEF CsiDigit, CsiSeparator, CsiClear, ClearsAll, CsiFinal, CsiAbort
  <2>2. ASSUME NEW j \in i + 2 .. n + 1 PROVE t2[j] \in 48 .. 57 \cup {59}
    <3>1. CASE j = n + 1
      BY <1>4, <1>7, <3>1
    <3>2. CASE j # n + 1
      <4>1. j \in 1 .. n /\ j \in i + 2 .. n
        BY <1>3, <3>2
      <4> QED
        BY <1>3, <1>4, <4>1, Zenon
    <3> QED
      BY <3>1, <3>2
  <2>3. i \in 1 .. Len(t2) + 1 /\ i + 1 <= Len(t2) /\ t2[i] = 27 /\ t2[i + 1] = 91
    BY <1>3, <1>4
  <2>4. Reading(t2, i, "CSI", 0)
    BY <1>4, <2>2, <2>3 DEF Reading
  <2>5. Shown(us, screen')
    BY <1>1, <2>1
  <2> QED
    BY <1>5, <2>1, <2>3, <2>4, <2>5, Zenon DEF Follows
<1>8. CASE b \notin 48 .. 57 \cup {59}
  <2>1. ASSUME NEW s \in Text, Extends(s, t2)
        PROVE  /\ Ends(s, i) # {} /\ Min(Ends(s, i)) = n + 1
               /\ b \in 64 .. 126 \ {109} => Unit(s, i, n + 1) = <<OtherEffect>>
               /\ b \notin 64 .. 126 \ {109} => Unit(s, i, n + 1) = <<>>
    <3>1. /\ Len(s) \in Nat /\ n + 1 <= Len(s) /\ s[n + 1] = b
          /\ \A j \in 1 .. n : s[j] = t[j]
      BY <1>6, <2>1
    <3>2. PICK e \in i + 2 .. Len(s) : e = n + 1
      BY <1>3, <3>1
    <3>3. i \in 1 .. Len(s) /\ s[i] = 27 /\ s[i + 1] = 91 /\ s[e] = b
      BY <1>3, <3>1, <3>2
    <3>4. ASSUME NEW j \in i + 2 .. e - 1 PROVE s[j] \in 48 .. 57 \cup {59}
      <4>1. j \in 1 .. n /\ j \in i + 2 .. n
        BY <1>3, <3>2
      <4> QED
        BY <1>3, <3>1, <4>1, Zenon
    <3>a. s[e] \notin 48 .. 57 \cup {59}
      BY <1>8, <3>3, Zenon
    <3>5. Ends(s, i) # {} /\ Min(Ends(s, i)) = e
      <4>1. ColourAt(s, i, e)
        BY <3>3, <3>4, <3>a DEF ColourAt
      <4> QED
        BY <4>1, ColourEnds
    <3>6. /\ b \in 64 .. 126 \ {109} => Unit(s, i, e) = <<OtherEffect>>
          /\ b \notin 64 .. 126 \ {109} => Unit(s, i, e) = <<>>
      <4>1. ColourAt(s, i, e)
        BY <3>3, <3>4, <3>a DEF ColourAt
      <4>2. /\ s[e] \in 64 .. 126 \ {109} => Unit(s, i, e) = <<OtherEffect>>
            /\ s[e] \notin 64 .. 126 \ {109} => Unit(s, i, e) = <<>>
        BY <4>1, ColourShows
      <4> QED
        BY <3>3, <4>2, Zenon
    <3> QED
      BY <3>2, <3>5, <3>6, Zenon
  <2>2. CASE b \in 64 .. 126 \ {109}
    <3>1. i \in 1 .. Len(t2) /\ Ends(t2, i) # {} /\ Min(Ends(t2, i)) = n + 1
      BY <1>3, <1>4, <2>1
    <3>2. Unit(t2, i, Min(Ends(t2, i))) = <<OtherEffect>>
      BY <1>4, <2>1, <2>2, <3>1, Zenon
    <3> QED
      BY <1>4, <1>5, <3>1, <3>2, OtherIsNoText
  <2>3. CASE b \notin 64 .. 126 \ {109}
    <3>1. screen' = screen /\ ansi_parser_state' = "GROUND" /\ utf8_needed' = 0
      <4>1. CASE b = 109
        <5>1. CsiFinal(b)
          BY <1>8, <4>1 DEF CsiDigit, CsiSeparator, CsiClear, ClearsAll, CsiAbort
        <5>2. \A ps : MoveCursor(screen, b, ps) = screen
          BY <4>1 DEF MoveCursor
        <5>3. \A mode : EraseBy(screen, b, mode) = screen
          BY <4>1 DEF EraseBy
        <5> QED
          BY <1>3, <5>1, <5>2, <5>3 DEF CsiFinal
      <4>2. CASE b # 109
        BY <1>3, <1>8, <2>3, <4>2
        DEF CsiDigit, CsiSeparator, CsiClear, ClearsAll, CsiFinal, CsiAbort
      <4> QED
        BY <4>1, <4>2
    <3>2. i \in 1 .. Len(t2) /\ n + 1 \in i .. Len(t2) /\ <<>> \in Seq(TextUnit)
      BY <1>3, <1>4, EmptySeq
    <3>3. PICK e \in i .. Len(t2) : e = n + 1
      BY <3>2
    <3>4. \A s \in Text : Extends(s, t2) =>
              Ends(s, i) # {} /\ Min(Ends(s, i)) = e /\ Unit(s, i, e) = <<>>
      BY <2>1, <2>3, <3>3
    <3>5. Begins(t2, us \o <<>>, e + 1)
      BY <1>4, <1>5, <3>2, <3>4, UnitEnds
    <3>6. Begins(t2, us \o <<>>, Len(t2) + 1)
      BY <1>4, <3>3, <3>5
    <3>7. Follows(t2, "GROUND", 0, screen')
      BY <1>1, <1>4, <3>1, <3>6, Unchanged
    <3> QED
      BY <3>1, <3>7
  <2> QED
    BY <2>2, <2>3
<1> QED
  BY <1>7, <1>8

\* A byte while a multi-byte character has begun (console.c:481-558).
LEMMA InCharacter ==
    ASSUME NEW t \in Text, NEW b \in 0 .. 255, Follows(t, "GROUND", utf8_needed, screen),
           utf8_needed # 0, console_handle_ground_byte(b), IsText(Append(t, b))
    PROVE  Follows(Append(t, b), ansi_parser_state', utf8_needed', screen')
<1>0. \A s \in Text : Extends(s, Append(t, b)) =>
          /\ Extends(s, t) /\ Len(s) \in Nat /\ Len(t) + 1 <= Len(s) /\ s[Len(t) + 1] = b
          /\ \A j \in 1 .. Len(t) : s[j] = t[j]
  BY GoesOn, Zenon
<1> DEFINE t2 == Append(t, b)
<1>1. PICK us \in Seq(TextUnit), i \in 1 .. Len(t) + 1 :
          Begins(t, us, i) /\ Reading(t, i, "GROUND", utf8_needed) /\ Shown(us, screen)
  BY DEF Follows
<1>2. PICK n \in Nat : n = Len(t)
  BY TextByte
<1>3. /\ i \in 1 .. n /\ Following(t[i]) > 0 /\ utf8_needed > 0
      /\ utf8_needed = Following(t[i]) - (n - i)
      /\ \A j \in i + 1 .. n : t[j] \in 128 .. 191
  BY <1>1, <1>2 DEF Reading
<1>b. i \in 1 .. n /\ \A j \in i + 1 .. n : t[j] \in 128 .. 191
  BY <1>3
<1>a. PICK f \in 1 .. 3 : f = Following(t[i]) /\ utf8_needed = f - (n - i) /\ utf8_needed > 0
  <2>0. \A j \in 1 .. n : t[j] \in 0 .. 255
    BY <1>2, TextByte
  <2>1. PICK c \in 0 .. 255 : c = t[i]
    BY <1>b, <2>0
  <2>2. Following(c) \in 0 .. 3
    BY FollowingIs
  <2>3. PICK f \in 0 .. 3 : f = Following(t[i])
    BY <2>1, <2>2
  <2> QED
    BY <1>3, <2>3
<1>4. /\ t2 \in Text /\ Len(t2) = n + 1 /\ t2[n + 1] = b /\ Extends(t2, t2)
      /\ \A j \in 1 .. n : t2[j] = t[j]
  BY <1>2, TextGrows, TextByte
<1>5. Begins(t2, us, i) /\ IsText(t2)
  BY <1>1, BeginsStays
<1>6. \A s \in Text : Extends(s, t2) => /\ Len(s) \in Nat /\ n + 1 <= Len(s) /\ s[n + 1] = b
                                        /\ \A j \in 1 .. n : s[j] = t[j]
  BY <1>0, <1>2
<1> SUFFICES Follows(t2, ansi_parser_state', utf8_needed', screen')
  OBVIOUS
<1> HIDE DEF t2
<1>7. CASE b \in 128 .. 191 /\ utf8_needed > 1
  <2>1. PICK k \in Nat \ {0} : k = f - (n - i) - 1 /\ k = utf8_needed - 1
    BY <1>a, <1>3, <1>7
  <2>2. screen' = screen /\ ansi_parser_state' = "GROUND" /\ utf8_needed' = k
    BY <1>7, <2>1
    DEF console_handle_ground_byte, GroundAscii, GroundUtf8, console_emit_utf8_byte
  <2>3. Reading(t2, i, "GROUND", k)
    <3>1. i <= Len(t2) /\ t2[i] = t[i] /\ k = Following(t2[i]) - (Len(t2) - i)
      BY <1>a, <1>3, <1>4, <2>1
    <3>2. ASSUME NEW j \in i + 1 .. n + 1 PROVE t2[j] \in 128 .. 191
      <4>1. CASE j = n + 1
        BY <1>4, <1>7, <4>1
      <4>2. CASE j # n + 1
        <5>1. j \in 1 .. n /\ j \in i + 1 .. n
          BY <1>b, <4>2
        <5>2. t2[j] = t[j]
          BY <1>4, <5>1
        <5>3. t[j] \in 128 .. 191
          BY <1>b, <5>1
        <5> QED
          BY <5>2, <5>3
      <4> QED
        BY <4>1, <4>2
    <3>3. Following(t2[i]) > 0 /\ k > 0
      BY <1>3, <2>1, <3>1
    <3> QED
      BY <1>4, <3>1, <3>2, <3>3 DEF Reading
  <2>4. Shown(us, screen') /\ i \in 1 .. Len(t2) + 1
    BY <1>1, <1>3, <1>4, <2>2
  <2> QED
    BY <1>5, <2>2, <2>3, <2>4, Zenon DEF Follows
<1>8. CASE ~ (b \in 128 .. 191 /\ utf8_needed > 1)
  <2>1. ASSUME NEW s \in Text, Extends(s, t2)
        PROVE  /\ Ends(s, i) # {} /\ Min(Ends(s, i)) = n + 1
               /\ b < 128 => Unit(s, i, n + 1) = <<OtherEffect>>
               /\ b >= 128 => Unit(s, i, n + 1) = <<63>>
    <3>1. /\ Len(s) \in Nat /\ n + 1 <= Len(s) /\ s[n + 1] = b
          /\ \A j \in 1 .. n : s[j] = t[j]
      BY <1>6, <2>1
    <3>2. PICK e \in i + 1 .. Len(s) : e = n + 1
      BY <1>3, <3>1
    <3>3. i \in 1 .. Len(s) /\ f = Following(s[i]) /\ s[e] = b
      BY <1>3, <1>a, <3>1, <3>2
    <3>4. ASSUME NEW j \in i + 1 .. e - 1 PROVE s[j] \in 128 .. 191
      <4>1. j \in 1 .. n /\ j \in i + 1 .. n
        BY <1>b, <3>2
      <4>2. s[j] = t[j]
        BY <3>1, <4>1
      <4>3. t[j] \in 128 .. 191
        BY <1>b, <4>1
      <4> QED
        BY <4>2, <4>3
    <3>5. e <= i + f /\ (e = i + f \/ s[e] \notin 128 .. 191)
      <4>1. e <= i + f
        BY <1>a, <3>2
      <4>2. utf8_needed <= 1 => e = i + f
        BY <1>a, <3>2
      <4>3. utf8_needed <= 1 \/ b \notin 128 .. 191
        BY <1>8, <1>a
      <4> QED
        BY <3>3, <4>1, <4>2, <4>3
    <3>6. Ends(s, i) # {} /\ Min(Ends(s, i)) = e /\ s[i] >= 128
      <4>1. CharacterAt(s, i, e, f)
        BY <3>3, <3>4, <3>5 DEF CharacterAt
      <4> QED
        BY <4>1, CharacterEnds
    <3>7. /\ b < 128 => Unit(s, i, e) = <<OtherEffect>>
          /\ b >= 128 => Unit(s, i, e) = <<63>>
      <4>1. PICK c \in 0 .. 255 : c = s[i] /\ c >= 128
        BY <3>3, <3>6, TextByte
      <4>2. b >= 128 => ~ (s[e] < 128)
        BY <3>3
      <4>3. b < 128 => s[e] < 128
        BY <3>3
      <4> QED
        BY <4>1, <4>2, <4>3, UnitIs
    <3> QED
      BY <3>2, <3>6, <3>7, Zenon
  <2>2. CASE b < 128
    <3>1. i \in 1 .. Len(t2) /\ Ends(t2, i) # {} /\ Min(Ends(t2, i)) = n + 1
      BY <1>3, <1>4, <2>1
    <3>2. Unit(t2, i, Min(Ends(t2, i))) = <<OtherEffect>>
      BY <1>4, <2>1, <2>2, <3>1, Zenon
    <3> QED
      BY <1>4, <1>5, <3>1, <3>2, OtherIsNoText
  <2>3. CASE b >= 128
    <3>1. /\ screen' = raw_put_visible(screen, Shape(63))
          /\ ansi_parser_state' = "GROUND" /\ utf8_needed' = 0
      <4>1. ~ (utf8_needed > 1 /\ b < 192) /\ utf8_needed # 0 /\ ~ (b < 128)
        BY <1>8, <2>3
      <4> QED
        BY <4>1
        DEF console_handle_ground_byte, GroundAscii, GroundUtf8, console_emit_utf8_byte, Unknown
    <3>2. i \in 1 .. Len(t2) /\ n + 1 \in i .. Len(t2) /\ 63 \in TextUnit
      BY <1>3, <1>4 DEF TextUnit
    <3>3. PICK e \in i .. Len(t2) : e = n + 1
      BY <3>2
    <3>4. \A s \in Text : Extends(s, t2) =>
              Ends(s, i) # {} /\ Min(Ends(s, i)) = e /\ Unit(s, i, e) = <<63>>
      BY <2>1, <2>3, <3>3
    <3>a. <<63>> \in Seq(TextUnit)
      BY <3>2
    <3>5. Begins(t2, us \o <<63>>, e + 1)
      BY <1>4, <1>5, <3>2, <3>4, <3>a, UnitEnds
    <3>6. Begins(t2, us \o <<63>>, Len(t2) + 1)
      BY <1>4, <3>3, <3>5
    <3>7. Shown(Append(us, 63), screen')
      BY <1>1, <3>1, ShownGlyph
    <3>8. Follows(t2, "GROUND", 0, screen')
      BY <1>4, <3>2, <3>6, <3>7, Grown
    <3> QED
      BY <3>1, <3>8
  <2> QED
    BY <2>2, <2>3
<1> QED
  BY <1>7, <1>8

-----------------------------------------------------------------------------
(* Text on the screen.                                                     *)

\* Whatever byte is written, if what is written is text.
LEMMA TextStep ==
    ASSUME NEW t \in Text, NEW b \in 0 .. 255, console_putc(b), IsText(Append(t, b)),
           Follows(t, ansi_parser_state, utf8_needed, screen)
    PROVE  Follows(Append(t, b), ansi_parser_state', utf8_needed', screen')
<1>1. CASE ansi_parser_state = "GROUND" /\ console_handle_ground_byte(b)
  <2>1. Follows(t, "GROUND", utf8_needed, screen)
    BY <1>1
  <2>2. CASE utf8_needed = 0
    <3>1. PICK us \in Seq(TextUnit), i \in 1 .. Len(t) + 1 :
              Begins(t, us, i) /\ Reading(t, i, "GROUND", utf8_needed) /\ Shown(us, screen)
      BY <2>1 DEF Follows
    <3>2. i = Len(t) + 1
      BY <2>2, <3>1 DEF Reading
    <3>3. Begins(Append(t, b), us, Len(t) + 1)
      BY <3>1, <3>2, BeginsStays
    <3> QED
      BY <1>1, <2>2, <3>1, <3>3, FreshByte
  <2>3. CASE utf8_needed # 0
    BY <1>1, <2>1, <2>3, InCharacter
  <2> QED
    BY <2>2, <2>3
<1>2. CASE ansi_parser_state = "ESC" /\ b # 91 /\ console_handle_ground_byte(b)
  <2>1. Follows(t, "ESC", utf8_needed, screen)
    BY <1>2
  <2> QED
    BY <1>2, <2>1, AfterEsc
<1>3. CASE StartCsi(b)
  <2>1. Follows(t, "ESC", utf8_needed, screen)
    BY <1>3 DEF StartCsi
  <2> QED
    BY <1>3, <2>1, StartsSequence
<1>4. CASE /\ ansi_parser_state = "CSI"
           /\ CsiDigit(b) \/ CsiSeparator(b) \/ CsiClear(b) \/ CsiFinal(b) \/ CsiAbort(b)
  <2>1. Follows(t, "CSI", utf8_needed, screen)
    BY <1>4
  <2> QED
    BY <1>4, <2>1, InSequence
<1> QED
  BY <1>1, <1>2, <1>3, <1>4 DEF console_putc

\* Nothing is written to an empty screen yet.
LEMMA NothingFollows ==
    ASSUME NEW rows \in Nat \ {0}, NEW cols \in Nat \ {0}
    PROVE  /\ <<>> \in Text
           /\ Follows(<<>>, "GROUND", 0, FreshScreen(rows, cols))
<1>1. <<>> \in Text /\ <<>> \in Seq(TextUnit) /\ Len(<<>>) = 0
  BY EmptySeq DEF Text
<1>2. Begins(<<>>, <<>>, 1)
  <2> SUFFICES ASSUME NEW s \in Text PROVE Units(s) = <<>> \o UnitsFrom(s, 1)
    BY DEF Begins
  <2>1. 1 \in 1 .. Len(s) + 1
    BY TextByte
  <2>2. UnitsFrom(s, 1) \in Seq(Int)
    BY <2>1, UnitsLoop
  <2> QED
    BY <2>2, ConcatEmptySeq DEF Units
<1>3. Reading(<<>>, 1, "GROUND", 0) /\ 1 \in 1 .. Len(<<>>) + 1
  BY <1>1 DEF Reading
<1>4. Shown(<<>>, FreshScreen(rows, cols))
  BY ShownFresh
<1> QED
  BY <1>1, <1>2, <1>3, <1>4, Zenon DEF Follows

\* What the console has shown and read of the text that is followed.
TextInv ==
    shown # NoText =>
        shown \in Text /\ Follows(shown, ansi_parser_state, utf8_needed, screen)

\* Clearing the screen starts the text again (console.c:642-660).
LEMMA ClearedFollows ==
    ASSUME NEW rows \in Nat \ {0}, NEW cols \in Nat \ {0}, ClearTo(rows, cols), shown' = <<>>
    PROVE  TextInv'
<1>1. /\ screen' = FreshScreen(rows, cols) /\ ansi_parser_state' = "GROUND"
      /\ utf8_needed' = 0
  BY DEF ClearTo
<1>2. shown' \in Text /\ Follows(shown', "GROUND", 0, screen')
  BY <1>1, NothingFollows
<1> QED
  BY <1>1, <1>2 DEF TextInv

\* The invariant is what the property says, and more.
LEMMA FollowsShows ==
    ASSUME TextInv
    PROVE  ScreenShowsText
<1>1. CASE shown = NoText
  BY <1>1 DEF ScreenShowsText
<1>2. CASE shown # NoText
  <2>1. shown \in Text /\ Follows(shown, ansi_parser_state, utf8_needed, screen)
    BY <1>2 DEF TextInv
  <2>2. PICK us \in Seq(TextUnit), i \in 1 .. Len(shown) + 1 :
            /\ Begins(shown, us, i) /\ Shown(us, screen)
            /\ Reading(shown, i, ansi_parser_state, utf8_needed)
    BY <2>1 DEF Follows
  <2>3. UnitsFrom(shown, i) = <<>>
    BY <2>1, <2>2, ReadingIsNoUnit
  <2>4. Units(shown) = us \o UnitsFrom(shown, i)
    BY <2>1, <2>2, TextByte DEF Begins
  <2>5. Units(shown) = us
    BY <2>3, <2>4, ConcatEmptySeq
  <2> QED
    BY <2>2, <2>5, ShownReads
<1> QED
  BY <1>1, <1>2

\* Every step keeps it.
LEMMA TextInvStep ==
    ASSUME Inv, TextInv, [Next]_textVars
    PROVE  TextInv'
<1>0. screen.rows \in Nat \ {0} /\ screen.cols \in Nat \ {0}
  BY DEF Inv, Sound, IsScreen
<1>1. ASSUME NEW b \in Byte, console_putc(b), Follow(b) PROVE TextInv'
  <2> SUFFICES ASSUME shown' # NoText
               PROVE  shown' \in Text /\ Follows(shown', ansi_parser_state', utf8_needed', screen')
    BY DEF TextInv
  <2>1. shown # NoText /\ IsText(Append(shown, b)) /\ shown' = Append(shown, b)
    BY <1>1 DEF Follow
  <2>2. b \in 0 .. 255
    BY ConsoleAssumption
  <2>3. shown \in Text /\ Follows(shown, ansi_parser_state, utf8_needed, screen)
    BY <2>1 DEF TextInv
  <2>4. Append(shown, b) \in Text
    BY <2>2, <2>3, TextGrows
  <2>5. Follows(Append(shown, b), ansi_parser_state', utf8_needed', screen')
    BY <1>1, <2>1, <2>2, <2>3, TextStep
  <2> QED
    BY <2>1, <2>4, <2>5
<1>2. CASE console_backspace /\ shown' = NoText
  BY <1>2 DEF TextInv
<1>3. CASE console_clear /\ shown' = <<>>
  BY <1>0, <1>3, ClearedFollows DEF console_clear
<1>4. CASE console_enable_framebuffer /\ shown' = <<>>
  <2> DEFINE rows == FbHeight \div GLYPH_HEIGHT
             cols == FbWidth \div GLYPH_WIDTH
  <2>1. rows \in Nat \ {0} /\ cols \in Nat \ {0}
    BY <1>4, ConsoleAssumption DEF console_enable_framebuffer
  <2> HIDE DEF rows, cols
  <2>2. /\ AtMost(FB_MAX_ROWS, rows) \in Nat \ {0}
        /\ AtMost(FB_MAX_COLS, cols) \in Nat \ {0}
    BY <2>1, ConsoleAssumption DEF AtMost
  <2> QED
    BY <1>4, <2>2, ClearedFollows DEF console_enable_framebuffer, rows, cols
<1>5. CASE UNCHANGED textVars
  <2>1. /\ shown' = shown /\ ansi_parser_state' = ansi_parser_state
        /\ utf8_needed' = utf8_needed /\ screen' = screen
    BY <1>5 DEF textVars, consoleVars
  <2> QED
    BY <2>1 DEF TextInv
<1> QED
  BY <1>1, <1>2, <1>3, <1>4, <1>5 DEF Next

\* Whatever bytes are written, in any order, and for every size of the text
\* screen and of the framebuffer: the screen shows the text since it was
\* cleared (console.c:242-293, 481-599, 642-709).
THEOREM ScreenIsText == Spec => []ScreenShowsText
<1>1. Init => TextInv
  <2> SUFFICES ASSUME Init PROVE TextInv
    OBVIOUS
  <2>1. VGA_HEIGHT \in Nat \ {0} /\ VGA_WIDTH \in Nat \ {0}
    BY ConsoleAssumption
  <2>2. /\ screen = FreshScreen(VGA_HEIGHT, VGA_WIDTH) /\ shown = <<>>
        /\ ansi_parser_state = "GROUND" /\ utf8_needed = 0
    BY DEF Init, console_init
  <2>3. shown \in Text /\ Follows(shown, "GROUND", 0, screen)
    BY <2>1, <2>2, NothingFollows
  <2> QED
    BY <2>2, <2>3 DEF TextInv
<1>2. Inv /\ TextInv /\ [Next]_textVars => TextInv'
  BY TextInvStep
<1>3. Init => console_init
  BY DEF Init
<1>4. [Next]_textVars => [ConsoleNext]_consoleVars
  BY DEF Next, ConsoleNext, textVars
<1>5. Spec => ConsoleSpec
  BY <1>3, <1>4, PTL DEF Spec, ConsoleSpec
<1>6. TextInv => ScreenShowsText
  BY FollowsShows
<1> QED
  BY <1>1, <1>2, <1>5, <1>6, ConsoleInvariant, PTL DEF Spec
=============================================================================
