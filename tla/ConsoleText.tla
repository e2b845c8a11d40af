---------------------------- MODULE ConsoleText ----------------------------
(***************************************************************************)
(* The console against a reference: what the screen should show for all    *)
(* the text written since it was cleared, computed from the whole text,    *)
(* with no cursor, scrolling or parser states.                             *)
(***************************************************************************)
EXTENDS Console

CONSTANT MaxShown       \* the longest text that is followed

\* The bytes written since the screen was cleared, or NoText when there are
\* too many, or when they did more than add text at the end.
VARIABLE shown

NoText == <<-1>>
OtherEffect == -1           \* stands for a unit that does more

\* Where the unit that starts at i may end: a colour sequence at a byte that
\* is neither digit nor ';', a multi-byte character at its last byte or at one
\* that breaks it off.  An Esc without '[' and any other byte stand alone.
Ends(t, i) ==
    CASE t[i] = 27 /\ (i = Len(t) \/ t[i + 1] = 91) ->
             {e \in i + 2 .. Len(t) : t[e] \notin 48 .. 57 \cup {59}}
      [] Following(t[i]) > 0 ->
             {e \in i + 1 .. Len(t) : e = i + Following(t[i]) \/ t[e] \notin 128 .. 191}
      [] OTHER -> {i}

\* The units of a text from i on: glyphs, tabs and newlines.  A sequence that
\* sets colours is none; a multi-byte character is one '?', and so is one
\* that another lead byte cuts short.  One that has not ended is none yet.
Unit(t, i, e) ==
    CASE t[i] = 27 -> IF e > i /\ t[e] \in 64 .. 126 \ {109} THEN <<OtherEffect>> ELSE <<>>
      [] t[i] >= 128 -> IF t[e] < 128 THEN <<OtherEffect>> ELSE <<63>>
      [] t[i] \in {8, 13} -> <<OtherEffect>>
      [] t[i] \in {9, 10} \cup 32 .. 127 -> <<t[i]>>
      [] OTHER -> <<>>

UnitsFrom(t, first) ==
    LET units[i \in 1 .. Len(t) + 1] ==
            IF i > Len(t) \/ Ends(t, i) = {} THEN <<>>
            ELSE Unit(t, i, Min(Ends(t, i))) \o units[Min(Ends(t, i)) + 1]
    IN  units[first]

Units(t) == UnitsFrom(t, 1)

IsText(t) == \A i \in DOMAIN Units(t) : Units(t)[i] # OtherEffect

\* How many cells a unit takes, in reading order, when it starts in this
\* column: a newline takes the rest of its row.
Width(u, col, cols) ==
    CASE u = 10 -> cols - col
      [] u = 9  -> 4 - (col % 4)
      [] OTHER  -> 1

\* The cell each unit starts in, and the cell after the last one.
Places(us, cols) ==
    LET place[k \in 1 .. Len(us) + 1] ==
            IF k = 1 THEN 0
            ELSE place[k - 1] + Width(us[k - 1], place[k - 1] % cols, cols)
    IN  place

\* The glyph that stands in the n-th cell, if there is one.
GlyphsAt(us, place, n) == {k \in DOMAIN us : us[k] \notin {9, 10} /\ place[k] = n}
-----------------------------------------------------------------------------
textVars == <<consoleVars, shown>>

Follow(b) ==
    shown' = IF shown # NoText /\ Len(shown) < MaxShown /\ IsText(Append(shown, b))
             THEN Append(shown, b)
             ELSE NoText

Init == console_init /\ shown = <<>>

Next ==
    \/ \E b \in Byte : console_putc(b) /\ Follow(b)
    \/ console_backspace /\ shown' = NoText
    \/ console_clear /\ shown' = <<>>
    \/ console_enable_framebuffer /\ shown' = <<>>

Spec == Init /\ [][Next]_textVars
-----------------------------------------------------------------------------
\* The screen shows the last rows of what was written since it was cleared,
\* wrapped at its width, every character once, no byte of a colour sequence,
\* and the cursor at the end; whatever was going on before it was cleared, a
\* half-read sequence or character included (console.c:242-293, 481-599,
\* 642-709).
ScreenShowsText ==
    shown # NoText =>
        LET us == Units(shown)
            place == Places(us, screen.cols)
            end == place[Len(us) + 1]
            last == end \div screen.cols
            top == IF last < screen.rows THEN 0 ELSE last - screen.rows + 1
        IN  /\ screen.row = last - top /\ screen.col = end % screen.cols
            /\ \A p \in DOMAIN screen.cells :
                   LET here == GlyphsAt(us, place, (top + p[1]) * screen.cols + p[2])
                   IN  IF here = {} THEN screen.cells[p] = Blank
                       ELSE \A k \in here : screen.cells[p] = Shape(us[k])
=============================================================================
