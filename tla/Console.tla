------------------------------ MODULE Console ------------------------------
(***************************************************************************)
(* The console (console.c): the cells of the screen and its cursor, the    *)
(* parser of ANSI sequences and the UTF-8 decoder.  Colours of cells and   *)
(* the serial copy of the output are left out.                             *)
(***************************************************************************)
EXTENDS Screen, SequencesExt

CONSTANTS
    VGA_WIDTH, VGA_HEIGHT,          \* the text screen, in cells
    FbWidth, FbHeight,              \* the framebuffer found, in pixels
    GLYPH_WIDTH, GLYPH_HEIGHT,
    FB_MAX_COLS, FB_MAX_ROWS,
    ANSI_MAX_PARAMS,
    Byte,               \* the bytes that are written
    MaxParam            \* the largest parameter that is written

ASSUME ConsoleAssumption ==
    /\ VGA_WIDTH \in Nat \ {0} /\ VGA_HEIGHT \in Nat \ {0}
    /\ FbWidth \in Nat /\ FbHeight \in Nat
    /\ GLYPH_WIDTH \in Nat \ {0} /\ GLYPH_HEIGHT \in Nat \ {0}
    /\ FB_MAX_COLS \in Nat \ {0} /\ FB_MAX_ROWS \in Nat \ {0}
    /\ ANSI_MAX_PARAMS \in Nat
    /\ Byte \subseteq 0 .. 255
    /\ MaxParam \in Nat

VARIABLES
    g_backend,
    screen,             \* term_rows, term_cols, the cursor and the cells
    saved,              \* saved_cursor_row, saved_cursor_col
    color,              \* ansi_fg, ansi_bg
    ansi_parser_state,
    ansi_params,        \* the first ansi_param_count of them
    ansi_param_current,
    ansi_param_active,
    utf8_needed

paramVars == <<ansi_params, ansi_param_current, ansi_param_active>>
consoleVars == <<g_backend, screen, saved, color, ansi_parser_state, paramVars, utf8_needed>>

DefaultColor == [fg |-> 15, bg |-> 0]
-----------------------------------------------------------------------------
(* Control sequences *)

\* ansi_push_current_param: the parameters when one ends.
PushedParams ==
    IF (~ ansi_param_active /\ ansi_params = <<>>) \/ Len(ansi_params) >= ANSI_MAX_PARAMS
    THEN ansi_params
    ELSE Append(ansi_params, IF ansi_param_active THEN ansi_param_current ELSE 0)

ansi_param_at(ps, i, fallback) == IF i > Len(ps) THEN fallback ELSE ps[i]

\* Mutation: one past the end is let through.
ClampLate(x, size) == IF x \in 0 .. size THEN x ELSE size - 1

\* The cursor stays on the screen; a coordinate below zero, which the code
\* has as a very large number, is clamped to the far end too.
Clamp(x, size) == IF x \in 0 .. size - 1 THEN x ELSE size - 1

AtLeastOne(n) == IF n < 1 THEN 1 ELSE n

\* 'A' to 'D', 'H' and 'f', and 'u'.
MoveCursor(s, final, ps) ==
    LET n == AtLeastOne(ansi_param_at(ps, 1, 1))
    IN  CASE final = 65         -> [s EXCEPT !.row = IF @ > n THEN @ - n ELSE 0]
          [] final = 66         -> [s EXCEPT !.row = Clamp(@ + n, s.rows)]
          [] final = 67         -> [s EXCEPT !.col = Clamp(@ + n, s.cols)]
          [] final = 68         -> [s EXCEPT !.col = IF @ > n THEN @ - n ELSE 0]
          [] final \in {72, 102} ->
                 [s EXCEPT !.row = Clamp(ansi_param_at(ps, 1, 1) - 1, s.rows),
                           !.col = Clamp(ansi_param_at(ps, 2, 1) - 1, s.cols)]
          [] final = 117        -> [s EXCEPT !.row = Clamp(saved.row, s.rows),
                                             !.col = Clamp(saved.col, s.cols)]
          [] OTHER              -> s

\* 'J', but for the mode that clears the whole console, and 'K'.
EraseBy(s, final, mode) ==
    CASE final = 74 /\ mode = 0 -> Erase(s, FromCursor(s))
      [] final = 74 /\ mode = 1 -> Erase(s, UpToCursor(s))
      [] final = 75 /\ mode = 0 -> Erase(s, FromCursor(s) \cap RowOf(s))
      [] final = 75 /\ mode = 1 -> Erase(s, UpToCursor(s) \cap RowOf(s))
      [] final = 75 /\ mode = 2 -> Erase(s, RowOf(s))
      [] OTHER                  -> s

ansi_color_to_vga(c, bright) ==
    <<0, 4, 2, 6, 1, 5, 3, 7>>[c + 1] + (IF bright THEN 8 ELSE 0)

ansi_sgr_apply(c, code) ==
    CASE code = 0              -> DefaultColor
      [] code = 1              -> [c EXCEPT !.fg = IF @ < 8 THEN @ + 8 ELSE @]
      [] code = 22             -> [c EXCEPT !.fg = IF @ >= 8 THEN @ - 8 ELSE @]
      [] code \in 30 .. 37     -> [c EXCEPT !.fg = ansi_color_to_vga(code - 30, FALSE)]
      [] code \in 90 .. 97     -> [c EXCEPT !.fg = ansi_color_to_vga(code - 90, TRUE)]
      [] code = 39             -> [c EXCEPT !.fg = 15]
      [] code \in 40 .. 47     -> [c EXCEPT !.bg = ansi_color_to_vga(code - 40, FALSE)]
      [] code \in 100 .. 107   -> [c EXCEPT !.bg = ansi_color_to_vga(code - 100, TRUE)]
      [] code = 49             -> [c EXCEPT !.bg = 0]
      [] OTHER                 -> c

Recolored(ps) == FoldLeft(ansi_sgr_apply, color, IF ps = <<>> THEN <<0>> ELSE ps)
-----------------------------------------------------------------------------
(* The operations *)

ansi_reset_params ==
    ansi_params' = <<>> /\ ansi_param_current' = 0 /\ ansi_param_active' = FALSE

\* Mutation: the decoder is not reset.
ClearKeepsDecoder(rows, cols) ==
    /\ color' = DefaultColor
    /\ ansi_parser_state' = "GROUND" /\ ansi_reset_params
    /\ screen' = FreshScreen(rows, cols)
    /\ saved' = [row |-> 0, col |-> 0]
    /\ UNCHANGED utf8_needed

\* console_clear, for a screen of the given size.
ClearTo(rows, cols) ==
    /\ color' = DefaultColor
    /\ ansi_parser_state' = "GROUND" /\ ansi_reset_params
    /\ utf8_needed' = 0
    /\ screen' = FreshScreen(rows, cols)
    /\ saved' = [row |-> 0, col |-> 0]

console_clear == ClearTo(screen.rows, screen.cols) /\ UNCHANGED g_backend

console_init ==
    /\ g_backend = "VGA"
    /\ screen = FreshScreen(VGA_HEIGHT, VGA_WIDTH)
    /\ saved = [row |-> 0, col |-> 0]
    /\ color = DefaultColor
    /\ ansi_parser_state = "GROUND"
    /\ ansi_params = <<>> /\ ansi_param_current = 0 /\ ansi_param_active = FALSE
    /\ utf8_needed = 0

AtMost(max, n) == IF n > max THEN max ELSE n

\* kernel_main tries this once; it succeeds if a glyph fits.
console_enable_framebuffer ==
    /\ g_backend = "VGA"
    /\ FbWidth >= GLYPH_WIDTH /\ FbHeight >= GLYPH_HEIGHT
    /\ g_backend' = "FB"
    /\ ClearTo(AtMost(FB_MAX_ROWS, FbHeight \div GLYPH_HEIGHT),
               AtMost(FB_MAX_COLS, FbWidth \div GLYPH_WIDTH))

console_backspace ==
    /\ screen' = EraseBack(screen)
    /\ UNCHANGED <<g_backend, saved, color, ansi_parser_state, paramVars, utf8_needed>>
-----------------------------------------------------------------------------
(* console_putc: the byte in the ground state.  A byte below 0x80 does not *)
(* reach the decoder, and leaves a sequence that has begun as it is.       *)

GroundAscii(b) ==
    /\ b < 128
    /\ screen' = PutByte(screen, b)
    /\ ansi_parser_state' = IF b = 27 THEN "ESC" ELSE "GROUND"
    /\ UNCHANGED <<g_backend, saved, color, paramVars, utf8_needed>>

\* How many bytes follow a lead byte; 0 for a byte that is none.
Following(b) ==
    CASE b \in 192 .. 223 -> 1
      [] b \in 224 .. 239 -> 2
      [] b \in 240 .. 247 -> 3
      [] OTHER            -> 0

\* Whether valid, overlong or broken, what ends a sequence puts a '?': valid
\* sequences are of code points above 0x7F, and those have no glyph.
console_emit_utf8_byte(b) ==
    LET starts == utf8_needed = 0 /\ Following(b) > 0
        goes_on == utf8_needed > 1 /\ b < 192
    IN  /\ utf8_needed' = IF starts THEN Following(b)
                          ELSE IF goes_on THEN utf8_needed - 1 ELSE 0
        /\ screen' = IF starts \/ goes_on THEN screen
                     ELSE raw_put_visible(screen, Unknown)

GroundUtf8(b) ==
    /\ b >= 128
    /\ console_emit_utf8_byte(b)
    /\ ansi_parser_state' = "GROUND"
    /\ UNCHANGED <<g_backend, saved, color, paramVars>>

console_handle_ground_byte(b) == GroundAscii(b) \/ GroundUtf8(b)

StartCsi(b) ==
    /\ ansi_parser_state = "ESC" /\ b = 91
    /\ ansi_parser_state' = "CSI" /\ ansi_reset_params
    /\ UNCHANGED <<g_backend, screen, saved, color, utf8_needed>>

CsiDigit(b) ==
    /\ b \in 48 .. 57
    /\ ansi_param_current * 10 + (b - 48) <= MaxParam
    /\ ansi_param_current' = ansi_param_current * 10 + (b - 48)
    /\ ansi_param_active' = TRUE
    /\ UNCHANGED <<g_backend, screen, saved, color, ansi_parser_state, ansi_params, utf8_needed>>

CsiSeparator(b) ==
    /\ b = 59
    /\ ansi_params' = PushedParams
    /\ ansi_param_current' = 0 /\ ansi_param_active' = FALSE
    /\ UNCHANGED <<g_backend, screen, saved, color, ansi_parser_state, utf8_needed>>

ClearsAll(b) == b = 74 /\ ansi_param_at(PushedParams, 1, 0) = 2

CsiClear(b) == ClearsAll(b) /\ console_clear

CsiFinal(b) ==
    /\ b \in 64 .. 126 /\ ~ ClearsAll(b)
    /\ screen' = EraseBy(MoveCursor(screen, b, PushedParams), b,
                         ansi_param_at(PushedParams, 1, 0))
    /\ saved' = IF b = 115 THEN [row |-> screen.row, col |-> screen.col] ELSE saved
    /\ color' = IF b = 109 THEN Recolored(PushedParams) ELSE color
    /\ ansi_parser_state' = "GROUND" /\ ansi_reset_params
    /\ UNCHANGED <<g_backend, utf8_needed>>

\* Any other byte ends the sequence, and is lost.
CsiAbort(b) ==
    /\ b \notin 48 .. 57 \cup {59} \cup 64 .. 126
    /\ ansi_parser_state' = "GROUND"
    /\ UNCHANGED <<g_backend, screen, saved, color, paramVars, utf8_needed>>

console_putc(b) ==
    \/ /\ ansi_parser_state = "GROUND" \/ (ansi_parser_state = "ESC" /\ b # 91)
       /\ console_handle_ground_byte(b)
    \/ StartCsi(b)
    \/ /\ ansi_parser_state = "CSI"
       /\ CsiDigit(b) \/ CsiSeparator(b) \/ CsiClear(b) \/ CsiFinal(b) \/ CsiAbort(b)

ConsoleNext ==
    \/ \E b \in Byte : console_putc(b)
    \/ console_backspace
    \/ console_clear
    \/ console_enable_framebuffer

ConsoleSpec == console_init /\ [][ConsoleNext]_consoleVars
-----------------------------------------------------------------------------
\* The cursor and the position saved for it are cells of the screen, whatever
\* text, control sequences and backspaces come, in any order, and when the
\* screen changes its size (console.c:242-293, 394-479, 711-724).
CursorInside ==
    {<<screen.row, screen.col>>, <<saved.row, saved.col>>}
        \subseteq Cells(screen.rows, screen.cols)
=============================================================================
