-------------------------------- MODULE Echo --------------------------------
(***************************************************************************)
(* What the user sees while typing: the tty echoes from the poll, the      *)
(* shell prints from its own loop, and both write to the one screen.  The  *)
(* steps are those of InputPath, each with its output.  The prompt and the *)
(* answers are plain text here; Console has the control sequences.         *)
(***************************************************************************)
EXTENDS Typing

CONSTANTS
    Rows, Cols,         \* of the screen
    Prompt,             \* what shell_prompt prints
    ClearCommand,       \* the command line that clears the screen
    Answers             \* what other commands print, up to the newline

ASSUME EchoAssumption ==
    /\ Rows \in Nat \ {0} /\ Cols \in Nat \ {0}
    /\ Prompt \in Seq(Octet) /\ Prompt # <<>> /\ Answers \subseteq Seq(Octet)
    /\ (Rows - 1) * Cols >= TTY_LINE_BUFFER_SIZE    \* a line is never scrolled off

VARIABLES
    screen,
    received,           \* history: every byte the tty handled, in order
    intact,             \* history: nothing else was printed into the line
    margin              \* history: the cell to the left of the line

echoVars == <<inputVars, screen, received, intact, margin>>

Glyph(b) == b
Scr == INSTANCE Screen WITH Shape <- Glyph

console_write(s, text) ==
    LET after[i \in 0 .. Len(text)] ==
            IF i = 0 THEN s ELSE Scr!PutByte(after[i - 1], text[i])
    IN  after[Len(text)]

\* The cell k before the cursor, in reading order.
CellBefore(s, k) ==
    LET n == s.row * s.cols + s.col - k
    IN  IF n < 0 THEN Scr!Blank ELSE s.cells[<<n \div s.cols, n % s.cols>>]

EchoInit ==
    /\ InputInit
    /\ screen = console_write(Scr!FreshScreen(Rows, Cols), Prompt)
    /\ received = <<>>
    /\ intact = TRUE
    /\ margin = CellBefore(screen, 1)
-----------------------------------------------------------------------------
\* Mutation: Backspace is echoed on an empty line too.
EchoedBlindly(s, b) ==
    CASE Escaping(b)                          -> s
      [] ~ Escaping(b) /\ b = CtrlC           -> console_write(s, <<94, 67, Newline>>)
      [] ~ Escaping(b) /\ b \in {Backspace, Del} -> Scr!EraseBack(s)
      [] ~ Escaping(b) /\ b = Newline         -> Scr!PutByte(s, b)
      [] ~ Escaping(b) /\ tty_is_printable(b) /\ b # Del /\ ~ LineFull -> Scr!PutByte(s, b)
      [] OTHER                                -> s

\* The echo of tty_handle_canonical; the bell of a full line shows nothing.
Echoed(s, b) ==
    CASE Escaping(b)                          -> s
      [] ~ Escaping(b) /\ b = CtrlC           -> console_write(s, <<94, 67, Newline>>)
      [] ~ Escaping(b) /\ b \in {Backspace, Del} ->
             IF tty_line = <<>> THEN s ELSE Scr!EraseBack(s)
      [] ~ Escaping(b) /\ b = Newline         -> Scr!PutByte(s, b)
      [] ~ Escaping(b) /\ tty_is_printable(b) /\ b # Del /\ ~ LineFull -> Scr!PutByte(s, b)
      [] OTHER                                -> s

\* Ctrl-L: the shell prints its buffer as a string, not its first shell_len
\* bytes.
ShellString ==
    LET end == CHOOSE i \in 0 .. SHELL_LINE_MAX - 1 :
                   shell_line[i] = 0 /\ \A j \in 0 .. i - 1 : shell_line[j] # 0
    IN  [i \in 1 .. end |-> shell_line[i - 1]]

\* What the shell prints on a byte, prompt included, if a command prints this.
Printed(s, c, answer) ==
    CASE c = CtrlC   -> console_write(s, Prompt)
      [] c = CtrlL   -> console_write(Scr!FreshScreen(Rows, Cols),
                            Prompt \o (IF shell_len > 0 THEN ShellString ELSE <<>>))
      [] c = Newline /\ Command = <<>> -> console_write(s, Prompt)
      [] c = Newline /\ Command = ClearCommand ->
             console_write(Scr!FreshScreen(Rows, Cols), Prompt)
      [] c = Newline /\ Command \notin {<<>>, ClearCommand} ->
             console_write(s, Append(answer, Newline) \o Prompt)
      [] OTHER       -> s
-----------------------------------------------------------------------------
\* When the line becomes empty other than by erasing it, a new one starts
\* after what is then on the screen.
Watch(other) ==
    /\ intact' = (tty_line' = <<>> \/ (intact /\ ~ other))
    /\ margin' = IF tty_line' = <<>> /\ (other \/ ~ intact)
                 THEN CellBefore(screen', 1) ELSE margin

\* A byte through the tty: a tab is echoed as several cells, and a handed
\* over line is no longer the tty's.
EchoByte(b) ==
    /\ screen' = Echoed(screen, b)
    /\ received' = Append(received, b)
    /\ Watch(~ Escaping(b) /\ b \in {CtrlC, CtrlD, Newline, 9})

\* Output of the shell.
Show(s) ==
    /\ screen' = s
    /\ UNCHANGED received
    /\ Watch(s # screen)

ShownMainLoop ==
    \/ PollByte /\ EchoByte(Head(kbd_bytes))
    \/ InjectByte /\ EchoByte(IF injected = SelftestLine - 1 THEN Newline ELSE 120)
    \/ RunByte /\ \E answer \in Answers : Show(Printed(screen, NextChar, answer))
    \/ /\ RefuseSelftest \/ EndSelftest
       /\ \E answer \in Answers :
              Show(console_write(screen, Append(answer, Newline) \o Prompt))
    \/ /\ PollDone \/ ReadChunk \/ ReadNothing \/ ChunkDone \/ Hlt \/ StartSelftest
       /\ UNCHANGED <<screen, received, intact, margin>>

EchoNext ==
    \/ ShownMainLoop
    \/ /\ (\E s \in Stroke : Strike(s)) \/ TimerTick
       /\ UNCHANGED <<screen, received, intact, margin>>

EchoSpec == EchoInit /\ [][EchoNext]_echoVars
-----------------------------------------------------------------------------
\* As long as the shell has not printed into the line being typed, which it
\* does for what is typed ahead, and no tab is in it, the cells before the
\* cursor show exactly the line that Enter will hand over, across the edge of
\* the screen and its scrolling, and the cell before it is as it was: however
\* often Backspace is struck, the prompt and what was printed before are not
\* erased (tty.c:99-168, console.c:711-724).
EchoShowsLine ==
    intact => /\ \A k \in DOMAIN tty_line :
                     CellBefore(screen, Len(tty_line) + 1 - k) = tty_line[k]
              /\ CellBefore(screen, Len(tty_line) + 1) = margin

\* Unless something was dropped, and counted, the reader gets exactly what
\* was typed after editing, and the line holds the rest: no interleaving of
\* polls and reads, and no split of an escape sequence between polls, changes
\* the text (tty.c:62-168).
DeliversWhatWasTyped ==
    tty_drop_count = 0 =>
        /\ delivered = Edited(received).out
        /\ tty_line = Edited(received).line
=============================================================================
