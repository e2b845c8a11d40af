------------------------------- MODULE Typing -------------------------------
(***************************************************************************)
(* What a user who types expects.  At a reader: what the line discipline   *)
(* gives from all that was typed, without buffers, limits or parser states *)
(* (Edited).  At the prompt: the commands that follow from the keys alone, *)
(* without queues, chunks, polling or interrupts (Expected).               *)
(***************************************************************************)
EXTENDS InputPath, SequencesExt

\* Where an escape sequence that starts at s may end: at the byte after Esc,
\* unless that is '[' or 'O'; then at a later byte in '@'..'~'.
Ends(in, s) ==
    IF s < Len(in) /\ in[s + 1] \in {91, 79}
    THEN {e \in s + 2 .. Len(in) : in[e] \in 64 .. 126}
    ELSE {s + 1}

Covers(in, s, i) == s <= i /\ \A e \in Ends(in, s) : i <= e

\* The positions that start a sequence: an Esc outside the earlier ones.
Starts(in) ==
    LET start[i \in DOMAIN in] ==
            in[i] = Esc /\ \A s \in 1 .. i - 1 : start[s] => ~ Covers(in, s, i)
    IN  {i \in DOMAIN in : start[i]}

\* One typed byte, for an editor without limits.
EditOne(ed, b) ==
    CASE b = CtrlC             -> [line |-> <<>>, out |-> Append(ed.out, b)]
      [] b = CtrlL             -> [ed EXCEPT !.out = Append(@, b)]
      [] b \in {Backspace, Del} -> [ed EXCEPT !.line = IF @ = <<>> THEN @ ELSE Front(@)]
      [] b = Newline           -> [line |-> <<>>, out |-> ed.out \o Append(ed.line, b)]
      [] b = CtrlD             -> [line |-> <<>>,
                                   out |-> ed.out \o (IF ed.line = <<>> THEN <<b>> ELSE ed.line)]
      [] b = 9 \/ (b >= 32 /\ b # Del) -> [ed EXCEPT !.line = Append(@, b)]
      [] OTHER                 -> ed

\* All the input, but for the bytes of escape sequences.
Edited(in) ==
    LET starts == Starts(in)
        ed[i \in 0 .. Len(in)] ==
            IF i = 0 THEN [line |-> <<>>, out |-> <<>>]
            ELSE IF \E s \in starts : Covers(in, s, i) THEN ed[i - 1]
            ELSE EditOne(ed[i - 1], in[i])
    IN  ed[Len(in)]
-----------------------------------------------------------------------------
\* line is what Backspace can still erase, sent what Ctrl-D has handed over.
Blank == [line |-> <<>>, sent |-> <<>>, commands |-> <<>>]

WithoutBlanks(s) ==
    LET first == CHOOSE i \in 1 .. Len(s) + 1 :
                     /\ i = Len(s) + 1 \/ s[i] # 32
                     /\ \A j \in 1 .. i - 1 : s[j] = 32
    IN  SubSeq(s, first, Len(s))

Cut(s) == SubSeq(s, 1, IF Len(s) < SHELL_LINE_MAX THEN Len(s) ELSE SHELL_LINE_MAX - 1)

Char(stroke) == kbd_keycode_to_unicode(stroke[1], stroke[2], {})

TypedChar(st, c) ==
    LET whole == st.sent \o st.line
        command == WithoutBlanks(Cut(whole))
    IN  CASE c = 3 -> [st EXCEPT !.line = <<>>, !.sent = <<>>]
          [] c = 4 -> [st EXCEPT !.line = <<>>, !.sent = whole]
          [] c = 8 -> [st EXCEPT !.line = IF @ = <<>> THEN @ ELSE Front(@)]
          [] c = 10 -> [line |-> <<>>, sent |-> <<>>,
                        commands |-> IF command = <<>> THEN st.commands
                                     ELSE Append(st.commands, command)]
          [] c >= 32 \/ c = 9 -> [st EXCEPT !.line = Append(@, c)]
          [] OTHER -> st

Expected ==
    LET after[i \in 0 .. Len(strokes)] ==
            IF i = 0 THEN Blank ELSE TypedChar(after[i - 1], Char(strokes[i]))
    IN  after[Len(strokes)]

AtRest == pc \in {"idle", "halted"} /\ kbd_bytes = <<>>

\* The Esc key, Ctrl-[, and Alt with a character type an Esc, which takes the
\* next byte with it.
TypesEsc(stroke) ==
    Char(stroke) = Esc \/ (Char(stroke) # 0 /\ stroke[2] \cap {"ALT", "ALTGR"} # {})

\* As long as no layer counts a loss and no self-test runs, the shell executes
\* exactly the commands the keys spell, in order, and at rest all of them; and
\* what is on its line and on the tty's is what was typed since.  Arrow and
\* function keys leave no trace, and no chunk boundary or interrupt shows.  So
\* it is when the boot found no session (shell.c:303-395, tty.c:91-168).  Keys
\* that type an Esc are left out.
TypedIsExecuted ==
    /\ kbd_drop_byte_count = 0 /\ tty_drop_count = 0 /\ verdicts = <<>>
    /\ \A i \in DOMAIN strokes : ~ TypesEsc(strokes[i])
    => /\ IsPrefix(executed, Expected.commands)
       /\ AtRest => /\ executed = Expected.commands
                    /\ tty_line = Expected.line
                    /\ [i \in 1 .. shell_len |-> shell_line[i - 1]] = Cut(Expected.sent)
=============================================================================
