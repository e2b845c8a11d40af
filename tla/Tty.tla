-------------------------------- MODULE Tty --------------------------------
(***************************************************************************)
(* The terminal's line discipline (tty.c): bytes from the keyboard, or     *)
(* injected by the self-test, are filtered, edited into a line and handed  *)
(* to the reader, through the attached pty or the tty's own read queue.    *)
(* The echo is console output and is left out.                             *)
(***************************************************************************)
EXTENDS Pty

CONSTANTS
    TTY_READ_QUEUE_SIZE,
    TTY_LINE_BUFFER_SIZE,
    Byte,               \* the bytes the keyboard sends
    MaxRx               \* bound on the number of them

ASSUME TtyAssumption ==
    /\ TTY_READ_QUEUE_SIZE \in Nat
    /\ TTY_READ_QUEUE_SIZE >= 2
    /\ TTY_LINE_BUFFER_SIZE \in Nat
    /\ TTY_LINE_BUFFER_SIZE >= 2
    /\ Byte \subseteq Octet

VARIABLES
    tty_read_queue,             \* the unread bytes of the tty's own queue
    tty_line,                   \* tty_line_buffer, its first tty_line_len bytes
    tty_canonical,
    tty_escape_state,
    tty_rx_count,
    tty_drop_count,
    tty_line_overflow_count,
    tty_escape_discard_count,
    tty_line_truncated,
    tty_session_pty,            \* the attached pty, -1 for none
    delivered,                  \* history: every byte a reader's queue took
    spent                       \* history: the bytes editing used up

modeVars == <<tty_canonical, tty_session_pty>>
countVars == <<tty_rx_count, tty_drop_count, tty_line_overflow_count,
               tty_escape_discard_count>>
ttyVars == <<tty_read_queue, tty_line, modeVars, tty_escape_state, countVars,
             tty_line_truncated, delivered, spent>>
ttyPtyVars == <<ptyVars, ttyVars>>

\* The bytes with a meaning of their own.
CtrlC == 3
CtrlD == 4
Backspace == 8
Newline == 10
CtrlL == 12
Esc == 27
Del == 127

tty_is_printable(b) == b >= 32 \/ b = 9

TtyTypeOK ==
    /\ tty_read_queue \in Seq(Octet)
    /\ tty_line \in Seq(Octet)
    /\ tty_canonical \in BOOLEAN
    /\ tty_escape_state \in 0 .. 2
    /\ tty_rx_count \in Nat
    /\ tty_drop_count \in Nat
    /\ tty_line_overflow_count \in Nat
    /\ tty_escape_discard_count \in Nat
    /\ tty_line_truncated \in BOOLEAN
    /\ tty_session_pty \in Int
    /\ delivered \in Seq(Octet)
    /\ spent \in Nat

\* tty_init, followed by tty_attach_session for a pty that is not -1.
TtyAttachedInit(pty) ==
    /\ tty_read_queue = <<>>
    /\ tty_line = <<>>
    /\ tty_canonical = TRUE
    /\ tty_escape_state = 0
    /\ tty_rx_count = 0
    /\ tty_drop_count = 0
    /\ tty_line_overflow_count = 0
    /\ tty_escape_discard_count = 0
    /\ tty_line_truncated = FALSE
    /\ tty_session_pty = pty
    /\ delivered = <<>>
    /\ spent = 0

TtyInit == TtyAttachedInit(-1)
-----------------------------------------------------------------------------
Attached == pty_is_valid(tty_session_pty)

\* The queue the reader reads, and what it takes of the bytes bs.
Sink == IF Attached THEN g_ptys[tty_session_pty].m2s ELSE tty_read_queue
SinkSize == IF Attached THEN PTY_QUEUE_SIZE ELSE TTY_READ_QUEUE_SIZE
Taken(bs) == Accepted(Sink, SinkSize, bs)

\* Mutation: the attached pty is forgotten.
EnqueueOwnQueue(bs, lost) ==
    /\ tty_read_queue' = tty_read_queue \o Accepted(tty_read_queue, TTY_READ_QUEUE_SIZE, bs)
    /\ UNCHANGED <<ptyVars, tty_drop_count>>
    /\ delivered' = delivered \o bs

\* tty_enqueue_read of each byte of bs, when lost other bytes were dropped on
\* the way.  A byte refused by a full pty is counted there and here.
Enqueue(bs, lost) ==
    /\ IF Attached
       THEN PtyWrite(tty_session_pty, "m2s", bs) /\ UNCHANGED tty_read_queue
       ELSE tty_read_queue' = tty_read_queue \o Taken(bs) /\ UNCHANGED ptyVars
    /\ delivered' = delivered \o Taken(bs)
    /\ tty_drop_count' = tty_drop_count + lost + Len(bs) - Len(Taken(bs))

\* What a step that delivers nothing leaves alone.
NothingEnqueued == UNCHANGED <<ptyVars, tty_read_queue, delivered>>

\* Mutation: no room is kept for the terminator.
LineFullLate == Len(tty_line) >= TTY_LINE_BUFFER_SIZE

LineFull == Len(tty_line) + 1 >= TTY_LINE_BUFFER_SIZE

\* Mutation: the filter ends at the first parameter.
EscapeNextAtDigit(b) ==
    CASE tty_escape_state = 0 -> 1
      [] tty_escape_state = 1 -> IF b \in {91, 79} THEN 2 ELSE 0
      [] OTHER -> IF b \in 48 .. 126 THEN 0 ELSE 2

\* The next state of the escape filter, from a byte it consumes.
EscapeNext(b) ==
    CASE tty_escape_state = 0 -> 1
      [] tty_escape_state = 1 -> IF b \in {91, 79} THEN 2 ELSE 0
      [] OTHER -> IF b \in 64 .. 126 THEN 0 ELSE 2

Escaping(b) == tty_escape_state # 0 \/ b = Esc

\* Mutation: only the first byte of a sequence is counted.
DiscardEscapeOnce(b) ==
    /\ Escaping(b)
    /\ tty_escape_state' = EscapeNext(b)
    /\ tty_escape_discard_count' =
           tty_escape_discard_count + (IF tty_escape_state = 0 THEN 1 ELSE 0)
    /\ NothingEnqueued
    /\ UNCHANGED <<tty_line, tty_drop_count, tty_line_overflow_count,
                   tty_line_truncated, spent>>

\* tty_handle_escape_filter, when it consumes the byte.
DiscardEscape(b) ==
    /\ Escaping(b)
    /\ tty_escape_state' = EscapeNext(b)
    /\ tty_escape_discard_count' = tty_escape_discard_count + 1
    /\ NothingEnqueued
    /\ UNCHANGED <<tty_line, tty_drop_count, tty_line_overflow_count,
                   tty_line_truncated, spent>>

\* The rest of tty_handle_canonical, one action per kind of byte.
Interrupt(b) ==
    /\ b = CtrlC
    /\ tty_line' = <<>>
    /\ spent' = spent + Len(tty_line)
    /\ Enqueue(<<b>>, 0)
    /\ UNCHANGED <<tty_line_overflow_count, tty_line_truncated>>

Redraw(b) ==
    /\ b = CtrlL
    /\ Enqueue(<<b>>, 0)
    /\ UNCHANGED <<tty_line, tty_line_overflow_count, tty_line_truncated, spent>>

\* Mutation: the oldest byte is erased.
EraseFirst(b) ==
    /\ b \in {Backspace, Del}
    /\ IF tty_line = <<>>
       THEN UNCHANGED tty_line /\ spent' = spent + 1
       ELSE tty_line' = Tail(tty_line) /\ spent' = spent + 2
    /\ NothingEnqueued
    /\ UNCHANGED <<tty_drop_count, tty_line_overflow_count, tty_line_truncated>>

Erase(b) ==
    /\ b \in {Backspace, Del}
    /\ IF tty_line = <<>>
       THEN UNCHANGED tty_line /\ spent' = spent + 1
       ELSE /\ tty_line' = SubSeq(tty_line, 1, Len(tty_line) - 1)
            /\ spent' = spent + 2
    /\ NothingEnqueued
    /\ UNCHANGED <<tty_drop_count, tty_line_overflow_count, tty_line_truncated>>

\* A line with no room for its newline goes out without it.
EndLine(b) ==
    /\ b = Newline
    /\ IF LineFull
       THEN /\ Enqueue(tty_line, 1)
            /\ tty_line_overflow_count' = tty_line_overflow_count + 1
       ELSE /\ Enqueue(Append(tty_line, b), 0)
            /\ UNCHANGED tty_line_overflow_count
    /\ tty_line' = <<>>
    /\ tty_line_truncated' = FALSE
    /\ UNCHANGED spent

EndOfFile(b) ==
    /\ b = CtrlD
    /\ IF tty_line = <<>>
       THEN Enqueue(<<b>>, 0) /\ UNCHANGED spent
       ELSE Enqueue(tty_line, 0) /\ spent' = spent + 1
    /\ tty_line' = <<>>
    /\ UNCHANGED <<tty_line_overflow_count, tty_line_truncated>>

Ignore(b) ==
    /\ b \notin {CtrlC, CtrlL, Backspace, Newline, CtrlD}
    /\ ~ tty_is_printable(b)
    /\ spent' = spent + 1
    /\ NothingEnqueued
    /\ UNCHANGED <<tty_line, tty_drop_count, tty_line_overflow_count,
                   tty_line_truncated>>

Refuse(b) ==
    /\ tty_is_printable(b) /\ b # Del
    /\ LineFull
    /\ tty_drop_count' = tty_drop_count + 1
    /\ tty_line_overflow_count' = tty_line_overflow_count + 1
    /\ tty_line_truncated' = TRUE
    /\ NothingEnqueued
    /\ UNCHANGED <<tty_line, spent>>

Insert(b) ==
    /\ tty_is_printable(b) /\ b # Del
    /\ ~ LineFull
    /\ tty_line' = Append(tty_line, b)
    /\ NothingEnqueued
    /\ UNCHANGED <<tty_drop_count, tty_line_overflow_count, tty_line_truncated,
                   spent>>

Edit(b) ==
    /\ ~ Escaping(b)
    /\ \/ Interrupt(b) \/ Redraw(b) \/ Erase(b) \/ EndLine(b) \/ EndOfFile(b)
       \/ Ignore(b) \/ Refuse(b) \/ Insert(b)
    /\ UNCHANGED <<tty_escape_state, tty_escape_discard_count>>

tty_handle_canonical(b) == tty_canonical /\ (DiscardEscape(b) \/ Edit(b))

tty_handle_noncanonical(b) ==
    /\ ~ tty_canonical
    /\ Enqueue(<<b>>, 0)
    /\ UNCHANGED <<tty_line, tty_escape_state, tty_line_overflow_count,
                   tty_escape_discard_count, tty_line_truncated, spent>>

\* The body of the loops of tty_poll_input and tty_test_inject_bytes.
HandleByte(b) ==
    /\ tty_rx_count' = tty_rx_count + 1
    /\ tty_handle_canonical(b) \/ tty_handle_noncanonical(b)
    /\ UNCHANGED modeVars
-----------------------------------------------------------------------------
\* The other entry points: the reader, and the setters.
ReadPty ==
    /\ Attached
    /\ \E n \in 1 .. PTY_QUEUE_SIZE : PtyRead(tty_session_pty, "m2s", n)
    /\ UNCHANGED ttyVars

tty_pop_char ==
    /\ tty_read_queue # <<>>
    /\ tty_read_queue' = Tail(tty_read_queue)
    /\ UNCHANGED <<ptyVars, tty_line, modeVars, tty_escape_state, countVars,
                   tty_line_truncated, delivered, spent>>

tty_set_canonical(on) ==
    /\ tty_canonical' = on
    /\ UNCHANGED <<ptyVars, tty_read_queue, tty_line, tty_session_pty,
                   tty_escape_state, countVars, tty_line_truncated, delivered,
                   spent>>

tty_attach_session(pty) ==
    /\ tty_session_pty' = pty
    /\ UNCHANGED <<ptyVars, tty_read_queue, tty_line, tty_canonical,
                   tty_escape_state, countVars, tty_line_truncated, delivered,
                   spent>>

Receive(b) == tty_rx_count < MaxRx /\ HandleByte(b)

\* The steps that leave the received bytes alone.
Serve ==
    \/ ReadPty
    \/ tty_pop_char
    \/ \E pty \in -1 .. PTY_MAX - 1 : tty_attach_session(pty)
    \/ pty_alloc /\ UNCHANGED ttyVars

TtyNext ==
    \/ \E b \in Byte : Receive(b)
    \/ Serve
    \/ \E on \in BOOLEAN : tty_set_canonical(on)

TtyPtyInit == PtyInit /\ TtyInit
TtySpec == TtyPtyInit /\ [][TtyNext]_ttyPtyVars
-----------------------------------------------------------------------------
TypeOK == PtyTypeOK /\ TtyTypeOK

\* No byte is stored past the end of tty_line_buffer, of tty_read_queue or of
\* a pty's ring: the line keeps room for a terminator (tty.c:124, 154) and a
\* ring keeps one slot free (tty.c:41, pty.c:26).
BufferBounds ==
    /\ Len(tty_line) < TTY_LINE_BUFFER_SIZE
    /\ Len(tty_read_queue) < TTY_READ_QUEUE_SIZE
    /\ \A p \in Ptys : Len(g_ptys[p].m2s) < PTY_QUEUE_SIZE

\* Every received byte is in exactly one place: swallowed and counted by the
\* escape filter, dropped and counted, handed to the reader, used up by
\* editing, or waiting in the line.  A flush into a nearly full pty, a newline
\* without room and a killed line all keep the counters of ttyinfo exact.
Ledger ==
    tty_rx_count = tty_escape_discard_count + tty_drop_count + Len(delivered)
                   + spent + Len(tty_line)

\* The tty's drop counter covers the losses of the two layers it reports for:
\* line overflows and bytes its pty refused (tty.c:36, 127, 155; pty.c:27).
LossesAreCovered ==
    g_pty_dropped_bytes + tty_line_overflow_count <= tty_drop_count

TtyInv == TypeOK /\ BufferBounds /\ Ledger /\ LossesAreCovered

\* The tty implements the line editor it promises to its reader.
Editor == INSTANCE LineDiscipline WITH
              line <- tty_line,
              out <- delivered,
              lost <- tty_drop_count,
              Char <- Byte,
              Capacity <- TTY_LINE_BUFFER_SIZE - 1
EditorImplemented == Editor!Spec
=============================================================================
