----------------------------- MODULE InputPath -----------------------------
(***************************************************************************)
(* From the keyboard to the command: the keyboard interrupt, which may     *)
(* come between any two steps, and the kernel's main loop (kernel.c), in   *)
(* which shell_poll (shell.c) empties the keyboard queue into the tty,     *)
(* reads the active session's pty in chunks, assembles command lines and   *)
(* executes them, remembering each in the history, and the processor then  *)
(* halts until an interrupt.                                               *)
(***************************************************************************)
EXTENDS Tty, Session, KbdBytes, KeyMap, History

CONSTANTS
    BootSids,           \* what session_create may return at boot
    SHELL_LINE_MAX,
    SHELL_CHUNK,        \* the size of pty_buf
    SelftestCommand,    \* the command line that runs cmd_selftest
    SelftestWrite,      \* how many bytes it writes to the pty it allocates
    SelftestLine,       \* how many bytes it injects into the tty
    Stroke,             \* the keys that are struck, each <<key, modifiers>>
    MaxStrokes          \* bound on the number of strokes

ASSUME ShellAssumption ==
    /\ BootSids \subseteq {-1, 1} /\ PTY_MAX > 0 /\ SESSION_MAX > 0
    /\ SHELL_LINE_MAX \in Nat /\ SHELL_LINE_MAX >= 2
    /\ SHELL_CHUNK \in Nat \ {0}
    /\ SelftestWrite \in Nat \ {0}
    /\ SelftestLine \in Nat /\ SelftestLine > TTY_LINE_BUFFER_SIZE + 1

VARIABLES
    pc,             \* where the main loop is
    pty_buf,        \* the part of the chunk that is not yet handled
    shell_line,     \* the buffer, with what earlier commands left in it
    shell_len,
    injected,       \* how many bytes the running self-test has injected
    over_before,    \* tty_line_overflows() when it started to
    verdicts,       \* what the self-tests printed
    executed,       \* history: the commands
    strokes         \* history: the keys struck

shellVars == <<pty_buf, shell_line, shell_len, executed, historyVars>>
selftestVars == <<injected, over_before, verdicts>>
kbdVars == <<kbd_bytes, kbd_drop_byte_count>>
inputVars == <<ttyPtyVars, sessionVars, kbdVars, shellVars, selftestVars, pc, strokes>>

\* The state kernel_main reaches, by what session_create returned: session 1
\* with the first pty, or no session and a tty with its own queue.
BootInit(sid) ==
    /\ g_ptys = [p \in Ptys |-> IF p = 0 THEN FreshPty ELSE NoPty]
    /\ g_pty_dropped_bytes = 0 /\ g_pty_invalid_ops = 0
    /\ g_sessions = IF sid = 1 THEN <<0>> ELSE <<>>
    /\ g_active_session_id = sid
    /\ g_session_invalid_ops = IF sid = 1 THEN 0 ELSE 1
    /\ TtyAttachedInit(IF sid = 1 THEN 0 ELSE -1)

InputInit ==
    /\ \E sid \in BootSids : BootInit(sid)
    /\ kbd_bytes = <<>> /\ kbd_drop_byte_count = 0
    /\ pc = "poll"
    /\ pty_buf = <<>>
    /\ shell_line = [i \in 0 .. SHELL_LINE_MAX - 1 |-> 0]
    /\ shell_len = 0
    /\ injected = 0 /\ over_before = 0 /\ verdicts = <<>>
    /\ HistoryInit
    /\ executed = <<>> /\ strokes = <<>>
-----------------------------------------------------------------------------
\* irq_keyboard for a key that goes down: its bytes are queued in one go, and
\* a halted processor wakes up.
Strike(s) ==
    /\ Len(strokes) < MaxStrokes
    /\ strokes' = Append(strokes, s)
    /\ PushBytes(InputBytes(s[1], s[2], {}))
    /\ pc' = IF pc = "halted" THEN "poll" ELSE pc
    /\ UNCHANGED <<ttyPtyVars, sessionVars, shellVars, selftestVars>>

\* Mutation: the timer is left masked.
NoTimer == pc = "halted" /\ UNCHANGED inputVars

\* irq_timer, as far as the main loop can tell.
TimerTick ==
    /\ pc = "halted"
    /\ pc' = "poll"
    /\ UNCHANGED <<ttyPtyVars, sessionVars, kbdVars, shellVars, selftestVars, strokes>>
-----------------------------------------------------------------------------
\* tty_poll_input: one byte, or the end of the loop.
PollByte ==
    /\ pc = "poll"
    /\ PopByte
    /\ HandleByte(Head(kbd_bytes))
    /\ UNCHANGED <<sessionVars, shellVars, selftestVars, pc, strokes>>

PollDone ==
    /\ pc = "poll"
    /\ kbd_bytes = <<>>
    /\ pc' = "read"
    /\ UNCHANGED <<ttyPtyVars, sessionVars, kbdVars, shellVars, selftestVars, strokes>>

\* pty_slave_read of the next chunk.
ReadChunk ==
    /\ pc = "read"
    /\ pty_is_valid(session_active_pty)
    /\ LET q == g_ptys[session_active_pty].m2s
       IN  q # <<>> /\ pty_buf' = Readable(q, SHELL_CHUNK)
    /\ PtyRead(session_active_pty, "m2s", SHELL_CHUNK)
    /\ pc' = "run"
    /\ UNCHANGED <<ttyVars, sessionVars, kbdVars, shell_line, shell_len,
                   executed, historyVars, selftestVars, strokes>>

\* Mutation: only the pty is asked whether there is more.
ReadNothingInPty ==
    /\ pc = "read"
    /\ session_active_pty >= 0 => g_ptys[session_active_pty].m2s = <<>>
    /\ pc' = "idle"
    /\ UNCHANGED <<ttyPtyVars, sessionVars, kbdVars, shellVars, selftestVars, strokes>>

\* Nothing to read, from the pty or, without one, from the tty.
ReadNothing ==
    /\ pc = "read"
    /\ IF session_active_pty >= 0
       THEN g_ptys[session_active_pty].m2s = <<>>
       ELSE tty_read_queue = <<>>
    /\ pc' = "idle"
    /\ UNCHANGED <<ttyPtyVars, sessionVars, kbdVars, shellVars, selftestVars, strokes>>

ChunkDone ==
    /\ pc = "run"
    /\ pty_buf = <<>>
    /\ pc' = "read"
    /\ UNCHANGED <<ttyPtyVars, sessionVars, kbdVars, shellVars, selftestVars, strokes>>

\* hlt: an interrupt that came before it does not end it.
Hlt ==
    /\ pc = "idle"
    /\ pc' = "halted"
    /\ UNCHANGED <<ttyPtyVars, sessionVars, kbdVars, shellVars, selftestVars, strokes>>
-----------------------------------------------------------------------------
\* The shell's copy of a byte into its line, and what it ignores.
ShellKeeps(c) == (c >= 32 /\ c # Del) \/ c = 9

\* Mutation: the last element of the buffer is used as well.
ShellAppendNoReserve(c) ==
    IF ShellKeeps(c) /\ shell_len < SHELL_LINE_MAX
    THEN /\ shell_line' = [shell_line EXCEPT ![shell_len] = c]
         /\ shell_len' = shell_len + 1
    ELSE UNCHANGED <<shell_line, shell_len>>

ShellAppend(c) ==
    IF ShellKeeps(c) /\ shell_len + 1 < SHELL_LINE_MAX
    THEN /\ shell_line' = [shell_line EXCEPT ![shell_len] = c]
         /\ shell_len' = shell_len + 1
    ELSE UNCHANGED <<shell_line, shell_len>>

\* The command execute_command sees: the line without its leading blanks.
Command ==
    LET first == CHOOSE i \in 0 .. shell_len :
                     /\ i = shell_len \/ shell_line[i] # 32
                     /\ \A j \in 0 .. i - 1 : shell_line[j] = 32
    IN  [i \in 1 .. shell_len - first |-> shell_line[first + i - 1]]

\* execute_command, but for what it prints: an empty line is no command.
execute_command(command) ==
    IF command = <<>>
    THEN UNCHANGED <<executed, historyVars>>
    ELSE rust_history_push(command) /\ executed' = Append(executed, command)

\* Mutation: the next command is appended to this one.
ExecuteLineKeepsLen ==
    /\ shell_line' = [shell_line EXCEPT ![shell_len] = 0]
    /\ execute_command(Command)
    /\ UNCHANGED shell_len

\* The newline: terminate, execute, start over.
ExecuteLine ==
    /\ shell_line' = [shell_line EXCEPT ![shell_len] = 0]
    /\ execute_command(Command)
    /\ shell_len' = 0

\* One byte through shell_poll, when it does not start a self-test.
ShellByte(c) ==
    \/ c = CtrlC /\ shell_len' = 0 /\ UNCHANGED <<shell_line, executed, historyVars>>
    \/ c = Newline /\ ExecuteLine
    \/ c \notin {CtrlC, Newline} /\ ShellAppend(c) /\ UNCHANGED <<executed, historyVars>>

\* The next byte of the shell's loop: from the chunk, or in the loop without a
\* pty from tty_pop_char.
PtyChar ==
    /\ pc = "run"
    /\ pty_buf # <<>>
    /\ pty_buf' = Tail(pty_buf)
    /\ UNCHANGED ttyVars

TtyChar ==
    /\ pc = "read"
    /\ session_active_pty < 0
    /\ tty_read_queue # <<>>
    /\ tty_read_queue' = Tail(tty_read_queue)
    /\ UNCHANGED <<pty_buf, tty_line, modeVars, tty_escape_state, countVars,
                   tty_line_truncated, delivered, spent>>

TakeChar == PtyChar \/ TtyChar
NextChar == IF pc = "run" THEN Head(pty_buf) ELSE Head(tty_read_queue)
StartsSelftest == NextChar = Newline /\ Command = SelftestCommand

RunByte ==
    /\ TakeChar
    /\ ~ StartsSelftest
    /\ ShellByte(NextChar)
    /\ UNCHANGED <<ptyVars, sessionVars, kbdVars, selftestVars, pc, strokes>>
-----------------------------------------------------------------------------
\* cmd_selftest.  It never gives its pty back, so it is refused when all are
\* taken.
RefuseSelftest ==
    /\ TakeChar
    /\ StartsSelftest
    /\ NextPty = -1
    /\ ExecuteLine
    /\ verdicts' = Append(verdicts, "REFUSED")
    /\ UNCHANGED <<ptyVars, sessionVars, kbdVars, injected, over_before, pc, strokes>>

\* Mutation: the injected line is just as long as the tty's buffer.
StartSelftestShort ==
    /\ TakeChar
    /\ StartsSelftest
    /\ NextPty # -1
    /\ ExecuteLine
    /\ pty_alloc
    /\ injected' = SelftestLine - TTY_LINE_BUFFER_SIZE
    /\ over_before' = tty_line_overflow_count
    /\ pc' = "inject"
    /\ UNCHANGED <<sessionVars, kbdVars, verdicts, strokes>>

\* Up to the injection: the pty is written full and read empty again, and one
\* write goes to pty -1.
StartSelftest ==
    /\ TakeChar
    /\ StartsSelftest
    /\ NextPty # -1
    /\ ExecuteLine
    /\ g_ptys' = [g_ptys EXCEPT ![NextPty] = FreshPty]
    /\ g_pty_dropped_bytes' = g_pty_dropped_bytes
         + (IF SelftestWrite < PTY_QUEUE_SIZE THEN 0
            ELSE SelftestWrite - (PTY_QUEUE_SIZE - 1))
    /\ g_pty_invalid_ops' = g_pty_invalid_ops + 1
    /\ injected' = 0
    /\ over_before' = tty_line_overflow_count
    /\ pc' = "inject"
    /\ UNCHANGED <<sessionVars, kbdVars, verdicts, strokes>>

\* tty_test_inject_bytes: a line of x that does not fit, and its newline.
InjectByte ==
    /\ pc = "inject"
    /\ injected < SelftestLine
    /\ HandleByte(IF injected = SelftestLine - 1 THEN Newline ELSE 120)
    /\ injected' = injected + 1
    /\ UNCHANGED <<sessionVars, kbdVars, shellVars, over_before, verdicts, pc, strokes>>

\* drain_active_pty and the verdict.
EndSelftest ==
    /\ pc = "inject"
    /\ injected = SelftestLine
    /\ g_ptys' = IF session_active_pty < 0 THEN g_ptys
                 ELSE [g_ptys EXCEPT ![session_active_pty].m2s = <<>>]
    /\ verdicts' = Append(verdicts,
           IF tty_line_overflow_count > over_before THEN "PASS" ELSE "FAIL")
    /\ injected' = 0 /\ over_before' = 0
    /\ pc' = IF session_active_pty < 0 THEN "read" ELSE "run"
    /\ UNCHANGED <<g_pty_dropped_bytes, g_pty_invalid_ops, ttyVars, sessionVars,
                   kbdVars, shellVars, strokes>>
-----------------------------------------------------------------------------
MainLoop ==
    \/ PollByte \/ PollDone
    \/ ReadChunk \/ ReadNothing \/ ChunkDone \/ Hlt
    \/ RunByte \/ RefuseSelftest \/ StartSelftest \/ InjectByte \/ EndSelftest

InputNext == (\E s \in Stroke : Strike(s)) \/ TimerTick \/ MainLoop

\* The processor executes the main loop and the timer, programmed by pit_init
\* and unmasked, ticks for ever.  Nobody has to strike a key.
InputSpec ==
    /\ InputInit
    /\ [][InputNext]_inputVars
    /\ WF_inputVars(MainLoop)
    /\ WF_inputVars(TimerTick)
-----------------------------------------------------------------------------
\* shell_line always holds a NUL, so that Ctrl-L, which prints the buffer and
\* not the first shell_len bytes, stops inside it (shell.c:330, 351).
ShellStringEnds == \E i \in 0 .. SHELL_LINE_MAX - 1 : shell_line[i] = 0

\* A self-test that gets its pty prints PASS, whatever the user had typed and
\* left half-edited: the injected line always overflows (shell.c:208-216).
SelftestsPass == \A i \in DOMAIN verdicts : verdicts[i] # "FAIL"

\* The history holds the last commands that were executed, each cut to its
\* slot, in order and without a gap, and its counter, which meminfo shows,
\* counts all of them, also once the ring has wrapped (lib.rs:27-42, 67-81).
HistoryHoldsLast ==
    /\ HISTORY_COUNT = Len(executed)
    /\ hist_count = IF Len(executed) < HISTORY_SLOTS THEN Len(executed) ELSE HISTORY_SLOTS
    /\ Remembered = [i \in 1 .. hist_count |->
                        InSlot(executed[Len(executed) - hist_count + i])]

\* What the shell reads next is always the queue the tty delivers to: no byte
\* is left in a queue nobody empties (shell.c:309, tty.c:31).
NothingStranded ==
    /\ Attached <=> session_active_pty >= 0
    /\ Attached => tty_read_queue = <<>>
    /\ \A p \in Ptys : p # session_active_pty => g_ptys[p].m2s = <<>>

\* Whatever is typed is handled, even when the interrupt comes between the end
\* of shell_poll and hlt: the keyboard queue, the tty's queue and the chunk
\* are all empty again (kernel.c:90-93).
InputHandled ==
    kbd_bytes # <<>> ~> kbd_bytes = <<>> /\ Sink = <<>> /\ pty_buf = <<>>
-----------------------------------------------------------------------------
\* "never execute terminal escape payload as commands"
\* (docs/interfaces/input_tty.md:92): a command has only bytes that a key
\* struck so far types as its character.
Characters == {kbd_keycode_to_unicode(strokes[i][1], strokes[i][2], {}) :
                   i \in DOMAIN strokes}
NoPayloadExecuted ==
    \A i \in DOMAIN executed : \A j \in DOMAIN executed[i] :
        executed[i][j] \in Characters
=============================================================================
