# WaluOS: a TLA+ verification project

WaluOS is a small x86_64 kernel in C (with a little Rust), booted by multiboot2,
with a shell on the local keyboard and screen, and a few user-space services that
are built and tested on the host. This directory models the kernel from the
interrupt controllers through the input path to what the user sees, its memory
managers with the framebuffer they map, and the services; checks the models with
TLC on small instances and proves the central results with TLAPS for every size.

Contents: [the system](#the-system) · [modules](#modules) · [runs](#runs) ·
[bounds](#bounds) · [fairness](#fairness) · [proofs](#proofs) ·
[findings](#findings) · [what is not modelled](#what-is-not-modelled) ·
[plan](#plan)

## The system

| component | state | operations | called by / calls |
|---|---|---|---|
| keyboard driver (`keyboard.c`) | prefix and skip state, modifiers, locks, key-down table, a byte ring and an event ring, drop counters | `keyboard_on_irq`, `keyboard_pop_char`, `keyboard_pop_event` | interrupt 1 calls the first; the tty calls `pop_char` from the main loop |
| line discipline (`tty.c`) | line buffer, escape-filter state, own read queue, mode, attached pty, counters | `tty_poll_input`, `tty_test_inject_bytes`, `tty_pop_char`, setters | the shell; it writes to a pty and to the console |
| pseudo-terminals (`pty.c`) | eight slots with a ring in each direction, fault counters | allocate, four reads and writes | tty, shell, sessions |
| sessions (`session.c`) | table of sessions with their controlling pty, the active one | create, set pty, set active, look up | boot, shell |
| shell (`shell.c`) | command line buffer and its length | `shell_poll`, the commands, the self-test | main loop; calls tty, pty, session, console |
| main loop and boot (`kernel.c`, `idt.c`) | none of its own | boot order; poll, then `hlt` | timer and keyboard interrupts end the `hlt` |
| physical memory (`pmm.c`) | frame bitmap, number of frames, number of used ones | init from the memory map, allocate, allocate low, free | virtual memory |
| virtual memory (`vmm.c`, tables in `boot.S`) | the page tables, in memory | `vmm_map_2m` | boot, framebuffer; calls the allocator |
| console (`console.c`) | cursor, colours, ANSI and UTF-8 parser state, back end | put, clear, backspace | nearly all |
| framebuffer (`video.c`, `font8x8.c`) | what the boot loader offers, whether it is mapped | probe the tags, map, put a pixel | boot, console; calls virtual memory |
| interrupts (`pic.c`, `pit.c`, `idt.c`) | masks, in-service bits, gates, tick counter | remap, mask, acknowledge, tick | boot, devices |
| command history (`rust/src/lib.rs`) | ring of commands and a counter | push, count | shell |
| service manager (`walud`) | the unit it parsed, its child | validate, show, start a unit | starts the other two, or any program |
| storage service (`storaged`) | the audit log | probe, decide on a format | run by walud or by hand |
| authentication service (`authd`) | none; reads the shadow file | policy-check, verify, shadow-state | run by walud or by hand |

The kernel has one thread and interrupts. What is concurrent is the keyboard
interrupt against the main loop, through the byte ring; all else on the input
path runs in the main loop, but is cut into pieces by polls, chunks, escape
sequences that span polls, and by bounded queues that overflow at four places.
Below it, device lines rise and fall at any moment of the boot code and of the
handlers; in user space, a child runs, fails or is killed beside its parent.
The hard questions, with the line each bites at, are in `PROJECT.json` under
`hazards`. In short:

* an interrupt between any two lines of a lock-free pop;
* prefixes and state spread over many scancodes, with keys held, repeated and
  released in any order;
* queues that are full, and losses that more than one layer counts;
* commands assembled from chunks, with a command (the self-test) that injects
  into and drains the very queues the loop is working on;
* a key struck just before `hlt`;
* what the tty echoes and what the shell prints, at one cursor;
* interrupts that come while the controllers are programmed, are withdrawn
  before they are answered, or belong to nobody;
* page tables built in frames that clients had before, with allocations failing
  half-way, also half-way through the framebuffer;
* options and unit-file lines in any order and repeated, a child whose setting-up
  fails at any call, a log that is written after the decision is announced.

## Modules

Each module is named after what it models. Definitions keep the name of the
function or variable they stand for; a definition named in capitals-and-words is
one path through a function (`EndLine` is the newline branch of
`tty_handle_canonical`). `PROJECT.json` maps each of them to its lines.
Definitions commented "Mutation" are deliberate bugs used to show that a property
can fail; no specification uses them.

| module | models | notes |
|---|---|---|
| `KbdRing` | the keyboard's ring | push is one step (interrupts are off in the handler), pop is three, with the interrupt between any two |
| `BoundedFifo` | abstract | a queue with an atomic pop, which `KbdRing` implements |
| `KbdBytes` | the byte ring as that queue | used by the modules above the ring |
| `KeyMap` | the tables of `keyboard.c` | all keys; a pure module |
| `Keyboard` | `keyboard_on_irq` and the pops | under a physical keyboard with held keys and a wire of scancodes |
| `PtyTable` | the table of `pty.c` | what `Pty`, `PtyRings` and `Session` share: the slots and whether one is allocated |
| `PtyRings` | `pty.c` as written | batches in closed form: what slots a batch fills |
| `Pty` | the ptys as queues | implemented by `PtyRings`, used by the rest |
| `Session` | `session.c` | the table is a sequence, since slots are taken in order and never freed |
| `Tty` | `tty.c`, all but the echo | one action per branch; two history variables, what readers were given and what editing used up |
| `LineDiscipline` | abstract | a line editor: a line, an output and a count of losses; `Tty` implements it |
| `History` | `rust/src/lib.rs` | the ring of commands; a push is one step |
| `InputPath` | `kernel.c`'s loop, `shell.c` | composes `Tty`, `Session`, `History`, `KbdBytes` and `KeyMap` with the main loop, the interrupts and the self-test |
| `Typing` | reference for `Tty` and `InputPath` | what a reader should get from the whole input at once, and the commands that a sequence of keys spells |
| `Screen` | the cells and cursor of `console.c` | operators on a screen, shared by `Console` and `Echo` |
| `Echo` | the tty's echo, the shell's prompt and answers | each step of `InputPath` together with what it prints; history variables follow the line on the screen |
| `Interrupts` | `pic.c`, `pit.c`, `idt.c`, the boot steps of `kernel.c` | each port write of the programming is a step; the 8259 and the processor's side are external, written from how the code uses them |
| `Pmm` | `pmm.c` | the bitmap is a set of frames; clients hold what they allocated |
| `Vmm` | `vmm.c`, `boot.S`'s tables | memory is an array of frames read as tables; clients fill the frames they hold with anything |
| `AddressSpace` | abstract | a map of pages changed one page at a time; `Vmm` implements it |
| `Video` | `video.c` and the boot order around it | probe, `vmm_init`, the framebuffer page by page, the console's switch; then the kernel of `Vmm` runs on |
| `Console` | `console.c` | one action per branch of the parser, on a screen of `Screen` |
| `ConsoleText` | reference for `Console` | what the screen should show, from the whole text at once: its units and their places |
| `CommandLine` | the option loops of the services | a recursive function over the words |
| `Walud` | `walud.c` | parse, check, fork, the child's three calls, exec, wait; the answers of the system calls are choices |
| `Storaged` | `storaged.c` | decide and print, then audit; killed at any moment |
| `Authd` | `authd.c` | functions from arguments, input and shadow file to the exit code |
| `Services` | the three together | walud starts one of the other two, or a program that returns anything |
| `KbdRingProofs`, `KeyboardProofs`, `PtyRingsProofs`, `InputPathProofs`, `MemoryProofs`, `ConsoleProofs`, `InterruptsProofs`, `ServicesProofs` | | theorems; `InputPathProofs` is about the line discipline, sessions, the shell and the whole input path, `MemoryProofs` about `Pmm`, `Vmm` and `Video` |
| `MC*` | | instances for TLC |

How the parts compose: `Tty` extends `Pty`, `Session` its table; `InputPath` extends both
and puts the main loop around them, `Echo` adds the screen, `Video` extends `Vmm`,
which extends `Pmm`, and `Services` extends the three services. The rings appear once, in `KbdRing` and
`PtyRings`, and are shown to implement the queues that everything else uses, so
the larger models do not carry indices.

Abstractions worth knowing:

* Bytes are their numbers, since the tty and the shell compare them. The
  conversions are kept: the key tables are complete, and a key's bytes are
  computed from modifiers and locks as in the code.
* `InputPath` strikes keys with given modifiers instead of running the scancode
  decoder; `Keyboard` shows that the decoder produces these bytes.
* Commands that only print are recorded in `executed`. The self-test is modelled
  in full: its write to and read from the pty it allocates cannot be observed in
  between and is one step, the injection is one step per byte, interrupts come
  between.
* Null buffers, which no caller passes, and the pure counters
  `kbd_rx_scancode_count`, `leader_pid` and `tty_session_id` are left out, as are
  the key event's copies of modifiers, locks and character.
* `vmm_map_2m` refuses addresses that are not multiples of 2 MiB at once; the
  model has pages only. A page's flags are a set of names.
* A console cell is what it shows, without its colour; `Shape` says which
  characters an instance tells apart. The decoder keeps how many bytes are
  missing and not the code point: whether valid or not, a character outside
  ASCII is shown as `?`. The serial copy and the printing of numbers are left
  out; of a pixel there is only its address.
* In `Echo` the prompt is a constant and a command's answer is any of a set of
  texts; the bell, which shows nothing, is left out. The echo flag is always set, as `shell_init` leaves
  it.
* A framebuffer tag with 32 bits per pixel has a pitch of at least four bytes per
  pixel (`VideoAssumption`), and addresses end where the tables do: the hole of
  non-canonical addresses is left out.
* The timer is slow against the handlers: at most `MaxGlitches` times its line
  falls before it is answered, and it does not rise again and again while a
  scancode waits (`overdue`). With priorities among lines nothing else would ever
  reach the keyboard.
* A unit file is a sequence of lines as `fgets` returns them (a line of the file
  with more than 511 bytes is several), by kind. A value is the sequence of its
  words with one blank between any two: a run of blanks counts as one, which moves
  the place where a value is cut and nothing else. Words have their lengths and
  their prefixes (`Bytes`, `Prefix`). `Cut` is what `snprintf` leaves of a value in
  its field: 127 bytes of `Description`, `After` and `Requires`, 255 of `ExecStart`,
  63 of `User` and `WantedBy`, 31 of `Restart`; the last word may be cut, also to
  nothing behind a blank. `ExecWords` are at most 31 of the words that are left. The
  cut of a header's name to 31 bytes is left out: no section has so long a name.
  All that is said of a started program, its user included, is about the cut unit.
* Passwords and hashes are words, with what the policy
  asks of them as a record; `crypt` is a table. `walud`'s exit codes 5 (modelled, for
  an empty command line) and 8 need
  states its own checks exclude and cannot occur. Failing `exec` and failing
  set-up end the child with the codes of the code, and are told apart by them only.
* The 64-bit counters are unbounded numbers, except the ring's drop counter in
  `KbdRing`, which wraps. Nothing depends on their wrapping within 2^64 events.

## Runs

| run | question | states |
|---|---|---|
| `kbd_ring` | Is the ring safe with interrupts between the lines of the pop, and a queue? | 4 k |
| `pty_rings` | Are the batched pty operations those of queues, and do the active session and the sessions' ptys, over the same ptys, always exist? | 133 k |
| `tty` | Does the line discipline stay in its buffers, keep its counters exact and implement the line editor, with ptys attached at any time? | 720 k |
| `keyboard` | Do key state, modifiers, bytes and events follow the physical keyboard, and is any code taken for another key? | 3.5 M |
| `typing` | Does the shell execute what the keys spell, through four queues and with interrupts anywhere, does its reader get the edited text, and does the screen show the line being typed? | 948 k |
| `selftest` | With a session from the boot and without one: does the self-test pass whatever was half typed, is no byte stranded, has the history the last commands, is everything typed handled in the end and executed? | 197 k |
| `console` | Does the cursor stay on the screen, and does the screen show the text? | 441 k |
| `memory` | Is the allocator's bookkeeping exact and what it hands out usable memory; do the tables stay a tree and translate as mapped, next to clients and failures; is what the console draws on mapped? | 52 k |
| `interrupts` | Does every interrupt reach its own handler and is it acknowledged, from the firmware's settings to the main loop, and are timer and keyboard served for ever? | 27 k |
| `services` | Do exit codes, ids, approvals and the audit log tell the truth, with every small unit file and every failing call? | 590 k |
| `pause_ignored`, `no_payload` | see [findings](#findings) | |

The properties that say most:

* `PopIsStable`, `FifoImplemented`: no lock is needed between interrupt and loop.
* `KeysTracked`, `ModifiersNotStuck`, `BytesMatchStrokes`, `EventsAlternate`,
  `NoGhostKeys`: against a keyboard whose scancodes are written down independently
  of the driver's tables. They are stated up to and including a Pause, after which
  the driver loses scancodes of the keys that follow (see [findings](#findings)):
  with a code of an arrow key lost behind its prefix, even the next Alt is decoded
  as AltGr, so nothing of this holds any more.
* `Ledger`: `rx = escape bytes + dropped + delivered + used up + in the line`, the
  equation behind the counters of `ttyinfo`; `LossesAreCovered`, part of what is
  proved, relates the counters of two layers.
* `DeliversWhatWasTyped` and `TypedIsExecuted` compare step-by-step behaviour
  with functions of the whole history. The second one is stated for strokes that
  type no Esc, because Esc takes the next byte with it: not only the Esc key, but
  also Ctrl-[ and every character struck with Alt (`TypesEsc`).
* `NothingStranded`: the tty's sink and the shell's source are the same queue.
* `ScreenShowsText` compares the screen with the text since the last clear, laid
  out at once: wrapping, scrolling, tabs, colour sequences, multi-byte characters.
* `EchoShowsLine`: the cells before the cursor are the line that Enter will hand
  over, and the cell before them is what it was, so erasing never takes the prompt.
  Stated for lines nothing else was printed into (see [findings](#findings)).
* `HistoryHoldsLast`: the ring holds the last commands, each cut to its slot.
* `UsedIsExact`, `OwnedIsUsable`, `TablesFormTree`, `AddressSpaceImplemented`.
* `PixelsAreMapped`: once the console has switched, every address it draws to
  translates to the framebuffer, however the mapping of pages before it went.
* `HandlersMatchLines`, `AllAcknowledged`: no device's interrupt is taken for an
  exception, and no controller waits for an acknowledgement; the default handler
  answers the master only, and the masks keep the slave's lines from it.
  `ScancodesRead` and `TicksGoOn` are the liveness behind them.
* `ParsedIsDeclared` and `SuccessMeansDone`: what walud takes from a unit file is
  what its lines declare, cut to the fields, whatever their order, and exit code 0
  means that the program ran to a successful end. `RunsAsItsUser`: it ran with the
  uid and gid that the table of users has for the `User` of the parsed unit
  (`Group=` is a key walud does not know).
* `ApprovalIsConfirmed`: a format is approved only for the device that the last
  `--device` and the last `--confirm` both name, with all the flags, and not mounted
  when asked. `AuditIsTrue`: what
  is logged was decided. `VerifiedMeansMatch`: `verify` succeeds only with the
  password of that user's first entry that has a hash.

Every property of a passing run has a mutant in `PROJECT.json`, a plausible bug
under which TLC finds it violated.

## Bounds

* Queues and buffers hold two to five bytes. Code treats their sizes as opaque,
  each is overrun in some run (byte and event ring in `keyboard`; line, pty and
  tty queue in `tty`; the shell's line in `typing`), and the proofs cover all
  sizes.
* `MaxStrokes` (5 in `keyboard`, 4 in `typing`, 6 in `selftest`), `MaxRx`: five keys
  reach hold, repeat and release of two keys, a prefixed key and a lock; four
  strokes with all of the tty's keys reach a line that is edited, overflows the
  shell's and wraps on the screen, and an escape sequence inside a line; six reach
  two self-tests with text before, between and after them. `keyboard` may stop when the strokes are spent,
  so its deadlock check is off; all other runs check for deadlock.
  The keyboard of this run has one key for each modifier: with both Shift keys
  `BytesMatchStrokes` is false of the code (see [findings](#findings)). That no
  modifier is stuck with two keys for a bit is not run; it is proved for every set
  of keys (`KeyboardModifiersNotStuck`).
* `MaxWire`: the scancodes waiting; one long sequence fits.
* `MaxFaults`, `MaxInvalid`: failing calls that only count.
* `MaxShown` (4) bytes of text are followed by the reference, enough to fill and
  scroll the two-by-two screen; the console's own states are explored without a
  bound but `MaxParam`, the largest parameter. The framebuffer is one row of
  three cells, so that the switch changes both dimensions.
* `BootSids`: what the boot's `session_create` returns; -1 takes the path that
  goes on without a session.
* `CountMod` = 3 makes the ring's drop counter wrap.
* `Entries` = 2 gives page tables with all three levels branching; `FRAME_SIZE` = 2
  in `memory` lets regions and the kernel end inside frames; one frame is above
  the identity map. `HUGE_PAGE_SIZE` = 8 holds two pixels, and the framebuffers
  start and end inside a page, need new tables or none, are too large, of the wrong
  kind or past the last address.
* `HISTORY_SLOTS` = `SLOT_LEN` = 2: the ring wraps, commands are cut.
* `TICKS` = 2 (the counter's values, so that it wraps), `MaxKeys` = 2, `MaxGlitches`
  = 1, and one unserved device on the second controller: all pairs of an interrupt
  with a later one, a withdrawn one or a masked one.
* Unit files of up to four lines of seven kinds, for the parser, one with a user
  name a byte longer than its field; whole ones with up to five of storaged's options
  in every order, with command lines of more than 255 bytes, cut inside an option and
  behind a blank, and of more than 31 words; shadow files with repeated,
  locked, empty and missing entries. `CutIsText`, which TLC evaluates, compares `Cut`
  with the first bytes of the text that the words make, for all these values.
* No symmetry is declared: bytes, keys and frames are numbers the code compares.

## Fairness

Two specifications have fairness. `InputSpec`: weak fairness of the main loop (the
processor executes it) and of the timer tick (`pit_init(100)` programs a periodic
timer, `pic_clear_mask(0)` unmasks it, `sti` is executed before the loop). No
fairness is assumed of the user. `InputHandled` needs the timer: without it a byte
queued between the last poll and `hlt` may wait for ever, and the mutant that masks
the timer shows it.

`InterruptsSpec`: weak fairness of the processor's steps (one core, which executes),
of the timer's rise and fall (the same programming) and of the keyboard
controller's port, which the controller fills when it is read. None of the user, of
other devices or of exceptions; an exception stops the machine for good, and the
liveness properties say so. That `TimerRises` really leads to a tick is what
`Interrupts` shows, so the fairness of `InputSpec` rests on `TicksGoOn`.

## Proofs

All with TLAPS, from the assumptions named in the modules, which TLC evaluates in
the runs:

* rings and buffers of at least two elements, a chunk of at least one byte, a
  non-empty kernel, natural-number addresses, a finite memory map (`MapAssumption`:
  one of its ends is the highest);
* `ShellAssumption`: the self-test's line is longer than the tty's buffer, as
  `cmd_selftest` makes it (`shell.c:208`);
* `VmmAssumption`: a table has more than one entry (512), and the boot tables are
  three frames of the kernel's image inside the identity map (`boot.S:92`, 1 GiB);
* `VideoAssumption`: the largest framebuffer the code maps (256 MiB), rounded to
  pages, fits the address space; a tag with 32 bits per pixel has a pitch of at
  least four bytes per pixel;
* `WordsAssumption`: a word has a prefix of every smaller number of bytes, which is
  a word of that length; `WaludAssumption`: a unit file is a sequence of lines of the
  four kinds that the parser tells apart; `ServicesAssumption`: signals are positive numbers;
* `ShadowAssumption`: a line of a shadow file with two fields starts with a name,
  and no field after the second is a hash (`shadow(5)`: they are numbers). Without
  it an empty hash field would make `strtok_r` take a later field for the hash
  (`authd.c:84`);
* `CodesAssumption`: the keyboard sends scancode set 1, each key its code of at most
  95, behind a prefix or not, and the same with bit 7 when it goes up; the tables
  of `keyboard.c` have that key at that code; Print Screen and Pause send what they
  do. It is about the hardware, and what rests on it says nothing of a keyboard
  with other codes;
* `EchoAssumption`: the screen has a cell, a line of the tty's buffer fits on it
  above the last row (512 bytes; the text screen has 25 rows of 80), and the prompt, which is
  not empty, and the answers are bytes;
* `PtyAssumption`, `PtyRingsAssumption`: a pty's queue has at least two slots, and
  clients write bytes.

The arguments:

* **Keyboard ring** (`KbdRingProofs`). The inductive invariant `Inv` is the types,
  `PopIsStable` and `ContentsAreValues`: that the pop's test stays true needs to
  know where the pop is, and that it returns a value needs the contents. Lemmas
  say what a push and an advance of the tail do to the sequence `Contents`, with
  the wrap-around; from them the refinement of `BoundedFifo` follows action by
  action.
* **Keyboard driver** (`KeyboardProofs`). Between a stroke and its last scancode the
  driver's state and the keys disagree, and the handler may lag by any number of
  strokes. `WireInv` therefore says that a sequence of driver states exists, one
  per scancode on the wire, that starts at the driver's present state, takes the
  handler's step at each code (`Reads`) and ends in a state that agrees with the
  keys (`AtRest`). A stroke appends its codes, and the sequence is extended
  (`KeyIsRead`, `PrintIsRead`, `PauseIsRead`); an interrupt takes its first element
  off. With an empty wire the two ends are one. `Reads` also requires that a code
  names a key that exists and that a released key is down, which the event queue
  needs (`EndsWith`: the last event of a key says whether it is down). Nothing is
  claimed once another key has followed a Pause. `KeyboardBytesMatch` has the
  hypothesis `OneKeyPerModifier`: with both Shift keys held, releasing one ends the
  shift, and the property is false.
* **Pty rings** (`PtyRingsProofs`). `RingsInv` is that heads and tails are slots
  and slots hold bytes; the count is a distance modulo the size. `Wrap` is the
  arithmetic of one turn around the ring; from it `StoredContents` says which
  contents a batch of writes leaves, whether it wraps or is cut short by a full
  ring, and `DrainedContents` the same for a batch of reads. Rewinding the rings of
  a newly allocated pty, with old bytes still in their slots, is an empty queue
  (`AllocRefines`). Each action then is an action of `Pty`.
* **Line discipline** (`InputPathProofs`). `TtyInv` is types, bounds, the ledger and the
  cover of losses. The bounds are needed for the ledger, since what a nearly full
  queue takes is computed from its free room. `EnqueueFacts` states once what any
  delivery does to queue, output and counters; each branch then is arithmetic.
  `TtyImplementsEditor` is the refinement of `LineDiscipline`. What one byte does
  is proved with a slack for bytes that others lost in the ptys (`ByteInv`), so
  that the composed input path can use the same lemma.
* **Sessions** (`InputPathProofs`). A pty once allocated stays allocated
  (`AllocKeepsPtys`), so what a session points to stays valid.
* **Shell line** (`InputPathProofs`). The NUL that ends the string is strengthened to
  where it is: the last element is never written, and `shell_len` stays below it.
* **Input path** (`InputPathProofs`). `QueuesInv` carries the tty's invariant through
  the main loop: a key puts bytes into the keyboard's queue (the key tables yield
  nothing else), the tty takes them one by one, the shell takes them in chunks, the
  self-test injects its own. `RouteInv` says which queue the active session and the
  attached pty mean and that all others are empty, from which `NothingStranded`
  follows. `SelftestInv` follows an injection: until the line has overflowed it
  holds all injected bytes but one, which an unfinished escape sequence may have
  taken, and the injected line is longer than the buffer. `HistoryInv` says which
  slot each of the last commands is in, seen from the ring's head.
* **Delivery** (`InputPathProofs`). `Edited` looks at all the input at once and
  knows escape sequences by where they start and end; the tty has a filter state of
  three values. `FilterIs` says which positions of the input each value stands for,
  and one lemma for each transition carries it to the input with a byte more.
  `EditedGrows` says what that byte does to the reference; the tty's branches then
  do the same to the line and to what was delivered, as long as nothing was dropped.
* **What the keys spell** (`InputPathProofs`). At any moment bytes are under way in
  four places: the keyboard's queue, the tty's line, the queue that the shell reads,
  the chunk it has read. The invariant says that these bytes, taken in their order,
  lead from what the shell did to what the keys spell. `Leads` is that relation: a
  sequence of reference states, one for each byte, from one to the other. A stroke
  appends its bytes (`StrokeLeads`: an arrow key's bytes lead nowhere, since the
  filter takes them), the shell takes one off the front (`HeadLeads`,
  `CommandIs`), and the tty moves bytes from one place to the next or cancels a
  character against a Backspace (`EditLeads`). With nothing under way the two ends
  are one.
* **Echo** (`InputPathProofs`). The cells are numbered in reading order, so that
  wrapping is no case and a scroll moves every cell by one row's width. `Lined` says
  that the line is in the cells before the cursor, that it does not reach the first
  cell, and what the cell before it is; it goes through each byte put or erased
  (`PutShifts`, `ScrollPicture`). The texts of the shell are put byte by byte by a
  recursive function: `Climb` takes the least step at which a claim would fail.
* **Console** (`ConsoleProofs`). `CursorInside` needs that the screen has a cell at
  all and that parameters are numbers. `Keeps` says what every drawing function
  must do, one lemma per function; the cursor may be one row below the screen
  only between a line's end and `scroll_if_needed`.
* **Text on the screen** (`ConsoleProofs`). The reference cuts the whole text into
  units, glyphs, tabs and newlines, and gives each its place in one long row of
  cells. `TextInv` says that the screen shows the units that have ended (`Shown`: it
  is the window of that row that ends with the cursor's row), and at which byte the
  unit starts that the parser and the decoder are reading, and how far they are
  (`Reading`). To say that the units which have ended stay so, whatever follows, it
  speaks of every continuation of the text (`Begins`). Each drawing function shows
  one unit more (`ShownGlyph`, `ShownTab`, `ShownNewline`); each byte either goes on
  with a unit or ends it (`FreshByte`, `AfterEsc`, `InSequence`, `InCharacter`). The
  text may be of any length here; `MaxShown` bounds it for TLC only.
* **Frame allocator** (`MemoryProofs`). `UsedIsExact` and `OwnedIsUsed` are not
  inductive: a client could give back a reserved frame. `PmmInv` adds that
  reserved frames are used and never owned, and that a free frame is available
  memory. `SpanCovers` is the arithmetic of `mark_region`: a frame it leaves alone
  shares no byte with the region.
* **Page tables and framebuffer** (`MemoryProofs`). `Tree` says where tables are
  (used frames that no client holds, below the identity map's end) and that no two
  entries lead to the same one. It is what makes a write to one table, or a
  client's write to its own frame, leave all other translations alone; from it the
  refinement of `AddressSpace` follows for each way through `vmm_map_2m`, the one
  that adds a table and then fails included. `VideoInv` adds how far the loop over
  the framebuffer has come and that every page before it translates; a pixel's
  address is then in one of these pages by the arithmetic of pitch, height and
  rounding. The allocator's properties are proved again for this client
  (`MemoryIsSound`).
* **Interrupts** (`InterruptsProofs`). The invariant says for each boot step which
  words of its sequence each controller has taken, what masks it has, and which
  gates are set; and for the processor, which line it serves and which in-service
  bits are therefore set. That only line 7, spurious or not, and never a line of
  the second controller reaches the default handler needs the masks.
* **Services** (`ServicesProofs`). The parsers' loops are recursive functions over
  the lines or words; what they return is proved by taking the least position at
  which the claim would fail. Of `Cut` and `ExecWords` they need only that they are
  sequences of words (`CutIsWords`, `ExecIsWords`). The invariant then relates the program counters of
  walud, its child and storaged to what has happened by then; `Verdict` adds that a
  child that ended with 0 was authd's answer to this command line and this file.
  `OptionsGiven`, what the option loop leaves in force, serves storaged and authd.

Only model-checked:

* liveness: `InputHandled`, `ScancodesRead`, `TicksGoOn`, whose fairness the prover
  cannot reason about.

## Findings

Each is a run that must fail, stating what a document or a comment says.

* `pause_ignored`: Pause sends two `E1` codes; the second restarts the skip of
  five and swallows three scancodes of later keys (`keyboard.c:416`).
* `no_payload`: Esc and then an arrow key put the arrow's `[A` on the command line
  (`tty.c:81`).

The models also have these behaviours of the code, which the properties are
stated around:

* with both Shift keys held, releasing one clears Shift (`keyboard.c:203`):
  `ModifiersNotStuck` therefore says only that a modifier in force has a key held;
* a lock key toggles its lock with every typematic repeat (`keyboard.c:221`);
* the character typed after the Esc key is swallowed (`tty.c:81`), and so are one
  struck with Alt and the one after Ctrl-[, which type an Esc too; the reference
  functions swallow them too;
* a byte below 0x80 in the middle of a multi-byte character leaves the decoder
  waiting (`console.c:593`): `ScreenShowsText` follows the text up to there;
* a zero in `ESC [ 0 ; 0 H` moves to the last row and column (`console.c:395`);
* the self-test never frees its pty, so that with eight ptys the eighth self-test
  is refused (`shell.c:187`): `SelftestsPass` is about those that got one;
* what is typed ahead is echoed before the prompt it answers, so later Backspaces
  take the prompt's cells (`tty.c:115`); a tab is echoed as up to four cells and
  erased as one; Ctrl-L shows the shell's buffer, not the tty's line
  (`shell.c:330`): `EchoShowsLine` excepts these;
* `tty_line_truncated` is reset only by a newline (`tty.c:129`), which costs a bell
  on the next line that overflows;
* a scancode that arrives before the controllers are reset leaves the keyboard's
  line high, without an edge, and `keyboard_init` does not read the port
  (`kernel.c:54`): `ScancodesRead` excepts it;
* `strtok_r` skips empty fields, so with an empty hash the next field is taken for
  it and authd's code 9 is never returned (`authd.c:84`);
* an approval is printed before it is logged, so a process killed in between leaves
  an approval without an entry (`storaged.c:181`); `AuditIsTrue` is the direction
  that holds. The table of mounts is read once, and one that cannot be read counts
  as empty: `ApprovalIsConfirmed` says what was seen, not what is mounted later;
* a parameter of ten digits overflows an `int` (`console.c:689`); parameters are
  bounded here.

## What is not modelled

The assembly start-up before the kernel's state exists, `string.c` (used as
mathematics), the font and the scripts: no state of their own, or data. Of the
console, the colours of cells, the serial copy and the printing of numbers; of the
framebuffer, the colours' positions; of the services, log lines, what the probe
prints of a device, and the buffering of the standard streams. Unit files are never
restarted by the code, so there is no supervision to model: `Restart` is only
checked. The compiler and the processor's memory ordering are taken as sequentially
consistent on one core; the ring's indices and slots are `volatile`, so their
accesses stay in order.

## Plan

Done: everything the repository's components do with state, but for the items
above, and every safety property that a run checks is proved. What is left is out of
the prover's reach: the liveness properties.
