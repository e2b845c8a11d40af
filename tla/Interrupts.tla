----------------------------- MODULE Interrupts -----------------------------
(***************************************************************************)
(* Interrupts, from the device to the handler and back: the two 8259       *)
(* controllers as the code programs them (pic.c), the boot code's order    *)
(* (kernel.c), the interrupt table and its handlers (idt.c), the timer     *)
(* (pit.c) and the keyboard controller's port.  Devices act between any    *)
(* two of the processor's steps.                                           *)
(***************************************************************************)
EXTENDS Integers, Sequences, FiniteSetsExt

CONSTANTS
    TICKS,          \* g_ticks counts modulo this, 2^64 in the code
    BiosMasks,      \* the masks the firmware may leave, <<master, slave>>
    Devices,        \* lines of other devices, which nobody serves
    MaxKeys,        \* bound on the scancodes that wait in the keyboard
    MaxGlitches     \* how often the timer's line falls before it is answered

ASSUME InterruptsAssumption ==
    /\ TICKS \in Nat /\ TICKS > 1
    /\ BiosMasks \subseteq (SUBSET (0 .. 7)) \X (SUBSET (0 .. 7))
    /\ Devices \subseteq (0 .. 15) \ {0, 1, 2}
    /\ MaxKeys \in Nat /\ MaxGlitches \in Nat

VARIABLES
    pic,            \* the master "m" and the slave "s"
    lines,          \* the interrupt lines that are high
    keys,           \* scancodes the keyboard controller has not handed over
    early,          \* history: a scancode came before the controllers' reset
    glitches,
    overdue,        \* the timer rose while a scancode's request was waiting
    at,             \* where the processor is
    step,           \* how many of the boot code's steps it has taken
    intr_flag,      \* the interrupt flag of the processor
    idt_loaded,     \* whether idt_init was called
    saved_masks,    \* mask1 and mask2 of pic_remap
    vector,         \* the vector of the handler that runs
    source,         \* history: the line it answers, -1 for an exception
    g_ticks

deviceVars == <<lines, keys, glitches, overdue>>
cpuVars == <<at, step, intr_flag, idt_loaded, saved_masks, vector, source>>
interruptVars == <<pic, deviceVars, early, cpuVars, g_ticks>>
-----------------------------------------------------------------------------
(* The 8259 controllers *)

Chip(l) == IF l < 8 THEN "m" ELSE "s"
Bit(l) == l % 8

\* What a controller asks for: an unmasked request before all it has in service.
Asking(c) ==
    {i \in c.irr \ c.imr : c.icw = 0 /\ \A j \in c.isr : i < j}

\* The slave's output is line 2 of the master, whose request lasts as long.
Cascade(p) ==
    [p EXCEPT !.m.irr = IF Asking(p.s) # {} THEN @ \cup {2} ELSE @ \ {2}]

Rise(p, l) == Cascade([p EXCEPT ![Chip(l)].irr = @ \cup {Bit(l)}])
Fall(p, l) == Cascade([p EXCEPT ![Chip(l)].irr = @ \ {Bit(l)}])

\* ICW1 forgets everything, a line that is high as well: it takes an edge.
Reset(c) == [c EXCEPT !.imr = {}, !.irr = {}, !.isr = {}, !.icw = 2]

\* The end of interrupt, for the one of the highest priority in service.
EndOfInterrupt(c) == [c EXCEPT !.isr = IF @ = {} THEN @ ELSE @ \ {Min(@)}]

\* A write to the data port: ICW2 to ICW4 after a reset, else the mask.
DataWrite(c, value) ==
    CASE c.icw = 2 -> [c EXCEPT !.base = value, !.icw = 3]
      [] c.icw = 3 -> [c EXCEPT !.icw = 4]
      [] c.icw = 4 -> [c EXCEPT !.icw = 0]
      [] OTHER     -> [c EXCEPT !.imr = value]

outb(p, chip, port, value) ==
    Cascade([p EXCEPT ![chip] = CASE port = "data" -> DataWrite(@, value)
                                  [] port = "icw1" -> Reset(@)
                                  [] OTHER         -> EndOfInterrupt(@)])
-----------------------------------------------------------------------------
(* The boot code *)

Out(chip, port, value) == [op |-> "out", chip |-> chip, port |-> port, value |-> value]

\* Mutation: the master keeps the firmware's vectors.
RemapKeepsBase(offset1, offset2) ==
    << [op |-> "save"],
       Out("m", "icw1", 17), Out("s", "icw1", 17),
       Out("m", "data", 8), Out("s", "data", offset2),
       Out("m", "data", 4), Out("s", "data", 2),
       Out("m", "data", 1), Out("s", "data", 1),
       [op |-> "restore", chip |-> "m"], [op |-> "restore", chip |-> "s"] >>

pic_remap(offset1, offset2) ==
    << [op |-> "save"],
       Out("m", "icw1", 17), Out("s", "icw1", 17),
       Out("m", "data", offset1), Out("s", "data", offset2),
       Out("m", "data", 4), Out("s", "data", 2),
       Out("m", "data", 1), Out("s", "data", 1),
       [op |-> "restore", chip |-> "m"], [op |-> "restore", chip |-> "s"] >>

\* Mutation: only the master's lines are masked.
MaskMaster == [i \in 1 .. 8 |-> [op |-> "mask", line |-> i - 1]]

MaskAll == [i \in 1 .. 16 |-> [op |-> "mask", line |-> i - 1]]

\* Mutation: the keyboard's line stays masked.
UnmaskTimer == << [op |-> "unmask", line |-> 0], [op |-> "unmask", line |-> 2] >>

Unmask == [i \in 1 .. 3 |-> [op |-> "unmask", line |-> i - 1]]

\* The steps of kernel_main that touch interrupts, in order.
Boot ==
    << [op |-> "idt"] >> \o pic_remap(32, 40) \o MaskAll \o Unmask
    \o << [op |-> "pit"], [op |-> "sti"] >>

\* The gates idt_init sets, isr_0 to isr_31 being alike.
gate(v) ==
    CASE v < 32 -> "exception"
      [] v = 32 -> "timer"
      [] v = 33 -> "keyboard"
      [] OTHER  -> "default"

FirmwareChip(base, mask) ==
    [irr |-> {}, imr |-> mask, isr |-> {}, base |-> base, icw |-> 0]

\* As the boot loader leaves the machine: interrupts off, the controllers set
\* up by the firmware, the timer running.
InterruptsInit ==
    /\ \E masks \in BiosMasks :
           pic = [m |-> FirmwareChip(8, masks[1]), s |-> FirmwareChip(112, masks[2])]
    /\ lines = {} /\ keys = 0 /\ early = FALSE /\ glitches = 0
    /\ overdue = FALSE
    /\ at = "boot" /\ step = 0 /\ intr_flag = FALSE
    /\ idt_loaded = FALSE
    /\ saved_masks = [m |-> {}, s |-> {}]
    /\ vector = -1 /\ source = -1
    /\ g_ticks = 0

Now == Boot[step + 1]

\* Each step but the last, which sets the interrupt flag.
BootStep ==
    /\ at = "boot" /\ Now.op # "sti"
    /\ step' = step + 1
    /\ idt_loaded' = (idt_loaded \/ Now.op = "idt")
    /\ saved_masks' = IF Now.op = "save" THEN [m |-> pic.m.imr, s |-> pic.s.imr]
                      ELSE saved_masks
    /\ pic' = CASE Now.op = "out"     -> outb(pic, Now.chip, Now.port, Now.value)
                [] Now.op = "restore" -> outb(pic, Now.chip, "data", saved_masks[Now.chip])
                [] Now.op = "mask"    ->
                       outb(pic, Chip(Now.line), "data", pic[Chip(Now.line)].imr \cup {Bit(Now.line)})
                [] Now.op = "unmask"  ->
                       outb(pic, Chip(Now.line), "data", pic[Chip(Now.line)].imr \ {Bit(Now.line)})
                [] Now.op = "pit" /\ 0 \notin lines -> Rise(pic, 0)
                [] OTHER              -> pic
    /\ lines' = IF Now.op = "pit" THEN lines \cup {0} ELSE lines
    /\ early' = (early \/ (Now.op = "out" /\ Now.port = "icw1" /\ Now.chip = "m"
                           /\ 1 \in lines))
    /\ UNCHANGED <<keys, glitches, overdue, at, intr_flag, vector, source, g_ticks>>

Sti ==
    /\ at = "boot" /\ Now.op = "sti"
    /\ at' = "main" /\ intr_flag' = TRUE
    /\ UNCHANGED <<pic, deviceVars, early, step, idt_loaded, saved_masks, vector, source, g_ticks>>
-----------------------------------------------------------------------------
(* The devices *)

\* Channel 0 of the timer is a square wave, slow against the handlers: once
\* interrupts are on, a scancode's request does not wait through two rises, and
\* a rise is not answered in time at most MaxGlitches times.
Running == at \notin {"boot", "panic"}

TimerRises ==
    /\ 0 \notin lines
    /\ Running => ~ overdue
    /\ overdue' = (Running /\ 1 \in pic.m.irr)
    /\ lines' = lines \cup {0} /\ pic' = Rise(pic, 0)
    /\ UNCHANGED <<keys, early, glitches, cpuVars, g_ticks>>

TimerFalls ==
    LET late == Running /\ 0 \in pic.m.irr
    IN  /\ 0 \in lines
        /\ late => glitches < MaxGlitches
        /\ glitches' = IF late THEN glitches + 1 ELSE glitches
        /\ lines' = lines \ {0} /\ pic' = Fall(pic, 0)
        /\ UNCHANGED <<keys, overdue, early, cpuVars, g_ticks>>

\* A scancode comes in; the line is high while one waits behind the port.
KeyComes ==
    /\ keys < MaxKeys
    /\ keys' = keys + 1
    /\ UNCHANGED <<pic, lines, overdue, early, glitches, cpuVars, g_ticks>>

PortFills ==
    /\ keys > 0 /\ 1 \notin lines
    /\ lines' = lines \cup {1} /\ pic' = Rise(pic, 1)
    /\ UNCHANGED <<keys, overdue, early, glitches, cpuVars, g_ticks>>

\* A device that nobody serves raises its line, and lowers it.
DeviceToggles(l) ==
    /\ lines' = IF l \in lines THEN lines \ {l} ELSE lines \cup {l}
    /\ pic' = IF l \in lines THEN Fall(pic, l) ELSE Rise(pic, l)
    /\ UNCHANGED <<keys, overdue, early, glitches, cpuVars, g_ticks>>
-----------------------------------------------------------------------------
(* The processor *)

\* It sees a request between two instructions, and asks which one it is a
\* little later.
Accept ==
    /\ at = "main" /\ intr_flag
    /\ Asking(pic.m) # {}
    /\ at' = "accepted"
    /\ UNCHANGED <<pic, deviceVars, early, step, intr_flag, idt_loaded, saved_masks, vector, source, g_ticks>>

Serve(p, chip, i) == [p EXCEPT ![chip].irr = @ \ {i}, ![chip].isr = @ \cup {i}]

\* The controller's answer; when the request is gone it is that of line 7,
\* which is then not in service.  The gate turns interrupts off.
Enter(p, v, l) ==
    /\ pic' = Cascade(p)
    /\ vector' = v /\ source' = l
    /\ at' = "handler" /\ intr_flag' = FALSE
    /\ overdue' = (overdue /\ l # 1)
    /\ UNCHANGED <<lines, keys, glitches, early, step, idt_loaded, saved_masks, g_ticks>>

Acknowledge ==
    /\ at = "accepted"
    /\ LET i == Min(Asking(pic.m))
           j == Min(Asking(pic.s))
       IN  IF Asking(pic.m) = {} THEN Enter(pic, pic.m.base + 7, 7)
           ELSE IF i # 2 THEN Enter(Serve(pic, "m", i), pic.m.base + i, i)
           ELSE Enter(Serve(Serve(pic, "m", 2), "s", j), pic.s.base + j, 8 + j)

\* pit_on_tick and keyboard_on_irq, which takes the scancode from the port.
HandlerBody ==
    /\ at = "handler" /\ gate(vector) \in {"timer", "keyboard", "default"}
    /\ at' = "eoi"
    /\ g_ticks' = IF gate(vector) = "timer" THEN (g_ticks + 1) % TICKS ELSE g_ticks
    /\ IF gate(vector) = "keyboard" /\ 1 \in lines
       THEN keys' = keys - 1 /\ lines' = lines \ {1} /\ pic' = Fall(pic, 1)
       ELSE UNCHANGED <<keys, lines, pic>>
    /\ UNCHANGED <<early, glitches, overdue, step, intr_flag, idt_loaded, saved_masks, vector, source>>

\* Mutation: line 0 is taken for no line.
EoiNotForTimer(irq_line) == IF irq_line = 0 THEN pic ELSE outb(pic, "m", "eoi", 32)

pic_send_eoi(irq_line) ==
    outb(IF irq_line >= 8 THEN outb(pic, "s", "eoi", 32) ELSE pic, "m", "eoi", 32)

\* The line each handler acknowledges.
Acknowledged(handler) ==
    CASE handler = "timer" -> 0 [] handler = "keyboard" -> 1 [] OTHER -> 7

SendEoi ==
    /\ at = "eoi"
    /\ pic' = pic_send_eoi(Acknowledged(gate(vector)))
    /\ at' = "iret"
    /\ UNCHANGED <<deviceVars, early, step, intr_flag, idt_loaded, saved_masks, vector, source, g_ticks>>

Iret ==
    /\ at = "iret"
    /\ at' = "main" /\ intr_flag' = TRUE
    /\ vector' = -1 /\ source' = -1
    /\ UNCHANGED <<pic, deviceVars, early, step, idt_loaded, saved_masks, g_ticks>>

\* An exception of the processor, once there are gates.
Exception ==
    /\ at # "panic" /\ idt_loaded
    /\ vector' = 14
    /\ source' = -1
    /\ at' = "handler" /\ intr_flag' = FALSE
    /\ UNCHANGED <<pic, deviceVars, early, step, idt_loaded, saved_masks, g_ticks>>

\* isr_0 to isr_31, all panic_exception: the processor stops for ever.
Panic ==
    /\ at = "handler" /\ gate(vector) = "exception"
    /\ at' = "panic" /\ intr_flag' = FALSE
    /\ UNCHANGED <<pic, deviceVars, early, step, idt_loaded, saved_masks, vector, source, g_ticks>>
-----------------------------------------------------------------------------
Cpu == BootStep \/ Sti \/ Accept \/ Acknowledge \/ HandlerBody \/ SendEoi \/ Iret \/ Panic
Timer == TimerRises \/ TimerFalls

InterruptsNext ==
    \/ Cpu
    \/ Timer
    \/ KeyComes \/ PortFills
    \/ \E l \in Devices : DeviceToggles(l)
    \/ Exception

\* The processor executes, the timer runs on, the keyboard controller fills
\* its port.
InterruptsSpec ==
    /\ InterruptsInit
    /\ [][InterruptsNext]_interruptVars
    /\ WF_interruptVars(Cpu)
    /\ WF_interruptVars(TimerRises) /\ WF_interruptVars(TimerFalls)
    /\ WF_interruptVars(PortFills)
-----------------------------------------------------------------------------
\* Every interrupt runs the handler of its device, and one whose request is
\* gone the default one, never the handler of an exception, which would stop
\* the machine: whatever the firmware had set up, and whatever the lines do
\* while the controllers are programmed (kernel.c:52-86, idt.c:110-176,
\* pic.c:15-41).
HandlersMatchLines ==
    at = "handler" /\ source # -1 =>
        gate(vector) = (CASE source = 0 -> "timer" [] source = 1 -> "keyboard"
                         [] OTHER -> "default")

\* When no handler runs, neither controller has anything in service, so that
\* none of them waits for an acknowledgement that will not come: the default
\* handler, which acknowledges the master only, is never entered for a line
\* of the slave (idt.c:122-125, kernel.c:55-57).
AllAcknowledged ==
    at \in {"main", "accepted"} => pic.m.isr = {} /\ pic.s.isr = {}

Stopped == at = "panic"

\* Every scancode is read from the port, whatever other interrupts come, if
\* none was waiting when the controllers were reset.  On one that was, the
\* line stays high without an edge, and nobody reads the port.
ScancodesRead ==
    \A n \in 1 .. MaxKeys : (keys = n /\ ~ early) ~> (keys # n \/ early \/ Stopped)

\* The timer's handler runs again and again.
TicksGoOn == \A n \in 0 .. TICKS - 1 : g_ticks = n ~> (g_ticks # n \/ Stopped)
=============================================================================
