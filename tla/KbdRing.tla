------------------------------ MODULE KbdRing ------------------------------
(***************************************************************************)
(* The ring between the keyboard interrupt and the main loop               *)
(* (keyboard.c: kbd_byte_queue with kbd_push_byte and keyboard_pop_char;   *)
(* kbd_event_queue with kbd_push_event and keyboard_pop_event has the same *)
(* code and another size and element).                                     *)
(*                                                                         *)
(* The push runs inside the interrupt handler with interrupts disabled, so *)
(* it is one step.  The pop runs in the main loop with interrupts enabled: *)
(* its test of the indices, its read of the slot and its update of the     *)
(* tail are three steps, and the interrupt may come between any two.       *)
(***************************************************************************)
EXTENDS Naturals, Sequences

CONSTANTS
    Value,          \* the values stored (bytes, key events)
    Size,           \* KBD_BYTE_QUEUE_SIZE, KBD_EVENT_QUEUE_SIZE
    CountMod,       \* 2^64 in the code: the drop counter is a uint64_t
    NoValue         \* the caller's variable when nothing was popped

ASSUME SizeAssumption == Size \in Nat /\ Size >= 2
ASSUME CountAssumption == CountMod \in Nat \ {0}
ASSUME ValueAssumption == NoValue \notin Value

VARIABLES
    queue,          \* the slots
    head,           \* where the next push goes
    tail,           \* where the next pop reads
    dropped,        \* kbd_drop_byte_count, kbd_drop_event_count
    pc,             \* where the main loop is in the pop
    out,            \* the caller's variable behind the out pointer
    taken           \* what the last completed pop returned

vars == <<queue, head, tail, dropped, pc, out, taken>>

Slots == 0 .. Size - 1

TypeOK ==
    /\ queue \in [Slots -> Value \cup {NoValue}]
    /\ head \in Slots
    /\ tail \in Slots
    /\ dropped \in 0 .. CountMod - 1
    /\ pc \in {"test", "read", "advance"}
    /\ out \in Value \cup {NoValue}
    /\ taken \in Value \cup {NoValue}

Succ(i) == (i + 1) % Size

\* The values between tail and head, oldest first.
Count == IF head >= tail THEN head - tail ELSE head + Size - tail
SlotAt(i) == IF tail + i < Size THEN tail + i ELSE tail + i - Size
Contents == [i \in 1 .. Count |-> queue[SlotAt(i - 1)]]
-----------------------------------------------------------------------------
Init ==
    /\ queue = [i \in Slots |-> NoValue]
    /\ head = 0
    /\ tail = 0
    /\ dropped = 0
    /\ pc = "test"
    /\ out = NoValue
    /\ taken = NoValue

\* Mutation: the full ring is not detected.
PushWithoutReserve(v) ==
    /\ queue' = [queue EXCEPT ![head] = v]
    /\ head' = Succ(head)
    /\ UNCHANGED <<tail, dropped, pc, out, taken>>

\* kbd_push_byte: one slot stays free, so that a full ring differs from an
\* empty one.
Push(v) ==
    /\ Succ(head) # tail
    /\ queue' = [queue EXCEPT ![head] = v]
    /\ head' = Succ(head)
    /\ UNCHANGED <<tail, dropped, pc, out, taken>>

PushFull ==
    /\ Succ(head) = tail
    /\ dropped' = (dropped + 1) % CountMod
    /\ UNCHANGED <<queue, head, tail, pc, out, taken>>

\* keyboard_pop_char, first the two tests of the indices ...
PopEmpty ==
    /\ pc = "test"
    /\ tail = head
    /\ taken' = NoValue
    /\ UNCHANGED <<queue, head, tail, dropped, pc, out>>

PopTest ==
    /\ pc = "test"
    /\ tail # head
    /\ pc' = "read"
    /\ UNCHANGED <<queue, head, tail, dropped, out, taken>>

\* Mutation: a pop that gives the slot back before it has read it.
PopAdvanceFirst ==
    /\ pc = "read"
    /\ tail' = Succ(tail)
    /\ pc' = "advance"
    /\ UNCHANGED <<queue, head, dropped, out, taken>>

\* ... then the read of the slot ...
PopRead ==
    /\ pc = "read"
    /\ out' = queue[tail]
    /\ pc' = "advance"
    /\ UNCHANGED <<queue, head, tail, dropped, taken>>

\* ... then the update of the tail and the return.
PopAdvance ==
    /\ pc = "advance"
    /\ tail' = Succ(tail)
    /\ taken' = out
    /\ pc' = "test"
    /\ UNCHANGED <<queue, head, dropped, out>>

Next ==
    \/ \E v \in Value : Push(v)
    \/ PushFull
    \/ PopEmpty
    \/ PopTest
    \/ PopRead
    \/ PopAdvance

Spec == Init /\ [][Next]_vars
-----------------------------------------------------------------------------
\* What the main loop saw stays true across interrupts: once the test found
\* a value, the ring does not become empty, and once the slot is read, it is
\* not overwritten before the tail moves past it (keyboard.c:460-465, where
\* an interrupt may push between the lines).
PopIsStable ==
    /\ pc \in {"read", "advance"} => tail # head
    /\ pc = "advance" => out = queue[tail]

\* Every value that was pushed and not yet popped is a real value: no pop
\* returns a slot that was never written.
ContentsAreValues == \A i \in DOMAIN Contents : Contents[i] \in Value

Inv == TypeOK /\ PopIsStable /\ ContentsAreValues

\* The ring with an interruptible pop implements a queue whose pop is a
\* single step, taken when the tail moves.
Fifo == INSTANCE BoundedFifo WITH
            items <- Contents,
            Capacity <- Size - 1
FifoImplemented == Fifo!FifoSpec
=============================================================================
