------------------------------ MODULE History ------------------------------
(***************************************************************************)
(* The command history (rust/src/lib.rs): a ring of slots, each with the   *)
(* first bytes of a command, and a counter beside it.  Only the main loop  *)
(* calls it, so its lock is always free and a push is one step.            *)
(***************************************************************************)
EXTENDS Integers, Sequences

CONSTANTS HISTORY_SLOTS, SLOT_LEN

ASSUME HistoryAssumption ==
    HISTORY_SLOTS \in Nat \ {0} /\ SLOT_LEN \in Nat \ {0}

VARIABLES
    hist_entries,       \* of each slot, the first lens[slot] bytes
    hist_head,
    hist_count,
    HISTORY_COUNT

historyVars == <<hist_entries, hist_head, hist_count, HISTORY_COUNT>>

HistorySlots == 0 .. HISTORY_SLOTS - 1

HistoryInit ==
    /\ hist_entries = [slot \in HistorySlots |-> <<>>]
    /\ hist_head = 0
    /\ hist_count = 0
    /\ HISTORY_COUNT = 0

\* What a slot keeps of a command.
InSlot(src) == SubSeq(src, 1, IF Len(src) < SLOT_LEN THEN Len(src) ELSE SLOT_LEN - 1)

\* Mutation: once all slots are used, the last one is written again and again.
PushStops(src) ==
    /\ hist_entries' = [hist_entries EXCEPT ![hist_head] = InSlot(src)]
    /\ hist_head' = IF hist_head + 1 = HISTORY_SLOTS THEN hist_head ELSE hist_head + 1
    /\ hist_count' = IF hist_count < HISTORY_SLOTS THEN hist_count + 1 ELSE hist_count
    /\ HISTORY_COUNT' = HISTORY_COUNT + 1

\* For a command of at least one byte.
rust_history_push(src) ==
    /\ hist_entries' = [hist_entries EXCEPT ![hist_head] = InSlot(src)]
    /\ hist_head' = (hist_head + 1) % HISTORY_SLOTS
    /\ hist_count' = IF hist_count < HISTORY_SLOTS THEN hist_count + 1 ELSE hist_count
    /\ HISTORY_COUNT' = HISTORY_COUNT + 1

\* The commands the ring holds, oldest first.
Remembered ==
    [i \in 1 .. hist_count |->
        hist_entries[(hist_head + HISTORY_SLOTS - hist_count + i - 1) % HISTORY_SLOTS]]
=============================================================================
