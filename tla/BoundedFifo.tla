---------------------------- MODULE BoundedFifo ----------------------------
(***************************************************************************)
(* What the keyboard driver's queues promise to the two sides that share   *)
(* them: a first-in first-out queue of at most Capacity values that        *)
(* refuses and counts what does not fit.  A pop either returns the oldest  *)
(* value or, when there is none, says so.  Both are single steps here.     *)
(***************************************************************************)
EXTENDS Naturals, Sequences

CONSTANTS
    Value,          \* what the queue holds
    Capacity,       \* how many of them at most
    CountMod,       \* the drop counter wraps at this value
    NoValue         \* what a caller is left with by a pop that returns false

VARIABLES
    items,          \* the queue, oldest first
    dropped,        \* the values refused because the queue was full
    taken           \* the result of the last pop

fifoVars == <<items, dropped, taken>>

FifoInit ==
    /\ items = <<>>
    /\ dropped = 0
    /\ taken = NoValue

Put(v) ==
    /\ Len(items) < Capacity
    /\ items' = Append(items, v)
    /\ UNCHANGED <<dropped, taken>>

Refuse ==
    /\ Len(items) = Capacity
    /\ dropped' = (dropped + 1) % CountMod
    /\ UNCHANGED <<items, taken>>

Get ==
    /\ items # <<>>
    /\ taken' = Head(items)
    /\ items' = Tail(items)
    /\ UNCHANGED dropped

GetNothing ==
    /\ items = <<>>
    /\ taken' = NoValue
    /\ UNCHANGED <<items, dropped>>

FifoNext ==
    \/ \E v \in Value : Put(v)
    \/ Refuse
    \/ Get
    \/ GetNothing

FifoSpec == FifoInit /\ [][FifoNext]_fifoVars
=============================================================================
