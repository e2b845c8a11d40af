------------------------------ MODULE PtyRings ------------------------------
(***************************************************************************)
(* pty.c as written: every pty slot has two rings of PTY_QUEUE_SIZE bytes, *)
(* written and read in batches, and two global fault counters.  The loops  *)
(* of pty_queue_write and pty_queue_read are in closed form: the number of *)
(* bytes they move, and the slots these bytes end up in.                   *)
(***************************************************************************)
EXTENDS PtyTable, Sequences

CONSTANTS
    Buffers,            \* what the clients write
    Chunk,              \* the size of the largest read buffer
    MaxFaults           \* once a fault counter is here, no more such calls

ASSUME PtyRingsAssumption ==
    /\ Buffers \subseteq Seq(0 .. 255)
    /\ Chunk \in Nat /\ MaxFaults \in Nat

vars == <<g_ptys, g_pty_dropped_bytes, g_pty_invalid_ops>>

Slots == 0 .. PTY_QUEUE_SIZE - 1
Ring == [queue : [Slots -> 0 .. 255], head : Slots, tail : Slots]

Least(m, n) == IF m <= n THEN m ELSE n

Count(r) == (r.head + PTY_QUEUE_SIZE - r.tail) % PTY_QUEUE_SIZE
Contents(r) ==
    [i \in 1 .. Count(r) |-> r.queue[(r.tail + i - 1) % PTY_QUEUE_SIZE]]
-----------------------------------------------------------------------------
\* pty_init: memset to zero.
ZeroRing == [queue |-> [s \in Slots |-> 0], head |-> 0, tail |-> 0]

Init ==
    /\ g_ptys = [p \in Ptys |->
                     [allocated |-> FALSE, m2s |-> ZeroRing, s2m |-> ZeroRing]]
    /\ g_pty_dropped_bytes = 0
    /\ g_pty_invalid_ops = 0

\* Mutation: all slots are used, so a full ring looks like an empty one.
WrittenAllSlots(r, buf) == Least(Len(buf), PTY_QUEUE_SIZE - Count(r))

\* The bytes pty_queue_write stores before next meets the tail.
Written(r, buf) == Least(Len(buf), PTY_QUEUE_SIZE - 1 - Count(r))

\* pty_queue_write: byte i of the batch goes i slots past the head.
Stored(r, buf) ==
    LET n == Written(r, buf)
    IN  [r EXCEPT
           !.queue = [s \in Slots |->
               LET i == (s + PTY_QUEUE_SIZE - r.head) % PTY_QUEUE_SIZE
               IN  IF i < n THEN buf[i + 1] ELSE r.queue[s]],
           !.head = (@ + n) % PTY_QUEUE_SIZE]

\* pty_queue_read: the tail moves past what was there, at most n bytes.
Drained(r, n) == [r EXCEPT !.tail = (@ + Least(n, Count(r))) % PTY_QUEUE_SIZE]

pty_master_write(id, buf) ==
    /\ pty_is_valid(id)
    /\ g_ptys' = [g_ptys EXCEPT ![id].m2s = Stored(@, buf)]
    /\ g_pty_dropped_bytes' =
           g_pty_dropped_bytes + Len(buf) - Written(g_ptys[id].m2s, buf)
    /\ UNCHANGED g_pty_invalid_ops

pty_slave_write(id, buf) ==
    /\ pty_is_valid(id)
    /\ g_ptys' = [g_ptys EXCEPT ![id].s2m = Stored(@, buf)]
    /\ g_pty_dropped_bytes' =
           g_pty_dropped_bytes + Len(buf) - Written(g_ptys[id].s2m, buf)
    /\ UNCHANGED g_pty_invalid_ops

pty_slave_read(id, n) ==
    /\ pty_is_valid(id)
    /\ g_ptys' = [g_ptys EXCEPT ![id].m2s = Drained(@, n)]
    /\ UNCHANGED <<g_pty_dropped_bytes, g_pty_invalid_ops>>

pty_master_read(id, n) ==
    /\ pty_is_valid(id)
    /\ g_ptys' = [g_ptys EXCEPT ![id].s2m = Drained(@, n)]
    /\ UNCHANGED <<g_pty_dropped_bytes, g_pty_invalid_ops>>

\* The four of them on an id that is out of range or not allocated.
InvalidOp(id) ==
    /\ ~ pty_is_valid(id)
    /\ g_pty_invalid_ops' = g_pty_invalid_ops + 1
    /\ UNCHANGED <<g_ptys, g_pty_dropped_bytes>>

\* pty_alloc takes the first free slot, rewinds both rings and leaves the
\* bytes that are in their slots.
pty_alloc(p) ==
    /\ ~ g_ptys[p].allocated
    /\ \A o \in 0 .. p - 1 : g_ptys[o].allocated
    /\ g_ptys' = [g_ptys EXCEPT
                      ![p].allocated = TRUE,
                      ![p].m2s.head = 0, ![p].m2s.tail = 0,
                      ![p].s2m.head = 0, ![p].s2m.tail = 0]
    /\ UNCHANGED <<g_pty_dropped_bytes, g_pty_invalid_ops>>

Next ==
    \/ \E p \in Ptys : pty_alloc(p)
    \/ \E id \in -1 .. PTY_MAX :
           \/ \E buf \in Buffers :
                  /\ g_pty_dropped_bytes < MaxFaults
                  /\ pty_master_write(id, buf) \/ pty_slave_write(id, buf)
           \/ \E n \in 1 .. Chunk : pty_slave_read(id, n) \/ pty_master_read(id, n)
           \/ g_pty_invalid_ops < MaxFaults /\ InvalidOp(id)

Spec == Init /\ [][Next]_vars
-----------------------------------------------------------------------------
\* The queues that the rings stand for.
QueuesOf(ptys) ==
    [p \in Ptys |-> [allocated |-> ptys[p].allocated,
                     m2s |-> Contents(ptys[p].m2s),
                     s2m |-> Contents(ptys[p].s2m)]]

\* The batched ring operations are those of byte queues: what is read is what
\* was written to that pty in that direction, in order, a short write keeps a
\* prefix and counts the rest (pty.c:21-47 and its callers).
Queues == INSTANCE Pty WITH g_ptys <- QueuesOf(g_ptys)
QueuesImplemented ==
    Queues!PtyInit /\ [][Queues!PtyNext(Buffers, Chunk)]_(Queues!ptyVars)
=============================================================================
