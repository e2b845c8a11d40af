------------------------------ MODULE PtyTable ------------------------------
(***************************************************************************)
(* The table of pseudo-terminals (pty.c), as far as it does not depend on  *)
(* how the queues are kept: Pty has them as sequences, PtyRings as rings.  *)
(***************************************************************************)
EXTENDS Integers

CONSTANTS
    PTY_MAX,            \* slots in g_ptys
    PTY_QUEUE_SIZE      \* a queue holds one byte less

ASSUME PtyAssumption ==
    /\ PTY_MAX \in Nat
    /\ PTY_QUEUE_SIZE \in Nat
    /\ PTY_QUEUE_SIZE >= 2

VARIABLES
    g_ptys,                 \* per slot: allocated, and the two queues
    g_pty_dropped_bytes,
    g_pty_invalid_ops

Ptys == 0 .. PTY_MAX - 1
pty_is_valid(id) == id \in Ptys /\ g_ptys[id].allocated
=============================================================================
