-------------------------------- MODULE Pty --------------------------------
(***************************************************************************)
(* The pseudo-terminals (pty.c), with each queue as the sequence of its    *)
(* unread bytes.  PtyRings has the queues as the code keeps them, as       *)
(* rings, and implements this module.  All of it runs in the main loop.    *)
(***************************************************************************)
EXTENDS PtyTable, Sequences

ptyVars == <<g_ptys, g_pty_dropped_bytes, g_pty_invalid_ops>>

Octet == 0 .. 255
NoPty == [allocated |-> FALSE, m2s |-> <<>>, s2m |-> <<>>]
FreshPty == [allocated |-> TRUE, m2s |-> <<>>, s2m |-> <<>>]
PtyRecord == [allocated : BOOLEAN, m2s : Seq(Octet), s2m : Seq(Octet)]

PtyTypeOK ==
    /\ g_ptys \in [Ptys -> PtyRecord]
    /\ g_pty_dropped_bytes \in Nat
    /\ g_pty_invalid_ops \in Nat

PtyInit ==
    /\ g_ptys = [p \in Ptys |-> NoPty]
    /\ g_pty_dropped_bytes = 0
    /\ g_pty_invalid_ops = 0
-----------------------------------------------------------------------------
\* The bytes of buf that a queue of this size takes: those that fit.
Accepted(q, size, buf) ==
    IF Len(buf) <= size - 1 - Len(q)
    THEN buf
    ELSE SubSeq(buf, 1, size - 1 - Len(q))

\* pty_master_write (dir "m2s") or pty_slave_write (dir "s2m").
PtyWrite(id, dir, buf) ==
    /\ pty_is_valid(id)
    /\ LET ok == Accepted(g_ptys[id][dir], PTY_QUEUE_SIZE, buf)
       IN  /\ g_ptys' = [g_ptys EXCEPT ![id][dir] = @ \o ok]
           /\ g_pty_dropped_bytes' = g_pty_dropped_bytes + Len(buf) - Len(ok)
    /\ UNCHANGED g_pty_invalid_ops

\* What a read into a buffer of n bytes returns.
Readable(q, n) == IF Len(q) <= n THEN q ELSE SubSeq(q, 1, n)

\* pty_slave_read (dir "m2s") or pty_master_read (dir "s2m").
PtyRead(id, dir, n) ==
    /\ pty_is_valid(id)
    /\ g_ptys' = [g_ptys EXCEPT ![id][dir] =
                      SubSeq(@, Len(Readable(@, n)) + 1, Len(@))]
    /\ UNCHANGED <<g_pty_dropped_bytes, g_pty_invalid_ops>>

\* Any of the four on a pty that does not exist.
PtyInvalidOp(id) ==
    /\ ~ pty_is_valid(id)
    /\ g_pty_invalid_ops' = g_pty_invalid_ops + 1
    /\ UNCHANGED <<g_ptys, g_pty_dropped_bytes>>

\* The slot pty_alloc returns, -1 when all are taken.
NextPty ==
    IF \A p \in Ptys : g_ptys[p].allocated
    THEN -1
    ELSE CHOOSE p \in Ptys : /\ ~ g_ptys[p].allocated
                             /\ \A o \in 0 .. p - 1 : g_ptys[o].allocated

pty_alloc ==
    /\ g_ptys' = IF NextPty = -1
                 THEN g_ptys
                 ELSE [g_ptys EXCEPT ![NextPty] = FreshPty]
    /\ UNCHANGED <<g_pty_dropped_bytes, g_pty_invalid_ops>>

\* A client that writes buffers from Buffers and reads up to Chunk bytes.
PtyNext(Buffers, Chunk) ==
    \/ pty_alloc
    \/ \E id \in -1 .. PTY_MAX, dir \in {"m2s", "s2m"} :
           \/ \E buf \in Buffers : PtyWrite(id, dir, buf)
           \/ \E n \in 1 .. Chunk : PtyRead(id, dir, n)
           \/ PtyInvalidOp(id)
=============================================================================
