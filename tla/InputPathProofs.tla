-------------------------- MODULE InputPathProofs --------------------------
(***************************************************************************)
(* From the line discipline to the shell: the line buffers, the queues and *)
(* the session table are sound after any sequence of calls, and what the   *)
(* shell runs and remembers is what was typed, for every size of the       *)
(* tables, queues and buffers and every set of input bytes.                *)
(***************************************************************************)
EXTENDS Echo, SequenceTheorems, WellFoundedInduction, TLAPS

USE PtyAssumption, TtyAssumption

\* What a queue takes of a buffer is a first part of it, and fits.
LEMMA AcceptedFacts ==
    ASSUME NEW q \in Seq(Octet), NEW buf \in Seq(Octet), NEW size \in Nat,
           Len(q) < size
    PROVE  /\ Accepted(q, size, buf) \in Seq(Octet)
           /\ Len(Accepted(q, size, buf)) \in 0 .. Len(buf)
           /\ Len(q) + Len(Accepted(q, size, buf)) < size
           /\ Accepted(q, size, buf) = SubSeq(buf, 1, Len(Accepted(q, size, buf)))
<1>1. CASE Len(buf) <= size - 1 - Len(q)
  <2>1. Accepted(q, size, buf) = buf
    BY <1>1 DEF Accepted
  <2>2. SubSeq(buf, 1, Len(buf)) = buf
    BY SubSeqFull
  <2> QED
    BY <1>1, <2>1, <2>2
<1>2. CASE ~ (Len(buf) <= size - 1 - Len(q))
  <2> DEFINE n == size - 1 - Len(q)
  <2>1. Accepted(q, size, buf) = SubSeq(buf, 1, n)
    BY <1>2 DEF Accepted
  <2>2. n \in 0 .. Len(buf)
    BY <1>2
  <2>3. SubSeq(buf, 1, n) \in Seq(Octet) /\ Len(SubSeq(buf, 1, n)) = n
    BY <2>2
  <2> QED
    BY <2>1, <2>2, <2>3
<1> QED
  BY <1>1, <1>2

\* The reader's queue, whichever it is, is a queue with a free slot.
LEMMA SinkFacts ==
    ASSUME TypeOK, BufferBounds
    PROVE  /\ Sink \in Seq(Octet)
           /\ SinkSize \in Nat
           /\ Len(Sink) < SinkSize
<1>1. CASE Attached
  <2>1. tty_session_pty \in Ptys /\ g_ptys[tty_session_pty] \in PtyRecord
    BY <1>1 DEF Attached, pty_is_valid, TypeOK, PtyTypeOK
  <2> QED
    BY <1>1, <2>1 DEF Sink, SinkSize, BufferBounds, PtyRecord
<1>2. CASE ~ Attached
  BY <1>2 DEF Sink, SinkSize, BufferBounds, TypeOK, TtyTypeOK
<1> QED
  BY <1>1, <1>2

\* The facts about tty_enqueue_read that every caller relies on.
LEMMA EnqueueFacts ==
    ASSUME TypeOK, BufferBounds, NEW bs \in Seq(Octet), NEW lost \in Nat,
           Enqueue(bs, lost)
    PROVE  /\ PtyTypeOK'
           /\ tty_read_queue' \in Seq(Octet)
           /\ Len(tty_read_queue') < TTY_READ_QUEUE_SIZE
           /\ \A p \in Ptys : Len(g_ptys'[p].m2s) < PTY_QUEUE_SIZE
           /\ Taken(bs) \in Seq(Octet)
           /\ Len(Taken(bs)) \in 0 .. Len(bs)
           /\ Taken(bs) = SubSeq(bs, 1, Len(Taken(bs)))
           /\ delivered' = delivered \o Taken(bs)
           /\ delivered' \in Seq(Octet)
           /\ Len(delivered') = Len(delivered) + Len(Taken(bs))
           /\ tty_drop_count' = tty_drop_count + lost + Len(bs) - Len(Taken(bs))
           /\ tty_drop_count' \in Nat
           /\ g_pty_dropped_bytes' \in g_pty_dropped_bytes ..
                  g_pty_dropped_bytes + Len(bs) - Len(Taken(bs))
<1>1. /\ Taken(bs) \in Seq(Octet)
      /\ Len(Taken(bs)) \in 0 .. Len(bs)
      /\ Len(Sink) + Len(Taken(bs)) < SinkSize
      /\ Taken(bs) = SubSeq(bs, 1, Len(Taken(bs)))
  BY SinkFacts, AcceptedFacts DEF Taken
<1>2. /\ delivered' = delivered \o Taken(bs)
      /\ tty_drop_count' = tty_drop_count + lost + Len(bs) - Len(Taken(bs))
  BY DEF Enqueue
<1>3. /\ delivered' \in Seq(Octet)
      /\ Len(delivered') = Len(delivered) + Len(Taken(bs))
  BY <1>1, <1>2, ConcatProperties DEF TypeOK, TtyTypeOK
<1>4. tty_drop_count' \in Nat
  <2>1. tty_drop_count \in Nat /\ Len(bs) \in Nat
    BY DEF TypeOK, TtyTypeOK
  <2> QED
    BY <1>1, <1>2, <2>1
<1>5. CASE Attached
  <2> DEFINE p == tty_session_pty
  <2>1. p \in Ptys /\ g_ptys[p] \in PtyRecord /\ g_ptys \in [Ptys -> PtyRecord]
    BY <1>5 DEF Attached, pty_is_valid, TypeOK, PtyTypeOK
  <2>2. /\ Sink = g_ptys[p].m2s
        /\ SinkSize = PTY_QUEUE_SIZE
        /\ Taken(bs) = Accepted(g_ptys[p]["m2s"], PTY_QUEUE_SIZE, bs)
    BY <1>5 DEF Sink, SinkSize, Taken
  <2>3. /\ g_ptys' = [g_ptys EXCEPT ![p]["m2s"] = @ \o Taken(bs)]
        /\ g_pty_dropped_bytes' = g_pty_dropped_bytes + Len(bs) - Len(Taken(bs))
        /\ UNCHANGED <<g_pty_invalid_ops, tty_read_queue>>
    BY <1>5, <2>2 DEF Enqueue, PtyWrite
  <2> DEFINE q == g_ptys[p].m2s \o Taken(bs)
  <2>4. q \in Seq(Octet) /\ Len(q) < PTY_QUEUE_SIZE
    <3>1. g_ptys[p].m2s \in Seq(Octet)
      BY <2>1 DEF PtyRecord
    <3>2. q \in Seq(Octet) /\ Len(q) = Len(g_ptys[p].m2s) + Len(Taken(bs))
      BY <1>1, <3>1, ConcatProperties
    <3> QED
      BY <1>1, <2>2, <3>1, <3>2
  <2> HIDE DEF q
  <2>5. g_ptys' = [g_ptys EXCEPT ![p] = [@ EXCEPT !.m2s = q]]
    BY <2>3 DEF q
  <2>6. g_ptys' \in [Ptys -> PtyRecord]
    BY <2>1, <2>4, <2>5 DEF PtyRecord
  <2>7. \A o \in Ptys : Len(g_ptys'[o].m2s) < PTY_QUEUE_SIZE
    BY <2>1, <2>4, <2>5 DEF PtyRecord, BufferBounds
  <2>8. g_pty_dropped_bytes \in Nat /\ Len(bs) \in Nat
    BY DEF TypeOK, PtyTypeOK
  <2>9. g_pty_dropped_bytes' \in Nat
    BY <1>1, <2>3, <2>8
  <2>10. PtyTypeOK'
    BY <2>3, <2>6, <2>9 DEF TypeOK, PtyTypeOK, Ptys
  <2>11. tty_read_queue' \in Seq(Octet) /\ Len(tty_read_queue') < TTY_READ_QUEUE_SIZE
    BY <2>3 DEF TypeOK, TtyTypeOK, BufferBounds
  <2>12. g_pty_dropped_bytes' \in g_pty_dropped_bytes ..
             g_pty_dropped_bytes + Len(bs) - Len(Taken(bs))
    BY <1>1, <2>3, <2>8
  <2> QED
    BY <1>1, <1>2, <1>3, <1>4, <2>7, <2>10, <2>11, <2>12
<1>6. CASE ~ Attached
  <2>1. tty_read_queue' = tty_read_queue \o Taken(bs) /\ UNCHANGED ptyVars
    BY <1>6 DEF Enqueue
  <2>2. Sink = tty_read_queue /\ SinkSize = TTY_READ_QUEUE_SIZE
    BY <1>6 DEF Sink, SinkSize
  <2>3. /\ tty_read_queue' \in Seq(Octet)
        /\ Len(tty_read_queue') = Len(tty_read_queue) + Len(Taken(bs))
    BY <1>1, <2>1, ConcatProperties DEF TypeOK, TtyTypeOK
  <2>4. PtyTypeOK' /\ \A p \in Ptys : Len(g_ptys'[p].m2s) < PTY_QUEUE_SIZE
    BY <2>1 DEF ptyVars, TypeOK, PtyTypeOK, BufferBounds
  <2>5. g_pty_dropped_bytes' = g_pty_dropped_bytes /\ g_pty_dropped_bytes \in Nat
    BY <2>1 DEF ptyVars, TypeOK, PtyTypeOK
  <2> QED
    BY <1>1, <1>2, <1>3, <1>4, <2>2, <2>3, <2>4, <2>5
<1> QED
  BY <1>5, <1>6

\* The ends of a line, as sequences of bytes.
LEMMA LineFacts ==
    ASSUME TypeOK, NEW b \in Octet
    PROVE  /\ <<b>> \in Seq(Octet) /\ Len(<<b>>) = 1
           /\ <<>> \in Seq(Octet) /\ Len(<<>>) = 0
           /\ Append(tty_line, b) \in Seq(Octet)
           /\ Len(Append(tty_line, b)) = Len(tty_line) + 1
           /\ tty_line # <<>> =>
                 /\ SubSeq(tty_line, 1, Len(tty_line) - 1) \in Seq(Octet)
                 /\ Len(SubSeq(tty_line, 1, Len(tty_line) - 1)) = Len(tty_line) - 1
                 /\ Len(tty_line) > 0
<1>1. tty_line \in Seq(Octet)
  BY DEF TypeOK, TtyTypeOK
<1>2. ASSUME tty_line # <<>>
      PROVE  /\ SubSeq(tty_line, 1, Len(tty_line) - 1) \in Seq(Octet)
             /\ Len(SubSeq(tty_line, 1, Len(tty_line) - 1)) = Len(tty_line) - 1
             /\ Len(tty_line) > 0
  <2>1. Len(tty_line) \in Nat \ {0}
    BY <1>1, <1>2, EmptySeq
  <2> DEFINE n == Len(tty_line) - 1
  <2>2. n \in 0 .. Len(tty_line)
    BY <2>1
  <2>3. \A i \in 1 .. n : tty_line[i] \in Octet
    BY <1>1, <2>2, ElementOfSeq
  <2>4. n \in Nat
    BY <2>1
  <2> HIDE DEF n
  <2>5. /\ SubSeq(tty_line, 1, n) \in Seq(Octet)
        /\ Len(SubSeq(tty_line, 1, n)) = IF 1 <= n THEN n - 1 + 1 ELSE 0
    BY <2>3, <2>4, SubSeqProperties
  <2>6. n = IF 1 <= n THEN n - 1 + 1 ELSE 0
    BY <2>4
  <2> QED
    BY <2>1, <2>5, <2>6 DEF n
<1> QED
  BY <1>1, <1>2

\* The counters and lengths the ledger adds up are natural numbers.
LEMMA NumbersAreNat ==
    ASSUME TypeOK
    PROVE  /\ tty_rx_count \in Nat /\ tty_drop_count \in Nat
           /\ tty_line_overflow_count \in Nat /\ tty_escape_discard_count \in Nat
           /\ spent \in Nat /\ Len(delivered) \in Nat /\ Len(tty_line) \in Nat
           /\ g_pty_dropped_bytes \in Nat
  BY DEF TypeOK, TtyTypeOK, PtyTypeOK

\* A step that delivers nothing keeps the reader's side.
LEMMA NothingEnqueuedFacts ==
    ASSUME TypeOK, BufferBounds, NothingEnqueued
    PROVE  /\ PtyTypeOK'
           /\ tty_read_queue' \in Seq(Octet)
           /\ Len(tty_read_queue') < TTY_READ_QUEUE_SIZE
           /\ \A p \in Ptys : Len(g_ptys'[p].m2s) < PTY_QUEUE_SIZE
           /\ delivered' = delivered /\ delivered' \in Seq(Octet)
           /\ g_pty_dropped_bytes' = g_pty_dropped_bytes
<1>1. UNCHANGED <<g_ptys, g_pty_dropped_bytes, g_pty_invalid_ops, tty_read_queue, delivered>>
  BY DEF NothingEnqueued, ptyVars
<1> QED
  BY <1>1 DEF TypeOK, PtyTypeOK, TtyTypeOK, BufferBounds

\* The invariant of the bytes: that of the tty alone, but for n bytes that
\* somebody else lost in a pty.
Covered(n) == g_pty_dropped_bytes + tty_line_overflow_count <= tty_drop_count + n
ByteInv(n) == TypeOK /\ BufferBounds /\ Ledger /\ Covered(n)

\* What is left to show of a step that handles a byte: the line, the filter,
\* the reader's side and the counters are sound, and the books balance.
LEMMA Combine ==
    ASSUME NEW n \in Nat, TypeOK,
           UNCHANGED modeVars,
           tty_rx_count' \in Nat,
           PtyTypeOK',
           tty_read_queue' \in Seq(Octet),
           Len(tty_read_queue') < TTY_READ_QUEUE_SIZE,
           \A p \in Ptys : Len(g_ptys'[p].m2s) < PTY_QUEUE_SIZE,
           delivered' \in Seq(Octet),
           tty_line' \in Seq(Octet),
           Len(tty_line') < TTY_LINE_BUFFER_SIZE,
           tty_escape_state' \in 0 .. 2,
           tty_drop_count' \in Nat,
           tty_line_overflow_count' \in Nat,
           tty_escape_discard_count' \in Nat,
           tty_line_truncated' \in BOOLEAN,
           spent' \in Nat,
           Ledger', Covered(n)'
    PROVE  ByteInv(n)'
<1>1. tty_canonical' \in BOOLEAN /\ tty_session_pty' \in Int
  BY DEF modeVars, TypeOK, TtyTypeOK
<1>2. TtyTypeOK'
  BY <1>1 DEF TtyTypeOK
<1>3. BufferBounds'
  BY DEF BufferBounds, Ptys
<1> QED
  BY <1>2, <1>3 DEF ByteInv, TypeOK

\* The arithmetic of the ledger, for one step: gone is what the reader was
\* given or lost, and gone grows by m; used bytes are spent.
LEMMA Balance ==
    ASSUME NEW rx \in Nat, NEW kept \in Nat, NEW gone \in Nat, NEW m \in Nat,
           NEW ln \in Nat, NEW lnNew \in Nat, NEW used \in Nat,
           rx = kept + gone + ln,
           m + used + lnNew = ln + 1
    PROVE  rx + 1 = (kept + used) + (gone + m) + lnNew
  OBVIOUS

LEMMA Regroup ==
    ASSUME NEW disc \in Nat, NEW drop \in Nat, NEW del \in Nat, NEW sp \in Nat,
           NEW ln \in Nat
    PROVE  disc + drop + del + sp + ln = (disc + sp) + (del + drop) + ln
  OBVIOUS

LEMMA Reckon ==
    ASSUME NEW rx \in Nat, NEW disc \in Nat, NEW drop \in Nat, NEW del \in Nat,
           NEW sp \in Nat, NEW ln \in Nat, NEW lnNew \in Nat, NEW kept \in Nat,
           NEW used \in Nat,
           rx = disc + drop + del + sp + ln,
           kept + used + lnNew = ln + 1
    PROVE  rx + 1 = disc + (drop + kept) + del + (sp + used) + lnNew
  OBVIOUS

LEMMA Cover ==
    ASSUME NEW pd \in Nat, NEW pdNew \in Nat, NEW over \in Nat, NEW lost \in Nat,
           NEW drop \in Nat, NEW dropNew \in Nat, NEW n \in Nat,
           pd + over <= drop + n,
           pdNew + drop + lost <= dropNew + pd
    PROVE  pdNew + (over + lost) <= dropNew + n
  OBVIOUS

\* Handling one byte keeps the invariant, whatever the byte.
LEMMA HandleByteStep ==
    ASSUME NEW n \in Nat, ByteInv(n), NEW b \in Octet, HandleByte(b)
    PROVE  ByteInv(n)'
<1> USE DEF Ledger, Covered
<1>i. TypeOK /\ BufferBounds /\ Ledger /\ Covered(n)
  BY DEF ByteInv
<1>n. /\ tty_rx_count \in Nat /\ tty_drop_count \in Nat
      /\ tty_line_overflow_count \in Nat /\ tty_escape_discard_count \in Nat
      /\ spent \in Nat /\ Len(delivered) \in Nat /\ Len(tty_line) \in Nat
      /\ g_pty_dropped_bytes \in Nat
  BY <1>i, NumbersAreNat
<1>t. /\ tty_line \in Seq(Octet) /\ Len(tty_line) < TTY_LINE_BUFFER_SIZE
      /\ tty_escape_state \in 0 .. 2 /\ tty_line_truncated \in BOOLEAN
  BY <1>i DEF TypeOK, TtyTypeOK, BufferBounds
<1>r. tty_rx_count' = tty_rx_count + 1 /\ UNCHANGED modeVars
  BY DEF HandleByte
<1>l. /\ <<b>> \in Seq(Octet) /\ Len(<<b>>) = 1
      /\ <<>> \in Seq(Octet) /\ Len(<<>>) = 0
      /\ Append(tty_line, b) \in Seq(Octet)
      /\ Len(Append(tty_line, b)) = Len(tty_line) + 1
      /\ tty_line # <<>> =>
            /\ SubSeq(tty_line, 1, Len(tty_line) - 1) \in Seq(Octet)
            /\ Len(SubSeq(tty_line, 1, Len(tty_line) - 1)) = Len(tty_line) - 1
            /\ Len(tty_line) > 0
  BY <1>i, LineFacts
<1>e. ASSUME NEW bs \in Seq(Octet), NEW lost \in Nat, Enqueue(bs, lost)
      PROVE  /\ PtyTypeOK'
             /\ tty_read_queue' \in Seq(Octet)
             /\ Len(tty_read_queue') < TTY_READ_QUEUE_SIZE
             /\ \A p \in Ptys : Len(g_ptys'[p].m2s) < PTY_QUEUE_SIZE
             /\ delivered' \in Seq(Octet) /\ Len(delivered') \in Nat
             /\ tty_drop_count' \in Nat
             /\ Len(delivered') + tty_drop_count'
                   = Len(delivered) + tty_drop_count + lost + Len(bs)
             /\ g_pty_dropped_bytes' \in Nat
             /\ g_pty_dropped_bytes' + tty_drop_count + lost
                   <= tty_drop_count' + g_pty_dropped_bytes
  <2> DEFINE k == Len(Taken(bs))
  <2>1. /\ PtyTypeOK'
        /\ tty_read_queue' \in Seq(Octet)
        /\ Len(tty_read_queue') < TTY_READ_QUEUE_SIZE
        /\ \A p \in Ptys : Len(g_ptys'[p].m2s) < PTY_QUEUE_SIZE
        /\ delivered' \in Seq(Octet)
        /\ tty_drop_count' \in Nat
    BY <1>e, <1>i, EnqueueFacts
  <2>2. /\ k \in 0 .. Len(bs)
        /\ Len(delivered') = Len(delivered) + k
        /\ tty_drop_count' = tty_drop_count + lost + Len(bs) - k
        /\ g_pty_dropped_bytes' \in g_pty_dropped_bytes ..
               g_pty_dropped_bytes + Len(bs) - k
    BY <1>e, <1>i, EnqueueFacts
  <2>3. Len(bs) \in Nat
    OBVIOUS
  <2> HIDE DEF k
  <2>4. PICK m, d, t, g, d1, t1, g1 :
            /\ m = Len(bs) /\ d = Len(delivered) /\ t = tty_drop_count /\ g = g_pty_dropped_bytes
            /\ d1 = Len(delivered') /\ t1 = tty_drop_count' /\ g1 = g_pty_dropped_bytes'
    BY Zenon
  <2>5. /\ m \in Nat /\ d \in Nat /\ t \in Nat /\ g \in Nat /\ k \in 0 .. m
        /\ d1 = d + k /\ t1 = t + lost + m - k /\ g1 \in g .. g + m - k
    BY <1>n, <2>2, <2>3, <2>4
  <2>6. d1 \in Nat /\ d1 + t1 = d + t + lost + m /\ g1 \in Nat /\ g1 + t + lost <= t1 + g
    BY <2>5
  <2> QED
    BY <2>1, <2>4, <2>6, Zenon
<1>1. CASE tty_canonical /\ DiscardEscape(b)
  <2>1. /\ NothingEnqueued
        /\ tty_escape_discard_count' = tty_escape_discard_count + 1
        /\ tty_escape_state' = EscapeNext(b)
        /\ UNCHANGED <<tty_line, tty_drop_count, tty_line_overflow_count,
                       tty_line_truncated, spent>>
    BY <1>1 DEF DiscardEscape
  <2>2. tty_escape_state' \in 0 .. 2
    BY <2>1 DEF EscapeNext
  <2>3. Ledger' /\ Covered(n)'
    BY <1>i, <1>n, <1>r, <2>1, NothingEnqueuedFacts
  <2> QED
    BY <1>i, <1>n, <1>t, <1>r, <2>1, <2>2, <2>3, NothingEnqueuedFacts, Combine
<1>2. ASSUME NEW bs \in Seq(Octet), NEW lost \in Nat, NEW used \in Nat,
             Enqueue(bs, lost),
             tty_line' = <<>> \/ tty_line' = tty_line,
             tty_line_overflow_count' = tty_line_overflow_count + lost,
             tty_line_truncated' \in BOOLEAN,
             spent' = spent + used,
             UNCHANGED <<tty_escape_state, tty_escape_discard_count>>,
             Len(bs) + lost + used + Len(tty_line') = Len(tty_line) + 1
      PROVE  ByteInv(n)'
  <2>1. /\ PtyTypeOK'
        /\ tty_read_queue' \in Seq(Octet)
        /\ Len(tty_read_queue') < TTY_READ_QUEUE_SIZE
        /\ \A p \in Ptys : Len(g_ptys'[p].m2s) < PTY_QUEUE_SIZE
        /\ delivered' \in Seq(Octet) /\ Len(delivered') \in Nat
        /\ tty_drop_count' \in Nat
        /\ Len(delivered') + tty_drop_count'
              = Len(delivered) + tty_drop_count + lost + Len(bs)
        /\ g_pty_dropped_bytes' \in Nat
        /\ g_pty_dropped_bytes' + tty_drop_count + lost
              <= tty_drop_count' + g_pty_dropped_bytes
    BY <1>2, <1>e
  <2>a. tty_line' = <<>> \/ tty_line' = tty_line
    BY <1>2
  <2>b. /\ tty_line_overflow_count' = tty_line_overflow_count + lost
        /\ tty_line_truncated' \in BOOLEAN
        /\ spent' = spent + used
        /\ tty_escape_state' = tty_escape_state
        /\ tty_escape_discard_count' = tty_escape_discard_count
        /\ Len(bs) + lost + used + Len(tty_line') = Len(tty_line) + 1
    BY <1>2
  <2>2. /\ tty_line' \in Seq(Octet) /\ Len(tty_line') < TTY_LINE_BUFFER_SIZE
        /\ Len(tty_line') \in Nat /\ Len(bs) \in Nat
    <3>1. CASE tty_line' = <<>>
      BY <3>1, <1>l
    <3>2. CASE tty_line' = tty_line
      BY <3>2, <1>t
    <3> QED
      BY <2>a, <3>1, <3>2
  <2>c. /\ lost \in Nat /\ used \in Nat
        /\ Len(delivered') \in Nat /\ tty_drop_count' \in Nat
        /\ g_pty_dropped_bytes' \in Nat
        /\ Len(delivered') + tty_drop_count'
              = Len(delivered) + tty_drop_count + lost + Len(bs)
        /\ g_pty_dropped_bytes' + tty_drop_count + lost
              <= tty_drop_count' + g_pty_dropped_bytes
    BY <2>1
  <2>d. /\ tty_rx_count = tty_escape_discard_count + tty_drop_count + Len(delivered)
                           + spent + Len(tty_line)
        /\ g_pty_dropped_bytes + tty_line_overflow_count <= tty_drop_count + n
    BY <1>i
  <2>3. Ledger'
    <3> DEFINE kept == tty_escape_discard_count + spent
               gone == Len(delivered) + tty_drop_count
               m == lost + Len(bs)
    <3>1. kept \in Nat /\ gone \in Nat /\ m \in Nat
      BY <1>n, <2>2, <2>c
    <3>2. tty_rx_count = kept + gone + Len(tty_line)
      BY <1>n, <2>d, Regroup
    <3>3. m + used + Len(tty_line') = Len(tty_line) + 1
      BY <1>n, <2>b, <2>c, <2>2
    <3>4. tty_rx_count + 1 = (kept + used) + (gone + m) + Len(tty_line')
      <4>1. tty_rx_count \in Nat /\ Len(tty_line) \in Nat /\ Len(tty_line') \in Nat
            /\ used \in Nat
        BY <1>n, <2>2
      <4> HIDE DEF kept, gone, m
      <4> QED
        BY <4>1, <3>1, <3>2, <3>3, Balance
    <3>5. gone + m = Len(delivered') + tty_drop_count'
      BY <1>n, <2>2, <2>c
    <3>6. kept + used = tty_escape_discard_count' + spent'
      BY <1>n, <2>b, <2>c
    <3>7. tty_rx_count' = (tty_escape_discard_count' + spent')
                          + (Len(delivered') + tty_drop_count') + Len(tty_line')
      BY <1>r, <3>4, <3>5, <3>6
    <3>8. /\ tty_escape_discard_count' \in Nat /\ spent' \in Nat
          /\ tty_drop_count' \in Nat /\ Len(delivered') \in Nat /\ Len(tty_line') \in Nat
      BY <1>n, <2>b, <2>c, <2>2
    <3>9. tty_escape_discard_count' + tty_drop_count' + Len(delivered') + spent'
              + Len(tty_line')
          = (tty_escape_discard_count' + spent')
              + (Len(delivered') + tty_drop_count') + Len(tty_line')
      BY <3>8, Regroup
    <3> QED
      BY <3>7, <3>9
  <2>4. Covered(n)'
    <3>1. g_pty_dropped_bytes' + (tty_line_overflow_count + lost) <= tty_drop_count' + n
      <4>1. PICK pd \in Nat : pd = g_pty_dropped_bytes'
        BY <2>c
      <4>2. PICK drop \in Nat : drop = tty_drop_count'
        BY <2>c
      <4>3. pd + tty_drop_count + lost <= drop + g_pty_dropped_bytes
        BY <2>c, <4>1, <4>2
      <4>4. pd + (tty_line_overflow_count + lost) <= drop + n
        BY <1>n, <2>d, <4>3, Cover
      <4> QED
        BY <4>1, <4>2, <4>4
    <3> QED
      BY <2>b, <3>1
  <2>5. /\ tty_rx_count' \in Nat
        /\ tty_escape_state' \in 0 .. 2
        /\ tty_line_overflow_count' \in Nat
        /\ tty_escape_discard_count' \in Nat
        /\ spent' \in Nat
    BY <1>n, <1>t, <1>r, <2>b
  <2> QED
    BY <1>i, <1>r, <2>b, <2>1, <2>2, <2>3, <2>4, <2>5, Combine
<1>3. ASSUME NEW kept \in 0 .. 1, NEW used \in Nat,
             NothingEnqueued,
             tty_line' \in Seq(Octet), Len(tty_line') < TTY_LINE_BUFFER_SIZE,
             tty_drop_count' = tty_drop_count + kept,
             tty_line_overflow_count' = tty_line_overflow_count + kept,
             tty_line_truncated' \in BOOLEAN,
             spent' = spent + used,
             UNCHANGED <<tty_escape_state, tty_escape_discard_count>>,
             kept + used + Len(tty_line') = Len(tty_line) + 1
      PROVE  ByteInv(n)'
  <2>1. Len(tty_line') \in Nat /\ kept \in Nat
    BY <1>3
  <2>2. Ledger'
    <3>1. tty_rx_count + 1
          = tty_escape_discard_count + (tty_drop_count + kept) + Len(delivered)
            + (spent + used) + Len(tty_line')
      <4>1. /\ tty_rx_count = tty_escape_discard_count + tty_drop_count
                              + Len(delivered) + spent + Len(tty_line)
            /\ kept + used + Len(tty_line') = Len(tty_line) + 1
        BY <1>3, <1>i
      <4> QED
        BY <4>1, <1>n, <2>1, Reckon
    <3>2. /\ delivered' = delivered /\ tty_rx_count' = tty_rx_count + 1
          /\ tty_escape_discard_count' = tty_escape_discard_count
          /\ tty_drop_count' = tty_drop_count + kept
          /\ spent' = spent + used
      BY <1>3, <1>i, <1>r, NothingEnqueuedFacts
    <3> QED
      BY <3>1, <3>2
  <2>3. Covered(n)'
    BY <1>3, <1>i, <1>n, NothingEnqueuedFacts
  <2> QED
    BY <1>3, <1>i, <1>n, <1>t, <1>r, <2>2, <2>3, NothingEnqueuedFacts, Combine
<1>4. CASE tty_canonical /\ Edit(b)
  <2>0. UNCHANGED <<tty_escape_state, tty_escape_discard_count>>
    BY <1>4 DEF Edit
  <2>1. CASE Interrupt(b)
    <3>a. /\ Enqueue(<<b>>, 0)
          /\ tty_line' = <<>>
          /\ tty_line_overflow_count' = tty_line_overflow_count + 0
          /\ tty_line_truncated' \in BOOLEAN
          /\ spent' = spent + Len(tty_line)
          /\ Len(<<b>>) + 0 + Len(tty_line) + Len(tty_line') = Len(tty_line) + 1
      BY <2>1, <1>l, <1>n, <1>t DEF Interrupt
    <3> QED
      BY <3>a, <2>0, <1>2, <1>l, <1>n, <1>t
  <2>2. CASE Redraw(b)
    <3>a. /\ Enqueue(<<b>>, 0)
          /\ tty_line' = tty_line
          /\ tty_line_overflow_count' = tty_line_overflow_count + 0
          /\ tty_line_truncated' \in BOOLEAN
          /\ spent' = spent + 0
          /\ Len(<<b>>) + 0 + 0 + Len(tty_line') = Len(tty_line) + 1
      BY <2>2, <1>l, <1>n, <1>t DEF Redraw
    <3> QED
      BY <3>a, <2>0, <1>2, <1>l, <1>n, <1>t
  <2>3. CASE Erase(b)
    <3>1. CASE tty_line = <<>>
      BY <2>0, <2>3, <3>1, <1>3, <1>l, <1>n, <1>t DEF Erase
    <3>2. CASE tty_line # <<>>
      BY <2>0, <2>3, <3>2, <1>3, <1>l, <1>n, <1>t DEF Erase
    <3> QED
      BY <3>1, <3>2
  <2>4. CASE EndLine(b)
    <3>1. CASE LineFull
      <4>1. /\ Enqueue(tty_line, 1)
            /\ tty_line' = <<>>
            /\ tty_line_overflow_count' = tty_line_overflow_count + 1
            /\ tty_line_truncated' \in BOOLEAN
            /\ spent' = spent
        BY <2>4, <3>1 DEF EndLine
      <4>2. spent' = spent + 0 /\ Len(tty_line) + 1 + 0 + Len(tty_line') = Len(tty_line) + 1
        BY <4>1, <1>l, <1>n
      <4> QED
        BY <4>1, <4>2, <2>0, <1>2, <1>l, <1>n, <1>t
    <3>2. CASE ~ LineFull
      <4>1. /\ Enqueue(Append(tty_line, b), 0)
            /\ tty_line' = <<>>
            /\ tty_line_overflow_count' = tty_line_overflow_count
            /\ tty_line_truncated' \in BOOLEAN
            /\ spent' = spent
        BY <2>4, <3>2 DEF EndLine
      <4>2. /\ spent' = spent + 0
            /\ tty_line_overflow_count' = tty_line_overflow_count + 0
            /\ Len(Append(tty_line, b)) + 0 + 0 + Len(tty_line') = Len(tty_line) + 1
        BY <4>1, <1>l, <1>n
      <4> QED
        BY <4>1, <4>2, <2>0, <1>2, <1>l, <1>n, <1>t
    <3> QED
      BY <3>1, <3>2
  <2>5. CASE EndOfFile(b)
    <3>1. CASE tty_line = <<>>
      <4>a. /\ Enqueue(<<b>>, 0)
            /\ tty_line' = <<>>
            /\ tty_line_overflow_count' = tty_line_overflow_count + 0
            /\ tty_line_truncated' \in BOOLEAN
            /\ spent' = spent + 0
            /\ Len(<<b>>) + 0 + 0 + Len(tty_line') = Len(tty_line) + 1
        BY <2>5, <3>1, <1>l, <1>n, <1>t DEF EndOfFile
      <4> QED
        BY <4>a, <2>0, <1>2, <1>l, <1>n, <1>t
    <3>2. CASE tty_line # <<>>
      <4>a. /\ Enqueue(tty_line, 0)
            /\ tty_line' = <<>>
            /\ tty_line_overflow_count' = tty_line_overflow_count + 0
            /\ tty_line_truncated' \in BOOLEAN
            /\ spent' = spent + 1
            /\ Len(tty_line) + 0 + 1 + Len(tty_line') = Len(tty_line) + 1
        BY <2>5, <3>2, <1>l, <1>n, <1>t DEF EndOfFile
      <4> QED
        BY <4>a, <2>0, <1>2, <1>l, <1>n, <1>t
    <3> QED
      BY <3>1, <3>2
  <2>6. CASE Ignore(b)
    BY <2>0, <2>6, <1>3, <1>n, <1>t DEF Ignore
  <2>7. CASE Refuse(b)
    BY <2>0, <2>7, <1>3, <1>n, <1>t DEF Refuse
  <2>8. CASE Insert(b)
    BY <2>0, <2>8, <1>3, <1>l, <1>n, <1>t DEF Insert, LineFull
  <2> QED
    BY <1>4, <2>1, <2>2, <2>3, <2>4, <2>5, <2>6, <2>7, <2>8 DEF Edit
<1>5. CASE tty_handle_noncanonical(b)
  <2>0. UNCHANGED <<tty_escape_state, tty_escape_discard_count>>
    BY <1>5 DEF tty_handle_noncanonical
  <2>a. /\ Enqueue(<<b>>, 0)
        /\ tty_line' = tty_line
        /\ tty_line_overflow_count' = tty_line_overflow_count + 0
        /\ tty_line_truncated' \in BOOLEAN
        /\ spent' = spent + 0
        /\ Len(<<b>>) + 0 + 0 + Len(tty_line') = Len(tty_line) + 1
    BY <1>5, <1>l, <1>n, <1>t DEF tty_handle_noncanonical
  <2> QED
    BY <2>a, <2>0, <1>2, <1>l, <1>n, <1>t
<1> QED
  BY <1>1, <1>4, <1>5 DEF HandleByte, tty_handle_canonical

\* A step of the reader or of the setters changes nothing the ledger counts.
LEMMA ServeStep ==
    ASSUME TtyInv, Serve \/ (\E on \in BOOLEAN : tty_set_canonical(on))
    PROVE  TtyInv'
<1>i. TypeOK /\ BufferBounds /\ Ledger /\ LossesAreCovered
  BY DEF TtyInv
<1>p. PtyTypeOK /\ TtyTypeOK /\ g_ptys \in [Ptys -> PtyRecord]
  BY <1>i DEF TypeOK, PtyTypeOK
<1>1. ASSUME NEW p \in Ptys, NEW r \in PtyRecord,
             Len(r.m2s) < PTY_QUEUE_SIZE,
             g_ptys' = [g_ptys EXCEPT ![p] = r],
             UNCHANGED <<g_pty_dropped_bytes, g_pty_invalid_ops, ttyVars>>
      PROVE  TtyInv'
  <2>1. g_ptys' \in [Ptys -> PtyRecord]
    BY <1>1, <1>p
  <2>2. \A o \in Ptys : Len(g_ptys'[o].m2s) < PTY_QUEUE_SIZE
    BY <1>1, <1>p, <1>i DEF BufferBounds
  <2>3. UNCHANGED <<tty_read_queue, tty_line, tty_canonical, tty_session_pty,
            tty_escape_state, tty_rx_count, tty_drop_count, tty_line_overflow_count,
            tty_escape_discard_count, tty_line_truncated, delivered, spent,
            g_pty_dropped_bytes, g_pty_invalid_ops>>
    BY <1>1 DEF ttyVars, modeVars, countVars
  <2>4. TypeOK'
    BY <1>p, <2>1, <2>3 DEF TypeOK, PtyTypeOK, TtyTypeOK
  <2>5. BufferBounds'
    BY <1>i, <2>2, <2>3 DEF BufferBounds
  <2>6. Ledger' /\ LossesAreCovered'
    BY <1>i, <2>3 DEF Ledger, LossesAreCovered
  <2> QED
    BY <2>4, <2>5, <2>6 DEF TtyInv
<1>2. CASE ReadPty
  <2> DEFINE p == tty_session_pty
  <2>1. PICK n \in 1 .. PTY_QUEUE_SIZE : PtyRead(p, "m2s", n)
    BY <1>2 DEF ReadPty
  <2>2. p \in Ptys /\ g_ptys[p] \in PtyRecord
    BY <1>p, <2>1 DEF PtyRead, pty_is_valid
  <2> DEFINE old == g_ptys[p].m2s
             k == Len(Readable(old, n))
             q == SubSeq(old, k + 1, Len(old))
             r == [g_ptys[p] EXCEPT !.m2s = q]
  <2>3. old \in Seq(Octet) /\ Len(old) < PTY_QUEUE_SIZE /\ Len(old) \in Nat
    BY <2>2, <1>i DEF PtyRecord, BufferBounds
  <2>4. k \in 0 .. Len(old)
    BY <2>3 DEF Readable
  <2>5. q \in Seq(Octet) /\ Len(q) <= Len(old)
    <3> HIDE DEF old, k
    <3>1. \A i \in k + 1 .. Len(old) : old[i] \in Octet
      BY <2>3, <2>4, ElementOfSeq
    <3>2. k + 1 \in Int /\ Len(old) \in Int
      BY <2>3, <2>4
    <3>3. /\ q \in Seq(Octet)
          /\ Len(q) = IF k + 1 <= Len(old) THEN Len(old) - (k + 1) + 1 ELSE 0
      BY <3>1, <3>2, SubSeqProperties
    <3>4. (IF k + 1 <= Len(old) THEN Len(old) - (k + 1) + 1 ELSE 0) <= Len(old)
      BY <2>3, <2>4
    <3> QED
      BY <3>3, <3>4
  <2>6. g_ptys' = [g_ptys EXCEPT ![p] = r]
    BY <2>1 DEF PtyRead
  <2>7. UNCHANGED <<g_pty_dropped_bytes, g_pty_invalid_ops, ttyVars>>
    BY <1>2, <2>1 DEF ReadPty, PtyRead
  <2>8. r \in PtyRecord /\ r.m2s = q
    <3> HIDE DEF q
    <3> QED
      BY <2>2, <2>5 DEF PtyRecord
  <2>9. Len(r.m2s) < PTY_QUEUE_SIZE
    <3>1. Len(q) \in Nat
      BY <2>5
    <3> HIDE DEF q, r, old
    <3> QED
      BY <2>3, <2>5, <2>8, <3>1
  <2> HIDE DEF r
  <2> QED
    BY <1>1, <2>2, <2>6, <2>7, <2>8, <2>9
<1>3. CASE pty_alloc /\ UNCHANGED ttyVars
  <2>1. CASE NextPty = -1
    <3>1. UNCHANGED <<ptyVars, ttyVars>>
      BY <1>3, <2>1 DEF pty_alloc, ptyVars
    <3> QED
      BY <1>i, <3>1 DEF ptyVars, ttyVars, modeVars, countVars, TtyInv, TypeOK, PtyTypeOK,
                        TtyTypeOK, BufferBounds, Ledger, LossesAreCovered
  <2>2. CASE NextPty # -1
    <3> DEFINE r == FreshPty
    <3>1. PICK p : p = NextPty
      OBVIOUS
    <3>2. g_ptys' = [g_ptys EXCEPT ![p] = r]
      BY <1>3, <2>2, <3>1 DEF pty_alloc
    <3>3. r \in PtyRecord /\ Len(r.m2s) < PTY_QUEUE_SIZE
      <4>1. <<>> \in Seq(Octet) /\ Len(<<>>) = 0
        BY EmptySeq
      <4>2. r.m2s = <<>> /\ r \in PtyRecord
        BY <4>1 DEF FreshPty, PtyRecord
      <4> HIDE DEF r
      <4> QED
        BY <4>1, <4>2
    <3>4. UNCHANGED <<g_pty_dropped_bytes, g_pty_invalid_ops, ttyVars>>
      BY <1>3 DEF pty_alloc
    <3>5. CASE p \in Ptys
      <4> HIDE DEF r
      <4> QED
        BY <1>1, <3>2, <3>3, <3>4, <3>5
    <3>6. CASE p \notin Ptys
      <4>1. g_ptys' = g_ptys
        BY <1>p, <3>2, <3>6
      <4>2. UNCHANGED <<ptyVars, ttyVars>>
        BY <3>4, <4>1 DEF ptyVars
      <4> QED
        BY <1>i, <4>2 DEF ptyVars, ttyVars, modeVars, countVars, TtyInv, TypeOK, PtyTypeOK,
                          TtyTypeOK, BufferBounds, Ledger, LossesAreCovered
    <3> QED
      BY <3>5, <3>6
  <2> QED
    BY <2>1, <2>2
<1>4. ASSUME UNCHANGED <<ptyVars, tty_line, tty_escape_state, countVars,
                         tty_line_truncated, delivered, spent>>,
             tty_read_queue' \in Seq(Octet),
             Len(tty_read_queue') < TTY_READ_QUEUE_SIZE,
             tty_canonical' \in BOOLEAN,
             tty_session_pty' \in Int
      PROVE  TtyInv'
  <2>1. TypeOK'
    BY <1>4, <1>p DEF ptyVars, countVars, TypeOK, PtyTypeOK, TtyTypeOK
  <2>2. BufferBounds'
    BY <1>4, <1>i DEF ptyVars, BufferBounds
  <2>3. Ledger' /\ LossesAreCovered'
    BY <1>4, <1>i DEF ptyVars, countVars, Ledger, LossesAreCovered
  <2> QED
    BY <2>1, <2>2, <2>3 DEF TtyInv
<1>q. /\ tty_read_queue \in Seq(Octet) /\ Len(tty_read_queue) < TTY_READ_QUEUE_SIZE
      /\ tty_canonical \in BOOLEAN /\ tty_session_pty \in Int
  BY <1>p, <1>i DEF TtyTypeOK, BufferBounds
<1>5. CASE tty_pop_char
  <2>1. Tail(tty_read_queue) \in Seq(Octet)
        /\ Len(Tail(tty_read_queue)) < TTY_READ_QUEUE_SIZE
    BY <1>5, <1>q, HeadTailProperties DEF tty_pop_char
  <2> QED
    BY <1>4, <1>5, <1>q, <2>1 DEF tty_pop_char, modeVars
<1>6. CASE \E pty \in -1 .. PTY_MAX - 1 : tty_attach_session(pty)
  BY <1>4, <1>6, <1>q DEF tty_attach_session
<1>7. CASE \E on \in BOOLEAN : tty_set_canonical(on)
  BY <1>4, <1>7, <1>q DEF tty_set_canonical
<1> QED
  BY <1>2, <1>3, <1>5, <1>6, <1>7 DEF Serve

\* The line discipline's invariant, for every size of every buffer: nothing
\* is stored out of bounds and every received byte is accounted for.
THEOREM TtyInvariant == TtySpec => []TtyInv
<1>1. TtyPtyInit => TtyInv
  <2> SUFFICES ASSUME PtyInit, TtyInit
               PROVE  TtyInv
    BY DEF TtyPtyInit
  <2> USE DEF TtyInit, TtyAttachedInit
  <2>1. PtyTypeOK /\ \A p \in Ptys : Len(g_ptys[p].m2s) < PTY_QUEUE_SIZE
    BY DEF PtyInit, PtyTypeOK, NoPty, PtyRecord
  <2>2. TtyTypeOK
    <3>1. <<>> \in Seq(Octet) /\ -1 \in Int /\ 0 \in Nat /\ 0 \in 0 .. 2
      BY EmptySeq
    <3> QED
      BY <3>1, Zenon DEF TtyTypeOK
  <2>3. BufferBounds
    BY <2>1 DEF BufferBounds
  <2>4. Ledger /\ LossesAreCovered
    BY DEF Ledger, LossesAreCovered, PtyInit
  <2> QED
    BY <2>1, <2>2, <2>3, <2>4 DEF TtyInv, TypeOK
<1>2. TtyInv /\ [TtyNext]_ttyPtyVars => TtyInv'
  <2> SUFFICES ASSUME TtyInv, [TtyNext]_ttyPtyVars
               PROVE  TtyInv'
    OBVIOUS
  <2>1. ASSUME NEW b \in Byte, Receive(b)
        PROVE  TtyInv'
    <3>1. b \in Octet /\ HandleByte(b)
      BY <2>1 DEF Receive
    <3>2. ByteInv(0)
      BY NumbersAreNat DEF TtyInv, ByteInv, LossesAreCovered, Covered
    <3>3. ByteInv(0)'
      BY <3>1, <3>2, HandleByteStep
    <3>4. LossesAreCovered'
      <4>1. (tty_drop_count \in Nat)'
        BY <3>3 DEF ByteInv, TypeOK, TtyTypeOK
      <4> QED
        BY <3>3, <4>1 DEF ByteInv, LossesAreCovered, Covered
    <3> QED
      BY <3>3, <3>4 DEF TtyInv, ByteInv
  <2>2. CASE Serve \/ (\E on \in BOOLEAN : tty_set_canonical(on))
    BY <2>2, ServeStep
  <2>3. CASE UNCHANGED ttyPtyVars
    BY <2>3 DEF ttyPtyVars, ptyVars, ttyVars, modeVars, countVars, TtyInv, TypeOK,
                PtyTypeOK, TtyTypeOK, BufferBounds, Ledger, LossesAreCovered
  <2> QED
    BY <2>1, <2>2, <2>3 DEF TtyNext
<1> QED
  BY <1>1, <1>2, PTL DEF TtySpec

\* The counters ttyinfo prints add up for every input and every buffer size.
THEOREM TtyLedger == TtySpec => []Ledger
<1>1. TtyInv => Ledger
  BY DEF TtyInv
<1> QED
  BY <1>1, TtyInvariant, PTL

\* No array of tty.c or pty.c is indexed past its end by the input path.
THEOREM TtyBufferBounds == TtySpec => []BufferBounds
<1>1. TtyInv => BufferBounds
  BY DEF TtyInv
<1> QED
  BY <1>1, TtyInvariant, PTL
-----------------------------------------------------------------------------
\* What tty_enqueue_read does is an Emit: a first part goes out, the rest is
\* counted.
LEMMA EnqueueEmits ==
    ASSUME TtyInv, NEW bs \in Seq(Octet), NEW lost \in Nat, Enqueue(bs, lost)
    PROVE  Editor!Emit(bs, lost)
<1> DEFINE n == Len(Taken(bs))
<1>1. TypeOK /\ BufferBounds
  BY DEF TtyInv
<1>2. /\ n \in 0 .. Len(bs)
      /\ Taken(bs) = SubSeq(bs, 1, n)
      /\ delivered' = delivered \o Taken(bs)
      /\ tty_drop_count' = tty_drop_count + lost + Len(bs) - n
  BY <1>1, EnqueueFacts
<1>3. delivered' = delivered \o SubSeq(bs, 1, n)
  BY <1>2
<1> HIDE DEF n
<1> QED
  BY <1>2, <1>3 DEF Editor!Emit

\* Each kind of byte is a step of the line editor, or none it can see.
LEMMA HandleByteEdits ==
    ASSUME TtyInv, NEW b \in Byte, HandleByte(b)
    PROVE  Editor!Next \/ UNCHANGED <<tty_line, delivered, tty_drop_count>>
<1>i. TypeOK /\ b \in Octet
  BY DEF TtyInv
<1>t. /\ tty_line \in Seq(Octet) /\ Len(tty_line) \in Nat
      /\ Len(tty_line) < TTY_LINE_BUFFER_SIZE
  BY <1>i DEF TypeOK, TtyTypeOK, TtyInv, BufferBounds
<1>l. /\ <<b>> \in Seq(Octet) /\ Append(tty_line, b) \in Seq(Octet)
  BY <1>i, LineFacts
<1>1. CASE DiscardEscape(b) \/ Ignore(b)
  BY <1>1 DEF DiscardEscape, Ignore, NothingEnqueued
<1>2. CASE Interrupt(b)
  <2>1. Editor!Emit(<<b>>, 0) /\ tty_line' = <<>>
    BY <1>2, <1>l, EnqueueEmits DEF Interrupt
  <2> QED
    BY <2>1 DEF Editor!Next, Editor!Signal
<1>3. CASE Redraw(b) \/ tty_handle_noncanonical(b)
  <2>1. Editor!Emit(<<b>>, 0) /\ tty_line' = tty_line
    BY <1>3, <1>l, EnqueueEmits DEF Redraw, tty_handle_noncanonical
  <2> QED
    BY <2>1 DEF Editor!Next, Editor!Signal
<1>4. CASE Erase(b)
  <2>1. CASE tty_line = <<>>
    BY <1>4, <2>1 DEF Erase, NothingEnqueued
  <2>2. CASE tty_line # <<>>
    BY <1>4, <2>2 DEF Erase, NothingEnqueued, Editor!Next, Editor!TakeBack
  <2> QED
    BY <2>1, <2>2
<1>5. CASE EndLine(b)
  <2>0. tty_line' = <<>>
    BY <1>5 DEF EndLine
  <2>1. CASE LineFull
    <3>1. Editor!Emit(tty_line, 1)
      BY <1>5, <2>1, <1>t, EnqueueEmits DEF EndLine
    <3>2. Len(tty_line) = TTY_LINE_BUFFER_SIZE - 1
      BY <1>t, <2>1 DEF LineFull
    <3> QED
      BY <2>0, <3>1, <3>2 DEF Editor!Next, Editor!Commit
  <2>2. CASE ~ LineFull
    <3>1. Editor!Emit(Append(tty_line, b), 0)
      BY <1>5, <2>2, <1>l, EnqueueEmits DEF EndLine
    <3>2. Len(tty_line) < TTY_LINE_BUFFER_SIZE - 1
      BY <1>t, <2>2 DEF LineFull
    <3> QED
      BY <2>0, <3>1, <3>2 DEF Editor!Next, Editor!Commit
  <2> QED
    BY <2>1, <2>2
<1>6. CASE EndOfFile(b)
  <2>0. tty_line' = <<>>
    BY <1>6 DEF EndOfFile
  <2>1. CASE tty_line = <<>>
    <3>1. Editor!Emit(<<b>>, 0)
      BY <1>6, <2>1, <1>l, EnqueueEmits DEF EndOfFile
    <3> QED
      BY <2>0, <3>1 DEF Editor!Next, Editor!Signal
  <2>2. CASE tty_line # <<>>
    <3>1. Editor!Emit(tty_line, 0)
      BY <1>6, <2>2, <1>t, EnqueueEmits DEF EndOfFile
    <3> QED
      BY <2>0, <2>2, <3>1 DEF Editor!Next, Editor!Commit
  <2> QED
    BY <2>1, <2>2
<1>7. CASE Refuse(b)
  <2>1. Len(tty_line) = TTY_LINE_BUFFER_SIZE - 1
    BY <1>7, <1>t DEF Refuse, LineFull
  <2> QED
    BY <1>7, <2>1 DEF Refuse, NothingEnqueued, Editor!Next, Editor!Overflow
<1>8. CASE Insert(b)
  <2>1. Len(tty_line) < TTY_LINE_BUFFER_SIZE - 1
    BY <1>8, <1>t DEF Insert, LineFull
  <2> QED
    BY <1>8, <2>1 DEF Insert, NothingEnqueued, Editor!Next, Editor!Type
<1> QED
  BY <1>1, <1>2, <1>3, <1>4, <1>5, <1>6, <1>7, <1>8
     DEF HandleByte, tty_handle_canonical, Edit

\* The tty implements the line editor of LineDiscipline, for every size: text
\* reaches the reader only when its line is committed, whole, in order and
\* once, and whatever is cut off is counted.
THEOREM TtyImplementsEditor == TtySpec => EditorImplemented
<1>1. TtyPtyInit => Editor!Init
  BY DEF TtyPtyInit, TtyInit, TtyAttachedInit, Editor!Init
<1>2. TtyInv /\ [TtyNext]_ttyPtyVars
      => [Editor!Next]_<<tty_line, delivered, tty_drop_count>>
  <2> SUFFICES ASSUME TtyInv, [TtyNext]_ttyPtyVars
               PROVE  Editor!Next \/ UNCHANGED <<tty_line, delivered, tty_drop_count>>
    OBVIOUS
  <2>1. ASSUME NEW b \in Byte, Receive(b)
        PROVE  Editor!Next \/ UNCHANGED <<tty_line, delivered, tty_drop_count>>
    BY <2>1, HandleByteEdits DEF Receive
  <2>2. CASE Serve
    BY <2>2 DEF Serve, ReadPty, tty_pop_char, tty_attach_session, ttyVars, countVars
  <2>3. CASE \E on \in BOOLEAN : tty_set_canonical(on)
    BY <2>3 DEF tty_set_canonical, countVars
  <2>4. CASE UNCHANGED ttyPtyVars
    BY <2>4 DEF ttyPtyVars, ttyVars, countVars
  <2> QED
    BY <2>1, <2>2, <2>3, <2>4 DEF TtyNext
<1> QED
  BY <1>1, <1>2, TtyInvariant, PTL DEF TtySpec, EditorImplemented, Editor!Spec
-----------------------------------------------------------------------------
\* The clients of the two tables.
SessionPtyInit == PtyInit /\ SessionInit
SessionPtyNext(MaxInvalid) ==
    \/ SessionNext(MaxInvalid) /\ UNCHANGED ptyVars
    \/ pty_alloc /\ UNCHANGED sessionVars
SessionSpec(MaxInvalid) ==
    SessionPtyInit /\ [][SessionPtyNext(MaxInvalid)]_<<ptyVars, sessionVars>>

\* Ptys are never given back, which is why a session's pty stays valid.
SlotsInv == g_ptys \in [Ptys -> PtyRecord]
SessionInv == SlotsInv /\ SessionTypeOK /\ SessionsAreSound

\* After pty_alloc every pty that existed exists, and the table is well formed
\* (pty.c:59-71).
LEMMA AllocKeepsPtys ==
    ASSUME SlotsInv, pty_alloc
    PROVE  SlotsInv' /\ \A id \in Int : pty_is_valid(id) => pty_is_valid(id)'
<1>1. CASE NextPty = -1
  BY <1>1 DEF pty_alloc, SlotsInv, pty_is_valid
<1>2. CASE NextPty # -1
  <2>1. g_ptys' = [g_ptys EXCEPT ![NextPty] = FreshPty]
    BY <1>2 DEF pty_alloc
  <2>2. FreshPty \in PtyRecord /\ FreshPty.allocated
    BY EmptySeq DEF FreshPty, PtyRecord
  <2>3. \A id \in Ptys : g_ptys'[id] = g_ptys[id] \/ g_ptys'[id] = FreshPty
    BY <2>1 DEF SlotsInv
  <2>4. SlotsInv'
    BY <2>1, <2>2 DEF SlotsInv
  <2> QED
    BY <2>2, <2>3, <2>4 DEF pty_is_valid
<1> QED
  BY <1>1, <1>2

\* The invariant holds after boot and across every call.
LEMMA SessionInductive ==
    ASSUME NEW MaxInvalid \in Nat
    PROVE  /\ SessionPtyInit => SessionInv
           /\ SessionInv /\ [SessionPtyNext(MaxInvalid)]_<<ptyVars, sessionVars>> => SessionInv'
<1> USE PtyAssumption, SessionAssumption
<1>1. ASSUME SessionPtyInit PROVE SessionInv
  <2>1. NoPty \in PtyRecord
    BY EmptySeq DEF NoPty, PtyRecord
  <2>2. <<>> \in Seq(-1 .. PTY_MAX - 1) /\ Len(<<>>) = 0 /\ DOMAIN <<>> = {}
    BY EmptySeq
  <2> QED
    BY <1>1, <2>1, <2>2
    DEF SessionPtyInit, PtyInit, SessionInit, SessionInv, SlotsInv, SessionTypeOK, SessionsAreSound
<1>2. ASSUME SessionInv, [SessionPtyNext(MaxInvalid)]_<<ptyVars, sessionVars>> PROVE SessionInv'
  <2> USE <1>2
  <2>0. /\ g_sessions \in Seq(-1 .. PTY_MAX - 1) /\ Len(g_sessions) \in Nat
        /\ DOMAIN g_sessions = 1 .. Len(g_sessions)
        /\ Len(g_sessions) <= SESSION_MAX
    BY LenProperties DEF SessionInv, SessionTypeOK
  <2>1. ASSUME session_create, UNCHANGED ptyVars PROVE SessionInv'
    <3>1. g_sessions' = Append(g_sessions, -1) /\ -1 \in -1 .. PTY_MAX - 1
      BY <2>1 DEF session_create
    <3>2. /\ g_sessions' \in Seq(-1 .. PTY_MAX - 1)
          /\ Len(g_sessions') = Len(g_sessions) + 1
          /\ \A i \in 1 .. Len(g_sessions) : g_sessions'[i] = g_sessions[i]
          /\ g_sessions'[Len(g_sessions) + 1] = -1
      BY <2>0, <3>1, AppendProperties
    <3>3. DOMAIN g_sessions' = 1 .. Len(g_sessions) + 1
      BY <3>2, LenProperties
    <3>4. SessionTypeOK'
      BY <2>0, <2>1, <3>2 DEF session_create, SessionInv, SessionTypeOK
    <3>5. SessionsAreSound'
      BY <2>0, <2>1, <3>2, <3>3
      DEF session_create, SessionInv, SessionsAreSound, session_find, pty_is_valid, ptyVars
    <3> QED
      BY <2>1, <3>4, <3>5 DEF SessionInv, SlotsInv, ptyVars
  <2>2. ASSUME NEW id \in -1 .. SESSION_MAX + 1, session_set_active(id),
               UNCHANGED ptyVars
        PROVE  SessionInv'
    BY <2>0, <2>2
    DEF SessionInv, SlotsInv, SessionTypeOK, SessionsAreSound, session_set_active,
        session_find, pty_is_valid, ptyVars
  <2>3. ASSUME NEW id \in -1 .. SESSION_MAX + 1, NEW pty \in -1 .. PTY_MAX,
               session_set_controlling_pty(id, pty), UNCHANGED ptyVars
        PROVE  SessionInv'
    <3>1. /\ id \in 1 .. Len(g_sessions) /\ pty \in -1 .. PTY_MAX - 1
          /\ g_sessions' = [g_sessions EXCEPT ![id] = pty]
      BY <2>0, <2>3 DEF session_set_controlling_pty, session_find, pty_is_valid, Ptys
    <3>2. /\ g_sessions' \in Seq(-1 .. PTY_MAX - 1)
          /\ Len(g_sessions') = Len(g_sessions)
          /\ g_sessions'[id] = pty
          /\ \A i \in 1 .. Len(g_sessions) : i # id => g_sessions'[i] = g_sessions[i]
      BY <2>0, <3>1, ExceptSeq
    <3>3. DOMAIN g_sessions' = DOMAIN g_sessions
      BY <3>1
    <3>4. SessionTypeOK'
      BY <2>0, <2>3, <3>2 DEF session_set_controlling_pty, SessionInv, SessionTypeOK
    <3>5. SessionsAreSound'
      BY <2>0, <2>3, <3>2, <3>3
      DEF session_set_controlling_pty, SessionInv, SessionsAreSound, session_find,
          pty_is_valid, ptyVars
    <3> QED
      BY <2>3, <3>4, <3>5 DEF SessionInv, SlotsInv, ptyVars
  <2>4. ASSUME NEW id \in -1 .. SESSION_MAX + 1, NEW pty \in -1 .. PTY_MAX,
               SessionInvalidOp(id, pty), UNCHANGED ptyVars
        PROVE  SessionInv'
    <3>1. UNCHANGED <<g_sessions, g_active_session_id, g_ptys>>
          /\ g_session_invalid_ops' = g_session_invalid_ops + 1
      BY <2>4 DEF SessionInvalidOp, ptyVars
    <3>2. SessionTypeOK'
      BY <3>1 DEF SessionInv, SessionTypeOK
    <3>3. SessionsAreSound'
      BY <3>1 DEF SessionInv, SessionsAreSound, session_find, pty_is_valid
    <3> QED
      BY <3>1, <3>2, <3>3 DEF SessionInv, SlotsInv
  <2>5. ASSUME pty_alloc, UNCHANGED sessionVars PROVE SessionInv'
    <3>1. SlotsInv' /\ \A id \in Int : pty_is_valid(id) => pty_is_valid(id)'
      BY <2>5, AllocKeepsPtys DEF SessionInv
    <3>2. \A id \in DOMAIN g_sessions : g_sessions[id] \in Int
      BY <2>0, ElementOfSeq
    <3> QED
      BY <2>5, <3>1, <3>2
      DEF SessionInv, SessionTypeOK, SessionsAreSound, session_find, sessionVars
  <2>6. ASSUME UNCHANGED <<ptyVars, sessionVars>> PROVE SessionInv'
    BY <2>6
    DEF ptyVars, sessionVars, SessionInv, SlotsInv, SessionTypeOK, SessionsAreSound,
        session_find, pty_is_valid
  <2> QED
    BY <2>1, <2>2, <2>3, <2>4, <2>5, <2>6 DEF SessionPtyNext, SessionNext
<1> QED
  BY <1>1, <1>2

\* Whatever clients of session.c and pty.c call, in any order, the active
\* session exists and so does the pty of every session.
THEOREM SessionsStaySound ==
    ASSUME NEW MaxInvalid \in Nat
    PROVE  SessionSpec(MaxInvalid) => []SessionsAreSound
<1>1. SessionPtyInit => SessionInv
  BY SessionInductive
<1>2. SessionInv /\ [SessionPtyNext(MaxInvalid)]_<<ptyVars, sessionVars>> => SessionInv'
  BY SessionInductive
<1>3. SessionInv => SessionsAreSound
  BY DEF SessionInv
<1> QED
  BY <1>1, <1>2, <1>3, PTL DEF SessionSpec
-----------------------------------------------------------------------------
\* The last element is never written with anything but a NUL.  That needs the
\* bound on shell_len, and that needs the guard of the append.
LineInv ==
    /\ shell_len \in 0 .. SHELL_LINE_MAX - 1
    /\ DOMAIN shell_line = 0 .. SHELL_LINE_MAX - 1
    /\ shell_line = [i \in DOMAIN shell_line |-> shell_line[i]]
    /\ shell_line[SHELL_LINE_MAX - 1] = 0

\* Storing c at index i keeps the shape of the buffer, and its last NUL unless
\* c goes there and is not one.
LEMMA StoreKeepsNul ==
    ASSUME LineInv, NEW i \in 0 .. SHELL_LINE_MAX - 1, NEW c,
           shell_line' = [shell_line EXCEPT ![i] = c],
           c = 0 \/ i # SHELL_LINE_MAX - 1
    PROVE  /\ DOMAIN shell_line' = 0 .. SHELL_LINE_MAX - 1
           /\ shell_line' = [j \in DOMAIN shell_line' |-> shell_line'[j]]
           /\ shell_line'[SHELL_LINE_MAX - 1] = 0
<1>1. SHELL_LINE_MAX - 1 \in 0 .. SHELL_LINE_MAX - 1
  BY ShellAssumption
<1>2. DOMAIN shell_line' = 0 .. SHELL_LINE_MAX - 1
  BY DEF LineInv
<1>3. shell_line' = [j \in DOMAIN shell_line' |-> shell_line'[j]]
  OBVIOUS
<1>4. shell_line'[SHELL_LINE_MAX - 1] = 0
  <2>1. CASE i = SHELL_LINE_MAX - 1
    BY <1>1, <2>1 DEF LineInv
  <2>2. CASE i # SHELL_LINE_MAX - 1
    BY <1>1, <2>2 DEF LineInv
  <2> QED
    BY <2>1, <2>2
<1> QED
  BY <1>2, <1>3, <1>4

\* A newline leaves an empty line in a terminated buffer (shell.c:335-341).
LEMMA ExecuteKeepsLine ==
    ASSUME LineInv, ExecuteLine
    PROVE  LineInv'
<1>1. shell_line' = [shell_line EXCEPT ![shell_len] = 0] /\ shell_len' = 0
  BY DEF ExecuteLine
<1>2. shell_len \in 0 .. SHELL_LINE_MAX - 1
  BY DEF LineInv
<1>3. /\ DOMAIN shell_line' = 0 .. SHELL_LINE_MAX - 1
      /\ shell_line' = [j \in DOMAIN shell_line' |-> shell_line'[j]]
      /\ shell_line'[SHELL_LINE_MAX - 1] = 0
  BY <1>1, <1>2, StoreKeepsNul
<1> QED
  BY <1>1, <1>3, ShellAssumption DEF LineInv

\* Every byte the shell handles keeps the buffer a string (shell.c:317-356).
LEMMA ByteKeepsLine ==
    ASSUME LineInv, NEW c, ShellByte(c)
    PROVE  LineInv'
<1>1. CASE shell_len' = 0 /\ UNCHANGED shell_line
  BY <1>1, ShellAssumption DEF LineInv
<1>2. CASE ExecuteLine
  BY <1>2, ExecuteKeepsLine
<1>3. CASE ShellAppend(c)
  <2>1. CASE UNCHANGED <<shell_line, shell_len>>
    BY <2>1 DEF LineInv
  <2>2. CASE /\ shell_len + 1 < SHELL_LINE_MAX
             /\ shell_line' = [shell_line EXCEPT ![shell_len] = c]
             /\ shell_len' = shell_len + 1
    <3>1. shell_len \in 0 .. SHELL_LINE_MAX - 1 /\ shell_len # SHELL_LINE_MAX - 1
      BY <2>2, ShellAssumption DEF LineInv
    <3>2. /\ DOMAIN shell_line' = 0 .. SHELL_LINE_MAX - 1
          /\ shell_line' = [j \in DOMAIN shell_line' |-> shell_line'[j]]
          /\ shell_line'[SHELL_LINE_MAX - 1] = 0
      BY <2>2, <3>1, StoreKeepsNul
    <3>3. shell_len' \in 0 .. SHELL_LINE_MAX - 1
      BY <2>2, <3>1, ShellAssumption
    <3> QED
      BY <3>2, <3>3 DEF LineInv
  <2> QED
    BY <1>3, <2>1, <2>2 DEF ShellAppend
<1> QED
  BY <1>1, <1>2, <1>3 DEF ShellByte

\* So does every step of the main loop and of the interrupts.
LEMMA StepKeepsLine ==
    ASSUME LineInv, [InputNext]_inputVars
    PROVE  LineInv'
<1>1. CASE UNCHANGED <<shell_line, shell_len>>
  BY <1>1 DEF LineInv
<1>2. CASE RunByte
  BY <1>2, ByteKeepsLine DEF RunByte
<1>3. CASE RefuseSelftest
  BY <1>3, ExecuteKeepsLine DEF RefuseSelftest
<1>4. CASE StartSelftest
  BY <1>4, ExecuteKeepsLine DEF StartSelftest
<1>5. ASSUME NEW s \in Stroke, Strike(s) PROVE UNCHANGED <<shell_line, shell_len>>
  BY <1>5 DEF Strike, shellVars
<1>6. CASE TimerTick \/ PollByte \/ PollDone \/ ReadChunk \/ ReadNothing
           \/ ChunkDone \/ Hlt \/ InjectByte \/ EndSelftest
  <2>1. UNCHANGED <<shell_line, shell_len>>
    BY <1>6
    DEF TimerTick, PollByte, PollDone, ReadChunk, ReadNothing, ChunkDone, Hlt,
        InjectByte, EndSelftest, shellVars
  <2> QED
    BY <1>1, <2>1
<1>7. CASE UNCHANGED inputVars
  BY <1>1, <1>7 DEF inputVars, shellVars
<1> QED
  BY <1>1, <1>2, <1>3, <1>4, <1>5, <1>6, <1>7 DEF InputNext, MainLoop

\* Whatever is typed, and however interrupts fall, shell_line holds a NUL: the
\* reads of the buffer as a string in shell_poll and execute_command end in it.
THEOREM ShellLineIsAString == InputSpec => []ShellStringEnds
<1>1. InputInit => LineInv
  BY ShellAssumption DEF InputInit, LineInv
<1>2. LineInv /\ [InputNext]_inputVars => LineInv'
  BY StepKeepsLine
<1>3. LineInv => ShellStringEnds
  BY ShellAssumption DEF LineInv, ShellStringEnds
<1> QED
  BY <1>1, <1>2, <1>3, PTL DEF InputSpec
-----------------------------------------------------------------------------
\* Every value of the table f is in S.
Into(f, S) == \A x \in DOMAIN f : f[x] \in S

LEMMA TableInto ==
    ASSUME NEW S, NEW pairs, \A p \in pairs : p[2] \in S
    PROVE  Into(Table(pairs), S)
<1> SUFFICES ASSUME NEW x \in {p[1] : p \in pairs}
             PROVE  (CHOOSE p \in pairs : p[1] = x)[2] \in S
  BY DEF Table, Into
<1>1. \E p \in pairs : p[1] = x
  OBVIOUS
<1> QED
  BY <1>1

\* The keyboard types no byte above ~, so no Del.
KeyByte == 0 .. 126

LEMMA SequencesAreBytes == Into(SpecialSequences, Seq(KeyByte))
<1> DEFINE S == Seq(KeyByte)
<1>1. /\ Csi(65) \in S
      /\ Csi(66) \in S
      /\ Csi(67) \in S
      /\ Csi(68) \in S
      /\ Csi(72) \in S
      /\ Csi(70) \in S
  BY DEF Csi, Tilde, Tilde2, KeyByte
<1>2. /\ Tilde(50) \in S
      /\ Tilde(51) \in S
      /\ Tilde(53) \in S
      /\ Tilde(54) \in S
  BY DEF Csi, Tilde, Tilde2, KeyByte
<1>3. /\ Ss3(80) \in S
      /\ Ss3(81) \in S
      /\ Ss3(82) \in S
      /\ Ss3(83) \in S
  BY DEF Ss3, KeyByte
<1>4. /\ Tilde2(49, 53) \in S
      /\ Tilde2(49, 55) \in S
      /\ Tilde2(49, 56) \in S
      /\ Tilde2(49, 57) \in S
      /\ Tilde2(50, 48) \in S
      /\ Tilde2(50, 49) \in S
      /\ Tilde2(50, 51) \in S
      /\ Tilde2(50, 52) \in S
  BY DEF Csi, Tilde, Tilde2, KeyByte
<1> HIDE DEF S
<1>5. \A p \in SequencePairs : p[2] \in S
  BY <1>1, <1>2, <1>3, <1>4 DEF SequencePairs
<1> QED
  BY <1>5, TableInto DEF SpecialSequences, S

LEMMA CodesAreBytes ==
    /\ Into(CtrlCodes, KeyByte) /\ Into(FixedCodes, KeyByte) /\ Into(KeypadCodes, KeyByte)
    /\ Into(ShiftPairs, KeyByte \X KeyByte)
<1>3. Into(CtrlCodes, KeyByte)
  BY TableInto DEF CtrlCodes, KeyByte
<1>4. Into(FixedCodes, KeyByte)
  BY TableInto DEF FixedCodes, KeyByte
<1>5. Into(KeypadCodes, KeyByte)
  BY TableInto DEF KeypadCodes, KeyByte
<1>6. Into(ShiftPairs, KeyByte \X KeyByte)
  BY TableInto DEF ShiftPairs, KeyByte
<1> QED
  BY <1>3, <1>4, <1>5, <1>6

LEMMA AlphaIsByte ==
    ASSUME NEW key \in Letter, NEW mods, NEW locks
    PROVE  kbd_apply_alpha(key, mods, locks) \in KeyByte
<1> DEFINE n == CHOOSE i \in DOMAIN Letters : Letters[i] = key
<1>1. n \in DOMAIN Letters
  BY DEF Letter
<1>2. DOMAIN Letters = 1 .. 26
  BY DEF Letters
<1>3. n \in 1 .. 26
  BY <1>1, <1>2
<1>4. \/ kbd_apply_alpha(key, mods, locks) = n
      \/ kbd_apply_alpha(key, mods, locks) = 64 + n
      \/ kbd_apply_alpha(key, mods, locks) = 96 + n
  BY DEF kbd_apply_alpha
<1> HIDE DEF n
<1> QED
  BY <1>3, <1>4 DEF KeyByte

LEMMA CharIsByte ==
    ASSUME NEW key, NEW mods, NEW locks
    PROVE  kbd_keycode_to_unicode(key, mods, locks) \in KeyByte
<1>1. key \in Letter => kbd_apply_alpha(key, mods, locks) \in KeyByte
  BY AlphaIsByte
<1>2. /\ key \in DOMAIN CtrlCodes => CtrlCodes[key] \in KeyByte
      /\ key \in DOMAIN FixedCodes => FixedCodes[key] \in KeyByte
      /\ key \in DOMAIN KeypadCodes => KeypadCodes[key] \in KeyByte
      /\ key \in DOMAIN ShiftPairs => ShiftPairs[key] \in KeyByte \X KeyByte
  BY CodesAreBytes DEF Into
<1>3. ASSUME key \in DOMAIN ShiftPairs
      PROVE  ShiftPairs[key][IF "SHIFT" \in mods THEN 2 ELSE 1] \in KeyByte
  BY <1>2, <1>3
<1>4. 0 \in KeyByte
  BY DEF KeyByte
<1> QED
  BY <1>1, <1>2, <1>3, <1>4 DEF kbd_keycode_to_unicode

\* What a key types are bytes (keyboard.c:180-395).
LEMMA InputIsBytes ==
    ASSUME NEW key, NEW mods, NEW locks
    PROVE  InputBytes(key, mods, locks) \in Seq(KeyByte)
<1> DEFINE char == kbd_keycode_to_unicode(key, mods, locks)
<1>1. char \in KeyByte
  BY CharIsByte
<1>2. SpecialSequence(key) \in Seq(KeyByte)
  BY SequencesAreBytes DEF Into, SpecialSequence
<1> HIDE DEF char
<1>3. <<char>> \in Seq(KeyByte) /\ <<27>> \in Seq(KeyByte) /\ <<>> \in Seq(KeyByte)
  BY <1>1 DEF KeyByte
<1>4. <<27>> \o <<char>> \in Seq(KeyByte) /\ <<>> \o <<char>> \in Seq(KeyByte)
  BY <1>3, ConcatProperties
<1> QED
  BY <1>2, <1>4 DEF InputBytes, char

\* The keyboard's queue holds bytes and keeps one slot free.
KbdInv == kbd_bytes \in Seq(KeyByte) /\ Len(kbd_bytes) < KBD_BYTE_QUEUE_SIZE

LEMMA PushKeepsKbd ==
    ASSUME KbdInv, NEW bs \in Seq(KeyByte), PushBytes(bs)
    PROVE  KbdInv'
<1> DEFINE n == IF Len(bs) <= Room THEN Len(bs) ELSE Room
<1>1. Room \in Nat /\ Len(kbd_bytes) \in Nat /\ Room = KBD_BYTE_QUEUE_SIZE - 1 - Len(kbd_bytes)
  BY ByteQueueAssumption DEF KbdInv, Room
<1>2. n \in 0 .. Len(bs) /\ n <= Room
  BY <1>1
<1>3. kbd_bytes' = kbd_bytes \o SubSeq(bs, 1, n)
  BY DEF PushBytes
<1> HIDE DEF n
<1>4. SubSeq(bs, 1, n) \in Seq(KeyByte) /\ Len(SubSeq(bs, 1, n)) = n
  BY <1>2
<1> DEFINE ok == SubSeq(bs, 1, n)
<1> HIDE DEF ok
<1>5. ok \in Seq(KeyByte) /\ Len(ok) = n
  BY <1>4 DEF ok
<1>6. kbd_bytes' \in Seq(KeyByte) /\ Len(kbd_bytes') = Len(kbd_bytes) + n
  BY <1>3, <1>5, ConcatProperties DEF KbdInv, ok
<1> QED
  BY <1>1, <1>2, <1>6, ByteQueueAssumption DEF KbdInv

LEMMA PopKeepsKbd ==
    ASSUME KbdInv, PopByte
    PROVE  KbdInv' /\ Head(kbd_bytes) \in KeyByte /\ Head(kbd_bytes) \in Octet
<1>1. kbd_bytes \in Seq(KeyByte) /\ kbd_bytes # <<>> /\ kbd_bytes' = Tail(kbd_bytes)
  BY DEF KbdInv, PopByte
<1>2. /\ Head(kbd_bytes) \in KeyByte /\ Tail(kbd_bytes) \in Seq(KeyByte)
      /\ Len(Tail(kbd_bytes)) = Len(kbd_bytes) - 1
  BY <1>1, HeadTailProperties
<1> QED
  BY <1>1, <1>2, ByteQueueAssumption DEF KbdInv, KeyByte, Octet
-----------------------------------------------------------------------------
USE PtyAssumption, TtyAssumption

\* The queues of the input path: all of them hold bytes, within their bounds,
\* and the tty's books balance.
QueuesInv == TypeOK /\ BufferBounds /\ Ledger /\ KbdInv

\* A byte through the tty, from the keyboard or from the self-test.
LEMMA ByteKeepsQueues ==
    ASSUME QueuesInv, NEW b \in Octet, HandleByte(b)
    PROVE  TypeOK' /\ BufferBounds' /\ Ledger'
<1>1. /\ g_pty_dropped_bytes \in Nat /\ tty_line_overflow_count \in Nat
      /\ tty_drop_count \in Nat
  BY NumbersAreNat DEF QueuesInv
<1>2. PICK n \in Nat : n = g_pty_dropped_bytes + tty_line_overflow_count
  BY <1>1
<1>3. Covered(n)
  BY <1>1, <1>2 DEF Covered
<1>4. ByteInv(n)
  BY <1>3 DEF ByteInv, QueuesInv
<1>5. ByteInv(n)'
  BY <1>4, HandleByteStep
<1> QED
  BY <1>5 DEF ByteInv

\* Any other step, which changes no more than the queues.
LEMMA QueueStep ==
    ASSUME QueuesInv, KbdInv',
           g_ptys' \in [Ptys -> PtyRecord],
           \A p \in Ptys : Len(g_ptys'[p].m2s) < PTY_QUEUE_SIZE,
           g_pty_dropped_bytes' \in Nat, g_pty_invalid_ops' \in Nat,
           tty_read_queue' \in Seq(Octet),
           Len(tty_read_queue') < TTY_READ_QUEUE_SIZE,
           UNCHANGED <<tty_line, modeVars, tty_escape_state, countVars,
                       tty_line_truncated, delivered, spent>>
    PROVE  QueuesInv'
<1>1. UNCHANGED <<tty_line, tty_canonical, tty_session_pty, tty_escape_state,
                  tty_rx_count, tty_drop_count, tty_line_overflow_count,
                  tty_escape_discard_count, tty_line_truncated, delivered, spent>>
  BY DEF modeVars, countVars
<1>2. TtyTypeOK /\ BufferBounds /\ Ledger
  BY DEF QueuesInv, TypeOK
<1>3. TtyTypeOK'
  BY <1>1, <1>2 DEF TtyTypeOK
<1>4. PtyTypeOK'
  BY DEF PtyTypeOK
<1>5. BufferBounds'
  BY <1>1, <1>2 DEF BufferBounds
<1>6. Ledger'
  BY <1>1, <1>2 DEF Ledger
<1> QED
  BY <1>3, <1>4, <1>5, <1>6 DEF QueuesInv, TypeOK

LEMMA QueueFacts ==
    ASSUME QueuesInv
    PROVE  /\ g_ptys \in [Ptys -> PtyRecord]
           /\ \A p \in Ptys : /\ g_ptys[p] \in PtyRecord
                              /\ g_ptys[p].m2s \in Seq(Octet)
                              /\ Len(g_ptys[p].m2s) < PTY_QUEUE_SIZE
           /\ g_pty_dropped_bytes \in Nat /\ g_pty_invalid_ops \in Nat
           /\ tty_read_queue \in Seq(Octet)
           /\ Len(tty_read_queue) < TTY_READ_QUEUE_SIZE
           /\ KbdInv
  BY DEF QueuesInv, TypeOK, PtyTypeOK, TtyTypeOK, BufferBounds, PtyRecord

\* One pty gets other contents.
LEMMA SlotStep ==
    ASSUME QueuesInv, NEW id, NEW r \in PtyRecord, Len(r.m2s) < PTY_QUEUE_SIZE,
           g_ptys' = [g_ptys EXCEPT ![id] = r]
    PROVE  /\ g_ptys' \in [Ptys -> PtyRecord]
           /\ \A p \in Ptys : Len(g_ptys'[p].m2s) < PTY_QUEUE_SIZE
<1>1. g_ptys \in [Ptys -> PtyRecord] /\ \A p \in Ptys : Len(g_ptys[p].m2s) < PTY_QUEUE_SIZE
  BY QueueFacts
<1>2. g_ptys' \in [Ptys -> PtyRecord]
  BY <1>1
<1>3. \A p \in Ptys : g_ptys'[p] = g_ptys[p] \/ g_ptys'[p] = r
  BY <1>1
<1> QED
  BY <1>1, <1>2, <1>3

\* The shell takes a byte out of its chunk or out of the tty's own queue.
LEMMA TakeKeeps ==
    ASSUME QueuesInv, TakeChar
    PROVE  /\ tty_read_queue' \in Seq(Octet)
           /\ Len(tty_read_queue') < TTY_READ_QUEUE_SIZE
           /\ UNCHANGED <<tty_line, modeVars, tty_escape_state, countVars,
                          tty_line_truncated, delivered, spent>>
<1>1. tty_read_queue \in Seq(Octet) /\ Len(tty_read_queue) < TTY_READ_QUEUE_SIZE
  BY QueueFacts
<1>2. CASE PtyChar
  BY <1>1, <1>2 DEF PtyChar, ttyVars
<1>3. CASE TtyChar
  <2>1. tty_read_queue # <<>> /\ tty_read_queue' = Tail(tty_read_queue)
    BY <1>3 DEF TtyChar
  <2>2. /\ Tail(tty_read_queue) \in Seq(Octet)
        /\ Len(Tail(tty_read_queue)) = Len(tty_read_queue) - 1
    BY <1>1, <2>1, HeadTailProperties
  <2>3. /\ tty_read_queue' \in Seq(Octet)
        /\ Len(tty_read_queue') < TTY_READ_QUEUE_SIZE
    <3>1. PICK q : q = tty_read_queue'
      OBVIOUS
    <3>2. q \in Seq(Octet) /\ Len(q) = Len(tty_read_queue) - 1
      BY <2>1, <2>2, <3>1
    <3>3. Len(q) < TTY_READ_QUEUE_SIZE
      BY <1>1, <3>2
    <3> QED
      BY <3>1, <3>2, <3>3
  <2> QED
    BY <1>3, <2>3 DEF TtyChar
<1> QED
  BY <1>2, <1>3 DEF TakeChar

\* Every step of the main loop and of the interrupts keeps the queues.
LEMMA StepKeepsQueues ==
    ASSUME QueuesInv, [InputNext]_inputVars
    PROVE  QueuesInv'
<1>f. /\ g_ptys \in [Ptys -> PtyRecord]
      /\ \A p \in Ptys : /\ g_ptys[p] \in PtyRecord
                         /\ g_ptys[p].m2s \in Seq(Octet)
                         /\ Len(g_ptys[p].m2s) < PTY_QUEUE_SIZE
      /\ g_pty_dropped_bytes \in Nat /\ g_pty_invalid_ops \in Nat
      /\ tty_read_queue \in Seq(Octet)
      /\ Len(tty_read_queue) < TTY_READ_QUEUE_SIZE
      /\ KbdInv
  BY QueueFacts
<1>k. ASSUME UNCHANGED kbdVars PROVE KbdInv'
  BY <1>f, <1>k DEF kbdVars, KbdInv
<1>u. ASSUME UNCHANGED ttyPtyVars, KbdInv' PROVE QueuesInv'
  BY <1>f, <1>u, QueueStep DEF ttyPtyVars, ptyVars, ttyVars
<1>1. ASSUME NEW s \in Stroke, Strike(s) PROVE QueuesInv'
  <2>1. KbdInv'
    BY <1>f, <1>1, InputIsBytes, PushKeepsKbd DEF Strike
  <2> QED
    BY <1>1, <1>u, <2>1 DEF Strike
<1>2. CASE TimerTick \/ PollDone \/ ReadNothing \/ ChunkDone \/ Hlt
  BY <1>2, <1>k, <1>u DEF TimerTick, PollDone, ReadNothing, ChunkDone, Hlt
<1>3. CASE PollByte
  <2>1. KbdInv' /\ Head(kbd_bytes) \in Octet
    BY <1>f, <1>3, PopKeepsKbd DEF PollByte
  <2>2. TypeOK' /\ BufferBounds' /\ Ledger'
    BY <1>3, <2>1, ByteKeepsQueues DEF PollByte
  <2> QED
    BY <2>1, <2>2 DEF QueuesInv
<1>4. CASE InjectByte
  <2> DEFINE b == IF injected = SelftestLine - 1 THEN Newline ELSE 120
  <2>1. b \in Octet /\ HandleByte(b)
    BY <1>4 DEF InjectByte, Newline, Octet
  <2> HIDE DEF b
  <2>2. TypeOK' /\ BufferBounds' /\ Ledger'
    BY <2>1, ByteKeepsQueues
  <2> QED
    BY <1>4, <1>k, <2>2 DEF QueuesInv, InjectByte
<1>5. CASE ReadChunk
  <2> DEFINE p == session_active_pty
             old == g_ptys[p].m2s
             k == Len(Readable(old, SHELL_CHUNK))
             q == SubSeq(old, k + 1, Len(old))
             r == [g_ptys[p] EXCEPT !.m2s = q]
  <2>1. p \in Ptys /\ g_ptys[p] \in PtyRecord
    BY <1>f, <1>5 DEF ReadChunk, pty_is_valid
  <2>2. old \in Seq(Octet) /\ Len(old) < PTY_QUEUE_SIZE /\ Len(old) \in Nat
    BY <1>f, <2>1
  <2>3. k \in 0 .. Len(old)
    BY <2>2, ShellAssumption DEF Readable
  <2>4. q \in Seq(Octet) /\ Len(q) < PTY_QUEUE_SIZE
    <3> HIDE DEF old, k
    <3>1. \A i \in k + 1 .. Len(old) : old[i] \in Octet
      BY <2>2, <2>3, ElementOfSeq
    <3>2. k + 1 \in Int /\ Len(old) \in Int
      BY <2>2, <2>3
    <3>3. /\ q \in Seq(Octet)
          /\ Len(q) = IF k + 1 <= Len(old) THEN Len(old) - (k + 1) + 1 ELSE 0
      BY <3>1, <3>2, SubSeqProperties
    <3>4. (IF k + 1 <= Len(old) THEN Len(old) - (k + 1) + 1 ELSE 0) < PTY_QUEUE_SIZE
      BY <2>2, <2>3
    <3> QED
      BY <3>3, <3>4
  <2>5. g_ptys' = [g_ptys EXCEPT ![p] = r]
    BY <1>5 DEF ReadChunk, PtyRead
  <2>6. r \in PtyRecord /\ r.m2s = q
    <3> HIDE DEF q
    <3> QED
      BY <2>1, <2>4 DEF PtyRecord
  <2>7. Len(r.m2s) < PTY_QUEUE_SIZE
    BY <2>4, <2>6
  <2> HIDE DEF p, old, k, q, r
  <2>8. /\ g_ptys' \in [Ptys -> PtyRecord]
        /\ \A o \in Ptys : Len(g_ptys'[o].m2s) < PTY_QUEUE_SIZE
    BY <2>5, <2>6, <2>7, SlotStep
  <2>9. UNCHANGED <<ttyVars, kbdVars, g_pty_dropped_bytes, g_pty_invalid_ops>>
    BY <1>5 DEF ReadChunk, PtyRead
  <2>10. UNCHANGED <<tty_read_queue, tty_line, modeVars, tty_escape_state, countVars,
                     tty_line_truncated, delivered, spent>> /\ KbdInv'
    BY <1>k, <2>9 DEF ttyVars
  <2> QED
    BY <1>f, <2>8, <2>9, <2>10, QueueStep
<1>6. CASE RunByte \/ RefuseSelftest
  <2>1. TakeChar /\ UNCHANGED <<ptyVars, kbdVars>>
    BY <1>6 DEF RunByte, RefuseSelftest
  <2>2. KbdInv' /\ UNCHANGED <<g_ptys, g_pty_dropped_bytes, g_pty_invalid_ops>>
    BY <2>1, <1>k DEF ptyVars
  <2> QED
    BY <1>f, <2>1, <2>2, TakeKeeps, QueueStep
<1>7. CASE StartSelftest
  <2>1. /\ TakeChar /\ UNCHANGED kbdVars
        /\ g_ptys' = [g_ptys EXCEPT ![NextPty] = FreshPty]
        /\ g_pty_dropped_bytes' = g_pty_dropped_bytes
             + (IF SelftestWrite < PTY_QUEUE_SIZE THEN 0
                ELSE SelftestWrite - (PTY_QUEUE_SIZE - 1))
        /\ g_pty_invalid_ops' = g_pty_invalid_ops + 1
    BY <1>7 DEF StartSelftest
  <2>2. FreshPty \in PtyRecord /\ Len(FreshPty.m2s) < PTY_QUEUE_SIZE
    BY EmptySeq DEF FreshPty, PtyRecord
  <2>3. /\ g_ptys' \in [Ptys -> PtyRecord]
        /\ \A o \in Ptys : Len(g_ptys'[o].m2s) < PTY_QUEUE_SIZE
    BY <2>1, <2>2, SlotStep
  <2>4. g_pty_dropped_bytes' \in Nat /\ g_pty_invalid_ops' \in Nat
    BY <1>f, <2>1, ShellAssumption
  <2> QED
    BY <1>k, <2>1, <2>3, <2>4, TakeKeeps, QueueStep
<1>8. CASE EndSelftest
  <2>1. UNCHANGED <<ttyVars, kbdVars, g_pty_dropped_bytes, g_pty_invalid_ops>>
    BY <1>8 DEF EndSelftest
  <2>2. UNCHANGED <<tty_read_queue, tty_line, modeVars, tty_escape_state, countVars,
                    tty_line_truncated, delivered, spent>> /\ KbdInv'
    BY <1>k, <2>1 DEF ttyVars
  <2>3. CASE g_ptys' = g_ptys
    BY <1>f, <2>1, <2>2, <2>3, QueueStep
  <2>4. CASE g_ptys' = [g_ptys EXCEPT ![session_active_pty].m2s = <<>>]
    <3>1. /\ g_ptys' \in [Ptys -> PtyRecord]
          /\ \A o \in Ptys : Len(g_ptys'[o].m2s) < PTY_QUEUE_SIZE
      <4>1. CASE session_active_pty \in Ptys
        <5> DEFINE p == session_active_pty
                   r == [g_ptys[p] EXCEPT !.m2s = <<>>]
        <5>1. g_ptys' = [g_ptys EXCEPT ![p] = r]
          BY <2>4
        <5>2. r \in PtyRecord /\ Len(r.m2s) = 0
          BY <1>f, <4>1, EmptySeq DEF PtyRecord
        <5>3. Len(r.m2s) < PTY_QUEUE_SIZE
          BY <5>2
        <5> HIDE DEF p, r
        <5> QED
          BY <5>3, <5>1, <5>2, SlotStep
      <4>2. CASE session_active_pty \notin Ptys
        <5>1. g_ptys' = g_ptys
          BY <1>f, <2>4, <4>2
        <5> QED
          BY <1>f, <5>1
      <4> QED
        BY <4>1, <4>2
    <3> QED
      BY <1>f, <2>1, <2>2, <3>1, QueueStep
  <2> QED
    BY <1>8, <2>3, <2>4 DEF EndSelftest
<1>9. CASE UNCHANGED inputVars
  BY <1>9, <1>k, <1>u DEF inputVars
<1> QED
  BY <1>1, <1>2, <1>3, <1>4, <1>5, <1>6, <1>7, <1>8, <1>9 DEF InputNext, MainLoop

LEMMA QueuesAtBoot == InputInit => QueuesInv
<1> SUFFICES ASSUME InputInit PROVE QueuesInv
  OBVIOUS
<1>1. PICK sid \in BootSids : BootInit(sid)
  BY DEF InputInit
<1>2. <<>> \in Seq(Octet) /\ Len(<<>>) = 0
  BY EmptySeq
<1>3. NoPty \in PtyRecord /\ FreshPty \in PtyRecord
      /\ NoPty.m2s = <<>> /\ FreshPty.m2s = <<>>
  BY <1>2 DEF NoPty, FreshPty, PtyRecord
<1>4. /\ g_ptys = [p \in Ptys |-> IF p = 0 THEN FreshPty ELSE NoPty]
      /\ g_pty_dropped_bytes = 0 /\ g_pty_invalid_ops = 0
      /\ TtyAttachedInit(IF sid = 1 THEN 0 ELSE -1)
  BY <1>1 DEF BootInit
<1>5. PtyTypeOK /\ \A p \in Ptys : g_ptys[p].m2s = <<>>
  BY <1>3, <1>4 DEF PtyTypeOK
<1>6. TtyTypeOK
  <2>1. 0 \in Nat /\ 0 \in 0 .. 2 /\ (IF sid = 1 THEN 0 ELSE -1) \in Int
    OBVIOUS
  <2> QED
    BY <1>2, <1>4, <2>1, Zenon DEF TtyTypeOK, TtyAttachedInit
<1>7. BufferBounds
  BY <1>2, <1>4, <1>5 DEF BufferBounds, TtyAttachedInit
<1>8. Ledger
  BY <1>2, <1>4 DEF Ledger, TtyAttachedInit
<1>9. KbdInv
  BY <1>2, ByteQueueAssumption DEF InputInit, KbdInv
<1> QED
  BY <1>5, <1>6, <1>7, <1>8, <1>9 DEF QueuesInv, TypeOK

\* From the keyboard to the shell, with interrupts between any two steps and
\* self-tests, every queue stays within its bounds, and the counters of
\* ttyinfo add up.
THEOREM InputQueuesAreSound == InputSpec => [](BufferBounds /\ Ledger /\ KbdInv)
<1>1. QueuesInv => BufferBounds /\ Ledger /\ KbdInv
  BY DEF QueuesInv
<1>2. QueuesInv /\ [InputNext]_inputVars => QueuesInv'
  BY StepKeepsQueues
<1> QED
  BY <1>1, <1>2, QueuesAtBoot, PTL DEF InputSpec
-----------------------------------------------------------------------------
\* The tty delivers to the pty of the active session, the first, or, when the
\* boot found none, to its own queue, and nothing is in any other queue.
RouteInv ==
    /\ tty_session_pty = session_active_pty
    /\ session_active_pty \in {-1, 0}
    /\ session_active_pty = 0 => g_ptys[0].allocated /\ tty_read_queue = <<>>
    /\ \A p \in Ptys : p # session_active_pty => g_ptys[p].m2s = <<>>

LEMMA RouteIsUsed == QueuesInv /\ RouteInv => NothingStranded
<1> SUFFICES ASSUME QueuesInv, RouteInv PROVE NothingStranded
  OBVIOUS
<1>1. 0 \in Ptys /\ -1 \notin Ptys
  BY ShellAssumption DEF Ptys
<1>2. CASE session_active_pty = 0
  BY <1>1, <1>2 DEF RouteInv, NothingStranded, Attached, pty_is_valid
<1>3. CASE session_active_pty = -1
  BY <1>1, <1>3 DEF RouteInv, NothingStranded, Attached, pty_is_valid
<1> QED
  BY <1>2, <1>3 DEF RouteInv

\* The sessions do not change after the boot.
LEMMA ActiveStays ==
    ASSUME UNCHANGED sessionVars
    PROVE  session_active_pty' = session_active_pty
  BY DEF sessionVars, session_active_pty, session_find

\* tty_enqueue_read writes to the active session's queue only.
LEMMA EnqueueRoutes ==
    ASSUME QueuesInv, RouteInv, NEW bs, NEW lost, Enqueue(bs, lost),
           UNCHANGED modeVars, UNCHANGED sessionVars
    PROVE  RouteInv'
<1>a. session_active_pty' = session_active_pty /\ tty_session_pty' = tty_session_pty
  BY ActiveStays DEF modeVars
<1>p. g_ptys \in [Ptys -> PtyRecord] /\ 0 \in Ptys /\ -1 \notin Ptys
  BY QueueFacts, ShellAssumption DEF Ptys
<1>1. CASE session_active_pty = 0
  <2>1. Attached /\ tty_session_pty = 0
    BY <1>1, <1>p DEF RouteInv, Attached, pty_is_valid
  <2>2. PtyWrite(0, "m2s", bs) /\ tty_read_queue' = tty_read_queue
    BY <2>1 DEF Enqueue
  <2> DEFINE ok == Accepted(g_ptys[0]["m2s"], PTY_QUEUE_SIZE, bs)
             q == g_ptys[0]["m2s"] \o ok
  <2>3. g_ptys' = [g_ptys EXCEPT ![0]["m2s"] = q]
    BY <2>2 DEF PtyWrite
  <2> HIDE DEF q
  <2>4. \A p \in Ptys : p # 0 => g_ptys'[p] = g_ptys[p]
    BY <1>p, <2>3
  <2>5. g_ptys'[0].allocated = g_ptys[0].allocated
    BY <1>p, <2>3 DEF PtyRecord
  <2> QED
    BY <1>1, <1>a, <2>2, <2>4, <2>5 DEF RouteInv
<1>2. CASE session_active_pty = -1
  <2>1. ~ Attached
    BY <1>2, <1>p DEF RouteInv, Attached, pty_is_valid
  <2>2. UNCHANGED ptyVars
    BY <2>1 DEF Enqueue
  <2> QED
    BY <1>2, <1>a, <2>2 DEF RouteInv, ptyVars
<1> QED
  BY <1>1, <1>2 DEF RouteInv

\* A byte is delivered that way or not at all.
LEMMA ByteRoutes ==
    ASSUME QueuesInv, RouteInv, NEW b, HandleByte(b), UNCHANGED sessionVars
    PROVE  RouteInv'
<1>1. UNCHANGED modeVars
  BY DEF HandleByte
<1>2. CASE NothingEnqueued
  <2>1. session_active_pty' = session_active_pty
    BY ActiveStays
  <2> QED
    BY <1>1, <1>2, <2>1 DEF NothingEnqueued, ptyVars, modeVars, RouteInv
<1>3. ASSUME NEW bs, NEW lost, Enqueue(bs, lost) PROVE RouteInv'
  BY <1>1, <1>3, EnqueueRoutes
<1>4. NothingEnqueued \/ \E bs, lost : Enqueue(bs, lost)
  <2>1. CASE DiscardEscape(b) \/ Erase(b) \/ Ignore(b) \/ Refuse(b) \/ Insert(b)
    BY <2>1 DEF DiscardEscape, Erase, Ignore, Refuse, Insert
  <2>2. CASE Interrupt(b) \/ Redraw(b) \/ tty_handle_noncanonical(b)
    <3>1. Enqueue(<<b>>, 0)
      BY <2>2 DEF Interrupt, Redraw, tty_handle_noncanonical
    <3> QED
      BY <3>1
  <2>3. CASE EndLine(b)
    <3>1. Enqueue(tty_line, 1) \/ Enqueue(Append(tty_line, b), 0)
      BY <2>3 DEF EndLine
    <3> QED
      BY <3>1
  <2>4. CASE EndOfFile(b)
    <3>1. Enqueue(<<b>>, 0) \/ Enqueue(tty_line, 0)
      BY <2>4 DEF EndOfFile
    <3> QED
      BY <3>1
  <2> QED
    BY <2>1, <2>2, <2>3, <2>4 DEF HandleByte, tty_handle_canonical, Edit
<1> QED
  BY <1>2, <1>3, <1>4

\* The shell takes its bytes from where they are.
LEMMA TakeRoutes ==
    ASSUME RouteInv, TakeChar
    PROVE  /\ tty_session_pty' = tty_session_pty
           /\ session_active_pty = 0 => tty_read_queue' = tty_read_queue
<1>1. CASE PtyChar
  BY <1>1 DEF PtyChar, ttyVars, modeVars
<1>2. CASE TtyChar
  BY <1>2 DEF TtyChar, modeVars
<1> QED
  BY <1>1, <1>2 DEF TakeChar

LEMMA StepKeepsRoute ==
    ASSUME QueuesInv, RouteInv, [InputNext]_inputVars
    PROVE  RouteInv'
<1>s. UNCHANGED sessionVars
  <2>1. ASSUME NEW s \in Stroke, Strike(s) PROVE UNCHANGED sessionVars
    BY <2>1 DEF Strike
  <2>2. CASE TimerTick \/ PollByte \/ PollDone \/ ReadChunk \/ ReadNothing \/ ChunkDone \/ Hlt
    BY <2>2 DEF TimerTick, PollByte, PollDone, ReadChunk, ReadNothing, ChunkDone, Hlt
  <2>3. CASE RunByte \/ RefuseSelftest \/ StartSelftest \/ InjectByte \/ EndSelftest
    BY <2>3 DEF RunByte, RefuseSelftest, StartSelftest, InjectByte, EndSelftest
  <2>4. CASE UNCHANGED inputVars
    BY <2>4 DEF inputVars
  <2> QED
    BY <2>1, <2>2, <2>3, <2>4 DEF InputNext, MainLoop
<1>a. session_active_pty' = session_active_pty
  BY <1>s, ActiveStays
<1>p. g_ptys \in [Ptys -> PtyRecord] /\ 0 \in Ptys /\ -1 \notin Ptys
  BY QueueFacts, ShellAssumption DEF Ptys
<1>u. ASSUME UNCHANGED ttyPtyVars PROVE RouteInv'
  BY <1>a, <1>u DEF ttyPtyVars, ptyVars, ttyVars, modeVars, RouteInv
<1>1. ASSUME NEW s \in Stroke, Strike(s) PROVE RouteInv'
  BY <1>1, <1>u DEF Strike
<1>2. CASE TimerTick \/ PollDone \/ ReadNothing \/ ChunkDone \/ Hlt
  BY <1>2, <1>u DEF TimerTick, PollDone, ReadNothing, ChunkDone, Hlt
<1>3. CASE PollByte \/ InjectByte
  <2>1. \E b : HandleByte(b)
    BY <1>3 DEF PollByte, InjectByte
  <2> QED
    BY <1>s, <2>1, ByteRoutes
<1>4. ASSUME NEW q, g_ptys' = [g_ptys EXCEPT ![session_active_pty].m2s = q],
             UNCHANGED ttyVars
      PROVE  RouteInv'
  <2>1. \A p \in Ptys : p # session_active_pty => g_ptys'[p] = g_ptys[p]
    BY <1>p, <1>4
  <2>2. g_ptys'[0].allocated = g_ptys[0].allocated
    BY <1>p, <1>4 DEF PtyRecord
  <2>3. UNCHANGED <<tty_session_pty, tty_read_queue>>
    BY <1>4 DEF ttyVars, modeVars
  <2> QED
    BY <1>a, <2>1, <2>2, <2>3 DEF RouteInv
<1>5. CASE ReadChunk
  <2> DEFINE old == g_ptys[session_active_pty].m2s
             q == SubSeq(old, Len(Readable(old, SHELL_CHUNK)) + 1, Len(old))
  <2>1. g_ptys' = [g_ptys EXCEPT ![session_active_pty].m2s = q] /\ UNCHANGED ttyVars
    BY <1>5 DEF ReadChunk, PtyRead
  <2> HIDE DEF q
  <2> QED
    BY <1>4, <2>1
<1>6. CASE RunByte \/ RefuseSelftest
  <2>1. TakeChar /\ UNCHANGED ptyVars
    BY <1>6 DEF RunByte, RefuseSelftest
  <2> QED
    BY <1>a, <2>1, TakeRoutes DEF RouteInv, ptyVars
<1>7. CASE StartSelftest
  <2>1. TakeChar /\ g_ptys' = [g_ptys EXCEPT ![NextPty] = FreshPty]
    BY <1>7 DEF StartSelftest
  <2>2. \A p \in Ptys : g_ptys'[p] = g_ptys[p] \/ g_ptys'[p] = FreshPty
    BY <1>p, <2>1
  <2>3. FreshPty.allocated /\ FreshPty.m2s = <<>>
    BY DEF FreshPty
  <2>4. g_ptys[0].allocated => g_ptys'[0].allocated
    BY <1>p, <2>2, <2>3
  <2>5. \A p \in Ptys : g_ptys[p].m2s = <<>> => g_ptys'[p].m2s = <<>>
    BY <2>2, <2>3
  <2> QED
    BY <1>a, <2>1, <2>4, <2>5, TakeRoutes DEF RouteInv
<1>8. CASE EndSelftest
  <2>1. CASE g_ptys' = g_ptys
    BY <1>8, <1>a, <2>1 DEF EndSelftest, RouteInv, ttyVars, modeVars
  <2>2. CASE g_ptys' = [g_ptys EXCEPT ![session_active_pty].m2s = <<>>]
    BY <1>8, <1>4, <2>2 DEF EndSelftest
  <2> QED
    BY <1>8, <2>1, <2>2 DEF EndSelftest
<1>9. CASE UNCHANGED inputVars
  BY <1>9, <1>u DEF inputVars
<1> QED
  BY <1>1, <1>2, <1>3, <1>5, <1>6, <1>7, <1>8, <1>9 DEF InputNext, MainLoop

LEMMA RouteAtBoot == InputInit => RouteInv
<1> SUFFICES ASSUME InputInit PROVE RouteInv
  OBVIOUS
<1>1. PICK sid \in BootSids : BootInit(sid)
  BY DEF InputInit
<1>2. 0 \in Ptys /\ sid \in {-1, 1}
  BY ShellAssumption DEF Ptys
<1>3. FreshPty.allocated /\ FreshPty.m2s = <<>> /\ NoPty.m2s = <<>>
  BY DEF FreshPty, NoPty
<1>4. /\ g_ptys = [p \in Ptys |-> IF p = 0 THEN FreshPty ELSE NoPty]
      /\ tty_session_pty = IF sid = 1 THEN 0 ELSE -1
      /\ tty_read_queue = <<>>
  BY <1>1 DEF BootInit, TtyAttachedInit
<1>5. session_active_pty = IF sid = 1 THEN 0 ELSE -1
  <2>1. CASE sid = 1
    <3>1. g_sessions = <<0>> /\ g_active_session_id = 1
      BY <1>1, <2>1 DEF BootInit
    <3>2. DOMAIN <<0>> = 1 .. 1 /\ <<0>>[1] = 0
      OBVIOUS
    <3> QED
      BY <2>1, <3>1, <3>2 DEF session_active_pty, session_find
  <2>2. CASE sid = -1
    <3>1. g_sessions = <<>> /\ DOMAIN <<>> = {}
      BY <1>1, <2>2 DEF BootInit
    <3> QED
      BY <2>2, <3>1 DEF session_active_pty, session_find
  <2> QED
    BY <1>2, <2>1, <2>2
<1>6. \A p \in Ptys : g_ptys[p].m2s = <<>>
  BY <1>3, <1>4
<1>7. g_ptys[0].allocated
  BY <1>2, <1>3, <1>4
<1> QED
  BY <1>2, <1>4, <1>5, <1>6, <1>7 DEF RouteInv

\* Whatever is typed and whether or not the boot found a session, the shell
\* reads the queue the tty delivers to, and no other queue holds a byte.
THEOREM InputIsNotStranded == InputSpec => []NothingStranded
<1>1. InputInit => QueuesInv /\ RouteInv
  BY QueuesAtBoot, RouteAtBoot
<1>2. QueuesInv /\ RouteInv /\ [InputNext]_inputVars => QueuesInv' /\ RouteInv'
  BY StepKeepsQueues, StepKeepsRoute
<1> QED
  BY <1>1, <1>2, RouteIsUsed, PTL DEF InputSpec
-----------------------------------------------------------------------------
\* A running self-test has seen an overflow, or every byte it injected but at
\* most one, which ended an escape sequence, is in the line.
Injecting ==
    /\ injected \in 0 .. SelftestLine
    /\ over_before \in Nat
    /\ over_before <= tty_line_overflow_count
    /\ \/ over_before < tty_line_overflow_count
       \/ /\ injected <= Len(tty_line) + 1
          /\ injected = 0 \/ tty_escape_state = 0

SelftestInv ==
    /\ tty_canonical
    /\ verdicts \in Seq({"PASS", "REFUSED"})
    /\ pc = "inject" => Injecting

\* A byte through the tty never takes back an overflow.
LEMMA OverflowsGrow ==
    ASSUME QueuesInv, tty_canonical, NEW b, HandleByte(b)
    PROVE  /\ tty_canonical'
           /\ tty_line_overflow_count \in Nat
           /\ tty_line_overflow_count' \in {tty_line_overflow_count,
                                            tty_line_overflow_count + 1}
<1>1. tty_line_overflow_count \in Nat
  BY NumbersAreNat DEF QueuesInv
<1>2. tty_canonical'
  BY DEF HandleByte, modeVars
<1>3. DiscardEscape(b) \/ Edit(b)
  BY DEF HandleByte, tty_handle_canonical, tty_handle_noncanonical
<1>4. \/ tty_line_overflow_count' = tty_line_overflow_count
      \/ tty_line_overflow_count' = tty_line_overflow_count + 1
  BY <1>3
  DEF DiscardEscape, Edit, Interrupt, Redraw, Erase, EndLine, EndOfFile, Ignore,
      Refuse, Insert
<1> QED
  BY <1>1, <1>2, <1>4

\* An x ends an escape sequence, overflows or lengthens the line.
LEMMA InjectX ==
    ASSUME QueuesInv, tty_canonical, HandleByte(120)
    PROVE  \/ /\ tty_escape_state # 0
              /\ UNCHANGED <<tty_line, tty_line_overflow_count>>
              /\ tty_escape_state' = 0
           \/ tty_line_overflow_count' = tty_line_overflow_count + 1
           \/ /\ Len(tty_line') = Len(tty_line) + 1
              /\ tty_line_overflow_count' = tty_line_overflow_count
              /\ tty_escape_state = 0 /\ tty_escape_state' = 0
<1>1. DiscardEscape(120) \/ Edit(120)
  BY DEF HandleByte, tty_handle_canonical, tty_handle_noncanonical
<1>2. tty_escape_state \in 0 .. 2 /\ tty_line \in Seq(Octet)
  BY DEF QueuesInv, TypeOK, TtyTypeOK
<1>3. CASE DiscardEscape(120)
  <2>1. tty_escape_state # 0 /\ tty_escape_state' = EscapeNext(120)
        /\ UNCHANGED <<tty_line, tty_line_overflow_count>>
    BY <1>3 DEF DiscardEscape, Escaping, Esc
  <2>2. EscapeNext(120) = 0
    BY <1>2, <2>1 DEF EscapeNext
  <2> QED
    BY <2>1, <2>2
<1>4. CASE Edit(120)
  <2>1. tty_escape_state = 0 /\ tty_escape_state' = 0 /\ (Refuse(120) \/ Insert(120))
    BY <1>4
    DEF Edit, Escaping, Interrupt, Redraw, Erase, EndLine, EndOfFile, Ignore,
        tty_is_printable, CtrlC, CtrlL, CtrlD, Backspace, Newline, Del
  <2>2. 120 \in Octet
    BY DEF Octet
  <2>3. Len(Append(tty_line, 120)) = Len(tty_line) + 1
    BY <2>2, <1>2
  <2> QED
    BY <2>1, <2>3 DEF Refuse, Insert
<1> QED
  BY <1>1, <1>3, <1>4

\* Injecting one more byte.  By the time of the newline the line would be
\* longer than its buffer, so an overflow has been seen.
LEMMA InjectKeeps ==
    ASSUME QueuesInv, SelftestInv, InjectByte
    PROVE  SelftestInv'
<1> USE ShellAssumption
<1>1. /\ Injecting /\ tty_canonical /\ injected < SelftestLine
      /\ injected' = injected + 1
      /\ UNCHANGED <<over_before, verdicts, pc>>
  BY DEF InjectByte, SelftestInv
<1>2. Len(tty_line) \in Nat /\ Len(tty_line) < TTY_LINE_BUFFER_SIZE
  BY NumbersAreNat DEF QueuesInv, BufferBounds
<1>3. /\ injected \in Nat /\ injected' \in 0 .. SelftestLine
      /\ over_before \in Nat
      /\ over_before <= tty_line_overflow_count
  BY <1>1 DEF Injecting
<1>4. PICK b : HandleByte(b) /\ (b = 120 \/ injected = SelftestLine - 1)
  BY DEF InjectByte
<1>5. /\ tty_canonical' /\ tty_line_overflow_count \in Nat
      /\ tty_line_overflow_count' \in {tty_line_overflow_count, tty_line_overflow_count + 1}
  BY <1>1, <1>4, OverflowsGrow
<1>6. Injecting'
  <2>1. CASE over_before < tty_line_overflow_count
    BY <1>1, <1>3, <1>5, <2>1 DEF Injecting
  <2>2. CASE ~ (over_before < tty_line_overflow_count)
    <3>1. injected <= Len(tty_line) + 1 /\ (injected = 0 \/ tty_escape_state = 0)
      BY <1>1, <2>2 DEF Injecting
    <3>2. injected # SelftestLine - 1
      BY <1>2, <1>3, <3>1
    <3>3. HandleByte(120)
      BY <1>4, <3>2
    <3>4. CASE /\ tty_escape_state # 0
               /\ UNCHANGED <<tty_line, tty_line_overflow_count>>
               /\ tty_escape_state' = 0
      BY <1>1, <1>2, <1>3, <3>1, <3>4 DEF Injecting
    <3>5. CASE tty_line_overflow_count' = tty_line_overflow_count + 1
      BY <1>1, <1>3, <1>5, <3>5 DEF Injecting
    <3>6. CASE /\ Len(tty_line') = Len(tty_line) + 1
               /\ tty_line_overflow_count' = tty_line_overflow_count
               /\ tty_escape_state = 0 /\ tty_escape_state' = 0
      BY <1>1, <1>2, <1>3, <3>1, <3>6 DEF Injecting
    <3> QED
      BY <1>1, <3>3, <3>4, <3>5, <3>6, InjectX
  <2> QED
    BY <2>1, <2>2
<1> QED
  BY <1>1, <1>5, <1>6 DEF SelftestInv

LEMMA StepKeepsSelftest ==
    ASSUME QueuesInv, SelftestInv, [InputNext]_inputVars
    PROVE  SelftestInv'
<1>n. tty_line_overflow_count \in Nat /\ Len(tty_line) \in Nat
  BY NumbersAreNat DEF QueuesInv
<1>a. ASSUME NEW v \in {"PASS", "REFUSED"}, verdicts' = Append(verdicts, v)
      PROVE  verdicts' \in Seq({"PASS", "REFUSED"})
  BY <1>a, AppendProperties DEF SelftestInv
<1>u. ASSUME UNCHANGED <<ttyVars, selftestVars>>, pc' = "inject" => pc = "inject"
      PROVE  SelftestInv'
  <2>1. UNCHANGED <<tty_canonical, tty_line, tty_escape_state, tty_line_overflow_count,
                    injected, over_before, verdicts>>
    BY <1>u DEF ttyVars, modeVars, countVars, selftestVars
  <2> QED
    BY <1>u, <2>1 DEF SelftestInv, Injecting
<1>t. ASSUME TakeChar
      PROVE  /\ UNCHANGED <<tty_canonical, tty_line, tty_escape_state,
                            tty_line_overflow_count>>
             /\ pc # "inject"
  <2>1. CASE PtyChar
    BY <2>1 DEF PtyChar, ttyVars, modeVars, countVars
  <2>2. CASE TtyChar
    BY <2>2 DEF TtyChar, modeVars, countVars
  <2> QED
    BY <1>t, <2>1, <2>2 DEF TakeChar
<1>1. ASSUME NEW s \in Stroke, Strike(s) PROVE SelftestInv'
  <2>1. UNCHANGED <<ttyVars, selftestVars>> /\ (pc' = "inject" => pc = "inject")
    BY <1>1 DEF Strike, ttyPtyVars
  <2> QED
    BY <1>u, <2>1
<1>2. CASE TimerTick \/ PollDone \/ ReadNothing \/ ChunkDone \/ Hlt \/ ReadChunk
  <2>1. UNCHANGED <<ttyVars, selftestVars>> /\ pc' # "inject"
    BY <1>2 DEF TimerTick, PollDone, ReadNothing, ChunkDone, Hlt, ReadChunk, ttyPtyVars
  <2> QED
    BY <1>u, <2>1
<1>3. CASE PollByte
  <2>1. PICK b : HandleByte(b)
    BY <1>3 DEF PollByte
  <2>2. tty_canonical'
    BY <2>1, OverflowsGrow DEF SelftestInv
  <2>3. pc' # "inject" /\ verdicts' = verdicts
    BY <1>3 DEF PollByte, selftestVars
  <2> QED
    BY <2>2, <2>3 DEF SelftestInv
<1>4. CASE InjectByte
  BY <1>4, InjectKeeps
<1>5. CASE RunByte
  <2>1. UNCHANGED tty_canonical /\ pc' # "inject" /\ UNCHANGED verdicts
    BY <1>5, <1>t DEF RunByte, selftestVars
  <2> QED
    BY <2>1 DEF SelftestInv
<1>6. CASE RefuseSelftest
  <2>1. UNCHANGED tty_canonical /\ pc' # "inject" /\ verdicts' = Append(verdicts, "REFUSED")
    BY <1>6, <1>t DEF RefuseSelftest
  <2>2. verdicts' \in Seq({"PASS", "REFUSED"})
    BY <1>a, <2>1
  <2> QED
    BY <2>1, <2>2 DEF SelftestInv
<1>7. CASE StartSelftest
  <2>1. /\ UNCHANGED <<tty_canonical, tty_line, tty_escape_state,
                       tty_line_overflow_count, verdicts>>
        /\ injected' = 0 /\ over_before' = tty_line_overflow_count
    BY <1>7, <1>t DEF StartSelftest
  <2>2. Injecting'
    BY <1>n, <2>1, ShellAssumption DEF Injecting
  <2> QED
    BY <2>1, <2>2 DEF SelftestInv
<1>8. CASE EndSelftest
  <2>1. Injecting /\ injected = SelftestLine
    BY <1>8 DEF EndSelftest, SelftestInv
  <2>2. Len(tty_line) < TTY_LINE_BUFFER_SIZE
    BY DEF QueuesInv, BufferBounds
  <2>3. tty_line_overflow_count > over_before
    BY <1>n, <2>1, <2>2, ShellAssumption DEF Injecting
  <2>4. verdicts' = Append(verdicts, "PASS") /\ UNCHANGED tty_canonical
    BY <1>8, <2>3 DEF EndSelftest, ttyVars, modeVars
  <2>5. pc' # "inject"
    BY <1>8 DEF EndSelftest
  <2>6. verdicts' \in Seq({"PASS", "REFUSED"})
    BY <1>a, <2>4
  <2> QED
    BY <2>4, <2>5, <2>6 DEF SelftestInv
<1>9. CASE UNCHANGED inputVars
  BY <1>9, <1>u DEF inputVars, ttyPtyVars
<1> QED
  BY <1>1, <1>2, <1>3, <1>4, <1>5, <1>6, <1>7, <1>8, <1>9 DEF InputNext, MainLoop

\* Whatever was typed before it and whatever is struck while it runs, and
\* with an escape sequence or a line half entered, a self-test that gets its
\* pty sees its line overflow.
THEOREM SelftestNeverFails == InputSpec => []SelftestsPass
<1>1. InputInit => SelftestInv
  <2>1. <<>> \in Seq({"PASS", "REFUSED"})
    BY EmptySeq
  <2> QED
    BY <2>1 DEF InputInit, BootInit, TtyAttachedInit, SelftestInv
<1>2. SelftestInv => SelftestsPass
  <2> SUFFICES ASSUME SelftestInv, NEW i \in DOMAIN verdicts
               PROVE  verdicts[i] # "FAIL"
    BY DEF SelftestsPass
  <2>1. verdicts[i] \in {"PASS", "REFUSED"}
    BY ElementOfSeq, LenProperties DEF SelftestInv
  <2> QED
    BY <2>1
<1>3. QueuesInv /\ SelftestInv /\ [InputNext]_inputVars => QueuesInv' /\ SelftestInv'
  BY StepKeepsQueues, StepKeepsSelftest
<1> QED
  BY <1>1, <1>2, <1>3, QueuesAtBoot, PTL DEF InputSpec
-----------------------------------------------------------------------------
\* The slot the j-th last command went to.
SlotBack(head, j) == IF j <= head THEN head - j ELSE head + HISTORY_SLOTS - j

\* The ring, seen from its head: the commands are in the slots before it.
\* executed is a sequence, of whatever Command yields.
HistoryInv ==
    /\ \E S : executed \in Seq(S)
    /\ hist_entries = [slot \in HistorySlots |-> hist_entries[slot]]
    /\ hist_head \in HistorySlots
    /\ HISTORY_COUNT = Len(executed)
    /\ hist_count = IF Len(executed) < HISTORY_SLOTS THEN Len(executed) ELSE HISTORY_SLOTS
    /\ \A j \in 1 .. hist_count :
           hist_entries[SlotBack(hist_head, j)] = InSlot(executed[Len(executed) + 1 - j])

\* The head after h, and the slots before the two.
LEMMA HeadMoves ==
    ASSUME NEW h \in HistorySlots
    PROVE  /\ (h + 1) % HISTORY_SLOTS \in HistorySlots
           /\ SlotBack((h + 1) % HISTORY_SLOTS, 1) = h
           /\ \A j \in 1 .. HISTORY_SLOTS - 1 :
                  /\ SlotBack((h + 1) % HISTORY_SLOTS, j + 1) = SlotBack(h, j)
                  /\ SlotBack(h, j) \in HistorySlots
                  /\ SlotBack(h, j) # h
<1> USE HistoryAssumption
<1>1. CASE h + 1 = HISTORY_SLOTS
  <2>1. (h + 1) % HISTORY_SLOTS = 0
    BY <1>1 DEF HistorySlots
  <2> QED
    BY <1>1, <2>1 DEF HistorySlots, SlotBack
<1>2. CASE h + 1 # HISTORY_SLOTS
  <2>1. (h + 1) % HISTORY_SLOTS = h + 1
    BY <1>2 DEF HistorySlots
  <2> QED
    BY <1>2, <2>1 DEF HistorySlots, SlotBack
<1> QED
  BY <1>1, <1>2

\* A push moves the head past the slot it writes, which held the oldest
\* command if the ring was full (lib.rs:27-42).
LEMMA PushKeepsHistory ==
    ASSUME HistoryInv, NEW command, rust_history_push(command),
           executed' = Append(executed, command)
    PROVE  HistoryInv'
<1> USE HistoryAssumption
<1>1. PICK S : executed \in Seq(S)
  BY DEF HistoryInv
<1> DEFINE T == S \cup {command}
           n == Len(executed)
           h == hist_head
<1>2. executed \in Seq(T) /\ command \in T /\ n \in Nat
  BY <1>1
<1>3. /\ executed' \in Seq(T)
      /\ Len(executed') = n + 1
      /\ \A i \in 1 .. n : executed'[i] = executed[i]
      /\ executed'[n + 1] = command
  BY <1>2, AppendProperties
<1> HIDE DEF T, n, h
<1>4. /\ h \in HistorySlots
      /\ hist_entries = [slot \in HistorySlots |-> hist_entries[slot]]
      /\ HISTORY_COUNT = n
      /\ hist_count = IF n < HISTORY_SLOTS THEN n ELSE HISTORY_SLOTS
  BY DEF HistoryInv, h, n
<1>5. hist_head' = (h + 1) % HISTORY_SLOTS
  BY DEF rust_history_push, h
<1>6. /\ hist_entries' = [hist_entries EXCEPT ![h] = InSlot(command)]
      /\ hist_count' = IF n + 1 < HISTORY_SLOTS THEN n + 1 ELSE HISTORY_SLOTS
      /\ HISTORY_COUNT' = n + 1
  BY <1>2, <1>4 DEF rust_history_push, h
<1>7. /\ hist_entries'[h] = InSlot(command)
      /\ \A slot \in HistorySlots : slot # h => hist_entries'[slot] = hist_entries[slot]
      /\ hist_entries' = [slot \in HistorySlots |-> hist_entries'[slot]]
  BY <1>4, <1>6
<1>8. hist_head' \in HistorySlots
  BY <1>4, <1>5, HeadMoves
<1>9. ASSUME NEW j \in 1 .. hist_count'
      PROVE  hist_entries'[SlotBack(hist_head', j)] = InSlot(executed'[Len(executed') + 1 - j])
  <2>1. /\ j \in Nat /\ 1 <= j /\ j <= n + 1 /\ j <= HISTORY_SLOTS
    BY <1>2, <1>6
  <2>2. CASE j = 1
    <3>1. SlotBack(hist_head', j) = h
      BY <1>4, <1>5, <2>2, HeadMoves
    <3>2. Len(executed') + 1 - j = n + 1
      BY <1>2, <1>3, <2>2
    <3> QED
      BY <1>3, <1>7, <3>1, <3>2
  <2>3. CASE j # 1
    <3> DEFINE i == j - 1
    <3>1. i \in 1 .. hist_count /\ i < HISTORY_SLOTS /\ i <= n
      BY <1>2, <1>4, <2>1, <2>3
    <3>2. /\ SlotBack(hist_head', j) = SlotBack(h, i)
          /\ SlotBack(h, i) \in HistorySlots /\ SlotBack(h, i) # h
      <4>1. i \in 1 .. HISTORY_SLOTS - 1 /\ j = i + 1
        BY <2>1, <3>1
      <4> HIDE DEF i
      <4> QED
        BY <1>4, <1>5, <4>1, HeadMoves
    <3>3. hist_entries[SlotBack(h, i)] = InSlot(executed[n + 1 - i])
      BY <3>1 DEF HistoryInv, n, h
    <3>4. Len(executed') + 1 - j = n + 1 - i /\ n + 1 - i \in 1 .. n
      BY <1>2, <1>3, <2>1, <3>1
    <3> HIDE DEF i
    <3> QED
      BY <1>3, <1>7, <3>2, <3>3, <3>4
  <2> QED
    BY <2>2, <2>3
<1> QED
  BY <1>3, <1>6, <1>7, <1>8, <1>9 DEF HistoryInv

LEMMA ExecuteKeepsHistory ==
    ASSUME HistoryInv, NEW command, execute_command(command)
    PROVE  HistoryInv'
<1>1. CASE command = <<>>
  BY <1>1 DEF execute_command, historyVars, HistoryInv, SlotBack
<1>2. CASE command # <<>>
  BY <1>2, PushKeepsHistory DEF execute_command
<1> QED
  BY <1>1, <1>2

LEMMA StepKeepsHistory ==
    ASSUME HistoryInv, [InputNext]_inputVars
    PROVE  HistoryInv'
<1>u. ASSUME UNCHANGED <<executed, historyVars>> PROVE HistoryInv'
  BY <1>u DEF historyVars, HistoryInv, SlotBack
<1>e. ASSUME ExecuteLine PROVE HistoryInv'
  BY <1>e, ExecuteKeepsHistory DEF ExecuteLine
<1>1. ASSUME NEW s \in Stroke, Strike(s) PROVE HistoryInv'
  BY <1>1, <1>u DEF Strike, shellVars
<1>2. CASE TimerTick \/ PollByte \/ PollDone \/ ReadChunk \/ ReadNothing
           \/ ChunkDone \/ Hlt \/ InjectByte \/ EndSelftest
  BY <1>2, <1>u
  DEF TimerTick, PollByte, PollDone, ReadChunk, ReadNothing, ChunkDone, Hlt,
      InjectByte, EndSelftest, shellVars
<1>3. CASE RunByte
  BY <1>3, <1>u, <1>e DEF RunByte, ShellByte
<1>4. CASE RefuseSelftest \/ StartSelftest
  BY <1>4, <1>e DEF RefuseSelftest, StartSelftest
<1>5. CASE UNCHANGED inputVars
  BY <1>5, <1>u DEF inputVars, shellVars
<1> QED
  BY <1>1, <1>2, <1>3, <1>4, <1>5 DEF InputNext, MainLoop

\* What HistoryInv says of the ring, in the order in which it is listed.
LEMMA HistoryIsListed == HistoryInv => HistoryHoldsLast
<1> USE HistoryAssumption
<1> SUFFICES ASSUME HistoryInv PROVE HistoryHoldsLast
  OBVIOUS
<1> DEFINE n == Len(executed)
<1>1. n \in Nat
  <2>1. PICK S : executed \in Seq(S)
    BY DEF HistoryInv
  <2> QED
    BY <2>1
<1>2. /\ hist_head \in HistorySlots
      /\ hist_count = IF n < HISTORY_SLOTS THEN n ELSE HISTORY_SLOTS
      /\ HISTORY_COUNT = n
  BY DEF HistoryInv
<1>3. ASSUME NEW i \in 1 .. hist_count
      PROVE  hist_entries[(hist_head + HISTORY_SLOTS - hist_count + i - 1) % HISTORY_SLOTS]
             = InSlot(executed[n - hist_count + i])
  <2> DEFINE j == hist_count + 1 - i
             x == hist_head + HISTORY_SLOTS - hist_count + i - 1
  <2>1. /\ hist_count \in Nat /\ hist_count <= HISTORY_SLOTS /\ hist_count <= n
        /\ i \in Nat /\ 1 <= i /\ i <= hist_count
        /\ hist_head \in Nat /\ hist_head < HISTORY_SLOTS
    BY <1>1, <1>2 DEF HistorySlots
  <2>2. j \in 1 .. hist_count /\ n + 1 - j = n - hist_count + i
    BY <1>1, <2>1
  <2>3. x \in Nat /\ x < 2 * HISTORY_SLOTS
        /\ SlotBack(hist_head, j) = IF x < HISTORY_SLOTS THEN x ELSE x - HISTORY_SLOTS
    BY <2>1 DEF SlotBack
  <2>4. x % HISTORY_SLOTS = IF x < HISTORY_SLOTS THEN x ELSE x - HISTORY_SLOTS
    <3> HIDE DEF x
    <3>1. CASE x < HISTORY_SLOTS
      BY <2>3, <3>1
    <3>2. CASE ~ (x < HISTORY_SLOTS)
      BY <2>3, <3>2
    <3> QED
      BY <3>1, <3>2
  <2>5. hist_entries[SlotBack(hist_head, j)] = InSlot(executed[n + 1 - j])
    BY <2>2 DEF HistoryInv
  <2> HIDE DEF j
  <2> QED
    BY <2>2, <2>3, <2>4, <2>5
<1> QED
  BY <1>2, <1>3 DEF HistoryHoldsLast, Remembered

\* For every number of slots and however often the ring has wrapped, it holds
\* the last commands that were executed, in order and without a gap.
THEOREM HistoryIsTheLast == InputSpec => []HistoryHoldsLast
<1>1. InputInit => HistoryInv
  <2> SUFFICES ASSUME InputInit PROVE HistoryInv
    OBVIOUS
  <2>1. /\ executed = <<>> /\ hist_entries = [slot \in HistorySlots |-> <<>>]
        /\ hist_head = 0 /\ hist_count = 0 /\ HISTORY_COUNT = 0
    BY DEF InputInit, HistoryInit
  <2>2. <<>> \in Seq({}) /\ Len(<<>>) = 0
    BY EmptySeq
  <2> QED
    BY <2>1, <2>2, HistoryAssumption DEF HistoryInv, HistorySlots
<1>2. HistoryInv /\ [InputNext]_inputVars => HistoryInv'
  BY StepKeepsHistory
<1> QED
  BY <1>1, <1>2, HistoryIsListed, PTL DEF InputSpec
-----------------------------------------------------------------------------
LEMMA Division ==
    ASSUME NEW c \in Nat \ {0}, NEW n \in Nat
    PROVE  \E q \in Nat, k \in 0 .. c - 1 :
               q = n \div c /\ k = n % c /\ n = q * c + k
<1>1. n % c = n - c * (n \div c)
  OBVIOUS
<1>2. PICK q \in Nat : q = n \div c
  OBVIOUS
<1>3. PICK k \in 0 .. c - 1 : k = n % c
  OBVIOUS
<1>4. k = n - c * q
  BY <1>1, <1>2, <1>3
<1>5. n = q * c + k
  <2> HIDE <1>1, <1>2, <1>3
  <2> QED
    BY <1>4
<1> QED
  BY <1>2, <1>3, <1>5, Zenon

LEMMA Fits ==
    ASSUME NEW c \in Nat \ {0}, NEW q \in Nat, NEW r \in Nat, NEW k \in 0 .. c - 1,
           NEW j \in 0 .. c - 1, q < r
    PROVE  q * c + k < r * c + j
<1>1. PICK d \in Nat : r = q + 1 + d
  BY r = q + 1 + (r - q - 1)
<1>2. r * c = q * c + c + d * c
  BY <1>1
<1>3. d * c \in Nat
  OBVIOUS
<1>4. q * c \in Nat /\ r * c \in Nat
  OBVIOUS
<1> QED
  BY <1>2, <1>3, <1>4

LEMMA Unique ==
    ASSUME NEW c \in Nat \ {0}, NEW q \in Nat, NEW r \in Nat, NEW k \in 0 .. c - 1,
           NEW j \in 0 .. c - 1, q * c + k = r * c + j
    PROVE  q = r /\ k = j
<1>1. ~ (q < r)
  <2>1. q < r => q * c + k < r * c + j
    BY Fits
  <2> QED
    BY <2>1
<1>2. ~ (r < q)
  <2>1. r < q => r * c + j < q * c + k
    BY Fits
  <2> QED
    BY <2>1
<1>3. q = r
  BY <1>1, <1>2
<1> QED
  BY <1>3

LEMMA Decompose ==
    ASSUME NEW c \in Nat \ {0}, NEW n \in Nat
    PROVE  \E q \in Nat, k \in 0 .. c - 1 : n = q * c + k
  BY Division, Zenon
-----------------------------------------------------------------------------
\* The cells in reading order: where the n-th is, and what it shows.
Where(n) == <<n \div Cols, n % Cols>>
Shows(cells, n) == IF n < 0 THEN Scr!Blank ELSE cells[Where(n)]
Grid == (0 .. Rows - 1) \X (0 .. Cols - 1)

LEMMA Sizes ==
    /\ Rows \in Nat \ {0} /\ Cols \in Nat \ {0} /\ Rows - 1 \in Nat
    /\ (Rows - 1) * Cols \in Nat /\ Rows * Cols \in Nat
    /\ Rows * Cols = (Rows - 1) * Cols + Cols
    /\ (Rows - 1) * Cols >= TTY_LINE_BUFFER_SIZE
<1>1. Rows \in Nat \ {0} /\ Cols \in Nat \ {0} /\ (Rows - 1) * Cols >= TTY_LINE_BUFFER_SIZE
  BY EchoAssumption
<1>2. Rows - 1 \in Nat
  BY <1>1
<1>3. Rows * Cols = (Rows - 1) * Cols + Cols
  BY <1>1
<1> QED
  BY <1>1, <1>2, <1>3

LEMMA WhereIs ==
    ASSUME NEW r \in Nat, NEW k \in 0 .. Cols - 1
    PROVE  Where(r * Cols + k) = <<r, k>>
<1>1. r * Cols + k \in Nat
  BY Sizes
<1>2. PICK q \in Nat, j \in 0 .. Cols - 1 :
          /\ q = (r * Cols + k) \div Cols /\ j = (r * Cols + k) % Cols
          /\ r * Cols + k = q * Cols + j
  BY <1>1, Sizes, Division
<1>3. q = r /\ j = k
  BY <1>2, Sizes, Unique
<1> QED
  BY <1>2, <1>3, Zenon DEF Where

LEMMA WhereFits ==
    ASSUME NEW n \in Nat, n < Rows * Cols
    PROVE  \E r \in 0 .. Rows - 1, k \in 0 .. Cols - 1 :
               n = r * Cols + k /\ Where(n) = <<r, k>>
<1>1. PICK r \in Nat, k \in 0 .. Cols - 1 : n = r * Cols + k
  BY Sizes, Decompose
<1>2. ~ (Rows < r)
  <2>1. 0 \in 0 .. Cols - 1
    BY Sizes
  <2>2. Rows < r => Rows * Cols + 0 < r * Cols + k
    BY <2>1, Sizes, Fits
  <2> QED
    BY <1>1, <2>2, Sizes
<1>3. r # Rows
  BY <1>1, Sizes
<1>4. r \in 0 .. Rows - 1
  BY <1>2, <1>3, Sizes
<1> QED
  BY <1>1, <1>4, WhereIs

Written(cells, r, k, g) == [cells EXCEPT ![<<r, k>>] = g]

\* Writing a cell changes what that cell shows and no other.
LEMMA WriteCell ==
    ASSUME NEW cells, DOMAIN cells = Grid, NEW r \in 0 .. Rows - 1, NEW k \in 0 .. Cols - 1,
           NEW g, NEW after, after = Written(cells, r, k, g),
           NEW n \in Int, n < Rows * Cols
    PROVE  /\ DOMAIN after = Grid
           /\ n = r * Cols + k => Shows(after, n) = g
           /\ n # r * Cols + k => Shows(after, n) = Shows(cells, n)
<1>1. DOMAIN after = Grid
  BY DEF Written
<1>2. r \in Nat /\ r * Cols + k \in Nat
  BY Sizes
<1>3. ASSUME n = r * Cols + k PROVE Shows(after, n) = g
  <2>1. ~ (n < 0) /\ Where(n) = <<r, k>>
    BY <1>2, <1>3, WhereIs
  <2> QED
    BY <2>1 DEF Shows, Grid, Written
<1>4. ASSUME n # r * Cols + k PROVE Shows(after, n) = Shows(cells, n)
  <2>1. CASE n < 0
    BY <2>1 DEF Shows
  <2>2. CASE ~ (n < 0)
    <3>1. PICK q \in 0 .. Rows - 1, j \in 0 .. Cols - 1 :
              n = q * Cols + j /\ Where(n) = <<q, j>>
      BY <2>2, WhereFits
    <3>2. <<q, j>> # <<r, k>> /\ <<q, j>> \in Grid
      BY <1>4, <3>1 DEF Grid
    <3>3. after[<<q, j>>] = cells[<<q, j>>]
      BY <3>2 DEF Written
    <3> QED
      BY <2>2, <3>1, <3>3 DEF Shows
  <2> QED
    BY <2>1, <2>2
<1> QED
  BY <1>1, <1>3, <1>4

\* Scrolling moves every cell one row up.
Scrolled(cells) ==
    [p \in Grid |-> IF p[1] < Rows - 1 THEN cells[<<p[1] + 1, p[2]>>] ELSE Scr!Blank]

LEMMA ScrollCells ==
    ASSUME NEW cells, NEW n \in Nat, n < (Rows - 1) * Cols
    PROVE  Shows(Scrolled(cells), n) = Shows(cells, n + Cols)
<1>1. PICK r \in Nat, k \in 0 .. Cols - 1 : n = r * Cols + k
  BY Sizes, Decompose
<1>2. r < Rows - 1
  <2>1. 0 \in 0 .. Cols - 1
    BY Sizes
  <2>2. Rows - 1 < r => (Rows - 1) * Cols + 0 < r * Cols + k
    BY <2>1, Sizes, Fits
  <2>3. r # Rows - 1
    BY <1>1, Sizes
  <2> QED
    BY <1>1, <2>2, <2>3, Sizes
<1>3. Where(n) = <<r, k>>
  BY <1>1, WhereIs
<1>4. Where(n + Cols) = <<r + 1, k>> /\ n + Cols \in Nat
  <2>1. n + Cols = (r + 1) * Cols + k
    BY <1>1, Sizes
  <2>2. r + 1 \in Nat
    OBVIOUS
  <2>3. Where((r + 1) * Cols + k) = <<r + 1, k>>
    BY <2>2, WhereIs
  <2> QED
    BY <2>1, <2>3, Sizes
<1>5. <<r, k>> \in Grid
  BY <1>2, Sizes DEF Grid
<1>6. Scrolled(cells)[<<r, k>>] = cells[<<r + 1, k>>]
  BY <1>2, <1>5 DEF Scrolled
<1>7. ~ (n < 0) /\ ~ (n + Cols < 0)
  BY <1>4
<1> QED
  BY <1>3, <1>4, <1>6, <1>7 DEF Shows
-----------------------------------------------------------------------------
\* A screen, by its cursor and its cells.
Picture(r, k, cells) == [rows |-> Rows, cols |-> Cols, row |-> r, col |-> k, cells |-> cells]
Sound(s) ==
    \E r, k, cells : /\ r \in 0 .. Rows - 1 /\ k \in 0 .. Cols - 1 /\ DOMAIN cells = Grid
                     /\ s = Picture(r, k, cells)
Place(s) == s.row * Cols + s.col

\* The cursor, or the cells and the row, changed at once.
Moved(s, k, r) == [s EXCEPT !.col = k, !.row = r]
MovedBack(s, r, k) == [s EXCEPT !.row = r, !.col = k]
Redrawn(s, cells, r) == [s EXCEPT !.cells = cells, !.row = r]

LEMMA PictureMoves ==
    ASSUME NEW r, NEW k, NEW cells, NEW x, NEW y
    PROVE  /\ Moved(Picture(r, k, cells), y, x) = Picture(x, y, cells)
           /\ MovedBack(Picture(r, k, cells), x, y) = Picture(x, y, cells)
           /\ Redrawn(Picture(r, k, cells), y, x) = Picture(x, k, y)
<1>1. Moved(Picture(r, k, cells), y, x) = Picture(x, y, cells)
  <2> DEFINE t == Moved(Picture(r, k, cells), y, x)
  <2>1. t \in [rows : {Rows}, cols : {Cols}, row : {x}, col : {y}, cells : {cells}]
    BY DEF Moved, Picture
  <2> HIDE DEF t
  <2>2. t = [rows |-> Rows, cols |-> Cols, row |-> x, col |-> y, cells |-> cells]
    BY <2>1
  <2> QED
    BY <2>2, Zenon DEF t, Picture
<1>2. MovedBack(Picture(r, k, cells), x, y) = Picture(x, y, cells)
  <2> DEFINE t == MovedBack(Picture(r, k, cells), x, y)
  <2>1. t \in [rows : {Rows}, cols : {Cols}, row : {x}, col : {y}, cells : {cells}]
    BY DEF MovedBack, Picture
  <2> HIDE DEF t
  <2>2. t = [rows |-> Rows, cols |-> Cols, row |-> x, col |-> y, cells |-> cells]
    BY <2>1
  <2> QED
    BY <2>2, Zenon DEF t, Picture
<1>3. Redrawn(Picture(r, k, cells), y, x) = Picture(x, k, y)
  <2> DEFINE t == Redrawn(Picture(r, k, cells), y, x)
  <2>1. t \in [rows : {Rows}, cols : {Cols}, row : {x}, col : {k}, cells : {y}]
    BY DEF Redrawn, Picture
  <2> HIDE DEF t
  <2>2. t = [rows |-> Rows, cols |-> Cols, row |-> x, col |-> k, cells |-> y]
    BY <2>1
  <2> QED
    BY <2>2, Zenon DEF t, Picture
<1> QED
  BY <1>1, <1>2, <1>3

LEMMA SoundPlace ==
    ASSUME NEW r \in 0 .. Rows - 1, NEW k \in 0 .. Cols - 1, NEW cells, DOMAIN cells = Grid
    PROVE  /\ Sound(Picture(r, k, cells))
           /\ Place(Picture(r, k, cells)) = r * Cols + k
           /\ r * Cols + k \in 0 .. Rows * Cols - 1
           /\ \A n \in Int :
                  CellBefore(Picture(r, k, cells), n) = Shows(cells, (r * Cols + k) - n)
<1>1. Sound(Picture(r, k, cells))
  BY DEF Sound
<1>2. Place(Picture(r, k, cells)) = r * Cols + k
  BY DEF Place, Picture
<1>3. r * Cols + k \in 0 .. Rows * Cols - 1
  <2>1. r \in Nat /\ 0 \in 0 .. Cols - 1 /\ r < Rows
    BY Sizes
  <2>2. r * Cols + k < Rows * Cols + 0
    BY <2>1, Sizes, Fits
  <2>3. r * Cols \in Nat
    BY <2>1, Sizes
  <2> QED
    BY <2>2, <2>3, Sizes
<1>4. ASSUME NEW n \in Int
      PROVE  CellBefore(Picture(r, k, cells), n) = Shows(cells, (r * Cols + k) - n)
  <2>1. r * Cols + k - n = (r * Cols + k) - n
    <3>1. r \in Int /\ k \in Int /\ r * Cols \in Int
      BY Sizes
    <3> QED
      BY <3>1
  <2>2. CellBefore(Picture(r, k, cells), n) = Shows(cells, r * Cols + k - n)
    BY DEF CellBefore, Shows, Where, Picture
  <2> QED
    BY <2>1, <2>2, Zenon
<1> QED
  BY <1>1, <1>2, <1>3, <1>4

LEMMA ScrollPicture ==
    ASSUME NEW k, NEW cells, NEW r \in 0 .. Rows
    PROVE  Scr!scroll_if_needed(Picture(r, k, cells)) =
               IF r < Rows THEN Picture(r, k, cells)
               ELSE Picture(Rows - 1, k, Scrolled(cells))
<1> DEFINE s == Picture(r, k, cells)
<1>1. s.row = r /\ s.rows = Rows /\ s.cells = cells /\ s.cols = Cols
  BY DEF Picture
<1>2. Scr!backend_scroll_up(s) = Scrolled(cells)
  BY <1>1 DEF Scr!backend_scroll_up, Scr!Cells, Scrolled, Grid
<1>3. Redrawn(s, Scrolled(cells), Rows - 1) = Picture(Rows - 1, k, Scrolled(cells))
  BY PictureMoves
<1> HIDE DEF s
<1>4. CASE r < Rows
  BY <1>1, <1>4 DEF Scr!scroll_if_needed, s
<1>5. CASE ~ (r < Rows)
  BY <1>1, <1>2, <1>3, <1>5 DEF Scr!scroll_if_needed, Redrawn, s
<1> QED
  BY <1>4, <1>5

LEMMA PutPicture ==
    ASSUME NEW r \in 0 .. Rows - 1, NEW k \in 0 .. Cols - 1, NEW cells, NEW g,
           NEW after, after = Written(cells, r, k, g)
    PROVE  Scr!raw_put_visible(Picture(r, k, cells), g) =
               IF k + 1 < Cols THEN Picture(r, k + 1, after)
               ELSE IF r + 1 < Rows THEN Picture(r + 1, 0, after)
               ELSE Picture(Rows - 1, 0, Scrolled(after))
<1> DEFINE s == Picture(r, k, cells)
           put == [s EXCEPT !.cells[<<r, k>>] = g]
<1>1. s.row = r /\ s.col = k /\ s.rows = Rows /\ s.cells = cells /\ s.cols = Cols
  BY DEF Picture
<1>2. put = Picture(r, k, after)
  BY DEF Picture, Written
<1>3. Scr!raw_put_visible(s, g) = IF k + 1 < Cols
                                  THEN Scr!scroll_if_needed([put EXCEPT !.col = k + 1])
                                  ELSE Scr!scroll_if_needed(Moved(put, 0, r + 1))
  <2> HIDE DEF s
  <2> QED
    BY <1>1 DEF Scr!raw_put_visible, Moved
<1> HIDE DEF put
<1>4. [put EXCEPT !.col = k + 1] = Picture(r, k + 1, after)
  BY <1>2 DEF Picture
<1>a. Moved(put, 0, r + 1) = Picture(r + 1, 0, after)
  BY <1>2, PictureMoves
<1>5. r \in 0 .. Rows /\ r + 1 \in 0 .. Rows /\ r < Rows
  BY Sizes
<1> HIDE DEF s
<1>6. Scr!scroll_if_needed(Picture(r, k + 1, after)) = Picture(r, k + 1, after)
  BY <1>5, ScrollPicture
<1>7. Scr!scroll_if_needed(Picture(r + 1, 0, after)) =
          IF r + 1 < Rows THEN Picture(r + 1, 0, after)
          ELSE Picture(Rows - 1, 0, Scrolled(after))
  BY <1>5, ScrollPicture
<1> QED
  BY <1>3, <1>4, <1>a, <1>6, <1>7 DEF s

\* A glyph: the cells before the cursor move one away from it, but for those a
\* scroll takes off the screen (console.c:277-287).
LEMMA PutShiftsPicture ==
    ASSUME NEW r \in 0 .. Rows - 1, NEW k \in 0 .. Cols - 1, NEW cells, DOMAIN cells = Grid,
           NEW g, NEW len \in Nat, len + 1 < TTY_LINE_BUFFER_SIZE
    PROVE  LET s == Picture(r, k, cells)
               t == Scr!raw_put_visible(s, g)
           IN  /\ Sound(t)
               /\ CellBefore(t, 1) = g
               /\ len <= Place(s) => /\ len + 1 <= Place(t)
                                     /\ \A n \in 1 .. len + 1 :
                                            CellBefore(t, n + 1) = CellBefore(s, n)
<1> DEFINE p == r * Cols + k
           s == Picture(r, k, cells)
           t == Scr!raw_put_visible(s, g)
<1>a. PICK after : after = Written(cells, r, k, g)
  OBVIOUS
<1>1. p \in 0 .. Rows * Cols - 1
  BY SoundPlace
<1>b. Place(s) = p
  BY SoundPlace
<1>c. \A n \in Int : CellBefore(s, n) = Shows(cells, p - n)
  BY SoundPlace, Zenon
<1>2. /\ p \in 0 .. Rows * Cols - 1 /\ Place(s) = p
      /\ \A n \in Int : CellBefore(s, n) = Shows(cells, p - n)
  BY <1>1, <1>b, <1>c, Zenon
<1>3. /\ DOMAIN after = Grid
      /\ Shows(after, p) = g
      /\ \A n \in Int : n < Rows * Cols /\ n # p => Shows(after, n) = Shows(cells, n)
  <2>1. p \in Int /\ p < Rows * Cols
    BY <1>1, Sizes
  <2>2. DOMAIN after = Grid /\ Shows(after, p) = g
    BY <1>a, <2>1, WriteCell
  <2>3. ASSUME NEW n \in Int, n < Rows * Cols, n # p PROVE Shows(after, n) = Shows(cells, n)
    BY <1>a, <2>3, WriteCell
  <2> QED
    BY <2>2, <2>3
<1>4. t = IF k + 1 < Cols THEN Picture(r, k + 1, after)
          ELSE IF r + 1 < Rows THEN Picture(r + 1, 0, after)
          ELSE Picture(Rows - 1, 0, Scrolled(after))
  BY <1>a, PutPicture
<1>5. r \in Nat /\ k \in Nat /\ r * Cols \in Nat
  BY Sizes
<1> HIDE DEF t, s, p
<1>6. ASSUME NEW q \in 0 .. Rows - 1, NEW j \in 0 .. Cols - 1, t = Picture(q, j, after),
             q * Cols + j = p + 1
      PROVE  /\ Sound(t) /\ Place(t) = p + 1
             /\ \A n \in Int : CellBefore(t, n) = Shows(after, (p + 1) - n)
  <2>1. DOMAIN after = Grid
    BY <1>3
  <2>2. Sound(t)
    BY <1>6, <2>1, SoundPlace
  <2>3. Place(t) = p + 1
    BY <1>6, <2>1, SoundPlace
  <2>4. \A n \in Int : CellBefore(t, n) = Shows(after, (q * Cols + j) - n)
    BY <1>6, <2>1, SoundPlace
  <2>5. ASSUME NEW n \in Int PROVE CellBefore(t, n) = Shows(after, (p + 1) - n)
    <3>1. CellBefore(t, n) = Shows(after, (q * Cols + j) - n)
      BY <2>4
    <3> QED
      BY <1>6, <3>1, Zenon
  <2> QED
    BY <2>2, <2>3, <2>5
<1>7. ASSUME Place(t) = p + 1, Sound(t),
             \A n \in Int : CellBefore(t, n) = Shows(after, (p + 1) - n)
      PROVE  /\ CellBefore(t, 1) = g
             /\ len <= p => /\ len + 1 <= Place(t)
                            /\ \A n \in 1 .. len + 1 : CellBefore(t, n + 1) = CellBefore(s, n)
  <2>1. (p + 1) - 1 = p /\ p \in Int
    BY <1>2
  <2>2. CellBefore(t, 1) = g
    BY <1>3, <1>7, <2>1
  <2>3. ASSUME NEW n \in 1 .. len + 1 PROVE CellBefore(t, n + 1) = CellBefore(s, n)
    <3>1. (p + 1) - (n + 1) = p - n /\ p - n \in Int /\ p - n # p /\ p - n < Rows * Cols /\ n \in Int /\ n + 1 \in Int
      BY <1>2, Sizes
    <3>2. CellBefore(t, n + 1) = Shows(after, p - n)
      BY <1>7, <3>1
    <3>3. Shows(after, p - n) = Shows(cells, p - n)
      BY <1>3, <3>1
    <3> QED
      BY <1>2, <3>1, <3>2, <3>3
  <2>4. len <= p => len + 1 <= p + 1
    BY <1>2
  <2> QED
    BY <1>7, <2>2, <2>3, <2>4
<1>8. CASE k + 1 < Cols
  <2>1. k + 1 \in 0 .. Cols - 1 /\ r * Cols + (k + 1) = p + 1
    BY <1>5, <1>8, Sizes DEF p
  <2>2. t = Picture(r, k + 1, after)
    BY <1>4, <1>8
  <2>3. /\ Sound(t) /\ Place(t) = p + 1
        /\ \A n \in Int : CellBefore(t, n) = Shows(after, (p + 1) - n)
    BY <1>6, <2>1, <2>2
  <2> QED
    BY <1>2, <1>7, <2>3 DEF t, s
<1>9. CASE ~ (k + 1 < Cols) /\ r + 1 < Rows
  <2>1. r + 1 \in 0 .. Rows - 1 /\ 0 \in 0 .. Cols - 1 /\ (r + 1) * Cols + 0 = p + 1
    <3>1. k = Cols - 1
      BY <1>9, Sizes
    <3> QED
      BY <1>5, <1>9, <3>1, Sizes DEF p
  <2>2. t = Picture(r + 1, 0, after)
    BY <1>4, <1>9
  <2>3. /\ Sound(t) /\ Place(t) = p + 1
        /\ \A n \in Int : CellBefore(t, n) = Shows(after, (p + 1) - n)
    BY <1>6, <2>1, <2>2
  <2> QED
    BY <1>2, <1>7, <2>3 DEF t, s
<1>10. CASE ~ (k + 1 < Cols) /\ ~ (r + 1 < Rows)
  <2> DEFINE top == (Rows - 1) * Cols
  <2>0. Rows * Cols = top + Cols /\ top \in Nat /\ top >= TTY_LINE_BUFFER_SIZE
    BY Sizes
  <2>1. r = Rows - 1 /\ k = Cols - 1
    BY <1>10, Sizes
  <2>2. p = top + Cols - 1
    BY <2>1, Sizes DEF p
  <2>3. t = Picture(Rows - 1, 0, Scrolled(after))
    BY <1>4, <1>10
  <2>4. Rows - 1 \in 0 .. Rows - 1 /\ 0 \in 0 .. Cols - 1 /\ DOMAIN Scrolled(after) = Grid
    BY Sizes DEF Scrolled
  <2>5. /\ Sound(t) /\ Place(t) = top + 0
        /\ \A n \in Int : CellBefore(t, n) = Shows(Scrolled(after), (top + 0) - n)
    BY <2>3, <2>4, SoundPlace
  <2> HIDE DEF top
  <2>6. ASSUME NEW n \in 1 .. len + 2
        PROVE  CellBefore(t, n) = Shows(after, (p + 1) - n)
    <3>1. n \in Int /\ (top + 0) - n = top - n /\ top - n \in Nat /\ top - n < top
          /\ (top - n) + Cols = (p + 1) - n
      BY <2>0, <2>2, TtyAssumption, Sizes
    <3>2. Shows(Scrolled(after), top - n) = Shows(after, (top - n) + Cols)
      BY <3>1, ScrollCells DEF top
    <3>3. CellBefore(t, n) = Shows(Scrolled(after), top - n)
      BY <2>5, <3>1
    <3> QED
      BY <3>1, <3>2, <3>3
  <2>7. CellBefore(t, 1) = g
    <3>1. (p + 1) - 1 = p /\ 1 \in 1 .. len + 2
      BY <1>2
    <3> QED
      BY <1>3, <2>6, <3>1
  <2>8. ASSUME NEW n \in 1 .. len + 1 PROVE CellBefore(t, n + 1) = CellBefore(s, n)
    <3>1. /\ (p + 1) - (n + 1) = p - n /\ p - n \in Int /\ p - n # p /\ p - n < Rows * Cols
          /\ n \in Int /\ n + 1 \in 1 .. len + 2
      BY <1>2, Sizes
    <3>2. CellBefore(t, n + 1) = Shows(after, p - n)
      BY <2>6, <3>1
    <3>3. Shows(after, p - n) = Shows(cells, p - n)
      BY <1>3, <3>1
    <3> QED
      BY <1>2, <3>1, <3>2, <3>3
  <2>9. len + 1 <= Place(t)
    BY <2>0, <2>5, TtyAssumption
  <2> QED
    BY <1>2, <2>5, <2>7, <2>8, <2>9 DEF t, s
<1> QED
  BY <1>8, <1>9, <1>10

LEMMA PutShifts ==
    ASSUME NEW s, Sound(s), NEW g, NEW len \in Nat, len + 1 < TTY_LINE_BUFFER_SIZE
    PROVE  LET t == Scr!raw_put_visible(s, g)
           IN  /\ Sound(t)
               /\ CellBefore(t, 1) = g
               /\ len <= Place(s) => /\ len + 1 <= Place(t)
                                     /\ \A n \in 1 .. len + 1 :
                                            CellBefore(t, n + 1) = CellBefore(s, n)
<1>1. PICK r, k, cells : /\ r \in 0 .. Rows - 1 /\ k \in 0 .. Cols - 1
                         /\ DOMAIN cells = Grid /\ s = Picture(r, k, cells)
  BY Zenon DEF Sound
<1> QED
  BY <1>1, PutShiftsPicture
-----------------------------------------------------------------------------
LEMMA PutSound ==
    ASSUME NEW s, Sound(s), NEW g
    PROVE  Sound(Scr!raw_put_visible(s, g))
<1>1. 0 \in Nat /\ 0 + 1 < TTY_LINE_BUFFER_SIZE
  BY TtyAssumption
<1> QED
  BY <1>1, PutShifts

LEMMA NewlineSound ==
    ASSUME NEW s, Sound(s)
    PROVE  Sound(Scr!raw_newline(s))
<1>1. PICK r, k, cells : /\ r \in 0 .. Rows - 1 /\ k \in 0 .. Cols - 1
                         /\ DOMAIN cells = Grid /\ s = Picture(r, k, cells)
  BY Zenon DEF Sound
<1>2. s.row = r
  BY <1>1 DEF Picture
<1>3. Scr!raw_newline(s) = Scr!scroll_if_needed(Moved(s, 0, r + 1))
  BY <1>2 DEF Scr!raw_newline, Moved
<1>4. Moved(s, 0, r + 1) = Picture(r + 1, 0, cells)
  BY <1>1, PictureMoves
<1>5. r + 1 \in 0 .. Rows /\ 0 \in 0 .. Cols - 1 /\ Rows - 1 \in 0 .. Rows - 1
  BY <1>1, Sizes
<1>6. Scr!scroll_if_needed(Picture(r + 1, 0, cells)) =
          IF r + 1 < Rows THEN Picture(r + 1, 0, cells)
          ELSE Picture(Rows - 1, 0, Scrolled(cells))
  BY <1>5, ScrollPicture
<1>7. DOMAIN Scrolled(cells) = Grid
  BY DEF Scrolled
<1>8. r + 1 < Rows => r + 1 \in 0 .. Rows - 1
  BY <1>5, Sizes
<1>9. /\ r + 1 < Rows => Sound(Picture(r + 1, 0, cells))
      /\ Sound(Picture(Rows - 1, 0, Scrolled(cells)))
  BY <1>1, <1>5, <1>7, <1>8, SoundPlace
<1> QED
  BY <1>3, <1>4, <1>6, <1>9

LEMMA TabSound ==
    ASSUME NEW s, Sound(s)
    PROVE  Sound(Scr!PutTab(s))
<1> DEFINE one == Scr!raw_put_visible(s, Scr!Blank)
           two == Scr!raw_put_visible(one, Scr!Blank)
           three == Scr!raw_put_visible(two, Scr!Blank)
           four == Scr!raw_put_visible(three, Scr!Blank)
<1>1. Scr!PutTab(s) \in {one, two, three, four}
  BY DEF Scr!PutTab
<1>2. Sound(one)
  BY PutSound
<1> HIDE DEF one
<1>3. Sound(two)
  BY <1>2, PutSound
<1> HIDE DEF two
<1>4. Sound(three)
  BY <1>3, PutSound
<1> HIDE DEF three
<1>5. Sound(four)
  BY <1>4, PutSound
<1> HIDE DEF four
<1> QED
  BY <1>1, <1>2, <1>3, <1>4, <1>5

\* An erased character: the cells before it move one towards the cursor
\* (console.c:711-724).
LEMMA EraseShifts ==
    ASSUME NEW s, Sound(s)
    PROVE  /\ Sound(Scr!EraseBack(s))
           /\ Place(s) \in Nat
           /\ Place(s) > 0 =>
                  /\ Place(Scr!EraseBack(s)) = Place(s) - 1
                  /\ \A n \in Nat \ {0} :
                         CellBefore(Scr!EraseBack(s), n) = CellBefore(s, n + 1)
<1>1. PICK r, k, cells : /\ r \in 0 .. Rows - 1 /\ k \in 0 .. Cols - 1
                         /\ DOMAIN cells = Grid /\ s = Picture(r, k, cells)
  BY Zenon DEF Sound
<1> DEFINE p == r * Cols + k
           back == Scr!StepBack(s)
           t == Scr!EraseBack(s)
<1>a. /\ s.row = r /\ s.col = k /\ s.cols = Cols
  BY <1>1 DEF Picture
<1>b. r \in Nat /\ k \in Nat /\ r * Cols \in Nat /\ r \in 0 .. Rows - 1 /\ k \in 0 .. Cols - 1
  BY <1>1, Sizes
<1>2. p \in 0 .. Rows * Cols - 1
  BY <1>1, SoundPlace
<1>c. Place(s) = p
  BY <1>1, SoundPlace
<1>d. \A n \in Int : CellBefore(s, n) = Shows(cells, p - n)
  BY <1>1, SoundPlace
<1>3. CASE r = 0 /\ k = 0
  <2>1. t = s
    BY <1>a, <1>3 DEF Scr!EraseBack
  <2>2. p = 0
    BY <1>3, Sizes
  <2> QED
    BY <1>2, <1>c, <2>1, <2>2
<1>4. CASE ~ (r = 0 /\ k = 0)
  <2>1. PICK q \in 0 .. Rows - 1, j \in 0 .. Cols - 1 :
            back = Picture(q, j, cells) /\ q * Cols + j = p - 1
    <3>1. CASE k = 0
      <4>1. back = MovedBack(s, r - 1, Cols - 1)
        BY <1>a, <3>1 DEF Scr!StepBack, MovedBack
      <4>2. back = Picture(r - 1, Cols - 1, cells)
        BY <1>1, <4>1, PictureMoves
      <4>3. r - 1 \in 0 .. Rows - 1 /\ Cols - 1 \in 0 .. Cols - 1
        BY <1>b, <1>4, <3>1, Sizes
      <4>4. (r - 1) * Cols + (Cols - 1) = p - 1
        BY <1>b, <3>1, Sizes
      <4> HIDE DEF back, p
      <4> QED
        BY <4>2, <4>3, <4>4
    <3>2. CASE k # 0
      <4>1. back = [s EXCEPT !.col = k - 1]
        BY <1>a, <3>2 DEF Scr!StepBack
      <4>2. back = Picture(r, k - 1, cells)
        BY <1>1, <4>1 DEF Picture
      <4>3. k - 1 \in 0 .. Cols - 1
        BY <1>b, <3>2, Sizes
      <4>4. r * Cols + (k - 1) = p - 1
        BY <1>b
      <4> HIDE DEF back, p
      <4> QED
        BY <1>b, <4>2, <4>3, <4>4
    <3> QED
      BY <3>1, <3>2
  <2>2. back.row = q /\ back.col = j
    <3> HIDE DEF back
    <3> QED
      BY <2>1 DEF Picture
  <2> DEFINE after == Written(cells, q, j, Scr!Blank)
  <2>3. t = Picture(q, j, after)
    <3>1. t = [back EXCEPT !.cells[<<q, j>>] = Scr!Blank]
      BY <1>a, <1>4, <2>2 DEF Scr!EraseBack
    <3> HIDE DEF back, t
    <3> QED
      BY <2>1, <3>1 DEF Picture, Written
  <2> HIDE DEF t, back
  <2>4. p - 1 \in Int /\ p - 1 < Rows * Cols
    BY <1>2, Sizes
  <2>5. DOMAIN after = Grid
    BY <1>1, <2>4, WriteCell
  <2>6. ASSUME NEW n \in Int, n < Rows * Cols, n # p - 1 PROVE Shows(after, n) = Shows(cells, n)
    BY <1>1, <2>1, <2>6, WriteCell
  <2> HIDE DEF after
  <2>7. Sound(t)
    BY <2>3, <2>5, SoundPlace
  <2>8. Place(t) = p - 1
    BY <2>1, <2>3, <2>5, SoundPlace
  <2>9. \A n \in Int : CellBefore(t, n) = Shows(after, (q * Cols + j) - n)
    BY <2>3, <2>5, SoundPlace
  <2>10. ASSUME NEW n \in Nat \ {0} PROVE CellBefore(t, n) = CellBefore(s, n + 1)
    <3>1. CellBefore(t, n) = Shows(after, (p - 1) - n)
      <4>1. n \in Int
        OBVIOUS
      <4> QED
        BY <2>1, <2>9, <4>1, Zenon
    <3>2. /\ (p - 1) - n = p - (n + 1) /\ p - (n + 1) \in Int /\ p - (n + 1) < Rows * Cols
          /\ p - (n + 1) # p - 1 /\ n + 1 \in Int
      BY <1>2, Sizes
    <3> HIDE DEF p
    <3>3. Shows(after, p - (n + 1)) = Shows(cells, p - (n + 1))
      BY <2>6, <3>2
    <3>4. CellBefore(s, n + 1) = Shows(cells, p - (n + 1))
      BY <1>d, <3>2
    <3> QED
      BY <3>1, <3>2, <3>3, <3>4
  <2> QED
    BY <1>2, <1>c, <2>7, <2>8, <2>10 DEF t
<1> QED
  BY <1>3, <1>4

\* Any byte, and any text (console.c:481-599).
LEMMA PutByteSound ==
    ASSUME NEW s, Sound(s), NEW b
    PROVE  Sound(Scr!PutByte(s, b))
<1>1. Sound([s EXCEPT !.col = 0])
  <2>1. PICK r, k, cells : /\ r \in 0 .. Rows - 1 /\ k \in 0 .. Cols - 1
                           /\ DOMAIN cells = Grid /\ s = Picture(r, k, cells)
    BY Zenon DEF Sound
  <2>2. [s EXCEPT !.col = 0] = Picture(r, 0, cells) /\ 0 \in 0 .. Cols - 1
    BY <2>1, Sizes DEF Picture
  <2> QED
    BY <2>1, <2>2, SoundPlace
<1>2. Sound(Scr!raw_newline(s))
  BY NewlineSound
<1>3. Sound(Scr!EraseBack(s))
  BY EraseShifts
<1>4. Sound(Scr!PutTab(s))
  BY TabSound
<1>5. Sound(Scr!raw_put_visible(s, Glyph(b)))
  BY PutSound
<1> QED
  BY <1>1, <1>2, <1>3, <1>4, <1>5 DEF Scr!PutByte

LEMMA Least ==
    ASSUME NEW T, T \subseteq Nat, T # {}
    PROVE  \E x \in T : \A y \in T : x <= y
<1>1. PICK x \in T : \A y \in T : ~ (<<y, x>> \in OpToRel(<, Nat))
  BY NatLessThanWellFounded, WFMin
<1>2. \A y \in Nat : y < x => <<y, x>> \in OpToRel(<, Nat)
  BY Zenon DEF OpToRel
<1>3. \A y \in T : ~ (y < x)
  BY <1>1, <1>2, Zenon
<1> QED
  BY <1>3

\* A set of numbers that has 0, and has n when it has n - 1, has them all.
LEMMA Climb ==
    ASSUME NEW good, 0 \in good, \A m \in Nat \ {0} : m - 1 \in good => m \in good
    PROVE  Nat \subseteq good
<1> SUFFICES ASSUME Nat \ good # {} PROVE FALSE
  OBVIOUS
<1> DEFINE T == Nat \ good
<1>1. T \subseteq Nat
  OBVIOUS
<1> HIDE DEF T
<1>2. PICK m \in T : \A y \in T : m <= y
  BY <1>1, Least DEF T
<1>3. m \in Nat \ {0} /\ m \notin good
  BY <1>2 DEF T
<1>4. m - 1 \in Nat /\ ~ (m <= m - 1)
  BY <1>3
<1>5. m - 1 \notin T
  BY <1>2, <1>4
<1>6. m - 1 \in good
  BY <1>4, <1>5 DEF T
<1> QED
  BY <1>3, <1>6

\* console_write, byte by byte (console.c:755-757).
LEMMA WriteLoop ==
    ASSUME NEW s, NEW S, NEW text \in Seq(S)
    PROVE  \E after : /\ after[0] = s
                      /\ \A i \in 1 .. Len(text) : after[i] = Scr!PutByte(after[i - 1], text[i])
                      /\ console_write(s, text) = after[Len(text)]
<1> DEFINE Turn(a, i) == IF i = 0 THEN s ELSE Scr!PutByte(a[i - 1], text[i])
           Turns(a, m) == [i \in 0 .. m |-> Turn(a, i)]
           good == {m \in Nat : \E a : a = Turns(a, m)}
<1>1. 0 \in good
  <2> DEFINE a == [i \in 0 .. 0 |-> s]
  <2>1. a = Turns(a, 0)
    OBVIOUS
  <2> QED
    BY <2>1
<1>2. ASSUME NEW m \in Nat \ {0}, m - 1 \in good PROVE m \in good
  <2>1. PICK a : a = Turns(a, m - 1)
    BY <1>2
  <2> DEFINE b == [i \in 0 .. m |-> IF i = m THEN Turn(a, m) ELSE a[i]]
  <2>2. ASSUME NEW i \in 0 .. m PROVE b[i] = Turn(b, i)
    <3>1. CASE i = m
      <4>1. b[m - 1] = a[m - 1]
        OBVIOUS
      <4> QED
        BY <3>1, <4>1
    <3>2. CASE i # m
      <4>1. b[i] = a[i] /\ (i # 0 => b[i - 1] = a[i - 1])
        BY <3>2
      <4>2. a[i] = Turn(a, i)
        BY <2>1, <3>2
      <4> QED
        BY <4>1, <4>2
    <3> QED
      BY <3>1, <3>2
  <2>3. b = Turns(b, m)
    BY <2>2
  <2> QED
    BY <2>3
<1>3. Len(text) \in good
  <2> HIDE DEF good
  <2>1. Len(text) \in Nat
    OBVIOUS
  <2> QED
    BY <1>1, <1>2, <2>1, Climb
<1>4. PICK any : any = Turns(any, Len(text))
  BY <1>3
<1> DEFINE after == CHOOSE a : a = Turns(a, Len(text))
<1>5. after = Turns(after, Len(text))
  BY <1>4, Zenon
<1>6. console_write(s, text) = after[Len(text)]
  BY Zenon DEF console_write
<1> HIDE DEF after
<1>7. /\ after[0] = s
      /\ \A i \in 1 .. Len(text) : after[i] = Scr!PutByte(after[i - 1], text[i])
  BY <1>5
<1> QED
  BY <1>6, <1>7, Zenon

LEMMA WriteSound ==
    ASSUME NEW s, Sound(s), NEW S, NEW text \in Seq(S)
    PROVE  Sound(console_write(s, text))
<1>1. PICK after : /\ after[0] = s
                   /\ \A i \in 1 .. Len(text) : after[i] = Scr!PutByte(after[i - 1], text[i])
                   /\ console_write(s, text) = after[Len(text)]
  BY WriteLoop
<1> DEFINE good == {m \in Nat : m \in 0 .. Len(text) => Sound(after[m])}
<1>2. 0 \in good
  BY <1>1
<1>3. ASSUME NEW m \in Nat \ {0}, m - 1 \in good PROVE m \in good
  <2>1. SUFFICES ASSUME m \in 0 .. Len(text) PROVE Sound(after[m])
    OBVIOUS
  <2>2. m - 1 \in 0 .. Len(text) /\ m \in 1 .. Len(text)
    BY <2>1
  <2>3. Sound(after[m - 1])
    BY <1>3, <2>2
  <2>4. Sound(Scr!PutByte(after[m - 1], text[m]))
    BY <2>3, PutByteSound
  <2> QED
    BY <1>1, <2>2, <2>4
<1>4. Len(text) \in good
  <2> HIDE DEF good
  <2>1. Len(text) \in Nat
    OBVIOUS
  <2> QED
    BY <1>2, <1>3, <2>1, Climb
<1> QED
  BY <1>1, <1>4
-----------------------------------------------------------------------------
\* The line is on the screen, before the cursor and behind the cell m.
Lined(s, line, m) ==
    /\ Len(line) <= Place(s)
    /\ \A k \in 1 .. Len(line) : CellBefore(s, Len(line) + 1 - k) = line[k]
    /\ CellBefore(s, Len(line) + 1) = m

LEMMA EmptyIsLined ==
    ASSUME NEW s, Sound(s)
    PROVE  Lined(s, <<>>, CellBefore(s, 1))
<1>1. Place(s) \in Nat
  BY EraseShifts
<1> QED
  BY <1>1 DEF Lined

LEMMA PutIsLined ==
    ASSUME NEW s, Sound(s), NEW line \in Seq(Octet), NEW m, Lined(s, line, m), NEW b \in Octet,
           Len(line) + 1 < TTY_LINE_BUFFER_SIZE
    PROVE  Lined(Scr!raw_put_visible(s, b), Append(line, b), m)
<1> DEFINE t == Scr!raw_put_visible(s, b)
           len == Len(line)
           after == Append(line, b)
<1>1. len \in Nat /\ len + 1 < TTY_LINE_BUFFER_SIZE /\ len <= Place(s)
  BY DEF Lined
<1>2. /\ CellBefore(t, 1) = b
      /\ len + 1 <= Place(t)
      /\ \A n \in 1 .. len + 1 : CellBefore(t, n + 1) = CellBefore(s, n)
  BY <1>1, PutShifts
<1> HIDE DEF t
<1>3. Len(after) = len + 1 /\ after[len + 1] = b /\ \A k \in 1 .. len : after[k] = line[k]
  BY AppendProperties
<1>4. ASSUME NEW k \in 1 .. len + 1 PROVE CellBefore(t, len + 1 + 1 - k) = after[k]
  <2>1. CASE k = len + 1
    <3>1. len + 1 + 1 - k = 1
      BY <1>1, <2>1
    <3> QED
      BY <1>2, <1>3, <2>1, <3>1
  <2>2. CASE k # len + 1
    <3>1. k \in 1 .. len /\ len + 1 - k \in 1 .. len + 1 /\ len + 1 + 1 - k = (len + 1 - k) + 1
      BY <1>1, <2>2
    <3>2. CellBefore(s, len + 1 - k) = line[k]
      BY <3>1 DEF Lined
    <3> QED
      BY <1>2, <1>3, <3>1, <3>2
  <2> QED
    BY <2>1, <2>2
<1>5. CellBefore(t, len + 1 + 1) = m
  <2>1. len + 1 \in 1 .. len + 1
    BY <1>1
  <2> QED
    BY <1>2, <2>1 DEF Lined
<1> HIDE DEF after
<1>6. Lined(t, after, m)
  BY <1>2, <1>3, <1>4, <1>5 DEF Lined
<1> QED
  BY <1>6 DEF t, after

LEMMA EraseIsLined ==
    ASSUME NEW s, Sound(s), NEW line \in Seq(Octet), line # <<>>, NEW m, Lined(s, line, m)
    PROVE  Lined(Scr!EraseBack(s), SubSeq(line, 1, Len(line) - 1), m)
<1> DEFINE t == Scr!EraseBack(s)
           len == Len(line)
           after == SubSeq(line, 1, len - 1)
<1>1. len \in Nat /\ len >= 1 /\ len <= Place(s) /\ Place(s) \in Nat
  BY EraseShifts DEF Lined
<1>2. /\ Place(t) = Place(s) - 1
      /\ \A n \in Nat \ {0} : CellBefore(t, n) = CellBefore(s, n + 1)
  BY <1>1, EraseShifts
<1> HIDE DEF t
<1>3. Len(after) = len - 1 /\ \A k \in 1 .. len - 1 : after[k] = line[k]
  <2>0. len - 1 \in Nat /\ len - 1 \in 0 .. len
    BY <1>1
  <2>1. PICK n : n = len - 1 /\ n \in Nat /\ n \in 0 .. len
    BY <2>0
  <2>2. \A i \in 1 .. n : line[i] \in Octet
    BY <2>1
  <2>3. Len(SubSeq(line, 1, n)) = n /\ \A k \in 1 .. n : SubSeq(line, 1, n)[k] = line[k]
    BY <2>1, <2>2, SubSeqProperties
  <2> QED
    BY <2>1, <2>3
<1> HIDE DEF after
<1>4. ASSUME NEW k \in 1 .. len - 1 PROVE CellBefore(t, (len - 1) + 1 - k) = after[k]
  <2>1. /\ k \in 1 .. len /\ (len - 1) + 1 - k \in Nat \ {0}
        /\ ((len - 1) + 1 - k) + 1 = len + 1 - k
    BY <1>1
  <2>2. CellBefore(s, len + 1 - k) = line[k]
    BY <2>1 DEF Lined
  <2> QED
    BY <1>2, <1>3, <2>1, <2>2
<1>5. CellBefore(t, (len - 1) + 1) = m
  <2>1. (len - 1) + 1 \in Nat \ {0} /\ ((len - 1) + 1) + 1 = len + 1
    BY <1>1
  <2> QED
    BY <1>2, <2>1 DEF Lined
<1>6. len - 1 <= Place(t)
  BY <1>1, <1>2
<1>7. Lined(t, after, m)
  BY <1>3, <1>4, <1>5, <1>6 DEF Lined
<1> QED
  BY <1>7 DEF t, after
-----------------------------------------------------------------------------
PathInv == QueuesInv /\ LineInv /\ SelftestInv /\ RouteInv
ScreenInv == Sound(screen) /\ (intact => Lined(screen, tty_line, margin))

\* Every step with its output is a step of the input path.
LEMMA EchoIsInput ==
    ASSUME [EchoNext]_echoVars
    PROVE  [InputNext]_inputVars
<1>1. CASE ShownMainLoop
  BY <1>1 DEF ShownMainLoop, InputNext, MainLoop
<1>2. CASE (\E s \in Stroke : Strike(s)) \/ TimerTick
  BY <1>2 DEF InputNext
<1>3. CASE UNCHANGED echoVars
  BY <1>3 DEF echoVars
<1> QED
  BY <1>1, <1>2, <1>3 DEF EchoNext

LEMMA PathStep ==
    ASSUME PathInv, [InputNext]_inputVars
    PROVE  PathInv'
  BY StepKeepsQueues, StepKeepsLine, StepKeepsSelftest, StepKeepsRoute DEF PathInv

LEMMA PathAtBoot == InputInit => PathInv
<1> SUFFICES ASSUME InputInit PROVE PathInv
  OBVIOUS
<1>1. LineInv
  BY ShellAssumption DEF InputInit, LineInv
<1>2. SelftestInv
  BY DEF InputInit, BootInit, TtyAttachedInit, SelftestInv
<1> QED
  BY <1>1, <1>2, QueuesAtBoot, RouteAtBoot DEF PathInv

\* The tty's line after a byte (tty.c:62-168).
LineAfter(b) ==
    IF Escaping(b) THEN tty_line
    ELSE IF b \in {CtrlC, Newline, CtrlD} THEN <<>>
    ELSE IF b \in {Backspace, Del}
         THEN IF tty_line = <<>> THEN tty_line ELSE SubSeq(tty_line, 1, Len(tty_line) - 1)
    ELSE IF tty_is_printable(b) /\ ~ LineFull THEN Append(tty_line, b)
    ELSE tty_line

LEMMA LineIs ==
    ASSUME tty_canonical, NEW b \in Octet, HandleByte(b)
    PROVE  tty_line' = LineAfter(b)
<1> USE DEF CtrlC, CtrlD, CtrlL, Backspace, Newline, Del, Octet, tty_is_printable
<1>1. CASE DiscardEscape(b)
  BY <1>1 DEF DiscardEscape, LineAfter
<1>2. CASE ~ Escaping(b) /\ (Interrupt(b) \/ EndLine(b) \/ EndOfFile(b))
  BY <1>2 DEF Interrupt, EndLine, EndOfFile, LineAfter
<1>3. CASE ~ Escaping(b) /\ (Redraw(b) \/ Ignore(b))
  BY <1>3 DEF Redraw, Ignore, LineAfter
<1>4. CASE ~ Escaping(b) /\ Erase(b)
  BY <1>4 DEF Erase, LineAfter
<1>5. CASE ~ Escaping(b) /\ (Refuse(b) \/ Insert(b))
  BY <1>5 DEF Refuse, Insert, LineAfter
<1> QED
  BY <1>1, <1>2, <1>3, <1>4, <1>5
     DEF HandleByte, tty_handle_canonical, tty_handle_noncanonical, Edit
-----------------------------------------------------------------------------
\* A step that leaves the line and the screen alone, one that starts a line,
\* and output of the shell.
LEMMA Unmoved ==
    ASSUME ScreenInv, screen' = screen, tty_line' = tty_line, NEW other, other = FALSE,
           Watch(other)
    PROVE  ScreenInv'
<1>1. CASE tty_line = <<>> /\ ~ intact
  <2>1. tty_line' = <<>> /\ margin' = CellBefore(screen', 1) /\ Sound(screen')
    BY <1>1 DEF Watch, ScreenInv
  <2>2. Lined(screen, <<>>, CellBefore(screen, 1))
    BY EmptyIsLined DEF ScreenInv
  <2>3. Lined(screen', tty_line', margin')
    BY <2>1, <2>2, Zenon
  <2> QED
    BY <2>1, <2>3 DEF ScreenInv
<1>2. CASE ~ (tty_line = <<>> /\ ~ intact)
  <2>1. intact' => intact
    BY <1>2 DEF Watch
  <2>2. margin' = margin
    BY <1>2 DEF Watch
  <2> QED
    BY <2>1, <2>2 DEF ScreenInv
<1> QED
  BY <1>1, <1>2

LEMMA Started ==
    ASSUME Sound(screen'), tty_line' = <<>>, margin' = CellBefore(screen', 1)
    PROVE  ScreenInv'
<1>1. PICK s : s = screen'
  BY Zenon
<1>2. Lined(s, <<>>, CellBefore(s, 1))
  BY <1>1, EmptyIsLined
<1>3. Lined(screen', tty_line', margin')
  BY <1>1, <1>2, Zenon
<1> QED
  BY <1>3 DEF ScreenInv

LEMMA ShowKeeps ==
    ASSUME ScreenInv, tty_line' = tty_line, NEW s, Sound(s), Show(s)
    PROVE  ScreenInv'
<1>1. screen' = s /\ Watch(s # screen)
  BY DEF Show
<1>2. CASE s = screen
  BY <1>1, <1>2, Unmoved
<1>3. CASE s # screen /\ tty_line = <<>>
  <2>1. tty_line' = <<>> /\ margin' = CellBefore(screen', 1) /\ Sound(screen')
    BY <1>1, <1>3 DEF Watch
  <2> QED
    BY <2>1, Started
<1>4. CASE s # screen /\ tty_line # <<>>
  <2>1. ~ intact'
    BY <1>1, <1>4 DEF Watch
  <2> QED
    BY <1>1, <2>1 DEF ScreenInv
<1> QED
  BY <1>2, <1>3, <1>4

\* A byte through the tty, with its echo (tty.c:99-168).
LEMMA EchoKeeps ==
    ASSUME ScreenInv, QueuesInv, tty_canonical, NEW b \in KeyByte, HandleByte(b), EchoByte(b)
    PROVE  ScreenInv'
<1> DEFINE other == ~ Escaping(b) /\ b \in {CtrlC, CtrlD, Newline, 9}
<1>a. b \in Octet
  BY DEF KeyByte, Octet
<1>b. tty_line' = LineAfter(b)
  BY <1>a, LineIs
<1>c. screen' = Echoed(screen, b) /\ Watch(other)
  BY DEF EchoByte
<1>d. /\ tty_line \in Seq(Octet) /\ Len(tty_line) \in Nat
      /\ TTY_LINE_BUFFER_SIZE \in Nat /\ TTY_LINE_BUFFER_SIZE >= 2
  BY TtyAssumption DEF QueuesInv, TypeOK, TtyTypeOK
<1>s. Sound(screen)
  BY DEF ScreenInv
<1> HIDE DEF other
<1>1. CASE /\ screen' = screen /\ tty_line' = tty_line /\ other = FALSE
  BY <1>1, <1>c, Unmoved
<1>2. CASE /\ tty_line' = <<>> /\ other /\ Sound(screen')
  <2>1. margin' = CellBefore(screen', 1)
    BY <1>2, <1>c DEF Watch
  <2> QED
    BY <1>2, <2>1, Started
<1>3. CASE /\ ~ intact' /\ Sound(screen')
  BY <1>3 DEF ScreenInv
<1>4. CASE Escaping(b)
  <2>1. screen' = screen /\ tty_line' = tty_line /\ other = FALSE
    BY <1>4, <1>b, <1>c DEF Echoed, LineAfter, other
  <2> QED
    BY <1>1, <2>1
<1> USE DEF CtrlC, CtrlD, CtrlL, Backspace, Newline, Del, KeyByte
<1>5. CASE ~ Escaping(b) /\ b \in {CtrlC, CtrlD, Newline}
  <2>1. tty_line' = <<>> /\ other
    BY <1>5, <1>b DEF LineAfter, other
  <2>2. \/ screen' = console_write(screen, <<94, 67, Newline>>)
        \/ screen' = Scr!PutByte(screen, b)
        \/ screen' = screen
    BY <1>5, <1>c DEF Echoed, tty_is_printable
  <2>3. <<94, 67, Newline>> \in Seq(Octet)
    BY DEF Octet
  <2>4. Sound(console_write(screen, <<94, 67, Newline>>))
    BY <1>s, <2>3, WriteSound
  <2>5. Sound(screen')
    BY <1>s, <2>2, <2>4, PutByteSound
  <2> QED
    BY <1>2, <2>1, <2>5
<1>6. CASE ~ Escaping(b) /\ b \in {Backspace, Del}
  <2>0. other = FALSE
    BY <1>6 DEF other
  <2>1. CASE tty_line = <<>>
    <3>1. screen' = screen /\ tty_line' = tty_line
      BY <1>6, <1>b, <1>c, <2>1 DEF Echoed, LineAfter, tty_is_printable
    <3> QED
      BY <1>1, <2>0, <3>1
  <2>2. CASE tty_line # <<>>
    <3>1. screen' = Scr!EraseBack(screen)
      BY <1>6, <1>c, <2>2 DEF Echoed, tty_is_printable
    <3>2. tty_line' = SubSeq(tty_line, 1, Len(tty_line) - 1)
      BY <1>6, <1>b, <2>2 DEF LineAfter
    <3>3. Sound(screen')
      BY <1>s, <3>1, EraseShifts
    <3>4. CASE intact
      <4>1. Lined(Scr!EraseBack(screen), SubSeq(tty_line, 1, Len(tty_line) - 1), margin)
        BY <1>s, <1>d, <2>2, <3>4, EraseIsLined DEF ScreenInv
      <4>2. margin' = margin
        BY <1>c, <2>0, <3>4 DEF Watch
      <4>3. Lined(screen', tty_line', margin')
        BY <3>1, <3>2, <4>1, <4>2, Zenon
      <4> QED
        BY <3>3, <4>3 DEF ScreenInv
    <3>5. CASE ~ intact /\ tty_line' = <<>>
      <4>1. margin' = CellBefore(screen', 1)
        BY <1>c, <3>5 DEF Watch
      <4> QED
        BY <3>3, <3>5, <4>1, Started
    <3>6. CASE ~ intact /\ tty_line' # <<>>
      <4>1. ~ intact'
        BY <1>c, <3>6 DEF Watch
      <4> QED
        BY <1>3, <3>3, <4>1
    <3> QED
      BY <3>4, <3>5, <3>6
  <2> QED
    BY <2>1, <2>2
<1>7. CASE ~ Escaping(b) /\ b = 9
  <2>0. other
    BY <1>7 DEF other
  <2>1. tty_line' # <<>>
    <3>1. CASE LineFull
      <4>1. tty_line' = tty_line
        BY <1>7, <1>b, <3>1 DEF LineAfter, tty_is_printable
      <4>2. Len(tty_line) # 0
        BY <1>d, <3>1 DEF LineFull
      <4> QED
        BY <1>d, <4>1, <4>2
    <3>2. CASE ~ LineFull
      <4>1. tty_line' = Append(tty_line, b)
        BY <1>7, <1>b, <3>2 DEF LineAfter, tty_is_printable
      <4>2. Append(tty_line, b) # <<>>
        BY <1>a, <1>d, AppendProperties
      <4> QED
        BY <4>1, <4>2
    <3> QED
      BY <3>1, <3>2
  <2>2. ~ intact'
    BY <1>c, <2>0, <2>1 DEF Watch
  <2>3. screen' = screen \/ screen' = Scr!PutByte(screen, b)
    BY <1>7, <1>c DEF Echoed, tty_is_printable
  <2>4. Sound(screen')
    BY <1>s, <2>3, PutByteSound
  <2> QED
    BY <1>3, <2>2, <2>4
<1>8. CASE ~ Escaping(b) /\ b >= 32 /\ b # Del /\ ~ LineFull
  <2>1. tty_line' = Append(tty_line, b)
    BY <1>8, <1>b DEF LineAfter, tty_is_printable
  <2>2. screen' = Scr!PutByte(screen, b)
    BY <1>8, <1>c DEF Echoed, tty_is_printable
  <2>3. Scr!PutByte(screen, b) = Scr!raw_put_visible(screen, b)
    <3>1. b \in 32 .. 127
      BY <1>8
    <3> QED
      BY <3>1 DEF Scr!PutByte, Glyph
  <2>4. Sound(screen')
    BY <1>s, <2>2, PutByteSound
  <2>5. other = FALSE
    BY <1>8 DEF other
  <2>6. tty_line' # <<>>
    BY <1>a, <1>d, <2>1, AppendProperties
  <2>7. CASE intact
    <3>1. Len(tty_line) + 1 < TTY_LINE_BUFFER_SIZE
      BY <1>8, <1>d DEF LineFull
    <3>2. Lined(Scr!raw_put_visible(screen, b), Append(tty_line, b), margin)
      BY <1>a, <1>s, <1>d, <2>7, <3>1, PutIsLined DEF ScreenInv
    <3>3. margin' = margin
      BY <1>c, <2>6 DEF Watch
    <3>4. Lined(screen', tty_line', margin')
      BY <2>1, <2>2, <2>3, <3>2, <3>3, Zenon
    <3> QED
      BY <2>4, <3>4 DEF ScreenInv
  <2>8. CASE ~ intact
    <3>1. ~ intact'
      BY <1>c, <2>6, <2>8 DEF Watch
    <3> QED
      BY <1>3, <2>4, <3>1
  <2> QED
    BY <2>7, <2>8
<1>9. CASE /\ ~ Escaping(b) /\ b \notin {CtrlC, CtrlD, Newline, Backspace, Del, 9}
           /\ b < 32 \/ LineFull
  <2>1. screen' = screen
    <3>1. /\ b # CtrlC /\ b \notin {Backspace, Del} /\ b # Newline
          /\ ~ (tty_is_printable(b) /\ b # Del /\ ~ LineFull)
      BY <1>9 DEF tty_is_printable
    <3> QED
      BY <1>9, <1>c, <3>1, Zenon DEF Echoed
  <2>2. tty_line' = tty_line
    BY <1>9, <1>b DEF LineAfter, tty_is_printable
  <2>3. other = FALSE
    BY <1>9 DEF other
  <2> QED
    BY <1>1, <2>1, <2>2, <2>3
<1> QED
  BY <1>4, <1>5, <1>6, <1>7, <1>8, <1>9
-----------------------------------------------------------------------------
LEMMA FreshSound == Sound(Scr!FreshScreen(Rows, Cols))
<1> DEFINE cells == [p \in Grid |-> Scr!Blank]
<1>1. Scr!FreshScreen(Rows, Cols) = Picture(0, 0, cells)
  BY DEF Scr!FreshScreen, Scr!Cells, Grid, Picture
<1>2. 0 \in 0 .. Rows - 1 /\ 0 \in 0 .. Cols - 1 /\ DOMAIN cells = Grid
  BY Sizes
<1> HIDE DEF cells
<1> QED
  BY <1>1, <1>2, SoundPlace

\* The buffer read as a string ends inside it (shell.c:330, 351).
LEMMA StringIsSeq ==
    ASSUME LineInv
    PROVE  \E S : ShellString \in Seq(S)
<1> DEFINE nul == {i \in 0 .. SHELL_LINE_MAX - 1 : shell_line[i] = 0}
           Stops(i) == shell_line[i] = 0 /\ \A j \in 0 .. i - 1 : shell_line[j] # 0
           end == CHOOSE i \in 0 .. SHELL_LINE_MAX - 1 : Stops(i)
<1>1. nul \subseteq Nat /\ nul # {}
  BY ShellAssumption DEF LineInv
<1>2. PICK first \in nul : \A i \in nul : first <= i
  <2> HIDE DEF nul
  <2> QED
    BY <1>1, Least
<1>3. first \in 0 .. SHELL_LINE_MAX - 1 /\ Stops(first)
  <2>1. ASSUME NEW j \in 0 .. first - 1, shell_line[j] = 0 PROVE FALSE
    <3>1. j \in nul /\ ~ (first <= j)
      BY <1>2, <2>1, ShellAssumption
    <3> QED
      BY <1>2, <3>1
  <2> QED
    BY <1>2, <2>1
<1>4. end \in 0 .. SHELL_LINE_MAX - 1
  <2> HIDE DEF Stops
  <2> QED
    BY <1>3, Zenon
<1>5. ShellString = [i \in 1 .. end |-> shell_line[i - 1]]
  BY Zenon DEF ShellString
<1> HIDE DEF end
<1> DEFINE S == {shell_line[i - 1] : i \in 1 .. end}
<1>6. end \in Nat
  BY <1>4, ShellAssumption
<1>7. [i \in 1 .. end |-> shell_line[i - 1]] \in [1 .. end -> S]
  OBVIOUS
<1> HIDE DEF S
<1>8. PICK f : f = [i \in 1 .. end |-> shell_line[i - 1]] /\ f \in [1 .. end -> S]
  BY <1>7
<1>9. f \in Seq(S)
  BY <1>6, <1>8
<1> QED
  BY <1>5, <1>8, <1>9, Zenon

\* What the shell prints leaves the cursor on the screen.
LEMMA PrintedSound ==
    ASSUME LineInv, NEW s, Sound(s), NEW c, NEW answer \in Answers
    PROVE  /\ Sound(Printed(s, c, answer))
           /\ Sound(console_write(s, Append(answer, Newline) \o Prompt))
<1>1. Prompt \in Seq(Octet) /\ answer \in Seq(Octet) /\ Newline \in Octet
  BY EchoAssumption DEF Newline, Octet
<1>2. Append(answer, Newline) \o Prompt \in Seq(Octet)
  BY <1>1, AppendProperties, ConcatProperties
<1>3. PICK S : ShellString \in Seq(S)
  BY StringIsSeq
<1>4. /\ Prompt \in Seq(Octet \cup S) /\ ShellString \in Seq(Octet \cup S)
      /\ <<>> \in Seq(Octet \cup S)
  BY <1>1, <1>3, SeqMonotonic
<1>5. /\ Prompt \o ShellString \in Seq(Octet \cup S)
      /\ Prompt \o <<>> \in Seq(Octet \cup S)
  BY <1>4, ConcatProperties
<1> DEFINE fresh == Scr!FreshScreen(Rows, Cols)
           line == Prompt \o (IF shell_len > 0 THEN ShellString ELSE <<>>)
<1>6. line \in Seq(Octet \cup S)
  BY <1>5
<1> HIDE DEF line
<1>7. Sound(fresh)
  BY FreshSound
<1> HIDE DEF fresh
<1>8. /\ Sound(console_write(s, Prompt))
      /\ Sound(console_write(fresh, line))
      /\ Sound(console_write(fresh, Prompt))
      /\ Sound(console_write(s, Append(answer, Newline) \o Prompt))
  BY <1>1, <1>2, <1>6, <1>7, WriteSound
<1>9. \/ Printed(s, c, answer) = console_write(s, Prompt)
      \/ Printed(s, c, answer) = console_write(fresh, line)
      \/ Printed(s, c, answer) = console_write(fresh, Prompt)
      \/ Printed(s, c, answer) = console_write(s, Append(answer, Newline) \o Prompt)
      \/ Printed(s, c, answer) = s
  BY DEF Printed, fresh, line
<1> QED
  BY <1>8, <1>9

\* Taking a byte and running it leaves the tty's line alone.
LEMMA StepKeepsScreen ==
    ASSUME PathInv, ScreenInv, [EchoNext]_echoVars
    PROVE  ScreenInv'
<1>q. QueuesInv /\ LineInv /\ tty_canonical /\ KbdInv /\ Sound(screen)
  BY DEF PathInv, SelftestInv, QueuesInv, ScreenInv
<1>u. ASSUME UNCHANGED <<screen, received, intact, margin>>, tty_line' = tty_line
      PROVE  ScreenInv'
  BY <1>u DEF ScreenInv
<1>t. ASSUME TakeChar PROVE tty_line' = tty_line
  BY <1>q, <1>t, TakeKeeps
<1>1. CASE PollByte /\ EchoByte(Head(kbd_bytes))
  <2>1. Head(kbd_bytes) \in KeyByte /\ HandleByte(Head(kbd_bytes))
    BY <1>1, <1>q, PopKeepsKbd DEF PollByte
  <2> QED
    BY <1>1, <1>q, <2>1, EchoKeeps
<1>2. CASE InjectByte /\ EchoByte(IF injected = SelftestLine - 1 THEN Newline ELSE 120)
  <2> DEFINE b == IF injected = SelftestLine - 1 THEN Newline ELSE 120
  <2>1. b \in KeyByte /\ HandleByte(b)
    BY <1>2 DEF InjectByte, KeyByte, Newline
  <2>2. EchoByte(b)
    BY <1>2
  <2> HIDE DEF b
  <2> QED
    BY <1>q, <2>1, <2>2, EchoKeeps
<1>3. ASSUME RunByte, NEW answer \in Answers, Show(Printed(screen, NextChar, answer))
      PROVE  ScreenInv'
  <2>1. Sound(Printed(screen, NextChar, answer))
    BY <1>q, PrintedSound
  <2>2. tty_line' = tty_line
    BY <1>3, <1>t DEF RunByte
  <2> QED
    BY <1>3, <2>1, <2>2, ShowKeeps
<1>4. ASSUME RefuseSelftest \/ EndSelftest, NEW answer \in Answers,
             Show(console_write(screen, Append(answer, Newline) \o Prompt))
      PROVE  ScreenInv'
  <2>1. Sound(console_write(screen, Append(answer, Newline) \o Prompt))
    BY <1>q, PrintedSound
  <2>2. tty_line' = tty_line
    BY <1>4, <1>t DEF RefuseSelftest, EndSelftest, ttyVars
  <2> QED
    BY <1>4, <2>1, <2>2, ShowKeeps
<1>5. CASE /\ PollDone \/ ReadChunk \/ ReadNothing \/ ChunkDone \/ Hlt
           /\ UNCHANGED <<screen, received, intact, margin>>
  <2>1. tty_line' = tty_line
    BY <1>5 DEF PollDone, ReadChunk, ReadNothing, ChunkDone, Hlt, ttyPtyVars, ttyVars
  <2> QED
    BY <1>5, <1>u, <2>1
<1>6. CASE StartSelftest /\ UNCHANGED <<screen, received, intact, margin>>
  <2>1. tty_line' = tty_line
    BY <1>6, <1>t DEF StartSelftest
  <2> QED
    BY <1>6, <1>u, <2>1
<1>7. CASE /\ (\E s \in Stroke : Strike(s)) \/ TimerTick
           /\ UNCHANGED <<screen, received, intact, margin>>
  <2>1. tty_line' = tty_line
    BY <1>7 DEF Strike, TimerTick, ttyPtyVars, ttyVars
  <2> QED
    BY <1>7, <1>u, <2>1
<1>8. CASE UNCHANGED echoVars
  <2>1. tty_line' = tty_line /\ UNCHANGED <<screen, received, intact, margin>>
    BY <1>8 DEF echoVars, inputVars, ttyPtyVars, ttyVars
  <2> QED
    BY <1>u, <2>1
<1> QED
  BY <1>1, <1>2, <1>3, <1>4, <1>5, <1>6, <1>7, <1>8 DEF EchoNext, ShownMainLoop

LEMMA ScreenAtBoot == EchoInit => ScreenInv
<1> SUFFICES ASSUME EchoInit PROVE ScreenInv
  OBVIOUS
<1>1. Sound(screen)
  <2>1. Prompt \in Seq(Octet)
    BY EchoAssumption
  <2> QED
    BY <2>1, FreshSound, WriteSound DEF EchoInit
<1>2. tty_line = <<>> /\ margin = CellBefore(screen, 1)
  BY DEF EchoInit, InputInit, BootInit, TtyAttachedInit
<1>3. Lined(screen, tty_line, margin)
  BY <1>1, <1>2, EmptyIsLined
<1> QED
  BY <1>1, <1>3 DEF ScreenInv

\* However polls, the shell's output and the self-test interleave, and across
\* the edge and the scrolling of a screen of any size that can hold a line, the
\* user sees the line that Enter will hand over, and Backspace never reaches
\* the prompt, as long as nothing else was printed into the line.
THEOREM EchoIsFaithful == EchoSpec => []EchoShowsLine
<1>1. EchoInit => PathInv /\ ScreenInv
  BY PathAtBoot, ScreenAtBoot DEF EchoInit
<1>2. PathInv /\ ScreenInv /\ [EchoNext]_echoVars => PathInv' /\ ScreenInv'
  BY EchoIsInput, PathStep, StepKeepsScreen
<1>3. PathInv /\ ScreenInv => EchoShowsLine
  <2> SUFFICES ASSUME PathInv, ScreenInv PROVE EchoShowsLine
    OBVIOUS
  <2>1. DOMAIN tty_line = 1 .. Len(tty_line)
    BY DEF PathInv, QueuesInv, TypeOK, TtyTypeOK
  <2> QED
    BY <2>1 DEF ScreenInv, Lined, EchoShowsLine
<1> QED
  BY <1>1, <1>2, <1>3, PTL DEF EchoSpec
-----------------------------------------------------------------------------
\* Position i is in the sequence that starts at s, told from what is before i.
Inside(in, s, i) ==
    \/ i <= s + 1
    \/ in[s + 1] \in {91, 79} /\ \A e \in s + 2 .. i - 1 : in[e] \notin 64 .. 126

LEMMA CoversIs ==
    ASSUME NEW in \in Seq(Octet), NEW i \in 1 .. Len(in), NEW s \in 1 .. i
    PROVE  Covers(in, s, i) <=> Inside(in, s, i)
<1>1. CASE i <= s + 1
  BY <1>1 DEF Covers, Ends, Inside
<1>2. CASE ~ (i <= s + 1)
  <2>1. s < Len(in) /\ s + 1 <= Len(in)
    BY <1>2
  <2>2. CASE in[s + 1] \in {91, 79}
    <3>1. Ends(in, s) = {e \in s + 2 .. Len(in) : in[e] \in 64 .. 126}
      BY <2>1, <2>2 DEF Ends
    <3>2. (\A e \in Ends(in, s) : i <= e)
             <=> \A e \in s + 2 .. i - 1 : in[e] \notin 64 .. 126
      <4> DEFINE last(e) == in[e] \in 64 .. 126
      <4>1. Ends(in, s) = {e \in s + 2 .. Len(in) : last(e)}
        BY <3>1
      <4> HIDE DEF last
      <4>2. (\A e \in Ends(in, s) : i <= e) <=> \A e \in s + 2 .. i - 1 : ~ last(e)
        BY <4>1
      <4> QED
        BY <4>2 DEF last
    <3> QED
      BY <1>2, <2>2, <3>2 DEF Covers, Inside
  <2>3. CASE in[s + 1] \notin {91, 79}
    <3>1. Ends(in, s) = {s + 1}
      BY <2>3 DEF Ends
    <3> QED
      BY <1>2, <2>3, <3>1 DEF Covers, Inside
  <2> QED
    BY <2>2, <2>3
<1> QED
  BY <1>1, <1>2

\* Which positions start a sequence.
LEMMA StartsAre ==
    ASSUME NEW in \in Seq(Octet)
    PROVE  /\ Starts(in) \subseteq 1 .. Len(in)
           /\ \A i \in 1 .. Len(in) :
                 i \in Starts(in) <=>
                    in[i] = Esc /\ \A s \in 1 .. i - 1 : s \in Starts(in) => ~ Inside(in, s, i)
<1> DEFINE Turn(f, i) == in[i] = Esc /\ \A s \in 1 .. i - 1 : f[s] => ~ Covers(in, s, i)
           Turns(f, m) == [i \in 1 .. m |-> Turn(f, i)]
           good == {m \in Nat : \E f : f = Turns(f, m)}
<1>1. 0 \in good
  <2> DEFINE f == [i \in 1 .. 0 |-> TRUE]
  <2>1. f = Turns(f, 0)
    OBVIOUS
  <2> QED
    BY <2>1
<1>2. ASSUME NEW m \in Nat \ {0}, m - 1 \in good PROVE m \in good
  <2>1. PICK f : f = Turns(f, m - 1)
    BY <1>2
  <2> DEFINE g == [i \in 1 .. m |-> IF i = m THEN Turn(f, m) ELSE f[i]]
  <2>2. ASSUME NEW i \in 1 .. m PROVE g[i] = Turn(g, i)
    <3>1. \A s \in 1 .. i - 1 : g[s] = f[s]
      OBVIOUS
    <3>2. Turn(g, i) = Turn(f, i)
      BY <3>1
    <3>3. CASE i = m
      <4>1. g[i] = Turn(f, m)
        BY <3>3
      <4> QED
        BY <3>2, <3>3, <4>1
    <3>4. CASE i # m
      <4>1. i \in 1 .. m - 1 /\ g[i] = f[i]
        BY <3>4
      <4>2. f[i] = Turn(f, i)
        BY <2>1, <4>1, Zenon
      <4> QED
        BY <3>2, <4>1, <4>2, Zenon
    <3> QED
      BY <3>3, <3>4
  <2>3. g = Turns(g, m)
    BY <2>2
  <2> QED
    BY <2>3
<1>3. Len(in) \in good
  <2> HIDE DEF good
  <2>1. Len(in) \in Nat
    OBVIOUS
  <2> QED
    BY <1>1, <1>2, <2>1, Climb
<1>4. PICK any : any = Turns(any, Len(in))
  BY <1>3
<1>d. DOMAIN in = 1 .. Len(in)
  OBVIOUS
<1> DEFINE Whole(f) == [i \in DOMAIN in |-> Turn(f, i)]
           start == CHOOSE f : f = Whole(f)
<1>5. any = Whole(any)
  BY <1>4, <1>d, Zenon
<1>6. start = Whole(start)
  BY <1>5, Zenon
<1>7. Starts(in) = {i \in DOMAIN in : start[i]}
  BY Zenon DEF Starts
<1> HIDE DEF start
<1>8. \A i \in 1 .. Len(in) : start[i] = Turn(start, i)
  BY <1>6, <1>d, Zenon
<1>9. \A i \in 1 .. Len(in) : i \in Starts(in) <=> start[i]
  BY <1>7, <1>d
<1>10. Starts(in) \subseteq 1 .. Len(in)
  BY <1>7, <1>d
<1>11. ASSUME NEW i \in 1 .. Len(in)
       PROVE  i \in Starts(in) <=>
                 in[i] = Esc /\ \A s \in 1 .. i - 1 : s \in Starts(in) => ~ Inside(in, s, i)
  <2>1. \A s \in 1 .. i - 1 : s \in 1 .. Len(in) /\ s \in 1 .. i
    OBVIOUS
  <2>2. \A s \in 1 .. i - 1 : (start[s] <=> s \in Starts(in)) /\ (Covers(in, s, i) <=> Inside(in, s, i))
    BY <1>9, <2>1, CoversIs
  <2>3. i \in Starts(in) <=> Turn(start, i)
    BY <1>8, <1>9
  <2> QED
    BY <2>2, <2>3
<1> QED
  BY <1>10, <1>11
-----------------------------------------------------------------------------
\* One more byte does not change what was before it.
LEMMA Longer ==
    ASSUME NEW in \in Seq(Octet), NEW b \in Octet, NEW more, more = Append(in, b)
    PROVE  /\ more \in Seq(Octet) /\ Len(in) \in Nat /\ Len(more) = Len(in) + 1
           /\ more[Len(in) + 1] = b
           /\ \A i \in 1 .. Len(in) : more[i] = in[i]
  BY AppendProperties

LEMMA InsideStays ==
    ASSUME NEW in \in Seq(Octet), NEW b \in Octet, NEW more, more = Append(in, b),
           NEW i \in 1 .. Len(in) + 1, NEW s \in 1 .. i
    PROVE  Inside(more, s, i) <=> Inside(in, s, i)
<1>1. /\ Len(in) \in Nat
      /\ \A j \in 1 .. Len(in) : more[j] = in[j]
  BY Longer
<1>2. CASE i <= s + 1
  BY <1>2 DEF Inside
<1>3. CASE ~ (i <= s + 1)
  <2>1. s + 1 \in 1 .. Len(in) /\ \A e \in s + 2 .. i - 1 : e \in 1 .. Len(in)
    BY <1>1, <1>3
  <2>2. more[s + 1] = in[s + 1] /\ \A e \in s + 2 .. i - 1 : more[e] = in[e]
    BY <1>1, <2>1
  <2> QED
    BY <2>2, Zenon DEF Inside
<1> QED
  BY <1>2, <1>3

LEMMA StartsStay ==
    ASSUME NEW in \in Seq(Octet), NEW b \in Octet, NEW more, more = Append(in, b)
    PROVE  /\ \A i \in 1 .. Len(in) : i \in Starts(more) <=> i \in Starts(in)
           /\ Len(in) + 1 \in Starts(more) <=>
                 b = Esc /\ \A s \in Starts(in) : ~ Inside(in, s, Len(in) + 1)
<1> DEFINE n == Len(in)
           Early(S, f, i) == f[i] = Esc /\ \A s \in 1 .. i - 1 : s \in S => ~ Inside(f, s, i)
<1>1. /\ more \in Seq(Octet) /\ n \in Nat /\ Len(more) = n + 1
      /\ more[n + 1] = b /\ \A i \in 1 .. n : more[i] = in[i]
  BY Longer
<1>2. /\ Starts(in) \subseteq 1 .. n
      /\ \A i \in 1 .. n : i \in Starts(in) <=> Early(Starts(in), in, i)
  BY StartsAre
<1>3. /\ Starts(more) \subseteq 1 .. n + 1
      /\ \A i \in 1 .. n + 1 : i \in Starts(more) <=> Early(Starts(more), more, i)
  <2>1. Starts(more) \subseteq 1 .. Len(more)
    BY <1>1, StartsAre
  <2>2. \A i \in 1 .. Len(more) : i \in Starts(more) <=> Early(Starts(more), more, i)
    BY <1>1, StartsAre
  <2> QED
    BY <1>1, <2>1, <2>2
<1>4. \A i \in 1 .. n + 1 : \A s \in 1 .. i - 1 : Inside(more, s, i) <=> Inside(in, s, i)
  <2>1. ASSUME NEW i \in 1 .. n + 1, NEW s \in 1 .. i - 1
        PROVE  Inside(more, s, i) <=> Inside(in, s, i)
    <3>1. s \in 1 .. i
      BY <1>1
    <3> QED
      BY <3>1, InsideStays
  <2> QED
    BY <2>1
<1> DEFINE T == {i \in 1 .. n : ~ (i \in Starts(more) <=> i \in Starts(in))}
<1>5. T = {}
  <2> SUFFICES ASSUME T # {} PROVE FALSE
    OBVIOUS
  <2>1. T \subseteq Nat
    BY <1>1
  <2> HIDE DEF T
  <2>2. PICK x \in T : \A y \in T : x <= y
    BY <2>1, Least
  <2>3. x \in 1 .. n /\ x \in 1 .. n + 1
    BY <1>1, <2>2 DEF T
  <2>4. \A s \in 1 .. x - 1 : s \in 1 .. n /\ ~ (x <= s)
    BY <1>1, <2>3
  <2>5. \A s \in 1 .. x - 1 : s \in Starts(more) <=> s \in Starts(in)
    BY <2>2, <2>4 DEF T
  <2>6. Early(Starts(more), more, x) <=> Early(Starts(in), in, x)
    BY <1>1, <1>4, <2>3, <2>5
  <2>7. x \in Starts(more) <=> x \in Starts(in)
    BY <1>2, <1>3, <2>3, <2>6, Zenon
  <2> QED
    BY <2>2, <2>7 DEF T
<1>6. \A i \in 1 .. n : i \in Starts(more) <=> i \in Starts(in)
  BY <1>5
<1>7. n + 1 \in Starts(more) <=> b = Esc /\ \A s \in Starts(in) : ~ Inside(in, s, n + 1)
  <2>1. n + 1 \in 1 .. n + 1 /\ (n + 1) - 1 = n
    BY <1>1
  <2>2. n + 1 \in Starts(more) <=> Early(Starts(more), more, n + 1)
    BY <1>3, <2>1
  <2>3. \A s \in 1 .. n : Inside(more, s, n + 1) <=> Inside(in, s, n + 1)
    BY <1>4, <2>1
  <2>4. Early(Starts(more), more, n + 1) <=>
           b = Esc /\ \A s \in 1 .. n : s \in Starts(more) => ~ Inside(more, s, n + 1)
    BY <1>1, <2>1
  <2> QED
    BY <1>2, <1>6, <2>2, <2>3, <2>4
<1> QED
  BY <1>6, <1>7
-----------------------------------------------------------------------------
\* A byte is left out of the text if a sequence covers it.
Skipped(in, i) == \E s \in Starts(in) : Covers(in, s, i)

LEMMA SkippedIs ==
    ASSUME NEW in \in Seq(Octet), NEW i \in 1 .. Len(in)
    PROVE  Skipped(in, i) <=> \E s \in 1 .. i : s \in Starts(in) /\ Inside(in, s, i)
<1>1. \A s \in 1 .. i : Covers(in, s, i) <=> Inside(in, s, i)
  BY CoversIs
<1>2. \A s \in Starts(in) : Covers(in, s, i) => s \in 1 .. i
  BY StartsAre DEF Covers
<1> QED
  BY <1>1, <1>2 DEF Skipped

LEMMA EditedLoop ==
    ASSUME NEW in \in Seq(Octet)
    PROVE  \E ed : /\ ed[0] = [line |-> <<>>, out |-> <<>>]
                   /\ \A i \in 1 .. Len(in) :
                         ed[i] = IF Skipped(in, i) THEN ed[i - 1] ELSE EditOne(ed[i - 1], in[i])
                   /\ Edited(in) = ed[Len(in)]
<1> DEFINE Turn(a, i) == IF i = 0 THEN [line |-> <<>>, out |-> <<>>]
                         ELSE IF Skipped(in, i) THEN a[i - 1]
                         ELSE EditOne(a[i - 1], in[i])
           Turns(a, m) == [i \in 0 .. m |-> Turn(a, i)]
           good == {m \in Nat : \E a : a = Turns(a, m)}
<1>1. 0 \in good
  <2> DEFINE a == [i \in 0 .. 0 |-> [line |-> <<>>, out |-> <<>>]]
  <2>1. a = Turns(a, 0)
    OBVIOUS
  <2> QED
    BY <2>1
<1>2. ASSUME NEW m \in Nat \ {0}, m - 1 \in good PROVE m \in good
  <2>1. PICK a : a = Turns(a, m - 1)
    BY <1>2
  <2> DEFINE b == [i \in 0 .. m |-> IF i = m THEN Turn(a, m) ELSE a[i]]
  <2>2. ASSUME NEW i \in 0 .. m PROVE b[i] = Turn(b, i)
    <3>1. CASE i = m
      <4>1. b[m - 1] = a[m - 1]
        OBVIOUS
      <4> QED
        BY <3>1, <4>1
    <3>2. CASE i # m
      <4>1. b[i] = a[i] /\ (i # 0 => b[i - 1] = a[i - 1])
        BY <3>2
      <4>2. a[i] = Turn(a, i)
        BY <2>1, <3>2
      <4> QED
        BY <4>1, <4>2
    <3> QED
      BY <3>1, <3>2
  <2>3. b = Turns(b, m)
    BY <2>2
  <2> QED
    BY <2>3
<1>3. Len(in) \in good
  <2> HIDE DEF good
  <2>1. Len(in) \in Nat
    OBVIOUS
  <2> QED
    BY <1>1, <1>2, <2>1, Climb
<1>4. PICK any : any = Turns(any, Len(in))
  BY <1>3
<1> DEFINE ed == CHOOSE a : a = Turns(a, Len(in))
<1>5. ed = Turns(ed, Len(in))
  BY <1>4, Zenon
<1>6. Edited(in) = ed[Len(in)]
  BY Zenon DEF Edited, Skipped
<1> HIDE DEF ed
<1>7. /\ ed[0] = [line |-> <<>>, out |-> <<>>]
      /\ \A i \in 1 .. Len(in) :
            ed[i] = IF Skipped(in, i) THEN ed[i - 1] ELSE EditOne(ed[i - 1], in[i])
  <2>1. 0 \in 0 .. Len(in) /\ \A i \in 1 .. Len(in) : i \in 0 .. Len(in) /\ i # 0
    OBVIOUS
  <2>2. \A i \in 0 .. Len(in) : ed[i] = Turn(ed, i)
    BY <1>5, Zenon
  <2> QED
    BY <2>1, <2>2, Zenon
<1> QED
  BY <1>6, <1>7, Zenon

\* The text of one more byte.
LEMMA EditedGrows ==
    ASSUME NEW in \in Seq(Octet), NEW b \in Octet, NEW more, more = Append(in, b)
    PROVE  Edited(more) = IF Skipped(more, Len(in) + 1) THEN Edited(in)
                          ELSE EditOne(Edited(in), b)
<1> DEFINE n == Len(in)
<1>1. /\ more \in Seq(Octet) /\ n \in Nat /\ Len(more) = n + 1
      /\ more[n + 1] = b /\ \A i \in 1 .. n : more[i] = in[i]
  BY Longer
<1>2. PICK e1 : /\ e1[0] = [line |-> <<>>, out |-> <<>>]
                /\ \A i \in 1 .. n :
                      e1[i] = IF Skipped(in, i) THEN e1[i - 1] ELSE EditOne(e1[i - 1], in[i])
                /\ Edited(in) = e1[n]
  BY EditedLoop
<1>3. PICK e2 : /\ e2[0] = [line |-> <<>>, out |-> <<>>]
                /\ \A i \in 1 .. n + 1 :
                      e2[i] = IF Skipped(more, i) THEN e2[i - 1]
                              ELSE EditOne(e2[i - 1], more[i])
                /\ Edited(more) = e2[n + 1]
  <2>1. PICK ed : /\ ed[0] = [line |-> <<>>, out |-> <<>>]
                  /\ \A i \in 1 .. Len(more) :
                        ed[i] = IF Skipped(more, i) THEN ed[i - 1]
                                ELSE EditOne(ed[i - 1], more[i])
                  /\ Edited(more) = ed[Len(more)]
    BY <1>1, EditedLoop
  <2> QED
    BY <1>1, <2>1, Zenon
<1>4. ASSUME NEW i \in 1 .. n PROVE Skipped(more, i) <=> Skipped(in, i)
  <2>1. i \in 1 .. Len(more) /\ i \in 1 .. n + 1
    BY <1>1
  <2>2. \A s \in 1 .. i : s \in 1 .. n
    BY <1>1
  <2>3. \A s \in 1 .. i : /\ s \in Starts(more) <=> s \in Starts(in)
                          /\ Inside(more, s, i) <=> Inside(in, s, i)
    BY <2>1, <2>2, StartsStay, InsideStays
  <2>4. Skipped(more, i) <=> \E s \in 1 .. i : s \in Starts(more) /\ Inside(more, s, i)
    BY <1>1, <2>1, SkippedIs
  <2>5. Skipped(in, i) <=> \E s \in 1 .. i : s \in Starts(in) /\ Inside(in, s, i)
    BY SkippedIs
  <2> QED
    BY <2>3, <2>4, <2>5, Zenon
<1> DEFINE good == {m \in Nat : m \in 0 .. n => e2[m] = e1[m]}
<1>5. 0 \in good
  BY <1>2, <1>3
<1>6. ASSUME NEW m \in Nat \ {0}, m - 1 \in good PROVE m \in good
  <2> SUFFICES ASSUME m \in 0 .. n PROVE e2[m] = e1[m]
    OBVIOUS
  <2>1. m - 1 \in 0 .. n /\ m \in 1 .. n /\ m \in 1 .. n + 1
    OBVIOUS
  <2>2. e2[m - 1] = e1[m - 1]
    BY <1>6, <2>1
  <2>3. Skipped(more, m) <=> Skipped(in, m)
    BY <1>4, <2>1
  <2>4. more[m] = in[m]
    BY <1>1, <2>1
  <2>5. e1[m] = IF Skipped(in, m) THEN e1[m - 1] ELSE EditOne(e1[m - 1], in[m])
    BY <1>2, <2>1, Zenon
  <2>6. e2[m] = IF Skipped(more, m) THEN e2[m - 1] ELSE EditOne(e2[m - 1], more[m])
    BY <1>3, <2>1, Zenon
  <2> QED
    BY <2>2, <2>3, <2>4, <2>5, <2>6, Zenon
<1>7. n \in good
  <2> HIDE DEF good
  <2> QED
    BY <1>1, <1>5, <1>6, Climb
<1>8. e2[n] = e1[n]
  BY <1>1, <1>7
<1>9. n + 1 \in 1 .. n + 1 /\ (n + 1) - 1 = n
  BY <1>1
<1>10. e2[n + 1] = IF Skipped(more, n + 1) THEN e2[(n + 1) - 1]
                   ELSE EditOne(e2[(n + 1) - 1], more[n + 1])
  BY <1>3, <1>9, Zenon
<1> QED
  BY <1>1, <1>2, <1>3, <1>8, <1>9, <1>10, Zenon
-----------------------------------------------------------------------------
\* What the state of the filter says of the bytes so far: whether the next one
\* is inside a sequence, and how far that is.
FilterIs(in, state) ==
    /\ state = 0 => \A s \in Starts(in) : ~ Inside(in, s, Len(in) + 1)
    /\ state = 1 => Len(in) \in Starts(in)
    /\ state = 2 => \E s \in Starts(in) : s < Len(in) /\ Inside(in, s, Len(in) + 1)

\* A sequence that goes on does so from its first byte.
LEMMA InsideBefore ==
    ASSUME NEW in \in Seq(Octet), NEW s \in 1 .. Len(in), NEW i \in s .. Len(in) + 1,
           NEW j \in s .. i, Inside(in, s, i)
    PROVE  Inside(in, s, j)
<1>1. CASE i <= s + 1
  BY <1>1 DEF Inside
<1>2. CASE ~ (i <= s + 1)
  <2>1. \A e \in s + 2 .. j - 1 : e \in s + 2 .. i - 1
    OBVIOUS
  <2> QED
    BY <1>2, <2>1 DEF Inside
<1> QED
  BY <1>1, <1>2

\* At most one sequence is under way.
LEMMA OneAtATime ==
    ASSUME NEW in \in Seq(Octet), NEW s \in Starts(in), NEW t \in Starts(in),
           Inside(in, s, Len(in) + 1), Inside(in, t, Len(in) + 1)
    PROVE  s = t
<1>1. s \in 1 .. Len(in) /\ t \in 1 .. Len(in) /\ Len(in) \in Nat
  BY StartsAre
<1>2. ASSUME NEW x \in Starts(in), NEW y \in Starts(in), Inside(in, x, Len(in) + 1), x < y
      PROVE  FALSE
  <2>1. x \in 1 .. Len(in) /\ y \in 1 .. Len(in) /\ Len(in) \in Nat
    BY StartsAre
  <2>2. x \in 1 .. y - 1 /\ y \in x .. Len(in) + 1 /\ Len(in) + 1 \in x .. Len(in) + 1
    BY <1>2, <2>1
  <2>3. Inside(in, x, y)
    BY <1>2, <2>1, <2>2, InsideBefore
  <2>4. ~ Inside(in, x, y)
    BY <2>1, <2>2, StartsAre
  <2> QED
    BY <2>3, <2>4
<1> QED
  BY <1>1, <1>2

\* The filter takes exactly the bytes of sequences (tty.c:62-89).
LEMMA FilterStep ==
    ASSUME NEW in \in Seq(Octet), NEW b \in Octet, NEW more, more = Append(in, b),
           tty_escape_state \in 0 .. 2, FilterIs(in, tty_escape_state),
           NEW next, next = IF Escaping(b) THEN EscapeNext(b) ELSE tty_escape_state
    PROVE  /\ FilterIs(more, next)
           /\ Skipped(more, Len(in) + 1) <=> Escaping(b)
<1> DEFINE n == Len(in)
<1>1. /\ more \in Seq(Octet) /\ n \in Nat /\ Len(more) = n + 1
      /\ more[n + 1] = b /\ \A i \in 1 .. n : more[i] = in[i]
  BY Longer
<1>2. /\ \A i \in 1 .. n : i \in Starts(more) <=> i \in Starts(in)
      /\ n + 1 \in Starts(more) <=> b = Esc /\ \A s \in Starts(in) : ~ Inside(in, s, n + 1)
  BY StartsStay
<1>3. Starts(in) \subseteq 1 .. n /\ Starts(more) \subseteq 1 .. n + 1
  <2>1. Starts(more) \subseteq 1 .. Len(more)
    BY <1>1, StartsAre
  <2> QED
    BY <1>1, <2>1, StartsAre
<1>4. \A s \in 1 .. n + 1 : Inside(more, s, n + 1) <=> Inside(in, s, n + 1)
  <2>1. n + 1 \in 1 .. n + 1
    BY <1>1
  <2> QED
    BY <2>1, InsideStays
<1>5. \A s \in 1 .. n : Inside(more, s, (n + 1) + 1) =>
          /\ Inside(in, s, n + 1)
          /\ s = n => b \in {91, 79}
          /\ s < n => b \notin 64 .. 126
  <2> SUFFICES ASSUME NEW s \in 1 .. n, Inside(more, s, (n + 1) + 1)
               PROVE  /\ Inside(in, s, n + 1)
                      /\ s = n => b \in {91, 79}
                      /\ s < n => b \notin 64 .. 126
    OBVIOUS
  <2>1. s \in 1 .. Len(more) /\ (n + 1) + 1 \in s .. Len(more) + 1 /\ n + 1 \in s .. (n + 1) + 1
        /\ s \in 1 .. n + 1
    BY <1>1
  <2>2. Inside(more, s, n + 1)
    BY <1>1, <2>1, InsideBefore
  <2>3. Inside(in, s, n + 1)
    BY <1>4, <2>1, <2>2
  <2>4. ~ ((n + 1) + 1 <= s + 1)
    BY <1>1
  <2>5. more[s + 1] \in {91, 79} /\ \A e \in s + 2 .. ((n + 1) + 1) - 1 : more[e] \notin 64 .. 126
    BY <2>4 DEF Inside
  <2>6. s < n => n + 1 \in s + 2 .. ((n + 1) + 1) - 1
    BY <1>1
  <2> QED
    BY <1>1, <2>3, <2>5, <2>6
<1>a. \A s \in 1 .. n : s < n =>
          /\ s \in 1 .. n + 1 /\ ~ (n + 1 <= s + 1) /\ s + 1 \in 1 .. n
          /\ \A e \in s + 2 .. ((n + 1) + 1) - 1 : e = n + 1 \/ e \in s + 2 .. (n + 1) - 1
  <2>1. PICK m : m = n /\ m \in Nat
    BY <1>1
  <2>2. \A s \in 1 .. m : s < m =>
          /\ s \in 1 .. m + 1 /\ ~ (m + 1 <= s + 1) /\ s + 1 \in 1 .. m
          /\ \A e \in s + 2 .. ((m + 1) + 1) - 1 : e = m + 1 \/ e \in s + 2 .. (m + 1) - 1
    BY <2>1
  <2> QED
    BY <2>1, <2>2, Zenon
<1>6. ASSUME NEW s \in 1 .. n, s < n, Inside(in, s, n + 1), b \notin 64 .. 126
      PROVE  Inside(more, s, (n + 1) + 1)
  <2>1. s \in 1 .. n + 1 /\ ~ (n + 1 <= s + 1)
    BY <1>a, <1>6
  <2>2. Inside(more, s, n + 1)
    BY <1>4, <1>6, <2>1
  <2>3. more[s + 1] \in {91, 79} /\ \A e \in s + 2 .. (n + 1) - 1 : more[e] \notin 64 .. 126
    BY <2>1, <2>2 DEF Inside
  <2>4. \A e \in s + 2 .. ((n + 1) + 1) - 1 : e = n + 1 \/ e \in s + 2 .. (n + 1) - 1
    BY <1>a, <1>6, Zenon
  <2>5. ASSUME NEW e \in s + 2 .. ((n + 1) + 1) - 1 PROVE more[e] \notin 64 .. 126
    <3>1. CASE e = n + 1
      BY <1>1, <1>6, <3>1
    <3>2. CASE e \in s + 2 .. (n + 1) - 1
      BY <2>3, <3>2
    <3> QED
      BY <2>4, <3>1, <3>2
  <2> QED
    BY <2>3, <2>5 DEF Inside
<1>7. Skipped(more, n + 1) <=>
          n + 1 \in Starts(more) \/ \E s \in Starts(in) : Inside(in, s, n + 1)
  <2>1. n + 1 \in 1 .. Len(more) /\ n + 1 \in 1 .. n + 1
    BY <1>1
  <2>2. Skipped(more, n + 1) <=>
           \E s \in 1 .. n + 1 : s \in Starts(more) /\ Inside(more, s, n + 1)
    BY <1>1, <2>1, SkippedIs
  <2>3. Inside(more, n + 1, n + 1)
    BY <1>1 DEF Inside
  <2>4. \A s \in 1 .. n + 1 : s = n + 1 \/ s \in 1 .. n
    BY <1>1
  <2>5. \A s \in 1 .. n : s \in 1 .. n + 1
    BY <1>1
  <2> QED
    BY <1>2, <1>3, <1>4, <2>1, <2>2, <2>3, <2>4, <2>5
<1>8. CASE tty_escape_state = 0
  <2>1. \A s \in Starts(in) : ~ Inside(in, s, n + 1)
    BY <1>8 DEF FilterIs
  <2>2. n + 1 \in Starts(more) <=> b = Esc
    BY <1>2, <2>1
  <2>3. Escaping(b) <=> b = Esc
    BY <1>8 DEF Escaping
  <2>4. CASE b = Esc
    <3>1. next = 1 /\ Len(more) \in Starts(more)
      BY <1>1, <1>8, <2>2, <2>3, <2>4 DEF EscapeNext
    <3> QED
      BY <1>7, <2>2, <2>3, <2>4, <3>1 DEF FilterIs
  <2>5. CASE b # Esc
    <3>1. next = 0
      BY <1>8, <2>3, <2>5
    <3>2. \A s \in Starts(more) : s \in 1 .. n /\ s \in Starts(in)
      <4>1. \A s \in 1 .. n + 1 : s = n + 1 \/ s \in 1 .. n
        BY <1>1
      <4> QED
        BY <1>2, <1>3, <2>2, <2>5, <4>1
    <3>3. \A s \in Starts(more) : ~ Inside(more, s, (n + 1) + 1)
      BY <1>5, <2>1, <3>2
    <3> QED
      BY <1>1, <1>7, <2>1, <2>2, <2>3, <2>5, <3>1, <3>3 DEF FilterIs
  <2> QED
    BY <2>4, <2>5
<1>9. CASE tty_escape_state # 0
  <2>1. Escaping(b) /\ next = EscapeNext(b)
    BY <1>9 DEF Escaping
  <2>2. PICK s \in Starts(in) : /\ Inside(in, s, n + 1)
                                /\ tty_escape_state = 1 => s = n
                                /\ tty_escape_state = 2 => s < n
    <3>1. CASE tty_escape_state = 1
      <4>1. n \in Starts(in)
        BY <3>1 DEF FilterIs
      <4>2. Inside(in, n, n + 1)
        BY <1>1 DEF Inside
      <4> QED
        BY <3>1, <4>1, <4>2
    <3>2. CASE tty_escape_state = 2
      BY <3>2 DEF FilterIs
    <3> QED
      BY <1>9, <3>1, <3>2
  <2>3. n + 1 \notin Starts(more)
    BY <1>2, <2>2
  <2>4. Skipped(more, n + 1)
    BY <1>7, <2>2
  <2>5. s \in 1 .. n /\ s \in Starts(more)
    BY <1>2, <1>3, <2>2
  <2>6. \A t \in Starts(more) : Inside(more, t, (n + 1) + 1) => t = s
    <3>1. \A t \in 1 .. n + 1 : t = n + 1 \/ t \in 1 .. n
      BY <1>1
    <3>2. \A t \in Starts(more) : t \in 1 .. n /\ t \in Starts(in)
      BY <1>2, <1>3, <2>3, <3>1
    <3> QED
      BY <1>5, <2>2, <3>2, OneAtATime
  <2>7. CASE Inside(more, s, (n + 1) + 1)
    <3>1. next = 2
      BY <1>5, <2>1, <2>2, <2>5, <2>7, <1>9 DEF EscapeNext
    <3>2. s < Len(more)
      BY <1>1, <2>5
    <3>3. FilterIs(more, next)
      BY <1>1, <2>5, <2>7, <3>1, <3>2 DEF FilterIs
    <3> QED
      BY <2>1, <2>4, <3>3
  <2>8. CASE ~ Inside(more, s, (n + 1) + 1)
    <3>1. s = n => b \notin {91, 79}
      <4> SUFFICES ASSUME s = n, b \in {91, 79} PROVE Inside(more, s, (n + 1) + 1)
        BY <2>8
      <4>1. more[s + 1] \in {91, 79} /\ \A e \in s + 2 .. ((n + 1) + 1) - 1 : FALSE
        BY <1>1
      <4> QED
        BY <4>1 DEF Inside
    <3>2. s < n => b \in 64 .. 126
      BY <1>6, <2>2, <2>5, <2>8
    <3>3. next = 0
      BY <1>9, <2>1, <2>2, <3>1, <3>2 DEF EscapeNext
    <3>4. FilterIs(more, next)
      BY <1>1, <2>6, <2>8, <3>3 DEF FilterIs
    <3> QED
      BY <2>1, <2>4, <3>4
  <2> QED
    BY <2>7, <2>8
<1> QED
  BY <1>8, <1>9
-----------------------------------------------------------------------------
\* What is dropped is counted, and the count is never taken back.
LEMMA EnqueuesAll ==
    ASSUME TypeOK, BufferBounds, NEW bs \in Seq(Octet), NEW lost \in Nat,
           Enqueue(bs, lost), tty_drop_count' = 0
    PROVE  tty_drop_count = 0 /\ lost = 0 /\ delivered' = delivered \o bs
<1>1. /\ Len(Taken(bs)) \in 0 .. Len(bs)
      /\ Taken(bs) = SubSeq(bs, 1, Len(Taken(bs)))
      /\ delivered' = delivered \o Taken(bs)
      /\ tty_drop_count' = tty_drop_count + lost + Len(bs) - Len(Taken(bs))
  BY EnqueueFacts
<1>2. PICK t, d, m, k : /\ t = tty_drop_count /\ d = tty_drop_count'
                        /\ m = Len(bs) /\ k = Len(Taken(bs))
  BY Zenon
<1>3. t \in Nat /\ m \in Nat /\ k \in 0 .. m /\ d = 0 /\ d = t + lost + m - k
  <2>1. t \in Nat /\ m \in Nat
    BY <1>2 DEF TypeOK, TtyTypeOK
  <2>2. k \in 0 .. m /\ d = 0 /\ d = t + lost + m - k
    BY <1>1, <1>2, Zenon
  <2> QED
    BY <2>1, <2>2
<1>4. t = 0 /\ lost = 0 /\ k = m
  BY <1>3
<1>5. SubSeq(bs, 1, Len(bs)) = bs
  BY SubSeqFull
<1>6. Taken(bs) = bs
  BY <1>1, <1>2, <1>4, <1>5, Zenon
<1> QED
  BY <1>1, <1>2, <1>4, <1>6, Zenon

\* When nothing is dropped, the tty edits as an editor without limits does
\* (tty.c:91-168).
LEMMA EditIs ==
    ASSUME TypeOK, BufferBounds, NEW b \in Octet, Edit(b), tty_drop_count' = 0
    PROVE  /\ tty_drop_count = 0
           /\ EditOne([line |-> tty_line, out |-> delivered], b)
                 = [line |-> tty_line', out |-> delivered']
<1> DEFINE ed == [line |-> tty_line, out |-> delivered]
<1>t. /\ tty_line \in Seq(Octet) /\ delivered \in Seq(Octet) /\ tty_drop_count \in Nat
      /\ <<b>> \in Seq(Octet) /\ Append(tty_line, b) \in Seq(Octet)
  BY LineFacts DEF TypeOK, TtyTypeOK
<1>a. delivered \o <<b>> = Append(delivered, b)
  BY <1>t
<1>e. ASSUME NEW bs \in Seq(Octet), NEW lost \in Nat, Enqueue(bs, lost)
      PROVE  tty_drop_count = 0 /\ lost = 0 /\ delivered' = delivered \o bs
  BY <1>e, EnqueuesAll
<1>n. ASSUME NothingEnqueued PROVE delivered' = delivered
  BY <1>n DEF NothingEnqueued
<1>x. /\ [ed EXCEPT !.line = Append(@, b)] = [line |-> Append(tty_line, b), out |-> delivered]
      /\ [ed EXCEPT !.out = Append(@, b)] = [line |-> tty_line, out |-> Append(delivered, b)]
  <2>1. ed.line = tty_line /\ ed.out = delivered
    OBVIOUS
  <2>2. PICK l, o : l = Append(tty_line, b) /\ o = Append(delivered, b)
    BY Zenon
  <2>3. /\ [ed EXCEPT !.line = l] = [line |-> l, out |-> delivered]
        /\ [ed EXCEPT !.out = o] = [line |-> tty_line, out |-> o]
    OBVIOUS
  <2> HIDE DEF ed
  <2> QED
    BY <2>1, <2>2, <2>3, Zenon
<1> USE DEF CtrlC, CtrlD, CtrlL, Backspace, Newline, Del, Octet, tty_is_printable
<1>1. CASE Interrupt(b)
  <2>1. b = CtrlC /\ tty_line' = <<>> /\ Enqueue(<<b>>, 0)
    BY <1>1 DEF Interrupt
  <2>2. tty_drop_count = 0 /\ delivered' = Append(delivered, b)
    BY <1>t, <1>a, <1>e, <2>1
  <2> QED
    BY <2>1, <2>2 DEF EditOne
<1>2. CASE Redraw(b)
  <2>1. b = CtrlL /\ tty_line' = tty_line /\ Enqueue(<<b>>, 0)
    BY <1>2 DEF Redraw
  <2>2. tty_drop_count = 0 /\ delivered' = Append(delivered, b)
    BY <1>t, <1>a, <1>e, <2>1
  <2> QED
    BY <1>x, <2>1, <2>2 DEF EditOne
<1>3. CASE Erase(b)
  <2>1. /\ b \in {Backspace, Del} /\ tty_drop_count' = tty_drop_count
        /\ delivered' = delivered
        /\ tty_line' = IF tty_line = <<>> THEN tty_line
                       ELSE SubSeq(tty_line, 1, Len(tty_line) - 1)
    BY <1>3, <1>n DEF Erase
  <2>2. [ed EXCEPT !.line = IF @ = <<>> THEN @ ELSE Front(@)]
           = [line |-> tty_line', out |-> delivered']
    BY <2>1 DEF Front
  <2> QED
    BY <2>1, <2>2 DEF EditOne
<1>4. CASE EndLine(b)
  <2>1. b = Newline /\ tty_line' = <<>>
    BY <1>4 DEF EndLine
  <2>2. Enqueue(tty_line, 1) \/ Enqueue(Append(tty_line, b), 0)
    BY <1>4 DEF EndLine
  <2>a. ~ Enqueue(tty_line, 1)
    BY <1>t, <1>e
  <2>3. tty_drop_count = 0 /\ delivered' = delivered \o Append(tty_line, b)
    BY <1>t, <1>e, <2>2, <2>a
  <2> QED
    BY <2>1, <2>3 DEF EditOne
<1>5. CASE EndOfFile(b)
  <2>1. b = CtrlD /\ tty_line' = <<>>
    BY <1>5 DEF EndOfFile
  <2>2. Enqueue(IF tty_line = <<>> THEN <<b>> ELSE tty_line, 0)
    BY <1>5 DEF EndOfFile
  <2>3. tty_drop_count = 0
        /\ delivered' = delivered \o (IF tty_line = <<>> THEN <<b>> ELSE tty_line)
    BY <1>t, <1>e, <2>2
  <2> QED
    BY <2>1, <2>3 DEF EditOne
<1>6. CASE Ignore(b)
  <2>1. /\ b \notin {CtrlC, CtrlL, Backspace, Newline, CtrlD, 9} /\ b < 32
        /\ tty_drop_count' = tty_drop_count /\ delivered' = delivered
        /\ tty_line' = tty_line /\ b # Del /\ ~ (b = 9 \/ (b >= 32 /\ b # Del))
    BY <1>6, <1>n DEF Ignore
  <2> QED
    BY <2>1 DEF EditOne
<1>7. CASE Refuse(b)
  BY <1>7, <1>t DEF Refuse
<1>8. CASE Insert(b)
  <2>1. /\ b = 9 \/ (b >= 32 /\ b # Del)
        /\ tty_drop_count' = tty_drop_count /\ delivered' = delivered
        /\ tty_line' = Append(tty_line, b)
    BY <1>8, <1>n DEF Insert
  <2> QED
    BY <1>x, <2>1 DEF EditOne
<1> QED
  BY <1>1, <1>2, <1>3, <1>4, <1>5, <1>6, <1>7, <1>8 DEF Edit
-----------------------------------------------------------------------------
\* The filter, the line and all that was handed over follow from the bytes.
TextInv ==
    /\ received \in Seq(Octet)
    /\ FilterIs(received, tty_escape_state)
    /\ tty_drop_count = 0 =>
          Edited(received) = [line |-> tty_line, out |-> delivered]

\* A byte through the tty (tty.c:62-168).
LEMMA ByteText ==
    ASSUME TextInv, QueuesInv, tty_canonical, NEW b \in Octet, HandleByte(b), EchoByte(b)
    PROVE  TextInv'
<1> DEFINE next == IF Escaping(b) THEN EscapeNext(b) ELSE tty_escape_state
           more == Append(received, b)
<1>1. TypeOK /\ BufferBounds /\ tty_escape_state \in 0 .. 2 /\ received \in Seq(Octet)
  BY DEF QueuesInv, TypeOK, TtyTypeOK, TextInv
<1>2. received' = more
  BY DEF EchoByte
<1>3. DiscardEscape(b) \/ Edit(b)
  BY DEF HandleByte, tty_handle_canonical, tty_handle_noncanonical
<1>4. tty_escape_state' = next
  BY <1>3 DEF DiscardEscape, Edit
<1>5. FilterIs(received, tty_escape_state)
  BY DEF TextInv
<1>6. FilterIs(more, next) /\ (Skipped(more, Len(received) + 1) <=> Escaping(b))
  BY <1>1, <1>5, FilterStep
<1>7. Edited(more) = IF Escaping(b) THEN Edited(received) ELSE EditOne(Edited(received), b)
  BY <1>1, <1>6, EditedGrows
<1>8. more \in Seq(Octet)
  BY <1>1
<1> HIDE DEF more, next
<1>9. CASE DiscardEscape(b)
  <2>1. /\ Escaping(b)
        /\ tty_line' = tty_line /\ delivered' = delivered /\ tty_drop_count' = tty_drop_count
    BY <1>9 DEF DiscardEscape, NothingEnqueued
  <2> QED
    BY <1>2, <1>4, <1>6, <1>7, <1>8, <2>1 DEF TextInv
<1>10. CASE Edit(b)
  <2>1. ~ Escaping(b)
    BY <1>10 DEF Edit
  <2>2. ASSUME tty_drop_count' = 0
        PROVE  Edited(more) = [line |-> tty_line', out |-> delivered']
    <3>1. /\ tty_drop_count = 0
          /\ EditOne([line |-> tty_line, out |-> delivered], b)
                = [line |-> tty_line', out |-> delivered']
      BY <1>1, <1>10, <2>2, EditIs
    <3>2. Edited(received) = [line |-> tty_line, out |-> delivered]
      BY <3>1 DEF TextInv
    <3> QED
      BY <1>7, <2>1, <3>1, <3>2, Zenon
  <2> QED
    BY <1>2, <1>4, <1>6, <1>8, <2>2 DEF TextInv
<1> QED
  BY <1>3, <1>9, <1>10

\* A step that neither handles a byte nor touches the line.
LEMMA TextKept ==
    ASSUME TextInv,
           UNCHANGED <<received, tty_line, delivered, tty_drop_count, tty_escape_state>>
    PROVE  TextInv'
  BY DEF TextInv
-----------------------------------------------------------------------------
LEMMA StepKeepsText ==
    ASSUME PathInv, TextInv, [EchoNext]_echoVars
    PROVE  TextInv'
<1>q. QueuesInv /\ tty_canonical /\ KbdInv
  BY DEF PathInv, SelftestInv, QueuesInv
<1> DEFINE Kept == UNCHANGED <<tty_line, delivered, tty_drop_count, tty_escape_state>>
<1>t. ASSUME TakeChar PROVE Kept
  BY <1>q, <1>t, TakeKeeps DEF countVars
<1>1. CASE PollByte /\ EchoByte(Head(kbd_bytes))
  <2>1. Head(kbd_bytes) \in Octet /\ HandleByte(Head(kbd_bytes))
    BY <1>1, <1>q, PopKeepsKbd DEF PollByte
  <2> QED
    BY <1>1, <1>q, <2>1, ByteText
<1>2. CASE InjectByte /\ EchoByte(IF injected = SelftestLine - 1 THEN Newline ELSE 120)
  <2> DEFINE b == IF injected = SelftestLine - 1 THEN Newline ELSE 120
  <2>1. b \in Octet /\ HandleByte(b)
    BY <1>2 DEF InjectByte, Octet, Newline
  <2>2. EchoByte(b)
    BY <1>2
  <2> HIDE DEF b
  <2> QED
    BY <1>q, <2>1, <2>2, ByteText
<1>3. CASE (RunByte \/ RefuseSelftest \/ EndSelftest) /\ UNCHANGED received
  <2>1. Kept
    BY <1>3, <1>t DEF RunByte, RefuseSelftest, EndSelftest, ttyVars, countVars
  <2> QED
    BY <1>3, <2>1, TextKept
<1>4. CASE /\ PollDone \/ ReadChunk \/ ReadNothing \/ ChunkDone \/ Hlt \/ StartSelftest
           /\ UNCHANGED received
  <2>1. Kept
    BY <1>4, <1>t DEF PollDone, ReadChunk, ReadNothing, ChunkDone, Hlt, StartSelftest,
                      ttyPtyVars, ttyVars, countVars
  <2> QED
    BY <1>4, <2>1, TextKept
<1>5. CASE ((\E s \in Stroke : Strike(s)) \/ TimerTick) /\ UNCHANGED received
  <2>1. Kept
    BY <1>5 DEF Strike, TimerTick, ttyPtyVars, ttyVars, countVars
  <2> QED
    BY <1>5, <2>1, TextKept
<1>6. CASE UNCHANGED echoVars
  <2>1. Kept /\ UNCHANGED received
    BY <1>6 DEF echoVars, inputVars, ttyPtyVars, ttyVars, countVars
  <2> QED
    BY <2>1, TextKept
<1> QED
  BY <1>1, <1>2, <1>3, <1>4, <1>5, <1>6 DEF EchoNext, ShownMainLoop, Show

LEMMA TextAtBoot == EchoInit => TextInv
<1> SUFFICES ASSUME EchoInit PROVE TextInv
  OBVIOUS
<1>1. /\ received = <<>> /\ tty_line = <<>> /\ delivered = <<>> /\ tty_escape_state = 0
  BY DEF EchoInit, InputInit, BootInit, TtyAttachedInit
<1>2. <<>> \in Seq(Octet) /\ Len(<<>>) = 0
  BY EmptySeq
<1>3. Edited(<<>>) = [line |-> <<>>, out |-> <<>>]
  BY <1>2, EditedLoop
<1>4. Starts(<<>>) = {}
  <2>1. Starts(<<>>) \subseteq 1 .. Len(<<>>)
    BY <1>2, StartsAre, Zenon
  <2>2. 1 .. Len(<<>>) = {}
    BY <1>2
  <2> QED
    BY <2>1, <2>2
<1> QED
  BY <1>1, <1>2, <1>3, <1>4 DEF TextInv, FilterIs

\* For buffers and queues of any size, and however the bytes are cut into polls
\* and reads: as long as nothing is counted as dropped, the reader is given
\* what was typed after editing, escape sequences left out, and the line holds
\* the rest.
THEOREM TextIsDelivered == EchoSpec => []DeliversWhatWasTyped
<1>1. EchoInit => PathInv /\ TextInv
  BY PathAtBoot, TextAtBoot DEF EchoInit
<1>2. PathInv /\ TextInv /\ [EchoNext]_echoVars => PathInv' /\ TextInv'
  BY EchoIsInput, PathStep, StepKeepsText
<1>3. TextInv => DeliversWhatWasTyped
  BY DEF TextInv, DeliversWhatWasTyped
<1> QED
  BY <1>1, <1>2, <1>3, PTL DEF EchoSpec
-----------------------------------------------------------------------------
\* The way of the bytes that are still in a queue.  The state of the shell is
\* the text on its line and the commands it ran; that of the tty, seen from
\* the keys, is its filter and what Typing says of the text.
Ran(done, text) ==
    IF WithoutBlanks(Cut(text)) = <<>> THEN done ELSE Append(done, WithoutBlanks(Cut(text)))

Shell(x, c) ==
    IF c = CtrlC THEN <<<<>>, x[2]>>
    ELSE IF c = Newline THEN <<<<>>, Ran(x[2], x[1])>>
    ELSE IF ShellKeeps(c) THEN <<Append(x[1], c), x[2]>>
    ELSE x

Filtered(esc, b) ==
    IF esc = 0 THEN 1
    ELSE IF esc = 1 THEN (IF b \in {91, 79} THEN 2 ELSE 0)
    ELSE IF b \in 64 .. 126 THEN 0 ELSE 2

Through(x, b) ==
    IF x[1] # 0 \/ b = Esc THEN <<Filtered(x[1], b), x[2]>>
    ELSE <<0, TypedChar(x[2], b)>>

Turn(at, x, b) == IF at = "shell" THEN Shell(x, b) ELSE Through(x, b)

\* The bytes bs lead from x to y.
Leads(at, x, bs, y) ==
    \E w : /\ w[0] = x /\ w[Len(bs)] = y
           /\ \A i \in 1 .. Len(bs) : w[i] = Turn(at, w[i - 1], bs[i])

LEMMA NoneLead ==
    ASSUME NEW at, NEW x
    PROVE  /\ Leads(at, x, <<>>, x)
           /\ \A y : Leads(at, x, <<>>, y) => x = y
<1>1. Len(<<>>) = 0
  BY EmptySeq
<1>2. Leads(at, x, <<>>, x)
  <2> DEFINE w == [i \in 0 .. 0 |-> x]
  <2>1. w[0] = x
    OBVIOUS
  <2>2. \A i \in 1 .. 0 : w[i] = Turn(at, w[i - 1], <<>>[i])
    OBVIOUS
  <2> HIDE DEF w
  <2> QED
    BY <1>1, <2>1, <2>2 DEF Leads
<1>3. ASSUME NEW y, Leads(at, x, <<>>, y) PROVE x = y
  BY <1>1, <1>3, Zenon DEF Leads
<1> QED
  BY <1>2, <1>3

LEMMA HeadLeads ==
    ASSUME NEW at, NEW x, NEW y, NEW S, NEW bs \in Seq(S), bs # <<>>, Leads(at, x, bs, y)
    PROVE  Leads(at, Turn(at, x, Head(bs)), Tail(bs), y)
<1>1. PICK w : /\ w[0] = x /\ w[Len(bs)] = y
               /\ \A i \in 1 .. Len(bs) : w[i] = Turn(at, w[i - 1], bs[i])
  BY Zenon DEF Leads
<1> DEFINE n == Len(bs)
           v == [i \in 0 .. n - 1 |-> w[i + 1]]
<1>2. n \in Nat \ {0} /\ Head(bs) = bs[1] /\ Len(Tail(bs)) = n - 1
      /\ \A i \in 1 .. n - 1 : Tail(bs)[i] = bs[i + 1]
  BY EmptySeq, HeadTailProperties
<1> HIDE DEF n
<1>3. v[0] = Turn(at, x, Head(bs))
  <2>1. v[0] = w[1] /\ 1 \in 1 .. n /\ 1 - 1 = 0
    BY <1>2
  <2>2. w[1] = Turn(at, w[1 - 1], bs[1])
    BY <1>1, <2>1 DEF n
  <2> QED
    BY <1>1, <1>2, <2>1, <2>2
<1>4. v[n - 1] = y
  BY <1>1, <1>2 DEF n
<1>5. ASSUME NEW i \in 1 .. n - 1 PROVE v[i] = Turn(at, v[i - 1], Tail(bs)[i])
  <2>1. i + 1 \in 1 .. n /\ (i + 1) - 1 = i /\ i \in 0 .. n - 1 /\ i - 1 \in 0 .. n - 1
        /\ (i - 1) + 1 = i
    BY <1>2
  <2>2. w[i + 1] = Turn(at, w[(i + 1) - 1], bs[i + 1])
    BY <1>1, <2>1 DEF n
  <2>3. v[i] = w[i + 1] /\ v[i - 1] = w[i]
    BY <2>1
  <2>4. Tail(bs)[i] = bs[i + 1]
    BY <1>2
  <2> QED
    BY <2>1, <2>2, <2>3, <2>4, Zenon
<1> HIDE DEF v
<1> QED
  BY <1>2, <1>3, <1>4, <1>5, Zenon DEF Leads

LEMMA OnLeads ==
    ASSUME NEW at, NEW x, NEW y, NEW z, NEW S, NEW bs \in Seq(S), NEW cs \in Seq(S),
           Leads(at, x, bs, y), Leads(at, y, cs, z)
    PROVE  Leads(at, x, bs \o cs, z)
<1> DEFINE n == Len(bs)
           m == Len(cs)
<1>1. PICK w : /\ w[0] = x /\ w[n] = y
               /\ \A i \in 1 .. n : w[i] = Turn(at, w[i - 1], bs[i])
  BY Zenon DEF Leads
<1>2. PICK v : /\ v[0] = y /\ v[m] = z
               /\ \A i \in 1 .. m : v[i] = Turn(at, v[i - 1], cs[i])
  BY Zenon DEF Leads
<1>3. /\ n \in Nat /\ m \in Nat /\ Len(bs \o cs) = n + m
      /\ \A i \in 1 .. n : (bs \o cs)[i] = bs[i]
      /\ \A i \in n + 1 .. n + m : (bs \o cs)[i] = cs[i - n]
  BY ConcatProperties
<1> HIDE DEF n, m
<1> DEFINE u == [i \in 0 .. n + m |-> IF i <= n THEN w[i] ELSE v[i - n]]
<1>4. u[0] = x
  BY <1>1, <1>3
<1>5. u[n + m] = z
  <2>1. CASE m = 0
    BY <1>1, <1>2, <1>3, <2>1
  <2>2. CASE m # 0
    <3>1. n + m \in 0 .. n + m /\ ~ (n + m <= n) /\ (n + m) - n = m
      BY <1>3, <2>2
    <3> QED
      BY <1>2, <3>1
  <2> QED
    BY <2>1, <2>2
<1>6. ASSUME NEW i \in 1 .. n + m PROVE u[i] = Turn(at, u[i - 1], (bs \o cs)[i])
  <2>1. CASE i <= n
    <3>1. i \in 1 .. n /\ i \in 0 .. n + m /\ i - 1 \in 0 .. n + m /\ i - 1 <= n
      BY <1>3, <2>1
    <3>2. u[i] = w[i] /\ u[i - 1] = w[i - 1]
      BY <2>1, <3>1
    <3> QED
      BY <1>1, <1>3, <3>1, <3>2, Zenon
  <2>2. CASE ~ (i <= n)
    <3>1. i - n \in 1 .. m /\ i \in n + 1 .. n + m /\ i \in 0 .. n + m /\ i - 1 \in 0 .. n + m
      BY <1>3, <2>2
    <3>2. u[i] = v[i - n]
      BY <2>2, <3>1
    <3>3. u[i - 1] = v[(i - n) - 1]
      <4>1. CASE i - 1 = n
        <5>1. u[i - 1] = w[n] /\ (i - n) - 1 = 0
          BY <1>3, <4>1
        <5> QED
          BY <1>1, <1>2, <5>1
      <4>2. CASE i - 1 # n
        <5>1. ~ (i - 1 <= n) /\ (i - 1) - n = (i - n) - 1
          BY <1>3, <2>2, <4>2
        <5>2. u[i - 1] = v[(i - 1) - n]
          BY <3>1, <5>1
        <5> QED
          BY <5>1, <5>2
      <4> QED
        BY <4>1, <4>2
    <3>4. v[i - n] = Turn(at, v[(i - n) - 1], cs[i - n])
      BY <1>2, <3>1
    <3>5. (bs \o cs)[i] = cs[i - n]
      BY <1>3, <3>1
    <3> QED
      BY <3>2, <3>3, <3>4, <3>5, Zenon
  <2> QED
    BY <2>1, <2>2
<1> HIDE DEF u
<1> QED
  BY <1>3, <1>4, <1>5, <1>6, Zenon DEF Leads

LEMMA OneLeads ==
    ASSUME NEW at, NEW x, NEW b
    PROVE  Leads(at, x, <<b>>, Turn(at, x, b))
<1> DEFINE w == [i \in 0 .. 1 |-> IF i = 0 THEN x ELSE Turn(at, x, b)]
<1>1. Len(<<b>>) = 1 /\ <<b>>[1] = b
  OBVIOUS
<1>2. w[0] = x /\ w[1] = Turn(at, x, b)
  OBVIOUS
<1>3. \A i \in 1 .. 1 : i = 1 /\ i - 1 = 0
  OBVIOUS
<1> HIDE DEF w
<1>4. \A i \in 1 .. 1 : w[i] = Turn(at, w[i - 1], <<b>>[i])
  BY <1>1, <1>2, <1>3
<1> QED
  BY <1>1, <1>2, <1>4, Zenon DEF Leads

\* What holds of x and is kept by every turn holds of y.
LEMMA LeadsKeeps ==
    ASSUME NEW at, NEW x, NEW y, NEW S, NEW bs \in Seq(S), NEW T,
           x \in T, \A t \in T, b \in S : Turn(at, t, b) \in T, Leads(at, x, bs, y)
    PROVE  y \in T
<1> DEFINE n == Len(bs)
<1>1. PICK w : /\ w[0] = x /\ w[n] = y
               /\ \A i \in 1 .. n : w[i] = Turn(at, w[i - 1], bs[i])
  BY Zenon DEF Leads
<1>2. n \in Nat /\ \A i \in 1 .. n : bs[i] \in S
  BY ElementOfSeq
<1> HIDE DEF n
<1> DEFINE good == {i \in Nat : i \in 0 .. n => w[i] \in T}
<1>3. 0 \in good
  BY <1>1
<1>4. ASSUME NEW i \in Nat \ {0}, i - 1 \in good PROVE i \in good
  <2> SUFFICES ASSUME i \in 0 .. n PROVE w[i] \in T
    OBVIOUS
  <2>1. i - 1 \in 0 .. n /\ i \in 1 .. n
    BY <1>2
  <2>2. w[i - 1] \in T /\ bs[i] \in S
    BY <1>2, <1>4, <2>1
  <2> QED
    BY <1>1, <2>1, <2>2
<1>5. n \in good
  <2> HIDE DEF good
  <2> QED
    BY <1>2, <1>3, <1>4, Climb
<1> QED
  BY <1>1, <1>2, <1>5
-----------------------------------------------------------------------------
LEMMA PartOf ==
    ASSUME NEW S, NEW s \in Seq(S), NEW n \in 0 .. Len(s)
    PROVE  /\ SubSeq(s, 1, n) \in Seq(S) /\ Len(SubSeq(s, 1, n)) = n
           /\ \A i \in 1 .. n : SubSeq(s, 1, n)[i] = s[i]
<1>1. n \in Nat /\ \A i \in 1 .. n : s[i] \in S
  BY ElementOfSeq
<1> QED
  BY <1>1, SubSeqProperties

LEMMA SameSequence ==
    ASSUME NEW S, NEW s \in Seq(S), NEW R, NEW t \in Seq(R), Len(s) = Len(t),
           \A i \in 1 .. Len(s) : s[i] = t[i]
    PROVE  s = t
  OBVIOUS

\* What the shell's buffer keeps of a text (shell.c:319).
LEMMA CutIs ==
    ASSUME NEW s \in Seq(Octet)
    PROVE  /\ Cut(s) \in Seq(Octet)
           /\ Len(Cut(s)) = IF Len(s) < SHELL_LINE_MAX THEN Len(s) ELSE SHELL_LINE_MAX - 1
           /\ Len(Cut(s)) \in 0 .. Len(s) /\ Len(Cut(s)) < SHELL_LINE_MAX
           /\ \A i \in 1 .. Len(Cut(s)) : Cut(s)[i] = s[i]
<1> DEFINE n == IF Len(s) < SHELL_LINE_MAX THEN Len(s) ELSE SHELL_LINE_MAX - 1
<1>1. n \in 0 .. Len(s) /\ n < SHELL_LINE_MAX
  BY ShellAssumption
<1>2. Cut(s) = SubSeq(s, 1, n)
  BY DEF Cut
<1> HIDE DEF n
<1>3. /\ SubSeq(s, 1, n) \in Seq(Octet) /\ Len(SubSeq(s, 1, n)) = n
      /\ \A i \in 1 .. n : SubSeq(s, 1, n)[i] = s[i]
  BY <1>1, PartOf
<1>4. /\ Cut(s) \in Seq(Octet) /\ Len(Cut(s)) = n /\ \A i \in 1 .. n : Cut(s)[i] = s[i]
  BY <1>2, <1>3
<1> QED
  BY <1>1, <1>4 DEF n

\* Where the leading blanks of s end.
Start(s, i) == (i = Len(s) + 1 \/ s[i] # 32) /\ \A j \in 1 .. i - 1 : s[j] = 32

LEMMA StartExists ==
    ASSUME NEW S, NEW s \in Seq(S)
    PROVE  /\ \E i \in 1 .. Len(s) + 1 : Start(s, i)
           /\ \A i, j \in 1 .. Len(s) + 1 : Start(s, i) /\ Start(s, j) => i = j
<1> DEFINE T == {i \in 1 .. Len(s) + 1 : i = Len(s) + 1 \/ s[i] # 32}
<1>1. T \subseteq Nat /\ Len(s) + 1 \in T
  OBVIOUS
<1> HIDE DEF T
<1>2. PICK x \in T : \A y \in T : x <= y
  BY <1>1, Least
<1>3. x \in 1 .. Len(s) + 1 /\ (x = Len(s) + 1 \/ s[x] # 32)
  BY <1>2 DEF T
<1>4. ASSUME NEW j \in 1 .. x - 1 PROVE s[j] = 32
  <2>1. j \in 1 .. Len(s) + 1 /\ ~ (x <= j)
    BY <1>3
  <2> QED
    BY <1>2, <2>1 DEF T
<1>5. Start(s, x)
  BY <1>3, <1>4 DEF Start
<1>6. ASSUME NEW i \in 1 .. Len(s) + 1, NEW j \in 1 .. Len(s) + 1, Start(s, i), Start(s, j)
      PROVE  ~ (i < j)
  BY <1>6 DEF Start
<1>7. ASSUME NEW i \in 1 .. Len(s) + 1, NEW j \in 1 .. Len(s) + 1, Start(s, i), Start(s, j)
      PROVE  i = j
  BY <1>6, <1>7
<1> QED
  BY <1>3, <1>5, <1>7

LEMMA BlanksAre ==
    ASSUME NEW s \in Seq(Octet)
    PROVE  /\ WithoutBlanks(s) \in Seq(Octet)
           /\ \A i \in 1 .. Len(s) + 1 : Start(s, i) => WithoutBlanks(s) = SubSeq(s, i, Len(s))
<1> DEFINE first == CHOOSE i \in 1 .. Len(s) + 1 : Start(s, i)
<1>1. first \in 1 .. Len(s) + 1 /\ Start(s, first)
  <2>1. \E i \in 1 .. Len(s) + 1 : Start(s, i)
    BY StartExists
  <2> QED
    BY <2>1, Zenon
<1>2. WithoutBlanks(s) = SubSeq(s, first, Len(s))
  BY Zenon DEF WithoutBlanks, Start
<1> HIDE DEF first
<1>3. \A i \in 1 .. Len(s) + 1 : Start(s, i) => i = first
  BY <1>1, StartExists
<1>4. /\ first \in Nat /\ Len(s) \in Nat /\ \A i \in first .. Len(s) : s[i] \in Octet
  BY <1>1, ElementOfSeq
<1>5. SubSeq(s, first, Len(s)) \in Seq(Octet)
  BY <1>4, SubSeqProperties
<1> QED
  BY <1>2, <1>3, <1>5
-----------------------------------------------------------------------------
Commands == Seq(Seq(Octet))
Texts == [line : Seq(Octet), sent : Seq(Octet), commands : Commands]

LEMMA StaysPrefix ==
    ASSUME NEW S, NEW p \in Seq(S), NEW q \in Seq(S), NEW e \in S
    PROVE  IsPrefix(p, p) /\ (IsPrefix(p, q) => IsPrefix(p, Append(q, e)))
<1>1. IsPrefix(p, p)
  BY DEF IsPrefix
<1>2. ASSUME IsPrefix(p, q) PROVE IsPrefix(p, Append(q, e))
  <2> DEFINE n == Len(p)
  <2>1. n \in 0 .. Len(p) /\ n \in 0 .. Len(q) /\ SubSeq(p, 1, n) = SubSeq(q, 1, n)
    BY <1>2 DEF IsPrefix
  <2>2. /\ Append(q, e) \in Seq(S) /\ Len(Append(q, e)) = Len(q) + 1
        /\ \A i \in 1 .. Len(q) : Append(q, e)[i] = q[i]
    BY AppendProperties
  <2>3. n \in 0 .. Len(Append(q, e))
    BY <2>1, <2>2
  <2> HIDE DEF n
  <2> DEFINE a == SubSeq(q, 1, n)
             b == SubSeq(Append(q, e), 1, n)
  <2>4. /\ a \in Seq(S) /\ Len(a) = n /\ \A i \in 1 .. n : a[i] = q[i]
    BY <2>1, PartOf
  <2>5. /\ b \in Seq(S) /\ Len(b) = n /\ \A i \in 1 .. n : b[i] = Append(q, e)[i]
    BY <2>2, <2>3, PartOf
  <2>6. \A i \in 1 .. n : a[i] = b[i]
    BY <2>1, <2>2, <2>4, <2>5
  <2> HIDE DEF a, b
  <2>7. a = b
    BY <2>4, <2>5, <2>6, SameSequence
  <2> QED
    BY <2>1, <2>3, <2>7 DEF IsPrefix, n, a, b
<1> QED
  BY <1>1, <1>2

LEMMA RanIs ==
    ASSUME NEW done \in Commands, NEW text \in Seq(Octet)
    PROVE  /\ Ran(done, text) \in Commands
           /\ \A p \in Commands : IsPrefix(p, done) => IsPrefix(p, Ran(done, text))
<1> DEFINE command == WithoutBlanks(Cut(text))
<1>1. command \in Seq(Octet)
  BY CutIs, BlanksAre
<1>2. Ran(done, text) = IF command = <<>> THEN done ELSE Append(done, command)
  BY DEF Ran
<1> HIDE DEF command
<1>3. Append(done, command) \in Commands
  BY <1>1 DEF Commands
<1>4. \A p \in Commands : IsPrefix(p, done) => IsPrefix(p, Append(done, command))
  BY <1>1, StaysPrefix DEF Commands
<1> QED
  BY <1>2, <1>3, <1>4

LEMMA ShellTurns ==
    ASSUME NEW p \in Commands, NEW x \in Seq(Octet) \X Commands, IsPrefix(p, x[2]),
           NEW c \in Octet
    PROVE  Shell(x, c) \in Seq(Octet) \X Commands /\ IsPrefix(p, Shell(x, c)[2])
<1>1. PICK text \in Seq(Octet), done \in Commands : x = <<text, done>>
  OBVIOUS
<1>2. /\ <<>> \in Seq(Octet) /\ Append(text, c) \in Seq(Octet)
      /\ Ran(done, text) \in Commands /\ IsPrefix(p, done) /\ IsPrefix(p, Ran(done, text))
  BY <1>1, RanIs
<1>3. ASSUME NEW a \in Seq(Octet), NEW d \in Commands, IsPrefix(p, d), Shell(x, c) = <<a, d>>
      PROVE  Shell(x, c) \in Seq(Octet) \X Commands /\ IsPrefix(p, Shell(x, c)[2])
  BY <1>3
<1>4. \/ Shell(x, c) = <<<<>>, done>> \/ Shell(x, c) = <<<<>>, Ran(done, text)>>
      \/ Shell(x, c) = <<Append(text, c), done>> \/ Shell(x, c) = <<text, done>>
  BY <1>1 DEF Shell
<1> QED
  BY <1>2, <1>3, <1>4

\* Typing, without EXCEPT.
Retyped(l, s, d, c) ==
    CASE c = 3 -> [line |-> <<>>, sent |-> <<>>, commands |-> d]
      [] c = 4 -> [line |-> <<>>, sent |-> s \o l, commands |-> d]
      [] c = 8 -> [line |-> IF l = <<>> THEN l ELSE Front(l), sent |-> s, commands |-> d]
      [] c = 10 -> [line |-> <<>>, sent |-> <<>>, commands |-> Ran(d, s \o l)]
      [] c >= 32 \/ c = 9 -> [line |-> Append(l, c), sent |-> s, commands |-> d]
      [] OTHER -> [line |-> l, sent |-> s, commands |-> d]

LEMMA TypedIs ==
    ASSUME NEW l \in Seq(Octet), NEW s \in Seq(Octet), NEW d \in Commands, NEW c \in Octet,
           NEW st, st = [line |-> l, sent |-> s, commands |-> d]
    PROVE  TypedChar(st, c) = Retyped(l, s, d, c)
<1>1. st.line = l /\ st.sent = s /\ st.commands = d
  OBVIOUS
<1>2. PICK n, w, r : /\ n = (IF l = <<>> THEN l ELSE Front(l)) /\ w = s \o l
                     /\ r = Append(l, c)
  OBVIOUS
<1>a. ASSUME NEW y, NEW z
      PROVE  [st EXCEPT !.line = y, !.sent = z] = [line |-> y, sent |-> z, commands |-> d]
  <2> HIDE PtyAssumption, TtyAssumption
  <2>1. [st EXCEPT !.line = y, !.sent = z] \in [line : {y}, sent : {z}, commands : {d}]
    OBVIOUS
  <2>2. \A t \in [line : {y}, sent : {z}, commands : {d}] :
            t = [line |-> y, sent |-> z, commands |-> d]
    OBVIOUS
  <2> QED
    BY <2>1, <2>2, Zenon
<1>b. \A y : [st EXCEPT !.line = y] = [line |-> y, sent |-> s, commands |-> d]
  OBVIOUS
<1>3. /\ [st EXCEPT !.line = <<>>, !.sent = <<>>]
            = [line |-> <<>>, sent |-> <<>>, commands |-> d]
      /\ [st EXCEPT !.line = <<>>, !.sent = w] = [line |-> <<>>, sent |-> w, commands |-> d]
      /\ [st EXCEPT !.line = n] = [line |-> n, sent |-> s, commands |-> d]
      /\ [st EXCEPT !.line = r] = [line |-> r, sent |-> s, commands |-> d]
  BY <1>a, <1>b, Zenon
<1>4. /\ [st EXCEPT !.line = IF @ = <<>> THEN @ ELSE Front(@)] = [st EXCEPT !.line = n]
      /\ [st EXCEPT !.line = Append(@, c)] = [st EXCEPT !.line = r]
  BY <1>1, <1>2, Zenon
<1>5. CASE c = 3
  BY <1>3, <1>5 DEF TypedChar, Retyped
<1>6. CASE c = 4
  BY <1>1, <1>2, <1>3, <1>6 DEF TypedChar, Retyped
<1>7. CASE c = 8
  BY <1>2, <1>3, <1>4, <1>7 DEF TypedChar, Retyped
<1>8. CASE c = 10
  BY <1>1, <1>8 DEF TypedChar, Retyped, Ran
<1>9. CASE c >= 32 \/ c = 9
  BY <1>2, <1>3, <1>4, <1>9 DEF TypedChar, Retyped
<1>10. CASE c \notin {3, 4, 8, 10} /\ ~ (c >= 32 \/ c = 9)
  BY <1>10 DEF TypedChar, Retyped
<1> QED
  BY <1>5, <1>6, <1>7, <1>8, <1>9, <1>10
-----------------------------------------------------------------------------
LEMMA TypedTurns ==
    ASSUME NEW p \in Commands, NEW st \in Texts, IsPrefix(p, st.commands), NEW c \in Octet
    PROVE  TypedChar(st, c) \in Texts /\ IsPrefix(p, TypedChar(st, c).commands)
<1>1. PICK l \in Seq(Octet), s \in Seq(Octet), d \in Commands :
          st = [line |-> l, sent |-> s, commands |-> d]
  BY DEF Texts
<1>2. ASSUME NEW a \in Seq(Octet), NEW b \in Seq(Octet), NEW e \in Commands, IsPrefix(p, e),
             TypedChar(st, c) = [line |-> a, sent |-> b, commands |-> e]
      PROVE  TypedChar(st, c) \in Texts /\ IsPrefix(p, TypedChar(st, c).commands)
  BY <1>2 DEF Texts
<1>3. <<>> \in Seq(Octet) /\ s \o l \in Seq(Octet) /\ Append(l, c) \in Seq(Octet)
  BY ConcatProperties
<1>4. (IF l = <<>> THEN l ELSE Front(l)) \in Seq(Octet)
  <2>1. CASE l # <<>>
    <3>1. PICK n : n = Len(l) - 1 /\ n \in 0 .. Len(l)
      BY <2>1, EmptySeq
    <3>2. SubSeq(l, 1, n) \in Seq(Octet)
      BY <3>1, PartOf
    <3> QED
      BY <2>1, <3>1, <3>2 DEF Front
  <2> QED
    BY <2>1
<1>5. IsPrefix(p, d) /\ Ran(d, s \o l) \in Commands /\ IsPrefix(p, Ran(d, s \o l))
  BY <1>1, <1>3, RanIs
<1>6. TypedChar(st, c) = Retyped(l, s, d, c)
  BY <1>1, TypedIs
<1>7. CASE c = 3
  <2>1. TypedChar(st, c) = [line |-> <<>>, sent |-> <<>>, commands |-> d]
    BY <1>6, <1>7 DEF Retyped
  <2> QED
    BY <1>2, <1>3, <1>5, <2>1
<1>8. CASE c = 4
  <2>1. TypedChar(st, c) = [line |-> <<>>, sent |-> s \o l, commands |-> d]
    BY <1>6, <1>8 DEF Retyped
  <2> QED
    BY <1>2, <1>3, <1>5, <2>1
<1>9. CASE c = 8
  <2>1. TypedChar(st, c)
           = [line |-> IF l = <<>> THEN l ELSE Front(l), sent |-> s, commands |-> d]
    BY <1>6, <1>9 DEF Retyped
  <2> QED
    BY <1>2, <1>4, <1>5, <2>1
<1>10. CASE c = 10
  <2>1. TypedChar(st, c) = [line |-> <<>>, sent |-> <<>>, commands |-> Ran(d, s \o l)]
    BY <1>6, <1>10 DEF Retyped
  <2> QED
    BY <1>2, <1>3, <1>5, <2>1
<1>11. CASE c >= 32 \/ c = 9
  <2>1. TypedChar(st, c) = [line |-> Append(l, c), sent |-> s, commands |-> d]
    BY <1>6, <1>11 DEF Retyped
  <2> QED
    BY <1>2, <1>3, <1>5, <2>1
<1>12. CASE c \notin {3, 4, 8, 10} /\ ~ (c >= 32 \/ c = 9)
  <2>1. TypedChar(st, c) = st
    BY <1>1, <1>6, <1>12 DEF Retyped
  <2> QED
    BY <2>1
<1> QED
  BY <1>7, <1>8, <1>9, <1>10, <1>11, <1>12

LEMMA ThroughTurns ==
    ASSUME NEW p \in Commands, NEW x \in (0 .. 2) \X Texts, IsPrefix(p, x[2].commands),
           NEW b \in Octet
    PROVE  Through(x, b) \in (0 .. 2) \X Texts /\ IsPrefix(p, Through(x, b)[2].commands)
<1>1. PICK esc \in 0 .. 2, st \in Texts : x = <<esc, st>>
  OBVIOUS
<1>2. TypedChar(st, b) \in Texts /\ IsPrefix(p, TypedChar(st, b).commands)
  BY <1>1, TypedTurns
<1>3. Filtered(esc, b) \in 0 .. 2
  BY DEF Filtered
<1>4. CASE esc # 0 \/ b = Esc
  <2>1. Through(x, b) = <<Filtered(esc, b), st>>
    BY <1>1, <1>4 DEF Through
  <2> QED
    BY <1>1, <1>3, <2>1
<1>5. CASE ~ (esc # 0 \/ b = Esc)
  <2>1. Through(x, b) = <<0, TypedChar(st, b)>>
    BY <1>1, <1>5 DEF Through
  <2> QED
    BY <1>2, <2>1
<1> QED
  BY <1>4, <1>5

\* Whatever waits in the queues, what was executed stays executed.
LEMMA ShellLeads ==
    ASSUME NEW p \in Commands, NEW x \in Seq(Octet) \X Commands, IsPrefix(p, x[2]),
           NEW bs \in Seq(Octet), NEW y, Leads("shell", x, bs, y)
    PROVE  y \in Seq(Octet) \X Commands /\ IsPrefix(p, y[2])
<1> DEFINE T == {t \in Seq(Octet) \X Commands : IsPrefix(p, t[2])}
<1>1. x \in T
  OBVIOUS
<1>2. \A t \in T, b \in Octet : Turn("shell", t, b) \in T
  BY ShellTurns DEF Turn
<1> HIDE DEF T
<1>3. y \in T
  BY <1>1, <1>2, LeadsKeeps
<1> QED
  BY <1>3 DEF T

LEMMA KeysLead ==
    ASSUME NEW p \in Commands, NEW x \in (0 .. 2) \X Texts, IsPrefix(p, x[2].commands),
           NEW bs \in Seq(Octet), NEW y, Leads("tty", x, bs, y)
    PROVE  y \in (0 .. 2) \X Texts /\ IsPrefix(p, y[2].commands)
<1> DEFINE T == {t \in (0 .. 2) \X Texts : IsPrefix(p, t[2].commands)}
<1>1. x \in T
  OBVIOUS
<1>2. \A t \in T, b \in Octet : Turn("tty", t, b) \in T
  BY ThroughTurns DEF Turn
<1> HIDE DEF T
<1>3. y \in T
  BY <1>1, <1>2, LeadsKeeps
<1> QED
  BY <1>3 DEF T
-----------------------------------------------------------------------------
\* A line that is handed over is appended to the shell's (shell.c:375).
Kept == {c \in Octet : ShellKeeps(c)}

LEMMA KeptIs == \A c \in Kept : c \in Octet /\ ShellKeeps(c) /\ c # CtrlC /\ c # Newline
  BY DEF Kept, ShellKeeps, CtrlC, Newline, Octet

LEMMA LineLeads ==
    ASSUME NEW text \in Seq(Octet), NEW done, NEW line \in Seq(Kept)
    PROVE  Leads("shell", <<text, done>>, line, <<text \o line, done>>)
<1> DEFINE n == Len(line)
           w == [i \in 0 .. n |-> <<text \o SubSeq(line, 1, i), done>>]
<1>1. n \in Nat /\ \A i \in 1 .. n : line[i] \in Kept /\ line[i] \in Octet
  BY ElementOfSeq, KeptIs
<1>2. w[0] = <<text, done>>
  <2>1. SubSeq(line, 1, 0) = <<>> /\ text \o <<>> = text /\ 0 \in 0 .. n
    BY <1>1, PartOf, EmptySeq
  <2> QED
    BY <2>1
<1>3. w[n] = <<text \o line, done>>
  BY <1>1, SubSeqFull
<1>4. ASSUME NEW i \in 1 .. n PROVE w[i] = Turn("shell", w[i - 1], line[i])
  <2> DEFINE a == SubSeq(line, 1, i - 1)
             b == SubSeq(line, 1, i)
             c == line[i]
  <2>1. i - 1 \in 0 .. n /\ i \in 0 .. n /\ i \in 1 .. i
    BY <1>1
  <2>2. /\ a \in Seq(Kept) /\ Len(a) = i - 1 /\ \A j \in 1 .. i - 1 : a[j] = line[j]
        /\ b \in Seq(Kept) /\ Len(b) = i /\ \A j \in 1 .. i : b[j] = line[j]
    <3>1. \A k \in 0 .. n : LET s == SubSeq(line, 1, k)
                            IN  /\ s \in Seq(Kept) /\ Len(s) = k
                                /\ \A j \in 1 .. k : s[j] = line[j]
      BY PartOf
    <3> QED
      BY <2>1, <3>1
  <2>3. c \in Kept /\ c \in Octet /\ ShellKeeps(c) /\ c # CtrlC /\ c # Newline
    BY <1>1, KeptIs
  <2>4. w[i] = <<text \o b, done>> /\ w[i - 1] = <<text \o a, done>>
    BY <2>1
  <2>5. b = Append(a, c)
    BY <2>2
  <2>6. \A s \in Seq(Kept) : text \o Append(s, c) = Append(text \o s, c)
    <3>1. \A s \in Seq(Kept) : s \in Seq(Octet)
      BY <1>1, SeqMonotonic, KeptIs
    <3> QED
      BY <2>3, <3>1
  <2> HIDE DEF w, a, b, c
  <2>7. Turn("shell", <<text \o a, done>>, c) = <<Append(text \o a, c), done>>
    BY <2>3 DEF Turn, Shell
  <2>8. text \o b = Append(text \o a, c)
    BY <2>2, <2>5, <2>6, Zenon
  <2>9. w[i] = Turn("shell", w[i - 1], c)
    BY <2>4, <2>7, <2>8, Zenon
  <2> QED
    BY <2>9 DEF c
<1> HIDE DEF w
<1> QED
  BY <1>2, <1>3, <1>4, Zenon DEF Leads
-----------------------------------------------------------------------------
\* A whole escape sequence, as every special key types one (keyboard.c:256-340).
IsEscape(bs) ==
    /\ Len(bs) >= 3 /\ bs[1] = Esc /\ bs[2] \in {91, 79} /\ bs[Len(bs)] \in 64 .. 126
    /\ \A i \in 3 .. Len(bs) - 1 : bs[i] \notin 64 .. 126
Escapes == {bs \in Seq(KeyByte) : IsEscape(bs)}

LEMMA ShortEscapes ==
    ASSUME NEW o \in {91, 79}, NEW f \in 64 .. 126
    PROVE  <<27, o, f>> \in Escapes
<1> DEFINE bs == <<27, o, f>>
<1>1. Len(bs) = 3 /\ bs[1] = 27 /\ bs[2] = o /\ bs[3] = f /\ bs \in Seq(KeyByte)
  BY DEF KeyByte
<1> HIDE DEF bs
<1>2. \A i \in 3 .. 3 - 1 : FALSE
  OBVIOUS
<1>3. IsEscape(bs)
  BY <1>1, <1>2 DEF IsEscape, Esc
<1> QED
  BY <1>1, <1>3 DEF Escapes, bs

LEMMA TildeEscapes ==
    ASSUME NEW p \in 48 .. 57
    PROVE  <<27, 91, p, 126>> \in Escapes
<1> DEFINE bs == <<27, 91, p, 126>>
<1>1. Len(bs) = 4 /\ bs[1] = 27 /\ bs[2] = 91 /\ bs[3] = p /\ bs[4] = 126 /\ bs \in Seq(KeyByte)
  BY DEF KeyByte
<1> HIDE DEF bs
<1>2. \A i \in 3 .. Len(bs) - 1 : bs[i] \notin 64 .. 126
  <2>1. \A i \in 3 .. 4 - 1 : i = 3
    OBVIOUS
  <2>2. bs[3] \notin 64 .. 126
    BY <1>1
  <2> QED
    BY <1>1, <2>1, <2>2, Zenon
<1>3. IsEscape(bs)
  BY <1>1, <1>2 DEF IsEscape, Esc
<1> QED
  BY <1>1, <1>3 DEF Escapes, bs

LEMMA LongEscapes ==
    ASSUME NEW p \in 48 .. 57, NEW q \in 48 .. 57
    PROVE  <<27, 91, p, q, 126>> \in Escapes
<1> DEFINE bs == <<27, 91, p, q, 126>>
<1>1. /\ Len(bs) = 5 /\ bs[1] = 27 /\ bs[2] = 91 /\ bs[3] = p /\ bs[4] = q /\ bs[5] = 126
      /\ bs \in Seq(KeyByte)
  BY DEF KeyByte
<1> HIDE DEF bs
<1>2. \A i \in 3 .. Len(bs) - 1 : bs[i] \notin 64 .. 126
  <2>1. \A i \in 3 .. 5 - 1 : i = 3 \/ i = 4
    OBVIOUS
  <2>2. bs[3] \notin 64 .. 126 /\ bs[4] \notin 64 .. 126
    BY <1>1
  <2> QED
    BY <1>1, <2>1, <2>2, Zenon
<1>3. IsEscape(bs)
  BY <1>1, <1>2 DEF IsEscape, Esc
<1> QED
  BY <1>1, <1>3 DEF Escapes, bs

LEMMA SequencesEscape == Into(SpecialSequences, Escapes)
<1>1. \A f \in 64 .. 126 : Csi(f) \in Escapes /\ Ss3(f) \in Escapes
  BY ShortEscapes DEF Csi, Ss3
<1>2. \A p \in 48 .. 57 : Tilde(p) \in Escapes
  BY TildeEscapes DEF Tilde
<1>3. \A p, q \in 48 .. 57 : Tilde2(p, q) \in Escapes
  BY LongEscapes DEF Tilde2
<1>4. /\ Csi(65) \in Escapes /\ Csi(66) \in Escapes /\ Csi(67) \in Escapes
      /\ Csi(68) \in Escapes /\ Csi(72) \in Escapes /\ Csi(70) \in Escapes
  BY <1>1
<1>5. /\ Ss3(80) \in Escapes /\ Ss3(81) \in Escapes /\ Ss3(82) \in Escapes /\ Ss3(83) \in Escapes
  BY <1>1
<1>6. /\ Tilde(50) \in Escapes /\ Tilde(51) \in Escapes /\ Tilde(53) \in Escapes
      /\ Tilde(54) \in Escapes
  BY <1>2
<1>7. /\ Tilde2(49, 53) \in Escapes /\ Tilde2(49, 55) \in Escapes /\ Tilde2(49, 56) \in Escapes
      /\ Tilde2(49, 57) \in Escapes /\ Tilde2(50, 48) \in Escapes /\ Tilde2(50, 49) \in Escapes
      /\ Tilde2(50, 51) \in Escapes /\ Tilde2(50, 52) \in Escapes
  BY <1>3
<1>8. \A p \in SequencePairs : p[2] \in Escapes
  BY <1>4, <1>5, <1>6, <1>7 DEF SequencePairs
<1> QED
  BY <1>8, TableInto DEF SpecialSequences

\* The filter takes such a sequence and is where it was before.
LEMMA EscapesLead ==
    ASSUME NEW bs \in Escapes, NEW st
    PROVE  Leads("tty", <<0, st>>, bs, <<0, st>>)
<1> DEFINE n == Len(bs)
           esc(i) == IF i = 0 \/ i = n THEN 0 ELSE IF i = 1 THEN 1 ELSE 2
           w == [i \in 0 .. n |-> <<esc(i), st>>]
<1>1. /\ n \in Nat /\ n >= 3 /\ bs[1] = Esc /\ bs[2] \in {91, 79} /\ bs[n] \in 64 .. 126
      /\ \A i \in 3 .. n - 1 : bs[i] \notin 64 .. 126
  BY DEF Escapes, IsEscape
<1> HIDE DEF n
<1>2. ASSUME NEW i \in 1 .. n PROVE w[i] = Turn("tty", w[i - 1], bs[i])
  <2>1. i \in 0 .. n /\ i - 1 \in 0 .. n /\ i - 1 # n
    BY <1>1
  <2>2. w[i] = <<esc(i), st>> /\ w[i - 1] = <<esc(i - 1), st>>
    BY <2>1
  <2>3. esc(i) = Filtered(esc(i - 1), bs[i]) /\ (esc(i - 1) # 0 \/ bs[i] = Esc)
    <3>1. CASE i = 1
      BY <1>1, <3>1 DEF Filtered
    <3>2. CASE i = 2
      BY <1>1, <3>2 DEF Filtered
    <3>3. CASE i \in 3 .. n - 1
      BY <1>1, <3>3 DEF Filtered
    <3>4. CASE i = n
      BY <1>1, <3>4 DEF Filtered
    <3>5. i = 1 \/ i = 2 \/ i \in 3 .. n - 1 \/ i = n
      BY <1>1
    <3> QED
      BY <3>1, <3>2, <3>3, <3>4, <3>5
  <2> HIDE DEF esc, w
  <2>4. Turn("tty", <<esc(i - 1), st>>, bs[i]) = <<Filtered(esc(i - 1), bs[i]), st>>
    BY <2>3 DEF Turn, Through
  <2> QED
    BY <2>2, <2>3, <2>4
<1>3. w[0] = <<0, st>> /\ w[n] = <<0, st>>
  BY <1>1
<1> HIDE DEF w
<1> QED
  BY <1>2, <1>3, Zenon DEF Leads, n

\* What a key that types no Esc types is what Typing takes it for.
LEMMA StrokeLeads ==
    ASSUME NEW s, ~ TypesEsc(s), NEW st
    PROVE  Leads("tty", <<0, st>>, InputBytes(s[1], s[2], {}), <<0, TypedChar(st, Char(s))>>)
<1> DEFINE c == kbd_keycode_to_unicode(s[1], s[2], {})
           bs == InputBytes(s[1], s[2], {})
<1>0. Char(s) = c
  BY DEF Char
<1>1. CASE c # 0
  <2>1. c # Esc /\ ~ (s[2] \cap {"ALT", "ALTGR"} # {})
    BY <1>0, <1>1 DEF TypesEsc
  <2>2. bs = <<>> \o <<c>>
    BY <1>1, <2>1 DEF InputBytes
  <2>3. bs = <<c>>
    BY <2>2
  <2> HIDE DEF c, bs
  <2>4. Turn("tty", <<0, st>>, c) = <<0, TypedChar(st, c)>>
    BY <2>1 DEF Turn, Through
  <2>5. Leads("tty", <<0, st>>, <<c>>, <<0, TypedChar(st, c)>>)
    BY <2>4, OneLeads
  <2> QED
    BY <1>0, <2>3, <2>5 DEF bs
<1>2. CASE c = 0
  <2>1. TypedChar(st, 0) = st
    BY DEF TypedChar
  <2>2. bs = SpecialSequence(s[1])
    BY <1>2 DEF InputBytes
  <2>3. bs \in Escapes \/ bs = <<>>
    BY <2>2, SequencesEscape DEF SpecialSequence, Into
  <2> HIDE DEF c, bs
  <2>4. Leads("tty", <<0, st>>, bs, <<0, st>>)
    BY <2>3, EscapesLead, NoneLead
  <2> QED
    BY <1>0, <1>2, <2>1, <2>4 DEF bs
<1> QED
  BY <1>1, <1>2
-----------------------------------------------------------------------------
\* Expected, for any strokes.
Spelt(ss) ==
    LET after[i \in 0 .. Len(ss)] ==
            IF i = 0 THEN Blank ELSE TypedChar(after[i - 1], Char(ss[i]))
    IN  after[Len(ss)]

LEMMA SpeltLoop ==
    ASSUME NEW S, NEW ss \in Seq(S)
    PROVE  \E after : /\ after[0] = Blank
                      /\ \A i \in 1 .. Len(ss) : after[i] = TypedChar(after[i - 1], Char(ss[i]))
                      /\ Spelt(ss) = after[Len(ss)]
<1> DEFINE Next1(a, i) == IF i = 0 THEN Blank ELSE TypedChar(a[i - 1], Char(ss[i]))
           All(a, m) == [i \in 0 .. m |-> Next1(a, i)]
           good == {m \in Nat : \E a : a = All(a, m)}
<1>1. 0 \in good
  <2> DEFINE a == [i \in 0 .. 0 |-> Blank]
  <2>1. a = All(a, 0)
    OBVIOUS
  <2> QED
    BY <2>1
<1>2. ASSUME NEW m \in Nat \ {0}, m - 1 \in good PROVE m \in good
  <2>1. PICK a : a = All(a, m - 1)
    BY <1>2
  <2> DEFINE b == [i \in 0 .. m |-> IF i = m THEN Next1(a, m) ELSE a[i]]
  <2>2. ASSUME NEW i \in 0 .. m PROVE b[i] = Next1(b, i)
    <3>1. CASE i = m
      <4>1. b[m - 1] = a[m - 1]
        OBVIOUS
      <4> QED
        BY <3>1, <4>1
    <3>2. CASE i # m
      <4>1. b[i] = a[i] /\ (i # 0 => b[i - 1] = a[i - 1])
        BY <3>2
      <4>2. a[i] = Next1(a, i)
        BY <2>1, <3>2
      <4> QED
        BY <4>1, <4>2
    <3> QED
      BY <3>1, <3>2
  <2>3. b = All(b, m)
    BY <2>2
  <2> QED
    BY <2>3
<1>3. Len(ss) \in good
  <2> HIDE DEF good
  <2>1. Len(ss) \in Nat
    OBVIOUS
  <2> QED
    BY <1>1, <1>2, <2>1, Climb
<1>4. PICK any : any = All(any, Len(ss))
  BY <1>3
<1> DEFINE after == CHOOSE a : a = All(a, Len(ss))
<1>5. after = All(after, Len(ss))
  BY <1>4, Zenon
<1>6. Spelt(ss) = after[Len(ss)]
  BY Zenon DEF Spelt
<1> HIDE DEF after
<1>7. after[0] = Blank /\ \A i \in 1 .. Len(ss) : after[i] = TypedChar(after[i - 1], Char(ss[i]))
  <2>1. 0 \in 0 .. Len(ss) /\ \A i \in 1 .. Len(ss) : i \in 0 .. Len(ss) /\ i # 0
    OBVIOUS
  <2>2. \A i \in 0 .. Len(ss) : after[i] = Next1(after, i)
    BY <1>5, Zenon
  <2> QED
    BY <2>1, <2>2, Zenon
<1> QED
  BY <1>6, <1>7, Zenon

LEMMA SpeltGrows ==
    ASSUME NEW S, NEW ss \in Seq(S), NEW s \in S, NEW more, more = Append(ss, s)
    PROVE  Spelt(more) = TypedChar(Spelt(ss), Char(s))
<1> DEFINE n == Len(ss)
<1>1. /\ more \in Seq(S) /\ n \in Nat /\ Len(more) = n + 1
      /\ more[n + 1] = s /\ \A i \in 1 .. n : more[i] = ss[i]
  BY AppendProperties
<1>2. PICK a : /\ a[0] = Blank
               /\ \A i \in 1 .. n : a[i] = TypedChar(a[i - 1], Char(ss[i]))
               /\ Spelt(ss) = a[n]
  BY SpeltLoop
<1>3. PICK b : /\ b[0] = Blank
               /\ \A i \in 1 .. Len(more) : b[i] = TypedChar(b[i - 1], Char(more[i]))
               /\ Spelt(more) = b[Len(more)]
  BY <1>1, SpeltLoop
<1> DEFINE good == {m \in Nat : m \in 0 .. n => b[m] = a[m]}
<1>4. 0 \in good
  BY <1>2, <1>3
<1>5. ASSUME NEW m \in Nat \ {0}, m - 1 \in good PROVE m \in good
  <2> SUFFICES ASSUME m \in 0 .. n PROVE b[m] = a[m]
    OBVIOUS
  <2>1. m - 1 \in 0 .. n /\ m \in 1 .. n /\ m \in 1 .. Len(more)
    BY <1>1
  <2>2. b[m - 1] = a[m - 1]
    BY <1>5, <2>1
  <2>3. more[m] = ss[m]
    BY <1>1, <2>1
  <2>4. a[m] = TypedChar(a[m - 1], Char(ss[m])) /\ b[m] = TypedChar(b[m - 1], Char(more[m]))
    BY <1>2, <1>3, <2>1, Zenon
  <2> QED
    BY <2>2, <2>3, <2>4, Zenon
<1>6. n \in good
  <2> HIDE DEF good
  <2> QED
    BY <1>1, <1>4, <1>5, Climb
<1>7. b[n] = a[n]
  BY <1>1, <1>6
<1>8. n + 1 \in 1 .. Len(more) /\ (n + 1) - 1 = n
  BY <1>1
<1>9. b[n + 1] = TypedChar(b[(n + 1) - 1], Char(more[n + 1]))
  BY <1>3, <1>8, Zenon
<1> QED
  BY <1>1, <1>2, <1>3, <1>7, <1>8, <1>9, Zenon
-----------------------------------------------------------------------------
\* The bytes on their way to the shell's line.
Waiting == pty_buf \o Sink

LEMMA SinkIs ==
    /\ RouteInv => Sink = IF session_active_pty = 0 THEN g_ptys[0].m2s ELSE tty_read_queue
    /\ RouteInv' => Sink' = IF session_active_pty' = 0 THEN g_ptys'[0].m2s ELSE tty_read_queue'
<1>1. 0 \in Ptys /\ -1 \notin Ptys
  BY ShellAssumption DEF Ptys
<1>2. ASSUME RouteInv
      PROVE  Sink = IF session_active_pty = 0 THEN g_ptys[0].m2s ELSE tty_read_queue
  BY <1>1, <1>2 DEF RouteInv, Sink, Attached, pty_is_valid
<1>3. ASSUME RouteInv'
      PROVE  Sink' = IF session_active_pty' = 0 THEN g_ptys'[0].m2s ELSE tty_read_queue'
  BY <1>1, <1>3 DEF RouteInv, Sink, Attached, pty_is_valid
<1> QED
  BY <1>2, <1>3

\* What is not dropped goes to the end of that queue.
LEMMA SinkTakes ==
    ASSUME QueuesInv, NEW bs \in Seq(Octet), NEW lost \in Nat,
           Enqueue(bs, lost), tty_drop_count' = 0, UNCHANGED modeVars
    PROVE  tty_drop_count = 0 /\ lost = 0 /\ Sink' = Sink \o bs
<1>1. TypeOK /\ BufferBounds
  BY DEF QueuesInv
<1>2. tty_drop_count = 0 /\ lost = 0 /\ delivered' = delivered \o bs
  BY <1>1, EnqueuesAll
<1>3. Taken(bs) = bs
  <2>1. /\ Len(Taken(bs)) \in 0 .. Len(bs)
        /\ Taken(bs) = SubSeq(bs, 1, Len(Taken(bs)))
        /\ tty_drop_count' = tty_drop_count + lost + Len(bs) - Len(Taken(bs))
    BY <1>1, EnqueueFacts
  <2>2. Len(bs) \in Nat
    OBVIOUS
  <2>3. Len(Taken(bs)) = Len(bs)
    BY <1>2, <2>1, <2>2
  <2> QED
    BY <2>1, <2>3, SubSeqFull, Zenon
<1>4. tty_session_pty' = tty_session_pty
  BY DEF modeVars
<1>5. CASE Attached
  <2> DEFINE p == tty_session_pty
  <2>1. p \in Ptys /\ g_ptys \in [Ptys -> PtyRecord] /\ g_ptys[p].allocated
    BY <1>5, QueueFacts DEF Attached, pty_is_valid
  <2>2. Sink = g_ptys[p].m2s /\ Taken(bs) = Accepted(g_ptys[p]["m2s"], PTY_QUEUE_SIZE, bs)
    BY <1>5 DEF Sink, SinkSize, Taken
  <2> DEFINE q == g_ptys[p].m2s \o bs
  <2>3. g_ptys' = [g_ptys EXCEPT ![p]["m2s"] = q]
    BY <1>3, <1>5, <2>2 DEF Enqueue, PtyWrite
  <2> HIDE DEF q
  <2>4. g_ptys'[p].allocated /\ g_ptys'[p].m2s = q
    BY <2>1, <2>3 DEF PtyRecord
  <2>5. Sink' = q
    BY <1>4, <2>1, <2>4 DEF Sink, Attached, pty_is_valid
  <2> QED
    BY <1>2, <2>2, <2>5 DEF q
<1>6. CASE ~ Attached
  <2>1. tty_read_queue' = tty_read_queue \o bs /\ g_ptys' = g_ptys
    BY <1>3, <1>6 DEF Enqueue, ptyVars
  <2> QED
    BY <1>2, <1>4, <1>6, <2>1 DEF Sink, Attached, pty_is_valid
<1> QED
  BY <1>5, <1>6

LEMMA SinkRests ==
    ASSUME UNCHANGED <<g_ptys, tty_read_queue, tty_session_pty>>
    PROVE  Sink' = Sink
  BY DEF Sink, Attached, pty_is_valid

\* The line keeps only what the shell will keep.
LEMMA LineKeeps ==
    ASSUME tty_line \in Seq(Kept), tty_canonical, NEW b \in Octet, HandleByte(b)
    PROVE  tty_line' \in Seq(Kept)
<1>1. DiscardEscape(b) \/ Edit(b)
  BY DEF HandleByte, tty_handle_canonical, tty_handle_noncanonical
<1>2. CASE tty_line' = tty_line \/ tty_line' = <<>>
  <2>1. <<>> \in Seq(Kept)
    BY EmptySeq
  <2> QED
    BY <1>2, <2>1, Zenon
<1>3. CASE Erase(b) /\ tty_line # <<>>
  <2>1. tty_line' = SubSeq(tty_line, 1, Len(tty_line) - 1)
    BY <1>3 DEF Erase
  <2>2. Len(tty_line) - 1 \in 0 .. Len(tty_line)
    BY <1>3, EmptySeq
  <2>3. SubSeq(tty_line, 1, Len(tty_line) - 1) \in Seq(Kept)
    BY <2>2, PartOf
  <2> QED
    BY <2>1, <2>3
<1>4. CASE Insert(b)
  <2>1. tty_line' = Append(tty_line, b) /\ b \in Kept
    BY <1>4 DEF Insert, Kept, ShellKeeps, tty_is_printable
  <2> QED
    BY <2>1, AppendProperties
<1>5. CASE Erase(b) /\ tty_line = <<>>
  BY <1>2, <1>5 DEF Erase
<1>6. CASE \/ DiscardEscape(b) \/ Interrupt(b) \/ Redraw(b) \/ EndLine(b) \/ EndOfFile(b)
           \/ Ignore(b) \/ Refuse(b)
  BY <1>2, <1>6 DEF DiscardEscape, Interrupt, Redraw, EndLine, EndOfFile, Ignore, Refuse
<1> QED
  BY <1>1, <1>3, <1>4, <1>5, <1>6 DEF Edit
-----------------------------------------------------------------------------
\* What the tty does with a byte that its filter lets pass, when nothing is
\* lost: what it hands over leads where Typing says.
LEMMA EditLeads ==
    ASSUME QueuesInv, tty_line \in Seq(Kept), NEW b \in KeyByte, Edit(b),
           tty_drop_count' = 0, UNCHANGED modeVars,
           NEW sent \in Seq(Octet), NEW done \in Commands
    PROVE  /\ tty_drop_count = 0
           /\ \E bs \in Seq(Octet), next \in Seq(Octet) \X Commands :
                /\ Sink' = Sink \o bs
                /\ Leads("shell", <<sent, done>>, bs, next)
                /\ TypedChar([line |-> tty_line, sent |-> sent, commands |-> done], b)
                      = [line |-> tty_line', sent |-> next[1], commands |-> next[2]]
<1> DEFINE st == [line |-> tty_line, sent |-> sent, commands |-> done]
           Goal(bs, s, d) ==
               /\ Sink' = Sink \o bs
               /\ Leads("shell", <<sent, done>>, bs, <<s, d>>)
               /\ TypedChar(st, b) = [line |-> tty_line', sent |-> s, commands |-> d]
<1>b. b \in Octet /\ b # Del
  BY DEF KeyByte, Octet, Del
<1>t. /\ tty_line \in Seq(Octet) /\ <<b>> \in Seq(Octet) /\ <<>> \in Seq(Octet)
      /\ Append(tty_line, b) \in Seq(Octet) /\ sent \o tty_line \in Seq(Octet)
  <2>1. tty_line \in Seq(Octet)
    BY DEF QueuesInv, TypeOK, TtyTypeOK
  <2> QED
    BY <1>b, <2>1
<1>y. TypedChar(st, b) = Retyped(tty_line, sent, done, b)
  <2>1. PICK s0 : s0 = st
    OBVIOUS
  <2>2. TypedChar(s0, b) = Retyped(tty_line, sent, done, b)
    BY <1>b, <1>t, <2>1, TypedIs
  <2> QED
    BY <2>1, <2>2
<1>e. ASSUME NEW bs \in Seq(Octet), NEW lost \in Nat, Enqueue(bs, lost)
      PROVE  tty_drop_count = 0 /\ lost = 0 /\ Sink' = Sink \o bs
  BY <1>e, SinkTakes
<1>n. ASSUME NothingEnqueued PROVE Sink' = Sink \o <<>>
  <2>1. Sink' = Sink
    BY <1>n, SinkRests DEF NothingEnqueued, ptyVars, modeVars
  <2>2. Sink \in Seq(Octet)
    BY SinkFacts DEF QueuesInv
  <2> QED
    BY <2>1, <2>2
<1>o. Leads("shell", <<sent, done>>, <<>>, <<sent, done>>)
  BY NoneLead
<1>l. Leads("shell", <<sent, done>>, tty_line, <<sent \o tty_line, done>>)
  BY LineLeads
<1>s. ASSUME NEW bs \in Seq(Octet), NEW s \in Seq(Octet), NEW d \in Commands, Goal(bs, s, d)
      PROVE  \E cs \in Seq(Octet), next \in Seq(Octet) \X Commands :
                /\ Sink' = Sink \o cs
                /\ Leads("shell", <<sent, done>>, cs, next)
                /\ TypedChar(st, b) = [line |-> tty_line', sent |-> next[1], commands |-> next[2]]
  <2>1. PICK x : x = <<s, d>>
    OBVIOUS
  <2>2. x \in Seq(Octet) \X Commands /\ x[1] = s /\ x[2] = d
    BY <2>1
  <2>3. Leads("shell", <<sent, done>>, bs, x)
    BY <1>s, <2>1
  <2> HIDE DEF st
  <2> QED
    BY <1>s, <2>2, <2>3
<1> HIDE DEF st
<1> USE DEF CtrlC, CtrlD, CtrlL, Backspace, Newline, tty_is_printable
<1>1. CASE Interrupt(b)
  <2>1. b = 3 /\ tty_line' = <<>> /\ Enqueue(<<b>>, 0)
    BY <1>1 DEF Interrupt
  <2>2. tty_drop_count = 0 /\ Sink' = Sink \o <<b>>
    BY <1>t, <1>e, <2>1
  <2>3. Turn("shell", <<sent, done>>, b) = <<<<>>, done>>
    BY <2>1 DEF Turn, Shell
  <2>4. Leads("shell", <<sent, done>>, <<b>>, <<<<>>, done>>)
    BY <2>3, OneLeads
  <2>5. Retyped(tty_line, sent, done, b) = [line |-> tty_line', sent |-> <<>>, commands |-> done]
    BY <2>1 DEF Retyped
  <2>6. Goal(<<b>>, <<>>, done)
    BY <1>y, <2>2, <2>4, <2>5
  <2> HIDE DEF Goal
  <2> QED
    BY <1>t, <1>s, <2>2, <2>6 DEF st
<1>2. CASE Redraw(b)
  <2>1. b = 12 /\ tty_line' = tty_line /\ Enqueue(<<b>>, 0)
    BY <1>2 DEF Redraw
  <2>2. tty_drop_count = 0 /\ Sink' = Sink \o <<b>>
    BY <1>t, <1>e, <2>1
  <2>3. Turn("shell", <<sent, done>>, b) = <<sent, done>>
    BY <2>1 DEF Turn, Shell, ShellKeeps
  <2>4. Leads("shell", <<sent, done>>, <<b>>, <<sent, done>>)
    BY <2>3, OneLeads
  <2>5. Retyped(tty_line, sent, done, b) = [line |-> tty_line', sent |-> sent, commands |-> done]
    BY <2>1 DEF Retyped
  <2>6. Goal(<<b>>, sent, done)
    BY <1>y, <2>2, <2>4, <2>5
  <2> HIDE DEF Goal
  <2> QED
    BY <1>t, <1>s, <2>2, <2>6 DEF st
<1>3. CASE Erase(b)
  <2>1. /\ b = 8 /\ tty_drop_count' = tty_drop_count /\ NothingEnqueued
        /\ tty_line' = IF tty_line = <<>> THEN tty_line ELSE Front(tty_line)
    BY <1>3, <1>b DEF Erase, Front
  <2>2. PICK f : f = Front(tty_line)
    OBVIOUS
  <2>3. Retyped(tty_line, sent, done, b)
           = [line |-> IF tty_line = <<>> THEN tty_line ELSE f, sent |-> sent, commands |-> done]
    BY <2>1, <2>2 DEF Retyped
  <2>5. Retyped(tty_line, sent, done, b) = [line |-> tty_line', sent |-> sent, commands |-> done]
    BY <2>1, <2>2, <2>3, Zenon
  <2>6. Goal(<<>>, sent, done)
    BY <1>n, <1>o, <1>y, <2>1, <2>5
  <2> HIDE DEF Goal
  <2> QED
    BY <1>t, <1>s, <2>1, <2>6 DEF st
<1>4. CASE EndLine(b)
  <2>1. b = 10 /\ tty_line' = <<>>
    BY <1>4 DEF EndLine
  <2>2. Enqueue(tty_line, 1) \/ Enqueue(Append(tty_line, b), 0)
    BY <1>4 DEF EndLine
  <2>3. ~ Enqueue(tty_line, 1)
    BY <1>t, <1>e
  <2>4. tty_drop_count = 0 /\ Sink' = Sink \o Append(tty_line, b)
    BY <1>t, <1>e, <2>2, <2>3
  <2>5. PICK text : text = sent \o tty_line
    OBVIOUS
  <2>6. Turn("shell", <<text, done>>, b) = <<<<>>, Ran(done, text)>>
    BY <2>1 DEF Turn, Shell, CtrlC
  <2>7. Leads("shell", <<text, done>>, <<b>>, <<<<>>, Ran(done, text)>>)
    BY <2>6, OneLeads
  <2>8. Leads("shell", <<sent, done>>, tty_line \o <<b>>, <<<<>>, Ran(done, text)>>)
    BY <1>l, <1>t, <2>5, <2>7, OnLeads
  <2>9. tty_line \o <<b>> = Append(tty_line, b)
    BY <1>t
  <2>10. Retyped(tty_line, sent, done, b)
            = [line |-> <<>>, sent |-> <<>>, commands |-> Ran(done, text)]
    BY <2>1, <2>5 DEF Retyped
  <2>11. Goal(Append(tty_line, b), <<>>, Ran(done, text))
    BY <1>y, <2>1, <2>4, <2>8, <2>9, <2>10
  <2>12. Ran(done, text) \in Commands
    BY <1>t, <2>5, RanIs
  <2> HIDE DEF Goal
  <2> QED
    BY <1>t, <1>s, <2>4, <2>11, <2>12 DEF st
<1>5. CASE EndOfFile(b)
  <2>1. b = 4 /\ tty_line' = <<>>
    BY <1>5 DEF EndOfFile
  <2>2. PICK text : text = sent \o tty_line
    OBVIOUS
  <2>3. Retyped(tty_line, sent, done, b) = [line |-> tty_line', sent |-> text, commands |-> done]
    BY <2>1, <2>2 DEF Retyped
  <2>4. CASE tty_line = <<>>
    <3>1. Enqueue(<<b>>, 0) /\ text = sent
      BY <1>5, <2>2, <2>4 DEF EndOfFile
    <3>2. tty_drop_count = 0 /\ Sink' = Sink \o <<b>>
      BY <1>t, <1>e, <3>1
    <3>3. Turn("shell", <<sent, done>>, b) = <<sent, done>>
      BY <2>1 DEF Turn, Shell, ShellKeeps
    <3>4. Leads("shell", <<sent, done>>, <<b>>, <<sent, done>>)
      BY <3>3, OneLeads
    <3>5. Goal(<<b>>, sent, done)
      BY <1>y, <2>3, <3>1, <3>2, <3>4
    <3> HIDE DEF Goal
    <3> QED
      BY <1>t, <1>s, <3>2, <3>5 DEF st
  <2>5. CASE tty_line # <<>>
    <3>1. Enqueue(tty_line, 0)
      BY <1>5, <2>5 DEF EndOfFile
    <3>2. tty_drop_count = 0 /\ Sink' = Sink \o tty_line
      BY <1>t, <1>e, <3>1
    <3>3. Goal(tty_line, text, done)
      BY <1>l, <1>y, <2>2, <2>3, <3>2
    <3> HIDE DEF Goal
    <3> QED
      BY <1>t, <1>s, <2>2, <3>2, <3>3 DEF st
  <2> QED
    BY <2>4, <2>5
<1>6. CASE Ignore(b)
  <2>1. /\ b \notin {3, 4, 8, 9, 10} /\ ~ (b >= 32)
        /\ tty_drop_count' = tty_drop_count /\ NothingEnqueued /\ tty_line' = tty_line
    BY <1>6 DEF Ignore
  <2>2. Retyped(tty_line, sent, done, b) = [line |-> tty_line', sent |-> sent, commands |-> done]
    BY <2>1 DEF Retyped
  <2>3. Goal(<<>>, sent, done)
    BY <1>n, <1>o, <1>y, <2>1, <2>2
  <2> HIDE DEF Goal
  <2> QED
    BY <1>t, <1>s, <2>1, <2>3 DEF st
<1>7. CASE Refuse(b)
  <2>1. tty_drop_count' = tty_drop_count + 1 /\ tty_drop_count \in Nat
    BY <1>7, NumbersAreNat DEF Refuse, QueuesInv
  <2> QED
    BY <2>1
<1>8. CASE Insert(b)
  <2>1. /\ b = 9 \/ b >= 32
        /\ tty_drop_count' = tty_drop_count /\ NothingEnqueued
        /\ tty_line' = Append(tty_line, b)
    BY <1>8 DEF Insert
  <2>2. PICK l : l = Append(tty_line, b)
    OBVIOUS
  <2>3. Retyped(tty_line, sent, done, b) = [line |-> l, sent |-> sent, commands |-> done]
    BY <1>b, <2>1, <2>2 DEF Retyped, Octet
  <2>4. Goal(<<>>, sent, done)
    BY <1>n, <1>o, <1>y, <2>1, <2>2, <2>3
  <2> HIDE DEF Goal
  <2> QED
    BY <1>t, <1>s, <2>1, <2>4 DEF st
<1> HIDE DEF Goal
<1>9. QED
  BY <1>1, <1>2, <1>3, <1>4, <1>5, <1>6, <1>7, <1>8 DEF Edit, st
-----------------------------------------------------------------------------
\* shell_line holds as much of the text as it can.
OnLine(text) ==
    /\ shell_len = Len(Cut(text))
    /\ \A i \in 1 .. shell_len : shell_line[i - 1] = text[i]

\* The command is found in the buffer as in the text (shell.c:131-139).
LEMMA CommandIs ==
    ASSUME NEW text \in Seq(Octet), OnLine(text)
    PROVE  Command = WithoutBlanks(Cut(text))
<1> DEFINE s == Cut(text)
           n == Len(s)
           At(f) == /\ f = shell_len \/ shell_line[f] # 32
                    /\ \A j \in 0 .. f - 1 : shell_line[j] = 32
<1>1. /\ s \in Seq(Octet) /\ n \in Nat /\ shell_len = n
      /\ \A i \in 1 .. n : shell_line[i - 1] = s[i]
  <2>1. s \in Seq(Octet) /\ \A i \in 1 .. n : s[i] = text[i]
    BY CutIs
  <2> HIDE DEF s
  <2> QED
    BY <2>1 DEF OnLine, s
<1> HIDE DEF s
<1>2. PICK k \in 1 .. n + 1 : Start(s, k)
  BY <1>1, StartExists
<1>3. ASSUME NEW f \in 0 .. n PROVE At(f) <=> Start(s, f + 1)
  <2>1. ASSUME At(f) PROVE Start(s, f + 1)
    <3>1. f + 1 = n + 1 \/ s[f + 1] # 32
      <4>1. CASE f = n
        BY <4>1
      <4>2. CASE f # n
        <5>1. f + 1 \in 1 .. n /\ (f + 1) - 1 = f
          BY <1>1, <4>2
        <5>2. s[f + 1] = shell_line[f]
          BY <1>1, <5>1
        <5> QED
          BY <1>1, <2>1, <4>2, <5>2
      <4> QED
        BY <4>1, <4>2
    <3>2. ASSUME NEW j \in 1 .. (f + 1) - 1 PROVE s[j] = 32
      <4>1. j - 1 \in 0 .. f - 1 /\ j \in 1 .. n
        BY <1>1
      <4> QED
        BY <1>1, <2>1, <4>1
    <3> QED
      BY <3>1, <3>2 DEF Start
  <2>2. ASSUME Start(s, f + 1) PROVE At(f)
    <3>1. f = shell_len \/ shell_line[f] # 32
      <4>1. CASE f # n
        <5>1. f + 1 \in 1 .. n /\ (f + 1) - 1 = f /\ f + 1 # n + 1
          BY <1>1, <4>1
        <5>2. s[f + 1] = shell_line[f]
          BY <1>1, <5>1
        <5> QED
          BY <2>2, <5>1, <5>2 DEF Start
      <4> QED
        BY <1>1, <4>1
    <3>2. ASSUME NEW j \in 0 .. f - 1 PROVE shell_line[j] = 32
      <4>1. j + 1 \in 1 .. (f + 1) - 1 /\ j + 1 \in 1 .. n /\ (j + 1) - 1 = j
        BY <1>1
      <4>2. s[j + 1] = 32
        BY <2>2, <4>1 DEF Start
      <4> QED
        BY <1>1, <4>1, <4>2
    <3> QED
      BY <3>1, <3>2
  <2> QED
    BY <2>1, <2>2
<1> DEFINE first == CHOOSE f \in 0 .. shell_len : At(f)
<1>4. first = k - 1
  <2>1. k - 1 \in 0 .. n /\ (k - 1) + 1 = k
    BY <1>1
  <2>2. At(k - 1)
    BY <1>2, <1>3, <2>1
  <2>3. \A f \in 0 .. n : At(f) => f = k - 1
    <3> SUFFICES ASSUME NEW f \in 0 .. n, At(f) PROVE f = k - 1
      OBVIOUS
    <3>1. Start(s, f + 1) /\ f + 1 \in 1 .. n + 1
      BY <1>3
    <3>2. f + 1 = k
      BY <1>1, <1>2, <3>1, StartExists
    <3> QED
      BY <1>1, <3>2
  <2> HIDE DEF At
  <2>4. first \in 0 .. n /\ At(first)
    BY <1>1, <2>1, <2>2, Zenon
  <2> QED
    BY <2>3, <2>4
<1>5. Command = [i \in 1 .. shell_len - first |-> shell_line[first + i - 1]]
  BY Zenon DEF Command
<1> HIDE DEF first
<1> DEFINE w == SubSeq(s, k, n)
<1>6. WithoutBlanks(s) = w
  BY <1>1, <1>2, BlanksAre
<1>7. /\ w \in Seq(Octet) /\ Len(w) = n - (k - 1)
      /\ \A i \in 1 .. n - (k - 1) : w[i] = s[k + i - 1]
  <2>1. k \in Nat /\ n \in Nat /\ \A i \in k .. n : s[i] \in Octet
    BY <1>1, ElementOfSeq
  <2>2. /\ w \in Seq(Octet) /\ Len(w) = IF k <= n THEN n - k + 1 ELSE 0
        /\ \A i \in 1 .. n - k + 1 : w[i] = s[k + i - 1]
    BY <2>1, SubSeqProperties
  <2> HIDE DEF w
  <2> QED
    BY <1>1, <2>2
<1> HIDE DEF w
<1>8. \A i \in 1 .. n - (k - 1) : w[i] = shell_line[(k - 1) + i - 1]
  <2> SUFFICES ASSUME NEW i \in 1 .. n - (k - 1) PROVE w[i] = shell_line[(k - 1) + i - 1]
    OBVIOUS
  <2>1. k + i - 1 \in 1 .. n /\ (k + i - 1) - 1 = (k - 1) + i - 1
    BY <1>1
  <2>2. shell_line[(k + i - 1) - 1] = s[k + i - 1]
    BY <1>1, <2>1
  <2> QED
    BY <1>7, <2>1, <2>2
<1>9. w = [i \in 1 .. n - (k - 1) |-> w[i]]
  BY <1>7
<1>10. w = [i \in 1 .. n - (k - 1) |-> shell_line[(k - 1) + i - 1]]
  BY <1>8, <1>9
<1> QED
  BY <1>1, <1>4, <1>5, <1>6, <1>10 DEF s

\* A byte through shell_poll is a turn of the shell (shell.c:317-356).
LEMMA ByteTurns ==
    ASSUME LineInv, NEW text \in Seq(Octet), OnLine(text), NEW c \in Octet, ShellByte(c)
    PROVE  \E after \in Seq(Octet) :
                OnLine(after)' /\ Shell(<<text, executed>>, c) = <<after, executed'>>
<1>l. shell_len \in 0 .. SHELL_LINE_MAX - 1 /\ DOMAIN shell_line = 0 .. SHELL_LINE_MAX - 1
  BY DEF LineInv
<1>m. SHELL_LINE_MAX \in Nat /\ SHELL_LINE_MAX >= 2
  BY ShellAssumption
<1>0. ASSUME shell_len' = 0 PROVE OnLine(<<>>)' /\ <<>> \in Seq(Octet)
  <2>1. <<>> \in Seq(Octet) /\ Len(<<>>) = 0
    BY EmptySeq
  <2>2. Len(Cut(<<>>)) = 0
    <3>1. PICK e \in Seq(Octet) : e = <<>>
      BY <2>1
    <3>2. Len(Cut(e)) \in 0 .. Len(e) /\ Len(e) = 0
      BY <2>1, <3>1, CutIs
    <3> QED
      BY <3>1, <3>2
  <2> QED
    BY <1>0, <2>1, <2>2 DEF OnLine
<1>1. CASE c = CtrlC /\ shell_len' = 0 /\ UNCHANGED <<shell_line, executed, historyVars>>
  <2>1. Shell(<<text, executed>>, c) = <<<<>>, executed'>>
    BY <1>1 DEF Shell
  <2> QED
    BY <1>0, <1>1, <2>1
<1>2. CASE c = Newline /\ ExecuteLine
  <2>1. Command = WithoutBlanks(Cut(text))
    BY CommandIs
  <2>2. executed' = Ran(executed, text)
    BY <1>2, <2>1 DEF ExecuteLine, execute_command, Ran
  <2>3. Shell(<<text, executed>>, c) = <<<<>>, executed'>>
    BY <1>2, <2>2 DEF Shell, CtrlC, Newline
  <2>4. shell_len' = 0
    BY <1>2 DEF ExecuteLine
  <2> QED
    BY <1>0, <2>3, <2>4
<1>3. CASE c \notin {CtrlC, Newline} /\ ShellAppend(c) /\ UNCHANGED <<executed, historyVars>>
  <2>c. /\ shell_len = (IF Len(text) < SHELL_LINE_MAX THEN Len(text) ELSE SHELL_LINE_MAX - 1)
        /\ \A i \in 1 .. shell_len : shell_line[i - 1] = text[i]
    BY CutIs DEF OnLine
  <2> DEFINE more == Append(text, c)
  <2>a. /\ more \in Seq(Octet) /\ Len(more) = Len(text) + 1 /\ more[Len(text) + 1] = c
        /\ \A i \in 1 .. Len(text) : more[i] = text[i]
    BY AppendProperties
  <2> HIDE DEF more
  <2>b. Len(Cut(more)) = IF Len(more) < SHELL_LINE_MAX THEN Len(more) ELSE SHELL_LINE_MAX - 1
    BY <2>a, CutIs
  <2>n. Len(text) \in Nat
    OBVIOUS
  <2>1. CASE ShellKeeps(c) /\ shell_len + 1 < SHELL_LINE_MAX
    <3>1. shell_line' = [shell_line EXCEPT ![shell_len] = c] /\ shell_len' = shell_len + 1
      BY <1>3, <2>1 DEF ShellAppend
    <3>2. shell_len = Len(text) /\ Len(Cut(more)) = shell_len + 1
      BY <1>m, <2>1, <2>a, <2>b, <2>c, <2>n
    <3>3. ASSUME NEW i \in 1 .. shell_len' PROVE shell_line'[i - 1] = more[i]
      <4>0. i \in 1 .. shell_len + 1
        BY <3>1
      <4>1. CASE i = shell_len + 1
        <5>1. i - 1 = shell_len
          BY <1>l, <4>1
        <5>2. shell_line'[shell_len] = c
          BY <1>l, <3>1
        <5> QED
          BY <2>a, <3>2, <4>1, <5>1, <5>2
      <4>2. CASE i # shell_len + 1
        <5>1. i \in 1 .. shell_len /\ i - 1 # shell_len /\ i - 1 \in DOMAIN shell_line
          <6>1. i \in 1 .. shell_len
            BY <1>l, <4>0, <4>2
          <6>2. i - 1 # shell_len /\ i - 1 \in 0 .. SHELL_LINE_MAX - 1
            BY <1>l, <1>m, <6>1
          <6> QED
            BY <1>l, <6>1, <6>2
        <5>2. shell_line'[i - 1] = shell_line[i - 1]
          BY <3>1, <5>1
        <5> QED
          BY <2>a, <2>c, <3>2, <5>1, <5>2
      <4> QED
        BY <4>1, <4>2
    <3>4. OnLine(more)'
      BY <3>1, <3>2, <3>3 DEF OnLine
    <3>5. Shell(<<text, executed>>, c) = <<more, executed'>>
      BY <1>3, <2>1 DEF Shell, more
    <3> QED
      BY <2>a, <3>4, <3>5
  <2>2. CASE ShellKeeps(c) /\ ~ (shell_len + 1 < SHELL_LINE_MAX)
    <3>1. shell_line' = shell_line /\ shell_len' = shell_len
      BY <1>3, <2>2 DEF ShellAppend
    <3>2. /\ shell_len = SHELL_LINE_MAX - 1 /\ shell_len <= Len(text)
          /\ Len(Cut(more)) = shell_len
      BY <1>l, <1>m, <2>2, <2>a, <2>b, <2>c, <2>n
    <3>3. \A i \in 1 .. shell_len : shell_line[i - 1] = more[i]
      <4>1. \A i \in 1 .. shell_len : i \in 1 .. Len(text)
        BY <1>l, <2>n, <3>2
      <4> QED
        BY <2>a, <2>c, <4>1
    <3>4. OnLine(more)'
      BY <3>1, <3>2, <3>3 DEF OnLine
    <3>5. Shell(<<text, executed>>, c) = <<more, executed'>>
      BY <1>3, <2>2 DEF Shell, more
    <3> QED
      BY <2>a, <3>4, <3>5
  <2>3. CASE ~ ShellKeeps(c)
    <3>1. shell_line' = shell_line /\ shell_len' = shell_len
      BY <1>3, <2>3 DEF ShellAppend
    <3>2. OnLine(text)'
      BY <3>1 DEF OnLine
    <3>3. Shell(<<text, executed>>, c) = <<text, executed'>>
      BY <1>3, <2>3 DEF Shell
    <3> QED
      BY <3>2, <3>3
  <2> QED
    BY <2>1, <2>2, <2>3
<1> QED
  BY <1>1, <1>2, <1>3 DEF ShellByte
-----------------------------------------------------------------------------
Lossless ==
    /\ kbd_drop_byte_count = 0 /\ tty_drop_count = 0 /\ verdicts = <<>>
    /\ \A i \in DOMAIN strokes : ~ TypesEsc(strokes[i])

\* Where bytes can be, by where the main loop is.
PlaceInv ==
    /\ kbd_drop_byte_count \in Nat
    /\ tty_line \in Seq(Kept)
    /\ pty_buf \in Seq(Octet)
    /\ pc \notin {"run", "inject"} \/ session_active_pty # 0 => pty_buf = <<>>
    /\ pc \in {"idle", "halted"} => Sink = <<>>

\* The bytes that wait, those of the chunk and of the queue after the line
\* discipline and those of the keys before it, lead from what the shell has
\* done to what the keys spell.
Goes ==
    \E text \in Seq(Octet), next \in Seq(Octet) \X Commands :
        /\ OnLine(text)
        /\ Leads("shell", <<text, executed>>, Waiting, next)
        /\ Leads("tty", <<tty_escape_state,
                          [line |-> tty_line, sent |-> next[1], commands |-> next[2]]>>,
                 kbd_bytes, <<0, Expected>>)

SpellInv ==
    /\ strokes \in Seq(Stroke)
    /\ Expected \in Texts
    /\ Lossless => /\ executed \in Commands
                   /\ IF pc = "inject" THEN IsPrefix(executed, Expected.commands) ELSE Goes

KeysInv == PlaceInv /\ SpellInv

LEMMA ExpectedStays ==
    ASSUME UNCHANGED strokes
    PROVE  Expected' = Expected
  BY DEF Expected

LEMMA SequencesCompare ==
    ASSUME NEW s \in Seq(Octet)
    PROVE  /\ <<>> \o s = s /\ s \o <<>> = s
           /\ s # <<>> => s = <<Head(s)>> \o Tail(s)
<1>1. <<>> \o s = s /\ s \o <<>> = s
  BY ConcatEmptySeq
<1>2. ASSUME s # <<>> PROVE s = <<Head(s)>> \o Tail(s)
  <2>1. Len(s) \in Nat \ {0}
    BY <1>2, EmptySeq
  <2>2. /\ Head(s) = s[1] /\ Tail(s) \in Seq(Octet) /\ Len(Tail(s)) = Len(s) - 1
        /\ Head(s) \in Octet
        /\ \A i \in 1 .. Len(Tail(s)) : Tail(s)[i] = s[i + 1]
    BY <1>2, HeadTailProperties
  <2>3. /\ <<Head(s)>> \in Seq(Octet) /\ Len(<<Head(s)>>) = 1 /\ <<Head(s)>>[1] = s[1]
    BY <2>2
  <2> DEFINE h == <<Head(s)>>
             t == Tail(s)
  <2> HIDE DEF h, t
  <2>4. /\ h \o t \in Seq(Octet) /\ Len(h \o t) = 1 + Len(t)
        /\ \A i \in 1 .. 1 + Len(t) : (h \o t)[i] = IF i <= 1 THEN h[i] ELSE t[i - 1]
    BY <2>2, <2>3, ConcatProperties DEF h, t
  <2>5. Len(h \o t) = Len(s)
    BY <2>1, <2>2, <2>4 DEF t
  <2>6. \A i \in 1 .. Len(s) : (h \o t)[i] = s[i]
    <3> SUFFICES ASSUME NEW i \in 1 .. Len(s) PROVE (h \o t)[i] = s[i]
      OBVIOUS
    <3>1. i \in 1 .. 1 + Len(t)
      BY <2>1, <2>2 DEF t
    <3>2. CASE i = 1
      BY <2>3, <2>4, <3>1, <3>2 DEF h
    <3>3. CASE i # 1
      <4>1. i - 1 \in 1 .. Len(t) /\ ~ (i <= 1) /\ (i - 1) + 1 = i
        BY <2>1, <2>2, <3>3 DEF t
      <4>2. t[i - 1] = s[(i - 1) + 1]
        BY <2>2, <4>1 DEF t
      <4>3. (h \o t)[i] = t[i - 1]
        BY <2>4, <3>1, <4>1
      <4> QED
        BY <4>1, <4>2, <4>3
    <3> QED
      BY <3>2, <3>3
  <2>7. h \o t = s
    BY <2>4, <2>5, <2>6, SameSequence
  <2> QED
    BY <2>7 DEF h, t
<1> QED
  BY <1>1, <1>2

\* What is taken from the front of the first queue.
LEMMA TailOfTwo ==
    ASSUME NEW s \in Seq(Octet), NEW t \in Seq(Octet), s # <<>>
    PROVE  s \o t # <<>> /\ Head(s \o t) = Head(s) /\ Tail(s \o t) = Tail(s) \o t
<1>1. PICK a, r : a = Head(s) /\ r = Tail(s)
  OBVIOUS
<1>2. a \in Octet /\ r \in Seq(Octet)
  BY <1>1, HeadTailProperties
<1>3. s = <<a>> \o r
  BY <1>1, SequencesCompare
<1>4. s \o t = <<a>> \o (r \o t)
  BY <1>2, <1>3
<1>5. PICK u \in Seq(Octet) : u = r \o t
  BY <1>2, ConcatProperties
<1>6. <<a>> \o u # <<>> /\ Head(<<a>> \o u) = a /\ Tail(<<a>> \o u) = u
  BY <1>2
<1> QED
  BY <1>1, <1>4, <1>5, <1>6, Zenon

\* The shell takes the first byte that waits, from the chunk or the queue.
LEMMA TakesFirst ==
    ASSUME PathInv, RouteInv', PlaceInv, TakeChar, UNCHANGED sessionVars
    PROVE  /\ Waiting \in Seq(Octet) /\ Waiting # <<>> /\ NextChar = Head(Waiting)
           /\ pty_buf' \in Seq(Octet)
           /\ pc \notin {"run", "inject"} \/ session_active_pty # 0 => pty_buf' = <<>>
           /\ pc \notin {"idle", "halted"}
           /\ UNCHANGED ptyVars => Waiting' = Tail(Waiting)
<1>1. /\ Sink \in Seq(Octet) /\ pty_buf \in Seq(Octet)
      /\ session_active_pty' = session_active_pty /\ session_active_pty \in {-1, 0}
  BY SinkFacts, ActiveStays DEF PathInv, QueuesInv, PlaceInv, RouteInv
<1>2. CASE PtyChar
  <2>1. pc = "run" /\ pty_buf # <<>> /\ pty_buf' = Tail(pty_buf) /\ UNCHANGED ttyVars
    BY <1>2 DEF PtyChar
  <2>2. /\ Waiting # <<>> /\ Head(Waiting) = Head(pty_buf)
        /\ Tail(Waiting) = Tail(pty_buf) \o Sink /\ Waiting \in Seq(Octet)
    BY <1>1, <2>1, TailOfTwo, ConcatProperties DEF Waiting
  <2>3. session_active_pty = 0 /\ Tail(pty_buf) \in Seq(Octet)
    BY <1>1, <2>1, HeadTailProperties DEF PlaceInv
  <2>4. ASSUME UNCHANGED ptyVars PROVE Waiting' = Tail(Waiting)
    <3>1. Sink' = Sink
      BY <2>1, <2>4, SinkRests DEF ptyVars, ttyVars, modeVars
    <3> QED
      BY <2>1, <2>2, <3>1 DEF Waiting
  <2> QED
    BY <2>1, <2>2, <2>3, <2>4 DEF NextChar
<1>3. CASE TtyChar
  <2>1. /\ pc = "read" /\ session_active_pty < 0 /\ tty_read_queue # <<>>
        /\ tty_read_queue' = Tail(tty_read_queue) /\ pty_buf' = pty_buf
    BY <1>3 DEF TtyChar
  <2>2. pty_buf = <<>> /\ session_active_pty = -1
    BY <1>1, <2>1 DEF PlaceInv
  <2>3. Sink = tty_read_queue /\ Sink' = tty_read_queue'
    BY <1>1, <2>2, SinkIs DEF PathInv
  <2>4. Waiting = Sink /\ Tail(Sink) \in Seq(Octet)
    BY <1>1, <2>1, <2>2, <2>3, SequencesCompare, HeadTailProperties DEF Waiting
  <2>5. Waiting' = Sink'
    <3>1. PICK q \in Seq(Octet) : q = Sink'
      BY <2>1, <2>3, <2>4
    <3>2. <<>> \o q = q
      BY SequencesCompare
    <3> QED
      BY <2>1, <2>2, <3>1, <3>2 DEF Waiting
  <2> QED
    BY <1>1, <2>1, <2>2, <2>3, <2>4, <2>5 DEF NextChar
<1> QED
  BY <1>2, <1>3 DEF TakeChar

\* A byte through the shell keeps the way of the rest.
LEMMA ShellGoes ==
    ASSUME PathInv, RouteInv', PlaceInv, TakeChar, UNCHANGED sessionVars,
           ShellByte(NextChar), executed \in Commands, Goes, Expected \in Texts
    PROVE  /\ executed' \in Commands /\ IsPrefix(executed', Expected.commands)
           /\ UNCHANGED <<ptyVars, kbd_bytes, tty_line, tty_escape_state, strokes>> => Goes'
<1> DEFINE st(x) == [line |-> tty_line, sent |-> x[1], commands |-> x[2]]
<1>1. PICK text \in Seq(Octet), next \in Seq(Octet) \X Commands :
          /\ OnLine(text)
          /\ Leads("shell", <<text, executed>>, Waiting, next)
          /\ Leads("tty", <<tty_escape_state, st(next)>>, kbd_bytes, <<0, Expected>>)
  BY Zenon DEF Goes
<1>2. /\ Waiting \in Seq(Octet) /\ Waiting # <<>> /\ NextChar = Head(Waiting)
      /\ UNCHANGED ptyVars => Waiting' = Tail(Waiting)
  BY TakesFirst
<1>3. NextChar \in Octet /\ Tail(Waiting) \in Seq(Octet)
  BY <1>2, HeadTailProperties
<1>4. PICK after \in Seq(Octet) :
          OnLine(after)' /\ Shell(<<text, executed>>, NextChar) = <<after, executed'>>
  BY <1>1, <1>3, ByteTurns DEF PathInv
<1>5. Leads("shell", <<after, executed'>>, Tail(Waiting), next)
  <2>1. Turn("shell", <<text, executed>>, NextChar) = <<after, executed'>>
    BY <1>4 DEF Turn
  <2>2. Leads("shell", Turn("shell", <<text, executed>>, Head(Waiting)), Tail(Waiting), next)
    BY <1>1, <1>2, HeadLeads
  <2> QED
    BY <1>2, <2>1, <2>2, Zenon
<1>6. executed' \in Commands
  <2>1. <<text, executed>> \in Seq(Octet) \X Commands /\ IsPrefix(executed, executed)
    BY StaysPrefix DEF Commands
  <2>2. PICK x : x = <<text, executed>>
    OBVIOUS
  <2>3. Shell(x, NextChar) \in Seq(Octet) \X Commands
    BY <1>3, <2>1, <2>2, ShellTurns
  <2>4. <<after, executed'>> \in Seq(Octet) \X Commands
    BY <1>4, <2>2, <2>3, Zenon
  <2> QED
    BY <2>4
<1>7. IsPrefix(executed', Expected.commands)
  <2>1. PICK p \in Commands : p = executed'
    BY <1>6
  <2>2. PICK x : x = <<after, p>>
    OBVIOUS
  <2>3. x \in Seq(Octet) \X Commands /\ IsPrefix(p, x[2])
    BY <2>2, StaysPrefix DEF Commands
  <2>4. next \in Seq(Octet) \X Commands /\ IsPrefix(p, next[2])
    BY <1>3, <1>5, <2>1, <2>2, <2>3, ShellLeads
  <2>5. PICK y : y = <<tty_escape_state, st(next)>>
    OBVIOUS
  <2>6. y \in (0 .. 2) \X Texts /\ y[2].commands = next[2]
    <3>1. tty_line \in Seq(Octet) /\ tty_escape_state \in 0 .. 2
      BY DEF PathInv, QueuesInv, TypeOK, TtyTypeOK
    <3> QED
      BY <2>5, <3>1 DEF Texts
  <2>7. kbd_bytes \in Seq(Octet)
    BY SeqMonotonic DEF PathInv, QueuesInv, KbdInv, KeyByte, Octet
  <2>8. PICK z : z = <<0, Expected>>
    OBVIOUS
  <2>9. Leads("tty", y, kbd_bytes, z)
    BY <1>1, <2>5, <2>8
  <2>10. IsPrefix(p, z[2].commands)
    BY <2>4, <2>6, <2>7, <2>9, KeysLead
  <2> QED
    BY <2>1, <2>8, <2>10
<1>8. ASSUME UNCHANGED <<ptyVars, kbd_bytes, tty_line, tty_escape_state, strokes>>
      PROVE  Goes'
  <2>1. Leads("shell", <<after, executed'>>, Waiting', next)
    BY <1>2, <1>5, <1>8
  <2>2. Leads("tty", <<tty_escape_state',
                       [line |-> tty_line', sent |-> next[1], commands |-> next[2]]>>,
              kbd_bytes', <<0, Expected'>>)
    <3>1. Expected' = Expected
      BY <1>8, ExpectedStays
    <3> QED
      BY <1>1, <1>8, <3>1
  <2> QED
    BY <1>4, <2>1, <2>2, Zenon DEF Goes
<1> QED
  BY <1>6, <1>7, <1>8
-----------------------------------------------------------------------------
LEMMA Joins ==
    ASSUME NEW p \in Seq(Octet), NEW q \in Seq(Octet), NEW r \in Seq(Octet)
    PROVE  p \o (q \o r) = (p \o q) \o r
<1> HIDE PtyAssumption, TtyAssumption
<1>1. PICK S : S = Octet
  OBVIOUS
<1>2. p \in Seq(S) /\ q \in Seq(S) /\ r \in Seq(S)
  BY <1>1
<1> QED
  BY <1>2, ConcatAssociative, SMT

\* A byte of the keys through the tty (tty.c:62-168).
LEMMA PollSpells ==
    ASSUME PathInv, KeysInv, PollByte
    PROVE  KeysInv'
<1> DEFINE b == Head(kbd_bytes)
<1>1. /\ b \in KeyByte /\ b \in Octet /\ HandleByte(b) /\ tty_canonical
      /\ kbd_bytes # <<>> /\ kbd_bytes \in Seq(KeyByte) /\ kbd_bytes' = Tail(kbd_bytes)
      /\ kbd_drop_byte_count' = kbd_drop_byte_count /\ pc = "poll"
      /\ UNCHANGED <<sessionVars, shellVars, selftestVars, pc, strokes, modeVars>>
  BY PopKeepsKbd DEF PathInv, QueuesInv, SelftestInv, PollByte, KbdInv, PopByte, HandleByte
<1> HIDE DEF b
<1>2. PlaceInv'
  <2>1. tty_line' \in Seq(Kept)
    BY <1>1, LineKeeps DEF KeysInv, PlaceInv
  <2>2. session_active_pty' = session_active_pty
    BY <1>1, ActiveStays
  <2> QED
    BY <1>1, <2>1, <2>2 DEF KeysInv, PlaceInv, shellVars
<1>3. Expected' = Expected /\ strokes' = strokes /\ executed' = executed
      /\ shell_line' = shell_line /\ shell_len' = shell_len /\ pty_buf' = pty_buf
  BY <1>1, ExpectedStays DEF shellVars
<1>4. ASSUME Lossless' PROVE executed' \in Commands /\ Goes'
  <2>1. TypeOK /\ BufferBounds /\ tty_line \in Seq(Kept) /\ Sink \in Seq(Octet)
        /\ pty_buf \in Seq(Octet)
    BY SinkFacts DEF PathInv, QueuesInv, KeysInv, PlaceInv
  <2>2. ASSUME tty_drop_count = 0 PROVE Lossless
    BY <1>1, <1>4, <2>2 DEF Lossless, selftestVars
  <2>3. ASSUME Lossless PROVE executed \in Commands /\ Goes
    BY <1>1, <2>3 DEF KeysInv, SpellInv
  <2>4. ASSUME NEW text \in Seq(Octet), NEW next \in Seq(Octet) \X Commands,
               OnLine(text),
               Leads("shell", <<text, executed>>, Waiting', next),
               Leads("tty", <<tty_escape_state',
                              [line |-> tty_line', sent |-> next[1], commands |-> next[2]]>>,
                     Tail(kbd_bytes), <<0, Expected>>)
        PROVE  Goes'
    <3>1. OnLine(text)'
      BY <1>3, <2>4 DEF OnLine
    <3>2. Leads("shell", <<text, executed'>>, Waiting', next)
      BY <1>3, <2>4, Zenon
    <3>3. Leads("tty", <<tty_escape_state',
                         [line |-> tty_line', sent |-> next[1], commands |-> next[2]]>>,
                kbd_bytes', <<0, Expected'>>)
      BY <1>1, <1>3, <2>4, Zenon
    <3> QED
      BY <2>4, <3>1, <3>2, <3>3, Zenon DEF Goes
  <2>5. DiscardEscape(b) \/ Edit(b)
    BY <1>1 DEF HandleByte, tty_handle_canonical, tty_handle_noncanonical
  <2>6. CASE DiscardEscape(b)
    <3>1. /\ Escaping(b) /\ tty_escape_state' = EscapeNext(b) /\ NothingEnqueued
          /\ tty_line' = tty_line /\ tty_drop_count' = tty_drop_count
      BY <2>6 DEF DiscardEscape
    <3>2. executed \in Commands /\ Goes
      BY <1>4, <2>2, <2>3, <3>1 DEF Lossless
    <3>3. PICK text \in Seq(Octet), next \in Seq(Octet) \X Commands :
              /\ OnLine(text)
              /\ Leads("shell", <<text, executed>>, Waiting, next)
              /\ Leads("tty", <<tty_escape_state,
                                [line |-> tty_line, sent |-> next[1], commands |-> next[2]]>>,
                       kbd_bytes, <<0, Expected>>)
      BY <3>2, Zenon DEF Goes
    <3>4. PICK st : st = [line |-> tty_line, sent |-> next[1], commands |-> next[2]]
      OBVIOUS
    <3>5. Turn("tty", <<tty_escape_state, st>>, b) = <<tty_escape_state', st>>
      BY <3>1 DEF Turn, Through, Filtered, EscapeNext, Escaping
    <3>6. Leads("tty", Turn("tty", <<tty_escape_state, st>>, b), Tail(kbd_bytes), <<0, Expected>>)
      BY <1>1, <3>3, <3>4, HeadLeads DEF b
    <3>7. Sink' = Sink
      BY <1>1, <3>1, SinkRests DEF NothingEnqueued, ptyVars, modeVars
    <3>8. Waiting' = Waiting
      BY <1>3, <3>7 DEF Waiting
    <3>9. Leads("tty", <<tty_escape_state',
                         [line |-> tty_line', sent |-> next[1], commands |-> next[2]]>>,
                Tail(kbd_bytes), <<0, Expected>>)
      BY <3>1, <3>4, <3>5, <3>6, Zenon
    <3>10. Leads("shell", <<text, executed>>, Waiting', next)
      BY <3>3, <3>8, Zenon
    <3> QED
      BY <1>3, <2>4, <3>2, <3>3, <3>9, <3>10
  <2>7. CASE Edit(b)
    <3>1. tty_drop_count' = 0 /\ tty_drop_count = 0
      <4>1. tty_drop_count' = 0
        BY <1>4 DEF Lossless
      <4>2. <<>> \in Seq(Octet) /\ <<>> \in Commands
        BY EmptySeq DEF Commands
      <4> QED
        BY <1>1, <2>1, <2>7, <4>1, <4>2, EditLeads DEF PathInv
    <3>2. executed \in Commands /\ Goes
      BY <2>2, <2>3, <3>1
    <3>3. PICK text \in Seq(Octet), next \in Seq(Octet) \X Commands :
              /\ OnLine(text)
              /\ Leads("shell", <<text, executed>>, Waiting, next)
              /\ Leads("tty", <<tty_escape_state,
                                [line |-> tty_line, sent |-> next[1], commands |-> next[2]]>>,
                       kbd_bytes, <<0, Expected>>)
      BY <3>2, Zenon DEF Goes
    <3>4. PICK sent \in Seq(Octet), done \in Commands : next = <<sent, done>>
      OBVIOUS
    <3>a. next[1] = sent /\ next[2] = done
      BY <3>4
    <3>5. PICK bs \in Seq(Octet), after \in Seq(Octet) \X Commands :
              /\ Sink' = Sink \o bs
              /\ Leads("shell", <<sent, done>>, bs, after)
              /\ TypedChar([line |-> tty_line, sent |-> sent, commands |-> done], b)
                    = [line |-> tty_line', sent |-> after[1], commands |-> after[2]]
      BY <1>1, <2>1, <2>7, <3>1, EditLeads DEF PathInv
    <3>6. Waiting' = Waiting \o bs /\ Waiting \in Seq(Octet)
      <4>1. PICK p \in Seq(Octet), q \in Seq(Octet) : p = pty_buf /\ q = Sink
        BY <2>1
      <4>2. p \o (q \o bs) = (p \o q) \o bs
        BY Joins, Zenon
      <4>a. p \o q \in Seq(Octet)
        BY <4>1, ConcatProperties
      <4>3. Waiting = p \o q /\ Waiting' = p \o (q \o bs)
        BY <1>3, <3>5, <4>1 DEF Waiting
      <4> QED
        BY <4>2, <4>a, <4>3
    <3>7. Leads("shell", <<text, executed>>, Waiting', after)
      BY <3>3, <3>4, <3>5, <3>6, OnLeads
    <3>8. PICK st, more : /\ st = [line |-> tty_line, sent |-> sent, commands |-> done]
                          /\ more = [line |-> tty_line', sent |-> after[1], commands |-> after[2]]
      OBVIOUS
    <3>9. tty_escape_state = 0 /\ b # Esc /\ tty_escape_state' = 0
      BY <2>7 DEF Edit, Escaping
    <3>10. Turn("tty", <<tty_escape_state, st>>, b) = <<tty_escape_state', more>>
      <4>1. TypedChar(st, b) = more
        BY <3>5, <3>8, Zenon
      <4> QED
        BY <3>9, <4>1 DEF Turn, Through
    <3>11. Leads("tty", <<tty_escape_state, st>>, kbd_bytes, <<0, Expected>>)
      BY <3>3, <3>a, <3>8, Zenon
    <3>12. Leads("tty", Turn("tty", <<tty_escape_state, st>>, b), Tail(kbd_bytes), <<0, Expected>>)
      BY <1>1, <3>11, HeadLeads DEF b
    <3>13. Leads("tty", <<tty_escape_state',
                          [line |-> tty_line', sent |-> after[1], commands |-> after[2]]>>,
                 Tail(kbd_bytes), <<0, Expected>>)
      BY <3>8, <3>10, <3>12, Zenon
    <3> QED
      BY <1>3, <2>4, <3>2, <3>3, <3>7, <3>13
  <2> QED
    BY <2>5, <2>6, <2>7
<1> QED
  BY <1>1, <1>2, <1>3, <1>4 DEF KeysInv, SpellInv

\* A key that types no Esc puts its way at the end (keyboard.c:256-340).
LEMMA StrikeSpells ==
    ASSUME PathInv, KeysInv, NEW s \in Stroke, Strike(s)
    PROVE  KeysInv'
<1> DEFINE bs == InputBytes(s[1], s[2], {})
<1>1. /\ strokes' = Append(strokes, s) /\ PushBytes(bs)
      /\ pc' = IF pc = "halted" THEN "poll" ELSE pc
      /\ UNCHANGED <<ttyPtyVars, sessionVars, shellVars, selftestVars>>
  BY DEF Strike
<1>2. bs \in Seq(KeyByte) /\ strokes \in Seq(Stroke) /\ Expected \in Texts
  BY InputIsBytes DEF KeysInv, SpellInv
<1>k. kbd_bytes \in Seq(KeyByte) /\ kbd_drop_byte_count \in Nat /\ Room \in Nat
  BY ByteQueueAssumption DEF PathInv, QueuesInv, KbdInv, KeysInv, PlaceInv, Room
<1> HIDE DEF bs
<1>3. /\ kbd_drop_byte_count' \in Nat
      /\ kbd_drop_byte_count' = 0 => kbd_drop_byte_count = 0 /\ kbd_bytes' = kbd_bytes \o bs
  <2> DEFINE n == IF Len(bs) <= Room THEN Len(bs) ELSE Room
  <2>1. n \in 0 .. Len(bs) /\ Len(bs) \in Nat
    BY <1>2, <1>k
  <2>2. /\ kbd_bytes' = kbd_bytes \o SubSeq(bs, 1, n)
        /\ kbd_drop_byte_count' = kbd_drop_byte_count + Len(bs) - n
    BY <1>1 DEF PushBytes
  <2> HIDE DEF n
  <2>3. /\ kbd_drop_byte_count' \in Nat
        /\ kbd_drop_byte_count' = 0 => kbd_drop_byte_count = 0 /\ n = Len(bs)
    BY <1>k, <2>1, <2>2
  <2>4. SubSeq(bs, 1, Len(bs)) = bs
    BY <1>2, SubSeqFull
  <2> QED
    BY <2>2, <2>3, <2>4
<1>4. /\ Sink' = Sink /\ session_active_pty' = session_active_pty
      /\ tty_line' = tty_line /\ pty_buf' = pty_buf /\ executed' = executed
      /\ shell_line' = shell_line /\ shell_len' = shell_len
      /\ tty_escape_state' = tty_escape_state /\ tty_drop_count' = tty_drop_count
      /\ verdicts' = verdicts
  BY <1>1, ActiveStays, SinkRests
  DEF ttyPtyVars, ttyVars, ptyVars, modeVars, countVars, shellVars, selftestVars
<1>5. PlaceInv'
  BY <1>1, <1>3, <1>4 DEF KeysInv, PlaceInv
<1>6. strokes' \in Seq(Stroke) /\ Expected' = TypedChar(Expected, Char(s))
  <2>1. strokes' \in Seq(Stroke)
    BY <1>1, <1>2
  <2>2. Spelt(strokes') = TypedChar(Spelt(strokes), Char(s))
    BY <1>1, <1>2, SpeltGrows
  <2>3. Expected = Spelt(strokes) /\ Expected' = Spelt(strokes')
    BY DEF Expected, Spelt
  <2> QED
    BY <2>1, <2>2, <2>3
<1>7. /\ Expected' \in Texts
      /\ \A p \in Commands : IsPrefix(p, Expected.commands) => IsPrefix(p, Expected'.commands)
  <2>1. Char(s) \in Octet
    BY CharIsByte DEF Char, KeyByte, Octet
  <2>2. <<>> \in Commands /\ IsPrefix(<<>>, Expected.commands)
    <3>1. <<>> \in Commands /\ Expected.commands \in Commands
      BY <1>2, EmptySeq DEF Commands, Texts
    <3>2. PICK e, c : e \in Commands /\ c \in Commands /\ e = <<>> /\ c = Expected.commands
      BY <3>1
    <3>3. /\ Len(e) = 0 /\ Len(c) \in Nat
          /\ SubSeq(e, 1, Len(e)) = <<>> /\ SubSeq(c, 1, Len(e)) = <<>>
      BY <3>2 DEF Commands
    <3>4. IsPrefix(e, c)
      BY <3>3 DEF IsPrefix
    <3> QED
      BY <3>1, <3>2, <3>4
  <2>3. \A p \in Commands : IsPrefix(p, Expected.commands)
            => TypedChar(Expected, Char(s)) \in Texts
               /\ IsPrefix(p, TypedChar(Expected, Char(s)).commands)
    BY <1>2, <2>1, TypedTurns
  <2> QED
    BY <1>6, <2>2, <2>3, Zenon
<1>8. ASSUME Lossless'
      PROVE  /\ executed' \in Commands
             /\ IF pc' = "inject" THEN IsPrefix(executed', Expected'.commands) ELSE Goes'
  <2>1. ~ TypesEsc(s) /\ Lossless /\ kbd_bytes' = kbd_bytes \o bs
    <3>1. \A i \in DOMAIN strokes' : ~ TypesEsc(strokes'[i])
      BY <1>8 DEF Lossless
    <3>2. /\ Len(strokes) + 1 \in DOMAIN strokes' /\ strokes'[Len(strokes) + 1] = s
          /\ \A i \in DOMAIN strokes : i \in DOMAIN strokes' /\ strokes'[i] = strokes[i]
      BY <1>1, <1>2
    <3>3. ~ TypesEsc(s) /\ \A i \in DOMAIN strokes : ~ TypesEsc(strokes[i])
      BY <3>1, <3>2, Zenon
    <3> QED
      BY <1>3, <1>4, <1>8, <3>3 DEF Lossless
  <2>2. executed \in Commands
        /\ IF pc = "inject" THEN IsPrefix(executed, Expected.commands) ELSE Goes
    BY <2>1 DEF KeysInv, SpellInv
  <2>3. CASE pc = "inject"
    BY <1>1, <1>4, <1>7, <2>2, <2>3
  <2>4. CASE pc # "inject"
    <3>1. pc' # "inject" /\ Goes
      BY <1>1, <2>2, <2>4
    <3>2. PICK text \in Seq(Octet), next \in Seq(Octet) \X Commands :
              /\ OnLine(text)
              /\ Leads("shell", <<text, executed>>, Waiting, next)
              /\ Leads("tty", <<tty_escape_state,
                                [line |-> tty_line, sent |-> next[1], commands |-> next[2]]>>,
                       kbd_bytes, <<0, Expected>>)
      BY <3>1, Zenon DEF Goes
    <3>3. PICK x, y, z : /\ x = <<tty_escape_state,
                                  [line |-> tty_line, sent |-> next[1], commands |-> next[2]]>>
                         /\ y = <<0, Expected>>
                         /\ z = <<0, Expected'>>
      BY Zenon
    <3>4. Leads("tty", x, kbd_bytes, y)
      BY <3>2, <3>3, Zenon
    <3>5. Leads("tty", y, bs, z)
      BY <1>6, <2>1, <3>3, StrokeLeads DEF bs
    <3>6. Leads("tty", x, kbd_bytes', z)
      BY <1>2, <1>k, <2>1, <3>4, <3>5, OnLeads
    <3>7. Leads("tty", <<tty_escape_state',
                         [line |-> tty_line', sent |-> next[1], commands |-> next[2]]>>,
                kbd_bytes', <<0, Expected'>>)
      BY <1>4, <3>3, <3>6, Zenon
    <3>8. Waiting' = Waiting /\ OnLine(text)'
      BY <1>4, <3>2 DEF Waiting, OnLine
    <3>9. Leads("shell", <<text, executed'>>, Waiting', next)
      BY <1>4, <3>2, <3>8, Zenon
    <3>10. Goes'
      BY <3>7, <3>8, <3>9, Zenon DEF Goes
    <3> QED
      BY <1>4, <2>2, <3>1, <3>10
  <2> QED
    BY <2>3, <2>4
<1> QED
  BY <1>5, <1>6, <1>7, <1>8 DEF KeysInv, SpellInv
-----------------------------------------------------------------------------
\* A step that leaves the bytes that wait, and what was done, as they are.
LEMMA RestSpells ==
    ASSUME KeysInv, Waiting' = Waiting, pc' = "inject" <=> pc = "inject",
           UNCHANGED <<kbdVars, tty_line, tty_escape_state, tty_drop_count,
                       executed, shell_line, shell_len, verdicts, strokes>>,
           pty_buf' \in Seq(Octet),
           pc' \notin {"run", "inject"} \/ session_active_pty' # 0 => pty_buf' = <<>>,
           pc' \in {"idle", "halted"} => Sink' = <<>>
    PROVE  KeysInv'
<1>1. /\ Expected' = Expected /\ executed' = executed /\ kbd_bytes' = kbd_bytes
      /\ tty_line' = tty_line /\ tty_escape_state' = tty_escape_state
  BY ExpectedStays DEF kbdVars
<1>2. PlaceInv'
  BY DEF KeysInv, PlaceInv, kbdVars
<1>3. Lossless' => Lossless
  BY DEF Lossless, kbdVars
<1>4. ASSUME Goes PROVE Goes'
  <2>1. PICK text \in Seq(Octet), next \in Seq(Octet) \X Commands :
            /\ OnLine(text)
            /\ Leads("shell", <<text, executed>>, Waiting, next)
            /\ Leads("tty", <<tty_escape_state,
                              [line |-> tty_line, sent |-> next[1], commands |-> next[2]]>>,
                     kbd_bytes, <<0, Expected>>)
    BY <1>4, Zenon DEF Goes
  <2>2. OnLine(text)'
    BY <2>1 DEF OnLine
  <2>3. Leads("shell", <<text, executed'>>, Waiting', next)
    BY <1>1, <2>1, Zenon
  <2>4. Leads("tty", <<tty_escape_state',
                       [line |-> tty_line', sent |-> next[1], commands |-> next[2]]>>,
              kbd_bytes', <<0, Expected'>>)
    BY <1>1, <2>1, Zenon
  <2> QED
    BY <2>2, <2>3, <2>4, Zenon DEF Goes
<1>5. SpellInv'
  BY <1>1, <1>3, <1>4 DEF KeysInv, SpellInv
<1> QED
  BY <1>2, <1>5 DEF KeysInv

\* A chunk and what it leaves are what there was (pty.c:91-105).
LEMMA ReadableIs ==
    ASSUME NEW q \in Seq(Octet), NEW n \in Nat
    PROVE  LET r == Readable(q, n)
           IN  r \in Seq(Octet) /\ r \o SubSeq(q, Len(r) + 1, Len(q)) = q
<1> DEFINE r == Readable(q, n)
           m == IF Len(q) <= n THEN Len(q) ELSE n
<1>1. m \in 0 .. Len(q) /\ Len(q) \in Nat
  OBVIOUS
<1>2. r = SubSeq(q, 1, m)
  <2>1. SubSeq(q, 1, Len(q)) = q
    BY SubSeqFull
  <2> QED
    BY <2>1 DEF Readable
<1> HIDE DEF r, m
<1>3. r \in Seq(Octet) /\ Len(r) = m /\ \A i \in 1 .. m : r[i] = q[i]
  BY <1>1, <1>2, PartOf
<1> DEFINE s == SubSeq(q, m + 1, Len(q))
<1>4. /\ s \in Seq(Octet) /\ Len(s) = Len(q) - m
      /\ \A i \in 1 .. Len(q) - m : s[i] = q[m + i]
  <2>1. m + 1 \in Int /\ Len(q) \in Int /\ \A i \in m + 1 .. Len(q) : q[i] \in Octet
    BY <1>1, ElementOfSeq
  <2>2. /\ s \in Seq(Octet) /\ Len(s) = IF m + 1 <= Len(q) THEN Len(q) - (m + 1) + 1 ELSE 0
        /\ \A i \in 1 .. Len(q) - (m + 1) + 1 : s[i] = q[(m + 1) + i - 1]
    BY <2>1, SubSeqProperties
  <2> HIDE DEF s
  <2>3. Len(s) = Len(q) - m
    BY <1>1, <2>2
  <2>4. ASSUME NEW i \in 1 .. Len(q) - m PROVE s[i] = q[m + i]
    <3>1. i \in 1 .. Len(q) - (m + 1) + 1 /\ (m + 1) + i - 1 = m + i
      BY <1>1
    <3>2. s[i] = q[(m + 1) + i - 1]
      BY <2>2, <3>1
    <3> QED
      BY <3>1, <3>2
  <2> QED
    BY <2>2, <2>3, <2>4
<1> HIDE DEF s
<1>5. PICK w : w = r \o s
  BY Zenon
<1>6. /\ w \in Seq(Octet) /\ Len(w) = Len(r) + Len(s)
      /\ \A i \in 1 .. Len(r) + Len(s) : w[i] = IF i <= Len(r) THEN r[i] ELSE s[i - Len(r)]
  BY <1>3, <1>4, <1>5, ConcatProperties
<1>7. Len(w) = Len(q)
  BY <1>1, <1>3, <1>4, <1>6
<1>8. ASSUME NEW i \in 1 .. Len(w) PROVE w[i] = q[i]
  <2>1. CASE i <= m
    BY <1>1, <1>3, <1>6, <1>7, <2>1
  <2>2. CASE ~ (i <= m)
    <3>1. i - m \in 1 .. Len(q) - m /\ m + (i - m) = i
      BY <1>1, <1>7, <2>2
    <3>2. w[i] = s[i - m] /\ s[i - m] = q[m + (i - m)]
      BY <1>3, <1>4, <1>6, <2>2, <3>1
    <3> QED
      BY <3>1, <3>2
  <2> QED
    BY <2>1, <2>2
<1>9. w = q
  BY <1>6, <1>7, <1>8, SameSequence
<1>10. r \in Seq(Octet) /\ r \o SubSeq(q, Len(r) + 1, Len(q)) = q
  BY <1>3, <1>5, <1>9, Zenon DEF s
<1> QED
  BY <1>10 DEF r

LEMMA ReadSpells ==
    ASSUME PathInv, RouteInv', KeysInv, ReadChunk
    PROVE  KeysInv'
<1>1. /\ pc = "read" /\ pty_is_valid(session_active_pty) /\ pc' = "run"
      /\ pty_buf' = Readable(g_ptys[session_active_pty].m2s, SHELL_CHUNK)
      /\ PtyRead(session_active_pty, "m2s", SHELL_CHUNK)
      /\ UNCHANGED <<ttyVars, sessionVars, kbdVars, shell_line, shell_len, executed,
                     selftestVars, strokes>>
  BY DEF ReadChunk
<1>2. /\ session_active_pty = 0 /\ session_active_pty' = 0 /\ 0 \in Ptys
      /\ g_ptys \in [Ptys -> PtyRecord] /\ g_ptys[0].m2s \in Seq(Octet)
  BY <1>1, ActiveStays, QueueFacts DEF PathInv, RouteInv, pty_is_valid, Ptys
<1>3. PICK q \in Seq(Octet) : q = g_ptys[0].m2s
  BY <1>2
<1>4. PICK r : r = Readable(q, SHELL_CHUNK)
  BY Zenon
<1>5. PICK s : s = SubSeq(q, Len(r) + 1, Len(q))
  BY Zenon
<1>6. r \in Seq(Octet) /\ r \o s = q
  BY <1>4, <1>5, ReadableIs, ShellAssumption
<1>7. g_ptys' = [g_ptys EXCEPT ![0]["m2s"] = s]
  BY <1>1, <1>2, <1>3, <1>4, <1>5 DEF PtyRead
<1>8. g_ptys'[0].m2s = s
  BY <1>2, <1>7 DEF PtyRecord
<1>9. Sink = q /\ Sink' = s
  BY <1>2, <1>3, <1>8, SinkIs DEF PathInv
<1>10. Waiting' = Waiting
  <2>1. pty_buf = <<>> /\ pty_buf' = r
    BY <1>1, <1>2, <1>3, <1>4 DEF KeysInv, PlaceInv
  <2>2. <<>> \o q = q
    BY <1>3, SequencesCompare
  <2> QED
    BY <1>6, <1>9, <2>1, <2>2 DEF Waiting
<1>11. pty_buf' \in Seq(Octet)
  BY <1>1, <1>2, <1>3, <1>4, <1>6
<1>12. UNCHANGED <<tty_line, tty_escape_state, tty_drop_count, verdicts>>
  BY <1>1 DEF ttyVars, countVars, selftestVars
<1> QED
  BY <1>1, <1>2, <1>10, <1>11, <1>12, RestSpells

LEMMA StepKeepsKeys ==
    ASSUME PathInv, PathInv', KeysInv, [InputNext]_inputVars
    PROVE  KeysInv'
<1>r. RouteInv' /\ QueuesInv /\ QueuesInv' /\ tty_canonical /\ PlaceInv /\ SpellInv
  BY DEF PathInv, KeysInv, SelftestInv
<1>1. ASSUME NEW s \in Stroke, Strike(s) PROVE KeysInv'
  BY <1>1, StrikeSpells
<1>2. CASE PollByte
  BY <1>2, PollSpells
<1>3. CASE ReadChunk
  BY <1>3, <1>r, ReadSpells
<1>4. CASE TimerTick \/ PollDone \/ ReadNothing \/ ChunkDone \/ Hlt
  <2>1. UNCHANGED <<ttyPtyVars, sessionVars, kbdVars, shellVars, selftestVars, strokes>>
    BY <1>4 DEF TimerTick, PollDone, ReadNothing, ChunkDone, Hlt
  <2>2. /\ UNCHANGED <<tty_line, tty_escape_state, tty_drop_count, executed, shell_line,
                       shell_len, verdicts, pty_buf>>
        /\ Sink' = Sink /\ session_active_pty' = session_active_pty
    BY <2>1, SinkRests, ActiveStays
    DEF ttyPtyVars, ptyVars, ttyVars, modeVars, countVars, shellVars, selftestVars
  <2>3. Waiting' = Waiting
    BY <2>2 DEF Waiting
  <2>4. pc' # "inject" /\ pc # "inject"
    BY <1>4 DEF TimerTick, PollDone, ReadNothing, ChunkDone, Hlt
  <2>5. pty_buf' \in Seq(Octet)
        /\ (pc' \notin {"run", "inject"} \/ session_active_pty' # 0 => pty_buf' = <<>>)
    BY <1>4, <1>r, <2>2 DEF TimerTick, PollDone, ReadNothing, ChunkDone, Hlt, PlaceInv
  <2>6. ASSUME pc' \in {"idle", "halted"} PROVE Sink' = <<>>
    <3>1. CASE ReadNothing
      <4>1. Sink = <<>>
        BY <3>1, SinkIs DEF ReadNothing, PathInv, RouteInv
      <4> QED
        BY <2>2, <4>1
    <3>2. CASE Hlt
      BY <1>r, <2>2, <3>2 DEF Hlt, PlaceInv
    <3>3. CASE TimerTick \/ PollDone \/ ChunkDone
      BY <2>6, <3>3 DEF TimerTick, PollDone, ChunkDone
    <3> QED
      BY <1>4, <3>1, <3>2, <3>3
  <2> QED
    BY <2>1, <2>2, <2>3, <2>4, <2>5, <2>6, RestSpells
<1>t. ASSUME TakeChar, UNCHANGED <<sessionVars, kbdVars, strokes>>
      PROVE  /\ UNCHANGED <<tty_line, tty_escape_state, tty_drop_count, strokes, kbdVars>>
             /\ session_active_pty' = session_active_pty /\ Expected' = Expected
             /\ pty_buf' \in Seq(Octet)
             /\ (pc \notin {"run", "inject"} \/ session_active_pty # 0 => pty_buf' = <<>>)
             /\ pc \notin {"idle", "halted", "inject"}
  <2>1. pc \in {"run", "read"}
    BY <1>t DEF TakeChar, PtyChar, TtyChar
  <2> QED
    BY <1>r, <1>t, <2>1, TakeKeeps, TakesFirst, ActiveStays, ExpectedStays DEF countVars
<1>b. ASSUME TakeChar, StartsSelftest, ExecuteLine PROVE ShellByte(NextChar)
  BY <1>b DEF StartsSelftest, ShellByte
<1>5. CASE RunByte
  <2>1. /\ TakeChar /\ ShellByte(NextChar)
        /\ UNCHANGED <<ptyVars, sessionVars, kbdVars, selftestVars, pc, strokes>>
    BY <1>5 DEF RunByte
  <2>2. PlaceInv'
    BY <1>r, <1>t, <2>1 DEF PlaceInv, kbdVars
  <2>3. ASSUME Lossless' PROVE executed' \in Commands /\ pc' # "inject" /\ Goes'
    <3>1. Lossless
      BY <1>t, <2>1, <2>3 DEF Lossless, kbdVars, selftestVars
    <3>2. executed \in Commands /\ pc # "inject" /\ pc' # "inject" /\ Goes /\ Expected \in Texts
      BY <1>r, <1>t, <2>1, <3>1 DEF SpellInv
    <3>3. UNCHANGED <<ptyVars, kbd_bytes, tty_line, tty_escape_state, strokes>>
      BY <1>t, <2>1 DEF kbdVars
    <3> QED
      BY <1>r, <2>1, <3>2, <3>3, ShellGoes
  <2> QED
    BY <1>r, <1>t, <2>1, <2>2, <2>3 DEF KeysInv, SpellInv
<1>6. CASE RefuseSelftest
  <2>1. /\ TakeChar /\ verdicts' = Append(verdicts, "REFUSED")
        /\ UNCHANGED <<ptyVars, sessionVars, kbdVars, pc, strokes>>
    BY <1>6 DEF RefuseSelftest
  <2>2. PlaceInv'
    BY <1>r, <1>t, <2>1 DEF PlaceInv, kbdVars
  <2>3. ~ Lossless'
    <3>1. verdicts' # <<>>
      BY <2>1 DEF PathInv, SelftestInv
    <3> QED
      BY <3>1 DEF Lossless
  <2> QED
    BY <1>r, <1>t, <2>1, <2>2, <2>3 DEF KeysInv, SpellInv
<1>7. CASE StartSelftest
  <2>1. /\ TakeChar /\ StartsSelftest /\ ExecuteLine /\ pc' = "inject" /\ verdicts' = verdicts
        /\ UNCHANGED <<sessionVars, kbdVars, strokes>>
    BY <1>7 DEF StartSelftest
  <2>2. PlaceInv'
    BY <1>r, <1>t, <2>1 DEF PlaceInv, kbdVars
  <2>3. ASSUME Lossless'
        PROVE  executed' \in Commands /\ IsPrefix(executed', Expected'.commands)
    <3>1. Lossless
      BY <1>t, <2>1, <2>3 DEF Lossless, kbdVars
    <3>2. executed \in Commands /\ Goes /\ Expected \in Texts
      BY <1>r, <1>t, <2>1, <3>1 DEF SpellInv
    <3>3. executed' \in Commands /\ IsPrefix(executed', Expected.commands)
      BY <1>r, <1>b, <2>1, <3>2, ShellGoes
    <3> QED
      BY <1>t, <2>1, <3>3
  <2> QED
    BY <1>r, <1>t, <2>1, <2>2, <2>3 DEF KeysInv, SpellInv
<1>8. CASE InjectByte
  <2> DEFINE b == IF injected = SelftestLine - 1 THEN Newline ELSE 120
  <2>1. /\ pc = "inject" /\ HandleByte(b) /\ b \in Octet
        /\ UNCHANGED <<sessionVars, kbdVars, shellVars, verdicts, pc, strokes>>
    BY <1>8 DEF InjectByte, Octet, Newline
  <2> HIDE DEF b
  <2>2. tty_line' \in Seq(Kept)
    BY <1>r, <2>1, LineKeeps DEF PlaceInv
  <2>3. session_active_pty' = session_active_pty /\ Expected' = Expected
    BY <2>1, ActiveStays, ExpectedStays
  <2>4. PlaceInv'
    BY <1>r, <2>1, <2>2, <2>3 DEF PlaceInv, kbdVars, shellVars
  <2>5. ASSUME Lossless' PROVE Lossless
    <3>1. tty_drop_count = 0
      <4>1. DiscardEscape(b) \/ Edit(b)
        BY <1>r, <2>1 DEF HandleByte, tty_handle_canonical, tty_handle_noncanonical
      <4>2. tty_drop_count \in Nat /\ tty_drop_count' \in Nat /\ tty_drop_count' = 0
        BY <1>r, <2>5 DEF Lossless, QueuesInv, TypeOK, TtyTypeOK
      <4>3. TypeOK /\ BufferBounds
        BY <1>r DEF QueuesInv
      <4>4. CASE DiscardEscape(b)
        BY <4>2, <4>4 DEF DiscardEscape
      <4>5. CASE Edit(b)
        BY <2>1, <4>2, <4>3, <4>5, EditIs
      <4> QED
        BY <4>1, <4>4, <4>5
    <3> QED
      BY <2>1, <2>5, <3>1 DEF Lossless, kbdVars
  <2> QED
    BY <1>r, <2>1, <2>3, <2>4, <2>5 DEF KeysInv, SpellInv, shellVars
<1>9. CASE EndSelftest
  <2>1. /\ pc = "inject" /\ pc' = (IF session_active_pty < 0 THEN "read" ELSE "run")
        /\ UNCHANGED <<ttyVars, sessionVars, kbdVars, shellVars, strokes>>
    BY <1>9 DEF EndSelftest
  <2>2. session_active_pty' = session_active_pty /\ Expected' = Expected
        /\ session_active_pty \in {-1, 0}
    BY <2>1, ActiveStays, ExpectedStays DEF PathInv, RouteInv
  <2>3. PlaceInv'
    BY <1>r, <2>1, <2>2 DEF PlaceInv, kbdVars, shellVars, ttyVars
  <2>4. ~ Lossless'
    <3>1. PICK v : verdicts' = Append(verdicts, v) /\ v \in {"PASS", "FAIL"}
      BY <1>9 DEF EndSelftest
    <3>2. verdicts' # <<>>
      BY <3>1 DEF PathInv, SelftestInv
    <3> QED
      BY <3>2 DEF Lossless
  <2> QED
    BY <1>r, <2>1, <2>2, <2>3, <2>4 DEF KeysInv, SpellInv
<1>10. CASE UNCHANGED inputVars
  <2>1. /\ UNCHANGED <<kbdVars, tty_line, tty_escape_state, tty_drop_count, executed,
                       shell_line, shell_len, verdicts, strokes, pty_buf, pc>>
        /\ Sink' = Sink /\ session_active_pty' = session_active_pty
    BY <1>10, SinkRests, ActiveStays
    DEF inputVars, ttyPtyVars, ptyVars, ttyVars, modeVars, countVars, shellVars, selftestVars
  <2>2. Waiting' = Waiting
    BY <2>1 DEF Waiting
  <2> QED
    BY <1>r, <2>1, <2>2, RestSpells DEF PlaceInv
<1> QED
  BY <1>1, <1>2, <1>3, <1>4, <1>5, <1>6, <1>7, <1>8, <1>9, <1>10 DEF InputNext, MainLoop
-----------------------------------------------------------------------------
LEMMA KeysAtBoot == InputInit => KeysInv
<1> SUFFICES ASSUME InputInit PROVE KeysInv
  OBVIOUS
<1>1. /\ kbd_bytes = <<>> /\ kbd_drop_byte_count = 0 /\ pc = "poll" /\ pty_buf = <<>>
      /\ shell_len = 0 /\ executed = <<>> /\ strokes = <<>>
      /\ tty_line = <<>> /\ tty_escape_state = 0
  BY DEF InputInit, BootInit, TtyAttachedInit
<1>2. PathInv
  BY PathAtBoot
<1>3. PICK e : e = <<>> /\ e \in Seq(Octet) /\ e \in Commands /\ e \in Seq(Stroke)
               /\ e \in Seq(Kept) /\ Len(e) = 0
  <2>1. \A S : <<>> \in Seq(S)
    BY EmptySeq
  <2>2. <<>> \in Commands
    BY <2>1 DEF Commands
  <2>3. Len(<<>>) = 0
    BY EmptySeq
  <2> QED
    BY <2>1, <2>2, <2>3
<1>4. Expected = Blank
  <2>1. Spelt(e) = Blank
    <3>1. PICK after : after[0] = Blank /\ Spelt(e) = after[Len(e)]
      BY <1>3, SpeltLoop
    <3> QED
      BY <1>3, <3>1
  <2>2. Expected = Spelt(strokes)
    BY DEF Expected, Spelt
  <2> QED
    BY <1>1, <1>3, <2>1, <2>2
<1>5. Expected = [line |-> e, sent |-> e, commands |-> e] /\ Expected \in Texts
  BY <1>3, <1>4 DEF Blank, Texts
<1>6. Waiting = e
  <2>1. Sink = <<>>
    <3>1. \A p \in Ptys : g_ptys[p].m2s = <<>>
      BY DEF InputInit, BootInit, NoPty, FreshPty
    <3>2. tty_read_queue = <<>>
      BY DEF InputInit, BootInit, TtyAttachedInit
    <3> QED
      BY <3>1, <3>2 DEF Sink, Attached, pty_is_valid
  <2>2. e \o e = e
    BY <1>3, SequencesCompare
  <2> QED
    BY <1>1, <1>3, <2>1, <2>2 DEF Waiting
<1>7. OnLine(e)
  <2>1. Len(Cut(e)) \in 0 .. 0
    BY <1>3, CutIs
  <2> QED
    BY <1>1, <2>1 DEF OnLine
<1>8. PICK x, next, z : x = <<e, executed>> /\ next = <<e, e>> /\ z = <<0, Expected>>
  BY Zenon
<1>9. Leads("shell", <<e, executed>>, Waiting, next)
  <2>1. Leads("shell", next, e, next)
    BY <1>3, NoneLead
  <2> QED
    BY <1>1, <1>3, <1>6, <1>8, <2>1
<1>10. Leads("tty", <<tty_escape_state,
                      [line |-> tty_line, sent |-> next[1], commands |-> next[2]]>>,
             kbd_bytes, <<0, Expected>>)
  <2>1. Leads("tty", z, e, z)
    BY <1>3, NoneLead
  <2>2. next[1] = e /\ next[2] = e
    BY <1>8
  <2>3. <<tty_escape_state, [line |-> tty_line, sent |-> next[1], commands |-> next[2]]>> = z
    BY <1>1, <1>3, <1>5, <1>8, <2>2, Zenon
  <2> QED
    BY <1>1, <1>3, <1>8, <2>1, <2>3, Zenon
<1>11. Goes
  <2>1. next \in Seq(Octet) \X Commands
    BY <1>3, <1>8
  <2> QED
    BY <1>3, <1>7, <1>9, <1>10, <2>1, Zenon DEF Goes
<1>12. PlaceInv
  BY <1>1, <1>3 DEF PlaceInv
<1>13. SpellInv
  BY <1>1, <1>3, <1>5, <1>11 DEF SpellInv
<1> QED
  BY <1>12, <1>13 DEF KeysInv

LEMMA KeysAreExecuted == PathInv /\ KeysInv => TypedIsExecuted
<1> SUFFICES ASSUME PathInv, KeysInv, Lossless
             PROVE  /\ IsPrefix(executed, Expected.commands)
                    /\ AtRest => /\ executed = Expected.commands
                                 /\ tty_line = Expected.line
                                 /\ [i \in 1 .. shell_len |-> shell_line[i - 1]]
                                       = Cut(Expected.sent)
  BY DEF TypedIsExecuted, Lossless
<1>1. /\ executed \in Commands /\ Expected \in Texts
      /\ IF pc = "inject" THEN IsPrefix(executed, Expected.commands) ELSE Goes
  BY DEF KeysInv, SpellInv
<1>2. CASE pc = "inject"
  BY <1>1, <1>2 DEF AtRest
<1>3. CASE pc # "inject"
  <2>1. PICK text \in Seq(Octet), next \in Seq(Octet) \X Commands :
            /\ OnLine(text)
            /\ Leads("shell", <<text, executed>>, Waiting, next)
            /\ Leads("tty", <<tty_escape_state,
                              [line |-> tty_line, sent |-> next[1], commands |-> next[2]]>>,
                     kbd_bytes, <<0, Expected>>)
    BY <1>1, <1>3, Zenon DEF Goes
  <2>2. PICK x, y, z : /\ x = <<text, executed>>
                       /\ y = <<tty_escape_state,
                                [line |-> tty_line, sent |-> next[1], commands |-> next[2]]>>
                       /\ z = <<0, Expected>>
    BY Zenon
  <2>3. /\ Sink \in Seq(Octet) /\ pty_buf \in Seq(Octet) /\ kbd_bytes \in Seq(Octet)
        /\ tty_line \in Seq(Octet) /\ tty_escape_state \in 0 .. 2
    <3>1. kbd_bytes \in Seq(Octet)
      BY SeqMonotonic DEF PathInv, QueuesInv, KbdInv, KeyByte, Octet
    <3>2. tty_line \in Seq(Octet) /\ tty_escape_state \in 0 .. 2
      BY DEF PathInv, QueuesInv, TypeOK, TtyTypeOK
    <3> QED
      BY <3>1, <3>2, SinkFacts DEF PathInv, QueuesInv, KeysInv, PlaceInv
  <2>4. IsPrefix(executed, Expected.commands)
    <3>1. x \in Seq(Octet) \X Commands /\ IsPrefix(executed, x[2])
      BY <1>1, <2>2, StaysPrefix DEF Commands
    <3>2. Waiting \in Seq(Octet)
      BY <2>3, ConcatProperties DEF Waiting
    <3>3. next \in Seq(Octet) \X Commands /\ IsPrefix(executed, next[2])
      BY <1>1, <2>1, <2>2, <3>1, <3>2, ShellLeads
    <3>4. y \in (0 .. 2) \X Texts /\ y[2].commands = next[2]
      BY <2>2, <2>3 DEF Texts
    <3>5. Leads("tty", y, kbd_bytes, z)
      BY <2>1, <2>2, Zenon
    <3>6. IsPrefix(executed, z[2].commands)
      BY <1>1, <2>3, <3>3, <3>4, <3>5, KeysLead
    <3> QED
      BY <2>2, <3>6
  <2>5. ASSUME AtRest
        PROVE  /\ executed = Expected.commands /\ tty_line = Expected.line
               /\ [i \in 1 .. shell_len |-> shell_line[i - 1]] = Cut(Expected.sent)
    <3>1. kbd_bytes = <<>> /\ pty_buf = <<>> /\ Sink = <<>>
      BY <2>5 DEF AtRest, KeysInv, PlaceInv
    <3>2. Waiting = <<>>
      BY <2>3, <3>1, SequencesCompare DEF Waiting
    <3>3. x = next
      BY <2>1, <2>2, <3>2, NoneLead
    <3>4. y = z
      BY <2>1, <2>2, <3>1, NoneLead
    <3>5. next[1] = text /\ next[2] = executed
      BY <2>2, <3>3
    <3>6. Expected = [line |-> tty_line, sent |-> next[1], commands |-> next[2]]
      BY <2>2, <3>4
    <3>7. Expected.line = tty_line /\ Expected.sent = text /\ Expected.commands = executed
      BY <3>5, <3>6
    <3>8. [i \in 1 .. shell_len |-> shell_line[i - 1]] = Cut(text)
      <4>1. /\ shell_len = Len(Cut(text)) /\ Cut(text) \in Seq(Octet)
            /\ \A i \in 1 .. shell_len : shell_line[i - 1] = Cut(text)[i]
        BY <2>1, CutIs DEF OnLine
      <4>2. PICK c \in Seq(Octet) : c = Cut(text)
        BY <4>1
      <4>3. c = [i \in 1 .. Len(c) |-> c[i]]
        BY <4>2
      <4> QED
        BY <4>1, <4>2, <4>3
    <3> QED
      BY <3>7, <3>8
  <2> QED
    BY <2>4, <2>5
<1> QED
  BY <1>2, <1>3

\* For queues, chunks and buffers of any size and however polls, reads and
\* interrupts fall: as long as nothing is counted as lost, no self-test has
\* ended and no key typed an Esc, the shell executes exactly the commands the
\* keys spell, and at rest all of them.
THEOREM TypingIsExecuted == InputSpec => []TypedIsExecuted
<1>1. InputInit => PathInv /\ KeysInv
  BY PathAtBoot, KeysAtBoot
<1>2. PathInv /\ KeysInv /\ [InputNext]_inputVars => PathInv' /\ KeysInv'
  BY PathStep, StepKeepsKeys
<1>3. PathInv /\ KeysInv => TypedIsExecuted
  BY KeysAreExecuted
<1> QED
  BY <1>1, <1>2, <1>3, PTL DEF InputSpec
=============================================================================
