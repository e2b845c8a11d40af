--------------------------- MODULE PtyRingsProofs ---------------------------
(***************************************************************************)
(* The rings of the pseudo-terminals implement byte queues, for every      *)
(* number and size of rings and all batches.                               *)
(***************************************************************************)
EXTENDS PtyRings, SequenceTheorems, TLAPS

Octet == 0 .. 255
Slot == [allocated : BOOLEAN, m2s : Ring, s2m : Ring]

\* Indices stay inside the rings, whose slots hold bytes.
RingsInv == g_ptys \in [Ptys -> Slot] /\ g_pty_dropped_bytes \in Nat /\ g_pty_invalid_ops \in Nat

USE PtyAssumption, PtyRingsAssumption
-----------------------------------------------------------------------------
\* An index is at most one turn too far.
Turn(a) == a % PTY_QUEUE_SIZE

LEMMA Wrap ==
    \A a \in 0 .. PTY_QUEUE_SIZE + PTY_QUEUE_SIZE - 1 :
        /\ Turn(a) = IF a < PTY_QUEUE_SIZE THEN a ELSE a - PTY_QUEUE_SIZE
        /\ Turn(a) \in Slots
<1> SUFFICES ASSUME NEW a \in 0 .. PTY_QUEUE_SIZE + PTY_QUEUE_SIZE - 1
             PROVE  /\ Turn(a) = IF a < PTY_QUEUE_SIZE THEN a ELSE a - PTY_QUEUE_SIZE
                    /\ Turn(a) \in Slots
  OBVIOUS
<1>1. CASE a < PTY_QUEUE_SIZE
  BY <1>1 DEF Slots, Turn
<1>2. CASE a >= PTY_QUEUE_SIZE
  <2>1. PICK b \in Int : b = a - PTY_QUEUE_SIZE
    OBVIOUS
  <2>2. b \in 0 .. PTY_QUEUE_SIZE - 1 /\ a = b + PTY_QUEUE_SIZE
    BY <1>2, <2>1
  <2> QED
    BY <1>2, <2>2 DEF Slots, Turn
<1> QED
  BY <1>1, <1>2

\* The bytes of a ring: one slot stays free, and the i-th byte is i slots
\* past the tail.
LEMMA RingFacts ==
    ASSUME NEW r \in Ring
    PROVE  /\ r.head \in Slots /\ r.tail \in Slots /\ r.queue \in [Slots -> Octet]
           /\ Count(r) = IF r.head >= r.tail THEN r.head - r.tail
                                             ELSE r.head + PTY_QUEUE_SIZE - r.tail
           /\ Count(r) \in 0 .. PTY_QUEUE_SIZE - 1
           /\ Contents(r) \in Seq(Octet) /\ Len(Contents(r)) = Count(r)
           /\ \A i \in 1 .. Count(r) :
                  /\ Contents(r)[i] = r.queue[Turn(r.tail + i - 1)]
                  /\ r.tail + i - 1 \in 0 .. PTY_QUEUE_SIZE + PTY_QUEUE_SIZE - 1
<1>1. r.head \in Slots /\ r.tail \in Slots /\ r.queue \in [Slots -> Octet]
  BY DEF Ring, Octet
<1>2. r.head + PTY_QUEUE_SIZE - r.tail \in 0 .. PTY_QUEUE_SIZE + PTY_QUEUE_SIZE - 1
  BY <1>1 DEF Slots
<1>3. Count(r) = IF r.head >= r.tail THEN r.head - r.tail
                                     ELSE r.head + PTY_QUEUE_SIZE - r.tail
  <2>1. Count(r) = Turn(r.head + PTY_QUEUE_SIZE - r.tail)
    BY DEF Count, Turn
  <2> QED
    BY <1>1, <1>2, <2>1, Wrap DEF Slots
<1>4. Count(r) \in 0 .. PTY_QUEUE_SIZE - 1
  BY <1>1, <1>3 DEF Slots
<1>5. \A i \in 1 .. Count(r) : r.tail + i - 1 \in 0 .. PTY_QUEUE_SIZE + PTY_QUEUE_SIZE - 1
  BY <1>1, <1>4 DEF Slots
<1>6. \A i \in 1 .. Count(r) : r.queue[Turn(r.tail + i - 1)] \in Octet
  BY <1>1, <1>5, Wrap
<1>7. Contents(r) \in [1 .. Count(r) -> Octet]
  BY <1>6 DEF Contents, Turn
<1>8. Contents(r) \in Seq(Octet) /\ Len(Contents(r)) = Count(r)
  BY <1>4, <1>7
<1> QED
  BY <1>1, <1>3, <1>4, <1>5, <1>8 DEF Contents, Turn

\* Two rings with as many bytes, the same at each place, have the same
\* contents.
LEMMA SameBytes ==
    ASSUME NEW s \in Seq(Octet), NEW t \in Seq(Octet), Len(s) = Len(t),
           \A i \in 1 .. Len(s) : s[i] = t[i]
    PROVE  s = t
  BY SeqEqual

\* A batch that is written: what fits is appended, and one slot stays free
\* (pty.c:21-34).
LEMMA StoredContents ==
    ASSUME NEW r \in Ring, NEW buf \in Seq(Octet)
    PROVE  /\ Stored(r, buf) \in Ring
           /\ Written(r, buf) = Len(Queues!Accepted(Contents(r), PTY_QUEUE_SIZE, buf))
           /\ Written(r, buf) \in 0 .. Len(buf)
           /\ Contents(Stored(r, buf))
                  = Contents(r) \o Queues!Accepted(Contents(r), PTY_QUEUE_SIZE, buf)
<1> DEFINE ok == Queues!Accepted(Contents(r), PTY_QUEUE_SIZE, buf)
           Between(from, to) == IF to >= from THEN to - from ELSE to + PTY_QUEUE_SIZE - from
           Past(from, d) == IF from + d < PTY_QUEUE_SIZE THEN from + d
                                                         ELSE from + d - PTY_QUEUE_SIZE
<1>1. PICK h \in 0 .. PTY_QUEUE_SIZE - 1, l \in 0 .. PTY_QUEUE_SIZE - 1,
           c \in 0 .. PTY_QUEUE_SIZE - 1 :
           /\ h = r.head /\ l = r.tail /\ c = Count(r) /\ c = Between(l, h)
           /\ Contents(r) \in Seq(Octet) /\ Len(Contents(r)) = c
  BY RingFacts DEF Slots
<1>a. c = Between(l, h)
  BY <1>1
<1>2. PICK n \in Nat : n = Least(Len(buf), PTY_QUEUE_SIZE - 1 - c)
  <2>1. Least(Len(buf), PTY_QUEUE_SIZE - 1 - c) \in Nat
    BY DEF Least
  <2> QED
    BY <2>1
<1>n. n <= Len(buf) /\ c + n <= PTY_QUEUE_SIZE - 1
  BY <1>2 DEF Least
<1>w. n = Written(r, buf)
  BY <1>1, <1>2, Zenon DEF Written
<1>3. /\ ok \in Seq(Octet) /\ Len(ok) = n
      /\ \A i \in 1 .. n : ok[i] = buf[i]
  <2>1. CASE Len(buf) <= PTY_QUEUE_SIZE - 1 - c
    <3>1. n = Len(buf)
      BY <1>2, <2>1 DEF Least
    <3>2. ok = buf
      BY <1>1, <2>1, Zenon DEF Queues!Accepted
    <3> QED
      BY <3>1, <3>2
  <2>2. CASE ~ (Len(buf) <= PTY_QUEUE_SIZE - 1 - c)
    <3>1. n = PTY_QUEUE_SIZE - 1 - c /\ n \in 0 .. Len(buf)
      BY <1>2, <1>n, <2>2 DEF Least
    <3>2. ok = SubSeq(buf, 1, n)
      BY <1>1, <2>2, <3>1, Zenon DEF Queues!Accepted
    <3> QED
      BY <3>1, <3>2, SubSeqProperties
  <2> QED
    BY <2>1, <2>2
<1> DEFINE Place(s) == Turn(s + PTY_QUEUE_SIZE - h)
<1>4. \A s \in Slots : Place(s) = Between(h, s)
  <2> SUFFICES ASSUME NEW s \in Slots PROVE Place(s) = Between(h, s)
    OBVIOUS
  <2>1. s + PTY_QUEUE_SIZE - h \in 0 .. PTY_QUEUE_SIZE + PTY_QUEUE_SIZE - 1
    BY DEF Slots
  <2> QED
    BY <2>1, Wrap DEF Slots
<1>5. PICK t : /\ t = Stored(r, buf)
               /\ t.head = Turn(h + n) /\ t.tail = l
               /\ t.queue = [s \in Slots |->
                                 IF Place(s) < n THEN buf[Place(s) + 1] ELSE r.queue[s]]
               /\ t = [queue |-> t.queue, head |-> t.head, tail |-> t.tail]
  <2>1. Stored(r, buf) = [queue |-> [s \in Slots |->
                              IF Place(s) < n THEN buf[Place(s) + 1] ELSE r.queue[s]],
                          head |-> Turn(h + n), tail |-> l]
    <3>1. ASSUME NEW f, NEW g
          PROVE  [r EXCEPT !.queue = f, !.head = g]
                     = [queue |-> f, head |-> g, tail |-> r.tail]
      <4>1. PICK a : a = [r EXCEPT !.queue = f, !.head = g]
        OBVIOUS
      <4>2. a.queue = f /\ a.head = g /\ a.tail = r.tail
        BY <4>1 DEF Ring
      <4>3. a = [queue |-> a.queue, head |-> a.head, tail |-> a.tail]
        BY <4>1 DEF Ring
      <4> QED
        BY <4>1, <4>2, <4>3, Zenon
    <3>2. h = r.head /\ r.head = h /\ r.tail = l
      BY <1>1
    <3>3. Stored(r, buf) = [r EXCEPT
              !.queue = [s \in Slots |->
                             IF Place(s) < n THEN buf[Place(s) + 1] ELSE r.queue[s]],
              !.head = Turn(h + n)]
      BY <1>w, <3>2, Zenon DEF Stored, Turn
    <3> HIDE DEF Place
    <3> QED
      BY <3>1, <3>2, <3>3, Zenon
  <2> HIDE DEF Place
  <2> QED
    BY <2>1
<1>6. t.head = Past(h, n)
  <2>1. h + n \in 0 .. PTY_QUEUE_SIZE + PTY_QUEUE_SIZE - 1
    BY <1>n
  <2> QED
    BY <1>5, <2>1, Wrap
<1>7. t \in Ring
  <2>1. \A s \in Slots : Place(s) < n => Place(s) + 1 \in 1 .. Len(buf)
    <3> HIDE DEF Place
    <3> QED
      BY <1>n, <1>4 DEF Slots
  <2>2. \A i \in 1 .. Len(buf) : buf[i] \in Octet
    OBVIOUS
  <2>3. t.queue \in [Slots -> Octet]
    <3>1. \A s \in Slots : r.queue[s] \in Octet
      BY RingFacts
    <3> HIDE DEF Place
    <3> QED
      BY <1>5, <2>1, <2>2, <3>1
  <2>4. t.head \in Slots /\ t.tail \in Slots
    <3>1. Past(h, n) \in Slots /\ l \in Slots
      BY <1>n DEF Slots
    <3> QED
      BY <1>5, <1>6, <3>1, Zenon
  <2> QED
    BY <1>5, <2>3, <2>4 DEF Ring, Octet
<1>8. Count(t) = c + n
  <2>1. Count(t) = Between(l, Past(h, n))
    BY <1>5, <1>6, <1>7, RingFacts
  <2>2. Between(l, Past(h, n)) = c + n
    BY <1>a, <1>n
  <2> QED
    BY <2>1, <2>2
<1>9. ASSUME NEW i \in 1 .. c + n
      PROVE  /\ i <= c => Contents(t)[i] = Contents(r)[i]
             /\ i > c => Contents(t)[i] = buf[i - c]
  <2>1. l + i - 1 \in 0 .. PTY_QUEUE_SIZE + PTY_QUEUE_SIZE - 1
    BY <1>n
  <2>2. PICK s \in Slots : s = Turn(l + i - 1) /\ s = Past(l, i - 1)
    BY <2>1, Wrap
  <2>3. Contents(t)[i] = t.queue[s]
    <3>1. i \in 1 .. Count(t)
      BY <1>8
    <3>2. Contents(t)[i] = t.queue[Turn(t.tail + i - 1)]
      BY <1>7, <3>1, RingFacts
    <3> QED
      BY <1>5, <2>2, <3>2, Zenon
  <2>4. PICK p : p = Place(s) /\ p = Between(h, s)
    BY <1>4
  <2>a. s = Past(l, i - 1) /\ p = Between(h, s)
    BY <2>2, <2>4
  <2>5. t.queue[s] = IF p < n THEN buf[p + 1] ELSE r.queue[s]
    BY <1>5, <2>4
  <2>6. i <= c => Contents(r)[i] = r.queue[s]
    BY <1>1, <2>2, RingFacts
  <2>7. i <= c => ~ (p < n)
    BY <1>a, <1>n, <2>a DEF Slots
  <2>8. i > c => p < n /\ p + 1 = i - c
    BY <1>a, <1>n, <2>a DEF Slots
  <2> QED
    BY <2>3, <2>5, <2>6, <2>7, <2>8
<1>10. Contents(t) = Contents(r) \o ok
  <2> HIDE DEF ok
  <2>1. Contents(t) \in Seq(Octet) /\ Len(Contents(t)) = c + n
    BY <1>7, <1>8, RingFacts
  <2>2. /\ Contents(r) \o ok \in Seq(Octet) /\ Len(Contents(r) \o ok) = c + n
        /\ \A i \in 1 .. c + n : (Contents(r) \o ok)[i] =
               IF i <= c THEN Contents(r)[i] ELSE ok[i - c]
    <3>1. PICK q \in Seq(Octet) : q = Contents(r) /\ Len(q) = c
      BY <1>1
    <3>2. /\ q \o ok \in Seq(Octet) /\ Len(q \o ok) = Len(q) + Len(ok)
          /\ \A i \in 1 .. Len(q) + Len(ok) : (q \o ok)[i] =
                 IF i <= Len(q) THEN q[i] ELSE ok[i - Len(q)]
      BY <1>3, ConcatProperties
    <3> QED
      BY <1>3, <3>1, <3>2, Zenon
  <2>3. \A i \in 1 .. c + n : Contents(t)[i] = (Contents(r) \o ok)[i]
    <3> SUFFICES ASSUME NEW i \in 1 .. c + n
                 PROVE  Contents(t)[i] = (Contents(r) \o ok)[i]
      OBVIOUS
    <3>1. i > c => i - c \in 1 .. n
      OBVIOUS
    <3> QED
      BY <1>3, <1>9, <2>2, <3>1
  <2> QED
    BY <2>1, <2>2, <2>3, SameBytes
<1> QED
  BY <1>n, <1>w, <1>3, <1>5, <1>7, <1>10

\* A batch that is read: as many bytes as asked for, or all there are, leave
\* the front (pty.c:36-47).
LEMMA DrainedContents ==
    ASSUME NEW r \in Ring, NEW n \in Nat
    PROVE  /\ Drained(r, n) \in Ring
           /\ Contents(Drained(r, n)) =
                  SubSeq(Contents(r), Len(Queues!Readable(Contents(r), n)) + 1,
                         Len(Contents(r)))
<1> DEFINE Between(from, to) == IF to >= from THEN to - from ELSE to + PTY_QUEUE_SIZE - from
           Past(from, d) == IF from + d < PTY_QUEUE_SIZE THEN from + d
                                                         ELSE from + d - PTY_QUEUE_SIZE
<1>1. PICK h \in 0 .. PTY_QUEUE_SIZE - 1, l \in 0 .. PTY_QUEUE_SIZE - 1,
           c \in 0 .. PTY_QUEUE_SIZE - 1 :
           /\ h = r.head /\ l = r.tail /\ c = Count(r) /\ c = Between(l, h)
           /\ Contents(r) \in Seq(Octet) /\ Len(Contents(r)) = c
  BY RingFacts DEF Slots
<1>a. c = Between(l, h)
  BY <1>1
<1>2. PICK d \in Nat : d = Least(n, c)
  <2>1. Least(n, c) \in Nat
    BY DEF Least
  <2> QED
    BY <2>1
<1>d. d <= c
  BY <1>2 DEF Least
<1>3. Len(Queues!Readable(Contents(r), n)) = d
  <2>1. PICK q \in Seq(Octet) : q = Contents(r) /\ Len(q) = c
    BY <1>1
  <2>2. Len(Queues!Readable(q, n)) = d
    <3>1. CASE c <= n
      <4>1. Queues!Readable(q, n) = q
        BY <2>1, <3>1 DEF Queues!Readable
      <4> QED
        BY <1>2, <2>1, <3>1, <4>1 DEF Least
    <3>2. CASE ~ (c <= n)
      <4>1. Queues!Readable(q, n) = SubSeq(q, 1, n)
        BY <2>1, <3>2, Zenon DEF Queues!Readable
      <4>2. n \in 0 .. Len(q) /\ d = n
        BY <1>2, <2>1, <3>2 DEF Least
      <4> QED
        BY <4>1, <4>2, SubSeqProperties
    <3> QED
      BY <3>1, <3>2
  <2> QED
    BY <2>1, <2>2, Zenon
<1>4. PICK t : /\ t = Drained(r, n)
               /\ t.head = h /\ t.tail = Turn(l + d) /\ t.queue = r.queue
               /\ t = [queue |-> t.queue, head |-> t.head, tail |-> t.tail]
  <2>1. \A f : [r EXCEPT !.tail = f] = [queue |-> r.queue, head |-> r.head, tail |-> f]
    BY DEF Ring
  <2>2. Drained(r, n) = [r EXCEPT !.tail = Turn(l + d)]
    BY <1>1, <1>2, Zenon DEF Drained, Turn
  <2>3. Drained(r, n) = [queue |-> r.queue, head |-> h, tail |-> Turn(l + d)]
    BY <1>1, <2>1, <2>2, Zenon
  <2> QED
    BY <2>3
<1>5. t.tail = Past(l, d)
  <2>1. l + d \in 0 .. PTY_QUEUE_SIZE + PTY_QUEUE_SIZE - 1
    BY <1>d
  <2> QED
    BY <1>4, <2>1, Wrap
<1>6. t \in Ring
  <2>1. Past(l, d) \in Slots /\ h \in Slots
    BY <1>d DEF Slots
  <2>2. t.head \in Slots /\ t.tail \in Slots
    BY <1>4, <1>5, <2>1, Zenon
  <2>3. t.queue \in [Slots -> Octet]
    BY <1>4, RingFacts, Zenon
  <2> QED
    BY <1>4, <2>2, <2>3 DEF Ring, Octet
<1>7. Count(t) = c - d
  <2>1. Count(t) = Between(Past(l, d), h)
    BY <1>4, <1>5, <1>6, RingFacts
  <2>2. Between(Past(l, d), h) = c - d
    BY <1>a, <1>d
  <2> QED
    BY <2>1, <2>2
<1>8. ASSUME NEW i \in 1 .. c - d
      PROVE  Contents(t)[i] = Contents(r)[i + d]
  <2>1. i \in 1 .. Count(t) /\ i + d \in 1 .. c
    BY <1>7, <1>d
  <2>2. Contents(t)[i] = t.queue[Turn(t.tail + i - 1)]
    BY <1>6, <2>1, RingFacts
  <2>3. Contents(r)[i + d] = r.queue[Turn(l + (i + d) - 1)]
    BY <1>1, <2>1, RingFacts
  <2>4. Turn(Past(l, d) + i - 1) = Turn(l + (i + d) - 1)
    <3>1. /\ Past(l, d) + i - 1 \in 0 .. PTY_QUEUE_SIZE + PTY_QUEUE_SIZE - 1
          /\ l + (i + d) - 1 \in 0 .. PTY_QUEUE_SIZE + PTY_QUEUE_SIZE - 1
      BY <1>d
    <3> QED
      BY <1>d, <3>1, Wrap
  <2>5. t.tail + i - 1 = Past(l, d) + i - 1
    BY <1>5
  <2> QED
    BY <1>4, <2>2, <2>3, <2>4, <2>5, Zenon
<1>9. Contents(t) = SubSeq(Contents(r), d + 1, c)
  <2>1. Contents(t) \in Seq(Octet) /\ Len(Contents(t)) = c - d
    BY <1>6, <1>7, RingFacts
  <2>2. PICK q \in Seq(Octet) : q = Contents(r) /\ Len(q) = c
    BY <1>1
  <2>3. /\ SubSeq(q, d + 1, c) \in Seq(Octet) /\ Len(SubSeq(q, d + 1, c)) = c - d
        /\ \A i \in 1 .. c - d : SubSeq(q, d + 1, c)[i] = q[i + d]
    BY <1>d, <2>2
  <2>4. \A i \in 1 .. c - d : Contents(t)[i] = SubSeq(q, d + 1, c)[i]
    BY <1>8, <2>2, <2>3, Zenon
  <2> QED
    BY <2>1, <2>2, <2>3, <2>4, SameBytes
<1> QED
  BY <1>1, <1>3, <1>4, <1>6, <1>9, Zenon
-----------------------------------------------------------------------------
\* An empty ring has no contents, whatever its slots hold.
LEMMA EmptyRing ==
    ASSUME NEW r \in Ring, r.head = 0, r.tail = 0
    PROVE  Contents(r) = <<>>
<1>1. Contents(r) \in Seq(Octet) /\ Len(Contents(r)) = 0
  BY RingFacts
<1> QED
  BY <1>1, EmptySeq

\* A step that changes one ring of one pty changes that queue.
LEMMA OneQueueMoves ==
    ASSUME RingsInv, NEW id \in Ptys, NEW ring
    PROVE  /\ g_ptys' = [g_ptys EXCEPT ![id].m2s = ring]
              => QueuesOf(g_ptys)' = [QueuesOf(g_ptys) EXCEPT ![id]["m2s"] = Contents(ring)]
           /\ g_ptys' = [g_ptys EXCEPT ![id].s2m = ring]
              => QueuesOf(g_ptys)' = [QueuesOf(g_ptys) EXCEPT ![id]["s2m"] = Contents(ring)]
<1>1. g_ptys \in [Ptys -> Slot]
  BY DEF RingsInv
<1>2. ASSUME g_ptys' = [g_ptys EXCEPT ![id].m2s = ring]
      PROVE  QueuesOf(g_ptys)' = [QueuesOf(g_ptys) EXCEPT ![id]["m2s"] = Contents(ring)]
  <2>1. \A p \in Ptys : p # id => g_ptys'[p] = g_ptys[p]
    BY <1>1, <1>2
  <2>2. /\ g_ptys'[id].allocated = g_ptys[id].allocated
        /\ g_ptys'[id].m2s = ring /\ g_ptys'[id].s2m = g_ptys[id].s2m
    BY <1>1, <1>2 DEF Slot
  <2>3. QueuesOf(g_ptys)' = [p \in Ptys |-> [allocated |-> g_ptys'[p].allocated,
                                             m2s |-> Contents(g_ptys'[p].m2s),
                                             s2m |-> Contents(g_ptys'[p].s2m)]]
    BY DEF QueuesOf, Contents, Count, Ptys
  <2> QED
    BY <2>1, <2>2, <2>3 DEF QueuesOf
<1>3. ASSUME g_ptys' = [g_ptys EXCEPT ![id].s2m = ring]
      PROVE  QueuesOf(g_ptys)' = [QueuesOf(g_ptys) EXCEPT ![id]["s2m"] = Contents(ring)]
  <2>1. \A p \in Ptys : p # id => g_ptys'[p] = g_ptys[p]
    BY <1>1, <1>3
  <2>2. /\ g_ptys'[id].allocated = g_ptys[id].allocated
        /\ g_ptys'[id].s2m = ring /\ g_ptys'[id].m2s = g_ptys[id].m2s
    BY <1>1, <1>3 DEF Slot
  <2>3. QueuesOf(g_ptys)' = [p \in Ptys |-> [allocated |-> g_ptys'[p].allocated,
                                             m2s |-> Contents(g_ptys'[p].m2s),
                                             s2m |-> Contents(g_ptys'[p].s2m)]]
    BY DEF QueuesOf, Contents, Count, Ptys
  <2> QED
    BY <2>1, <2>2, <2>3 DEF QueuesOf
<1> QED
  BY <1>2, <1>3

\* A write to either side: the batch is cut to the room and appended.
LEMMA WriteRefines ==
    ASSUME RingsInv, NEW id, NEW buf \in Buffers
    PROVE  /\ pty_master_write(id, buf) => RingsInv' /\ Queues!PtyWrite(id, "m2s", buf)
           /\ pty_slave_write(id, buf) => RingsInv' /\ Queues!PtyWrite(id, "s2m", buf)
<1>1. buf \in Seq(Octet)
  BY DEF Octet
<1>2. ASSUME pty_master_write(id, buf)
      PROVE  RingsInv' /\ Queues!PtyWrite(id, "m2s", buf)
  <2>1. id \in Ptys /\ g_ptys[id].allocated
    BY <1>2 DEF pty_master_write, pty_is_valid
  <2>2. PICK r \in Ring : r = g_ptys[id].m2s
    BY <2>1 DEF RingsInv, Slot
  <2>3. /\ g_ptys' = [g_ptys EXCEPT ![id].m2s = Stored(r, buf)]
        /\ g_pty_dropped_bytes' = g_pty_dropped_bytes + Len(buf) - Written(r, buf)
        /\ UNCHANGED g_pty_invalid_ops
    BY <1>2, <2>2 DEF pty_master_write
  <2>4. RingsInv'
    <3>1. g_ptys' \in [Ptys -> Slot]
      BY <1>1, <2>1, <2>3, StoredContents DEF RingsInv, Slot
    <3>2. g_pty_dropped_bytes' \in Nat
      BY <1>1, <2>3, StoredContents DEF RingsInv
    <3> QED
      BY <2>3, <3>1, <3>2 DEF RingsInv
  <2>5. QueuesOf(g_ptys)[id]["m2s"] = Contents(r) /\ QueuesOf(g_ptys)[id].allocated
    BY <2>1, <2>2 DEF QueuesOf
  <2>6. QueuesOf(g_ptys)' = [QueuesOf(g_ptys) EXCEPT ![id]["m2s"] =
            Contents(r) \o Queues!Accepted(Contents(r), PTY_QUEUE_SIZE, buf)]
    BY <1>1, <2>1, <2>3, OneQueueMoves, StoredContents
  <2>7. Queues!PtyWrite(id, "m2s", buf)
    BY <1>1, <2>1, <2>3, <2>5, <2>6, StoredContents
       DEF Queues!PtyWrite, Queues!pty_is_valid, Queues!Ptys, Ptys
  <2> QED
    BY <2>4, <2>7
<1>3. ASSUME pty_slave_write(id, buf)
      PROVE  RingsInv' /\ Queues!PtyWrite(id, "s2m", buf)
  <2>1. id \in Ptys /\ g_ptys[id].allocated
    BY <1>3 DEF pty_slave_write, pty_is_valid
  <2>2. PICK r \in Ring : r = g_ptys[id].s2m
    BY <2>1 DEF RingsInv, Slot
  <2>3. /\ g_ptys' = [g_ptys EXCEPT ![id].s2m = Stored(r, buf)]
        /\ g_pty_dropped_bytes' = g_pty_dropped_bytes + Len(buf) - Written(r, buf)
        /\ UNCHANGED g_pty_invalid_ops
    BY <1>3, <2>2 DEF pty_slave_write
  <2>4. RingsInv'
    <3>1. g_ptys' \in [Ptys -> Slot]
      BY <1>1, <2>1, <2>3, StoredContents DEF RingsInv, Slot
    <3>2. g_pty_dropped_bytes' \in Nat
      BY <1>1, <2>3, StoredContents DEF RingsInv
    <3> QED
      BY <2>3, <3>1, <3>2 DEF RingsInv
  <2>5. QueuesOf(g_ptys)[id]["s2m"] = Contents(r) /\ QueuesOf(g_ptys)[id].allocated
    BY <2>1, <2>2 DEF QueuesOf
  <2>6. QueuesOf(g_ptys)' = [QueuesOf(g_ptys) EXCEPT ![id]["s2m"] =
            Contents(r) \o Queues!Accepted(Contents(r), PTY_QUEUE_SIZE, buf)]
    BY <1>1, <2>1, <2>3, OneQueueMoves, StoredContents
  <2>7. Queues!PtyWrite(id, "s2m", buf)
    BY <1>1, <2>1, <2>3, <2>5, <2>6, StoredContents
       DEF Queues!PtyWrite, Queues!pty_is_valid, Queues!Ptys, Ptys
  <2> QED
    BY <2>4, <2>7
<1> QED
  BY <1>2, <1>3

\* A read from either side: what is returned leaves the front.
LEMMA ReadRefines ==
    ASSUME RingsInv, NEW id, NEW n \in Nat
    PROVE  /\ pty_slave_read(id, n) => RingsInv' /\ Queues!PtyRead(id, "m2s", n)
           /\ pty_master_read(id, n) => RingsInv' /\ Queues!PtyRead(id, "s2m", n)
<1>1. ASSUME pty_slave_read(id, n)
      PROVE  RingsInv' /\ Queues!PtyRead(id, "m2s", n)
  <2>1. id \in Ptys /\ g_ptys[id].allocated
    BY <1>1 DEF pty_slave_read, pty_is_valid
  <2>2. PICK r \in Ring : r = g_ptys[id].m2s
    BY <2>1 DEF RingsInv, Slot
  <2>3. /\ g_ptys' = [g_ptys EXCEPT ![id].m2s = Drained(r, n)]
        /\ UNCHANGED <<g_pty_dropped_bytes, g_pty_invalid_ops>>
    BY <1>1, <2>2 DEF pty_slave_read
  <2>4. RingsInv'
    BY <2>1, <2>3, DrainedContents DEF RingsInv, Slot
  <2>5. QueuesOf(g_ptys)[id]["m2s"] = Contents(r) /\ QueuesOf(g_ptys)[id].allocated
    BY <2>1, <2>2 DEF QueuesOf
  <2>6. QueuesOf(g_ptys)' = [QueuesOf(g_ptys) EXCEPT ![id]["m2s"] =
            SubSeq(Contents(r), Len(Queues!Readable(Contents(r), n)) + 1, Len(Contents(r)))]
    BY <2>1, <2>3, OneQueueMoves, DrainedContents
  <2>7. Queues!PtyRead(id, "m2s", n)
    BY <2>1, <2>3, <2>5, <2>6 DEF Queues!PtyRead, Queues!pty_is_valid, Queues!Ptys, Ptys
  <2> QED
    BY <2>4, <2>7
<1>2. ASSUME pty_master_read(id, n)
      PROVE  RingsInv' /\ Queues!PtyRead(id, "s2m", n)
  <2>1. id \in Ptys /\ g_ptys[id].allocated
    BY <1>2 DEF pty_master_read, pty_is_valid
  <2>2. PICK r \in Ring : r = g_ptys[id].s2m
    BY <2>1 DEF RingsInv, Slot
  <2>3. /\ g_ptys' = [g_ptys EXCEPT ![id].s2m = Drained(r, n)]
        /\ UNCHANGED <<g_pty_dropped_bytes, g_pty_invalid_ops>>
    BY <1>2, <2>2 DEF pty_master_read
  <2>4. RingsInv'
    BY <2>1, <2>3, DrainedContents DEF RingsInv, Slot
  <2>5. QueuesOf(g_ptys)[id]["s2m"] = Contents(r) /\ QueuesOf(g_ptys)[id].allocated
    BY <2>1, <2>2 DEF QueuesOf
  <2>6. QueuesOf(g_ptys)' = [QueuesOf(g_ptys) EXCEPT ![id]["s2m"] =
            SubSeq(Contents(r), Len(Queues!Readable(Contents(r), n)) + 1, Len(Contents(r)))]
    BY <2>1, <2>3, OneQueueMoves, DrainedContents
  <2>7. Queues!PtyRead(id, "s2m", n)
    BY <2>1, <2>3, <2>5, <2>6 DEF Queues!PtyRead, Queues!pty_is_valid, Queues!Ptys, Ptys
  <2> QED
    BY <2>4, <2>7
<1> QED
  BY <1>1, <1>2

\* Rewinding a ring, and what each of pty_alloc's assignments does to a slot.
LEMMA RingUpdates ==
    ASSUME NEW r \in Ring
    PROVE  /\ [r EXCEPT !.head = 0] \in Ring /\ [r EXCEPT !.tail = 0] \in Ring
           /\ [r EXCEPT !.head = 0].head = 0 /\ [r EXCEPT !.tail = 0].tail = 0
           /\ [r EXCEPT !.tail = 0].head = r.head
<1>1. 0 \in Slots
  BY DEF Slots
<1> QED
  BY <1>1 DEF Ring

LEMMA SlotUpdates ==
    ASSUME NEW b \in Slot
    PROVE  /\ [b EXCEPT !.allocated = TRUE] \in Slot
           /\ [b EXCEPT !.allocated = TRUE].allocated
           /\ [b EXCEPT !.m2s.head = 0] \in Slot /\ [b EXCEPT !.m2s.head = 0].m2s.head = 0
           /\ [b EXCEPT !.m2s.head = 0].allocated = b.allocated
           /\ [b EXCEPT !.m2s.tail = 0] \in Slot /\ [b EXCEPT !.m2s.tail = 0].m2s.tail = 0
           /\ [b EXCEPT !.m2s.tail = 0].m2s.head = b.m2s.head
           /\ [b EXCEPT !.m2s.tail = 0].allocated = b.allocated
           /\ [b EXCEPT !.s2m.head = 0] \in Slot /\ [b EXCEPT !.s2m.head = 0].s2m.head = 0
           /\ [b EXCEPT !.s2m.head = 0].m2s = b.m2s
           /\ [b EXCEPT !.s2m.head = 0].allocated = b.allocated
           /\ [b EXCEPT !.s2m.tail = 0] \in Slot /\ [b EXCEPT !.s2m.tail = 0].s2m.tail = 0
           /\ [b EXCEPT !.s2m.tail = 0].m2s = b.m2s
           /\ [b EXCEPT !.s2m.tail = 0].s2m.head = b.s2m.head
           /\ [b EXCEPT !.s2m.tail = 0].allocated = b.allocated
<1>1. b.m2s \in Ring /\ b.s2m \in Ring
  BY DEF Slot
<1>2. \A x \in Ring : /\ [b EXCEPT !.m2s = x] \in Slot /\ [b EXCEPT !.m2s = x].m2s = x
                      /\ [b EXCEPT !.m2s = x].allocated = b.allocated
                      /\ [b EXCEPT !.s2m = x] \in Slot /\ [b EXCEPT !.s2m = x].s2m = x
                      /\ [b EXCEPT !.s2m = x].allocated = b.allocated
                      /\ [b EXCEPT !.s2m = x].m2s = b.m2s
  BY DEF Slot
<1>3. /\ [b EXCEPT !.m2s.head = 0] = [b EXCEPT !.m2s = [b.m2s EXCEPT !.head = 0]]
      /\ [b EXCEPT !.m2s.tail = 0] = [b EXCEPT !.m2s = [b.m2s EXCEPT !.tail = 0]]
      /\ [b EXCEPT !.s2m.head = 0] = [b EXCEPT !.s2m = [b.s2m EXCEPT !.head = 0]]
      /\ [b EXCEPT !.s2m.tail = 0] = [b EXCEPT !.s2m = [b.s2m EXCEPT !.tail = 0]]
  BY Zenon
<1>4. /\ [b EXCEPT !.allocated = TRUE] \in Slot
      /\ [b EXCEPT !.allocated = TRUE].allocated
  BY Zenon DEF Slot
<1>5. /\ [b EXCEPT !.m2s.head = 0] \in Slot /\ [b EXCEPT !.m2s.head = 0].m2s.head = 0
      /\ [b EXCEPT !.m2s.head = 0].allocated = b.allocated
  <2>1. PICK x \in Ring : x = [b.m2s EXCEPT !.head = 0] /\ x.head = 0
    BY <1>1, RingUpdates
  <2>2. [b EXCEPT !.m2s.head = 0] = [b EXCEPT !.m2s = x]
    BY <1>3, <2>1, Zenon
  <2> QED
    BY <1>2, <2>1, <2>2, Zenon
<1>6. /\ [b EXCEPT !.m2s.tail = 0] \in Slot /\ [b EXCEPT !.m2s.tail = 0].m2s.tail = 0
      /\ [b EXCEPT !.m2s.tail = 0].m2s.head = b.m2s.head
      /\ [b EXCEPT !.m2s.tail = 0].allocated = b.allocated
  <2>1. PICK x \in Ring : x = [b.m2s EXCEPT !.tail = 0] /\ x.tail = 0 /\ x.head = b.m2s.head
    BY <1>1, RingUpdates
  <2>2. [b EXCEPT !.m2s.tail = 0] = [b EXCEPT !.m2s = x]
    BY <1>3, <2>1, Zenon
  <2> QED
    BY <1>2, <2>1, <2>2, Zenon
<1>7. /\ [b EXCEPT !.s2m.head = 0] \in Slot /\ [b EXCEPT !.s2m.head = 0].s2m.head = 0
      /\ [b EXCEPT !.s2m.head = 0].m2s = b.m2s
      /\ [b EXCEPT !.s2m.head = 0].allocated = b.allocated
  <2>1. PICK x \in Ring : x = [b.s2m EXCEPT !.head = 0] /\ x.head = 0
    BY <1>1, RingUpdates
  <2>2. [b EXCEPT !.s2m.head = 0] = [b EXCEPT !.s2m = x]
    BY <1>3, <2>1, Zenon
  <2> QED
    BY <1>2, <2>1, <2>2, Zenon
<1>8. /\ [b EXCEPT !.s2m.tail = 0] \in Slot /\ [b EXCEPT !.s2m.tail = 0].s2m.tail = 0
      /\ [b EXCEPT !.s2m.tail = 0].m2s = b.m2s
      /\ [b EXCEPT !.s2m.tail = 0].s2m.head = b.s2m.head
      /\ [b EXCEPT !.s2m.tail = 0].allocated = b.allocated
  <2>1. PICK x \in Ring : x = [b.s2m EXCEPT !.tail = 0] /\ x.tail = 0 /\ x.head = b.s2m.head
    BY <1>1, RingUpdates
  <2>2. [b EXCEPT !.s2m.tail = 0] = [b EXCEPT !.s2m = x]
    BY <1>3, <2>1, Zenon
  <2> QED
    BY <1>2, <2>1, <2>2, Zenon
<1> QED
  BY <1>4, <1>5, <1>6, <1>7, <1>8

\* The first free slot is taken and both of its queues are empty, whatever
\* bytes the slots of its rings still hold (pty.c:59-71).
LEMMA AllocRefines ==
    ASSUME RingsInv, NEW p \in Ptys, pty_alloc(p)
    PROVE  RingsInv' /\ Queues!pty_alloc
<1>1. g_ptys \in [Ptys -> Slot]
  BY DEF RingsInv
<1> DEFINE b == [g_ptys[p] EXCEPT !.allocated = TRUE]
           c == [b EXCEPT !.m2s.head = 0]
           d == [c EXCEPT !.m2s.tail = 0]
           e == [d EXCEPT !.s2m.head = 0]
           a == [e EXCEPT !.s2m.tail = 0]
<1>4. g_ptys' = [g_ptys EXCEPT ![p] = a]
  BY <1>1, Zenon DEF pty_alloc
<1>a. b \in Slot /\ b.allocated
  BY <1>1, SlotUpdates, Zenon
<1> HIDE DEF b
<1>b. c \in Slot /\ c.allocated /\ c.m2s.head = 0
  BY <1>a, SlotUpdates, Zenon
<1> HIDE DEF c
<1>c. d \in Slot /\ d.allocated /\ d.m2s.head = 0 /\ d.m2s.tail = 0
  <2>1. /\ d \in Slot /\ d.m2s.tail = 0
        /\ d.m2s.head = c.m2s.head /\ d.allocated = c.allocated
    BY <1>b, SlotUpdates
  <2> QED
    BY <1>b, <2>1, Zenon
<1> HIDE DEF d
<1>d. e \in Slot /\ e.allocated /\ e.m2s.head = 0 /\ e.m2s.tail = 0 /\ e.s2m.head = 0
  BY <1>c, SlotUpdates, Zenon
<1> HIDE DEF e
<1>e. /\ a \in Slot /\ a.allocated /\ a.m2s.head = 0 /\ a.m2s.tail = 0
      /\ a.s2m.head = 0 /\ a.s2m.tail = 0
  BY <1>d, SlotUpdates, Zenon
<1> HIDE DEF a
<1>5. RingsInv'
  <2>1. g_ptys' \in [Ptys -> Slot]
    BY <1>1, <1>4, <1>e
  <2> QED
    BY <2>1 DEF RingsInv, pty_alloc
<1>6. Contents(a.m2s) = <<>> /\ Contents(a.s2m) = <<>>
  BY <1>e, EmptyRing DEF Slot
<1>7. QueuesOf(g_ptys)' = [QueuesOf(g_ptys) EXCEPT ![p] = Queues!FreshPty]
  <2>1. QueuesOf(g_ptys)' = [o \in Ptys |-> [allocated |-> g_ptys'[o].allocated,
                                             m2s |-> Contents(g_ptys'[o].m2s),
                                             s2m |-> Contents(g_ptys'[o].s2m)]]
    BY DEF QueuesOf, Contents, Count, Ptys
  <2>2. \A o \in Ptys : g_ptys'[o] = IF o = p THEN a ELSE g_ptys[o]
    BY <1>1, <1>4
  <2> QED
    BY <1>e, <1>6, <2>1, <2>2 DEF QueuesOf, Queues!FreshPty
<1>8. \A o \in Ptys : QueuesOf(g_ptys)[o].allocated = g_ptys[o].allocated
  BY DEF QueuesOf
<1>9. Queues!NextPty = p
  <2>1. /\ ~ QueuesOf(g_ptys)[p].allocated
        /\ \A o \in 0 .. p - 1 : QueuesOf(g_ptys)[o].allocated
    BY <1>8 DEF pty_alloc, Ptys
  <2>2. \A o \in Ptys : /\ ~ QueuesOf(g_ptys)[o].allocated
                        /\ \A q \in 0 .. o - 1 : QueuesOf(g_ptys)[q].allocated
                        => o = p
    BY <2>1 DEF Ptys
  <2> QED
    BY <2>1, <2>2 DEF Queues!NextPty, Queues!Ptys, Ptys
<1>10. p # -1
  BY DEF Ptys
<1> QED
  BY <1>5, <1>7, <1>9, <1>10 DEF Queues!pty_alloc, pty_alloc

\* Every step keeps the rings sound and is a step of the queues.
LEMMA RingsStep ==
    RingsInv /\ [Next]_vars => RingsInv' /\ [Queues!PtyNext(Buffers, Chunk)]_(Queues!ptyVars)
<1> SUFFICES ASSUME RingsInv, [Next]_vars
             PROVE  RingsInv' /\ [Queues!PtyNext(Buffers, Chunk)]_(Queues!ptyVars)
  OBVIOUS
<1>1. ASSUME NEW p \in Ptys, pty_alloc(p)
      PROVE  RingsInv' /\ Queues!PtyNext(Buffers, Chunk)
  BY <1>1, AllocRefines DEF Queues!PtyNext
<1>2. ASSUME NEW id \in -1 .. PTY_MAX, NEW buf \in Buffers,
             pty_master_write(id, buf) \/ pty_slave_write(id, buf)
      PROVE  RingsInv' /\ Queues!PtyNext(Buffers, Chunk)
  BY <1>2, WriteRefines DEF Queues!PtyNext
<1>3. ASSUME NEW id \in -1 .. PTY_MAX, NEW n \in 1 .. Chunk,
             pty_slave_read(id, n) \/ pty_master_read(id, n)
      PROVE  RingsInv' /\ Queues!PtyNext(Buffers, Chunk)
  <2>1. n \in Nat
    OBVIOUS
  <2> QED
    BY <1>3, <2>1, ReadRefines DEF Queues!PtyNext
<1>4. ASSUME NEW id \in -1 .. PTY_MAX, InvalidOp(id)
      PROVE  RingsInv' /\ Queues!PtyNext(Buffers, Chunk)
  <2>1. RingsInv'
    BY <1>4 DEF InvalidOp, RingsInv
  <2>2. QueuesOf(g_ptys)' = QueuesOf(g_ptys)
    BY <1>4 DEF InvalidOp, QueuesOf, Contents, Count, Ptys
  <2>3. Queues!PtyInvalidOp(id)
    BY <1>4, <2>2 DEF InvalidOp, pty_is_valid, Queues!PtyInvalidOp, Queues!pty_is_valid,
       Queues!Ptys, Ptys, QueuesOf
  <2> QED
    BY <2>1, <2>3 DEF Queues!PtyNext
<1>5. CASE UNCHANGED vars
  <2>1. QueuesOf(g_ptys)' = QueuesOf(g_ptys)
    BY <1>5 DEF vars, QueuesOf, Contents, Count, Ptys
  <2> QED
    BY <1>5, <2>1 DEF vars, RingsInv, Queues!ptyVars
<1> QED
  BY <1>1, <1>2, <1>3, <1>4, <1>5 DEF Next

\* A fresh table: no pty is allocated and all rings are empty (pty.c:49-57).
LEMMA RingsAtStart == Init => RingsInv /\ Queues!PtyInit
<1> SUFFICES ASSUME Init PROVE RingsInv /\ Queues!PtyInit
  OBVIOUS
<1>1. ZeroRing \in Ring /\ ZeroRing.head = 0 /\ ZeroRing.tail = 0
  BY DEF ZeroRing, Ring, Slots
<1>2. RingsInv
  BY <1>1 DEF Init, RingsInv, Slot
<1>3. QueuesOf(g_ptys) = [p \in Ptys |-> Queues!NoPty]
  BY <1>1, EmptyRing DEF Init, QueuesOf, Queues!NoPty
<1> QED
  BY <1>2, <1>3 DEF Init, Queues!PtyInit, Queues!Ptys, Ptys

\* Indices never leave the rings, for every number and size of ptys.
THEOREM RingsInvariant == Spec => []RingsInv
<1>1. RingsInv /\ [Next]_vars => RingsInv'
  BY RingsStep
<1> QED
  BY <1>1, RingsAtStart, PTL DEF Spec

\* The rings of all ptys, written and read in batches at any offset, are byte
\* queues: what is read is what was written to that pty in that direction, in
\* order, and what does not fit is counted.
THEOREM RingsImplementQueues == Spec => QueuesImplemented
<1>1. RingsInv /\ [Next]_vars => [Queues!PtyNext(Buffers, Chunk)]_(Queues!ptyVars)
  BY RingsStep
<1> QED
  BY <1>1, RingsAtStart, RingsInvariant, PTL DEF Spec, QueuesImplemented
=============================================================================
