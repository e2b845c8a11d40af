--------------------------- MODULE KbdRingProofs ---------------------------
(***************************************************************************)
(* Proofs about the interrupt ring, for every size and every set of values *)
(***************************************************************************)
EXTENDS KbdRing, SequenceTheorems, TLAPS

USE SizeAssumption

\* The index after i, without the remainder operator.
LEMMA SuccIs ==
    ASSUME NEW i \in Slots
    PROVE  /\ Succ(i) = IF i + 1 = Size THEN 0 ELSE i + 1
           /\ Succ(i) \in Slots
<1>1. CASE i + 1 = Size
  BY <1>1 DEF Slots, Succ
<1>2. CASE i + 1 # Size
  BY <1>2 DEF Slots, Succ
<1> QED
  BY <1>1, <1>2

\* The distance from one index to another, around the ring.
LEMMA CountRange ==
    ASSUME NEW h \in Slots, NEW t \in Slots
    PROVE  (IF h >= t THEN h - t ELSE h + Size - t) \in Nat
  BY DEF Slots

\* The values between tail and head occupy Count distinct slots, the head is
\* the slot after them, and one slot is always free.
LEMMA SlotFacts ==
    ASSUME TypeOK
    PROVE  /\ Count \in 0 .. Size - 1
           /\ SlotAt(Count) = head
           /\ \A i \in 0 .. Count - 1 : SlotAt(i) \in Slots /\ SlotAt(i) # head
           /\ Count = 0 <=> tail = head
           /\ Count = Size - 1 <=> Succ(head) = tail
<1> USE DEF TypeOK
<1>1. head \in Slots /\ tail \in Slots
  OBVIOUS
<1>2. Succ(head) = IF head + 1 = Size THEN 0 ELSE head + 1
  BY SuccIs, <1>1
<1>3. Count \in 0 .. Size - 1 /\ SlotAt(Count) = head
  BY <1>1 DEF Count, SlotAt, Slots
<1>4. \A i \in 0 .. Count - 1 : SlotAt(i) \in Slots /\ SlotAt(i) # head
  BY <1>1 DEF Count, SlotAt, Slots
<1>5. Count = 0 <=> tail = head
  BY <1>1 DEF Count, Slots
<1>6. Count = Size - 1 <=> Succ(head) = tail
  BY <1>1, <1>2 DEF Count, Slots
<1> QED
  BY <1>3, <1>4, <1>5, <1>6

\* A drop counter stays below its modulus.
LEMMA CountStep ==
    ASSUME NEW n \in 0 .. CountMod - 1
    PROVE  (n + 1) % CountMod \in 0 .. CountMod - 1
  BY CountAssumption

\* Every step keeps the types.
LEMMA TypeStep == TypeOK /\ [Next]_vars => TypeOK'
<1> SUFFICES ASSUME TypeOK, [Next]_vars
             PROVE  TypeOK'
  OBVIOUS
<1> USE DEF TypeOK
<1>0. Succ(head) \in Slots /\ Succ(tail) \in Slots
  BY SuccIs
<1>1. ASSUME NEW v \in Value, Push(v)
      PROVE  TypeOK'
  BY <1>0, <1>1 DEF Push
<1>2. CASE PushFull
  BY <1>2, CountStep DEF PushFull
<1>3. CASE PopEmpty
  BY <1>3 DEF PopEmpty
<1>4. CASE PopTest
  BY <1>4 DEF PopTest
<1>5. CASE PopRead
  BY <1>5 DEF PopRead
<1>6. CASE PopAdvance
  BY <1>0, <1>6 DEF PopAdvance
<1>7. CASE UNCHANGED vars
  BY <1>7 DEF vars
<1> QED
  BY <1>1, <1>2, <1>3, <1>4, <1>5, <1>6, <1>7 DEF Next

LEMMA InitInv == Init => Inv
<1> SUFFICES ASSUME Init
             PROVE  Inv
  OBVIOUS
<1>1. TypeOK
  BY CountAssumption DEF Init, TypeOK, Slots
<1>2. PopIsStable
  BY DEF Init, PopIsStable
<1>3. Count = 0
  BY DEF Init, Count
<1>4. ContentsAreValues
  BY <1>3 DEF ContentsAreValues, Contents
<1> QED
  BY <1>1, <1>2, <1>4 DEF Inv

\* How the contents change when the head moves past a new value ...
LEMMA PushContents ==
    ASSUME TypeOK, TypeOK', NEW v \in Value, Push(v)
    PROVE  /\ Count' = Count + 1
           /\ \A i \in 1 .. Count : Contents'[i] = Contents[i]
           /\ Contents'[Count + 1] = v
<1>0. head \in Slots /\ tail \in Slots /\ queue \in [Slots -> Value \cup {NoValue}]
  BY DEF TypeOK
<1>1. Succ(head) = IF head + 1 = Size THEN 0 ELSE head + 1
  BY <1>0, SuccIs
<1>2. tail' = tail /\ head' = Succ(head) /\ queue' = [queue EXCEPT ![head] = v]
      /\ Succ(head) # tail
  BY DEF Push
<1>3. Count' = Count + 1
  BY <1>0, <1>1, <1>2 DEF Count, Slots
<1>4. \A i \in 0 .. Count : SlotAt(i)' = SlotAt(i)
  BY <1>2 DEF SlotAt
<1>5. \A i \in 0 .. Count - 1 : queue'[SlotAt(i)] = queue[SlotAt(i)]
  BY <1>0, <1>2, SlotFacts
<1>6. queue'[SlotAt(Count)] = v
  BY <1>0, <1>2, SlotFacts
<1>7. Count \in Nat
  BY SlotFacts
<1>8. ASSUME NEW i \in 1 .. Count
      PROVE  Contents'[i] = Contents[i]
  <2>1. i - 1 \in 0 .. Count - 1 /\ i \in 1 .. Count'
    BY <1>3, <1>7
  <2>2. Contents'[i] = queue'[SlotAt(i - 1)']
    BY <2>1 DEF Contents
  <2> QED
    BY <1>4, <1>5, <1>7, <2>1, <2>2 DEF Contents
<1>9. Contents'[Count + 1] = v
  <2>1. PICK n \in Nat : n = Count
    BY <1>7
  <2>2. n + 1 \in 1 .. Count' /\ (n + 1) - 1 = n
    BY <1>3, <2>1
  <2>3. Contents'[n + 1] = queue'[SlotAt((n + 1) - 1)']
    BY <2>2 DEF Contents
  <2>4. SlotAt(n)' = SlotAt(n)
    BY <1>4, <2>1
  <2> QED
    BY <1>6, <2>1, <2>2, <2>3, <2>4
<1> QED
  BY <1>3, <1>8, <1>9

\* ... and when the tail moves past an old one.
LEMMA AdvanceContents ==
    ASSUME TypeOK, TypeOK', tail # head,
           tail' = Succ(tail), UNCHANGED <<head, queue>>
    PROVE  /\ Count' = Count - 1
           /\ \A i \in 1 .. Count - 1 : Contents'[i] = Contents[i + 1]
           /\ Contents[1] = queue[tail]
<1>0. head \in Slots /\ tail \in Slots
  BY DEF TypeOK
<1>1. Succ(tail) = IF tail + 1 = Size THEN 0 ELSE tail + 1
  BY <1>0, SuccIs
<1>2. Count' = Count - 1
  BY <1>0, <1>1 DEF Count, Slots
<1>3. Count \in 1 .. Size - 1
  BY SlotFacts
<1>4. \A i \in 0 .. Count - 2 : SlotAt(i)' = SlotAt(i + 1)
  BY <1>0, <1>1, <1>3 DEF SlotAt, Slots
<1>5. ASSUME NEW i \in 1 .. Count - 1
      PROVE  Contents'[i] = Contents[i + 1]
  <2>1. i - 1 \in 0 .. Count - 2 /\ i \in 1 .. Count' /\ i + 1 \in 1 .. Count
        /\ (i - 1) + 1 = (i + 1) - 1
    BY <1>2, <1>3
  <2>2. Contents'[i] = queue'[SlotAt(i - 1)']
    BY <2>1 DEF Contents
  <2>3. Contents[i + 1] = queue[SlotAt((i + 1) - 1)]
    BY <2>1 DEF Contents
  <2>4. SlotAt(i - 1)' = SlotAt((i + 1) - 1)
    BY <1>4, <2>1
  <2> QED
    BY <2>2, <2>3, <2>4
<1>6. Contents[1] = queue[tail]
  BY <1>0, <1>3 DEF Contents, SlotAt, Slots
<1> QED
  BY <1>2, <1>5, <1>6

\* Steps that leave the ring alone leave its contents alone.
LEMMA SameContents ==
    ASSUME UNCHANGED <<queue, head, tail>>
    PROVE  Count' = Count /\ Contents' = Contents
  BY DEF Count, Contents, SlotAt

\* Every step keeps the invariant: the three parts need each other, because
\* the slot the main loop is about to read must stay among the contents.
LEMMA InvStep == Inv /\ [Next]_vars => Inv'
<1> SUFFICES ASSUME Inv, [Next]_vars
             PROVE  Inv'
  OBVIOUS
<1>t. TypeOK /\ TypeOK'
  BY TypeStep DEF Inv
<1>c. Count \in 0 .. Size - 1 /\ DOMAIN Contents = 1 .. Count
  BY <1>t, SlotFacts DEF Contents
<1>d. DOMAIN Contents' = 1 .. Count'
  BY DEF Contents
<1>1. ASSUME NEW v \in Value, Push(v)
      PROVE  PopIsStable' /\ ContentsAreValues'
  <2>1. /\ Count' = Count + 1
        /\ \A i \in 1 .. Count : Contents'[i] = Contents[i]
        /\ Contents'[Count + 1] = v
    BY <1>1, <1>t, PushContents
  <2>2. ContentsAreValues'
    <3>1. ASSUME NEW i \in 1 .. Count'
          PROVE  Contents'[i] \in Value
      <4>1. CASE i \in 1 .. Count
        BY <1>c, <2>1, <4>1 DEF Inv, ContentsAreValues
      <4>2. CASE i = Count + 1
        BY <2>1, <4>2
      <4> QED
        BY <1>c, <2>1, <4>1, <4>2
    <3> QED
      BY <1>d, <3>1 DEF ContentsAreValues
  <2>3. PopIsStable'
    <3>1. pc' = pc /\ out' = out /\ tail' = tail /\ head' = Succ(head)
          /\ queue' = [queue EXCEPT ![head] = v] /\ Succ(head) # tail
      BY <1>1 DEF Push
    <3>2. head \in Slots /\ tail \in Slots /\ queue \in [Slots -> Value \cup {NoValue}]
      BY <1>t DEF TypeOK
    <3> QED
      BY <3>1, <3>2 DEF Inv, PopIsStable
  <2> QED
    BY <2>2, <2>3
<1>2. CASE UNCHANGED <<queue, head, tail>> /\ UNCHANGED <<pc, out>>
  <2>1. PopIsStable'
    BY <1>2 DEF Inv, PopIsStable
  <2>2. ContentsAreValues'
    BY <1>2, SameContents DEF Inv, ContentsAreValues
  <2> QED
    BY <1>t, <2>1, <2>2 DEF Inv
<1>3. CASE PopTest
  <2>1. PopIsStable'
    BY <1>3 DEF PopTest, Inv, PopIsStable
  <2>2. ContentsAreValues'
    BY <1>3, SameContents DEF PopTest, Inv, ContentsAreValues
  <2> QED
    BY <1>t, <2>1, <2>2 DEF Inv
<1>4. CASE PopRead
  <2>1. PopIsStable'
    BY <1>4 DEF PopRead, Inv, PopIsStable
  <2>2. ContentsAreValues'
    BY <1>4, SameContents DEF PopRead, Inv, ContentsAreValues
  <2> QED
    BY <1>t, <2>1, <2>2 DEF Inv
<1>5. CASE PopAdvance
  <2>1. tail # head /\ tail' = Succ(tail) /\ UNCHANGED <<head, queue>>
    BY <1>5 DEF PopAdvance, Inv, PopIsStable
  <2>2. /\ Count' = Count - 1
        /\ \A i \in 1 .. Count - 1 : Contents'[i] = Contents[i + 1]
    BY <1>t, <2>1, AdvanceContents
  <2>3. ContentsAreValues'
    BY <1>c, <1>d, <2>2 DEF Inv, ContentsAreValues
  <2>4. PopIsStable'
    BY <1>5 DEF PopAdvance, PopIsStable
  <2> QED
    BY <1>t, <2>3, <2>4 DEF Inv
<1>6. CASE PushFull \/ PopEmpty \/ UNCHANGED vars
  BY <1>2, <1>6 DEF PushFull, PopEmpty, vars
<1> QED
  BY <1>t, <1>1, <1>3, <1>4, <1>5, <1>6 DEF Next, Inv

\* The ring's invariant holds for every size: indices stay in range, and
\* what a pop tested and read stays valid however interrupts interleave.
THEOREM RingInvariant == Spec => []Inv
<1>1. Init => Inv
  BY InitInv
<1>2. Inv /\ [Next]_vars => Inv'
  BY InvStep
<1> QED
  BY <1>1, <1>2, PTL DEF Spec

\* The interruptible pop of keyboard_pop_char is stable at every size.
THEOREM RingPopIsStable == Spec => []PopIsStable
<1>1. Inv => PopIsStable
  BY DEF Inv
<1> QED
  BY <1>1, RingInvariant, PTL
-----------------------------------------------------------------------------
\* The contents are a sequence of Count values.
LEMMA ContentsSeq ==
    ASSUME Inv
    PROVE  Contents \in Seq(Value) /\ Len(Contents) = Count
<1>1. Count \in Nat
  BY SlotFacts DEF Inv
<1>2. Contents \in [1 .. Count -> Value]
  BY DEF Inv, ContentsAreValues, Contents
<1> QED
  BY <1>1, <1>2

\* An accepted push appends, an overflowing one is refused and counted, the
\* end of a pop takes the oldest value, and the other steps change nothing
\* an observer of the abstract queue can see.
LEMMA FifoStep == Inv /\ Inv' /\ [Next]_vars => [Fifo!FifoNext]_(Fifo!fifoVars)
<1> SUFFICES ASSUME Inv, Inv', [Next]_vars
             PROVE  [Fifo!FifoNext]_(Fifo!fifoVars)
  OBVIOUS
<1>t. TypeOK /\ TypeOK'
  BY DEF Inv
<1>s. Contents \in Seq(Value) /\ Len(Contents) = Count
  BY ContentsSeq
<1>p. Contents' \in Seq(Value) /\ Len(Contents') = Count'
  <2>0. head' \in Slots /\ tail' \in Slots
    BY <1>t DEF TypeOK
  <2>1. Count' \in Nat
    <3>1. Count' = IF head' >= tail' THEN head' - tail' ELSE head' + Size - tail'
      BY DEF Count
    <3> QED
      BY <2>0, <3>1, CountRange
  <2>2. Contents' \in [1 .. Count' -> Value]
    BY DEF Inv, ContentsAreValues, Contents
  <2> QED
    BY <2>1, <2>2
<1>c. Count \in 0 .. Size - 1 /\ (Count = 0 <=> tail = head)
      /\ (Count = Size - 1 <=> Succ(head) = tail)
  BY <1>t, SlotFacts
<1>1. ASSUME NEW v \in Value, Push(v)
      PROVE  Fifo!Put(v)
  <2>1. /\ Count' = Count + 1
        /\ \A i \in 1 .. Count : Contents'[i] = Contents[i]
        /\ Contents'[Count + 1] = v
    BY <1>1, <1>t, PushContents
  <2>2. Contents' = Append(Contents, v)
    <3>1. Append(Contents, v) \in Seq(Value) /\ Len(Append(Contents, v)) = Count + 1
      BY <1>s
    <3>2. \A i \in 1 .. Count + 1 : Append(Contents, v)[i] = Contents'[i]
      BY <1>s, <1>c, <2>1
    <3> QED
      BY <1>p, <2>1, <3>1, <3>2, SeqEqual
  <2>3. Len(Contents) < Size - 1
    BY <1>1, <1>s, <1>c DEF Push
  <2> QED
    BY <1>1, <2>2, <2>3 DEF Push, Fifo!Put
<1>2. CASE PushFull
  <2>1. Fifo!Refuse
    BY <1>2, <1>s, <1>c, SameContents DEF PushFull, Fifo!Refuse
  <2> QED
    BY <2>1 DEF Fifo!FifoNext
<1>3. CASE PopEmpty
  <2>1. Contents = <<>>
    BY <1>3, <1>s, <1>c DEF PopEmpty
  <2>2. Fifo!GetNothing
    BY <1>3, <2>1, SameContents DEF PopEmpty, Fifo!GetNothing
  <2> QED
    BY <2>2 DEF Fifo!FifoNext
<1>4. CASE PopTest \/ PopRead \/ UNCHANGED vars
  BY <1>4, SameContents DEF PopTest, PopRead, vars, Fifo!fifoVars
<1>5. CASE PopAdvance
  <2>1. tail # head /\ tail' = Succ(tail) /\ UNCHANGED <<head, queue, dropped>>
        /\ taken' = queue[tail]
    BY <1>5 DEF PopAdvance, Inv, PopIsStable
  <2>2. /\ Count' = Count - 1
        /\ \A i \in 1 .. Count - 1 : Contents'[i] = Contents[i + 1]
        /\ Contents[1] = queue[tail]
    BY <1>t, <2>1, AdvanceContents
  <2>3. Contents # <<>> /\ Count \in Nat \ {0}
    BY <1>s, <1>c, <2>1
  <2>4. Contents' = Tail(Contents)
    <3>1. Tail(Contents) \in Seq(Value) /\ Len(Tail(Contents)) = Count - 1
      BY <1>s, <2>3
    <3>2. \A i \in 1 .. Count - 1 : Tail(Contents)[i] = Contents[i + 1]
      BY <1>s, <2>3, <3>1, HeadTailProperties
    <3> QED
      BY <1>p, <2>2, <3>1, <3>2, SeqEqual
  <2>5. Head(Contents) = queue[tail]
    BY <1>s, <2>2, <2>3
  <2>6. Fifo!Get
    BY <2>1, <2>3, <2>4, <2>5 DEF Fifo!Get
  <2> QED
    BY <2>6 DEF Fifo!FifoNext
<1> QED
  BY <1>1, <1>2, <1>3, <1>4, <1>5 DEF Next, Fifo!FifoNext

\* The keyboard ring implements a bounded first-in first-out queue with an
\* atomic pop, for every size: no byte is lost uncounted, duplicated,
\* reordered or invented by an interrupt that hits a pop half-way.
THEOREM RingImplementsFifo == Spec => FifoImplemented
<1>1. Init => Fifo!FifoInit
  <2> SUFFICES ASSUME Init
               PROVE  Fifo!FifoInit
    OBVIOUS
  <2>1. Contents \in Seq(Value) /\ Len(Contents) = Count /\ Count = 0
    BY InitInv, ContentsSeq DEF Init, Count
  <2>2. Contents = <<>>
    BY <2>1
  <2> QED
    BY <2>2 DEF Init, Fifo!FifoInit
<1>2. Inv /\ Inv' /\ [Next]_vars => [Fifo!FifoNext]_(Fifo!fifoVars)
  BY FifoStep
<1> QED
  BY <1>1, <1>2, RingInvariant, PTL DEF Spec, FifoImplemented, Fifo!FifoSpec
=============================================================================
