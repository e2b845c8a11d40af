--------------------------- MODULE MemoryProofs ---------------------------
(***************************************************************************)
(* The frame allocator is sound for every memory map and every size of     *)
(* memory, frames and kernel.                                              *)
(* The page tables stay a tree in frames of the kernel's own, so that they *)
(* implement a map of pages, and the framebuffer once mapped stays mapped: *)
(* for every memory map, number of table entries and framebuffer, whatever *)
(* clients write to their frames and wherever an allocation fails.         *)
(***************************************************************************)
EXTENDS Video, FiniteSetTheorems, WellFoundedInduction, TLAPS
-----------------------------------------------------------------------------
(* The frame allocator *)

Frames == 0 .. total_frames - 1

\* The frames the first marking of pmm_init clears.
Available == {f \in AllFrames : \E r \in mmap : f \in Span(r.addr, r.len)}

\* The invariants of the runs are not inductive: that a client never gives
\* back a reserved frame needs that none is ever owned, and that none is free;
\* that what it is given is memory needs that all that is free is.
PmmInv ==
    /\ mmap \in MemoryMaps
    /\ frame_bitmap \subseteq AllFrames
    /\ total_frames \in 1 .. PMM_MAX_FRAMES
    /\ used_frames \in Int
    /\ owned \subseteq frame_bitmap \cap Frames
    /\ owned \cap Reserved = {}
    /\ Reserved \cap AllFrames \subseteq frame_bitmap
    /\ (Frames \ frame_bitmap) \cup owned \subseteq Available
    /\ UsedIsExact

\* Division by the frame size, as far as the proofs need it.
LEMMA DivisionBounds ==
    ASSUME NEW a \in Nat, NEW d \in Nat \ {0}
    PROVE  /\ a \div d \in Nat
           /\ d * (a \div d) <= a
           /\ a < d * (a \div d) + d
OBVIOUS

\* Multiplying by the frame size keeps the order.
LEMMA TimesMonotone ==
    ASSUME NEW p \in Nat, NEW q \in Nat, NEW d \in Nat \ {0}, p <= q
    PROVE  d * p \in Nat /\ d * q \in Nat /\ d * p <= d * q
OBVIOUS

\* A frame below the maximum that mark_region leaves alone has no byte of the
\* region: its rounding covers every frame the region touches (pmm.c:49-69).
LEMMA SpanCovers ==
    ASSUME NEW addr \in Nat, NEW len \in Nat \ {0}, NEW f \in AllFrames,
           f \notin Span(addr, len)
    PROVE  (f + 1) * FRAME_SIZE <= addr \/ f * FRAME_SIZE >= addr + len
<1> DEFINE d == FRAME_SIZE
           m == PMM_MAX_MEMORY
           end == IF addr + len > m THEN m ELSE addr + len
           first == addr \div d
           last == (end + d - 1) \div d
<1>1. d \in Nat \ {0} /\ PMM_MAX_FRAMES \in Nat /\ f \in Nat /\ f + 1 <= PMM_MAX_FRAMES
  BY PmmAssumption DEF AllFrames
<1>2. m \in Nat /\ m = d * PMM_MAX_FRAMES /\ d * (f + 1) <= m
  <2>1. d * (f + 1) <= d * PMM_MAX_FRAMES /\ d * PMM_MAX_FRAMES \in Nat
    BY <1>1, TimesMonotone
  <2>2. PMM_MAX_FRAMES * d = d * PMM_MAX_FRAMES
    BY <1>1
  <2> QED
    BY <2>1, <2>2 DEF PMM_MAX_MEMORY
<1>3. /\ (f + 1) * d = d * (f + 1) /\ f * d = d * f
      /\ d * (f + 1) = d * f + d /\ d * f \in Nat
  BY <1>1
<1>4. CASE addr >= m
  BY <1>1, <1>2, <1>3, <1>4
<1>5. CASE addr < m
  <2>1. end \in Nat /\ end <= m /\ (end = addr + len \/ end = m)
    BY <1>2
  <2>2. first \in Nat /\ d * first <= addr
    BY <1>1, DivisionBounds
  <2>3. last \in Nat /\ end + d - 1 < d * last + d /\ d * last \in Nat
    <3>1. end + d - 1 \in Nat
      BY <1>1, <2>1
    <3>2. last \in Nat /\ end + d - 1 < d * last + d
      BY <1>1, <3>1, DivisionBounds
    <3> QED
      BY <1>1, <3>2
  <2>4. Span(addr, len) = first .. last - 1
    BY <1>2, <1>5 DEF Span
  <2>5. f < first \/ f >= last
    BY <1>1, <2>2, <2>3, <2>4
  <2>6. CASE f < first
    <3>1. d * (f + 1) <= d * first /\ d * first \in Nat
      BY <1>1, <2>2, <2>6, TimesMonotone
    <3>2. d * (f + 1) <= addr
      BY <1>3, <2>2, <3>1, <1>1
    <3> QED
      BY <1>3, <3>2
  <2>7. CASE f >= last
    <3>1. d * last <= d * f
      BY <1>1, <2>3, <2>7, TimesMonotone
    <3>2. end <= d * last
      BY <1>1, <2>1, <2>3
    <3>3. end <= d * f
      BY <1>3, <2>1, <2>3, <3>1, <3>2
    <3>4. end # m
      BY <1>1, <1>2, <1>3, <3>3
    <3> QED
      BY <1>3, <2>1, <3>3, <3>4
  <2> QED
    BY <2>5, <2>6, <2>7
<1> QED
  BY <1>2, <1>4, <1>5

\* A frame that mark_region marks has a byte of the region; when both ends of
\* the region are frame aligned, it has no other.
LEMMA SpanInside ==
    ASSUME NEW addr \in Nat, NEW len \in Nat, NEW f \in Nat, f \in Span(addr, len)
    PROVE  /\ f * FRAME_SIZE < addr + len
           /\ addr % FRAME_SIZE = 0 /\ (addr + len) % FRAME_SIZE = 0 =>
                  addr <= f * FRAME_SIZE /\ (f + 1) * FRAME_SIZE <= addr + len
<1> DEFINE d == FRAME_SIZE
           m == PMM_MAX_MEMORY
           end == IF addr + len > m THEN m ELSE addr + len
           last == (end + d - 1) \div d
<1>1. d \in Nat \ {0} /\ PMM_MAX_FRAMES \in Nat
  BY PmmAssumption
<1>2. m \in Nat /\ m = d * PMM_MAX_FRAMES
  BY <1>1 DEF PMM_MAX_MEMORY
<1>3. end \in Nat /\ end <= addr + len /\ (end = addr + len \/ end = m)
  BY <1>2
<1>4. f >= addr \div d /\ f <= last - 1
  BY DEF Span
<1> HIDE DEF end
<1>5. last \in Nat /\ d * last <= end + d - 1
  BY <1>1, <1>3, DivisionBounds
<1>6. d * (f + 1) <= d * last /\ d * (f + 1) \in Nat /\ d * last \in Nat
  BY <1>1, <1>4, <1>5, TimesMonotone
<1>7. (f + 1) * d = d * f + d /\ d * (f + 1) = d * f + d /\ f * d = d * f /\ d * f \in Nat
  BY <1>1
<1>8. d * f < addr + len
  BY <1>1, <1>3, <1>5, <1>6, <1>7
<1>9. ASSUME addr % d = 0, (addr + len) % d = 0
      PROVE  addr <= d * f /\ d * f + d <= addr + len
  <2>1. addr = d * (addr \div d) /\ addr \div d \in Nat
    BY <1>1, <1>9
  <2>2. d * (addr \div d) <= d * f
    BY <1>1, <1>4, <2>1, TimesMonotone
  <2>3. PICK k \in Nat : end = d * k
    <3>1. addr + len = d * ((addr + len) \div d) /\ (addr + len) \div d \in Nat
      BY <1>1, <1>9
    <3> QED
      BY <1>1, <1>2, <1>3, <3>1
  <2>4. f + 1 <= k
    <3> SUFFICES ASSUME k + 1 <= f + 1 PROVE FALSE
      BY <2>3
    <3>1. d * (k + 1) <= d * (f + 1)
      BY <1>1, <2>3, TimesMonotone
    <3>2. d * (k + 1) = d * k + d /\ d * k \in Nat
      BY <1>1, <2>3
    <3> QED
      BY <1>1, <1>5, <1>6, <1>7, <2>3, <3>1, <3>2
  <2>5. d * (f + 1) <= d * k
    BY <1>1, <2>3, <2>4, TimesMonotone
  <2>6. addr <= d * f
    BY <1>7, <2>1, <2>2
  <2>7. d * f + d <= end
    BY <1>7, <2>3, <2>5
  <2> QED
    BY <1>1, <1>3, <1>7, <2>6, <2>7
<1> QED
  BY <1>7, <1>8, <1>9

\* mark_region stays within the bitmap, whatever the region.
LEMMA SpanInBitmap ==
    ASSUME NEW addr \in Nat, NEW len \in Nat
    PROVE  Span(addr, len) \subseteq AllFrames
<1> SUFFICES ASSUME NEW f \in Span(addr, len) PROVE f \in AllFrames
  OBVIOUS
<1> DEFINE d == FRAME_SIZE
           m == PMM_MAX_MEMORY
           end == IF addr + len > m THEN m ELSE addr + len
           last == (end + d - 1) \div d
<1>1. d \in Nat \ {0} /\ PMM_MAX_FRAMES \in Nat
  BY PmmAssumption
<1>2. m \in Nat /\ m = d * PMM_MAX_FRAMES
  BY <1>1 DEF PMM_MAX_MEMORY
<1>3. end \in Nat /\ end <= m
  BY <1>2
<1>4. f \in addr \div d .. last - 1
  BY DEF Span
<1> HIDE DEF end
<1>5. last \in Nat /\ d * last <= end + d - 1 /\ addr \div d \in Nat
  BY <1>1, <1>3, DivisionBounds
<1>6. last <= PMM_MAX_FRAMES
  <2> SUFFICES ASSUME last >= PMM_MAX_FRAMES + 1 PROVE FALSE
    BY <1>1, <1>5
  <2>1. d * (PMM_MAX_FRAMES + 1) <= d * last /\ d * last \in Nat
    BY <1>1, <1>5, TimesMonotone
  <2>2. d * (PMM_MAX_FRAMES + 1) = d * PMM_MAX_FRAMES + d
    BY <1>1
  <2> QED
    BY <1>1, <1>2, <1>3, <1>5, <2>1, <2>2
<1> HIDE DEF last
<1> QED
  BY <1>1, <1>4, <1>5, <1>6 DEF AllFrames

\* Memory ends within the bitmap (pmm.c:99-106).
LEMMA TotalFramesInRange ==
    ASSUME NEW map \in MemoryMaps
    PROVE  TotalFrames(map) \in 1 .. PMM_MAX_FRAMES
<1> DEFINE m == PMM_MAX_MEMORY
           d == FRAME_SIZE
           end == IF HighestEnd(map) > m THEN m ELSE HighestEnd(map)
           n == end \div d
<1>1. d \in Nat \ {0} /\ PMM_MAX_FRAMES \in Nat \ {0}
  BY PmmAssumption
<1>2. m \in Nat /\ m = d * PMM_MAX_FRAMES
  BY <1>1 DEF PMM_MAX_MEMORY
<1>3. HighestEnd(map) \in Nat
  <2>1. Ends(map) \subseteq Nat
    BY PmmAssumption DEF Ends
  <2>2. HighestEnd(map) \in Ends(map)
    BY MapAssumption DEF HighestEnd
  <2> QED
    BY <2>1, <2>2
<1>4. end \in Nat /\ end <= m
  BY <1>2, <1>3
<1>5. n \in Nat /\ d * n <= end
  BY <1>1, <1>4, DivisionBounds
<1>6. n <= PMM_MAX_FRAMES
  <2> SUFFICES ASSUME n >= PMM_MAX_FRAMES + 1 PROVE FALSE
    BY <1>1, <1>5
  <2>1. d * (PMM_MAX_FRAMES + 1) <= d * n /\ d * n \in Nat
    BY <1>1, <1>5, TimesMonotone
  <2>2. d * (PMM_MAX_FRAMES + 1) = d * PMM_MAX_FRAMES + d
    BY <1>1
  <2> QED
    BY <1>1, <1>2, <1>4, <1>5, <2>1, <2>2
<1> HIDE DEF n
<1>7. TotalFrames(map) = IF n = 0 THEN 1 ELSE n
  BY DEF TotalFrames, n
<1> QED
  BY <1>1, <1>5, <1>6, <1>7

\* After pmm_init the counter is exact and nothing reserved is free.
LEMMA InitEstablishes == PmmInit => PmmInv
<1> SUFFICES ASSUME PmmInit PROVE PmmInv
  OBVIOUS
<1> DEFINE cleared == {f \in Frames : \E r \in mmap : f \in Span(r.addr, r.len)}
<1>1. total_frames \in 1 .. PMM_MAX_FRAMES
  BY TotalFramesInRange DEF PmmInit
<1>2. /\ frame_bitmap = (AllFrames \ cleared) \cup (Reserved \cap cleared)
      /\ used_frames = total_frames - Cardinality(cleared)
                           + Cardinality(Reserved \cap cleared)
      /\ owned = {}
  BY DEF PmmInit, Frames
<1>3. cleared \subseteq Frames
  OBVIOUS
<1> HIDE DEF cleared
<1>4. Frames \subseteq AllFrames
  BY <1>1, PmmAssumption DEF Frames, AllFrames
<1>5. IsFiniteSet(Frames) /\ Cardinality(Frames) = total_frames
  BY <1>1, FS_Interval DEF Frames
<1>6. /\ IsFiniteSet(cleared) /\ Cardinality(cleared) \in Nat
      /\ IsFiniteSet(Reserved \cap cleared)
      /\ Cardinality(Reserved \cap cleared) \in Nat
  <2>1. IsFiniteSet(cleared) /\ IsFiniteSet(Reserved \cap cleared)
    BY <1>3, <1>5, FS_Subset
  <2> QED
    BY <2>1, FS_CardinalityType
<1>7. /\ IsFiniteSet(Frames \ cleared)
      /\ Cardinality(Frames \ cleared) = total_frames - Cardinality(cleared)
  <2>1. Frames \cap cleared = cleared
    BY <1>3
  <2> QED
    BY <1>5, <2>1, FS_Difference
<1>8. frame_bitmap \cap Frames = (Frames \ cleared) \cup (Reserved \cap cleared)
  BY <1>2, <1>3, <1>4
<1>9. (Frames \ cleared) \cap (Reserved \cap cleared) = {}
  OBVIOUS
<1>10. Cardinality((Frames \ cleared) \cup (Reserved \cap cleared))
         = Cardinality(Frames \ cleared) + Cardinality(Reserved \cap cleared)
  <2>1. Cardinality((Frames \ cleared) \cup (Reserved \cap cleared))
          = Cardinality(Frames \ cleared) + Cardinality(Reserved \cap cleared)
            - Cardinality((Frames \ cleared) \cap (Reserved \cap cleared))
    BY <1>6, <1>7, FS_Union
  <2>2. Cardinality(Frames \ cleared) \in Nat
    BY <1>7, FS_CardinalityType
  <2> QED
    BY <1>6, <1>9, <2>1, <2>2, FS_EmptySet
<1>11. UsedIsExact
  BY <1>2, <1>7, <1>8, <1>10 DEF UsedIsExact, Frames
<1>12. used_frames \in Int
  BY <1>1, <1>2, <1>6
<1>13. frame_bitmap \subseteq AllFrames
  BY <1>2, <1>3, <1>4
<1>14. Reserved \cap AllFrames \subseteq frame_bitmap
  BY <1>2, <1>4
<1>15. (Frames \ frame_bitmap) \cup owned \subseteq Available
  <2>1. cleared \subseteq Available
    BY <1>4 DEF cleared, Available
  <2> QED
    BY <1>2, <1>4, <2>1
<1>16. mmap \in MemoryMaps
  BY DEF PmmInit
<1> QED
  BY <1>1, <1>2, <1>11, <1>12, <1>13, <1>14, <1>15, <1>16 DEF PmmInv

\* A set of numbers that is not empty has a least one.
LEMMA LeastExists ==
    ASSUME NEW T, T \subseteq Nat, T # {}
    PROVE  \E x \in T : \A y \in T : x <= y
<1>1. PICK x \in T : \A y \in T : ~ (<<y, x>> \in OpToRel(<, Nat))
  BY NatLessThanWellFounded, WFMin
<1>2. \A y \in T : ~ (y < x)
  <2>1. \A y \in Nat : y < x => <<y, x>> \in OpToRel(<, Nat)
    BY Zenon DEF OpToRel
  <2> QED
    BY <1>1, <2>1, Zenon
<1>3. \A y \in T : x <= y
  BY <1>2
<1> QED
  BY <1>3

\* The search returns the lowest frame there is.
LEMMA FirstIsOne ==
    ASSUME NEW T, T \subseteq Nat, T # {}
    PROVE  First(T) \in T
BY LeastExists DEF First

LEMMA FreeIsFree ==
    ASSUME PmmInv, NEW n \in Nat
    PROVE  FreeBelow(n) \subseteq Frames \ frame_bitmap /\ \A f \in FreeBelow(n) : f < n
BY DEF FreeBelow, Frames, PmmInv

\* Marking free frames keeps the counter exact and takes nothing reserved,
\* whether a client or the kernel itself gets them.
LEMMA TakeKeeps ==
    ASSUME PmmInv, NEW S, S \subseteq Frames \ frame_bitmap, TakeFrames(S),
           owned' \subseteq owned \cup S
    PROVE  PmmInv'
<1>1. /\ frame_bitmap' = frame_bitmap \cup S
      /\ used_frames' = used_frames + Cardinality(S)
      /\ total_frames' = total_frames /\ mmap' = mmap
  BY DEF TakeFrames
<1>2. Frames' = Frames /\ Frames \subseteq AllFrames
  BY <1>1, PmmAssumption DEF Frames, AllFrames, PmmInv
<1>3. UsedIsExact' /\ used_frames' \in Int
  <2> DEFINE used == frame_bitmap \cap Frames
  <2>1. IsFiniteSet(used) /\ IsFiniteSet(S)
    <3>1. IsFiniteSet(Frames)
      BY FS_Interval DEF Frames, PmmInv
    <3> QED
      BY <3>1, FS_Subset
  <2>2. Cardinality(used) \in Nat /\ Cardinality(S) \in Nat
    BY <2>1, FS_CardinalityType
  <2>3. used \cup S = frame_bitmap' \cap Frames' /\ used \cap S = {}
    BY <1>1, <1>2
  <2>4. Cardinality(used \cup S) = Cardinality(used) + Cardinality(S)
    <3>1. Cardinality(used \cup S)
            = Cardinality(used) + Cardinality(S) - Cardinality(used \cap S)
      BY <2>1, FS_Union
    <3>2. Cardinality(used \cap S) = 0
      BY <2>3, FS_EmptySet
    <3> HIDE DEF used
    <3> QED
      BY <2>2, <3>1, <3>2
  <2>5. used_frames = Cardinality(used)
    BY DEF PmmInv, UsedIsExact, Frames
  <2>6. used_frames' \in Int
    BY <1>1, <2>2, <2>5
  <2>7. used_frames' = Cardinality(frame_bitmap' \cap Frames')
    BY <1>1, <2>3, <2>4, <2>5, Zenon
  <2> QED
    BY <2>6, <2>7 DEF UsedIsExact, Frames
<1>4. S \cap Reserved = {}
  BY <1>2 DEF PmmInv
<1>5. ((Frames \ frame_bitmap) \cup owned)' \subseteq Available'
  BY <1>1, <1>2 DEF PmmInv, Available
<1> QED
  BY <1>1, <1>2, <1>3, <1>4, <1>5 DEF PmmInv

\* So does an allocation by a client.
LEMMA AllocKeeps ==
    ASSUME PmmInv, NEW n \in Nat, AllocBelow(n)
    PROVE  PmmInv'
<1>1. First(FreeBelow(n)) \in Frames \ frame_bitmap
  <2>1. FreeBelow(n) \subseteq Frames \ frame_bitmap /\ Frames \subseteq Nat
    BY FreeIsFree DEF Frames, PmmInv
  <2> QED
    BY <2>1, FirstIsOne DEF AllocBelow
<1> QED
  BY <1>1, TakeKeeps DEF AllocBelow

\* Giving a frame back keeps the counter exact and frees nothing reserved.
LEMMA FreeKeeps ==
    ASSUME PmmInv, NEW f \in owned, pmm_free_frame(f)
    PROVE  PmmInv'
<1>1. f \in Frames /\ f \in frame_bitmap /\ f < total_frames
  BY DEF PmmInv, Frames
<1>2. IsFiniteSet(frame_bitmap \cap Frames)
  <2>1. IsFiniteSet(Frames)
    BY FS_Interval DEF Frames, PmmInv
  <2> QED
    BY <2>1, FS_Subset
<1>3. Cardinality((frame_bitmap \cap Frames) \ {f})
        = Cardinality(frame_bitmap \cap Frames) - 1
  BY <1>1, <1>2, FS_RemoveElement
<1>4. /\ used_frames = Cardinality(frame_bitmap \cap Frames)
      /\ used_frames \in Nat /\ used_frames > 0
  <2>1. used_frames = Cardinality(frame_bitmap \cap Frames)
    BY DEF PmmInv, UsedIsExact, Frames
  <2>2. /\ Cardinality(frame_bitmap \cap Frames) \in Nat
        /\ Cardinality((frame_bitmap \cap Frames) \ {f}) \in Nat
    <3>1. IsFiniteSet((frame_bitmap \cap Frames) \ {f})
      BY <1>2, FS_RemoveElement
    <3> QED
      BY <1>2, <3>1, FS_CardinalityType
  <2> QED
    BY <1>3, <2>1, <2>2
<1>5. /\ frame_bitmap' = frame_bitmap \ {f}
      /\ used_frames' = used_frames - 1
      /\ total_frames' = total_frames /\ mmap' = mmap
      /\ owned' = owned \ {f}
  BY <1>1, <1>4 DEF pmm_free_frame
<1>6. Frames' = Frames
  BY <1>5 DEF Frames
<1>7. UsedIsExact' /\ used_frames' \in Int
  <2>1. (frame_bitmap \cap Frames) \ {f} = frame_bitmap' \cap Frames'
    BY <1>5, <1>6
  <2>2. used_frames' = used_frames - 1 /\ used_frames' \in Int
    BY <1>4, <1>5
  <2>3. used_frames' = Cardinality(frame_bitmap' \cap Frames')
    BY <1>3, <1>4, <2>1, <2>2, Zenon
  <2> QED
    BY <2>2, <2>3 DEF UsedIsExact, Frames
<1>8. f \notin Reserved
  BY DEF PmmInv
<1>9. ((Frames \ frame_bitmap) \cup owned)' \subseteq Available'
  BY <1>5, <1>6 DEF PmmInv, Available
<1> QED
  BY <1>5, <1>6, <1>7, <1>8, <1>9 DEF PmmInv

\* Every call keeps the invariant.
LEMMA PmmStep ==
    ASSUME PmmInv, [PmmNext]_pmmVars
    PROVE  PmmInv'
<1>1. CASE pmm_alloc_frame
  <2>1. total_frames \in Nat
    BY DEF PmmInv
  <2> QED
    BY <1>1, <2>1, AllocKeeps DEF pmm_alloc_frame
<1>2. ASSUME NEW n \in 0 .. PMM_MAX_FRAMES, AllocBelow(n) PROVE PmmInv'
  BY <1>2, AllocKeeps
<1>3. CASE UNCHANGED pmmVars
  BY <1>3 DEF pmmVars, PmmInv, UsedIsExact, Frames, Available
<1>4. ASSUME NEW n \in 0 .. PMM_MAX_FRAMES, AllocFails(n) PROVE PmmInv'
  BY <1>3, <1>4 DEF AllocFails
<1>5. ASSUME NEW f \in owned, pmm_free_frame(f) PROVE PmmInv'
  BY <1>5, FreeKeeps
<1> QED
  BY <1>1, <1>2, <1>3, <1>4, <1>5 DEF PmmNext

\* The strengthened invariant holds of the allocator.
THEOREM PmmInvariant == PmmSpec => []PmmInv
<1>1. PmmInit => PmmInv
  BY InitEstablishes
<1>2. PmmInv /\ [PmmNext]_pmmVars => PmmInv'
  BY PmmStep
<1> QED
  BY <1>1, <1>2, PTL DEF PmmSpec

\* The variables keep their ranges: the bitmap covers all of memory, and the
\* counter stays between zero and the number of frames (pmm.c:8-11, 99-110).
THEOREM PmmTypes == PmmSpec => []PmmTypeOK
<1>1. PmmInv => PmmTypeOK
  <2> SUFFICES ASSUME PmmInv PROVE PmmTypeOK
    OBVIOUS
  <2>1. IsFiniteSet(Frames) /\ Cardinality(Frames) = total_frames
    BY FS_Interval DEF Frames, PmmInv
  <2>2. /\ Cardinality(frame_bitmap \cap Frames) \in Nat
        /\ Cardinality(frame_bitmap \cap Frames) <= total_frames
    <3>1. IsFiniteSet(frame_bitmap \cap Frames)
      BY <2>1, FS_Subset
    <3>2. Cardinality(frame_bitmap \cap Frames) <= Cardinality(Frames)
      BY <2>1, FS_Subset
    <3> QED
      BY <2>1, <3>1, <3>2, FS_CardinalityType
  <2>3. used_frames \in 0 .. total_frames
    BY <2>2 DEF PmmInv, UsedIsExact, Frames
  <2> QED
    BY <2>3 DEF PmmInv, PmmTypeOK
<1> QED
  BY <1>1, PmmInvariant, PTL

\* The number of used frames that meminfo shows is the number of bits that
\* are 1, for every memory map and every sequence of calls (pmm.c:16-40).
THEOREM PmmUsedIsExact == PmmSpec => []UsedIsExact
<1>1. PmmInv => UsedIsExact
  BY DEF PmmInv
<1> QED
  BY <1>1, PmmInvariant, PTL

\* A frame that a client holds is never handed out again (pmm.c:137-161).
THEOREM PmmOwnedIsUsed == PmmSpec => []OwnedIsUsed
<1>1. PmmInv => OwnedIsUsed
  BY DEF PmmInv, OwnedIsUsed
<1> QED
  BY <1>1, PmmInvariant, PTL

\* No owned frame has a byte of the first megabyte or of the kernel.
LEMMA PmmInvIsUsable == PmmInv => OwnedIsUsable
<1> SUFFICES ASSUME PmmInv, NEW f \in owned
             PROVE  /\ f < total_frames
                    /\ f * FRAME_SIZE >= LowMemory
                    /\ \/ (f + 1) * FRAME_SIZE <= KernelStart
                       \/ f * FRAME_SIZE >= KernelEnd
  BY DEF OwnedIsUsable
<1>1. f < total_frames /\ f \in AllFrames /\ f \in Nat
  BY DEF PmmInv, Frames, AllFrames
<1>2. f \notin Span(0, LowMemory) /\ f \notin Span(KernelStart, KernelEnd - KernelStart)
  BY DEF PmmInv, Reserved
<1>3. f * FRAME_SIZE >= LowMemory
  <2>1. (f + 1) * FRAME_SIZE <= 0 \/ f * FRAME_SIZE >= 0 + LowMemory
    BY <1>1, <1>2, SpanCovers, PmmAssumption
  <2>2. (f + 1) * FRAME_SIZE > 0
    BY <1>1, PmmAssumption
  <2> QED
    BY <1>1, <2>1, <2>2, PmmAssumption
<1>4. (f + 1) * FRAME_SIZE <= KernelStart \/ f * FRAME_SIZE >= KernelEnd
  <2>1. KernelEnd - KernelStart \in Nat \ {0}
    BY PmmAssumption
  <2>2. \/ (f + 1) * FRAME_SIZE <= KernelStart
        \/ f * FRAME_SIZE >= KernelStart + (KernelEnd - KernelStart)
    BY <1>1, <1>2, <2>1, SpanCovers, PmmAssumption
  <2> QED
    BY <2>2, PmmAssumption
<1> QED
  BY <1>1, <1>3, <1>4

\* No client is ever given a byte of the first megabyte or of the kernel,
\* wherever the kernel ends inside a frame (pmm.c:49-69, 130-134).
THEOREM PmmOwnedIsUsable == PmmSpec => []OwnedIsUsable
BY PmmInvIsUsable, PmmInvariant, PTL

\* Nor a byte outside the memory of an aligned map.
LEMMA PmmInvIsMemory == PmmInv => OwnedIsMemory
<1> SUFFICES ASSUME PmmInv, Aligned, NEW f \in owned
             PROVE  \E r \in mmap : /\ r.addr <= f * FRAME_SIZE
                                    /\ (f + 1) * FRAME_SIZE <= r.addr + r.len
  BY DEF OwnedIsMemory
<1>1. f \in Nat /\ f \in AllFrames /\ FRAME_SIZE \in Nat /\ LowMemory \in Nat
  BY PmmAssumption DEF PmmInv, AllFrames
<1>2. PICK r \in mmap : f \in Span(r.addr, r.len)
  BY DEF PmmInv, Available
<1>3. r.addr \in Nat /\ r.len \in Nat
  BY <1>2, PmmAssumption DEF PmmInv
<1>4. f * FRAME_SIZE >= LowMemory
  BY PmmInvIsUsable DEF OwnedIsUsable
<1>5. f * FRAME_SIZE < r.addr + r.len /\ f * FRAME_SIZE \in Nat
  BY <1>1, <1>2, <1>3, SpanInside
<1>6. r.addr % FRAME_SIZE = 0 /\ (r.addr + r.len) % FRAME_SIZE = 0
  BY <1>1, <1>2, <1>3, <1>4, <1>5 DEF Aligned
<1> QED
  BY <1>1, <1>2, <1>3, <1>6, SpanInside

\* When the map's regions are frame aligned above the first megabyte, every
\* byte a client is given is memory the map calls available (pmm.c:49-69).
THEOREM PmmOwnedIsMemory == PmmSpec => []OwnedIsMemory
BY PmmInvIsMemory, PmmInvariant, PTL
-----------------------------------------------------------------------------
(* Page tables and framebuffer *)

Flags == FlagSets \cup {{}, {"WRITABLE"}}
EntryRecord == [to : Int, flags : Flags]
Memory == [AllFrames -> [Index -> EntryRecord]]

\* The tables of a memory by the indices that lead to them, and what the
\* processor finds there.
PdptOf(mem, i) == mem[Pml4][i].to
HasPdpt(mem, i) == PdptOf(mem, i) # -1
PdOf(mem, i, j) == mem[PdptOf(mem, i)][j].to
HasPd(mem, i, j) == HasPdpt(mem, i) /\ PdOf(mem, i, j) # -1
Look(mem, i, j, k) == IF HasPd(mem, i, j) THEN mem[PdOf(mem, i, j)][k] ELSE Absent

\* All tables are in frames of a set, and no two are in the same.
Placed(mem, used) ==
    /\ Pml4 \in used
    /\ \A i \in Index : HasPdpt(mem, i) => PdptOf(mem, i) \in used \ {Pml4}
    /\ \A i, j \in Index : HasPd(mem, i, j) => PdOf(mem, i, j) \in used \ {Pml4}
Apart(mem) ==
    /\ \A i, k \in Index :
          HasPdpt(mem, i) /\ HasPdpt(mem, k) /\ PdptOf(mem, i) = PdptOf(mem, k) => i = k
    /\ \A i, j, k \in Index :
          HasPd(mem, i, j) /\ HasPdpt(mem, k) => PdOf(mem, i, j) # PdptOf(mem, k)
    /\ \A i, j, k, l \in Index :
          HasPd(mem, i, j) /\ HasPd(mem, k, l) /\ PdOf(mem, i, j) = PdOf(mem, k, l) =>
              i = k /\ j = l
Tree(mem, used) == mem \in Memory /\ Placed(mem, used) /\ Apart(mem)

\* The frames a table may be in: used, held by no client, and reached by the
\* identity map.
KernelFrames == (frame_bitmap \cap 0 .. IdentityFrames - 1) \ owned

VmmInv == PmmInv /\ Tree(frames, KernelFrames)

\* ensure_table clears the new table and changes one entry of its parent.
TableAdded(mem, parent, i, f, n) ==
    /\ n \in Memory
    /\ n[f] = Empty
    /\ n[parent][i].to = f
    /\ \A j \in Index : j # i => n[parent][j] = mem[parent][j]
    /\ \A g \in AllFrames : g \notin {f, parent} => n[g] = mem[g]

LEMMA NewTableIs ==
    ASSUME NEW mem \in Memory, NEW parent \in AllFrames, NEW f \in AllFrames,
           NEW i \in Index, parent # f
    PROVE  TableAdded(mem, parent, i, f, NewTable(mem, parent, i, f))
<1> DEFINE n == NewTable(mem, parent, i, f)
<1>1. Absent \in EntryRecord /\ TableEntry(f) \in EntryRecord /\ TableEntry(f).to = f
  BY PmmAssumption DEF Absent, TableEntry, EntryRecord, Flags, AllFrames
<1>2. Empty \in [Index -> EntryRecord]
  BY <1>1 DEF Empty
<1>3. n = [mem EXCEPT ![f] = Empty, ![parent][i] = TableEntry(f)]
  BY DEF NewTable
<1>4. /\ n[f] = Empty
      /\ n[parent] = [mem[parent] EXCEPT ![i] = TableEntry(f)]
      /\ \A g \in AllFrames : g \notin {f, parent} => n[g] = mem[g]
  BY <1>3 DEF Memory
<1>5. [mem[parent] EXCEPT ![i] = TableEntry(f)] \in [Index -> EntryRecord]
  BY <1>1 DEF Memory
<1>6. n \in Memory
  BY <1>2, <1>3, <1>4, <1>5 DEF Memory
<1>7. mem[parent] \in [Index -> EntryRecord]
  BY DEF Memory
<1>8. n[parent][i].to = f /\ \A j \in Index : j # i => n[parent][j] = mem[parent][j]
  BY <1>1, <1>4, <1>7
<1> QED
  BY <1>4, <1>6, <1>8 DEF TableAdded

\* What the processor finds is the same in two memories.
SameLook(n, mem) == \A a, b, c \in Index : Look(n, a, b, c) = Look(mem, a, b, c)

\* A page directory pointer table is added at an index that has none.
PdptAdded(mem, used, i, f, n) ==
    /\ Tree(n, used \cup {f})
    /\ PdptOf(n, i) = f /\ HasPdpt(n, i)
    /\ \A j \in Index : ~ HasPd(n, i, j)
    /\ SameLook(n, mem)

LEMMA AddPdpt ==
    ASSUME NEW mem, NEW used, used \subseteq AllFrames, Tree(mem, used),
           NEW i \in Index, ~ HasPdpt(mem, i), NEW f \in AllFrames \ used
    PROVE  PdptAdded(mem, used, i, f, NewTable(mem, Pml4, i, f))
<1> DEFINE n == NewTable(mem, Pml4, i, f)
<1>0. f \in Nat /\ f # -1 /\ -1 \notin AllFrames
  BY PmmAssumption DEF AllFrames
<1>1. /\ n \in Memory /\ n[f] = Empty /\ n[Pml4][i].to = f
      /\ \A j \in Index : j # i => n[Pml4][j] = mem[Pml4][j]
      /\ \A g \in AllFrames : g \notin {f, Pml4} => n[g] = mem[g]
  <2>1. Pml4 \in used /\ mem \in Memory
    BY DEF Tree, Placed
  <2> QED
    BY <2>1, NewTableIs DEF TableAdded
<1> HIDE DEF n
<1>2. PdptOf(n, i) = f /\ HasPdpt(n, i) /\ \A j \in Index : PdOf(n, i, j) = -1 /\ ~ HasPd(n, i, j)
  BY <1>0, <1>1 DEF PdptOf, HasPdpt, HasPd, PdOf, Empty, Absent
<1>3. \A a \in Index : a # i => PdptOf(n, a) = PdptOf(mem, a)
                                /\ (HasPdpt(n, a) <=> HasPdpt(mem, a))
  BY <1>1 DEF PdptOf, HasPdpt
<1>4. \A a, b \in Index : a # i /\ HasPdpt(mem, a) => PdOf(n, a, b) = PdOf(mem, a, b)
  <2> SUFFICES ASSUME NEW a \in Index, NEW b \in Index, a # i, HasPdpt(mem, a)
               PROVE  PdOf(n, a, b) = PdOf(mem, a, b)
    OBVIOUS
  <2>1. PdptOf(mem, a) \in AllFrames /\ PdptOf(mem, a) \notin {f, Pml4}
    BY DEF Tree, Placed
  <2> QED
    BY <1>1, <1>3, <2>1 DEF PdOf
<1>5. \A a, b \in Index : HasPd(n, a, b) <=> HasPd(mem, a, b)
  BY <1>2, <1>3, <1>4 DEF HasPd
<1>6. \A a, b \in Index : HasPd(mem, a, b) => PdOf(n, a, b) = PdOf(mem, a, b) /\ a # i
  BY <1>2, <1>4 DEF HasPd
<1>7. Placed(n, used \cup {f})
  BY <1>2, <1>3, <1>5, <1>6 DEF Tree, Placed
<1>8. Apart(n)
  <2>1. \A a, k \in Index :
           HasPdpt(n, a) /\ HasPdpt(n, k) /\ PdptOf(n, a) = PdptOf(n, k) => a = k
    BY <1>2, <1>3 DEF Tree, Placed, Apart
  <2>2. \A a, j, k \in Index : HasPd(n, a, j) /\ HasPdpt(n, k) => PdOf(n, a, j) # PdptOf(n, k)
    BY <1>2, <1>3, <1>5, <1>6 DEF Tree, Placed, Apart
  <2>3. \A a, j, k, l \in Index :
           HasPd(n, a, j) /\ HasPd(n, k, l) /\ PdOf(n, a, j) = PdOf(n, k, l) => a = k /\ j = l
    BY <1>5, <1>6 DEF Tree, Apart
  <2> QED
    BY <2>1, <2>2, <2>3 DEF Apart
<1>9. \A a, b, c \in Index : Look(n, a, b, c) = Look(mem, a, b, c)
  <2> SUFFICES ASSUME NEW a \in Index, NEW b \in Index, NEW c \in Index, HasPd(mem, a, b)
               PROVE  n[PdOf(n, a, b)][c] = mem[PdOf(mem, a, b)][c]
    BY <1>5 DEF Look
  <2>1. PdOf(mem, a, b) \in AllFrames /\ PdOf(mem, a, b) \notin {f, Pml4}
    BY DEF Tree, Placed
  <2> QED
    BY <1>1, <1>6, <2>1
<1>10. PdptAdded(mem, used, i, f, n)
  BY <1>1, <1>2, <1>7, <1>8, <1>9 DEF Tree, PdptAdded, SameLook
<1> QED
  BY <1>10 DEF n

\* A page directory is added at an index of a table that has none there.
PdAdded(mem, used, i, j, f, n) ==
    /\ Tree(n, used \cup {f})
    /\ PdOf(n, i, j) = f /\ HasPd(n, i, j)
    /\ SameLook(n, mem)

LEMMA AddPd ==
    ASSUME NEW mem, NEW used, used \subseteq AllFrames, Tree(mem, used),
           NEW i \in Index, NEW j \in Index, HasPdpt(mem, i), ~ HasPd(mem, i, j),
           NEW f \in AllFrames \ used
    PROVE  PdAdded(mem, used, i, j, f, NewTable(mem, PdptOf(mem, i), j, f))
<1> DEFINE t == PdptOf(mem, i)
           n == NewTable(mem, t, j, f)
<1>0. f \in Nat /\ f # -1 /\ -1 \notin AllFrames
  BY PmmAssumption DEF AllFrames
<1>1. t \in AllFrames /\ t \in used /\ t # Pml4 /\ Pml4 \in used /\ mem \in Memory
  BY DEF Tree, Placed
<1>2. /\ n \in Memory /\ n[f] = Empty /\ n[t][j].to = f
      /\ \A b \in Index : b # j => n[t][b] = mem[t][b]
      /\ \A g \in AllFrames : g \notin {f, t} => n[g] = mem[g]
  <2>1. f \in AllFrames /\ t # f
    BY <1>1
  <2> HIDE DEF t
  <2>2. TableAdded(mem, t, j, f, n)
    BY <1>1, <2>1, NewTableIs
  <2> QED
    BY <2>2 DEF TableAdded
<1> HIDE DEF n
<1>3. \A a \in Index : PdptOf(n, a) = PdptOf(mem, a) /\ (HasPdpt(n, a) <=> HasPdpt(mem, a))
  BY <1>1, <1>2 DEF PdptOf, HasPdpt
<1>4. PdOf(n, i, j) = f /\ HasPd(n, i, j)
  BY <1>0, <1>2, <1>3 DEF PdOf, HasPd
<1>5. \A a, b \in Index : HasPdpt(mem, a) /\ ~ (a = i /\ b = j) =>
                            PdOf(n, a, b) = PdOf(mem, a, b)
  <2> SUFFICES ASSUME NEW a \in Index, NEW b \in Index, HasPdpt(mem, a), ~ (a = i /\ b = j)
               PROVE  PdOf(n, a, b) = PdOf(mem, a, b)
    OBVIOUS
  <2>1. PdptOf(mem, a) \in AllFrames /\ PdptOf(mem, a) # f
    BY DEF Tree, Placed
  <2>2. a # i => PdptOf(mem, a) # t
    BY DEF Tree, Apart
  <2> QED
    BY <1>2, <1>3, <2>1, <2>2 DEF PdOf
<1>6. \A a, b \in Index : HasPd(n, a, b) <=> HasPd(mem, a, b) \/ (a = i /\ b = j)
  BY <1>3, <1>4, <1>5 DEF HasPd
<1>7. \A a, b \in Index : HasPd(mem, a, b) =>
          PdOf(n, a, b) = PdOf(mem, a, b) /\ ~ (a = i /\ b = j)
  BY <1>5 DEF HasPd
<1>8. Placed(n, used \cup {f})
  BY <1>1, <1>3, <1>4, <1>6, <1>7 DEF Tree, Placed
<1>9. Apart(n)
  <2>1. \A a, k \in Index :
           HasPdpt(n, a) /\ HasPdpt(n, k) /\ PdptOf(n, a) = PdptOf(n, k) => a = k
    BY <1>3 DEF Tree, Apart
  <2>2. \A a, b, k \in Index : HasPd(n, a, b) /\ HasPdpt(n, k) => PdOf(n, a, b) # PdptOf(n, k)
    BY <1>3, <1>4, <1>6, <1>7 DEF Tree, Placed, Apart
  <2>3. \A a, b, k, l \in Index :
           HasPd(n, a, b) /\ HasPd(n, k, l) /\ PdOf(n, a, b) = PdOf(n, k, l) => a = k /\ b = l
    BY <1>4, <1>6, <1>7 DEF Tree, Placed, Apart
  <2> QED
    BY <2>1, <2>2, <2>3 DEF Apart
<1>10. \A a, b, c \in Index : Look(n, a, b, c) = Look(mem, a, b, c)
  <2>1. \A c \in Index : n[f][c] = Absent
    BY <1>2 DEF Empty
  <2>2. ASSUME NEW a \in Index, NEW b \in Index, NEW c \in Index, HasPd(mem, a, b)
        PROVE  n[PdOf(n, a, b)][c] = mem[PdOf(mem, a, b)][c]
    <3>1. PdOf(mem, a, b) \in AllFrames /\ PdOf(mem, a, b) \notin {f, t}
      BY <2>2 DEF Tree, Placed, Apart
    <3> QED
      BY <1>2, <1>7, <2>2, <3>1
  <2> QED
    BY <1>4, <1>6, <2>1, <2>2 DEF Look
<1>11. PdAdded(mem, used, i, j, f, n)
  BY <1>2, <1>4, <1>8, <1>9, <1>10 DEF Tree, PdAdded, SameLook
<1> QED
  BY <1>11 DEF n

\* A change that moves no table keeps the tree.
LEMMA TreeStays ==
    ASSUME NEW mem, NEW used, Tree(mem, used), NEW n \in Memory,
           \A a \in Index : PdptOf(n, a) = PdptOf(mem, a),
           \A a, b \in Index : HasPdpt(mem, a) => PdOf(n, a, b) = PdOf(mem, a, b)
    PROVE  /\ Tree(n, used)
           /\ \A a, b \in Index : HasPd(n, a, b) <=> HasPd(mem, a, b)
           /\ \A a, b \in Index : HasPd(mem, a, b) => PdOf(n, a, b) = PdOf(mem, a, b)
<1>1. \A a \in Index : HasPdpt(n, a) <=> HasPdpt(mem, a)
  BY DEF HasPdpt
<1>2. \A a, b \in Index : HasPd(n, a, b) <=> HasPd(mem, a, b)
  BY <1>1 DEF HasPd
<1>3. \A a, b \in Index : HasPd(mem, a, b) => PdOf(n, a, b) = PdOf(mem, a, b)
  BY DEF HasPd
<1>4. Placed(n, used)
  BY <1>1, <1>2, <1>3 DEF Tree, Placed
<1>5. Apart(n)
  BY <1>1, <1>2, <1>3 DEF Tree, Apart
<1> QED
  BY <1>2, <1>3, <1>4, <1>5 DEF Tree

\* Writing a page's entry moves no table and changes what is found for that
\* page only.
PageSet(mem, used, v, e, n) ==
    /\ Tree(n, used)
    /\ \A w \in Page : Look(n, w[1], w[2], w[3])
           = IF w = v THEN e ELSE Look(mem, w[1], w[2], w[3])

LEMMA PageIsSet ==
    ASSUME NEW mem, NEW used, used \subseteq AllFrames, Tree(mem, used),
           NEW v \in Page, HasPd(mem, v[1], v[2]), NEW p \in Int, NEW flags \in Flags
    PROVE  PageSet(mem, used, v, PageEntry(p, flags),
                   SetPage(mem, PdOf(mem, v[1], v[2]), v, p, flags))
<1> DEFINE d == PdOf(mem, v[1], v[2])
           e == PageEntry(p, flags)
           n == SetPage(mem, d, v, p, flags)
<1>1. v[1] \in Index /\ v[2] \in Index /\ v[3] \in Index
  BY DEF Page
<1>2. /\ d \in AllFrames /\ d # Pml4 /\ Pml4 \in AllFrames /\ mem \in Memory
      /\ \A a \in Index : HasPdpt(mem, a) => PdptOf(mem, a) \in AllFrames \ {d}
  BY <1>1 DEF Tree, Placed, Apart
<1>3. n = [mem EXCEPT ![d][v[3]] = e]
  BY DEF SetPage
<1>4. e \in EntryRecord
  BY DEF PageEntry, EntryRecord
<1> HIDE DEF d, e, n
<1>5. mem[d] \in [Index -> EntryRecord]
  BY <1>2 DEF Memory
<1>6. /\ n[d] = [mem[d] EXCEPT ![v[3]] = e]
      /\ \A g \in AllFrames : g # d => n[g] = mem[g]
  BY <1>2, <1>3 DEF Memory
<1>7. n \in Memory
  BY <1>1, <1>2, <1>3, <1>4, <1>5 DEF Memory
<1>8. \A a \in Index : PdptOf(n, a) = PdptOf(mem, a)
  BY <1>2, <1>6 DEF PdptOf
<1>9. \A a, b \in Index : HasPdpt(mem, a) => PdOf(n, a, b) = PdOf(mem, a, b)
  BY <1>2, <1>6, <1>8 DEF PdOf
<1>10. /\ Tree(n, used)
       /\ \A a, b \in Index : HasPd(n, a, b) <=> HasPd(mem, a, b)
       /\ \A a, b \in Index : HasPd(mem, a, b) => PdOf(n, a, b) = PdOf(mem, a, b)
  BY <1>7, <1>8, <1>9, TreeStays
<1>11. ASSUME NEW w \in Page
       PROVE  Look(n, w[1], w[2], w[3]) = IF w = v THEN e ELSE Look(mem, w[1], w[2], w[3])
  <2>1. /\ w[1] \in Index /\ w[2] \in Index /\ w[3] \in Index
        /\ w = v <=> w[1] = v[1] /\ w[2] = v[2] /\ w[3] = v[3]
    BY DEF Page
  <2>2. CASE ~ HasPd(mem, w[1], w[2])
    BY <1>10, <2>1, <2>2 DEF Look
  <2>3. CASE HasPd(mem, w[1], w[2]) /\ ~ (w[1] = v[1] /\ w[2] = v[2])
    <3>1. PdOf(mem, w[1], w[2]) # d /\ PdOf(mem, w[1], w[2]) \in AllFrames
      BY <1>1, <2>1, <2>3 DEF Tree, Apart, Placed, d
    <3> QED
      BY <1>6, <1>10, <2>1, <2>3, <3>1 DEF Look
  <2>4. CASE w[1] = v[1] /\ w[2] = v[2]
    <3>1. Look(n, w[1], w[2], w[3]) = n[d][w[3]] /\ Look(mem, w[1], w[2], w[3]) = mem[d][w[3]]
      BY <1>1, <1>10, <2>4 DEF Look, d
    <3> QED
      BY <1>1, <1>5, <1>6, <2>1, <2>4, <3>1
  <2> QED
    BY <2>2, <2>3, <2>4
<1>12. PageSet(mem, used, v, e, n)
  BY <1>10, <1>11 DEF PageSet
<1> QED
  BY <1>12 DEF d, e, n

\* What is written to a frame that holds no table changes nothing.
LEMMA OtherFrame ==
    ASSUME NEW mem, NEW used, used \subseteq AllFrames, Tree(mem, used),
           NEW f \in AllFrames \ used, NEW table \in [Index -> EntryRecord]
    PROVE  Tree([mem EXCEPT ![f] = table], used) /\ SameLook([mem EXCEPT ![f] = table], mem)
<1> DEFINE n == [mem EXCEPT ![f] = table]
<1>1. /\ n \in Memory
      /\ \A g \in used : n[g] = mem[g]
      /\ Pml4 \in used
      /\ \A a \in Index : HasPdpt(mem, a) => PdptOf(mem, a) \in used
      /\ \A a, b \in Index : HasPd(mem, a, b) => PdOf(mem, a, b) \in used
  BY DEF Tree, Placed, Memory
<1> HIDE DEF n
<1>2. \A a \in Index : PdptOf(n, a) = PdptOf(mem, a)
  BY <1>1 DEF PdptOf
<1>3. \A a, b \in Index : HasPdpt(mem, a) => PdOf(n, a, b) = PdOf(mem, a, b)
  BY <1>1, <1>2 DEF PdOf
<1>4. /\ Tree(n, used)
      /\ \A a, b \in Index : HasPd(n, a, b) <=> HasPd(mem, a, b)
      /\ \A a, b \in Index : HasPd(mem, a, b) => PdOf(n, a, b) = PdOf(mem, a, b)
  BY <1>1, <1>2, <1>3, TreeStays
<1>5. \A a, b, c \in Index : HasPd(mem, a, b) => n[PdOf(n, a, b)][c] = mem[PdOf(mem, a, b)][c]
  BY <1>1, <1>4, Zenon
<1>6. \A a, b, c \in Index : Look(n, a, b, c) = Look(mem, a, b, c)
  BY <1>4, <1>5 DEF Look
<1> QED
  BY <1>4, <1>6 DEF n, SameLook

\* The walk of the processor, in these terms.
LEMMA WalkIs ==
    ASSUME NEW w
    PROVE  Walk(w) = Look(frames, w[1], w[2], w[3])
BY DEF Walk, Look, HasPd, HasPdpt, PdOf, PdptOf, Pdpt, Pd, Present

\* The boot code's tables are a tree in the kernel's image (boot.S).
LEMMA BootIsTree ==
    ASSUME VmmInit
    PROVE  /\ VmmInv
           /\ \A v \in Page : Walk(v) = IF v[1] = 0 /\ v[2] = 0
                                         THEN PageEntry(v[3], {"WRITABLE"}) ELSE Absent
<1>1. PmmInv /\ owned = {} /\ frames = BootTables
  BY InitEstablishes DEF VmmInit, PmmInit
<1>2. /\ {Pml4, BootPdpt, BootPd} \subseteq AllFrames
      /\ {Pml4, BootPdpt, BootPd} \subseteq KernelFrames
  <2>1. KernelStart \in Nat /\ KernelEnd - KernelStart \in Nat
    BY PmmAssumption
  <2>2. Span(KernelStart, KernelEnd - KernelStart) \subseteq Reserved \cap AllFrames
    BY <2>1, SpanInBitmap DEF Reserved
  <2>3. Reserved \cap AllFrames \subseteq frame_bitmap
    BY <1>1 DEF PmmInv
  <2> QED
    BY <1>1, <2>2, <2>3, VmmAssumption DEF KernelFrames
<1>3. 0 \in Index /\ -1 \notin AllFrames /\ Index \subseteq Int /\ AllFrames \subseteq Int
  BY VmmAssumption, PmmAssumption DEF Index, AllFrames
<1>4. /\ Absent \in EntryRecord
      /\ \A t \in Int : /\ TableEntry(t) \in EntryRecord /\ TableEntry(t).to = t
                        /\ PageEntry(t, {"WRITABLE"}) \in EntryRecord
  BY DEF Absent, TableEntry, PageEntry, EntryRecord, Flags
<1>5. Empty \in [Index -> EntryRecord] /\ \A i \in Index : Empty[i] = Absent
  BY <1>4 DEF Empty
<1> DEFINE top == [Empty EXCEPT ![0] = TableEntry(BootPdpt)]
           middle == [Empty EXCEPT ![0] = TableEntry(BootPd)]
           low == [i \in Index |-> PageEntry(i, {"WRITABLE"})]
<1>6. {top, middle, low, Empty} \subseteq [Index -> EntryRecord]
  BY <1>2, <1>3, <1>4, <1>5
<1>7. frames[Pml4] = top /\ frames[BootPdpt] = middle /\ frames[BootPd] = low
  BY <1>1, <1>2, VmmAssumption DEF BootTables
<1>8. frames \in Memory
  <2>1. \A f \in AllFrames : frames[f] \in {top, middle, low, Empty}
    BY <1>1 DEF BootTables
  <2>2. frames = [f \in AllFrames |-> frames[f]]
    BY <1>1 DEF BootTables
  <2> HIDE DEF top, middle, low
  <2> QED
    BY <1>6, <2>1, <2>2 DEF Memory
<1>a. /\ \A i \in Index : top[i] = IF i = 0 THEN TableEntry(BootPdpt) ELSE Absent
      /\ \A i \in Index : middle[i] = IF i = 0 THEN TableEntry(BootPd) ELSE Absent
  BY <1>3, <1>5
<1>b. /\ BootPdpt \in Int /\ TableEntry(BootPdpt).to = BootPdpt
      /\ BootPd \in Int /\ TableEntry(BootPd).to = BootPd
      /\ Absent.to = -1
  BY <1>2, <1>3, <1>4 DEF Absent
<1> HIDE DEF top, middle
<1>9. \A i \in Index : PdptOf(frames, i) = IF i = 0 THEN BootPdpt ELSE -1
  BY <1>7, <1>a, <1>b DEF PdptOf
<1>10. \A j \in Index : frames[BootPdpt][j].to = IF j = 0 THEN BootPd ELSE -1
  BY <1>7, <1>a, <1>b
<1>11. \A i \in Index : HasPdpt(frames, i) <=> i = 0
  BY <1>2, <1>3, <1>9 DEF HasPdpt
<1>12. \A i, j \in Index : /\ HasPd(frames, i, j) <=> i = 0 /\ j = 0
                           /\ i = 0 /\ j = 0 => PdOf(frames, i, j) = BootPd
  BY <1>2, <1>3, <1>9, <1>10, <1>11 DEF HasPd, PdOf
<1>13. Placed(frames, KernelFrames)
  BY <1>2, <1>9, <1>11, <1>12, VmmAssumption DEF Placed
<1>14. Apart(frames)
  BY <1>9, <1>11, <1>12, VmmAssumption DEF Apart
<1>15. ASSUME NEW v \in Page
       PROVE  Walk(v) = IF v[1] = 0 /\ v[2] = 0 THEN PageEntry(v[3], {"WRITABLE"}) ELSE Absent
  <2>1. v[1] \in Index /\ v[2] \in Index /\ v[3] \in Index
    BY DEF Page
  <2>2. frames[BootPd][v[3]] = PageEntry(v[3], {"WRITABLE"})
    BY <1>7, <2>1
  <2>3. Walk(v) = Look(frames, v[1], v[2], v[3])
    BY WalkIs
  <2> QED
    BY <1>12, <2>1, <2>2, <2>3 DEF Look
<1> QED
  BY <1>1, <1>8, <1>13, <1>14, <1>15 DEF VmmInv, Tree

\* pmm_alloc_frame_low gives vmm.c frames that hold no table and that the
\* identity map reaches.
LEMMA LowFrames ==
    ASSUME VmmInv
    PROVE  /\ KernelFrames \subseteq AllFrames
           /\ LowFree \subseteq Nat
           /\ LowFree \subseteq AllFrames \ KernelFrames
           /\ LowFree \subseteq Frames \ frame_bitmap
           /\ LowFree \cap owned = {}
           /\ LowFree \subseteq 0 .. IdentityFrames - 1
<1>1. IdentityFrames \in Nat
  BY VmmAssumption
<1>2. LowFree \subseteq Frames \ frame_bitmap /\ \A f \in LowFree : f < IdentityFrames
  BY <1>1, FreeIsFree DEF LowFree, VmmInv
<1>3. Frames \subseteq Nat /\ Frames \subseteq AllFrames
  BY PmmAssumption DEF Frames, AllFrames, VmmInv, PmmInv
<1>4. LowFree \subseteq 0 .. IdentityFrames - 1
  BY <1>1, <1>2, <1>3
<1>5. owned \subseteq frame_bitmap /\ frame_bitmap \subseteq AllFrames
  BY DEF VmmInv, PmmInv
<1> QED
  BY <1>2, <1>3, <1>4, <1>5 DEF KernelFrames

\* A step that takes low frames for tables keeps the allocator sound.
LEMMA TablesTaken ==
    ASSUME VmmInv, NEW S, S \subseteq LowFree, TakeFrames(S), owned' = owned
    PROVE  PmmInv' /\ KernelFrames' = KernelFrames \cup S
<1>1. S \subseteq Frames \ frame_bitmap /\ S \subseteq 0 .. IdentityFrames - 1 /\ S \cap owned = {}
  BY LowFrames
<1>2. PmmInv'
  BY <1>1, TakeKeeps DEF VmmInv
<1> QED
  BY <1>1, <1>2 DEF KernelFrames, TakeFrames

\* What a call may do: set the page it is for, and that one only.
PageMapped(v, e) == \A w \in Page : Walk(w)' = IF w = v THEN e ELSE Walk(w)
NothingMapped == \A w \in Page : Walk(w)' = Walk(w)

LEMMA WalkNext ==
    ASSUME NEW w
    PROVE  Walk(w)' = Look(frames', w[1], w[2], w[3])
BY DEF Walk, Look, HasPd, HasPdpt, PdOf, PdptOf, Pdpt, Pd, Present

\* vmm_map_2m with its tables in place (vmm.c:51-75).
LEMMA InPlaceKeeps ==
    ASSUME VmmInv, NEW v \in Page, NEW p \in Int, NEW flags \in Flags,
           MapInPlace(v, p, flags)
    PROVE  VmmInv' /\ PageMapped(v, PageEntry(p, flags))
<1>1. /\ HasPd(frames, v[1], v[2])
      /\ frames' = SetPage(frames, PdOf(frames, v[1], v[2]), v, p, flags)
      /\ UNCHANGED pmmVars
  BY DEF MapInPlace, HasPd, HasPdpt, PdOf, PdptOf, Present, Pdpt, Pd
<1>2. PmmInv' /\ KernelFrames' = KernelFrames
  BY <1>1, PmmStep DEF VmmInv, pmmVars, KernelFrames
<1>3. PageSet(frames, KernelFrames, v, PageEntry(p, flags), frames')
  BY <1>1, LowFrames, PageIsSet DEF VmmInv
<1> QED
  BY <1>2, <1>3, WalkIs, WalkNext DEF VmmInv, PageMapped, PageSet

\* ... when it adds the page directory (vmm.c:20-39).
LEMMA NewPdKeeps ==
    ASSUME VmmInv, NEW v \in Page, NEW p \in Int, NEW flags \in Flags,
           MapNewPd(v, p, flags)
    PROVE  VmmInv' /\ PageMapped(v, PageEntry(p, flags))
<1> DEFINE f == First(LowFree)
           n == NewTable(frames, PdptOf(frames, v[1]), v[2], f)
<1>1. /\ HasPdpt(frames, v[1]) /\ ~ HasPd(frames, v[1], v[2])
      /\ LowFree # {}
      /\ frames' = SetPage(n, f, v, p, flags)
      /\ TakeFrames({f}) /\ owned' = owned
  BY DEF MapNewPd, HasPd, HasPdpt, PdOf, PdptOf, Present, Pdpt, Pd
<1>2. f \in LowFree
  BY <1>1, LowFrames, FirstIsOne
<1>3. v[1] \in Index /\ v[2] \in Index /\ \A w \in Page : /\ w[1] \in Index /\ w[2] \in Index
                                                          /\ w[3] \in Index
  BY DEF Page
<1>4. f \in AllFrames \ KernelFrames /\ KernelFrames \subseteq AllFrames
  BY <1>2, LowFrames
<1>5. PmmInv' /\ KernelFrames' = KernelFrames \cup {f}
  <2>1. {f} \subseteq LowFree
    BY <1>2
  <2> QED
    BY <1>1, <2>1, TablesTaken
<1> HIDE DEF f
<1>6. PdAdded(frames, KernelFrames, v[1], v[2], f, n)
  BY <1>1, <1>3, <1>4, AddPd DEF VmmInv
<1> HIDE DEF n
<1>7. PageSet(n, KernelFrames \cup {f}, v, PageEntry(p, flags), frames')
  <2>1. KernelFrames \cup {f} \subseteq AllFrames
    BY <1>4
  <2>2. /\ Tree(n, KernelFrames \cup {f}) /\ HasPd(n, v[1], v[2])
        /\ frames' = SetPage(n, PdOf(n, v[1], v[2]), v, p, flags)
    BY <1>1, <1>6 DEF PdAdded
  <2> QED
    BY <2>1, <2>2, PageIsSet
<1> QED
  BY <1>3, <1>5, <1>6, <1>7, WalkIs, WalkNext
  DEF VmmInv, PageMapped, PageSet, PdAdded, SameLook

\* ... when it adds both tables.
LEMMA NewPdptKeeps ==
    ASSUME VmmInv, NEW v \in Page, NEW p \in Int, NEW flags \in Flags,
           MapNewPdpt(v, p, flags)
    PROVE  VmmInv' /\ PageMapped(v, PageEntry(p, flags))
<1> DEFINE f == First(LowFree)
           g == First(LowFree \ {f})
           n == NewTable(frames, Pml4, v[1], f)
           m == NewTable(n, f, v[2], g)
<1>1. /\ ~ HasPdpt(frames, v[1])
      /\ LowFree # {} /\ LowFree \ {f} # {}
      /\ frames' = SetPage(m, g, v, p, flags)
      /\ TakeFrames({f, g}) /\ owned' = owned
  BY DEF MapNewPdpt, HasPdpt, PdptOf, Present, Pdpt
<1>2. f \in LowFree /\ g \in LowFree /\ g # f
  <2>1. LowFree \subseteq Nat /\ LowFree \ {f} \subseteq Nat
    BY LowFrames
  <2>2. g \in LowFree \ {f}
    BY <1>1, <2>1, FirstIsOne
  <2>3. f \in LowFree
    BY <1>1, <2>1, FirstIsOne
  <2> QED
    BY <2>2, <2>3
<1>3. v[1] \in Index /\ v[2] \in Index /\ \A w \in Page : /\ w[1] \in Index /\ w[2] \in Index
                                                          /\ w[3] \in Index
  BY DEF Page
<1>4. /\ {f, g} \subseteq AllFrames \ KernelFrames /\ KernelFrames \subseteq AllFrames
      /\ g \in AllFrames \ (KernelFrames \cup {f})
      /\ KernelFrames \cup {f} \subseteq AllFrames
      /\ (KernelFrames \cup {f}) \cup {g} \subseteq AllFrames
  BY <1>2, LowFrames
<1>5. PmmInv' /\ KernelFrames' = (KernelFrames \cup {f}) \cup {g}
  <2>1. {f, g} \subseteq LowFree
    BY <1>2
  <2>2. PmmInv' /\ KernelFrames' = KernelFrames \cup {f, g}
    BY <1>1, <2>1, TablesTaken
  <2> QED
    BY <2>2
<1> HIDE DEF f, g
<1>6. PdptAdded(frames, KernelFrames, v[1], f, n)
  BY <1>1, <1>3, <1>4, AddPdpt DEF VmmInv
<1> HIDE DEF n
<1>7. /\ Tree(n, KernelFrames \cup {f}) /\ SameLook(n, frames)
      /\ HasPdpt(n, v[1]) /\ ~ HasPd(n, v[1], v[2])
      /\ m = NewTable(n, PdptOf(n, v[1]), v[2], g)
  BY <1>3, <1>6 DEF PdptAdded
<1> HIDE DEF m
<1>8. PdAdded(n, KernelFrames \cup {f}, v[1], v[2], g, m)
  BY <1>3, <1>4, <1>7, AddPd
<1>9. PageSet(m, (KernelFrames \cup {f}) \cup {g}, v, PageEntry(p, flags), frames')
  <2>1. /\ Tree(m, (KernelFrames \cup {f}) \cup {g}) /\ HasPd(m, v[1], v[2])
        /\ frames' = SetPage(m, PdOf(m, v[1], v[2]), v, p, flags)
    BY <1>1, <1>8 DEF PdAdded
  <2> QED
    BY <1>4, <2>1, PageIsSet
<1> QED
  BY <1>3, <1>5, <1>7, <1>8, <1>9, WalkIs, WalkNext
  DEF VmmInv, PageMapped, PageSet, PdAdded, SameLook

\* A call that fails maps nothing, also when a table stays behind.
LEMMA FailKeeps ==
    ASSUME VmmInv, NEW v \in Page, MapFails(v) \/ MapFailsHalfWay(v)
    PROVE  VmmInv' /\ NothingMapped
<1>1. CASE MapFails(v)
  <2>1. UNCHANGED vmmVars
    BY <1>1 DEF MapFails
  <2>2. PmmInv' /\ frames' = frames /\ KernelFrames' = KernelFrames
    BY <2>1, PmmStep DEF VmmInv, vmmVars, pmmVars, KernelFrames
  <2> QED
    BY <2>2, WalkIs, WalkNext DEF VmmInv, NothingMapped
<1>2. CASE MapFailsHalfWay(v)
  <2> DEFINE f == First(LowFree)
  <2>1. /\ ~ HasPdpt(frames, v[1])
        /\ LowFree # {} /\ LowFree \ {f} = {}
        /\ frames' = NewTable(frames, Pml4, v[1], f)
        /\ TakeFrames(LowFree) /\ owned' = owned
    BY <1>2 DEF MapFailsHalfWay, HasPdpt, PdptOf, Present, Pdpt
  <2>2. f \in LowFree
    BY <2>1, LowFrames, FirstIsOne
  <2>3. v[1] \in Index /\ \A w \in Page : w[1] \in Index /\ w[2] \in Index /\ w[3] \in Index
    BY DEF Page
  <2>4. f \in AllFrames \ KernelFrames /\ KernelFrames \subseteq AllFrames
    BY <2>2, LowFrames
  <2>5. LowFree = {f}
    BY <2>1, <2>2
  <2>6. PmmInv' /\ KernelFrames' = KernelFrames \cup {f}
    BY <2>1, <2>5, TablesTaken
  <2> HIDE DEF f
  <2>7. PdptAdded(frames, KernelFrames, v[1], f, frames')
    BY <2>1, <2>3, <2>4, AddPdpt DEF VmmInv
  <2> QED
    BY <2>3, <2>6, <2>7, WalkIs, WalkNext DEF VmmInv, NothingMapped, PdptAdded, SameLook
<1> QED
  BY <1>1, <1>2

\* Clients allocate, free and fill frames: none of them holds a table.
LEMMA ClientsKeep ==
    ASSUME VmmInv, (PmmNext /\ UNCHANGED frames) \/ \E f \in owned : Scribble(f)
    PROVE  VmmInv' /\ NothingMapped
<1>1. CASE PmmNext /\ UNCHANGED frames
  <2>1. PmmInv'
    BY <1>1, PmmStep DEF VmmInv
  <2>2. KernelFrames' = KernelFrames
    <3>1. owned \subseteq frame_bitmap /\ total_frames \in Nat /\ owned \subseteq Frames
      BY DEF VmmInv, PmmInv
    <3>2. ASSUME NEW n \in Nat, AllocBelow(n) PROVE KernelFrames' = KernelFrames
      <4>1. FreeBelow(n) \subseteq Frames \ frame_bitmap /\ Frames \subseteq Nat
        BY FreeIsFree DEF VmmInv, PmmInv, Frames
      <4>2. First(FreeBelow(n)) \notin frame_bitmap
        BY <3>2, <4>1, FirstIsOne DEF AllocBelow
      <4> QED
        BY <3>1, <3>2, <4>2 DEF AllocBelow, TakeFrames, KernelFrames
    <3>3. ASSUME NEW f \in owned, pmm_free_frame(f) PROVE KernelFrames' = KernelFrames
      BY <3>1, <3>3 DEF pmm_free_frame, KernelFrames, Frames
    <3>4. ASSUME NEW n, AllocFails(n) PROVE KernelFrames' = KernelFrames
      BY <3>4 DEF AllocFails, pmmVars, KernelFrames
    <3>5. \A n \in 0 .. PMM_MAX_FRAMES : n \in Nat
      OBVIOUS
    <3> QED
      BY <1>1, <3>1, <3>2, <3>3, <3>4, <3>5 DEF PmmNext, pmm_alloc_frame
  <2> QED
    BY <1>1, <2>1, <2>2, WalkIs, WalkNext DEF VmmInv, NothingMapped
<1>2. ASSUME NEW f \in owned, Scribble(f) PROVE VmmInv' /\ NothingMapped
  <2>1. PICK e \in {Absent, PageEntry(0, {})} : frames' = [frames EXCEPT ![f] = [i \in Index |-> e]]
    BY <1>2 DEF Scribble
  <2>2. [i \in Index |-> e] \in [Index -> EntryRecord]
    BY <2>1 DEF Absent, PageEntry, EntryRecord, Flags
  <2>3. f \in AllFrames \ KernelFrames /\ KernelFrames \subseteq AllFrames
    BY <1>2 DEF VmmInv, PmmInv, KernelFrames
  <2>4. PmmInv' /\ KernelFrames' = KernelFrames
    BY <1>2, PmmStep DEF Scribble, VmmInv, pmmVars, KernelFrames
  <2>5. Tree(frames', KernelFrames) /\ SameLook(frames', frames)
    BY <2>1, <2>2, <2>3, OtherFrame DEF VmmInv
  <2>6. \A w \in Page : w[1] \in Index /\ w[2] \in Index /\ w[3] \in Index
    BY DEF Page
  <2> QED
    BY <2>4, <2>5, <2>6, WalkIs, WalkNext DEF VmmInv, NothingMapped, SameLook
<1> QED
  BY <1>1, <1>2

\* No two tables share a frame, so there are as many frames as tables.
LEMMA TreeIsTree == VmmInv => TablesFormTree
<1> SUFFICES ASSUME VmmInv PROVE TablesFormTree
  OBVIOUS
<1> DEFINE A == {PdptFrame(i) : i \in Level2}
           B == {PdFrame(ij) : ij \in Level3}
<1>1. /\ \A i \in Level2 : i \in Index /\ HasPdpt(frames, i) /\ PdptFrame(i) = PdptOf(frames, i)
      /\ \A ij \in Level3 : /\ ij \in Index \X Index
                             /\ ij[1] \in Index /\ ij[2] \in Index
                             /\ HasPd(frames, ij[1], ij[2])
                             /\ PdFrame(ij) = PdOf(frames, ij[1], ij[2])
  BY DEF Level2, Level3, PdptFrame, PdFrame, Present, HasPdpt, HasPd, PdptOf, PdOf
<1>2. /\ Pml4 \in KernelFrames
      /\ A \subseteq KernelFrames \ {Pml4}
      /\ B \subseteq KernelFrames \ {Pml4}
      /\ A \cap B = {}
  BY <1>1 DEF VmmInv, Tree, Placed, Apart
<1>3. IsFiniteSet(Level2) /\ IsFiniteSet(Level3)
  <2>1. IsFiniteSet(Index)
    BY VmmAssumption, FS_Interval DEF Index
  <2>2. IsFiniteSet(Index \X Index)
    BY <2>1, FS_Product
  <2>3. Level2 \subseteq Index /\ Level3 \subseteq Index \X Index
    BY DEF Level2, Level3
  <2> QED
    BY <2>1, <2>2, <2>3, FS_Subset
<1>4. IsFiniteSet(A) /\ Cardinality(A) = Cardinality(Level2)
  <2> DEFINE h == [i \in Level2 |-> PdptFrame(i)]
  <2>1. \A i, k \in Level2 : PdptFrame(i) = PdptFrame(k) => i = k
    BY <1>1 DEF VmmInv, Tree, Apart
  <2>2. h \in Bijection(Level2, A)
    BY <2>1 DEF Bijection, Injection, Surjection, IsInjective
  <2> QED
    BY <1>3, <2>2, FS_Bijection DEF ExistsBijection
<1>5. IsFiniteSet(B) /\ Cardinality(B) = Cardinality(Level3)
  <2> DEFINE h == [ij \in Level3 |-> PdFrame(ij)]
  <2>1. \A x, y \in Level3 : PdFrame(x) = PdFrame(y) => x = y
    <3> TAKE x, y \in Level3
    <3>1. PdFrame(x) = PdFrame(y) => x[1] = y[1] /\ x[2] = y[2]
      BY <1>1 DEF VmmInv, Tree, Apart
    <3>2. x \in Index \X Index /\ y \in Index \X Index
      BY <1>1
    <3> QED
      BY <3>1, <3>2
  <2>2. h \in Bijection(Level3, B)
    BY <2>1 DEF Bijection, Injection, Surjection, IsInjective
  <2> QED
    BY <1>3, <2>2, FS_Bijection DEF ExistsBijection
<1>6. TableFrames = ({Pml4} \cup A) \cup B
  BY DEF TableFrames
<1> HIDE DEF A, B
<1>7. /\ IsFiniteSet({Pml4} \cup A)
      /\ Cardinality({Pml4} \cup A) = Cardinality(A) + 1
  <2>1. {Pml4} \cup A = A \cup {Pml4} /\ Pml4 \notin A
    BY <1>2
  <2> QED
    BY <1>4, <2>1, FS_AddElement
<1>8. Cardinality(({Pml4} \cup A) \cup B) = Cardinality({Pml4} \cup A) + Cardinality(B)
  <2>1. Cardinality(({Pml4} \cup A) \cup B)
          = Cardinality({Pml4} \cup A) + Cardinality(B) - Cardinality(({Pml4} \cup A) \cap B)
    BY <1>5, <1>7, FS_Union
  <2>2. Cardinality(({Pml4} \cup A) \cap B) = 0
    <3>1. ({Pml4} \cup A) \cap B = {}
      BY <1>2
    <3> QED
      BY <3>1, FS_EmptySet
  <2>3. Cardinality({Pml4} \cup A) \in Nat /\ Cardinality(B) \in Nat
    BY <1>5, <1>7, FS_CardinalityType
  <2> QED
    BY <2>1, <2>2, <2>3
<1>9. Cardinality(TableFrames) = 1 + Cardinality(Level2) + Cardinality(Level3)
  <2>1. Cardinality(Level2) \in Nat /\ Cardinality(Level3) \in Nat
    BY <1>3, FS_CardinalityType
  <2> QED
    BY <1>4, <1>5, <1>6, <1>7, <1>8, <2>1
<1>10. TableFrames \subseteq KernelFrames
  BY <1>2, <1>6
<1> QED
  BY <1>9, <1>10 DEF TablesFormTree, KernelFrames

\* Division is determined by its bounds.
LEMMA DivisionIs ==
    ASSUME NEW n \in Nat, NEW d \in Nat \ {0}, NEW r \in Nat, d * r <= n, n < d * r + d
    PROVE  n \div d = r
<1> DEFINE q == n \div d
<1>1. q \in Nat /\ d * q <= n /\ n < d * q + d
  BY DivisionBounds
<1> HIDE DEF q
<1>2. d * q \in Nat /\ d * r \in Nat /\ d * (q + 1) = d * q + d /\ d * (r + 1) = d * r + d
  BY <1>1
<1>3. ~ (q < r)
  <2> SUFFICES ASSUME q < r PROVE FALSE
    OBVIOUS
  <2>1. d * (q + 1) <= d * r
    BY <1>1, TimesMonotone
  <2> QED
    BY <1>1, <1>2, <2>1
<1>4. ~ (r < q)
  <2> SUFFICES ASSUME r < q PROVE FALSE
    OBVIOUS
  <2>1. d * (r + 1) <= d * q
    BY <1>1, TimesMonotone
  <2> QED
    BY <1>1, <1>2, <2>1
<1>5. q = r
  BY <1>1, <1>3, <1>4
<1> QED
  BY <1>5 DEF q

\* The number of a page from its three indices.
LEMMA VirtOfIs ==
    ASSUME NEW n \in Nat
    PROVE  /\ VirtOf(n) \in Page
           /\ n < Entries * Entries * Entries =>
                  n = Entries * (Entries * VirtOf(n)[1] + VirtOf(n)[2]) + VirtOf(n)[3]
<1> DEFINE e == Entries
           q == n \div e
           c == n % e
           r == q \div e
           b == q % e
<1>1. e \in Nat \ {0} /\ e * e \in Nat \ {0}
  BY VmmAssumption
<1>2. q \in Nat /\ c \in 0 .. e - 1 /\ n = e * q + c
  BY <1>1
<1> HIDE DEF q, c
<1>3. r \in Nat /\ b \in 0 .. e - 1 /\ q = e * r + b
  BY <1>1, <1>2
<1> HIDE DEF r, b
<1>4. n = (e * e) * r + (e * b + c)
  <2>1. e * q = e * (e * r + b)
    BY <1>3
  <2>2. e * (e * r + b) = (e * e) * r + e * b
    BY <1>1, <1>3
  <2>3. (e * e) * r \in Nat /\ e * b \in Nat
    BY <1>1, <1>3
  <2> QED
    BY <1>2, <2>1, <2>2, <2>3
<1>5. e * b + c \in Nat /\ e * b + c < e * e
  <2>1. e * b <= e * (e - 1) /\ e * b \in Nat
    BY <1>1, <1>3, TimesMonotone
  <2>2. e * (e - 1) = e * e - e
    BY <1>1
  <2> QED
    BY <1>1, <1>2, <2>1, <2>2
<1>6. n \div (e * e) = r
  <2>1. (e * e) * r \in Nat
    BY <1>1, <1>3
  <2>2. (e * e) * r <= n /\ n < (e * e) * r + (e * e)
    BY <1>1, <1>4, <1>5, <2>1
  <2> QED
    BY <1>1, <1>3, <2>2, DivisionIs
<1>7. VirtOf(n) = <<r % e, b, c>>
  BY <1>6 DEF VirtOf, q, c, b
<1>8. r % e \in Index /\ b \in Index /\ c \in Index
  BY <1>1, <1>2, <1>3 DEF Index
<1>9. ASSUME n < e * e * e PROVE r % e = r
  <2>1. r < e
    <3> SUFFICES ASSUME e <= r PROVE FALSE
      BY <1>1, <1>3
    <3>1. (e * e) * e <= (e * e) * r /\ (e * e) * r \in Nat
      BY <1>1, <1>3, TimesMonotone
    <3>2. (e * e) * e = e * e * e
      OBVIOUS
    <3> QED
      BY <1>1, <1>4, <1>5, <1>9, <3>1, <3>2
  <2> QED
    BY <1>1, <1>3, <2>1
<1>10. VirtOf(n) \in Page
  BY <1>7, <1>8 DEF Page
<1>11. VirtOf(n)[1] = r % e /\ VirtOf(n)[2] = b /\ VirtOf(n)[3] = c
  BY <1>7
<1>12. n = e * (e * r + b) + c
  BY <1>2, <1>3
<1> QED
  BY <1>9, <1>10, <1>11, <1>12

LEMMA VirtOfInjective ==
    ASSUME NEW n \in Nat, NEW k \in Nat, n < Entries * Entries * Entries,
           k < Entries * Entries * Entries, VirtOf(n) = VirtOf(k)
    PROVE  n = k
BY VirtOfIs, Zenon

\* Larger numbers have no smaller quotients.
LEMMA DivisionMonotone ==
    ASSUME NEW a \in Nat, NEW b \in Nat, NEW d \in Nat \ {0}, a <= b
    PROVE  a \div d <= b \div d
<1> DEFINE p == a \div d
           q == b \div d
<1>1. p \in Nat /\ q \in Nat /\ d * p <= a /\ b < d * q + d
  BY DivisionBounds
<1> HIDE DEF p, q
<1>2. p <= q
  <2> SUFFICES ASSUME q + 1 <= p PROVE FALSE
    BY <1>1
  <2>1. d * (q + 1) <= d * p /\ d * p \in Nat
    BY <1>1, TimesMonotone
  <2>2. d * (q + 1) = d * q + d /\ d * q \in Nat
    BY <1>1
  <2> QED
    BY <1>1, <2>1, <2>2
<1> QED
  BY <1>2 DEF p, q

LEMMA DivisionBelow ==
    ASSUME NEW a \in Nat, NEW k \in Nat, NEW d \in Nat \ {0}, a < d * k
    PROVE  a \div d < k
<1> DEFINE p == a \div d
<1>1. p \in Nat /\ d * p <= a
  BY DivisionBounds
<1> HIDE DEF p
<1>2. p < k
  <2> SUFFICES ASSUME k <= p PROVE FALSE
    BY <1>1
  <2>1. d * k <= d * p /\ d * p \in Nat /\ d * k \in Nat
    BY <1>1, TimesMonotone
  <2> QED
    BY <1>1, <2>1
<1> QED
  BY <1>2 DEF p

\* Addresses wrap at most once.
LEMMA ModuloIs ==
    ASSUME NEW a \in Nat, NEW m \in Nat \ {0}
    PROVE  /\ a % m \in 0 .. m - 1
           /\ a < m => a % m = a
           /\ m <= a /\ a < m + m => a % m = a - m
<1> DEFINE q == a \div m
           c == a % m
<1>1. q \in Nat /\ c \in 0 .. m - 1 /\ a = m * q + c
  OBVIOUS
<1>2. ASSUME a < m PROVE a % m = a
  BY <1>2
<1>3. ASSUME m <= a, a < m + m PROVE a % m = a - m
  <2>1. a \div m = 1
    BY <1>3, DivisionIs
  <2> QED
    BY <1>1, <2>1
<1> QED
  BY <1>1, <1>2, <1>3

FbRecord == [present : BOOLEAN, mapped : BOOLEAN, addr : Nat, pitch : Nat, width : Nat,
             height : Nat, bpp : Nat, type : Nat]

\* The pages of the framebuffer are pages of the map ...
LEMMA MapEndInRange ==
    ASSUME g_fb \in FbRecord
    PROVE  /\ SizeBytes \in Nat /\ MapStart \in Nat /\ MapEnd \in Nat
           /\ MapEnd < Entries * Entries * Entries
<1> DEFINE h == HUGE_PAGE_SIZE
           n == Entries * Entries * Entries
           t == (g_fb.addr + SizeBytes) % AddressEnd
           x == (t + h - 1) % AddressEnd
<1>1. h \in Nat \ {0} /\ n \in Nat \ {0}
  BY VmmAssumption, VideoAssumption
<1>2. AddressEnd = h * n /\ AddressEnd \in Nat \ {0}
  BY <1>1 DEF AddressEnd
<1>3. SizeBytes \in Nat /\ g_fb.addr \in Nat
  BY DEF SizeBytes, FbRecord
<1>4. t \in Nat
  BY <1>2, <1>3, ModuloIs
<1> HIDE DEF t
<1>5. x \in Nat /\ x < AddressEnd
  <2>1. t + h - 1 \in Nat
    BY <1>1, <1>4
  <2>2. x \in 0 .. AddressEnd - 1
    BY <1>2, <2>1, ModuloIs
  <2> HIDE DEF x
  <2> QED
    BY <1>2, <2>2
<1>6. MapEnd = x \div h /\ MapStart = g_fb.addr \div h
  BY DEF MapEnd, MapStart, align_up_2m, t
<1> HIDE DEF n, x
<1>7. x \div h < n
  BY <1>1, <1>2, <1>5, DivisionBelow
<1>8. x \div h \in Nat /\ g_fb.addr \div h \in Nat
  BY <1>1, <1>3, <1>5, DivisionBounds
<1> QED
  BY <1>3, <1>6, <1>7, <1>8 DEF n

\* ... and cover all its bytes: where the end wraps, nothing is mapped
\* (video.c:75-87).
LEMMA PagesCover ==
    ASSUME g_fb \in FbRecord, Mappable, NEW a \in Nat,
           g_fb.addr <= a, a < g_fb.addr + SizeBytes
    PROVE  a \div HUGE_PAGE_SIZE \in MapStart .. MapEnd - 1
<1> DEFINE h == HUGE_PAGE_SIZE
           n == Entries * Entries * Entries
           e == AddressEnd
           s == g_fb.addr + SizeBytes
           t == s % e
           x == (t + h - 1) % e
<1>1. h \in Nat \ {0} /\ n \in Nat \ {0}
  BY VmmAssumption, VideoAssumption
<1>2. e = h * n /\ e \in Nat \ {0}
  BY <1>1 DEF AddressEnd
<1>3. /\ SizeBytes \in Nat /\ MapStart \in Nat /\ MapEnd \in Nat
      /\ MapEnd < n /\ MapStart < MapEnd
      /\ g_fb.addr \in Nat /\ s \in Nat
  BY MapEndInRange DEF Mappable, FbRecord
<1>4. SizeBytes + h <= e
  BY <1>1, <1>2, <1>3, VideoAssumption DEF Mappable
<1>5. MapEnd = x \div h /\ MapStart = g_fb.addr \div h
  BY DEF MapEnd, MapStart, align_up_2m
<1>6. g_fb.addr < e
  <2>1. g_fb.addr < h * MapStart + h /\ h * MapStart \in Nat
    BY <1>1, <1>3, <1>5, DivisionBounds
  <2>2. h * (MapStart + 1) <= h * n
    BY <1>1, <1>3, TimesMonotone
  <2>3. h * (MapStart + 1) = h * MapStart + h
    BY <1>1, <1>3
  <2>4. h * MapStart + h <= e
    BY <1>2, <2>2, <2>3
  <2> QED
    BY <1>1, <1>2, <1>3, <2>1, <2>4
<1> HIDE DEF e, n
<1>7. s < e
  <2> SUFFICES ASSUME e <= s PROVE FALSE
    BY <1>2, <1>3
  <2>1. t = s - e
    BY <1>1, <1>2, <1>3, <1>4, <1>6, ModuloIs
  <2>2. t + h - 1 \in Nat /\ t + h - 1 < g_fb.addr /\ t + h - 1 < e
    BY <1>1, <1>2, <1>3, <1>4, <1>6, <2>1
  <2>3. x = t + h - 1
    BY <1>2, <2>2, ModuloIs
  <2>4. x \div h <= g_fb.addr \div h
    BY <1>1, <1>3, <2>2, <2>3, DivisionMonotone
  <2> QED
    BY <1>3, <1>5, <2>4
<1>8. t = s
  BY <1>2, <1>3, <1>7, ModuloIs
<1>9. s + h - 1 \in Nat /\ s + h - 1 < e
  <2>1. s + h - 1 \in Nat
    BY <1>1, <1>3
  <2> SUFFICES ASSUME e <= s + h - 1 PROVE FALSE
    BY <1>2, <2>1
  <2>2. s + h - 1 < e + e
    BY <1>1, <1>2, <1>3, <1>4, <1>7
  <2>3. x = s + h - 1 - e
    <3> DEFINE y == s + h - 1
    <3>1. x = y % e /\ y \in Nat /\ e <= y /\ y < e + e
      BY <1>8, <2>1, <2>2
    <3>2. e \in Nat \ {0}
      BY <1>2
    <3> HIDE DEF x, y
    <3>3. x = y - e
      BY <3>1, <3>2, ModuloIs
    <3> QED
      BY <1>1, <1>2, <1>3, <3>3 DEF y
  <2>4. x \in Nat /\ x < h * 1
    BY <1>1, <1>2, <1>3, <1>7, <2>3
  <2>5. x \div h < 1
    BY <1>1, <2>4, DivisionBelow
  <2> QED
    BY <1>3, <1>5, <2>5
<1>10. x = s + h - 1
  BY <1>2, <1>8, <1>9, ModuloIs
<1>11. s + h - 1 < h * MapEnd + h
  BY <1>1, <1>5, <1>9, <1>10, DivisionBounds
<1>12. a < h * MapEnd
  <2>1. h * MapEnd \in Nat
    BY <1>1, <1>3
  <2> QED
    BY <1>1, <1>3, <1>11, <2>1
<1>13. a \div h < MapEnd /\ a \div h \in Nat
  BY <1>1, <1>3, <1>12, DivisionBelow, DivisionBounds
<1>14. g_fb.addr \div h <= a \div h
  BY <1>1, <1>3, DivisionMonotone
<1> QED
  BY <1>3, <1>5, <1>13, <1>14

\* A pixel that fb_plot lets through lies within the framebuffer
\* (console.c:129-135).
LEMMA PixelInside ==
    ASSUME g_fb \in FbRecord, Usable, g_fb.pitch >= 4 * g_fb.width,
           NEW px \in 0 .. g_fb.width - 1, NEW py \in 0 .. g_fb.height - 1,
           NEW a \in PixelBytes(px, py)
    PROVE  a \in Nat /\ g_fb.addr <= a /\ a < g_fb.addr + SizeBytes
<1> DEFINE p == g_fb.pitch
           k == p \div 4
           at == g_fb.addr + 4 * (py * k + px)
<1>1. p \in Nat /\ g_fb.addr \in Nat /\ g_fb.width \in Nat /\ g_fb.height \in Nat
  BY DEF FbRecord
<1>2. px \in Nat /\ py \in Nat /\ px + 1 <= g_fb.width /\ py + 1 <= g_fb.height
  BY <1>1
<1>3. k \in Nat /\ p = 4 * k
  BY <1>1 DEF Usable
<1>4. a \in at .. at + 3
  BY DEF PixelBytes
<1> HIDE DEF k
<1>5. py * k \in Nat /\ 4 * (py * k) = p * py /\ p * py \in Nat
  BY <1>1, <1>2, <1>3
<1>6. p * (py + 1) <= p * g_fb.height /\ p * g_fb.height \in Nat
  <2>1. CASE p = 0
    BY <1>1, <1>2, <2>1
  <2>2. CASE p # 0
    BY <1>1, <1>2, <2>2, TimesMonotone
  <2> QED
    BY <2>1, <2>2
<1>7. p * (py + 1) = p * py + p
  BY <1>1, <1>2
<1>8. SizeBytes = p * g_fb.height
  BY DEF SizeBytes
<1>9. at = g_fb.addr + p * py + 4 * px
  BY <1>1, <1>2, <1>5
<1> HIDE DEF at
<1>10. a \in Int /\ g_fb.addr + p * py + 4 * px <= a /\ a <= g_fb.addr + p * py + 4 * px + 3
  BY <1>1, <1>2, <1>4, <1>5, <1>9
<1>11. 4 * px + 3 < p
  BY <1>1, <1>2
<1> HIDE DEF p
<1> QED
  BY <1>1, <1>2, <1>5, <1>6, <1>7, <1>8, <1>10, <1>11
-----------------------------------------------------------------------------
\* What the loop of video_map_framebuffer has mapped stays mapped, while it
\* runs and once it is through.
FbInv ==
    /\ g_fb \in FbRecord /\ mapped_pages \in Nat
    /\ g_fb.bpp = 32 => g_fb.pitch >= 4 * g_fb.width
    /\ boot_pc = "vmm_init" => mapped_pages = 0
    /\ boot_pc # "run" => ~ g_fb.mapped /\ g_backend = "VGA"
    /\ g_backend = "FB" => g_fb.mapped /\ Usable
    /\ g_fb.mapped => Mappable /\ MapEnd <= NextPage
FbPagesLead ==
    boot_pc = "video" \/ g_fb.mapped =>
        \A n \in MapStart .. MapEnd - 1 :
            n < NextPage => Walk(VirtOf(n)) = PageEntry(n, {"WRITABLE"})
VideoInv == VmmInv /\ FbInv /\ FbPagesLead

\* The steps of the page tables, as the rest of the kernel sees them.
LEMMA MapKeeps ==
    ASSUME VmmInv, NEW v \in Page, NEW p \in Int, NEW flags \in Flags,
           vmm_map_2m(v, p, flags)
    PROVE  /\ VmmInv'
           /\ PageMapped(v, PageEntry(p, flags)) \/ NothingMapped
           /\ MapSucceeds(v, p, flags) => PageMapped(v, PageEntry(p, flags))
<1>1. MapSucceeds(v, p, flags) => VmmInv' /\ PageMapped(v, PageEntry(p, flags))
  BY InPlaceKeeps, NewPdKeeps, NewPdptKeeps DEF MapSucceeds
<1>2. MapFails(v) \/ MapFailsHalfWay(v) => VmmInv' /\ NothingMapped
  BY FailKeeps
<1> QED
  BY <1>1, <1>2 DEF vmm_map_2m

LEMMA NothingKeeps ==
    ASSUME VmmInv, UNCHANGED vmmVars
    PROVE  VmmInv' /\ NothingMapped
<1>1. PmmInv' /\ frames' = frames /\ KernelFrames' = KernelFrames
  BY PmmStep DEF VmmInv, vmmVars, pmmVars, KernelFrames
<1> QED
  BY <1>1, WalkIs, WalkNext DEF VmmInv, NothingMapped

\* video_probe_multiboot finds a framebuffer of the boot loader's, or none.
LEMMA ProbeIs ==
    ASSUME NEW tags \in TagLists
    PROVE  LET fb == video_probe_multiboot(tags)
           IN  /\ fb \in FbRecord /\ ~ fb.mapped
               /\ fb.bpp = 32 => fb.pitch >= 4 * fb.width
<1> DEFINE read == {i \in DOMAIN tags : tags[i].is = "framebuffer"
                        /\ \A j \in 1 .. i : tags[j].is \notin {"end", "short"}}
           last == CHOOSE i \in read : \A j \in read : j <= i
           tag == tags[last]
           found == [present |-> TRUE, mapped |-> FALSE, addr |-> tag.addr, pitch |-> tag.pitch,
                     width |-> tag.width, height |-> tag.height, bpp |-> tag.bpp,
                     type |-> tag.type]
<1>1. video_probe_multiboot(tags) = IF read = {} THEN NoFb ELSE found
  BY DEF video_probe_multiboot
<1>2. CASE read = {}
  BY <1>1, <1>2 DEF NoFb, FbRecord
<1>3. CASE read # {}
  <2>1. tags \in Seq(Tag)
    BY VideoAssumption
  <2>2. Len(tags) \in Nat /\ DOMAIN tags = 1 .. Len(tags)
    BY <2>1
  <2>3. read \subseteq DOMAIN tags
    OBVIOUS
  <2>4. \A i \in read : tags[i] \in Tag /\ tags[i].is = "framebuffer"
    BY <2>1, <2>3
  <2> HIDE DEF read
  <2>5. last \in read
    <3> DEFINE T == {Len(tags) - i : i \in read}
    <3>1. T \subseteq Nat /\ T # {}
      BY <1>3, <2>2, <2>3
    <3>2. PICK y \in T : \A z \in T : y <= z
      BY <3>1, LeastExists
    <3>3. PICK i \in read : y = Len(tags) - i
      BY <3>2
    <3>4. \A j \in read : j <= i
      <4> TAKE j \in read
      <4>1. Len(tags) - j \in T /\ i \in Int /\ j \in Int
        BY <2>2, <2>3, <3>3
      <4>2. y <= Len(tags) - j
        BY <3>2, <4>1
      <4> QED
        BY <2>2, <3>3, <4>1, <4>2
    <3> QED
      BY <3>4
  <2> HIDE DEF last
  <2>6. tag \in [is : {"framebuffer"}, addr : Nat, pitch : Nat, width : Nat, height : Nat,
                 bpp : Nat, type : Nat]
    BY <2>4, <2>5 DEF Tag, OtherTag, EndTag, ShortTag
  <2>7. tag.bpp = 32 => tag.pitch >= 4 * tag.width
    BY <2>3, <2>4, <2>5, VideoAssumption
  <2> HIDE DEF tag
  <2>8. found \in FbRecord /\ ~ found.mapped /\ (found.bpp = 32 => found.pitch >= 4 * found.width)
    BY <2>6, <2>7 DEF FbRecord
  <2> QED
    BY <1>1, <1>3, <2>8
<1> QED
  BY <1>2, <1>3

LEMMA VideoInitially == VideoInit => VideoInv
<1> SUFFICES ASSUME VideoInit PROVE VideoInv
  OBVIOUS
<1>1. VmmInv
  BY BootIsTree DEF VideoInit
<1>2. PICK tags \in TagLists : g_fb = video_probe_multiboot(tags)
  BY DEF VideoInit
<1>3. g_fb \in FbRecord /\ ~ g_fb.mapped /\ (g_fb.bpp = 32 => g_fb.pitch >= 4 * g_fb.width)
  BY <1>2, ProbeIs
<1>4. boot_pc = "vmm_init" /\ mapped_pages = 0 /\ g_backend = "VGA"
  BY DEF VideoInit
<1> QED
  BY <1>1, <1>3, <1>4 DEF VideoInv, FbInv, FbPagesLead

\* What a step may do to the map of pages: nothing, or one page of those the
\* kernel maps.
MapMoves ==
    \/ NothingMapped
    \/ \E v \in Page, p \in PhysPages \cup PageNumbers, flags \in FlagSets \cup {{"WRITABLE"}} :
           PageMapped(v, PageEntry(p, flags))

LEMMA PageNumbersAre == PageNumbers \subseteq Nat /\ Entries \in PageNumbers
<1> DEFINE e == Entries
<1>1. e \in Nat /\ e > 1 /\ e \in Nat \ {0} /\ e * e \in Nat
  BY VmmAssumption
<1>2. e * 1 <= e * e
  BY <1>1, TimesMonotone
<1>3. e * e > 1 /\ e * e >= 2
  BY <1>1, <1>2
<1>4. e * 2 <= e * (e * e)
  BY <1>1, <1>3, TimesMonotone
<1>5. e * (e * e) = e * e * e /\ e * e * e \in Nat
  BY <1>1
<1>6. e < e * e * e
  BY <1>1, <1>4, <1>5
<1> QED
  BY <1>1, <1>5, <1>6 DEF PageNumbers

\* While nothing of g_fb but its mapped flag changes, its pages are the same.
LEMMA SamePages ==
    ASSUME g_fb' = g_fb \/ g_fb' = [g_fb EXCEPT !.mapped = TRUE], g_fb \in FbRecord
    PROVE  /\ MapStart' = MapStart /\ MapEnd' = MapEnd
           /\ Mappable' <=> Mappable
           /\ Usable' <=> Usable
           /\ FbPages' = FbPages
           /\ g_fb' \in FbRecord
           /\ g_fb'.bpp = g_fb.bpp /\ g_fb'.pitch = g_fb.pitch /\ g_fb'.width = g_fb.width
<1>1. /\ g_fb'.addr = g_fb.addr /\ g_fb'.pitch = g_fb.pitch /\ g_fb'.height = g_fb.height
      /\ g_fb'.width = g_fb.width /\ g_fb'.bpp = g_fb.bpp /\ g_fb'.type = g_fb.type
      /\ g_fb'.present = g_fb.present
      /\ g_fb' \in FbRecord
  BY DEF FbRecord
<1>2. MapStart' = MapStart /\ MapEnd' = MapEnd /\ SizeBytes' = SizeBytes
  BY <1>1 DEF MapStart, MapEnd, SizeBytes, align_up_2m
<1> QED
  BY <1>1, <1>2 DEF Mappable, Usable, FbPages, VirtOf

\* vmm_init maps the page behind the first ones (vmm.c:41-49).
LEMMA VmmInitKeeps ==
    ASSUME VideoInv, vmm_init
    PROVE  VideoInv' /\ MapMoves
<1>1. Entries \in Int /\ Entries \in Nat /\ {"WRITABLE"} \in Flags /\ VirtOf(Entries) \in Page
  BY VmmAssumption, VirtOfIs DEF Flags
<1>2. /\ VmmInv'
      /\ PageMapped(VirtOf(Entries), PageEntry(Entries, {"WRITABLE"})) \/ NothingMapped
  BY <1>1, MapKeeps DEF vmm_init, VideoInv
<1>3. MapMoves
  BY <1>1, <1>2, PageNumbersAre DEF MapMoves
<1>4. /\ boot_pc = "vmm_init" /\ boot_pc' = "video"
      /\ g_fb' = g_fb /\ mapped_pages' = mapped_pages /\ g_backend' = g_backend
  BY DEF vmm_init
<1>5. FbInv'
  BY <1>4, SamePages DEF VideoInv, FbInv, NextPage
<1>6. FbPagesLead'
  <2>1. mapped_pages = 0 /\ MapStart \in Nat /\ MapStart' = MapStart /\ MapEnd' = MapEnd
    BY <1>4, SamePages, MapEndInRange DEF VideoInv, FbInv
  <2>2. NextPage' = MapStart
    BY <1>4, <2>1 DEF NextPage
  <2> QED
    BY <2>1, <2>2 DEF FbPagesLead
<1> QED
  BY <1>2, <1>3, <1>5, <1>6 DEF VideoInv

\* The framebuffer is refused, or a page of it cannot be mapped: it stays
\* unmapped and the console stays where it is (video.c:75-94).
LEMMA UnmappedKeeps ==
    ASSUME VideoInv, FramebufferRefused \/ FramebufferFails
    PROVE  VideoInv' /\ NothingMapped
<1>1. /\ boot_pc = "video" /\ boot_pc' = "run"
      /\ g_fb' = g_fb /\ mapped_pages' = mapped_pages /\ g_backend' = g_backend
  BY DEF FramebufferRefused, FramebufferFails, Unmapped
<1>2. VmmInv' /\ NothingMapped
  <2>1. CASE FramebufferRefused
    BY <2>1, NothingKeeps DEF FramebufferRefused, VideoInv
  <2>2. CASE FramebufferFails
    <3>1. NextPage \in Nat
      BY MapEndInRange DEF VideoInv, FbInv, NextPage
    <3>2. VirtOf(NextPage) \in Page
      BY <3>1, VirtOfIs
    <3> QED
      BY <2>2, <3>2, FailKeeps DEF FramebufferFails, VideoInv
  <2> QED
    BY <2>1, <2>2
<1>3. ~ g_fb'.mapped /\ g_backend' = "VGA"
  BY <1>1 DEF VideoInv, FbInv
<1>4. FbInv'
  BY <1>1, <1>3, SamePages DEF VideoInv, FbInv
<1>5. FbPagesLead'
  BY <1>1, <1>3 DEF FbPagesLead
<1> QED
  BY <1>2, <1>4, <1>5 DEF VideoInv

\* One more page is mapped, and the ones before it stay: no two pages of the
\* framebuffer share their indices (video.c:89).
LEMMA PageKeeps ==
    ASSUME VideoInv, FramebufferPage
    PROVE  VideoInv' /\ MapMoves
<1> DEFINE k == NextPage
           total == Entries * Entries * Entries
<1>1. /\ MapStart \in Nat /\ MapEnd \in Nat /\ MapEnd < total /\ total \in Nat
      /\ mapped_pages \in Nat /\ k \in Nat /\ k = MapStart + mapped_pages /\ k < MapEnd
  BY MapEndInRange, VmmAssumption DEF VideoInv, FbInv, NextPage, FramebufferPage
<1>2. VirtOf(k) \in Page /\ k \in Int /\ {"WRITABLE"} \in Flags
  BY <1>1, VirtOfIs DEF Flags
<1>3. VmmInv' /\ PageMapped(VirtOf(k), PageEntry(k, {"WRITABLE"}))
  BY <1>2, MapKeeps DEF FramebufferPage, VideoInv, vmm_map_2m
<1>4. MapMoves
  <2>1. k \in PageNumbers
    BY <1>1 DEF PageNumbers
  <2> QED
    BY <1>2, <1>3, <2>1 DEF MapMoves
<1>5. /\ boot_pc = "video" /\ boot_pc' = boot_pc
      /\ g_fb' = g_fb /\ mapped_pages' = mapped_pages + 1 /\ g_backend' = g_backend
  BY DEF FramebufferPage
<1>6. /\ MapStart' = MapStart /\ MapEnd' = MapEnd /\ NextPage' = k + 1
  BY <1>1, <1>5, SamePages DEF VideoInv, FbInv, NextPage
<1>7. FbInv'
  BY <1>1, <1>5, SamePages DEF VideoInv, FbInv
<1> HIDE DEF k, total
<1>8. FbPagesLead'
  <2> SUFFICES ASSUME NEW n \in MapStart .. MapEnd - 1, n < k + 1
               PROVE  Walk(VirtOf(n))' = PageEntry(n, {"WRITABLE"})
    BY <1>6 DEF FbPagesLead, VirtOf
  <2>1. n \in Nat /\ n < total /\ k < total
    BY <1>1
  <2>2. VirtOf(n) \in Page
    BY <2>1, VirtOfIs
  <2>3. CASE n = k
    BY <1>2, <1>3, <2>3 DEF PageMapped
  <2>4. CASE n # k
    <3>1. VirtOf(n) # VirtOf(k)
      BY <1>1, <2>1, <2>4, VirtOfInjective DEF total
    <3>2. Walk(VirtOf(n)) = PageEntry(n, {"WRITABLE"})
      BY <1>1, <1>5, <2>1, <2>4 DEF VideoInv, FbPagesLead, k
    <3> QED
      BY <1>3, <2>2, <3>1, <3>2 DEF PageMapped
  <2> QED
    BY <2>3, <2>4
<1> QED
  BY <1>3, <1>4, <1>7, <1>8 DEF VideoInv

\* All pages are mapped: the console may switch (video.c:96, console.c:609-640).
LEMMA DoneKeeps ==
    ASSUME VideoInv, FramebufferDone
    PROVE  VideoInv' /\ NothingMapped
<1>1. /\ boot_pc = "video" /\ boot_pc' = "run" /\ Mappable /\ NextPage >= MapEnd
      /\ g_fb' = [g_fb EXCEPT !.mapped = TRUE] /\ mapped_pages' = mapped_pages
      /\ g_backend' = IF Usable THEN "FB" ELSE "VGA"
      /\ UNCHANGED vmmVars
  BY DEF FramebufferDone
<1>2. VmmInv' /\ NothingMapped
  BY <1>1, NothingKeeps DEF VideoInv
<1>3. /\ MapStart' = MapStart /\ MapEnd' = MapEnd /\ (Mappable' <=> Mappable)
      /\ (Usable' <=> Usable) /\ g_fb' \in FbRecord /\ g_fb'.mapped
      /\ g_fb'.bpp = g_fb.bpp /\ g_fb'.pitch = g_fb.pitch /\ g_fb'.width = g_fb.width
  <2>1. g_fb \in FbRecord
    BY DEF VideoInv, FbInv
  <2>2. g_fb'.mapped
    BY <1>1, <2>1 DEF FbRecord
  <2> QED
    BY <1>1, <2>1, <2>2, SamePages
<1>4. NextPage' = NextPage /\ MapStart \in Nat /\ MapEnd \in Nat /\ NextPage \in Nat
  BY <1>1, <1>3, MapEndInRange DEF NextPage, VideoInv, FbInv
<1>5. FbInv'
  BY <1>1, <1>3, <1>4 DEF VideoInv, FbInv
<1>6. FbPagesLead'
  <2> SUFFICES ASSUME NEW n \in MapStart .. MapEnd - 1
               PROVE  Walk(VirtOf(n))' = PageEntry(n, {"WRITABLE"})
    BY <1>3 DEF FbPagesLead, VirtOf
  <2>1. n \in Nat /\ n < NextPage
    BY <1>1, <1>4
  <2>2. VirtOf(n) \in Page
    BY <2>1, VirtOfIs
  <2> QED
    BY <1>1, <1>2, <2>1, <2>2 DEF NothingMapped, VideoInv, FbPagesLead
<1> QED
  BY <1>2, <1>5, <1>6 DEF VideoInv

\* After boot clients do what they like, and no other page is one of the
\* framebuffer's.
LEMMA RunningKeeps ==
    ASSUME VideoInv, Running
    PROVE  VideoInv' /\ MapMoves
<1>1. boot_pc = "run" /\ UNCHANGED videoVars
  BY DEF Running
<1>2. /\ boot_pc' = boot_pc /\ g_fb' = g_fb /\ mapped_pages' = mapped_pages
      /\ g_backend' = g_backend
  BY <1>1 DEF videoVars
<1>3. /\ MapStart' = MapStart /\ MapEnd' = MapEnd /\ NextPage' = NextPage
      /\ MapStart \in Nat /\ MapEnd \in Nat
  BY <1>2, SamePages, MapEndInRange DEF VideoInv, FbInv, NextPage
<1>4. FbInv'
  BY <1>2, <1>3, SamePages DEF VideoInv, FbInv
<1>5. /\ VmmInv' /\ MapMoves
      /\ g_fb.mapped => \A v \in FbPages : v \in Page => Walk(v)' = Walk(v)
  <2>1. CASE (PmmNext /\ UNCHANGED frames) \/ \E f \in owned : Scribble(f)
    BY <2>1, ClientsKeep DEF VideoInv, MapMoves, NothingMapped
  <2>2. ASSUME NEW v \in Page, NEW p \in PhysPages, NEW flags \in FlagSets,
               g_fb.mapped => v \notin FbPages, vmm_map_2m(v, p, flags)
        PROVE  /\ VmmInv' /\ MapMoves
               /\ g_fb.mapped => \A w \in FbPages : w \in Page => Walk(w)' = Walk(w)
    <3>1. p \in Int /\ flags \in Flags
      BY VmmAssumption DEF Flags
    <3>2. VmmInv' /\ (PageMapped(v, PageEntry(p, flags)) \/ NothingMapped)
      BY <2>2, <3>1, MapKeeps DEF VideoInv
    <3>3. MapMoves
      BY <3>2 DEF MapMoves
    <3> QED
      BY <2>2, <3>2, <3>3 DEF PageMapped, NothingMapped
  <2> QED
    BY <2>1, <2>2 DEF Running
<1>6. FbPagesLead'
  <2> SUFFICES ASSUME g_fb.mapped, NEW n \in MapStart .. MapEnd - 1, n < NextPage
               PROVE  Walk(VirtOf(n))' = PageEntry(n, {"WRITABLE"})
    BY <1>1, <1>2, <1>3 DEF FbPagesLead, VirtOf
  <2>1. VirtOf(n) \in Page /\ VirtOf(n) \in FbPages
    <3>1. n \in Nat
      BY <1>3
    <3> QED
      BY <3>1, VirtOfIs DEF FbPages
  <2> QED
    BY <1>5, <2>1 DEF VideoInv, FbPagesLead
<1> QED
  BY <1>4, <1>5, <1>6 DEF VideoInv

LEMMA VideoStep ==
    ASSUME VideoInv, [VideoNext]_bootVars
    PROVE  VideoInv' /\ MapMoves
<1>1. CASE vmm_init
  BY <1>1, VmmInitKeeps
<1>2. CASE FramebufferRefused \/ FramebufferFails
  BY <1>2, UnmappedKeeps DEF MapMoves
<1>3. CASE FramebufferPage
  BY <1>3, PageKeeps
<1>4. CASE FramebufferDone
  BY <1>4, DoneKeeps DEF MapMoves
<1>5. CASE Running
  BY <1>5, RunningKeeps
<1>6. CASE UNCHANGED bootVars
  <2>1. /\ UNCHANGED vmmVars /\ boot_pc' = boot_pc /\ g_fb' = g_fb
        /\ mapped_pages' = mapped_pages /\ g_backend' = g_backend
    BY <1>6 DEF bootVars, videoVars
  <2>2. VmmInv' /\ NothingMapped
    BY <2>1, NothingKeeps DEF VideoInv
  <2>3. /\ MapStart' = MapStart /\ MapEnd' = MapEnd /\ NextPage' = NextPage
        /\ MapStart \in Nat /\ MapEnd \in Nat
    BY <2>1, SamePages, MapEndInRange DEF VideoInv, FbInv, NextPage
  <2>4. FbInv'
    BY <2>1, <2>3, SamePages DEF VideoInv, FbInv
  <2>5. FbPagesLead'
    <3> SUFFICES ASSUME boot_pc = "video" \/ g_fb.mapped, NEW n \in MapStart .. MapEnd - 1,
                        n < NextPage
                 PROVE  Walk(VirtOf(n))' = PageEntry(n, {"WRITABLE"})
      BY <2>1, <2>3 DEF FbPagesLead, VirtOf
    <3>1. n \in Nat
      BY <2>3
    <3>2. VirtOf(n) \in Page
      BY <3>1, VirtOfIs
    <3> QED
      BY <2>2, <3>2 DEF VideoInv, FbPagesLead, NothingMapped
  <2> QED
    BY <2>2, <2>4, <2>5 DEF VideoInv, MapMoves
<1> QED
  BY <1>1, <1>2, <1>3, <1>4, <1>5, <1>6 DEF VideoNext

\* The inductive invariant of memory, tables and framebuffer together.
THEOREM MemoryInvariant == VideoSpec => []VideoInv
<1>1. VideoInv /\ [VideoNext]_bootVars => VideoInv'
  BY VideoStep
<1> QED
  BY <1>1, VideoInitially, PTL DEF VideoSpec

\* With the page tables and the framebuffer among its clients too, the
\* allocator counts exactly, hands out no frame twice, and nothing but usable
\* memory (pmm.c:16-69, 130-180).
THEOREM MemoryIsSound ==
    VideoSpec => [](UsedIsExact /\ OwnedIsUsed /\ OwnedIsUsable /\ OwnedIsMemory)
<1>1. VideoInv => UsedIsExact /\ OwnedIsUsed /\ OwnedIsUsable /\ OwnedIsMemory
  <2> SUFFICES ASSUME VideoInv
               PROVE  UsedIsExact /\ OwnedIsUsed /\ OwnedIsUsable /\ OwnedIsMemory
    OBVIOUS
  <2>1. PmmInv
    BY DEF VideoInv, VmmInv
  <2>2. UsedIsExact /\ OwnedIsUsed
    BY <2>1 DEF PmmInv, OwnedIsUsed
  <2> QED
    BY <2>1, <2>2, PmmInvIsUsable, PmmInvIsMemory
<1> QED
  BY <1>1, MemoryInvariant, PTL

\* The page tables always form a tree in frames of the kernel's own, also when
\* an allocation fails between two tables (vmm.c:20-39).
THEOREM VmmTablesFormTree == VideoSpec => []TablesFormTree
<1>1. VideoInv => TablesFormTree
  BY TreeIsTree DEF VideoInv
<1> QED
  BY <1>1, MemoryInvariant, PTL

\* Once the console draws into the framebuffer, every pixel of it is mapped to
\* itself and stays so (video.c:71-98, console.c:129-135).
THEOREM VideoPixelsAreMapped == VideoSpec => []PixelsAreMapped
<1>1. VideoInv => PixelsAreMapped
  <2> SUFFICES ASSUME VideoInv, g_backend = "FB",
                      NEW x \in 0 .. g_fb.width - 1, NEW y \in 0 .. g_fb.height - 1,
                      NEW a \in PixelBytes(x, y)
               PROVE  /\ a < g_fb.addr + SizeBytes
                      /\ Walk(VirtOf(a \div HUGE_PAGE_SIZE))
                             = PageEntry(a \div HUGE_PAGE_SIZE, {"WRITABLE"})
    BY DEF PixelsAreMapped
  <2>1. /\ g_fb \in FbRecord /\ g_fb.mapped /\ Usable /\ Mappable /\ MapEnd <= NextPage
        /\ g_fb.pitch >= 4 * g_fb.width
    BY DEF VideoInv, FbInv, Usable
  <2>2. a \in Nat /\ g_fb.addr <= a /\ a < g_fb.addr + SizeBytes
    BY <2>1, PixelInside
  <2> DEFINE n == a \div HUGE_PAGE_SIZE
  <2>3. n \in MapStart .. MapEnd - 1
    BY <2>1, <2>2, PagesCover
  <2> HIDE DEF n
  <2>4. n < NextPage
    <3>1. MapStart \in Nat /\ MapEnd \in Nat /\ NextPage \in Nat
      BY <2>1, MapEndInRange DEF VideoInv, FbInv, NextPage
    <3> QED
      BY <2>1, <2>3, <3>1
  <2>5. Walk(VirtOf(n)) = PageEntry(n, {"WRITABLE"})
    BY <2>1, <2>3, <2>4 DEF VideoInv, FbPagesLead
  <2> QED
    BY <2>2, <2>5 DEF n
<1> QED
  BY <1>1, MemoryInvariant, PTL

\* The map of pages that the tables stand for, and how it moves.
PageMap == [v \in Page |-> Walk(v)]

LEMMA PageMapMoves ==
    /\ \A v \in Page : \A e : PageMapped(v, e) => PageMap' = [PageMap EXCEPT ![v] = e]
    /\ NothingMapped => PageMap' = PageMap
<1>1. PageMap' = [w \in Page |-> Walk(w)']
  BY DEF PageMap
<1>2. ASSUME NEW v \in Page, NEW e, PageMapped(v, e)
      PROVE  PageMap' = [PageMap EXCEPT ![v] = e]
  BY <1>1, <1>2 DEF PageMapped, PageMap
<1>3. NothingMapped => PageMap' = PageMap
  BY <1>1 DEF NothingMapped, PageMap
<1> QED
  BY <1>2, <1>3

\* Initially the map is the one of the boot code, and every step changes one
\* page of it or nothing.
LEMMA SpaceInitially == VideoInit => Space!Init
<1> SUFFICES ASSUME VideoInit PROVE Space!Init
  OBVIOUS
<1>1. \A v \in Page : Walk(v) = IF v[1] = 0 /\ v[2] = 0
                                THEN PageEntry(v[3], {"WRITABLE"}) ELSE Absent
  BY BootIsTree DEF VideoInit
<1> QED
  BY <1>1 DEF Space!Init

LEMMA SpaceStep ==
    ASSUME VideoInv, [VideoNext]_bootVars
    PROVE  [Space!Next]_PageMap
<1>1. MapMoves
  BY VideoStep
<1>2. CASE NothingMapped
  BY <1>2, PageMapMoves
<1>3. ASSUME NEW v \in Page, NEW p \in PhysPages \cup PageNumbers,
             NEW flags \in FlagSets \cup {{"WRITABLE"}}, PageMapped(v, PageEntry(p, flags))
      PROVE  Space!Next
  <2>1. PageMap' = [PageMap EXCEPT ![v] = PageEntry(p, flags)]
    BY <1>3, PageMapMoves
  <2>2. PageMap'[v] = PageEntry(p, flags)
    BY <2>1 DEF PageMap
  <2>3. PageMap'[v] \in PageEntries
    BY <2>2 DEF PageEntries
  <2>4. Space!Map(v, PageMap'[v])
    BY <2>1, <2>2 DEF Space!Map, PageMap
  <2> QED
    BY <2>3, <2>4 DEF Space!Next, PageMap
<1> QED
  BY <1>1, <1>2, <1>3 DEF MapMoves

LEMMA SpaceMaps ==
    ASSUME VideoInv, NEW v \in Page, NEW p \in PhysPages, NEW flags \in FlagSets,
           MapSucceeds(v, p, flags)
    PROVE  Space!Map(v, PageEntry(p, flags))
<1>1. p \in Int /\ flags \in Flags
  BY VmmAssumption DEF Flags
<1>2. PageMapped(v, PageEntry(p, flags))
  BY <1>1, MapKeeps DEF VideoInv, vmm_map_2m
<1>3. PageMap' = [PageMap EXCEPT ![v] = PageEntry(p, flags)]
  BY <1>2, PageMapMoves
<1> QED
  BY <1>3 DEF Space!Map, PageMap

\* The three levels of tables implement a map of pages that changes one page
\* at a time: a call that succeeds maps its page and no other, one that fails
\* none, and nothing else maps anything (vmm.c:41-75).
THEOREM VmmImplementsAddressSpace == VideoSpec => AddressSpaceImplemented
<1>1. VideoInit => Space!Init
  BY SpaceInitially
<1>2. VideoInv /\ [VideoNext]_bootVars => [Space!Next]_([v \in Page |-> Walk(v)])
  BY SpaceStep DEF PageMap
<1>3. VideoInv => \A v \in Page, p \in PhysPages, flags \in FlagSets :
                     MapSucceeds(v, p, flags) => Space!Map(v, PageEntry(p, flags))
  BY SpaceMaps
<1>4. VideoInv /\ [VideoNext]_bootVars =>
          [\A v \in Page, p \in PhysPages, flags \in FlagSets :
              MapSucceeds(v, p, flags) => Space!Map(v, PageEntry(p, flags))]_vmmVars
  BY <1>3
<1> QED
  BY <1>1, <1>2, <1>4, MemoryInvariant, PTL DEF VideoSpec, AddressSpaceImplemented, Space!Spec
=============================================================================
