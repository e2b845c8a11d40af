-------------------------------- MODULE Pmm --------------------------------
(***************************************************************************)
(* The physical memory manager (pmm.c): a bitmap of frames and a counter   *)
(* of the used ones, set up from the boot loader's memory map.  Addresses  *)
(* are numbers; the bitmap is the set of the frames whose bit is 1.        *)
(***************************************************************************)
EXTENDS Integers, FiniteSets

CONSTANTS
    FRAME_SIZE,
    PMM_MAX_FRAMES,
    LowMemory,          \* 1 MiB: what pmm_init reserves at the bottom
    MinimumEnd,         \* 16 MiB: memory ends here at the earliest
    KernelStart,
    KernelEnd,
    MemoryMaps          \* the possible maps: sets of available [addr, len]

PMM_MAX_MEMORY == PMM_MAX_FRAMES * FRAME_SIZE

ASSUME PmmAssumption ==
    /\ FRAME_SIZE \in Nat \ {0}
    /\ PMM_MAX_FRAMES \in Nat \ {0}
    /\ LowMemory \in Nat \ {0} /\ MinimumEnd \in Nat
    /\ KernelStart \in Nat /\ KernelEnd \in Nat /\ KernelStart < KernelEnd
    /\ \A map \in MemoryMaps : \A r \in map : r.addr \in Nat /\ r.len \in Nat

VARIABLES
    mmap,           \* the available regions, fixed at boot
    frame_bitmap,
    total_frames,
    used_frames,
    owned           \* the frames that clients hold

pmmVars == <<mmap, frame_bitmap, total_frames, used_frames, owned>>

AllFrames == 0 .. PMM_MAX_FRAMES - 1

PmmTypeOK ==
    /\ frame_bitmap \subseteq AllFrames
    /\ total_frames \in 1 .. PMM_MAX_FRAMES
    /\ used_frames \in 0 .. total_frames
    /\ owned \subseteq AllFrames
-----------------------------------------------------------------------------
\* Mutation: one frame too many at the end.
SpanLong(addr, len) ==
    IF len = 0 \/ addr >= PMM_MAX_MEMORY
    THEN {}
    ELSE LET end == IF addr + len > PMM_MAX_MEMORY THEN PMM_MAX_MEMORY ELSE addr + len
         IN  addr \div FRAME_SIZE .. (end + FRAME_SIZE - 1) \div FRAME_SIZE

\* The frames mark_region marks: it rounds both ends outwards.
Span(addr, len) ==
    IF len = 0 \/ addr >= PMM_MAX_MEMORY
    THEN {}
    ELSE LET end == IF addr + len > PMM_MAX_MEMORY THEN PMM_MAX_MEMORY ELSE addr + len
         IN  addr \div FRAME_SIZE .. (end + FRAME_SIZE - 1) \div FRAME_SIZE - 1

\* Where memory ends: the first loop over the map, and the cap.
Ends(map) == {MinimumEnd} \cup {r.addr + r.len : r \in map}

\* A map is a list, so one of its ends is the highest.
ASSUME MapAssumption ==
    \A map \in MemoryMaps : \E e \in Ends(map) : \A o \in Ends(map) : o <= e

HighestEnd(map) == CHOOSE e \in Ends(map) : \A o \in Ends(map) : o <= e

TotalFrames(map) ==
    LET end == IF HighestEnd(map) > PMM_MAX_MEMORY THEN PMM_MAX_MEMORY ELSE HighestEnd(map)
    IN  IF end \div FRAME_SIZE = 0 THEN 1 ELSE end \div FRAME_SIZE

\* Mutation: the first megabyte is not reserved.
ReservedNoLow == Span(KernelStart, KernelEnd - KernelStart)

\* What pmm_init takes back after the available regions are marked.
Reserved == Span(0, LowMemory) \cup Span(KernelStart, KernelEnd - KernelStart)

\* pmm_init: all frames used, the available ones cleared, some set again.
\* bitmap_clear and bitmap_set count only bits that change, below the end.
PmmInit ==
    /\ mmap \in MemoryMaps
    /\ total_frames = TotalFrames(mmap)
    /\ LET cleared == {f \in 0 .. total_frames - 1 :
                           \E r \in mmap : f \in Span(r.addr, r.len)}
       IN  /\ frame_bitmap = (AllFrames \ cleared) \cup (Reserved \cap cleared)
           /\ used_frames = total_frames - Cardinality(cleared)
                                + Cardinality(Reserved \cap cleared)
    /\ owned = {}
-----------------------------------------------------------------------------
\* The frames the search loop of an allocation up to frame n would accept.
FreeBelow(n) ==
    {f \in 0 .. (IF n > total_frames THEN total_frames ELSE n) - 1 : f \notin frame_bitmap}
First(frames) == CHOOSE f \in frames : \A o \in frames : f <= o

\* Mutations: the counter or the bit is not set.
TakeFramesUncounted(frames) ==
    /\ frame_bitmap' = frame_bitmap \cup frames
    /\ UNCHANGED <<mmap, total_frames, used_frames>>

TakeFramesUnmarked(frames) == UNCHANGED <<mmap, total_frames, frame_bitmap, used_frames>>

\* bitmap_set of frames that were found free.
TakeFrames(frames) ==
    /\ frame_bitmap' = frame_bitmap \cup frames
    /\ used_frames' = used_frames + Cardinality(frames)
    /\ UNCHANGED <<mmap, total_frames>>

\* pmm_alloc_frame, pmm_alloc_frame_low for frames below n, by a client.
AllocBelow(n) ==
    /\ FreeBelow(n) # {}
    /\ TakeFrames({First(FreeBelow(n))})
    /\ owned' = owned \cup {First(FreeBelow(n))}

pmm_alloc_frame == AllocBelow(total_frames)

\* Address 0 is returned: there is no frame.
AllocFails(n) == FreeBelow(n) = {} /\ UNCHANGED pmmVars

\* pmm_free_frame: the client gives back a frame it holds.
pmm_free_frame(f) ==
    /\ f \in owned
    /\ owned' = owned \ {f}
    /\ IF f < total_frames /\ f \in frame_bitmap
       THEN /\ frame_bitmap' = frame_bitmap \ {f}
            /\ used_frames' = IF used_frames > 0 THEN used_frames - 1 ELSE used_frames
       ELSE UNCHANGED <<frame_bitmap, used_frames>>
    /\ UNCHANGED <<mmap, total_frames>>

PmmNext ==
    \/ pmm_alloc_frame
    \/ \E n \in 0 .. PMM_MAX_FRAMES : AllocBelow(n) \/ AllocFails(n)
    \/ \E f \in owned : pmm_free_frame(f)

PmmSpec == PmmInit /\ [][PmmNext]_pmmVars
-----------------------------------------------------------------------------
\* The used counter, which meminfo subtracts from the total, is the number of
\* bits that are 1 below the end of memory (pmm.c:16-40, 165-180).
UsedIsExact == used_frames = Cardinality(frame_bitmap \cap 0 .. total_frames - 1)

\* A frame that a client holds is not free: it cannot be handed out again.
OwnedIsUsed == owned \subseteq frame_bitmap

\* A frame that was handed out lies outside the first megabyte and the kernel,
\* so that an allocation that succeeds never returns 0 (pmm.c:130-134).
OwnedIsUsable ==
    \A f \in owned :
        /\ f < total_frames
        /\ f * FRAME_SIZE >= LowMemory
        /\ (f + 1) * FRAME_SIZE <= KernelStart \/ f * FRAME_SIZE >= KernelEnd

\* ... and, when the map's regions are frame aligned above the first megabyte,
\* all of it is memory the map calls available (pmm.c:58-59 rounds outwards).
Aligned ==
    \A r \in mmap : r.addr + r.len > LowMemory =>
        r.addr % FRAME_SIZE = 0 /\ (r.addr + r.len) % FRAME_SIZE = 0
OwnedIsMemory ==
    Aligned => \A f \in owned : \E r \in mmap :
        r.addr <= f * FRAME_SIZE /\ (f + 1) * FRAME_SIZE <= r.addr + r.len

=============================================================================
