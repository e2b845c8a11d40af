-------------------------------- MODULE Vmm --------------------------------
(***************************************************************************)
(* The virtual memory manager (vmm.c): page tables of three levels for     *)
(* pages of 2 MiB, in frames from pmm_alloc_frame_low, next to clients     *)
(* that hold frames of their own and write to them.  A page is the triple  *)
(* of its indices into the three levels.                                   *)
(***************************************************************************)
EXTENDS Pmm

CONSTANTS
    Entries,                    \* entries of a table (512)
    IdentityFrames,             \* IDENTITY_WINDOW_LIMIT, in frames
    Pml4, BootPdpt, BootPd,     \* the frames of the boot code's tables
    PhysPages,                  \* the physical pages that are mapped
    FlagSets                    \* and the flags they are mapped with

Index == 0 .. Entries - 1
Page == Index \X Index \X Index
PageNumbers == 0 .. Entries * Entries * Entries - 1

ASSUME VmmAssumption ==
    /\ Entries \in Nat /\ Entries > 1
    /\ IdentityFrames \in Nat
    /\ {Pml4, BootPdpt, BootPd} \subseteq Span(KernelStart, KernelEnd - KernelStart)
    /\ {Pml4, BootPdpt, BootPd} \subseteq 0 .. IdentityFrames - 1
    /\ Pml4 # BootPdpt /\ Pml4 # BootPd /\ BootPdpt # BootPd
    /\ PhysPages \subseteq Nat

VARIABLE frames     \* the memory: every frame, read as a table

vmmVars == <<pmmVars, frames>>

\* A table entry; to is a frame, or in the lowest level a physical page.
Absent == [to |-> -1, flags |-> {}]
Present(e) == e.to # -1
TableEntry(f) == [to |-> f, flags |-> {"WRITABLE"}]
PageEntry(p, flags) == [to |-> p, flags |-> flags]
Empty == [i \in Index |-> Absent]

\* boot.S: the first pages are mapped to themselves.
BootTables ==
    [f \in AllFrames |->
        CASE f = Pml4     -> [Empty EXCEPT ![0] = TableEntry(BootPdpt)]
          [] f = BootPdpt -> [Empty EXCEPT ![0] = TableEntry(BootPd)]
          [] f = BootPd   -> [i \in Index |-> PageEntry(i, {"WRITABLE"})]
          [] OTHER        -> Empty]

VmmInit == PmmInit /\ frames = BootTables
-----------------------------------------------------------------------------
LowFree == FreeBelow(IdentityFrames)

Pdpt(v) == frames[Pml4][v[1]]
Pd(v) == frames[Pdpt(v).to][v[2]]

\* Mutation: a new table keeps what its frame held.
NewTableDirty(mem, parent, i, f) == [mem EXCEPT ![parent][i] = TableEntry(f)]

\* ensure_table, when it adds a table in frame f: clear it and link it.
NewTable(mem, parent, i, f) ==
    [mem EXCEPT ![f] = Empty, ![parent][i] = TableEntry(f)]

\* Mutation: the page is entered next to its place.
SetPageOff(mem, pd, v, p, flags) ==
    [mem EXCEPT ![pd][(v[3] + 1) % Entries] = PageEntry(p, flags)]

SetPage(mem, pd, v, p, flags) == [mem EXCEPT ![pd][v[3]] = PageEntry(p, flags)]

\* vmm_map_2m with both tables in place, with a page directory to add, or
\* with two tables to add.
MapInPlace(v, p, flags) ==
    /\ Present(Pdpt(v)) /\ Present(Pd(v))
    /\ frames' = SetPage(frames, Pd(v).to, v, p, flags)
    /\ UNCHANGED pmmVars

MapNewPd(v, p, flags) ==
    /\ Present(Pdpt(v)) /\ ~ Present(Pd(v))
    /\ LowFree # {}
    /\ LET f == First(LowFree)
       IN  /\ frames' = SetPage(NewTable(frames, Pdpt(v).to, v[2], f), f, v, p, flags)
           /\ TakeFrames({f})
    /\ UNCHANGED owned

MapNewPdpt(v, p, flags) ==
    /\ ~ Present(Pdpt(v))
    /\ LowFree # {}
    /\ LET f == First(LowFree)
           g == First(LowFree \ {f})
       IN  /\ LowFree \ {f} # {}
           /\ frames' = SetPage(NewTable(NewTable(frames, Pml4, v[1], f), f, v[2], g),
                                g, v, p, flags)
           /\ TakeFrames({f, g})
    /\ UNCHANGED owned

\* It returns false without a frame, and with a single one when it needs two:
\* the first table then stays.
MapFails(v) ==
    /\ ~ (Present(Pdpt(v)) /\ Present(Pd(v)))
    /\ LowFree = {}
    /\ UNCHANGED vmmVars

MapFailsHalfWay(v) ==
    /\ ~ Present(Pdpt(v))
    /\ LowFree # {} /\ LowFree \ {First(LowFree)} = {}
    /\ frames' = NewTable(frames, Pml4, v[1], First(LowFree))
    /\ TakeFrames(LowFree)
    /\ UNCHANGED owned

MapSucceeds(v, p, flags) ==
    MapInPlace(v, p, flags) \/ MapNewPd(v, p, flags) \/ MapNewPdpt(v, p, flags)

vmm_map_2m(v, p, flags) ==
    MapSucceeds(v, p, flags) \/ MapFails(v) \/ MapFailsHalfWay(v)

\* The clients: they hold frames, and fill the ones they hold with anything.
Scribble(f) ==
    /\ f \in owned
    /\ \E e \in {Absent, PageEntry(0, {})} : frames' = [frames EXCEPT ![f] = [i \in Index |-> e]]
    /\ UNCHANGED pmmVars
-----------------------------------------------------------------------------
\* What the processor finds for a page.
Walk(v) ==
    IF Present(Pdpt(v)) /\ Present(Pd(v)) THEN frames[Pd(v).to][v[3]] ELSE Absent

\* The frames of the tables that can be reached, by the entry that leads there.
Level2 == {i \in Index : Present(frames[Pml4][i])}
Level3 == {ij \in Index \X Index : ij[1] \in Level2 /\ Present(frames[frames[Pml4][ij[1]].to][ij[2]])}
PdptFrame(i) == frames[Pml4][i].to
PdFrame(ij) == frames[PdptFrame(ij[1])][ij[2]].to
TableFrames == {Pml4} \cup {PdptFrame(i) : i \in Level2} \cup {PdFrame(ij) : ij \in Level3}

\* The page tables form a tree, in frames that are marked used, that no client
\* holds and that the identity map reaches: no table is linked twice, so that
\* mapping a page changes no other (vmm.c:20-34, pmm.c:147-161).
TablesFormTree ==
    /\ Cardinality(TableFrames) = 1 + Cardinality(Level2) + Cardinality(Level3)
    /\ TableFrames \subseteq frame_bitmap \cap 0 .. IdentityFrames - 1
    /\ TableFrames \cap owned = {}

\* The entries of the pages that the boot code and the kernel map.
PageEntries == {PageEntry(p, flags) : p \in PhysPages \cup PageNumbers,
                                      flags \in FlagSets \cup {{"WRITABLE"}}}

\* The tables implement a map of pages, whatever clients do with their frames
\* and wherever an allocation fails; and a call that succeeds has mapped the
\* page it was asked for, and that one only (vmm.c:41-75).
Space == INSTANCE AddressSpace WITH
    map <- [v \in Page |-> Walk(v)],
    Entry <- PageEntries,
    Boot <- [v \in Page |->
                IF v[1] = 0 /\ v[2] = 0 THEN PageEntry(v[3], {"WRITABLE"}) ELSE Absent]
AddressSpaceImplemented ==
    /\ Space!Spec
    /\ [][\A v \in Page, p \in PhysPages, flags \in FlagSets :
             MapSucceeds(v, p, flags) => Space!Map(v, PageEntry(p, flags))]_vmmVars
=============================================================================
