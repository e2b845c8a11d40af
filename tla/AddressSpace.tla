---------------------------- MODULE AddressSpace ----------------------------
(***************************************************************************)
(* What the virtual memory manager promises: a map from pages to what they *)
(* translate to, changed one page at a time.  A call that fails, and all   *)
(* that the rest of the kernel does with memory, leaves it alone.          *)
(***************************************************************************)
CONSTANTS Page, Entry, Boot     \* Boot is the map the boot code leaves

VARIABLE map

Init == map = Boot
Map(page, entry) == map' = [map EXCEPT ![page] = entry]
Next == \E page \in Page : map'[page] \in Entry /\ Map(page, map'[page])
Spec == Init /\ [][Next]_map
=============================================================================
