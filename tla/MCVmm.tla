------------------------------- MODULE MCVmm -------------------------------
(* Frames of two bytes and a kernel that ends inside one; maps with gaps,   *)
(* unaligned ends, memory past the maximum, and none.  Tables of two        *)
(* entries: eight pages under seven tables, and few frames, one of them     *)
(* above the identity map.  Pages of eight bytes, two pixels; framebuffers  *)
(* that start and end inside a page, under tables that are there and under  *)
(* none, of the wrong kind, too large and past the end of all addresses.    *)
EXTENDS Video

Region(a, l) == [addr |-> a, len |-> l]
MCMaps == {
    {Region(0, 3), Region(4, 18)},
    {Region(0, 3), Region(10, 4), Region(16, 2)},
    {Region(0, 10), Region(11, 3)},
    {} }

MCTagLists == {
    <<OtherTag, FbTag(0, 32, 8, 1, 32, 1), EndTag, FbTag(8, 8, 2, 1, 32, 1)>>,
    <<FbTag(8, 8, 2, 1, 32, 1), FbTag(36, 8, 2, 2, 32, 1), ShortTag, FbTag(0, 8, 2, 1, 32, 1)>>,
    <<FbTag(20, 6, 2, 3, 24, 1)>>,
    <<FbTag(8, 8, 2, 1, 32, 0)>>,
    <<FbTag(60, 8, 2, 1, 32, 1)>> }
=============================================================================
