------------------------------- MODULE Video -------------------------------
(***************************************************************************)
(* The framebuffer (video.c) and the boot order around it (kernel.c): the  *)
(* boot loader's tags are probed, vmm_init maps a page, the framebuffer is *)
(* mapped page by page, and the console switches to it when it suits.      *)
(* After that the kernel allocates and maps other pages as it likes.       *)
(***************************************************************************)
EXTENDS Vmm, Sequences

CONSTANTS
    HUGE_PAGE_SIZE,
    FRAMEBUFFER_MAP_MAX_BYTES,
    GLYPH_WIDTH, GLYPH_HEIGHT,
    TagLists                    \* what the boot loader may hand over

VARIABLES
    boot_pc,        \* "vmm_init", "video" or "run"
    g_fb,
    mapped_pages,   \* how many pages the loop of video_map_framebuffer did
    g_backend

videoVars == <<boot_pc, g_fb, mapped_pages, g_backend>>
bootVars == <<vmmVars, videoVars>>

FbTag(addr, pitch, width, height, bpp, type) ==
    [is |-> "framebuffer", addr |-> addr, pitch |-> pitch, width |-> width,
     height |-> height, bpp |-> bpp, type |-> type]
OtherTag == [is |-> "other"]
EndTag == [is |-> "end"]
ShortTag == [is |-> "short"]        \* too small for what it is

\* Addresses wrap; the pages of the map are all there are.
AddressEnd == (Entries * Entries * Entries) * HUGE_PAGE_SIZE

Tag ==
    [is : {"framebuffer"}, addr : Nat, pitch : Nat, width : Nat, height : Nat,
     bpp : Nat, type : Nat]
        \cup {OtherTag, EndTag, ShortTag}

\* What the processor and the boot loader promise: a mapping of the largest
\* size does not wrap on to itself, and a line of pixels fits its pitch.
ASSUME VideoAssumption ==
    /\ HUGE_PAGE_SIZE \in Nat \ {0}
    /\ FRAMEBUFFER_MAP_MAX_BYTES \in Nat
    /\ FRAMEBUFFER_MAP_MAX_BYTES + HUGE_PAGE_SIZE <= AddressEnd
    /\ TagLists \subseteq Seq(Tag)
    /\ \A tags \in TagLists : \A i \in DOMAIN tags :
           tags[i].is = "framebuffer" /\ tags[i].bpp = 32 => tags[i].pitch >= 4 * tags[i].width

NoFb == [present |-> FALSE, mapped |-> FALSE, addr |-> 0, pitch |-> 0, width |-> 0,
         height |-> 0, bpp |-> 0, type |-> 0]

\* The last framebuffer before the end, or before a tag that is too small.
video_probe_multiboot(tags) ==
    LET read == {i \in DOMAIN tags : tags[i].is = "framebuffer"
                     /\ \A j \in 1 .. i : tags[j].is \notin {"end", "short"}}
        tag == tags[CHOOSE i \in read : \A j \in read : j <= i]
    IN  IF read = {} THEN NoFb
        ELSE [present |-> TRUE, mapped |-> FALSE, addr |-> tag.addr, pitch |-> tag.pitch,
              width |-> tag.width, height |-> tag.height, bpp |-> tag.bpp, type |-> tag.type]

VideoInit ==
    /\ VmmInit
    /\ \E tags \in TagLists : g_fb = video_probe_multiboot(tags)
    /\ boot_pc = "vmm_init" /\ mapped_pages = 0 /\ g_backend = "VGA"
-----------------------------------------------------------------------------
\* The page that is mapped to the physical page of the same number.
VirtOf(n) == <<(n \div (Entries * Entries)) % Entries, (n \div Entries) % Entries, n % Entries>>

\* The page behind the ones the boot code maps; the result is not looked at.
vmm_init ==
    /\ boot_pc = "vmm_init"
    /\ vmm_map_2m(VirtOf(Entries), Entries, {"WRITABLE"})
    /\ boot_pc' = "video"
    /\ UNCHANGED <<g_fb, mapped_pages, g_backend>>

SizeBytes == g_fb.pitch * g_fb.height

\* Mutation: the end is rounded down.
AlignUpDown(a) == (a % AddressEnd) \div HUGE_PAGE_SIZE

\* The page after the last, with the end rounded up.
align_up_2m(a) == ((a + HUGE_PAGE_SIZE - 1) % AddressEnd) \div HUGE_PAGE_SIZE

MapStart == g_fb.addr \div HUGE_PAGE_SIZE
MapEnd == align_up_2m((g_fb.addr + SizeBytes) % AddressEnd)

Mappable ==
    /\ g_fb.present /\ SizeBytes \in 1 .. FRAMEBUFFER_MAP_MAX_BYTES
    /\ MapEnd > MapStart

Unmapped ==
    /\ boot_pc' = "run"
    /\ UNCHANGED <<g_fb, mapped_pages, g_backend>>

\* video_map_framebuffer refuses; maps one more page; fails at one.
FramebufferRefused ==
    /\ boot_pc = "video" /\ ~ Mappable
    /\ Unmapped /\ UNCHANGED vmmVars

NextPage == MapStart + mapped_pages

FramebufferPage ==
    /\ boot_pc = "video" /\ Mappable /\ NextPage < MapEnd
    /\ MapSucceeds(VirtOf(NextPage), NextPage, {"WRITABLE"})
    /\ mapped_pages' = mapped_pages + 1
    /\ UNCHANGED <<boot_pc, g_fb, g_backend>>

FramebufferFails ==
    /\ boot_pc = "video" /\ Mappable /\ NextPage < MapEnd
    /\ MapFails(VirtOf(NextPage)) \/ MapFailsHalfWay(VirtOf(NextPage))
    /\ Unmapped

VIDEO_FB_TYPE_RGB == 1

\* What console_enable_framebuffer asks for.
Usable ==
    /\ g_fb.type = VIDEO_FB_TYPE_RGB /\ g_fb.bpp = 32
    /\ g_fb.width >= GLYPH_WIDTH /\ g_fb.height >= GLYPH_HEIGHT
    /\ g_fb.pitch >= 4 /\ g_fb.pitch % 4 = 0

FramebufferDone ==
    /\ boot_pc = "video" /\ Mappable /\ NextPage >= MapEnd
    /\ g_fb' = [g_fb EXCEPT !.mapped = TRUE]
    /\ g_backend' = IF Usable THEN "FB" ELSE "VGA"
    /\ boot_pc' = "run"
    /\ UNCHANGED <<mapped_pages, vmmVars>>

\* The kernel after boot; nothing maps a page of the framebuffer again.
FbPages == {VirtOf(n) : n \in MapStart .. MapEnd - 1}

Running ==
    /\ boot_pc = "run"
    /\ \/ PmmNext /\ UNCHANGED frames
       \/ \E v \in Page, p \in PhysPages, flags \in FlagSets :
              /\ g_fb.mapped => v \notin FbPages
              /\ vmm_map_2m(v, p, flags)
       \/ \E f \in owned : Scribble(f)
    /\ UNCHANGED videoVars

VideoNext ==
    \/ vmm_init
    \/ FramebufferRefused \/ FramebufferPage \/ FramebufferFails \/ FramebufferDone
    \/ Running

VideoSpec == VideoInit /\ [][VideoNext]_bootVars
-----------------------------------------------------------------------------
\* fb_plot: the bytes that the pixel in column x and row y is written to.
PixelBytes(x, y) ==
    LET at == g_fb.addr + 4 * (y * (g_fb.pitch \div 4) + x) IN at .. at + 3

\* Once the console draws into the framebuffer, every pixel fb_plot lets
\* through is in a page that leads to itself and is writable, and before the
\* framebuffer's end; from then on, whatever is allocated, freed, scribbled
\* on and mapped elsewhere, and wherever an allocation failed while it was
\* mapped (video.c:71-98, console.c:129-135, 609-640).
PixelsAreMapped ==
    g_backend = "FB" =>
        \A x \in 0 .. g_fb.width - 1, y \in 0 .. g_fb.height - 1 :
            \A a \in PixelBytes(x, y) :
                /\ a < g_fb.addr + SizeBytes
                /\ Walk(VirtOf(a \div HUGE_PAGE_SIZE))
                       = PageEntry(a \div HUGE_PAGE_SIZE, {"WRITABLE"})
=============================================================================
