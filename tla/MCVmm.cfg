SPECIFICATION VideoSpec
CONSTANTS
    FRAME_SIZE = 2
    PMM_MAX_FRAMES = 10
    LowMemory = 4
    MinimumEnd = 6
    KernelStart = 4
    KernelEnd = 9
    MemoryMaps <- MCMaps
    Entries = 2
    IdentityFrames = 9
    Pml4 = 2
    BootPdpt = 3
    BootPd = 4
    PhysPages = {1}
    FlagSets = {{}}
    HUGE_PAGE_SIZE = 8
    FRAMEBUFFER_MAP_MAX_BYTES = 24
    GLYPH_WIDTH = 1
    GLYPH_HEIGHT = 1
    TagLists <- MCTagLists
INVARIANTS
    UsedIsExact
    OwnedIsUsed
    OwnedIsUsable
    OwnedIsMemory
    TablesFormTree
    PixelsAreMapped
PROPERTY
    AddressSpaceImplemented
