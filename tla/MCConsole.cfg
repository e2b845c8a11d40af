SPECIFICATION Spec
CONSTANTS
    VGA_WIDTH = 2
    VGA_HEIGHT = 2
    FbWidth = 29
    FbHeight = 19
    GLYPH_WIDTH = 8
    GLYPH_HEIGHT = 16
    FB_MAX_COLS = 6
    FB_MAX_ROWS = 4
    ANSI_MAX_PARAMS = 2
    Shape <- MCShape
    Byte <- MCByte
    MaxParam = 2
    MaxShown = 4
INVARIANTS
    CursorInside
    ScreenShowsText
