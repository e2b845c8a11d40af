SPECIFICATION InputSpec
CONSTANTS
    PTY_MAX = 2
    PTY_QUEUE_SIZE = 4
    SESSION_MAX = 1
    TTY_READ_QUEUE_SIZE = 4
    TTY_LINE_BUFFER_SIZE = 4
    KBD_BYTE_QUEUE_SIZE = 5
    BootSids <- AnySid
    SHELL_LINE_MAX = 3
    SHELL_CHUNK = 2
    HISTORY_SLOTS = 2
    SLOT_LEN = 2
    SelftestCommand <- MCSelftestCommand
    SelftestWrite = 5
    SelftestLine = 6
    Byte = {}
    MaxRx = 0
    Stroke <- SelftestStrokes
    MaxStrokes = 6
INVARIANTS
    SelftestsPass
    NothingStranded
    TypedIsExecuted
    HistoryHoldsLast
PROPERTY
    InputHandled
