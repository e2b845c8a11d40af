SPECIFICATION InputSpec
CONSTANTS
    PTY_MAX = 1
    PTY_QUEUE_SIZE = 4
    SESSION_MAX = 1
    TTY_READ_QUEUE_SIZE = 4
    TTY_LINE_BUFFER_SIZE = 4
    KBD_BYTE_QUEUE_SIZE = 8
    BootSids = {1}
    SHELL_LINE_MAX = 3
    SHELL_CHUNK = 2
    HISTORY_SLOTS = 2
    SLOT_LEN = 2
    SelftestCommand <- MCSelftestCommand
    SelftestWrite = 5
    SelftestLine = 6
    Byte = {}
    MaxRx = 0
    Stroke <- EscapeStrokes
    MaxStrokes = 3
INVARIANTS
    NoPayloadExecuted
