SPECIFICATION TtySpec
CONSTANTS
    PTY_MAX = 1
    PTY_QUEUE_SIZE = 2
    TTY_READ_QUEUE_SIZE = 2
    TTY_LINE_BUFFER_SIZE = 3
    Byte <- MCByte
    MaxRx = 4
INVARIANTS
    BufferBounds
    Ledger
PROPERTY
    EditorImplemented
