SPECIFICATION EchoSpec
CONSTANTS
    PTY_MAX = 2
    PTY_QUEUE_SIZE = 4
    SESSION_MAX = 1
    TTY_READ_QUEUE_SIZE = 4
    TTY_LINE_BUFFER_SIZE = 4
    KBD_BYTE_QUEUE_SIZE = 6
    BootSids = {1}
    SHELL_LINE_MAX = 3
    SHELL_CHUNK = 2
    HISTORY_SLOTS = 2
    SLOT_LEN = 2
    SelftestCommand <- MCSelftestCommand
    SelftestWrite = 5
    SelftestLine = 6
    Byte = {}
    MaxRx = 0
    Stroke <- MCStroke
    MaxStrokes = 4
    Rows = 3
    Cols = 2
    Prompt <- MCPrompt
    ClearCommand <- MCClearCommand
    Answers <- MCAnswers
INVARIANTS
    ShellStringEnds
    TypedIsExecuted
    DeliversWhatWasTyped
    EchoShowsLine
