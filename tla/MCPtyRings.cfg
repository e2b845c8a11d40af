SPECIFICATION MCSpec
CONSTANTS
    PTY_MAX = 1
    PTY_QUEUE_SIZE = 3
    SESSION_MAX = 1
    Buffers <- MCBuffers
    Chunk = 2
    MaxFaults = 1
INVARIANTS
    SessionsAreSound
PROPERTY
    QueuesImplemented
