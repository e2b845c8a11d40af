SPECIFICATION Spec
CONSTANTS
    KBD_BYTE_QUEUE_SIZE = 4
    KBD_EVENT_QUEUE_SIZE = 4
    Key <- PauseKeys
    Make <- MCMake
    Break <- MCBreak
    MaxStrokes = 5
    MaxWire = 7
INVARIANTS
    PauseIsIgnored
CHECK_DEADLOCK FALSE
