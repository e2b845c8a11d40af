SPECIFICATION Spec
CONSTANTS
    KBD_BYTE_QUEUE_SIZE = 4
    KBD_EVENT_QUEUE_SIZE = 4
    Key <- MCKey
    Make <- MCMake
    Break <- MCBreak
    MaxStrokes = 5
    MaxWire = 6
INVARIANTS
    NoGhostKeys
    KeysTracked
    ModifiersNotStuck
    BytesMatchStrokes
    EventsAlternate
CHECK_DEADLOCK FALSE
