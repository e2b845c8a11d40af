------------------------------ MODULE Keyboard ------------------------------
(***************************************************************************)
(* The keyboard driver (keyboard.c): the interrupt handler that turns      *)
(* scancodes into key state, key events and typed bytes, below a physical  *)
(* keyboard whose keys are pressed, repeated and released.  The two rings  *)
(* are sequences here; KbdRing shows that they behave as such.             *)
(***************************************************************************)
EXTENDS KeyMap, KbdBytes

CONSTANTS
    KBD_EVENT_QUEUE_SIZE,
    Key,            \* the keys of the keyboard that are used
    Make,           \* what the keyboard sends when a key goes down or repeats
    Break,          \* what it sends when the key goes up
    MaxStrokes,     \* bound on the presses, repeats and releases
    MaxWire         \* bound on the scancodes waiting in the controller

ASSUME KeyboardAssumption ==
    /\ KBD_EVENT_QUEUE_SIZE \in Nat /\ KBD_EVENT_QUEUE_SIZE >= 2
    /\ MaxStrokes \in Nat /\ MaxWire \in Nat

\* Scancode set 1: a key sends its code, or its code behind a prefix, and the
\* same with bit 7 when it goes up.  Print Screen surrounds its code by fake
\* shifts, and Pause sends all its codes when it goes down.
ASSUME CodesAssumption ==
    \A k \in Key :
        \/ /\ k \notin {KeyNone, "PRINT", "PAUSE"}
           /\ \E c \in 1 .. 95 :
                  \/ /\ Make[k] = <<c>> /\ Break[k] = <<c + 128>>
                     /\ scancode_to_key(c) = k
                  \/ /\ Make[k] = <<224, c>> /\ Break[k] = <<224, c + 128>>
                     /\ scancode_to_key_e0(c) = k
        \/ /\ k = "PRINT"
           /\ Make[k] = <<224, 42, 224, 55>> /\ Break[k] = <<224, 183, 224, 170>>
        \/ /\ k = "PAUSE"
           /\ Make[k] = <<225, 29, 69, 225, 157, 197>> /\ Break[k] = <<>>

VARIABLES
    held,               \* the keys that are physically down
    wire,               \* scancodes sent and not yet read from port 0x60
    strokes,            \* how many presses, repeats and releases there were
    lit,                \* the locks as the key presses and repeats leave them
    typed,              \* history: the bytes those keys should have typed
    paused,             \* history: Pause was pressed
    spoiled,            \* history: another key was used after it
    popped,             \* history: the bytes keyboard_pop_char returned
    kbd_extended,
    kbd_e1_skip,
    kbd_modifiers,
    kbd_locks,
    kbd_key_down,       \* the keys whose entry is true
    kbd_events,         \* unread events of kbd_event_queue
    kbd_drop_event_count

deviceVars == <<held, wire, strokes, lit, typed, paused, spoiled>>
decodeVars == <<kbd_extended, kbd_e1_skip>>
stateVars == <<kbd_modifiers, kbd_locks, kbd_key_down>>
queueVars == <<kbd_bytes, kbd_events, kbd_drop_byte_count, kbd_drop_event_count>>
vars == <<deviceVars, decodeVars, stateVars, queueVars, popped>>

Modifiers == {"SHIFT", "CTRL", "ALT", "ALTGR", "META"}
Locks == {"CAPS", "NUM", "SCROLL"}

\* keyboard_init, with no key down.
Init ==
    /\ held = {} /\ wire = <<>> /\ strokes = 0
    /\ lit = {} /\ typed = <<>> /\ popped = <<>>
    /\ paused = FALSE /\ spoiled = FALSE
    /\ kbd_extended = FALSE
    /\ kbd_e1_skip = 0
    /\ kbd_modifiers = {}
    /\ kbd_locks = {}
    /\ kbd_key_down = {}
    /\ kbd_bytes = <<>>
    /\ kbd_events = <<>>
    /\ kbd_drop_byte_count = 0
    /\ kbd_drop_event_count = 0
-----------------------------------------------------------------------------
\* The physical keyboard.  A key that stays down may repeat.  What it should
\* type follows from the keys that are down and the locks.
HeldModifiers(keys) ==
    (IF keys \cap {"LEFTSHIFT", "RIGHTSHIFT"} # {} THEN {"SHIFT"} ELSE {})
    \cup (IF keys \cap {"LEFTCTRL", "RIGHTCTRL"} # {} THEN {"CTRL"} ELSE {})
    \cup (IF "LEFTALT" \in keys THEN {"ALT"} ELSE {})
    \cup (IF "RIGHTALT" \in keys THEN {"ALTGR"} ELSE {})
    \cup (IF keys \cap {"LEFTMETA", "RIGHTMETA"} # {} THEN {"META"} ELSE {})

Toggled(locks, key) ==
    LET lock == CASE key = "CAPSLOCK" -> {"CAPS"}
                  [] key = "NUMLOCK" -> {"NUM"}
                  [] key = "SCROLLLOCK" -> {"SCROLL"}
                  [] OTHER -> {}
    IN  (locks \cup lock) \ (locks \cap lock)

Send(codes) ==
    /\ strokes < MaxStrokes
    /\ Len(wire) + Len(codes) <= MaxWire
    /\ strokes' = strokes + 1
    /\ wire' = wire \o codes
    /\ UNCHANGED <<decodeVars, stateVars, queueVars, popped>>

\* Pause leaves the driver skipping codes, and the keys after it lose some.
Note(k) ==
    /\ paused' = (paused \/ k = "PAUSE")
    /\ spoiled' = (spoiled \/ (paused /\ k # "PAUSE"))

Down(k) ==
    /\ held' = held \cup {k}
    /\ lit' = Toggled(lit, k)
    /\ typed' = typed \o InputBytes(k, HeldModifiers(held'), lit')
    /\ Note(k)
    /\ Send(Make[k])

PressKey(k) == k \notin held /\ Down(k)
RepeatKey(k) == k \in held /\ Break[k] # <<>> /\ Down(k)     \* not Pause
ReleaseKey(k) ==
    /\ k \in held /\ held' = held \ {k} /\ Note(k) /\ Send(Break[k])
    /\ UNCHANGED <<lit, typed>>
-----------------------------------------------------------------------------
\* The modifier bit and the lock bit kbd_update_state finds for a key.
ModifierOf(key) ==
    CASE key \in {"LEFTSHIFT", "RIGHTSHIFT"} -> {"SHIFT"}
      [] key \in {"LEFTCTRL", "RIGHTCTRL"} -> {"CTRL"}
      [] key = "LEFTALT" -> {"ALT"}
      [] key = "RIGHTALT" -> {"ALTGR"}
      [] key \in {"LEFTMETA", "RIGHTMETA"} -> {"META"}
      [] OTHER -> {}

LockOf(key) ==
    CASE key = "CAPSLOCK" -> {"CAPS"}
      [] key = "NUMLOCK" -> {"NUM"}
      [] key = "SCROLLLOCK" -> {"SCROLL"}
      [] OTHER -> {}

\* Mutation: a release leaves the modifier set.
SetModifierSticky(key, pressed) == kbd_modifiers \cup ModifierOf(key)

kbd_set_modifier_bit(key, pressed) ==
    IF pressed THEN kbd_modifiers \cup ModifierOf(key)
               ELSE kbd_modifiers \ ModifierOf(key)

\* Mutation: the release flips the lock back.
ToggleLockAlways(key, pressed) ==
    (kbd_locks \cup LockOf(key)) \ (kbd_locks \cap LockOf(key))

\* A press, a repeat too, flips a lock.
kbd_toggle_lock(key, pressed) ==
    IF pressed
    THEN (kbd_locks \cup LockOf(key)) \ (kbd_locks \cap LockOf(key))
    ELSE kbd_locks

kbd_push_event(event) ==
    IF Len(kbd_events) + 1 < KBD_EVENT_QUEUE_SIZE
    THEN kbd_events' = Append(kbd_events, event) /\ UNCHANGED kbd_drop_event_count
    ELSE kbd_drop_event_count' = kbd_drop_event_count + 1 /\ UNCHANGED kbd_events

\* Mutation: the key is marked down before the repeat flag looks at it.
HandleKeyMarksFirst(key, pressed) ==
    /\ kbd_key_down' = IF pressed THEN kbd_key_down \cup {key}
                                  ELSE kbd_key_down \ {key}
    /\ kbd_modifiers' = kbd_set_modifier_bit(key, pressed)
    /\ kbd_locks' = kbd_toggle_lock(key, pressed)
    /\ kbd_push_event([key |-> key, pressed |-> pressed,
                       repeat |-> pressed /\ key \in kbd_key_down'])
    /\ PushBytes(IF pressed THEN InputBytes(key, kbd_modifiers', kbd_locks')
                            ELSE <<>>)

\* The end of keyboard_on_irq, once the key is known.
HandleKey(key, pressed) ==
    /\ kbd_key_down' = IF pressed THEN kbd_key_down \cup {key}
                                  ELSE kbd_key_down \ {key}
    /\ kbd_modifiers' = kbd_set_modifier_bit(key, pressed)
    /\ kbd_locks' = kbd_toggle_lock(key, pressed)
    /\ kbd_push_event([key |-> key, pressed |-> pressed,
                       repeat |-> pressed /\ key \in kbd_key_down])
    /\ PushBytes(IF pressed THEN InputBytes(key, kbd_modifiers', kbd_locks')
                            ELSE <<>>)
-----------------------------------------------------------------------------
\* keyboard_on_irq, one action per way through it.
Scancode == Head(wire)
ReadPort ==
    /\ wire # <<>>
    /\ wire' = Tail(wire)
    /\ UNCHANGED <<held, strokes, lit, typed, paused, spoiled, popped>>

OnE0 ==
    /\ ReadPort
    /\ Scancode = 224
    /\ kbd_extended' = TRUE
    /\ UNCHANGED <<kbd_e1_skip, stateVars, queueVars>>

\* Mutation: one code is skipped, as if only a prefix byte followed.
OnE1Short ==
    /\ ReadPort
    /\ Scancode = 225
    /\ kbd_e1_skip' = 1
    /\ UNCHANGED <<kbd_extended, stateVars, queueVars>>

OnE1 ==
    /\ ReadPort
    /\ Scancode = 225
    /\ kbd_e1_skip' = 5
    /\ UNCHANGED <<kbd_extended, stateVars, queueVars>>

OnSkipped ==
    /\ ReadPort
    /\ Scancode \notin {224, 225}
    /\ kbd_e1_skip > 0
    /\ kbd_e1_skip' = kbd_e1_skip - 1
    /\ UNCHANGED <<kbd_extended, stateVars, queueVars>>

KeyOf(scancode) ==
    IF kbd_extended THEN scancode_to_key_e0(scancode % 128)
                    ELSE scancode_to_key(scancode % 128)

\* Mutation: the prefix stays in force after the key it announced.
OnCodeKeepsPrefix ==
    /\ ReadPort
    /\ Scancode \notin {224, 225}
    /\ kbd_e1_skip = 0
    /\ IF KeyOf(Scancode) = KeyNone
       THEN UNCHANGED <<stateVars, queueVars>>
       ELSE HandleKey(KeyOf(Scancode), Scancode < 128)
    /\ UNCHANGED decodeVars

OnCode ==
    /\ ReadPort
    /\ Scancode \notin {224, 225}
    /\ kbd_e1_skip = 0
    /\ kbd_extended' = FALSE
    /\ IF KeyOf(Scancode) = KeyNone
       THEN UNCHANGED <<stateVars, queueVars>>
       ELSE HandleKey(KeyOf(Scancode), Scancode < 128)
    /\ UNCHANGED kbd_e1_skip

keyboard_on_irq == OnE0 \/ OnE1 \/ OnSkipped \/ OnCode

keyboard_pop_char ==
    /\ PopByte
    /\ popped' = Append(popped, Head(kbd_bytes))
    /\ UNCHANGED <<deviceVars, decodeVars, stateVars, kbd_events,
                   kbd_drop_event_count>>

keyboard_pop_event ==
    /\ kbd_events # <<>>
    /\ kbd_events' = Tail(kbd_events)
    /\ UNCHANGED <<deviceVars, decodeVars, stateVars, kbd_bytes,
                   kbd_drop_byte_count, kbd_drop_event_count, popped>>

Next ==
    \/ \E k \in Key : PressKey(k) \/ RepeatKey(k) \/ ReleaseKey(k)
    \/ keyboard_on_irq
    \/ keyboard_pop_char
    \/ keyboard_pop_event

Spec == Init /\ [][Next]_vars
-----------------------------------------------------------------------------
\* Pause leaves kbd_e1_skip positive (PauseIsIgnored, below), and the driver
\* loses codes of the keys that come next.  What follows is about the keys up
\* to and including a Pause, and about Pause alone however often it is pressed.
\* The handler has read every scancode of such keys:
CaughtUp == wire = <<>> /\ ~ spoiled
Mapped == {k \in Key : k \notin {"PAUSE", "PRINT"}}

\* Once the handler has read every scancode, the driver's idea of which keys
\* are down is the truth: prefixed codes, the fake shifts that surround Print
\* Screen and repeats leave no key stuck (keyboard.c:409-446).
KeysTracked == CaughtUp => kbd_key_down = held \cap Mapped

\* Only keys that exist are ever decoded: the codes of Ctrl and Num Lock that
\* Pause sends, and of Shift that Print Screen sends, do not get through
\* (keyboard.c:409-435).
NoGhostKeys ==
    ~ spoiled =>
        kbd_key_down \cup {kbd_events[i].key : i \in DOMAIN kbd_events}
            \subseteq Mapped

\* No modifier is stuck: one in force belongs to a key that is held, and for
\* Alt and AltGr, which have one key each, the converse holds too
\* (keyboard.c:191-220).
ModifiersNotStuck ==
    CaughtUp => /\ kbd_modifiers \subseteq HeldModifiers(held)
                /\ kbd_modifiers \cap {"ALT", "ALTGR"}
                     = HeldModifiers(held) \cap {"ALT", "ALTGR"}

\* The byte stream is what the held keys and the locks should have typed, in
\* the order of the strokes, as long as the queue had room; and every byte it
\* had no room for is one that kbdinfo counts (keyboard.c:133-142, 366-380).
BytesMatchStrokes ==
    CaughtUp =>
        /\ kbd_drop_byte_count = 0 => popped \o kbd_bytes = typed
        /\ Len(popped) + Len(kbd_bytes) + kbd_drop_byte_count = Len(typed)

\* As long as no event was dropped, the queued events of one key make sense:
\* a press after a press is marked as a repeat, a press after a release is
\* not, and a release follows a press (keyboard.c:440-446).
EventsAlternate ==
    kbd_drop_event_count = 0 /\ ~ spoiled =>
        \A i, j \in DOMAIN kbd_events :
            /\ i < j
            /\ kbd_events[i].key = kbd_events[j].key
            /\ \A m \in i + 1 .. j - 1 : kbd_events[m].key # kbd_events[i].key
            => /\ kbd_events[j].repeat <=> kbd_events[i].pressed /\ kbd_events[j].pressed
               /\ ~ kbd_events[j].pressed => kbd_events[i].pressed
-----------------------------------------------------------------------------
\* What the comment in keyboard_on_irq says of Pause, "ignore for now"
\* (keyboard.c:415): once its codes are read, nothing of it is left over.
PauseIsIgnored == wire = <<>> => kbd_e1_skip = 0
=============================================================================
