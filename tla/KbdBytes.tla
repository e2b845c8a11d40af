------------------------------ MODULE KbdBytes ------------------------------
(***************************************************************************)
(* kbd_byte_queue as the sequence of its unread bytes, with the drop       *)
(* counter.  KbdRing shows that the ring in keyboard.c behaves like this.  *)
(***************************************************************************)
EXTENDS Naturals, Sequences

CONSTANT KBD_BYTE_QUEUE_SIZE

ASSUME ByteQueueAssumption ==
    KBD_BYTE_QUEUE_SIZE \in Nat /\ KBD_BYTE_QUEUE_SIZE >= 2

VARIABLES
    kbd_bytes,
    kbd_drop_byte_count

Room == KBD_BYTE_QUEUE_SIZE - 1 - Len(kbd_bytes)

\* kbd_push_byte for each byte of bs: the handler is not interrupted, so a
\* full queue stays full and the bytes that fit are a first part of bs.
PushBytes(bs) ==
    LET n == IF Len(bs) <= Room THEN Len(bs) ELSE Room
    IN  /\ kbd_bytes' = kbd_bytes \o SubSeq(bs, 1, n)
        /\ kbd_drop_byte_count' = kbd_drop_byte_count + Len(bs) - n

\* keyboard_pop_char, when it returns true.
PopByte ==
    /\ kbd_bytes # <<>>
    /\ kbd_bytes' = Tail(kbd_bytes)
    /\ UNCHANGED kbd_drop_byte_count
=============================================================================
