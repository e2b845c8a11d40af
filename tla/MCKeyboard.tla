----------------------------- MODULE MCKeyboard -----------------------------
(* The scancodes (set 1) a PC keyboard sends for some of its keys, written  *)
(* down from the keyboard's side and not from the driver's tables.          *)
EXTENDS Keyboard, TLC

Codes ==
    "A" :> [make |-> <<30>>, break |-> <<158>>]
    @@ "LEFTSHIFT" :> [make |-> <<42>>, break |-> <<170>>]
    @@ "RIGHTSHIFT" :> [make |-> <<54>>, break |-> <<182>>]
    @@ "CAPSLOCK" :> [make |-> <<58>>, break |-> <<186>>]
    @@ "LEFTALT" :> [make |-> <<56>>, break |-> <<184>>]
    @@ "RIGHTALT" :> [make |-> <<224, 56>>, break |-> <<224, 184>>]
    @@ "UP" :> [make |-> <<224, 72>>, break |-> <<224, 200>>]
    @@ "PRINT" :> [make |-> <<224, 42, 224, 55>>, break |-> <<224, 183, 224, 170>>]
    @@ "PAUSE" :> [make |-> <<225, 29, 69, 225, 157, 197>>, break |-> <<>>]

MCMake == [k \in DOMAIN Codes |-> Codes[k].make]
MCBreak == [k \in DOMAIN Codes |-> Codes[k].break]

MCKey == {"A", "LEFTSHIFT", "CAPSLOCK", "RIGHTALT", "UP", "PRINT", "PAUSE"}
PauseKeys == {"A", "PAUSE"}
=============================================================================
