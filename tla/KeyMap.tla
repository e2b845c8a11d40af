------------------------------- MODULE KeyMap -------------------------------
(***************************************************************************)
(* The tables of keyboard.c: from scancodes (set 1) to keys, and from a    *)
(* key with its modifiers and locks to the bytes it types.  A key is named *)
(* by a string; modifiers and locks are sets of names instead of bits.     *)
(***************************************************************************)
EXTENDS Naturals, Sequences

\* The function that a set of pairs, each with an argument and its value, gives.
Table(pairs) ==
    [k \in {p[1] : p \in pairs} |-> (CHOOSE p \in pairs : p[1] = k)[2]]

KeyNone == "NONE"

\* scancode_to_key: the entries 0x01 to 0x53, then 0x57 and 0x58.
MainKeys == <<
    "ESC", "1", "2", "3", "4", "5", "6", "7", "8", "9", "0", "MINUS", "EQUAL",
    "BACKSPACE", "TAB",
    "Q", "W", "E", "R", "T", "Y", "U", "I", "O", "P", "LEFTBRACE", "RIGHTBRACE",
    "ENTER", "LEFTCTRL",
    "A", "S", "D", "F", "G", "H", "J", "K", "L", "SEMICOLON", "APOSTROPHE",
    "GRAVE", "LEFTSHIFT", "BACKSLASH",
    "Z", "X", "C", "V", "B", "N", "M", "COMMA", "DOT", "SLASH", "RIGHTSHIFT",
    "KPASTERISK", "LEFTALT", "SPACE", "CAPSLOCK",
    "F1", "F2", "F3", "F4", "F5", "F6", "F7", "F8", "F9", "F10",
    "NUMLOCK", "SCROLLLOCK", "KP7", "KP8", "KP9", "KPMINUS", "KP4", "KP5", "KP6",
    "KPPLUS", "KP1", "KP2", "KP3", "KP0", "KPDOT" >>

scancode_to_key(code) ==
    CASE code \in DOMAIN MainKeys -> MainKeys[code]
      [] code = 87 -> "F11"
      [] code = 88 -> "F12"
      [] OTHER -> KeyNone

E0Keys ==
    Table({<<28, "KPENTER">>, <<29, "RIGHTCTRL">>, <<53, "KPSLASH">>,
           <<56, "RIGHTALT">>, <<71, "HOME">>, <<72, "UP">>, <<73, "PAGEUP">>,
           <<75, "LEFT">>, <<77, "RIGHT">>, <<79, "END">>, <<80, "DOWN">>,
           <<81, "PAGEDOWN">>, <<82, "INSERT">>, <<83, "DELETE">>,
           <<91, "LEFTMETA">>, <<92, "RIGHTMETA">>})

scancode_to_key_e0(code) ==
    IF code \in DOMAIN E0Keys THEN E0Keys[code] ELSE KeyNone
-----------------------------------------------------------------------------
Letters == <<"A", "B", "C", "D", "E", "F", "G", "H", "I", "J", "K", "L", "M", "N",
             "O", "P", "Q", "R", "S", "T", "U", "V", "W", "X", "Y", "Z">>
Letter == {Letters[i] : i \in DOMAIN Letters}

\* kbd_apply_alpha: Ctrl keeps the low five bits of either case.
kbd_apply_alpha(key, mods, locks) ==
    LET n == CHOOSE i \in DOMAIN Letters : Letters[i] = key
        upper == ("SHIFT" \in mods) # ("CAPS" \in locks)
    IN  IF "CTRL" \in mods THEN n ELSE IF upper THEN 64 + n ELSE 96 + n

\* Plain and shifted character of the keys that only look at Shift.
ShiftPairs ==
    Table({<<"1", <<49, 33>>>>, <<"2", <<50, 64>>>>, <<"3", <<51, 35>>>>,
           <<"4", <<52, 36>>>>, <<"5", <<53, 37>>>>, <<"6", <<54, 94>>>>,
           <<"7", <<55, 38>>>>, <<"8", <<56, 42>>>>, <<"9", <<57, 40>>>>,
           <<"0", <<48, 41>>>>, <<"MINUS", <<45, 95>>>>,
           <<"EQUAL", <<61, 43>>>>, <<"LEFTBRACE", <<91, 123>>>>,
           <<"RIGHTBRACE", <<93, 125>>>>, <<"BACKSLASH", <<92, 124>>>>,
           <<"SEMICOLON", <<59, 58>>>>, <<"APOSTROPHE", <<39, 34>>>>,
           <<"GRAVE", <<96, 126>>>>, <<"COMMA", <<44, 60>>>>,
           <<"DOT", <<46, 62>>>>, <<"SLASH", <<47, 63>>>>})

CtrlCodes ==
    Table({<<"2", 0>>, <<"6", 30>>, <<"MINUS", 31>>, <<"LEFTBRACE", 27>>,
           <<"RIGHTBRACE", 29>>, <<"BACKSLASH", 28>>})

FixedCodes ==
    Table({<<"SPACE", 32>>, <<"TAB", 9>>, <<"ENTER", 10>>, <<"KPENTER", 10>>,
           <<"BACKSPACE", 8>>, <<"ESC", 27>>, <<"KPMINUS", 45>>,
           <<"KPPLUS", 43>>, <<"KPASTERISK", 42>>, <<"KPSLASH", 47>>})

KeypadCodes ==
    Table({<<"KP0", 48>>, <<"KP1", 49>>, <<"KP2", 50>>, <<"KP3", 51>>,
           <<"KP4", 52>>, <<"KP5", 53>>, <<"KP6", 54>>, <<"KP7", 55>>,
           <<"KP8", 56>>, <<"KP9", 57>>, <<"KPDOT", 46>>})

\* kbd_keycode_to_unicode: 0 for a key that types no character.
kbd_keycode_to_unicode(key, mods, locks) ==
    CASE key \in Letter -> kbd_apply_alpha(key, mods, locks)
      [] key \in DOMAIN CtrlCodes /\ "CTRL" \in mods -> CtrlCodes[key]
      [] key \in DOMAIN ShiftPairs /\ ~ (key \in DOMAIN CtrlCodes /\ "CTRL" \in mods) ->
             ShiftPairs[key][IF "SHIFT" \in mods THEN 2 ELSE 1]
      [] key \in DOMAIN FixedCodes -> FixedCodes[key]
      [] key \in DOMAIN KeypadCodes /\ "NUM" \in locks -> KeypadCodes[key]
      [] OTHER -> 0

\* Esc [ final, Esc [ p ~, Esc [ p q ~ and Esc O final.
Csi(final) == <<27, 91, final>>
Tilde(p) == <<27, 91, p, 126>>
Tilde2(p, q) == <<27, 91, p, q, 126>>
Ss3(final) == <<27, 79, final>>

\* kbd_emit_special_sequence: Esc [ ... for most keys, Esc O ... for F1 to F4.
SequencePairs ==
    {<<"UP", Csi(65)>>, <<"DOWN", Csi(66)>>, <<"RIGHT", Csi(67)>>,
     <<"LEFT", Csi(68)>>, <<"HOME", Csi(72)>>, <<"END", Csi(70)>>,
     <<"INSERT", Tilde(50)>>, <<"DELETE", Tilde(51)>>, <<"PAGEUP", Tilde(53)>>,
     <<"PAGEDOWN", Tilde(54)>>, <<"F1", Ss3(80)>>, <<"F2", Ss3(81)>>,
     <<"F3", Ss3(82)>>, <<"F4", Ss3(83)>>, <<"F5", Tilde2(49, 53)>>,
     <<"F6", Tilde2(49, 55)>>, <<"F7", Tilde2(49, 56)>>,
     <<"F8", Tilde2(49, 57)>>, <<"F9", Tilde2(50, 48)>>,
     <<"F10", Tilde2(50, 49)>>, <<"F11", Tilde2(50, 51)>>,
     <<"F12", Tilde2(50, 52)>>}

SpecialSequences == Table(SequencePairs)
SpecialSequence(key) == IF key \in DOMAIN SpecialSequences THEN SpecialSequences[key] ELSE <<>>

\* kbd_emit_input_bytes, for a key press.  All characters of the tables are
\* below 0x80, where kbd_emit_utf8 is one byte.
InputBytes(key, mods, locks) ==
    LET char == kbd_keycode_to_unicode(key, mods, locks)
    IN  IF char # 0
        THEN (IF mods \cap {"ALT", "ALTGR"} # {} THEN <<27>> ELSE <<>>) \o <<char>>
        ELSE SpecialSequence(key)
=============================================================================
