--------------------------- MODULE KeyboardProofs ---------------------------
(***************************************************************************)
(* The keyboard driver, for every set of keys, every sequence of strokes   *)
(* and any delay between the keyboard and its handler: what the driver     *)
(* will know once it has read the wire is what the keys did.               *)
(***************************************************************************)
EXTENDS Keyboard, SequenceTheorems, TLAPS
-----------------------------------------------------------------------------
(* Reading the wire *)

\* A state of the driver: ext is 1 after a prefix, skip, mods, locks and down
\* are its variables, bytes is all it typed.
Keeps(s, t) ==
    t.mods = s.mods /\ t.locks = s.locks /\ t.down = s.down /\ t.bytes = s.bytes

Decoded(s, c) ==
    IF s.ext = 1 THEN scancode_to_key_e0(c % 128) ELSE scancode_to_key(c % 128)

Flipped(locks, key) == (locks \cup LockOf(key)) \ (locks \cap LockOf(key))

Presses(s, key, t) ==
    /\ t.down = s.down \cup {key}
    /\ t.mods = s.mods \cup ModifierOf(key)
    /\ t.locks = Flipped(s.locks, key)
    /\ t.bytes = s.bytes \o InputBytes(key, t.mods, t.locks)

Releases(s, key, t) ==
    /\ t.down = s.down \ {key}
    /\ t.mods = s.mods \ ModifierOf(key)
    /\ t.locks = s.locks /\ t.bytes = s.bytes

\* One code takes the driver from s to t, and is no key that does not exist,
\* nor the release of a key that is not down.
Reads(s, c, t) ==
    \/ c = 224 /\ t.ext = 1 /\ t.skip = s.skip /\ Keeps(s, t)
    \/ c = 225 /\ t.ext = s.ext /\ t.skip = 5 /\ Keeps(s, t)
    \/ /\ c \notin {224, 225} /\ s.skip > 0
       /\ t.ext = s.ext /\ t.skip = s.skip - 1 /\ Keeps(s, t)
    \/ /\ c \notin {224, 225} /\ s.skip = 0 /\ t.ext = 0 /\ t.skip = 0
       /\ \/ Decoded(s, c) = KeyNone /\ Keeps(s, t)
          \/ Decoded(s, c) \in Mapped /\ c < 128 /\ Presses(s, Decoded(s, c), t)
          \/ Decoded(s, c) \in Mapped \cap s.down /\ c >= 128 /\ Releases(s, Decoded(s, c), t)

\* The codes take it there one by one.
Leads(s, codes, t) ==
    \E run : /\ run[0] = s /\ run[Len(codes)] = t
             /\ \A i \in 1 .. Len(codes) : Reads(run[i - 1], codes[i], run[i])

\* Nothing to read.
LEMMA LeadsNowhere ==
    ASSUME NEW s
    PROVE  Leads(s, <<>>, s) /\ \A t : Leads(s, <<>>, t) => t = s
<1>1. Len(<<>>) = 0 /\ 1 .. 0 = {}
  OBVIOUS
<1>2. [i \in {0} |-> s][0] = s
  OBVIOUS
<1> QED
  BY <1>1, <1>2, Zenon DEF Leads

\* One more code.
LEMMA LeadsOn ==
    ASSUME NEW codes \in Seq(Nat), NEW c \in Nat, NEW s, NEW t, NEW u,
           Leads(s, codes, t), Reads(t, c, u)
    PROVE  Leads(s, Append(codes, c), u)
<1> DEFINE n == Len(codes)
           all == Append(codes, c)
<1>1. /\ n \in Nat /\ Len(all) = n + 1 /\ all[n + 1] = c
      /\ \A i \in 1 .. n : all[i] = codes[i]
  OBVIOUS
<1>2. PICK run : /\ run[0] = s /\ run[n] = t
                 /\ \A i \in 1 .. n : Reads(run[i - 1], codes[i], run[i])
  BY Zenon DEF Leads
<1> HIDE DEF all, n
<1> DEFINE more == [i \in 0 .. n + 1 |-> IF i = n + 1 THEN u ELSE run[i]]
<1>3. more[0] = s /\ more[n + 1] = u /\ more[n] = t
  BY <1>1, <1>2
<1>4. \A i \in 0 .. n : more[i] = run[i]
  BY <1>1
<1> HIDE DEF more
<1>5. ASSUME NEW i \in 1 .. n + 1 PROVE Reads(more[i - 1], all[i], more[i])
  <2>1. CASE i = n + 1
    <3>1. i - 1 = n
      BY <1>1, <2>1
    <3> QED
      BY <1>1, <1>3, <2>1, <3>1
  <2>2. CASE i # n + 1
    <3>1. i \in 1 .. n /\ i \in 0 .. n /\ i - 1 \in 0 .. n
      BY <1>1, <2>2
    <3> QED
      BY <1>1, <1>2, <1>4, <3>1
  <2> QED
    BY <2>1, <2>2
<1> QED
  BY <1>1, <1>3, <1>5, Zenon DEF Leads, all

\* The first code.
LEMMA LeadsFirst ==
    ASSUME NEW codes \in Seq(Nat), codes # <<>>, NEW s, NEW t, Leads(s, codes, t)
    PROVE  \E r : Reads(s, Head(codes), r) /\ Leads(r, Tail(codes), t)
<1> DEFINE n == Len(codes)
           rest == Tail(codes)
<1>1. /\ n \in Nat /\ n >= 1 /\ Len(rest) = n - 1 /\ Head(codes) = codes[1]
      /\ \A i \in 1 .. n - 1 : rest[i] = codes[i + 1]
  OBVIOUS
<1>2. PICK run : /\ run[0] = s /\ run[n] = t
                 /\ \A i \in 1 .. n : Reads(run[i - 1], codes[i], run[i])
  BY Zenon DEF Leads
<1> HIDE DEF rest, n
<1> DEFINE later == [i \in 0 .. n - 1 |-> run[i + 1]]
<1>3. later[0] = run[1] /\ later[n - 1] = t
  BY <1>1, <1>2
<1>4. \A i \in 0 .. n - 1 : later[i] = run[i + 1]
  OBVIOUS
<1> HIDE DEF later
<1>5. ASSUME NEW i \in 1 .. n - 1 PROVE Reads(later[i - 1], rest[i], later[i])
  <2>1. /\ i + 1 \in 1 .. n /\ i \in 0 .. n - 1 /\ i - 1 \in 0 .. n - 1
        /\ i + 1 - 1 = i /\ i - 1 + 1 = i
    BY <1>1
  <2>2. Reads(run[i], codes[i + 1], run[i + 1])
    BY <1>2, <2>1
  <2> QED
    BY <1>1, <1>4, <2>1, <2>2
<1>6. Leads(run[1], rest, t)
  BY <1>1, <1>3, <1>5, Zenon DEF Leads
<1>7. Reads(s, codes[1], run[1])
  <2>1. 1 \in 1 .. n /\ 1 - 1 = 0
    BY <1>1
  <2> QED
    BY <1>2, <2>1
<1> QED
  BY <1>1, <1>6, <1>7, Zenon DEF rest
-----------------------------------------------------------------------------
(* A stroke's codes *)

AfterPress(s, k) ==
    LET mods == s.mods \cup ModifierOf(k)
        locks == Flipped(s.locks, k)
    IN  [ext |-> 0, skip |-> 0, down |-> s.down \cup {k}, mods |-> mods, locks |-> locks,
         bytes |-> s.bytes \o InputBytes(k, mods, locks)]

AfterRelease(s, k) ==
    [ext |-> 0, skip |-> 0, down |-> s.down \ {k}, mods |-> s.mods \ ModifierOf(k),
     locks |-> s.locks, bytes |-> s.bytes]

\* In the middle of a stroke's codes.
Between(s, ext, skip) ==
    [ext |-> ext, skip |-> skip, down |-> s.down, mods |-> s.mods, locks |-> s.locks,
     bytes |-> s.bytes]

LEMMA BetweenKeeps ==
    ASSUME NEW s, NEW ext, NEW skip
    PROVE  /\ Between(s, ext, skip).ext = ext /\ Between(s, ext, skip).skip = skip
           /\ Keeps(s, Between(s, ext, skip)) /\ Keeps(Between(s, ext, skip), s)
           /\ \A e, n : Keeps(Between(s, e, n), Between(s, ext, skip))
BY DEF Between, Keeps

\* The code of a key, and the prefix if it has one (keyboard.c:409-446).
LEMMA KeyIsRead ==
    ASSUME NEW s, s.ext = 0, s.skip = 0, NEW k \in Mapped, NEW codes \in Seq(Nat), NEW from,
           Leads(from, codes, s)
    PROVE  /\ Leads(from, codes \o Make[k], AfterPress(s, k))
           /\ k \in s.down => Leads(from, codes \o Break[k], AfterRelease(s, k))
<1>1. PICK c \in 1 .. 95 :
               \/ /\ Make[k] = <<c>> /\ Break[k] = <<c + 128>>
                  /\ scancode_to_key(c) = k
               \/ /\ Make[k] = <<224, c>> /\ Break[k] = <<224, c + 128>>
                  /\ scancode_to_key_e0(c) = k
  BY CodesAssumption DEF Mapped
<1>2. /\ c \in Nat /\ c % 128 = c /\ c \notin {224, 225} /\ c < 128
      /\ c + 128 \in Nat /\ (c + 128) % 128 = c /\ c + 128 \notin {224, 225} /\ c + 128 >= 128
  OBVIOUS
<1>3. ASSUME NEW t, t.ext = 0 \/ t.ext = 1, t.skip = 0, Keeps(s, t),
             IF t.ext = 1 THEN scancode_to_key_e0(c) = k ELSE scancode_to_key(c) = k
      PROVE  /\ Reads(t, c, AfterPress(s, k))
             /\ k \in s.down => Reads(t, c + 128, AfterRelease(s, k))
  <2>1. Decoded(t, c) = k /\ Decoded(t, c + 128) = k
    BY <1>2, <1>3 DEF Decoded
  <2>2. Presses(t, k, AfterPress(s, k))
    BY <1>3 DEF Presses, AfterPress, Keeps
  <2>3. Releases(t, k, AfterRelease(s, k)) /\ t.down = s.down
    BY <1>3 DEF Releases, AfterRelease, Keeps
  <2>4. /\ AfterPress(s, k).ext = 0 /\ AfterPress(s, k).skip = 0
        /\ AfterRelease(s, k).ext = 0 /\ AfterRelease(s, k).skip = 0
    BY DEF AfterPress, AfterRelease
  <2>5. Reads(t, c, AfterPress(s, k))
    BY <1>2, <1>3, <2>1, <2>2, <2>4, Zenon DEF Reads
  <2>6. ASSUME k \in s.down PROVE Reads(t, c + 128, AfterRelease(s, k))
    <3>1. Decoded(t, c + 128) \in Mapped \cap t.down
      BY <2>1, <2>3, <2>6
    <3> QED
      BY <1>2, <1>3, <2>1, <2>3, <2>4, <3>1, Zenon DEF Reads
  <2> QED
    BY <2>5, <2>6
<1>4. CASE Make[k] = <<c>> /\ Break[k] = <<c + 128>> /\ scancode_to_key(c) = k
  <2>1. Keeps(s, s)
    BY DEF Keeps
  <2>2. /\ Reads(s, c, AfterPress(s, k))
        /\ k \in s.down => Reads(s, c + 128, AfterRelease(s, k))
    BY <1>3, <1>4, <2>1
  <2>3. codes \o <<c>> = Append(codes, c) /\ codes \o <<c + 128>> = Append(codes, c + 128)
    BY <1>2
  <2>4. Leads(from, Append(codes, c), AfterPress(s, k))
    BY <1>2, <2>2, LeadsOn
  <2>5. k \in s.down => Leads(from, Append(codes, c + 128), AfterRelease(s, k))
    BY <1>2, <2>2, LeadsOn
  <2> QED
    BY <1>4, <2>3, <2>4, <2>5, Zenon
<1>5. CASE Make[k] = <<224, c>> /\ Break[k] = <<224, c + 128>> /\ scancode_to_key_e0(c) = k
  <2> DEFINE t == Between(s, 1, 0)
             prefixed == Append(codes, 224)
  <2>1. t.ext = 1 /\ t.skip = 0 /\ Keeps(s, t)
    BY BetweenKeeps
  <2>2. Reads(s, 224, t)
    BY <2>1 DEF Reads
  <2> HIDE DEF t
  <2>3. prefixed \in Seq(Nat) /\ Leads(from, prefixed, t)
    BY <2>2, LeadsOn
  <2>4. /\ Reads(t, c, AfterPress(s, k))
        /\ k \in s.down => Reads(t, c + 128, AfterRelease(s, k))
    BY <1>3, <1>5, <2>1
  <2>5. /\ codes \o <<224, c>> = Append(prefixed, c)
        /\ codes \o <<224, c + 128>> = Append(prefixed, c + 128)
    BY <1>2
  <2> HIDE DEF prefixed
  <2>6. Leads(from, Append(prefixed, c), AfterPress(s, k))
    BY <1>2, <2>3, <2>4, LeadsOn
  <2>7. k \in s.down => Leads(from, Append(prefixed, c + 128), AfterRelease(s, k))
    BY <1>2, <2>3, <2>4, LeadsOn
  <2> QED
    BY <1>5, <2>5, <2>6, <2>7, Zenon
<1> QED
  BY <1>1, <1>4, <1>5

\* The fake shifts around Print Screen, and its own code, are in no table.
LEMMA PrintIsUnknown ==
    scancode_to_key_e0(42) = KeyNone /\ scancode_to_key_e0(55) = KeyNone
<1>1. 42 \notin DOMAIN E0Keys /\ 55 \notin DOMAIN E0Keys
  BY DEF E0Keys, Table
<1> QED
  BY <1>1, Zenon DEF scancode_to_key_e0

\* The codes of Print Screen change nothing (keyboard.c:418-435).
LEMMA PrintIsRead ==
    ASSUME NEW s, s.ext = 0, s.skip = 0, "PRINT" \in Key, NEW codes \in Seq(Nat), NEW from,
           Leads(from, codes, s)
    PROVE  Leads(from, codes \o Make["PRINT"], s) /\ Leads(from, codes \o Break["PRINT"], s)
<1> DEFINE t == Between(s, 1, 0)
<1>1. t.ext = 1 /\ t.skip = 0 /\ Keeps(s, t) /\ Keeps(t, s)
  BY BetweenKeeps
<1> HIDE DEF t
<1>2. Reads(s, 224, t)
  BY <1>1 DEF Reads
<1>3. ASSUME NEW c \in {42, 55, 183, 170} PROVE Reads(t, c, s)
  <2>1. c % 128 \in {42, 55} /\ c \notin {224, 225}
    BY <1>3
  <2>2. Decoded(t, c) = KeyNone
    BY <1>1, <2>1, PrintIsUnknown DEF Decoded
  <2> QED
    BY <1>1, <2>1, <2>2, Zenon DEF Reads
<1> DEFINE Two(w, c) == Append(Append(w, 224), c)
<1>4. ASSUME NEW w \in Seq(Nat), Leads(from, w, s), NEW c \in {42, 55, 183, 170}
      PROVE  Two(w, c) \in Seq(Nat) /\ Leads(from, Two(w, c), s)
  <2> DEFINE v == Append(w, 224)
  <2>1. v \in Seq(Nat) /\ Leads(from, v, t)
    BY <1>2, <1>4, LeadsOn
  <2>2. c \in Nat
    BY <1>4
  <2> HIDE DEF v
  <2>3. Append(v, c) \in Seq(Nat) /\ Leads(from, Append(v, c), s)
    BY <1>3, <1>4, <2>1, <2>2, LeadsOn
  <2> QED
    BY <2>3 DEF v
<1>5. ASSUME NEW c \in {42, 55, 183, 170}, NEW d \in {42, 55, 183, 170}
      PROVE  Leads(from, codes \o <<224, c, 224, d>>, s)
  <2> DEFINE w2 == Two(codes, c)
  <2>1. codes \o <<224, c, 224, d>> = Two(w2, d)
    BY <1>5
  <2> HIDE DEF Two
  <2>2. w2 \in Seq(Nat) /\ Leads(from, w2, s)
    BY <1>4, <1>5
  <2> HIDE DEF w2
  <2>3. Leads(from, Two(w2, d), s)
    BY <1>4, <1>5, <2>2
  <2> QED
    BY <2>1, <2>3, Zenon
<1>6. Make["PRINT"] = <<224, 42, 224, 55>> /\ Break["PRINT"] = <<224, 183, 224, 170>>
  BY CodesAssumption
<1> QED
  BY <1>5, <1>6

\* A code at the end of what is appended.
LEMMA ConcatAppend ==
    ASSUME NEW s \in Seq(Nat), NEW t \in Seq(Nat), NEW c \in Nat
    PROVE  s \o Append(t, c) = Append(s \o t, c)
OBVIOUS

\* The codes of Pause are skipped, and leave three more to skip
\* (keyboard.c:413-424).
LEMMA PauseIsRead ==
    ASSUME NEW s, s.ext = 0, s.skip \in Nat, "PAUSE" \in Key, NEW codes \in Seq(Nat), NEW from,
           Leads(from, codes, s)
    PROVE  Leads(from, codes \o Make["PAUSE"], Between(s, 0, 3))
<1> DEFINE S(n) == Between(s, 0, n)
           w1 == Append(codes, 225)
           w2 == Append(w1, 29)
           w3 == Append(w2, 69)
           w4 == Append(w3, 225)
           w5 == Append(w4, 157)
           w6 == Append(w5, 197)
<1>0. Make["PAUSE"] = <<225, 29, 69, 225, 157, 197>>
  BY CodesAssumption
<1>1. codes \o Make["PAUSE"] = w6
  <2> DEFINE a3 == <<225, 29, 69>>
             a4 == <<225, 29, 69, 225>>
             a5 == <<225, 29, 69, 225, 157>>
  <2>1. w3 = codes \o a3
    OBVIOUS
  <2>2. a3 \in Seq(Nat) /\ a4 \in Seq(Nat) /\ a5 \in Seq(Nat)
    OBVIOUS
  <2>3. /\ a4 = Append(a3, 225) /\ a5 = Append(a4, 157)
        /\ Make["PAUSE"] = Append(a5, 197)
    BY <1>0
  <2> HIDE DEF w3, a3, a4, a5
  <2>4. codes \o Append(a3, 225) = Append(codes \o a3, 225)
    BY <2>2, ConcatAppend
  <2>5. codes \o Append(a4, 157) = Append(codes \o a4, 157)
    BY <2>2, ConcatAppend
  <2>6. codes \o Append(a5, 197) = Append(codes \o a5, 197)
    BY <2>2, ConcatAppend
  <2>7. w4 = codes \o a4
    BY <2>1, <2>4, <2>3
  <2> HIDE DEF w4
  <2>8. w5 = codes \o a5
    BY <2>5, <2>7, <2>3
  <2> HIDE DEF w5
  <2>9. Make["PAUSE"] = Append(a5, 197)
    BY <2>3
  <2> QED
    BY <2>6, <2>8, <2>9
<1>2. \A n : /\ S(n).ext = 0 /\ S(n).skip = n /\ Keeps(s, S(n))
             /\ \A m : Keeps(S(m), S(n))
  BY BetweenKeeps
<1>3. Reads(s, 225, S(5)) /\ Reads(S(3), 225, S(5))
  BY <1>2, Zenon DEF Reads
<1>4. ASSUME NEW n \in {4, 5}, NEW c \in {29, 69, 157, 197}
      PROVE  Reads(S(n), c, S(n - 1))
  <2>1. c \notin {224, 225} /\ n > 0
    BY <1>4
  <2>2. /\ S(n).skip > 0 /\ S(n - 1).skip = S(n).skip - 1
        /\ S(n - 1).ext = S(n).ext /\ Keeps(S(n), S(n - 1))
    <3> HIDE DEF S
    <3> QED
      BY <1>2, <2>1
  <2> QED
    BY <2>1, <2>2, Zenon DEF Reads
<1> HIDE DEF S
<1>5. w1 \in Seq(Nat) /\ Leads(from, w1, S(5))
  BY <1>3, LeadsOn
<1> HIDE DEF w1
<1>6. w2 \in Seq(Nat) /\ Leads(from, w2, S(4))
  BY <1>4, <1>5, LeadsOn
<1> HIDE DEF w2
<1>7. w3 \in Seq(Nat) /\ Leads(from, w3, S(3))
  BY <1>4, <1>6, LeadsOn
<1> HIDE DEF w3
<1>8. w4 \in Seq(Nat) /\ Leads(from, w4, S(5))
  BY <1>3, <1>7, LeadsOn
<1> HIDE DEF w4
<1>9. w5 \in Seq(Nat) /\ Leads(from, w5, S(4))
  BY <1>4, <1>8, LeadsOn
<1> HIDE DEF w5
<1>10. Leads(from, w6, S(3))
  BY <1>4, <1>9, LeadsOn
<1> QED
  BY <1>1, <1>10 DEF S
-----------------------------------------------------------------------------
(* What keys type *)

\* Every value of the table f is in S.
Into(f, S) == \A x \in DOMAIN f : f[x] \in S

LEMMA TableInto ==
    ASSUME NEW S, NEW pairs, \A p \in pairs : p[2] \in S
    PROVE  Into(Table(pairs), S)
<1> SUFFICES ASSUME NEW x \in {p[1] : p \in pairs}
             PROVE  (CHOOSE p \in pairs : p[1] = x)[2] \in S
  BY DEF Table, Into
<1>1. \E p \in pairs : p[1] = x
  OBVIOUS
<1> QED
  BY <1>1

LEMMA SequencesAreNumbers == Into(SpecialSequences, Seq(Nat))
<1> DEFINE S == Seq(Nat)
<1>1. /\ Csi(65) \in S
      /\ Csi(66) \in S
      /\ Csi(67) \in S
      /\ Csi(68) \in S
      /\ Csi(72) \in S
      /\ Csi(70) \in S
  BY DEF Csi, Tilde, Tilde2
<1>2. /\ Tilde(50) \in S
      /\ Tilde(51) \in S
      /\ Tilde(53) \in S
      /\ Tilde(54) \in S
  BY DEF Csi, Tilde, Tilde2
<1>3. /\ Ss3(80) \in S
      /\ Ss3(81) \in S
      /\ Ss3(82) \in S
      /\ Ss3(83) \in S
  BY DEF Ss3
<1>4. /\ Tilde2(49, 53) \in S
      /\ Tilde2(49, 55) \in S
      /\ Tilde2(49, 56) \in S
      /\ Tilde2(49, 57) \in S
      /\ Tilde2(50, 48) \in S
      /\ Tilde2(50, 49) \in S
      /\ Tilde2(50, 51) \in S
      /\ Tilde2(50, 52) \in S
  BY DEF Csi, Tilde, Tilde2
<1> HIDE DEF S
<1>5. \A p \in SequencePairs : p[2] \in S
  BY <1>1, <1>2, <1>3, <1>4 DEF SequencePairs
<1> QED
  BY <1>5, TableInto DEF SpecialSequences, S

LEMMA CodesAreNumbers ==
    /\ Into(CtrlCodes, Nat) /\ Into(FixedCodes, Nat) /\ Into(KeypadCodes, Nat)
    /\ Into(ShiftPairs, Nat \X Nat)
<1>3. Into(CtrlCodes, Nat)
  BY TableInto DEF CtrlCodes
<1>4. Into(FixedCodes, Nat)
  BY TableInto DEF FixedCodes
<1>5. Into(KeypadCodes, Nat)
  BY TableInto DEF KeypadCodes
<1>6. Into(ShiftPairs, Nat \X Nat)
  BY TableInto DEF ShiftPairs
<1> QED
  BY <1>3, <1>4, <1>5, <1>6

LEMMA AlphaIsNumber ==
    ASSUME NEW key \in Letter, NEW mods, NEW locks
    PROVE  kbd_apply_alpha(key, mods, locks) \in Nat
<1> DEFINE n == CHOOSE i \in DOMAIN Letters : Letters[i] = key
<1>1. n \in DOMAIN Letters
  BY DEF Letter
<1>2. DOMAIN Letters = 1 .. 26
  BY DEF Letters
<1>3. n \in 1 .. 26
  BY <1>1, <1>2
<1>4. \/ kbd_apply_alpha(key, mods, locks) = n
      \/ kbd_apply_alpha(key, mods, locks) = 64 + n
      \/ kbd_apply_alpha(key, mods, locks) = 96 + n
  BY DEF kbd_apply_alpha
<1> HIDE DEF n
<1> QED
  BY <1>3, <1>4 

LEMMA CharIsNumber ==
    ASSUME NEW key, NEW mods, NEW locks
    PROVE  kbd_keycode_to_unicode(key, mods, locks) \in Nat
<1>1. key \in Letter => kbd_apply_alpha(key, mods, locks) \in Nat
  BY AlphaIsNumber
<1>2. /\ key \in DOMAIN CtrlCodes => CtrlCodes[key] \in Nat
      /\ key \in DOMAIN FixedCodes => FixedCodes[key] \in Nat
      /\ key \in DOMAIN KeypadCodes => KeypadCodes[key] \in Nat
      /\ key \in DOMAIN ShiftPairs => ShiftPairs[key] \in Nat \X Nat
  BY CodesAreNumbers DEF Into
<1>3. ASSUME key \in DOMAIN ShiftPairs
      PROVE  ShiftPairs[key][IF "SHIFT" \in mods THEN 2 ELSE 1] \in Nat
  BY <1>2, <1>3
<1>4. 0 \in Nat
  OBVIOUS
<1> QED
  BY <1>1, <1>2, <1>3, <1>4 DEF kbd_keycode_to_unicode

\* What a key types is a sequence of codes (keyboard.c:180-395).
LEMMA InputIsSequence ==
    ASSUME NEW key, NEW mods, NEW locks
    PROVE  InputBytes(key, mods, locks) \in Seq(Nat)
<1> DEFINE char == kbd_keycode_to_unicode(key, mods, locks)
<1>1. char \in Nat
  BY CharIsNumber
<1>2. SpecialSequence(key) \in Seq(Nat)
  BY SequencesAreNumbers DEF Into, SpecialSequence
<1> HIDE DEF char
<1>3. <<char>> \in Seq(Nat) /\ <<27>> \in Seq(Nat) /\ <<>> \in Seq(Nat)
  BY <1>1 
<1>4. <<27>> \o <<char>> \in Seq(Nat) /\ <<>> \o <<char>> \in Seq(Nat)
  BY <1>3, ConcatProperties
<1> QED
  BY <1>2, <1>4 DEF InputBytes, char

\* Print Screen and Pause type nothing, and are neither modifiers nor locks.
LEMMA NoEffect ==
    ASSUME NEW key \in {"PRINT", "PAUSE"}
    PROVE  /\ \A mods, locks : InputBytes(key, mods, locks) = <<>>
           /\ ModifierOf(key) = {} /\ LockOf(key) = {}
           /\ \A locks : Toggled(locks, key) = locks
<1>1. key \notin Letter
  BY DEF Letter, Letters
<1>2. key \notin DOMAIN CtrlCodes /\ key \notin DOMAIN ShiftPairs
  BY DEF CtrlCodes, ShiftPairs, Table
<1>3. key \notin DOMAIN FixedCodes /\ key \notin DOMAIN KeypadCodes
  BY DEF FixedCodes, KeypadCodes, Table
<1>4. key \notin DOMAIN SpecialSequences
  BY DEF SpecialSequences, SequencePairs, Table
<1>5. \A mods, locks : kbd_keycode_to_unicode(key, mods, locks) = 0
  BY <1>1, <1>2, <1>3 DEF kbd_keycode_to_unicode
<1>6. \A mods, locks : InputBytes(key, mods, locks) = <<>>
  BY <1>4, <1>5, Zenon DEF InputBytes, SpecialSequence
<1>7. ModifierOf(key) = {} /\ LockOf(key) = {}
  BY DEF ModifierOf, LockOf
<1>8. ASSUME NEW locks PROVE Toggled(locks, key) = locks
  BY DEF Toggled
<1> QED
  BY <1>6, <1>7, <1>8
-----------------------------------------------------------------------------
(* Modifiers *)

Modifies(key, m) ==
    \/ key \in {"LEFTSHIFT", "RIGHTSHIFT"} /\ m = "SHIFT"
    \/ key \in {"LEFTCTRL", "RIGHTCTRL"} /\ m = "CTRL"
    \/ key = "LEFTALT" /\ m = "ALT"
    \/ key = "RIGHTALT" /\ m = "ALTGR"
    \/ key \in {"LEFTMETA", "RIGHTMETA"} /\ m = "META"

\* A modifier is in force for the keyboard when one of its keys is held.
LEMMA ModifierKeys ==
    /\ \A key, m : m \in ModifierOf(key) <=> Modifies(key, m)
    /\ \A keys, m : m \in HeldModifiers(keys) <=> \E key \in keys : Modifies(key, m)
    /\ \A locks, key : Toggled(locks, key) = Flipped(locks, key)
<1>1. ASSUME NEW key, NEW m PROVE m \in ModifierOf(key) <=> Modifies(key, m)
  BY DEF ModifierOf, Modifies
<1>2. ASSUME NEW keys, NEW m
      PROVE  m \in HeldModifiers(keys) <=> \E key \in keys : Modifies(key, m)
  BY DEF HeldModifiers, Modifies
<1>3. ASSUME NEW locks, NEW key PROVE Toggled(locks, key) = Flipped(locks, key)
  BY DEF Toggled, Flipped, LockOf
<1> QED
  BY <1>1, <1>2, <1>3

\* The modifiers that have one key on this keyboard.
Single == {m \in Modifiers : \A i, j \in Key : Modifies(i, m) /\ Modifies(j, m) => i = j}
OneKeyPerModifier == Single = Modifiers

\* The modifiers in force are held, and those with one key are all in force.
Follow(mods, keys) ==
    /\ mods \subseteq HeldModifiers(keys)
    /\ mods \cap Single = HeldModifiers(keys) \cap Single

\* A press adds a modifier that is then held, and a release takes away one
\* that another key of it may still hold (keyboard.c:191-220).
LEMMA ModifiersFollow ==
    ASSUME NEW mods, NEW keys, NEW k, Follow(mods, keys)
    PROVE  /\ Follow(mods \cup ModifierOf(k), keys \cup {k})
           /\ keys \subseteq Key /\ k \in Key => Follow(mods \ ModifierOf(k), keys \ {k})
<1>1. Follow(mods \cup ModifierOf(k), keys \cup {k})
  BY ModifierKeys DEF Follow
<1>2. ASSUME keys \subseteq Key, k \in Key PROVE Follow(mods \ ModifierOf(k), keys \ {k})
  <2>1. \A m \in Single : \A i \in keys : Modifies(i, m) /\ Modifies(k, m) => i = k
    BY <1>2 DEF Single
  <2> QED
    BY <2>1, ModifierKeys DEF Follow
<1> QED
  BY <1>1, <1>2
-----------------------------------------------------------------------------
(* Events *)

Event == [key : Mapped, pressed : BOOLEAN, repeat : BOOLEAN]

Alternates(events) ==
    \A i, j \in DOMAIN events :
        /\ i < j
        /\ events[i].key = events[j].key
        /\ \A m \in i + 1 .. j - 1 : events[m].key # events[i].key
        => /\ events[j].repeat <=> events[i].pressed /\ events[j].pressed
           /\ ~ events[j].pressed => events[i].pressed

\* The last event of a key says whether it is down.
EndsWith(events, down) ==
    \A i \in DOMAIN events :
        (\A m \in i + 1 .. Len(events) : events[m].key # events[i].key)
            => (events[i].pressed <=> events[i].key \in down)

\* A new event fits the last one of its key (keyboard.c:436-446).
LEMMA EventIsAdded ==
    ASSUME NEW events \in Seq(Event), NEW down, NEW after, NEW e \in Event,
           Alternates(events), EndsWith(events, down),
           e.repeat <=> e.pressed /\ e.key \in down,
           ~ e.pressed => e.key \in down,
           e.pressed <=> e.key \in after,
           \A k \in Mapped : k # e.key => (k \in after <=> k \in down)
    PROVE  /\ Append(events, e) \in Seq(Event)
           /\ Alternates(Append(events, e)) /\ EndsWith(Append(events, e), after)
<1> DEFINE all == Append(events, e)
           n == Len(events)
<1>1. /\ n \in Nat /\ all \in Seq(Event) /\ Len(all) = n + 1 /\ all[n + 1] = e
      /\ \A i \in 1 .. n : all[i] = events[i]
      /\ DOMAIN events = 1 .. n /\ DOMAIN all = 1 .. n + 1
      /\ \A i \in 1 .. n : events[i] \in Event
  OBVIOUS
<1> HIDE DEF all, n
<1>2. Alternates(all)
  <2> SUFFICES ASSUME NEW i \in 1 .. n + 1, NEW j \in 1 .. n + 1, i < j, all[i].key = all[j].key,
                      \A m \in i + 1 .. j - 1 : all[m].key # all[i].key
               PROVE  /\ all[j].repeat <=> all[i].pressed /\ all[j].pressed
                      /\ ~ all[j].pressed => all[i].pressed
    BY <1>1 DEF Alternates
  <2>1. i \in 1 .. n /\ all[i] = events[i]
    BY <1>1
  <2>2. CASE j = n + 1
    <3>1. \A m \in i + 1 .. n : events[m].key # events[i].key
      BY <1>1, <2>1, <2>2
    <3>2. events[i].pressed <=> events[i].key \in down
      BY <1>1, <2>1, <3>1 DEF EndsWith, n
    <3>3. all[j] = e /\ events[i].key = e.key
      BY <1>1, <2>1, <2>2
    <3> QED
      BY <2>1, <3>2, <3>3
  <2>3. CASE j # n + 1
    <3>1. j \in 1 .. n /\ all[j] = events[j]
      BY <1>1, <2>3
    <3>2. \A m \in i + 1 .. j - 1 : events[m].key # events[i].key
      BY <1>1, <2>1, <3>1
    <3> QED
      BY <1>1, <2>1, <3>1, <3>2 DEF Alternates
  <2> QED
    BY <2>2, <2>3
<1>3. EndsWith(all, after)
  <2> SUFFICES ASSUME NEW i \in 1 .. n + 1,
                      \A m \in i + 1 .. n + 1 : all[m].key # all[i].key
               PROVE  all[i].pressed <=> all[i].key \in after
    BY <1>1 DEF EndsWith
  <2>1. CASE i = n + 1
    BY <1>1, <2>1
  <2>2. CASE i # n + 1
    <3>1. i \in 1 .. n /\ all[i] = events[i] /\ n + 1 \in i + 1 .. n + 1
      BY <1>1, <2>2
    <3>2. e.key # events[i].key
      BY <1>1, <3>1
    <3>3. \A m \in i + 1 .. n : events[m].key # events[i].key
      BY <1>1, <3>1
    <3>4. events[i].pressed <=> events[i].key \in down
      BY <1>1, <3>1, <3>3 DEF EndsWith, n
    <3>5. events[i].key \in Mapped
      BY <1>1, <3>1 DEF Event
    <3> QED
      BY <3>1, <3>2, <3>4, <3>5
  <2> QED
    BY <2>1, <2>2
<1> QED
  BY <1>1, <1>2, <1>3 DEF all

\* Taking the oldest event away leaves the others as they were.
LEMMA EventIsTaken ==
    ASSUME NEW events \in Seq(Event), events # <<>>
    PROVE  /\ Tail(events) \in Seq(Event)
           /\ Alternates(events) => Alternates(Tail(events))
           /\ \A down : EndsWith(events, down) => EndsWith(Tail(events), down)
<1> DEFINE rest == Tail(events)
           n == Len(events) - 1
<1>1. /\ n \in Nat /\ rest \in Seq(Event) /\ Len(rest) = n /\ Len(events) = n + 1
      /\ \A i \in 1 .. n : rest[i] = events[i + 1]
      /\ DOMAIN events = 1 .. n + 1 /\ DOMAIN rest = 1 .. n
  OBVIOUS
<1> HIDE DEF rest, n
<1>2. ASSUME Alternates(events) PROVE Alternates(rest)
  <2> SUFFICES ASSUME NEW i \in 1 .. n, NEW j \in 1 .. n, i < j, rest[i].key = rest[j].key,
                      \A m \in i + 1 .. j - 1 : rest[m].key # rest[i].key
               PROVE  /\ rest[j].repeat <=> rest[i].pressed /\ rest[j].pressed
                      /\ ~ rest[j].pressed => rest[i].pressed
    BY <1>1 DEF Alternates
  <2>1. /\ i + 1 \in 1 .. n + 1 /\ j + 1 \in 1 .. n + 1 /\ i + 1 < j + 1
        /\ rest[i] = events[i + 1] /\ rest[j] = events[j + 1]
    BY <1>1
  <2>2. ASSUME NEW m \in i + 1 + 1 .. j + 1 - 1 PROVE events[m].key # events[i + 1].key
    <3>1. m - 1 \in i + 1 .. j - 1 /\ m - 1 \in 1 .. n /\ m - 1 + 1 = m
      BY <1>1
    <3> QED
      BY <1>1, <2>1, <3>1
  <2> DEFINE a == i + 1
             b == j + 1
  <2>3. /\ a \in DOMAIN events /\ b \in DOMAIN events /\ a < b /\ events[a].key = events[b].key
        /\ \A m \in a + 1 .. b - 1 : events[m].key # events[a].key
    BY <1>1, <2>1, <2>2
  <2>4. rest[i] = events[a] /\ rest[j] = events[b]
    BY <2>1
  <2> HIDE DEF a, b
  <2> QED
    BY <1>2, <2>3, <2>4, Zenon DEF Alternates
<1>3. ASSUME NEW down, EndsWith(events, down) PROVE EndsWith(rest, down)
  <2> SUFFICES ASSUME NEW i \in 1 .. n,
                      \A m \in i + 1 .. n : rest[m].key # rest[i].key
               PROVE  rest[i].pressed <=> rest[i].key \in down
    BY <1>1 DEF EndsWith
  <2>1. i + 1 \in 1 .. n + 1 /\ rest[i] = events[i + 1]
    BY <1>1
  <2>2. ASSUME NEW m \in i + 1 + 1 .. n + 1 PROVE events[m].key # events[i + 1].key
    <3>1. m - 1 \in i + 1 .. n /\ m - 1 \in 1 .. n /\ m - 1 + 1 = m
      BY <1>1
    <3> QED
      BY <1>1, <2>1, <3>1
  <2> QED
    BY <1>1, <1>3, <2>1, <2>2 DEF EndsWith
<1> QED
  BY <1>1, <1>2, <1>3 DEF rest
-----------------------------------------------------------------------------
(* The invariant *)

\* All bytes the driver typed: those that were popped, those in the queue and
\* those that were dropped.
Accounts(all, taken, queue, dropped) ==
    /\ all \in Seq(Nat)
    /\ Len(all) = Len(taken) + Len(queue) + dropped
    /\ dropped = 0 => all = taken \o queue

\* The driver's variables.
Now(s) ==
    /\ s.ext = IF kbd_extended THEN 1 ELSE 0
    /\ s.skip = kbd_e1_skip /\ s.mods = kbd_modifiers
    /\ s.locks = kbd_locks /\ s.down = kbd_key_down
    /\ Accounts(s.bytes, popped, kbd_bytes, kbd_drop_byte_count)

\* The driver knows what the keys did.
AtRest(t) ==
    /\ t.ext = 0 /\ t.skip = IF paused THEN 3 ELSE 0
    /\ t.down = held \cap Mapped /\ t.locks = lit
    /\ Follow(t.mods, held)
    /\ OneKeyPerModifier => t.bytes = typed

WireInv == \E s, t : Now(s) /\ Leads(s, wire, t) /\ AtRest(t)

KbdTypes ==
    /\ held \subseteq Key /\ wire \in Seq(Nat) /\ typed \in Seq(Nat)
    /\ "PAUSE" \in held => paused
    /\ kbd_e1_skip \in Nat /\ kbd_key_down \subseteq Mapped
    /\ popped \in Seq(Nat) /\ kbd_bytes \in Seq(Nat) /\ Len(kbd_bytes) < KBD_BYTE_QUEUE_SIZE
    /\ kbd_drop_byte_count \in Nat

EventsInv ==
    /\ kbd_events \in Seq(Event) /\ kbd_drop_event_count \in Nat
    /\ kbd_drop_event_count = 0 =>
           Alternates(kbd_events) /\ EndsWith(kbd_events, kbd_key_down)

\* Nothing is claimed of the keys after a Pause.
KeyboardInv == ~ spoiled => KbdTypes /\ EventsInv /\ WireInv

\* Before the first key.
LEMMA KeyboardInitially == Init => KeyboardInv
<1> SUFFICES ASSUME Init PROVE KbdTypes /\ EventsInv /\ WireInv
  BY DEF KeyboardInv
<1> USE DEF Init
<1>1. /\ <<>> \in Seq(Nat) /\ <<>> \in Seq(Event) /\ DOMAIN <<>> = {} /\ Len(<<>>) = 0
      /\ <<>> \o <<>> = <<>>
  OBVIOUS
<1>2. KbdTypes
  BY <1>1, ByteQueueAssumption DEF KbdTypes
<1>3. EventsInv
  BY <1>1, Zenon DEF EventsInv, Alternates, EndsWith
<1> DEFINE s == [ext |-> 0, skip |-> 0, mods |-> {}, locks |-> {}, down |-> {}, bytes |-> <<>>]
<1>4. /\ s.ext = 0 /\ s.skip = 0 /\ s.mods = {} /\ s.locks = {} /\ s.down = {} /\ s.bytes = <<>>
  OBVIOUS
<1> HIDE DEF s
<1>5. Now(s)
  BY <1>1, <1>4 DEF Now, Accounts
<1>6. HeldModifiers({}) = {}
  BY ModifierKeys
<1>7. AtRest(s)
  BY <1>4, <1>6 DEF AtRest, Follow
<1>8. Leads(s, wire, s)
  BY LeadsNowhere
<1> QED
  BY <1>2, <1>3, <1>5, <1>7, <1>8 DEF WireInv

\* All modifiers that there are.
LEMMA HeldAreModifiers ==
    \A keys : HeldModifiers(keys) \subseteq Modifiers
BY ModifierKeys DEF Modifies, Modifiers

\* What a key sends are codes.
LEMMA CodesAreNumbered ==
    ASSUME NEW k \in Key
    PROVE  Make[k] \in Seq(Nat) /\ Break[k] \in Seq(Nat)
<1>1. ASSUME NEW c \in 1 .. 95
      PROVE  <<c>> \in Seq(Nat) /\ <<c + 128>> \in Seq(Nat)
             /\ <<224, c>> \in Seq(Nat) /\ <<224, c + 128>> \in Seq(Nat)
  OBVIOUS
<1>2. /\ <<224, 42, 224, 55>> \in Seq(Nat) /\ <<224, 183, 224, 170>> \in Seq(Nat)
      /\ <<225, 29, 69, 225, 157, 197>> \in Seq(Nat) /\ <<>> \in Seq(Nat)
  OBVIOUS
<1>3. ASSUME NEW c \in 1 .. 95,
             \/ Make[k] = <<c>> /\ Break[k] = <<c + 128>>
             \/ Make[k] = <<224, c>> /\ Break[k] = <<224, c + 128>>
      PROVE  Make[k] \in Seq(Nat) /\ Break[k] \in Seq(Nat)
  <2>1. <<c>> \in Seq(Nat) /\ <<c + 128>> \in Seq(Nat)
    BY <1>1
  <2>2. <<224, c>> \in Seq(Nat) /\ <<224, c + 128>> \in Seq(Nat)
    BY <1>1
  <2>3. CASE Make[k] = <<c>> /\ Break[k] = <<c + 128>>
    BY <2>1, <2>3
  <2>4. CASE Make[k] = <<224, c>> /\ Break[k] = <<224, c + 128>>
    BY <2>2, <2>4
  <2> QED
    BY <1>3, <2>3, <2>4
<1>4. CASE Make[k] = <<224, 42, 224, 55>> /\ Break[k] = <<224, 183, 224, 170>>
  BY <1>2, <1>4
<1>5. CASE Make[k] = <<225, 29, 69, 225, 157, 197>> /\ Break[k] = <<>>
  BY <1>2, <1>5
<1>6. CASE k = "PRINT"
  BY <1>4, <1>6, CodesAssumption
<1>7. CASE k = "PAUSE"
  BY <1>5, <1>7, CodesAssumption
<1>8. CASE k \notin {"PRINT", "PAUSE"}
  <2>1. PICK c \in 1 .. 95 : \/ Make[k] = <<c>> /\ Break[k] = <<c + 128>>
                             \/ Make[k] = <<224, c>> /\ Break[k] = <<224, c + 128>>
    BY <1>8, CodesAssumption
  <2> QED
    BY <1>3, <2>1
<1> QED
  BY <1>6, <1>7, <1>8

\* The driver's side of a stroke: nothing has been read yet.
LEMMA StrokeIsSent ==
    ASSUME KbdTypes, EventsInv, NEW codes \in Seq(Nat), Send(codes),
           held' \subseteq Key, typed' \in Seq(Nat), "PAUSE" \in held' => paused'
    PROVE  /\ KbdTypes' /\ EventsInv' /\ wire' = wire \o codes
           /\ \A s : Now(s) => Now(s)'
<1>1. /\ UNCHANGED <<decodeVars, stateVars, queueVars, popped>> /\ wire' = wire \o codes
      /\ wire' \in Seq(Nat)
  BY DEF Send, KbdTypes
<1>2. KbdTypes'
  BY <1>1 DEF KbdTypes, decodeVars, stateVars, queueVars
<1>3. EventsInv'
  BY <1>1 DEF EventsInv, stateVars, queueVars
<1>4. ASSUME NEW s, Now(s) PROVE Now(s)'
  BY <1>1, <1>4 DEF Now, decodeVars, stateVars, queueVars
<1> QED
  BY <1>1, <1>2, <1>3, <1>4

\* A key that goes down or repeats will have been seen once its codes are read
\* (keyboard.c:397-446).
LEMMA DownIsTold ==
    ASSUME KbdTypes, EventsInv, WireInv, NEW k \in Key, Down(k), k # "PAUSE" => ~ paused
    PROVE  KbdTypes' /\ EventsInv' /\ WireInv'
<1> DEFINE mods == HeldModifiers(held')
           bytes == InputBytes(k, mods, lit')
<1>1. /\ held' = held \cup {k} /\ lit' = Toggled(lit, k) /\ typed' = typed \o bytes
      /\ paused' = (paused \/ k = "PAUSE") /\ Send(Make[k])
  BY DEF Down, Note
<1>2. bytes \in Seq(Nat)
  BY InputIsSequence
<1>3. typed' \in Seq(Nat) /\ (bytes = <<>> => typed' = typed)
  <2> HIDE DEF bytes
  <2>1. typed \in Seq(Nat)
    BY DEF KbdTypes
  <2>2. typed \o bytes \in Seq(Nat) /\ typed \o <<>> = typed
    BY <1>2, <2>1
  <2> QED
    BY <1>1, <2>2
<1>4. held' \subseteq Key /\ ("PAUSE" \in held' => paused')
  BY <1>1 DEF KbdTypes
<1>5. /\ KbdTypes' /\ EventsInv' /\ wire' = wire \o Make[k]
      /\ \A s : Now(s) => Now(s)'
  BY <1>1, <1>3, <1>4, CodesAreNumbered, StrokeIsSent
<1>6. PICK s, t : Now(s) /\ Leads(s, wire, t) /\ AtRest(t)
  BY DEF WireInv
<1>7. wire \in Seq(Nat) /\ t.ext = 0 /\ t.skip = (IF paused THEN 3 ELSE 0)
  BY <1>6 DEF KbdTypes, AtRest
<1>8. Follow(t.mods \cup ModifierOf(k), held')
  BY <1>1, <1>6, ModifiersFollow DEF AtRest
<1>9. lit' = Flipped(t.locks, k)
  BY <1>1, <1>6, ModifierKeys DEF AtRest
<1>10. ASSUME NEW u, Leads(s, wire', u), AtRest(u)' PROVE WireInv'
  BY <1>5, <1>6, <1>10 DEF WireInv
<1> HIDE DEF mods
<1>11. CASE k \in Mapped
  <2> DEFINE u == AfterPress(t, k)
  <2>1. /\ u.ext = 0 /\ u.skip = 0 /\ u.down = t.down \cup {k}
        /\ u.mods = t.mods \cup ModifierOf(k) /\ u.locks = Flipped(t.locks, k)
        /\ u.bytes = t.bytes \o InputBytes(k, u.mods, u.locks)
    BY DEF AfterPress
  <2>2. ~ paused /\ ~ paused'
    BY <1>1, <1>11 DEF Mapped
  <2>3. Leads(s, wire', u)
    BY <1>5, <1>6, <1>7, <1>11, <2>2, KeyIsRead
  <2> HIDE DEF u
  <2>4. u.down = held' \cap Mapped
    BY <1>1, <1>6, <1>11, <2>1 DEF AtRest
  <2>5. OneKeyPerModifier => u.bytes = typed'
    <3> SUFFICES ASSUME OneKeyPerModifier PROVE u.bytes = typed'
      OBVIOUS
    <3>1. u.mods = mods
      <4>1. mods \subseteq Modifiers
        BY HeldAreModifiers DEF mods
      <4> QED
        BY <1>8, <2>1, <4>1 DEF OneKeyPerModifier, Follow, mods
    <3>2. u.locks = lit' /\ t.bytes = typed
      BY <1>6, <1>9, <2>1 DEF AtRest
    <3> QED
      BY <1>1, <2>1, <3>1, <3>2, Zenon
  <2>6. AtRest(u)'
    BY <1>8, <1>9, <2>1, <2>2, <2>4, <2>5 DEF AtRest
  <2> QED
    BY <1>5, <1>10, <2>3, <2>6
<1>12. CASE k \in {"PRINT", "PAUSE"}
  <2>1. /\ ModifierOf(k) = {} /\ lit' = lit /\ typed' = typed
    <3>1. bytes = <<>>
      BY <1>12, NoEffect
    <3> QED
      BY <1>1, <1>3, <1>12, <3>1, NoEffect
  <2>2. held' \cap Mapped = held \cap Mapped
    BY <1>1, <1>12 DEF Mapped
  <2>3. ASSUME NEW u, Keeps(t, u), u.ext = 0, u.skip = IF paused' THEN 3 ELSE 0
        PROVE  AtRest(u)'
    <3>1. /\ u.mods = t.mods /\ u.locks = lit' /\ u.down = held' \cap Mapped
          /\ OneKeyPerModifier => u.bytes = typed'
      BY <1>6, <2>1, <2>2, <2>3 DEF AtRest, Keeps
    <3>2. Follow(t.mods, held')
      <4>1. t.mods \cup {} = t.mods
        OBVIOUS
      <4> QED
        BY <1>8, <2>1, <4>1
    <3> QED
      BY <2>3, <3>1, <3>2 DEF AtRest
  <2>4. CASE k = "PRINT"
    <3>1. ~ paused /\ ~ paused'
      BY <1>1, <2>4
    <3>2. Leads(s, wire', t)
      BY <1>5, <1>6, <1>7, <2>4, <3>1, PrintIsRead
    <3>3. AtRest(t)'
      BY <1>7, <2>3, <3>1 DEF Keeps
    <3> QED
      BY <1>5, <1>10, <3>2, <3>3
  <2>5. CASE k = "PAUSE"
    <3> DEFINE u == Between(t, 0, 3)
    <3>1. Keeps(t, u) /\ u.ext = 0 /\ u.skip = 3
      BY BetweenKeeps
    <3>4. paused'
      BY <1>1, <2>5
    <3>2. Leads(s, wire', u)
      BY <1>5, <1>6, <1>7, <2>5, PauseIsRead
    <3> HIDE DEF u
    <3>3. AtRest(u)'
      BY <2>3, <3>1, <3>4
    <3> QED
      BY <1>5, <1>10, <3>2, <3>3
  <2> QED
    BY <1>12, <2>4, <2>5
<1> QED
  BY <1>11, <1>12 DEF Mapped

\* A key that goes up will have been seen to.
LEMMA UpIsTold ==
    ASSUME KbdTypes, EventsInv, WireInv, NEW k \in Key, ReleaseKey(k), k # "PAUSE" => ~ paused
    PROVE  KbdTypes' /\ EventsInv' /\ WireInv'
<1>1. /\ k \in held /\ held' = held \ {k} /\ lit' = lit /\ typed' = typed
      /\ paused' = (paused \/ k = "PAUSE") /\ Send(Break[k])
  BY DEF ReleaseKey, Note
<1>2. held' \subseteq Key /\ ("PAUSE" \in held' => paused') /\ typed' \in Seq(Nat)
      /\ (k = "PAUSE" => paused)
  BY <1>1 DEF KbdTypes
<1>3. /\ KbdTypes' /\ EventsInv' /\ wire' = wire \o Break[k]
      /\ \A s : Now(s) => Now(s)'
  BY <1>1, <1>2, CodesAreNumbered, StrokeIsSent
<1>4. PICK s, t : Now(s) /\ Leads(s, wire, t) /\ AtRest(t)
  BY DEF WireInv
<1>5. wire \in Seq(Nat) /\ t.ext = 0 /\ t.skip = (IF paused THEN 3 ELSE 0)
  BY <1>4 DEF KbdTypes, AtRest
<1>6. Follow(t.mods \ ModifierOf(k), held')
  BY <1>1, <1>4, ModifiersFollow DEF AtRest, KbdTypes
<1>7. ASSUME NEW u, Leads(s, wire', u), AtRest(u)' PROVE WireInv'
  BY <1>3, <1>4, <1>7 DEF WireInv
<1>8. CASE k \in Mapped
  <2> DEFINE u == AfterRelease(t, k)
  <2>1. /\ u.ext = 0 /\ u.skip = 0 /\ u.down = t.down \ {k}
        /\ u.mods = t.mods \ ModifierOf(k) /\ u.locks = t.locks
        /\ u.bytes = t.bytes
    BY DEF AfterRelease
  <2>2. ~ paused /\ ~ paused'
    BY <1>1, <1>8 DEF Mapped
  <2>3. k \in t.down
    BY <1>1, <1>4, <1>8 DEF AtRest
  <2>4. Leads(s, wire', u)
    BY <1>3, <1>4, <1>5, <1>8, <2>2, <2>3, KeyIsRead
  <2> HIDE DEF u
  <2>5. u.down = held' \cap Mapped
    BY <1>1, <1>4, <1>8, <2>1 DEF AtRest
  <2>6. u.locks = lit' /\ (OneKeyPerModifier => u.bytes = typed')
    BY <1>1, <1>4, <2>1 DEF AtRest
  <2>7. AtRest(u)'
    BY <1>6, <2>1, <2>2, <2>5, <2>6 DEF AtRest
  <2> QED
    BY <1>3, <1>7, <2>4, <2>7
<1>9. CASE k \in {"PRINT", "PAUSE"}
  <2>1. ModifierOf(k) = {}
    BY <1>9, NoEffect
  <2>2. held' \cap Mapped = held \cap Mapped /\ (paused' <=> paused)
    BY <1>1, <1>2, <1>9 DEF Mapped
  <2>3. AtRest(t)'
    <3>1. Follow(t.mods, held')
      <4>1. t.mods \ {} = t.mods
        OBVIOUS
      <4> QED
        BY <1>6, <2>1, <4>1
    <3> QED
      BY <1>1, <1>4, <1>5, <2>2, <3>1 DEF AtRest
  <2>4. Leads(s, wire', t)
    <3>1. CASE k = "PRINT"
      BY <1>3, <1>4, <1>5, <3>1, PrintIsRead
    <3>2. CASE k = "PAUSE"
      <4>1. Break[k] = <<>>
        BY <3>2, CodesAssumption
      <4>2. wire \o <<>> = wire
        BY <1>5
      <4> QED
        BY <1>3, <1>4, <4>1, <4>2
    <3> QED
      BY <1>9, <3>1, <3>2
  <2> QED
    BY <1>3, <1>7, <2>3, <2>4
<1> QED
  BY <1>8, <1>9 DEF Mapped

LEMMA Joined ==
    ASSUME NEW s \in Seq(Nat), NEW t \in Seq(Nat)
    PROVE  s \o t \in Seq(Nat) /\ Len(s \o t) = Len(s) + Len(t)
OBVIOUS

LEMMA JoinedTwice ==
    ASSUME NEW s \in Seq(Nat), NEW t \in Seq(Nat), NEW u \in Seq(Nat)
    PROVE  (s \o t) \o u = s \o (t \o u)
OBVIOUS

\* Of the bytes bs, n go behind the queue and the others are counted.
LEMMA SomeArePushed ==
    ASSUME NEW p \in Seq(Nat), NEW q \in Seq(Nat), NEW d \in Nat, NEW all,
           Accounts(all, p, q, d), NEW bs \in Seq(Nat), NEW n \in 0 .. Len(bs)
    PROVE  /\ q \o SubSeq(bs, 1, n) \in Seq(Nat)
           /\ Len(q \o SubSeq(bs, 1, n)) = Len(q) + n
           /\ d + Len(bs) - n \in Nat
           /\ Accounts(all \o bs, p, q \o SubSeq(bs, 1, n), d + Len(bs) - n)
<1> DEFINE fits == SubSeq(bs, 1, n)
           r == q \o fits
           e == d + Len(bs) - n
<1>1. Len(bs) \in Nat /\ Len(p) \in Nat /\ Len(q) \in Nat /\ n \in Nat /\ n <= Len(bs)
  OBVIOUS
<1>2. fits \in Seq(Nat) /\ Len(fits) = n
  OBVIOUS
<1>3. n = Len(bs) => fits = bs
  BY SubSeqFull
<1> HIDE DEF fits
<1>4. r \in Seq(Nat) /\ Len(r) = Len(q) + n
  BY <1>2, Joined, Zenon
<1>5. all \o bs \in Seq(Nat) /\ Len(all \o bs) = Len(all) + Len(bs)
  BY Joined DEF Accounts
<1>6. e \in Nat /\ (e = 0 => d = 0 /\ n = Len(bs))
  BY <1>1
<1>7. Len(all \o bs) = Len(p) + Len(r) + e
  <2>1. PICK lp, lq, lb : lp = Len(p) /\ lq = Len(q) /\ lb = Len(bs)
    OBVIOUS
  <2>2. lp + lq + d + lb = lp + (lq + n) + e
    BY <1>1, <2>1
  <2> HIDE DEF e
  <2> QED
    BY <1>4, <1>5, <2>1, <2>2, Zenon DEF Accounts
<1>8. (p \o q) \o bs = p \o (q \o bs)
  BY JoinedTwice
<1>9. e = 0 => all \o bs = p \o r
  <2> HIDE DEF e
  <2> QED
    BY <1>3, <1>6, <1>8, Zenon DEF Accounts
<1> HIDE DEF e, r
<1>10. Accounts(all \o bs, p, r, e)
  BY <1>5, <1>7, <1>9, Zenon DEF Accounts
<1> QED
  BY <1>4, <1>6, <1>10, Zenon DEF e, r, fits

\* The bytes of a key are pushed, or counted (keyboard.c:133-142, 366-380).
LEMMA BytesArePushed ==
    ASSUME KbdTypes, NEW bs \in Seq(Nat), PushBytes(bs), popped' = popped, NEW all,
           Accounts(all, popped, kbd_bytes, kbd_drop_byte_count)
    PROVE  /\ kbd_bytes' \in Seq(Nat) /\ Len(kbd_bytes') < KBD_BYTE_QUEUE_SIZE
           /\ kbd_drop_byte_count' \in Nat
           /\ Accounts(all \o bs, popped', kbd_bytes', kbd_drop_byte_count')
<1> DEFINE n == IF Len(bs) <= Room THEN Len(bs) ELSE Room
<1>1. /\ kbd_bytes \in Seq(Nat) /\ popped \in Seq(Nat) /\ kbd_drop_byte_count \in Nat
      /\ Room \in Nat /\ Len(kbd_bytes) + Room = KBD_BYTE_QUEUE_SIZE - 1
      /\ Len(bs) \in Nat /\ KBD_BYTE_QUEUE_SIZE \in Nat
  BY ByteQueueAssumption DEF KbdTypes, Room
<1>2. n \in 0 .. Len(bs) /\ n <= Room
  BY <1>1
<1>3. /\ kbd_bytes' = kbd_bytes \o SubSeq(bs, 1, n)
      /\ kbd_drop_byte_count' = kbd_drop_byte_count + Len(bs) - n
  BY DEF PushBytes
<1> HIDE DEF n
<1>4. /\ kbd_bytes' \in Seq(Nat) /\ Len(kbd_bytes') = Len(kbd_bytes) + n
      /\ kbd_drop_byte_count' \in Nat
      /\ Accounts(all \o bs, popped, kbd_bytes', kbd_drop_byte_count')
  <2> DEFINE r == kbd_bytes \o SubSeq(bs, 1, n)
             e == kbd_drop_byte_count + Len(bs) - n
  <2>1. /\ r \in Seq(Nat) /\ Len(r) = Len(kbd_bytes) + n /\ e \in Nat
        /\ Accounts(all \o bs, popped, r, e)
    BY <1>1, <1>2, SomeArePushed
  <2>2. kbd_bytes' = r /\ kbd_drop_byte_count' = e
    BY <1>3, Zenon
  <2> HIDE DEF r, e
  <2> QED
    BY <2>1, <2>2, Zenon
<1>5. Len(kbd_bytes') < KBD_BYTE_QUEUE_SIZE
  <2>1. PICK l, o, r : l = Len(kbd_bytes) /\ o = Room /\ r = Len(kbd_bytes')
    BY Zenon
  <2>2. l \in Nat /\ o \in Nat /\ l + o = KBD_BYTE_QUEUE_SIZE - 1 /\ n \in Nat /\ n <= o
        /\ r = l + n
    BY <1>1, <1>2, <1>4, <2>1
  <2>3. r < KBD_BYTE_QUEUE_SIZE
    BY <1>1, <2>2
  <2> QED
    BY <2>1, <2>3
<1> QED
  BY <1>4, <1>5, Zenon

\* A code that only changes the decoder's own state.
LEMMA QuietlyRead ==
    ASSUME KbdTypes, EventsInv, ReadPort, UNCHANGED <<stateVars, queueVars>>,
           kbd_e1_skip' \in Nat, NEW s, NEW r, Now(s), Keeps(s, r),
           r.ext = IF kbd_extended' THEN 1 ELSE 0, r.skip = kbd_e1_skip'
    PROVE  KbdTypes' /\ EventsInv' /\ Now(r)'
<1>1. /\ UNCHANGED <<held, strokes, lit, typed, paused, spoiled, popped>>
      /\ wire # <<>> /\ wire' = Tail(wire)
  BY DEF ReadPort
<1>2. wire' \in Seq(Nat)
  BY <1>1 DEF KbdTypes
<1>3. KbdTypes'
  BY <1>1, <1>2 DEF KbdTypes, stateVars, queueVars
<1>4. EventsInv'
  BY DEF EventsInv, stateVars, queueVars
<1>5. Now(r)'
  BY <1>1 DEF Now, Keeps, stateVars, queueVars
<1> QED
  BY <1>3, <1>4, <1>5

\* The key of a code is pressed or released (keyboard.c:436-446).
LEMMA KeyIsHandled ==
    ASSUME KbdTypes, EventsInv, ReadPort, kbd_extended' = FALSE, kbd_e1_skip' = 0,
           NEW key \in Mapped, NEW pressed \in BOOLEAN, HandleKey(key, pressed),
           NEW s, NEW r, Now(s), r.ext = 0, r.skip = 0,
           pressed => Presses(s, key, r),
           ~ pressed => key \in s.down /\ Releases(s, key, r)
    PROVE  KbdTypes' /\ EventsInv' /\ Now(r)'
<1> DEFINE e == [key |-> key, pressed |-> pressed, repeat |-> pressed /\ key \in kbd_key_down]
           bs == IF pressed THEN InputBytes(key, kbd_modifiers', kbd_locks') ELSE <<>>
<1>1. /\ UNCHANGED <<held, strokes, lit, typed, paused, spoiled, popped>>
      /\ wire # <<>> /\ wire' = Tail(wire)
  BY DEF ReadPort
<1>2. wire' \in Seq(Nat)
  BY <1>1 DEF KbdTypes
<1>3. /\ s.mods = kbd_modifiers /\ s.locks = kbd_locks /\ s.down = kbd_key_down
      /\ Accounts(s.bytes, popped, kbd_bytes, kbd_drop_byte_count)
  BY DEF Now
<1>4. /\ kbd_key_down' = IF pressed THEN kbd_key_down \cup {key} ELSE kbd_key_down \ {key}
      /\ kbd_push_event(e) /\ PushBytes(bs)
  BY DEF HandleKey
<1>5. /\ kbd_modifiers' = IF pressed THEN kbd_modifiers \cup ModifierOf(key)
                                     ELSE kbd_modifiers \ ModifierOf(key)
      /\ kbd_locks' = IF pressed THEN Flipped(kbd_locks, key) ELSE kbd_locks
  BY DEF HandleKey, kbd_set_modifier_bit, kbd_toggle_lock, Flipped
<1>6. bs \in Seq(Nat)
  <2>1. InputBytes(key, kbd_modifiers', kbd_locks') \in Seq(Nat)
    BY InputIsSequence
  <2>2. <<>> \in Seq(Nat)
    OBVIOUS
  <2> QED
    BY <2>1, <2>2, Zenon
<1>7. /\ r.mods = kbd_modifiers' /\ r.locks = kbd_locks' /\ r.down = kbd_key_down'
  <2>1. CASE pressed
    BY <1>3, <1>4, <1>5, <2>1 DEF Presses
  <2>2. CASE ~ pressed
    BY <1>3, <1>4, <1>5, <2>2 DEF Releases
  <2> QED
    BY <2>1, <2>2
<1>8. r.bytes = s.bytes \o bs
  <2>1. CASE pressed
    BY <1>7, <2>1, Zenon DEF Presses
  <2>2. CASE ~ pressed
    <3>1. s.bytes \in Seq(Nat)
      BY <1>3 DEF Accounts
    <3>2. s.bytes \o <<>> = s.bytes
      BY <3>1
    <3> QED
      BY <2>2, <3>2, Zenon DEF Releases
  <2> QED
    BY <2>1, <2>2
<1>9. /\ kbd_bytes' \in Seq(Nat) /\ Len(kbd_bytes') < KBD_BYTE_QUEUE_SIZE
      /\ kbd_drop_byte_count' \in Nat
      /\ Accounts(s.bytes \o bs, popped', kbd_bytes', kbd_drop_byte_count')
  <2> HIDE DEF bs
  <2> QED
    BY <1>1, <1>3, <1>4, <1>6, BytesArePushed
<1>10. Now(r)'
  BY <1>7, <1>8, <1>9, Zenon DEF Now
<1>11. KbdTypes'
  <2>1. kbd_key_down' \subseteq Mapped
    BY <1>4 DEF KbdTypes
  <2>2. 0 \in Nat
    OBVIOUS
  <2> QED
    BY <1>1, <1>2, <1>9, <2>1, <2>2, Zenon DEF KbdTypes
<1>12. e \in Event /\ e.key = key /\ e.pressed = pressed
       /\ e.repeat = (pressed /\ key \in kbd_key_down)
  BY DEF Event
<1> HIDE DEF e
<1>13. CASE Len(kbd_events) + 1 < KBD_EVENT_QUEUE_SIZE
  <2>1. kbd_events' = Append(kbd_events, e) /\ kbd_drop_event_count' = kbd_drop_event_count
    BY <1>4, <1>13 DEF kbd_push_event
  <2>2. /\ e.pressed <=> e.key \in kbd_key_down'
        /\ \A k \in Mapped : k # e.key => (k \in kbd_key_down' <=> k \in kbd_key_down)
        /\ ~ e.pressed => e.key \in kbd_key_down
        /\ e.repeat <=> e.pressed /\ e.key \in kbd_key_down
    BY <1>3, <1>4, <1>12
  <2>3. kbd_events \in Seq(Event) /\ Append(kbd_events, e) \in Seq(Event)
    BY <1>12 DEF EventsInv
  <2>4. ASSUME kbd_drop_event_count = 0
        PROVE  Alternates(Append(kbd_events, e)) /\ EndsWith(Append(kbd_events, e), kbd_key_down')
    <3>1. Alternates(kbd_events) /\ EndsWith(kbd_events, kbd_key_down)
      BY <2>4 DEF EventsInv
    <3> QED
      BY <1>12, <2>2, <2>3, <3>1, EventIsAdded
  <2> QED
    BY <1>10, <1>11, <2>1, <2>3, <2>4 DEF EventsInv
<1>14. CASE ~ (Len(kbd_events) + 1 < KBD_EVENT_QUEUE_SIZE)
  <2>1. kbd_events' = kbd_events /\ kbd_drop_event_count' = kbd_drop_event_count + 1
    BY <1>4, <1>14 DEF kbd_push_event
  <2>2. kbd_drop_event_count' \in Nat /\ kbd_drop_event_count' # 0
    BY <2>1 DEF EventsInv
  <2> QED
    BY <1>10, <1>11, <2>1, <2>2 DEF EventsInv
<1> QED
  BY <1>13, <1>14

LEMMA NoKeyIsNone == KeyNone \notin Mapped
BY CodesAssumption DEF Mapped

\* The handler follows the codes that were sent (keyboard.c:397-446).
LEMMA CodeIsRead ==
    ASSUME KbdTypes, EventsInv, WireInv, keyboard_on_irq
    PROVE  KbdTypes' /\ EventsInv' /\ WireInv'
<1>1. ReadPort
  BY DEF keyboard_on_irq, OnE0, OnE1, OnSkipped, OnCode
<1>2. /\ UNCHANGED <<held, lit, typed, paused>>
      /\ wire # <<>> /\ wire' = Tail(wire)
  BY <1>1 DEF ReadPort
<1>3. PICK s, t : Now(s) /\ Leads(s, wire, t) /\ AtRest(t)
  BY DEF WireInv
<1>4. wire \in Seq(Nat)
  BY DEF KbdTypes
<1>5. PICK r : Reads(s, Scancode, r) /\ Leads(r, wire', t)
  BY <1>2, <1>3, <1>4, LeadsFirst DEF Scancode
<1>6. AtRest(t)'
  BY <1>2, <1>3 DEF AtRest
<1>7. ASSUME Now(r)' PROVE WireInv'
  BY <1>5, <1>6, <1>7 DEF WireInv
<1>8. PICK c : c = Scancode
  BY Zenon
<1>9. /\ s.ext = (IF kbd_extended THEN 1 ELSE 0) /\ s.skip = kbd_e1_skip /\ kbd_e1_skip \in Nat
  BY <1>3 DEF Now, KbdTypes
<1>10. Reads(s, c, r)
  BY <1>5, <1>8
<1>11. c \in Nat
  BY <1>2, <1>4, <1>8 DEF Scancode
<1>12. CASE OnE0
  <2>1. /\ c = 224 /\ kbd_extended' = TRUE /\ kbd_e1_skip' = kbd_e1_skip
        /\ UNCHANGED <<stateVars, queueVars>>
    BY <1>8, <1>12 DEF OnE0
  <2>2. r.ext = 1 /\ r.skip = s.skip /\ Keeps(s, r)
    BY <1>10, <2>1 DEF Reads
  <2> QED
    BY <1>1, <1>3, <1>7, <1>9, <2>1, <2>2, QuietlyRead
<1>13. CASE OnE1
  <2>1. /\ c = 225 /\ kbd_extended' = kbd_extended /\ kbd_e1_skip' = 5
        /\ UNCHANGED <<stateVars, queueVars>>
    BY <1>8, <1>13 DEF OnE1
  <2>2. r.ext = s.ext /\ r.skip = 5 /\ Keeps(s, r)
    BY <1>10, <2>1 DEF Reads
  <2> QED
    BY <1>1, <1>3, <1>7, <1>9, <2>1, <2>2, QuietlyRead
<1>14. CASE OnSkipped
  <2>1. /\ c \notin {224, 225} /\ kbd_extended' = kbd_extended /\ kbd_e1_skip > 0
        /\ kbd_e1_skip' = kbd_e1_skip - 1
        /\ UNCHANGED <<stateVars, queueVars>>
    BY <1>8, <1>14 DEF OnSkipped
  <2>2. r.ext = s.ext /\ r.skip = s.skip - 1 /\ Keeps(s, r)
    BY <1>9, <1>10, <2>1 DEF Reads
  <2>3. kbd_e1_skip' \in Nat
    BY <1>9, <2>1
  <2> QED
    BY <1>1, <1>3, <1>7, <1>9, <2>1, <2>2, <2>3, QuietlyRead
<1>15. CASE OnCode
  <2>1. /\ c \notin {224, 225} /\ kbd_e1_skip = 0 /\ kbd_extended' = FALSE
        /\ kbd_e1_skip' = kbd_e1_skip
        /\ IF KeyOf(c) = KeyNone THEN UNCHANGED <<stateVars, queueVars>>
                                 ELSE HandleKey(KeyOf(c), c < 128)
    BY <1>8, <1>15 DEF OnCode
  <2>2. Decoded(s, c) = KeyOf(c)
    BY <1>9 DEF Decoded, KeyOf
  <2> DEFINE key == KeyOf(c)
  <2> HIDE DEF key
  <2>3. /\ r.ext = 0 /\ r.skip = 0
        /\ \/ key = KeyNone /\ Keeps(s, r)
           \/ key \in Mapped /\ c < 128 /\ Presses(s, key, r)
           \/ key \in Mapped \cap s.down /\ c >= 128 /\ Releases(s, key, r)
    BY <1>9, <1>10, <2>1, <2>2 DEF Reads, key
  <2>4. CASE key = KeyNone
    <3>1. Keeps(s, r) /\ UNCHANGED <<stateVars, queueVars>>
      BY <2>1, <2>3, <2>4, NoKeyIsNone DEF key
    <3> QED
      BY <1>1, <1>3, <1>7, <2>1, <2>3, <3>1, QuietlyRead
  <2>5. CASE key # KeyNone
    <3>1. HandleKey(key, c < 128)
      BY <2>1, <2>5 DEF key
    <3>2. kbd_e1_skip' = 0
      BY <2>1
    <3>3. CASE c < 128
      <4>1. key \in Mapped /\ Presses(s, key, r)
        BY <1>11, <2>3, <2>5, <3>3
      <4>2. HandleKey(key, TRUE)
        BY <3>1, <3>3
      <4>3. KbdTypes' /\ EventsInv' /\ Now(r)'
        BY <1>1, <1>3, <2>1, <2>3, <3>2, <4>1, <4>2, KeyIsHandled
      <4> QED
        BY <1>7, <4>3
    <3>4. CASE ~ (c < 128)
      <4>1. key \in Mapped /\ key \in s.down /\ Releases(s, key, r)
        BY <1>11, <2>3, <2>5, <3>4
      <4>2. HandleKey(key, FALSE)
        <5>1. (c < 128) = FALSE
          BY <3>4
        <5> QED
          BY <3>1, <5>1, Zenon
      <4>3. KbdTypes' /\ EventsInv' /\ Now(r)'
        BY <1>1, <1>3, <2>1, <2>3, <3>2, <4>1, <4>2, KeyIsHandled
      <4> QED
        BY <1>7, <4>3
    <3> QED
      BY <3>3, <3>4
  <2> QED
    BY <2>4, <2>5
<1> QED
  BY <1>12, <1>13, <1>14, <1>15 DEF keyboard_on_irq

\* A byte moves from the queue to those that were popped.
LEMMA ByteIsTaken ==
    ASSUME NEW p \in Seq(Nat), NEW q \in Seq(Nat), q # <<>>, NEW d \in Nat, NEW all,
           Accounts(all, p, q, d)
    PROVE  /\ Append(p, Head(q)) \in Seq(Nat) /\ Tail(q) \in Seq(Nat) /\ Len(Tail(q)) < Len(q)
           /\ Accounts(all, Append(p, Head(q)), Tail(q), d)
<1>1. /\ Head(q) \in Nat /\ Append(p, Head(q)) \in Seq(Nat) /\ Tail(q) \in Seq(Nat)
      /\ Len(Append(p, Head(q))) = Len(p) + 1 /\ Len(Tail(q)) = Len(q) - 1
      /\ Len(p) \in Nat /\ Len(q) \in Nat
  OBVIOUS
<1>2. Append(p, Head(q)) \o Tail(q) = p \o q
  OBVIOUS
<1>3. Len(Append(p, Head(q))) + Len(Tail(q)) + d = Len(p) + Len(q) + d
  BY <1>1
<1>4. Accounts(all, Append(p, Head(q)), Tail(q), d)
  BY <1>2, <1>3, Zenon DEF Accounts
<1> QED
  BY <1>1, <1>4

LEMMA CharIsPopped ==
    ASSUME KbdTypes, EventsInv, WireInv, keyboard_pop_char
    PROVE  KbdTypes' /\ EventsInv' /\ WireInv'
<1>1. /\ kbd_bytes # <<>> /\ kbd_bytes' = Tail(kbd_bytes)
      /\ kbd_drop_byte_count' = kbd_drop_byte_count
      /\ popped' = Append(popped, Head(kbd_bytes))
      /\ UNCHANGED <<deviceVars, decodeVars, stateVars, kbd_events, kbd_drop_event_count>>
  BY DEF keyboard_pop_char, PopByte
<1>2. PICK s, t : Now(s) /\ Leads(s, wire, t) /\ AtRest(t)
  BY DEF WireInv
<1>3. /\ popped \in Seq(Nat) /\ kbd_bytes \in Seq(Nat) /\ kbd_drop_byte_count \in Nat
      /\ Len(kbd_bytes) < KBD_BYTE_QUEUE_SIZE
  BY DEF KbdTypes
<1>4. Accounts(s.bytes, popped, kbd_bytes, kbd_drop_byte_count)
  BY <1>2 DEF Now
<1>5. /\ popped' \in Seq(Nat) /\ kbd_bytes' \in Seq(Nat)
      /\ Len(kbd_bytes') < Len(kbd_bytes)
      /\ Accounts(s.bytes, popped', kbd_bytes', kbd_drop_byte_count')
  BY <1>1, <1>3, <1>4, ByteIsTaken, Zenon
<1>6. Len(kbd_bytes') < KBD_BYTE_QUEUE_SIZE
  <2>1. PICK m, n : m = Len(kbd_bytes') /\ n = Len(kbd_bytes)
    BY Zenon
  <2>2. m \in Nat /\ n \in Nat /\ m < n /\ n < KBD_BYTE_QUEUE_SIZE
    BY <1>3, <1>5, <2>1
  <2>3. m < KBD_BYTE_QUEUE_SIZE
    BY <2>2, ByteQueueAssumption
  <2> QED
    BY <2>1, <2>3, Zenon
<1>7. /\ UNCHANGED <<held, wire, lit, typed, paused>>
      /\ UNCHANGED <<kbd_extended, kbd_e1_skip, kbd_modifiers, kbd_locks, kbd_key_down>>
      /\ UNCHANGED <<kbd_events, kbd_drop_event_count>>
  BY <1>1 DEF deviceVars, decodeVars, stateVars
<1>8. KbdTypes'
  BY <1>1, <1>5, <1>6, <1>7, Zenon DEF KbdTypes
<1>9. EventsInv'
  BY <1>7 DEF EventsInv
<1>10. Now(s)'
  BY <1>2, <1>5, <1>7 DEF Now
<1>11. AtRest(t)' /\ Leads(s, wire', t)
  BY <1>2, <1>7 DEF AtRest
<1> QED
  BY <1>8, <1>9, <1>10, <1>11 DEF WireInv

LEMMA EventIsPopped ==
    ASSUME KbdTypes, EventsInv, WireInv, keyboard_pop_event
    PROVE  KbdTypes' /\ EventsInv' /\ WireInv'
<1>1. /\ kbd_events # <<>> /\ kbd_events' = Tail(kbd_events)
      /\ UNCHANGED <<held, wire, lit, typed, paused>>
      /\ UNCHANGED <<kbd_extended, kbd_e1_skip, kbd_modifiers, kbd_locks, kbd_key_down>>
      /\ UNCHANGED <<popped, kbd_bytes, kbd_drop_byte_count, kbd_drop_event_count>>
  BY DEF keyboard_pop_event, deviceVars, decodeVars, stateVars
<1>2. KbdTypes'
  BY <1>1 DEF KbdTypes
<1>3. EventsInv'
  BY <1>1, EventIsTaken DEF EventsInv
<1>4. PICK s, t : Now(s) /\ Leads(s, wire, t) /\ AtRest(t)
  BY DEF WireInv
<1>5. Now(s)'
  BY <1>1, <1>4 DEF Now
<1>6. AtRest(t)' /\ Leads(s, wire', t)
  BY <1>1, <1>4 DEF AtRest
<1> QED
  BY <1>2, <1>3, <1>5, <1>6 DEF WireInv

LEMMA KeyboardStep == KeyboardInv /\ [Next]_vars => KeyboardInv'
<1> SUFFICES ASSUME KeyboardInv, [Next]_vars, ~ spoiled' PROVE KbdTypes' /\ EventsInv' /\ WireInv'
  BY DEF KeyboardInv
<1>1. CASE UNCHANGED vars
  <2>1. /\ UNCHANGED <<held, wire, lit, typed, paused, spoiled>>
        /\ UNCHANGED <<kbd_extended, kbd_e1_skip, kbd_modifiers, kbd_locks, kbd_key_down>>
        /\ UNCHANGED <<popped, kbd_bytes, kbd_drop_byte_count>>
        /\ UNCHANGED <<kbd_events, kbd_drop_event_count>>
    BY <1>1 DEF vars, deviceVars, decodeVars, stateVars, queueVars
  <2>2. KbdTypes /\ EventsInv /\ WireInv
    BY <2>1 DEF KeyboardInv
  <2>3. KbdTypes'
    BY <2>1, <2>2 DEF KbdTypes
  <2>4. EventsInv'
    BY <2>1, <2>2 DEF EventsInv
  <2>5. PICK s, t : Now(s) /\ Leads(s, wire, t) /\ AtRest(t)
    BY <2>2 DEF WireInv
  <2>6. Now(s)'
    BY <2>1, <2>5 DEF Now
  <2>7. AtRest(t)' /\ Leads(s, wire', t)
    BY <2>1, <2>5 DEF AtRest
  <2> QED
    BY <2>3, <2>4, <2>6, <2>7 DEF WireInv
<1>2. ASSUME NEW k \in Key, PressKey(k) \/ RepeatKey(k)
      PROVE  KbdTypes' /\ EventsInv' /\ WireInv'
  <2>1. Down(k)
    BY <1>2 DEF PressKey, RepeatKey
  <2>2. ~ spoiled /\ (k # "PAUSE" => ~ paused)
    BY <2>1 DEF Down, Note
  <2> QED
    BY <2>1, <2>2, DownIsTold DEF KeyboardInv
<1>3. ASSUME NEW k \in Key, ReleaseKey(k) PROVE KbdTypes' /\ EventsInv' /\ WireInv'
  <2>1. ~ spoiled /\ (k # "PAUSE" => ~ paused)
    BY <1>3 DEF ReleaseKey, Note
  <2> QED
    BY <1>3, <2>1, UpIsTold DEF KeyboardInv
<1>4. CASE keyboard_on_irq
  <2>1. ~ spoiled
    BY <1>4 DEF keyboard_on_irq, OnE0, OnE1, OnSkipped, OnCode, ReadPort
  <2> QED
    BY <1>4, <2>1, CodeIsRead DEF KeyboardInv
<1>5. CASE keyboard_pop_char
  <2>1. ~ spoiled
    BY <1>5 DEF keyboard_pop_char, deviceVars
  <2> QED
    BY <1>5, <2>1, CharIsPopped DEF KeyboardInv
<1>6. CASE keyboard_pop_event
  <2>1. ~ spoiled
    BY <1>6 DEF keyboard_pop_event, deviceVars
  <2> QED
    BY <1>6, <2>1, EventIsPopped DEF KeyboardInv
<1> QED
  BY <1>1, <1>2, <1>3, <1>4, <1>5, <1>6 DEF Next

\* Whatever is still on the wire, reading it takes the driver to a state in
\* which it knows what the keys did (keyboard.c:397-446).
THEOREM KeyboardInvariant == Spec => []KeyboardInv
BY KeyboardInitially, KeyboardStep, PTL DEF Spec
-----------------------------------------------------------------------------
\* With nothing left to read, it is there.
LEMMA AllIsRead ==
    ASSUME KeyboardInv, CaughtUp
    PROVE  \E s : Now(s) /\ AtRest(s) /\ KbdTypes
<1>1. KbdTypes /\ WireInv /\ wire = <<>>
  BY DEF KeyboardInv, CaughtUp
<1>2. PICK s, t : Now(s) /\ Leads(s, wire, t) /\ AtRest(t)
  BY <1>1 DEF WireInv
<1>3. t = s
  BY <1>1, <1>2, LeadsNowhere, Zenon
<1> QED
  BY <1>1, <1>2, <1>3

\* Once every code is read, the keys the driver takes to be down are the keys
\* that are down, for every set of keys (keyboard.c:409-446).
THEOREM KeyboardKeysTracked == Spec => []KeysTracked
<1>1. ASSUME KeyboardInv PROVE KeysTracked
  <2> SUFFICES ASSUME CaughtUp PROVE kbd_key_down = held \cap Mapped
    BY DEF KeysTracked
  <2> QED
    BY <1>1, AllIsRead DEF Now, AtRest
<1> QED
  BY <1>1, KeyboardInvariant, PTL

\* No code of Print Screen or of Pause is ever taken for a key (keyboard.c:409-435).
THEOREM KeyboardNoGhostKeys == Spec => []NoGhostKeys
<1>1. ASSUME KeyboardInv PROVE NoGhostKeys
  <2> SUFFICES ASSUME ~ spoiled, NEW key,
                      key \in kbd_key_down \/ \E i \in DOMAIN kbd_events : key = kbd_events[i].key
               PROVE  key \in Mapped
    BY DEF NoGhostKeys
  <2>1. kbd_key_down \subseteq Mapped /\ kbd_events \in Seq(Event)
    BY <1>1 DEF KeyboardInv, KbdTypes, EventsInv
  <2>2. \A i \in DOMAIN kbd_events : kbd_events[i] \in Event
    BY <2>1
  <2> QED
    BY <2>1, <2>2 DEF Event
<1> QED
  BY <1>1, KeyboardInvariant, PTL

\* No modifier is stuck, whatever order its keys go up in (keyboard.c:191-220).
THEOREM KeyboardModifiersNotStuck == Spec => []ModifiersNotStuck
<1>1. {"ALT", "ALTGR"} \subseteq Single
  BY DEF Single, Modifiers, Modifies
<1>2. ASSUME KeyboardInv PROVE ModifiersNotStuck
  <2> SUFFICES ASSUME CaughtUp
               PROVE  /\ kbd_modifiers \subseteq HeldModifiers(held)
                      /\ kbd_modifiers \cap {"ALT", "ALTGR"}
                           = HeldModifiers(held) \cap {"ALT", "ALTGR"}
    BY DEF ModifiersNotStuck
  <2>1. Follow(kbd_modifiers, held)
    BY <1>2, AllIsRead DEF Now, AtRest
  <2> QED
    BY <1>1, <2>1 DEF Follow
<1> QED
  BY <1>2, KeyboardInvariant, PTL

\* On a keyboard with one key for each modifier, the bytes are what the keys
\* should have typed, and a lost byte is counted (keyboard.c:133-142, 366-380).
\* With two Shift keys held, releasing one ends the shift and the bytes differ.
THEOREM KeyboardBytesMatch == Spec => [](OneKeyPerModifier => BytesMatchStrokes)
<1>1. ASSUME KeyboardInv PROVE OneKeyPerModifier => BytesMatchStrokes
  <2> SUFFICES ASSUME OneKeyPerModifier, CaughtUp
               PROVE  /\ kbd_drop_byte_count = 0 => popped \o kbd_bytes = typed
                      /\ Len(popped) + Len(kbd_bytes) + kbd_drop_byte_count = Len(typed)
    BY DEF BytesMatchStrokes
  <2>1. PICK s : Now(s) /\ AtRest(s) /\ KbdTypes
    BY <1>1, AllIsRead
  <2>2. s.bytes = typed
    BY <1>1, <2>1 DEF AtRest
  <2>3. Accounts(typed, popped, kbd_bytes, kbd_drop_byte_count)
    BY <2>1, <2>2 DEF Now
  <2> QED
    BY <2>3, Zenon DEF Accounts
<1> QED
  BY <1>1, KeyboardInvariant, PTL

\* Presses, repeats and releases of a key follow each other in the event queue
\* as long as no event was dropped (keyboard.c:436-446).
THEOREM KeyboardEventsAlternate == Spec => []EventsAlternate
<1>1. ASSUME KeyboardInv PROVE EventsAlternate
  BY <1>1 DEF KeyboardInv, EventsInv, EventsAlternate, Alternates
<1> QED
  BY <1>1, KeyboardInvariant, PTL
=============================================================================
