-------------------------- MODULE InterruptsProofs --------------------------
(***************************************************************************)
(* Every interrupt runs its device's handler and is acknowledged, for all  *)
(* masks the firmware may leave, all other devices, and whatever the lines *)
(* do while the boot code programs the controllers.                        *)
(***************************************************************************)
EXTENDS Interrupts, SequenceTheorems, TLAPS

\* The boot code by the number of steps taken (kernel.c:52-86, pic.c:15-41).
LEMMA BootIs ==
    /\ Boot[1] = [op |-> "idt"] /\ Boot[2] = [op |-> "save"]
    /\ Boot[3] = Out("m", "icw1", 17) /\ Boot[4] = Out("s", "icw1", 17)
    /\ Boot[5] = Out("m", "data", 32) /\ Boot[6] = Out("s", "data", 40)
    /\ Boot[7] = Out("m", "data", 4) /\ Boot[8] = Out("s", "data", 2)
    /\ Boot[9] = Out("m", "data", 1) /\ Boot[10] = Out("s", "data", 1)
    /\ Boot[11] = [op |-> "restore", chip |-> "m"]
    /\ Boot[12] = [op |-> "restore", chip |-> "s"]
    /\ \A k \in 12 .. 27 : Boot[k + 1] = [op |-> "mask", line |-> k - 12]
    /\ \A k \in 28 .. 30 : Boot[k + 1] = [op |-> "unmask", line |-> k - 28]
    /\ Boot[32] = [op |-> "pit"] /\ Boot[33] = [op |-> "sti"]
<1> DEFINE a == << [op |-> "idt"] >>
           b == pic_remap(32, 40)
           e == << [op |-> "pit"], [op |-> "sti"] >>
           ab == a \o b
           abc == ab \o MaskAll
           abcd == abc \o Unmask
<1>1. Len(a) = 1 /\ Len(b) = 11 /\ Len(e) = 2 /\ Len(MaskAll) = 16 /\ Len(Unmask) = 3
  BY DEF pic_remap, MaskAll, Unmask
<1>2. Boot = abcd \o e
  BY DEF Boot
<1> DEFINE S == {a[i] : i \in 1 .. 1} \cup {b[i] : i \in 1 .. 11} \cup {e[i] : i \in 1 .. 2}
                \cup {MaskAll[i] : i \in 1 .. 16} \cup {Unmask[i] : i \in 1 .. 3}
<1>3. a \in Seq(S) /\ b \in Seq(S) /\ e \in Seq(S) /\ MaskAll \in Seq(S) /\ Unmask \in Seq(S)
  <2>1. MaskAll \in Seq({MaskAll[i] : i \in 1 .. 16}) /\ Unmask \in Seq({Unmask[i] : i \in 1 .. 3})
    BY DEF MaskAll, Unmask
  <2> QED
    BY <2>1 DEF pic_remap
<1> HIDE DEF S, a, b, e
<1>4t. ab \in Seq(S) /\ Len(ab) = 12
  <2>1. ab \in Seq(S) /\ Len(ab) = Len(a) + Len(b)
    BY <1>3, ConcatProperties
  <2> QED
    BY <1>1, <2>1
<1>4. \A i \in 1 .. 12 : ab[i] = IF i <= 1 THEN a[i] ELSE b[i - 1]
  <2>1. \A i \in 1 .. Len(a) + Len(b) :
            ab[i] = IF i <= Len(a) THEN a[i] ELSE b[i - Len(a)]
    BY <1>3, ConcatProperties
  <2>2. Len(a) = 1 /\ Len(b) = 11
    BY <1>1
  <2> SUFFICES ASSUME NEW i \in 1 .. 12
               PROVE  ab[i] = IF i <= 1 THEN a[i] ELSE b[i - 1]
    OBVIOUS
  <2>3. i \in 1 .. Len(a) + Len(b)
    BY <2>2
  <2>4. ab[i] = IF i <= Len(a) THEN a[i] ELSE b[i - Len(a)]
    BY <2>1, <2>3, Zenon
  <2> QED
    BY <2>2, <2>4
<1> HIDE DEF ab
<1>5t. abc \in Seq(S) /\ Len(abc) = 28
  <2>1. abc \in Seq(S) /\ Len(abc) = Len(ab) + Len(MaskAll)
    BY <1>3, <1>4t, ConcatProperties
  <2> QED
    BY <1>1, <2>1, <1>4t
<1>5. \A i \in 1 .. 28 : abc[i] = IF i <= 12 THEN ab[i] ELSE MaskAll[i - 12]
  <2>1. \A i \in 1 .. Len(ab) + Len(MaskAll) :
            abc[i] = IF i <= Len(ab) THEN ab[i] ELSE MaskAll[i - Len(ab)]
    BY <1>3, <1>4t, ConcatProperties
  <2>2. Len(ab) = 12 /\ Len(MaskAll) = 16
    BY <1>1, <1>4t
  <2> SUFFICES ASSUME NEW i \in 1 .. 28
               PROVE  abc[i] = IF i <= 12 THEN ab[i] ELSE MaskAll[i - 12]
    OBVIOUS
  <2>3. i \in 1 .. Len(ab) + Len(MaskAll)
    BY <2>2
  <2>4. abc[i] = IF i <= Len(ab) THEN ab[i] ELSE MaskAll[i - Len(ab)]
    BY <2>1, <2>3, Zenon
  <2> QED
    BY <2>2, <2>4
<1> HIDE DEF abc
<1>6t. abcd \in Seq(S) /\ Len(abcd) = 31
  <2>1. abcd \in Seq(S) /\ Len(abcd) = Len(abc) + Len(Unmask)
    BY <1>3, <1>5t, ConcatProperties
  <2> QED
    BY <1>1, <2>1, <1>5t
<1>6. \A i \in 1 .. 31 : abcd[i] = IF i <= 28 THEN abc[i] ELSE Unmask[i - 28]
  <2>1. \A i \in 1 .. Len(abc) + Len(Unmask) :
            abcd[i] = IF i <= Len(abc) THEN abc[i] ELSE Unmask[i - Len(abc)]
    BY <1>3, <1>5t, ConcatProperties
  <2>2. Len(abc) = 28 /\ Len(Unmask) = 3
    BY <1>1, <1>5t
  <2> SUFFICES ASSUME NEW i \in 1 .. 31
               PROVE  abcd[i] = IF i <= 28 THEN abc[i] ELSE Unmask[i - 28]
    OBVIOUS
  <2>3. i \in 1 .. Len(abc) + Len(Unmask)
    BY <2>2
  <2>4. abcd[i] = IF i <= Len(abc) THEN abc[i] ELSE Unmask[i - Len(abc)]
    BY <2>1, <2>3, Zenon
  <2> QED
    BY <2>2, <2>4
<1> HIDE DEF abcd
<1>7t. Boot \in Seq(S) /\ Len(Boot) = 33
  <2>1. Boot \in Seq(S) /\ Len(Boot) = Len(abcd) + Len(e)
    BY <1>3, <1>6t, ConcatProperties, <1>2
  <2> QED
    BY <1>1, <2>1, <1>6t
<1>7. \A i \in 1 .. 33 : Boot[i] = IF i <= 31 THEN abcd[i] ELSE e[i - 31]
  <2>1. \A i \in 1 .. Len(abcd) + Len(e) :
            Boot[i] = IF i <= Len(abcd) THEN abcd[i] ELSE e[i - Len(abcd)]
    BY <1>3, <1>6t, ConcatProperties, <1>2
  <2>2. Len(abcd) = 31 /\ Len(e) = 2
    BY <1>1, <1>6t
  <2> QED
    BY <2>1, <2>2
<1>8. \A i \in 1 .. 12 : Boot[i] = IF i <= 1 THEN a[i] ELSE b[i - 1]
  BY <1>4, <1>5, <1>6, <1>7
<1>9. \A i \in 13 .. 28 : Boot[i] = MaskAll[i - 12]
  BY <1>5, <1>6, <1>7
<1>10. \A i \in 29 .. 31 : Boot[i] = Unmask[i - 28]
  BY <1>6, <1>7
<1>11. Boot[32] = e[1] /\ Boot[33] = e[2]
  BY <1>7
<1>12. /\ Boot[1] = a[1] /\ Boot[2] = b[1] /\ Boot[3] = b[2] /\ Boot[4] = b[3]
       /\ Boot[5] = b[4] /\ Boot[6] = b[5] /\ Boot[7] = b[6] /\ Boot[8] = b[7]
       /\ Boot[9] = b[8] /\ Boot[10] = b[9] /\ Boot[11] = b[10] /\ Boot[12] = b[11]
  BY <1>8
<1>13. ASSUME NEW k \in 12 .. 27 PROVE Boot[k + 1] = [op |-> "mask", line |-> k - 12]
  <2>1. k + 1 \in 13 .. 28 /\ k + 1 - 12 \in 1 .. 16 /\ k + 1 - 12 - 1 = k - 12
    OBVIOUS
  <2>2. Boot[k + 1] = MaskAll[k + 1 - 12]
    BY <1>9
  <2> QED
    BY <2>1, <2>2 DEF MaskAll
<1>14. ASSUME NEW k \in 28 .. 30 PROVE Boot[k + 1] = [op |-> "unmask", line |-> k - 28]
  <2>1. k + 1 \in 29 .. 31 /\ k + 1 - 28 \in 1 .. 3 /\ k + 1 - 28 - 1 = k - 28
    OBVIOUS
  <2>2. Boot[k + 1] = Unmask[k + 1 - 28]
    BY <1>10
  <2> QED
    BY <2>1, <2>2 DEF Unmask
<1> QED
  BY <1>11, <1>12, <1>13, <1>14 DEF a, b, e, pic_remap
-----------------------------------------------------------------------------
(* The controllers *)

ChipState ==
    [irr : SUBSET (0 .. 7), imr : SUBSET (0 .. 7), isr : SUBSET (0 .. 7), base : Nat, icw : Nat]
Pics == [m : ChipState, s : ChipState]

\* Line 2 of the master is the slave's.
Wired(p) == 2 \in p.m.irr => Asking(p.s) # {}

\* Only requests are different.
Moved(p, q) ==
    /\ q \in Pics /\ Wired(q)
    /\ q.m.imr = p.m.imr /\ q.m.isr = p.m.isr /\ q.m.base = p.m.base /\ q.m.icw = p.m.icw
    /\ q.s.imr = p.s.imr /\ q.s.isr = p.s.isr /\ q.s.base = p.s.base /\ q.s.icw = p.s.icw

\* The cascade moves the master's line 2 and nothing else.
LEMMA CascadeMoves ==
    ASSUME NEW p \in Pics
    PROVE  Moved(p, Cascade(p)) /\ Cascade(p).s = p.s
<1>1. PICK irr \in SUBSET (0 .. 7) :
          /\ Cascade(p) = [p EXCEPT !.m.irr = irr]
          /\ 2 \in irr => Asking(p.s) # {}
  <2>1. CASE Asking(p.s) # {}
    BY <2>1 DEF Cascade, Pics, ChipState
  <2>2. CASE Asking(p.s) = {}
    BY <2>2 DEF Cascade, Pics, ChipState
  <2> QED
    BY <2>1, <2>2
<1>2. Cascade(p) \in Pics /\ Cascade(p).m.irr = irr /\ Cascade(p).s = p.s
  BY <1>1 DEF Pics, ChipState
<1>3. Wired(Cascade(p))
  BY <1>1, <1>2 DEF Wired
<1>4. /\ Cascade(p).m.imr = p.m.imr /\ Cascade(p).m.isr = p.m.isr
      /\ Cascade(p).m.base = p.m.base /\ Cascade(p).m.icw = p.m.icw
  BY <1>1 DEF Pics, ChipState
<1> QED
  BY <1>2, <1>3, <1>4 DEF Moved

\* The controller and the bit of a line.
LEMMA LineIs ==
    ASSUME NEW l \in 0 .. 15
    PROVE  /\ Bit(l) \in 0 .. 7
           /\ l < 8 => Chip(l) = "m" /\ Bit(l) = l
           /\ l >= 8 => Chip(l) = "s" /\ Bit(l) = l - 8
BY DEF Chip, Bit

\* So does a line that rises or falls.
LEMMA LineMoves ==
    ASSUME NEW p \in Pics, NEW l \in 0 .. 15
    PROVE  Moved(p, Rise(p, l)) /\ Moved(p, Fall(p, l))
<1> DEFINE i == Bit(l)
<1>1. i \in 0 .. 7 /\ Chip(l) \in {"m", "s"}
  BY LineIs DEF Chip
<1>2. ASSUME NEW q \in Pics, q = [p EXCEPT ![Chip(l)].irr = @ \cup {i}]
                             \/ q = [p EXCEPT ![Chip(l)].irr = @ \ {i}]
      PROVE  Moved(p, Cascade(q))
  <2>1. Moved(q, Cascade(q))
    BY CascadeMoves
  <2>2. /\ q.m.imr = p.m.imr /\ q.m.isr = p.m.isr /\ q.m.base = p.m.base /\ q.m.icw = p.m.icw
        /\ q.s.imr = p.s.imr /\ q.s.isr = p.s.isr /\ q.s.base = p.s.base /\ q.s.icw = p.s.icw
    <3>1. CASE Chip(l) = "m"
      BY <1>2, <3>1 DEF Pics, ChipState
    <3>2. CASE Chip(l) = "s"
      BY <1>2, <3>2 DEF Pics, ChipState
    <3> QED
      BY <1>1, <3>1, <3>2
  <2> QED
    BY <2>1, <2>2 DEF Moved
<1>3. [p EXCEPT ![Chip(l)].irr = @ \cup {i}] \in Pics
  BY <1>1 DEF Pics, ChipState
<1>4. [p EXCEPT ![Chip(l)].irr = @ \ {i}] \in Pics
  BY <1>1 DEF Pics, ChipState
<1> QED
  BY <1>2, <1>3, <1>4 DEF Rise, Fall

\* One controller is written, the other one keeps all but its requests.
Written(p, chip, c, q) ==
    /\ q \in Pics /\ Wired(q)
    /\ q.m.imr = (IF chip = "m" THEN c.imr ELSE p.m.imr)
    /\ q.m.isr = (IF chip = "m" THEN c.isr ELSE p.m.isr)
    /\ q.m.base = (IF chip = "m" THEN c.base ELSE p.m.base)
    /\ q.m.icw = (IF chip = "m" THEN c.icw ELSE p.m.icw)
    /\ q.s.imr = (IF chip = "s" THEN c.imr ELSE p.s.imr)
    /\ q.s.isr = (IF chip = "s" THEN c.isr ELSE p.s.isr)
    /\ q.s.base = (IF chip = "s" THEN c.base ELSE p.s.base)
    /\ q.s.icw = (IF chip = "s" THEN c.icw ELSE p.s.icw)

\* A write to one controller, and what the cascade makes of it.
LEMMA WriteIs ==
    ASSUME NEW p \in Pics, NEW chip \in {"m", "s"}, NEW c \in ChipState
    PROVE  Written(p, chip, c, Cascade([p EXCEPT ![chip] = c]))
<1> DEFINE r == [p EXCEPT ![chip] = c]
<1>1. /\ r \in Pics
      /\ r.m = (IF chip = "m" THEN c ELSE p.m) /\ r.s = (IF chip = "s" THEN c ELSE p.s)
  BY DEF Pics
<1> HIDE DEF r
<1> DEFINE q == Cascade(r)
<1>2. Moved(r, q)
  BY <1>1, CascadeMoves
<1> HIDE DEF q
<1>3. Written(p, chip, c, q)
  BY <1>1, <1>2 DEF Moved, Written
<1> QED
  BY <1>3 DEF q, r

\* What a write does to the controller it is for, by what it waits for.
LEMMA DataWriteIs ==
    ASSUME NEW c \in ChipState
    PROVE  /\ Reset(c) \in ChipState /\ Reset(c).isr = {} /\ Reset(c).icw = 2
           /\ \A value \in Nat : c.icw = 2 =>
                  /\ DataWrite(c, value) \in ChipState /\ DataWrite(c, value).isr = c.isr
                  /\ DataWrite(c, value).icw = 3 /\ DataWrite(c, value).base = value
           /\ \A value : c.icw \in {3, 4} =>
                  /\ DataWrite(c, value) \in ChipState /\ DataWrite(c, value).isr = c.isr
                  /\ DataWrite(c, value).base = c.base
                  /\ DataWrite(c, value).icw = IF c.icw = 3 THEN 4 ELSE 0
           /\ \A value \in SUBSET (0 .. 7) : c.icw = 0 =>
                  DataWrite(c, value) = [c EXCEPT !.imr = value]
<1>1. Reset(c) \in ChipState /\ Reset(c).isr = {} /\ Reset(c).icw = 2
  BY DEF Reset, ChipState
<1>2. ASSUME NEW value \in Nat, c.icw = 2
      PROVE  /\ DataWrite(c, value) \in ChipState /\ DataWrite(c, value).isr = c.isr
             /\ DataWrite(c, value).icw = 3 /\ DataWrite(c, value).base = value
  <2>1. DataWrite(c, value) = [c EXCEPT !.base = value, !.icw = 3]
    BY <1>2 DEF DataWrite
  <2>2. DataWrite(c, value).icw = 3 /\ DataWrite(c, value).base = value
    BY <2>1 DEF ChipState
  <2>3. /\ DataWrite(c, value).isr = c.isr /\ DataWrite(c, value).imr = c.imr
        /\ DataWrite(c, value).irr = c.irr
    BY <2>1 DEF ChipState
  <2>4. DataWrite(c, value) = [irr |-> c.irr, imr |-> c.imr, isr |-> c.isr,
                               base |-> value, icw |-> 3]
    BY <2>1 DEF ChipState
  <2>5. DataWrite(c, value) \in ChipState
    BY <2>4 DEF ChipState
  <2> QED
    BY <2>2, <2>3, <2>5
<1>3. ASSUME NEW value, c.icw \in {3, 4}
      PROVE  /\ DataWrite(c, value) \in ChipState /\ DataWrite(c, value).isr = c.isr
             /\ DataWrite(c, value).base = c.base
             /\ DataWrite(c, value).icw = IF c.icw = 3 THEN 4 ELSE 0
  <2>1. DataWrite(c, value) = [c EXCEPT !.icw = IF c.icw = 3 THEN 4 ELSE 0]
    BY <1>3 DEF DataWrite
  <2> QED
    BY <2>1 DEF ChipState
<1>4. ASSUME NEW value, c.icw = 0
      PROVE  DataWrite(c, value) = [c EXCEPT !.imr = value]
  BY <1>4 DEF DataWrite
<1> QED
  BY <1>1, <1>2, <1>3, <1>4
-----------------------------------------------------------------------------
(* The boot code *)

\* What a controller waits for after k steps, and what it has after them.
IcwAfter(k) ==
    IF k \in {3, 4} THEN 2 ELSE IF k \in {5, 6} THEN 3 ELSE IF k \in {7, 8} THEN 4 ELSE 0

Booted(k, p) ==
    /\ p \in Pics /\ Wired(p)
    /\ p.m.icw = IcwAfter(k) /\ p.s.icw = IcwAfter(k - 1)
    /\ k >= 5 => p.m.base = 32
    /\ k >= 6 => p.s.base = 40
    /\ \A l \in 3 .. 7 : l + 12 < k => l \in p.m.imr
    /\ \A l \in 8 .. 15 : l + 12 < k => l - 8 \in p.s.imr

Quiet(p) == p.m.isr = {} /\ p.s.isr = {}

\* What a step of the boot code does, by its kind.
LEMMA BootStepIs ==
    ASSUME BootStep
    PROVE  /\ step' = step + 1
           /\ \A chip, port, value : Now = Out(chip, port, value) =>
                  pic' = outb(pic, chip, port, value) /\ saved_masks' = saved_masks
           /\ \A chip : Now = [op |-> "restore", chip |-> chip] =>
                  pic' = outb(pic, chip, "data", saved_masks[chip]) /\ saved_masks' = saved_masks
           /\ \A l : Now = [op |-> "mask", line |-> l] =>
                  /\ pic' = outb(pic, Chip(l), "data", pic[Chip(l)].imr \cup {Bit(l)})
                  /\ saved_masks' = saved_masks
           /\ \A l : Now = [op |-> "unmask", line |-> l] =>
                  /\ pic' = outb(pic, Chip(l), "data", pic[Chip(l)].imr \ {Bit(l)})
                  /\ saved_masks' = saved_masks
           /\ Now = [op |-> "pit"] => pic' \in {pic, Rise(pic, 0)} /\ saved_masks' = saved_masks
           /\ Now = [op |-> "idt"] => pic' = pic /\ saved_masks' = saved_masks
           /\ Now = [op |-> "save"] =>
                  pic' = pic /\ saved_masks' = [m |-> pic.m.imr, s |-> pic.s.imr]
<1>0. step' = step + 1
  BY DEF BootStep
<1>1. ASSUME NEW chip, NEW port, NEW value, Now = Out(chip, port, value)
      PROVE  pic' = outb(pic, chip, port, value) /\ saved_masks' = saved_masks
  <2>1. Now.op = "out" /\ Now.chip = chip /\ Now.port = port /\ Now.value = value
    BY <1>1 DEF Out
  <2> QED
    BY <2>1 DEF BootStep
<1>2. ASSUME NEW chip, Now = [op |-> "restore", chip |-> chip]
      PROVE  pic' = outb(pic, chip, "data", saved_masks[chip]) /\ saved_masks' = saved_masks
  <2>1. Now.op = "restore" /\ Now.chip = chip
    BY <1>2
  <2> QED
    BY <2>1 DEF BootStep
<1>3. ASSUME NEW l, Now = [op |-> "mask", line |-> l]
      PROVE  /\ pic' = outb(pic, Chip(l), "data", pic[Chip(l)].imr \cup {Bit(l)})
             /\ saved_masks' = saved_masks
  <2>1. Now.op = "mask" /\ Now.line = l
    BY <1>3
  <2> QED
    BY <2>1 DEF BootStep
<1>4. ASSUME NEW l, Now = [op |-> "unmask", line |-> l]
      PROVE  /\ pic' = outb(pic, Chip(l), "data", pic[Chip(l)].imr \ {Bit(l)})
             /\ saved_masks' = saved_masks
  <2>1. Now.op = "unmask" /\ Now.line = l
    BY <1>4
  <2> QED
    BY <2>1 DEF BootStep
<1>5. ASSUME Now = [op |-> "pit"]
      PROVE  pic' \in {pic, Rise(pic, 0)} /\ saved_masks' = saved_masks
  <2>1. Now.op = "pit"
    BY <1>5
  <2> QED
    BY <2>1 DEF BootStep
<1>6. ASSUME Now = [op |-> "idt"]
      PROVE  pic' = pic /\ saved_masks' = saved_masks
  <2>1. Now.op = "idt"
    BY <1>6
  <2> QED
    BY <2>1 DEF BootStep
<1>7. ASSUME Now = [op |-> "save"]
      PROVE  pic' = pic /\ saved_masks' = [m |-> pic.m.imr, s |-> pic.s.imr]
  <2>1. Now.op = "save"
    BY <1>7
  <2> QED
    BY <2>1 DEF BootStep
<1> QED
  BY <1>0, <1>1, <1>2, <1>3, <1>4, <1>5, <1>6, <1>7

\* A write of pic_remap, for the master or for the slave (pic.c:15-41).
LEMMA BootWrite ==
    ASSUME NEW k \in 0 .. 11, NEW p, Booted(k, p), Quiet(p),
           NEW chip \in {"m", "s"}, NEW c \in ChipState, c.isr = {},
           chip = "m" => /\ c.icw = IcwAfter(k + 1) /\ p.s.icw = IcwAfter(k)
                         /\ k >= 4 => c.base = 32
                         /\ k # 5,
           chip = "s" => /\ c.icw = IcwAfter(k) /\ p.m.icw = IcwAfter(k + 1)
                         /\ k >= 5 => c.base = 40
                         /\ k # 4,
           NEW q, q = Cascade([p EXCEPT ![chip] = c])
    PROVE  Booted(k + 1, q) /\ Quiet(q)
<1>1. p \in Pics
  BY DEF Booted
<1>2. Written(p, chip, c, q)
  BY <1>1, WriteIs, Zenon
<1>3. k + 1 - 1 = k /\ \A l \in 3 .. 15 : ~ (l + 12 < k + 1)
  OBVIOUS
<1>4. \A l \in 3 .. 7 : ~ (l + 12 < k + 1)
  OBVIOUS
<1>5. \A l \in 8 .. 15 : ~ (l + 12 < k + 1)
  OBVIOUS
<1>6. q.m.icw = IcwAfter(k + 1) /\ q.s.icw = IcwAfter(k + 1 - 1)
  BY <1>2, <1>3 DEF Written
<1>7. (k + 1 >= 5 => q.m.base = 32) /\ (k + 1 >= 6 => q.s.base = 40)
  BY <1>2 DEF Booted, Written
<1>8. Quiet(q)
  BY <1>2 DEF Quiet, Written
<1> QED
  BY <1>2, <1>4, <1>5, <1>6, <1>7, <1>8 DEF Booted, Written

\* Each step of the boot code leaves the controllers as they should be after
\* it, whatever requests come meanwhile (kernel.c:52-86).
LEMMA BootOne ==
    ASSUME step \in 0 .. 32, Booted(step, pic), Quiet(pic), BootStep,
           saved_masks \in [m : SUBSET (0 .. 7), s : SUBSET (0 .. 7)]
    PROVE  /\ step' \in 0 .. 32 /\ Booted(step', pic') /\ Quiet(pic')
           /\ saved_masks' \in [m : SUBSET (0 .. 7), s : SUBSET (0 .. 7)]
<1> DEFINE Masks == [m : SUBSET (0 .. 7), s : SUBSET (0 .. 7)]
           Goal == Booted(step + 1, pic') /\ Quiet(pic') /\ saved_masks' \in Masks
<1> USE DEF Now
<1>1. /\ pic \in Pics /\ pic["m"] \in ChipState /\ pic["s"] \in ChipState
      /\ pic["m"].isr = {} /\ pic["s"].isr = {}
      /\ pic["m"].icw = IcwAfter(step) /\ pic["s"].icw = IcwAfter(step - 1)
      /\ pic.m = pic["m"] /\ pic.s = pic["s"]
  BY DEF Booted, Quiet, Pics
<1>2. step' = step + 1 /\ step \in 0 .. 31
  <2>1. step # 32
    BY BootIs DEF BootStep
  <2> QED
    BY <2>1, BootStepIs
<1> SUFFICES Goal
  BY <1>2
<1>3. CASE step = 0
  <2>1. pic' = pic /\ saved_masks' = saved_masks
    BY <1>3, BootIs, BootStepIs
  <2>2. Booted(0 + 1, pic)
    BY <1>3 DEF Booted, IcwAfter
  <2> QED
    BY <1>3, <2>1, <2>2
<1>4. CASE step = 1
  <2>1. pic' = pic /\ saved_masks' = [m |-> pic.m.imr, s |-> pic.s.imr]
    BY <1>4, BootIs, BootStepIs
  <2>2. Booted(1 + 1, pic)
    BY <1>4 DEF Booted, IcwAfter
  <2>3. saved_masks' \in Masks
    BY <1>1, <2>1 DEF ChipState
  <2> QED
    BY <1>4, <2>1, <2>2, <2>3
<1>5. CASE step = 2
  <2> DEFINE c == Reset(pic["m"])
  <2>1. pic' = outb(pic, "m", "icw1", 17) /\ saved_masks' = saved_masks
    <3>1. Now = Out("m", "icw1", 17)
      BY <1>5, BootIs
    <3> QED
      BY <3>1, BootStepIs, Zenon
  <2>2. pic' = Cascade([pic EXCEPT !["m"] = c])
    BY <2>1 DEF outb
  <2>3. pic["m"].icw = 0
    BY <1>1, <1>5 DEF IcwAfter, Booted
  <2>4. c \in ChipState /\ c.isr = {} /\ c.icw = 2
    BY <1>1, <2>3, DataWriteIs
  <2> HIDE DEF c
  <2>5. Booted(2 + 1, pic') /\ Quiet(pic')
    BY <1>1, <1>5, <2>2, <2>4, BootWrite DEF IcwAfter
  <2> QED
    BY <1>5, <2>1, <2>5
<1>6. CASE step = 3
  <2> DEFINE c == Reset(pic["s"])
  <2>1. pic' = outb(pic, "s", "icw1", 17) /\ saved_masks' = saved_masks
    <3>1. Now = Out("s", "icw1", 17)
      BY <1>6, BootIs
    <3> QED
      BY <3>1, BootStepIs, Zenon
  <2>2. pic' = Cascade([pic EXCEPT !["s"] = c])
    BY <2>1 DEF outb
  <2>3. pic["s"].icw = 0
    BY <1>1, <1>6 DEF IcwAfter, Booted
  <2>4. c \in ChipState /\ c.isr = {} /\ c.icw = 2
    BY <1>1, <2>3, DataWriteIs
  <2> HIDE DEF c
  <2>5. Booted(3 + 1, pic') /\ Quiet(pic')
    BY <1>1, <1>6, <2>2, <2>4, BootWrite DEF IcwAfter
  <2> QED
    BY <1>6, <2>1, <2>5
<1>7. CASE step = 4
  <2> DEFINE c == DataWrite(pic["m"], 32)
  <2>1. pic' = outb(pic, "m", "data", 32) /\ saved_masks' = saved_masks
    <3>1. Now = Out("m", "data", 32)
      BY <1>7, BootIs
    <3> QED
      BY <3>1, BootStepIs, Zenon
  <2>2. pic' = Cascade([pic EXCEPT !["m"] = c])
    BY <2>1 DEF outb
  <2>3. pic["m"].icw = 2
    BY <1>1, <1>7 DEF IcwAfter, Booted
  <2>4. c \in ChipState /\ c.isr = {} /\ c.icw = 3 /\ c.base = 32
    BY <1>1, <2>3, DataWriteIs
  <2> HIDE DEF c
  <2>5. Booted(4 + 1, pic') /\ Quiet(pic')
    BY <1>1, <1>7, <2>2, <2>4, BootWrite DEF IcwAfter
  <2> QED
    BY <1>7, <2>1, <2>5
<1>8. CASE step = 5
  <2> DEFINE c == DataWrite(pic["s"], 40)
  <2>1. pic' = outb(pic, "s", "data", 40) /\ saved_masks' = saved_masks
    <3>1. Now = Out("s", "data", 40)
      BY <1>8, BootIs
    <3> QED
      BY <3>1, BootStepIs, Zenon
  <2>2. pic' = Cascade([pic EXCEPT !["s"] = c])
    BY <2>1 DEF outb
  <2>3. pic["s"].icw = 2
    BY <1>1, <1>8 DEF IcwAfter, Booted
  <2>4. c \in ChipState /\ c.isr = {} /\ c.icw = 3 /\ c.base = 40
    BY <1>1, <2>3, DataWriteIs
  <2> HIDE DEF c
  <2>5. Booted(5 + 1, pic') /\ Quiet(pic')
    BY <1>1, <1>8, <2>2, <2>4, BootWrite DEF IcwAfter
  <2> QED
    BY <1>8, <2>1, <2>5
<1>9. CASE step = 6
  <2> DEFINE c == DataWrite(pic["m"], 4)
  <2>1. pic' = outb(pic, "m", "data", 4) /\ saved_masks' = saved_masks
    <3>1. Now = Out("m", "data", 4)
      BY <1>9, BootIs
    <3> QED
      BY <3>1, BootStepIs, Zenon
  <2>2. pic' = Cascade([pic EXCEPT !["m"] = c])
    BY <2>1 DEF outb
  <2>3. pic["m"].icw = 3 /\ pic["m"].base = 32
    BY <1>1, <1>9 DEF IcwAfter, Booted
  <2>4. c \in ChipState /\ c.isr = {} /\ c.icw = 4 /\ c.base = 32
    BY <1>1, <2>3, DataWriteIs
  <2> HIDE DEF c
  <2>5. Booted(6 + 1, pic') /\ Quiet(pic')
    BY <1>1, <1>9, <2>2, <2>4, BootWrite DEF IcwAfter
  <2> QED
    BY <1>9, <2>1, <2>5
<1>10. CASE step = 7
  <2> DEFINE c == DataWrite(pic["s"], 2)
  <2>1. pic' = outb(pic, "s", "data", 2) /\ saved_masks' = saved_masks
    <3>1. Now = Out("s", "data", 2)
      BY <1>10, BootIs
    <3> QED
      BY <3>1, BootStepIs, Zenon
  <2>2. pic' = Cascade([pic EXCEPT !["s"] = c])
    BY <2>1 DEF outb
  <2>3. pic["s"].icw = 3 /\ pic["s"].base = 40
    BY <1>1, <1>10 DEF IcwAfter, Booted
  <2>4. c \in ChipState /\ c.isr = {} /\ c.icw = 4 /\ c.base = 40
    BY <1>1, <2>3, DataWriteIs
  <2> HIDE DEF c
  <2>5. Booted(7 + 1, pic') /\ Quiet(pic')
    BY <1>1, <1>10, <2>2, <2>4, BootWrite DEF IcwAfter
  <2> QED
    BY <1>10, <2>1, <2>5
<1>11. CASE step = 8
  <2> DEFINE c == DataWrite(pic["m"], 1)
  <2>1. pic' = outb(pic, "m", "data", 1) /\ saved_masks' = saved_masks
    <3>1. Now = Out("m", "data", 1)
      BY <1>11, BootIs
    <3> QED
      BY <3>1, BootStepIs, Zenon
  <2>2. pic' = Cascade([pic EXCEPT !["m"] = c])
    BY <2>1 DEF outb
  <2>3. pic["m"].icw = 4 /\ pic["m"].base = 32
    BY <1>1, <1>11 DEF IcwAfter, Booted
  <2>4. c \in ChipState /\ c.isr = {} /\ c.icw = 0 /\ c.base = 32
    BY <1>1, <2>3, DataWriteIs
  <2> HIDE DEF c
  <2>5. Booted(8 + 1, pic') /\ Quiet(pic')
    BY <1>1, <1>11, <2>2, <2>4, BootWrite DEF IcwAfter
  <2> QED
    BY <1>11, <2>1, <2>5
<1>12. CASE step = 9
  <2> DEFINE c == DataWrite(pic["s"], 1)
  <2>1. pic' = outb(pic, "s", "data", 1) /\ saved_masks' = saved_masks
    <3>1. Now = Out("s", "data", 1)
      BY <1>12, BootIs
    <3> QED
      BY <3>1, BootStepIs, Zenon
  <2>2. pic' = Cascade([pic EXCEPT !["s"] = c])
    BY <2>1 DEF outb
  <2>3. pic["s"].icw = 4 /\ pic["s"].base = 40
    BY <1>1, <1>12 DEF IcwAfter, Booted
  <2>4. c \in ChipState /\ c.isr = {} /\ c.icw = 0 /\ c.base = 40
    <3>1. pic["s"].icw \in {3, 4} /\ pic["s"].icw # 3
      BY <2>3
    <3> QED
      BY <1>1, <2>3, <3>1, DataWriteIs
  <2> HIDE DEF c
  <2>5. Booted(9 + 1, pic') /\ Quiet(pic')
    BY <1>1, <1>12, <2>2, <2>4, BootWrite DEF IcwAfter
  <2> QED
    BY <1>12, <2>1, <2>5
<1>13. CASE step = 10
  <2> DEFINE mask == saved_masks["m"]
             c == [pic["m"] EXCEPT !.imr = mask]
  <2>1. pic' = outb(pic, "m", "data", mask) /\ saved_masks' = saved_masks
    <3>1. Now = [op |-> "restore", chip |-> "m"]
      BY <1>13, BootIs
    <3> QED
      BY <3>1, BootStepIs, Zenon
  <2>2. pic["m"].icw = 0 /\ pic["m"].base = 32 /\ mask \in SUBSET (0 .. 7)
    BY <1>1, <1>13 DEF IcwAfter, Booted
  <2> HIDE DEF mask
  <2>3. DataWrite(pic["m"], mask) = c
    BY <1>1, <2>2, DataWriteIs
  <2>4. pic' = Cascade([pic EXCEPT !["m"] = c])
    BY <2>1, <2>3 DEF outb
  <2>5. c \in ChipState /\ c.isr = {} /\ c.icw = 0 /\ c.base = 32
    BY <1>1, <2>2 DEF ChipState
  <2> HIDE DEF c
  <2>6. Booted(10 + 1, pic') /\ Quiet(pic')
    BY <1>1, <1>13, <2>4, <2>5, BootWrite DEF IcwAfter
  <2> QED
    BY <1>13, <2>1, <2>6
<1>14. CASE step = 11
  <2> DEFINE mask == saved_masks["s"]
             c == [pic["s"] EXCEPT !.imr = mask]
  <2>1. pic' = outb(pic, "s", "data", mask) /\ saved_masks' = saved_masks
    <3>1. Now = [op |-> "restore", chip |-> "s"]
      BY <1>14, BootIs
    <3> QED
      BY <3>1, BootStepIs, Zenon
  <2>2. pic["s"].icw = 0 /\ pic["s"].base = 40 /\ mask \in SUBSET (0 .. 7)
    BY <1>1, <1>14 DEF IcwAfter, Booted
  <2> HIDE DEF mask
  <2>3. DataWrite(pic["s"], mask) = c
    BY <1>1, <2>2, DataWriteIs
  <2>4. pic' = Cascade([pic EXCEPT !["s"] = c])
    BY <2>1, <2>3 DEF outb
  <2>5. c \in ChipState /\ c.isr = {} /\ c.icw = 0 /\ c.base = 40
    BY <1>1, <2>2 DEF ChipState
  <2> HIDE DEF c
  <2>6. Booted(11 + 1, pic') /\ Quiet(pic')
    BY <1>1, <1>14, <2>4, <2>5, BootWrite DEF IcwAfter
  <2> QED
    BY <1>14, <2>1, <2>6
<1>15. ASSUME step \in 12 .. 30, NEW l \in 0 .. 15, NEW mask \in SUBSET (0 .. 7),
              pic' = outb(pic, Chip(l), "data", mask)
       PROVE  /\ Quiet(pic') /\ pic' \in Pics /\ Wired(pic')
              /\ pic'.m.icw = IcwAfter(step + 1) /\ pic'.s.icw = IcwAfter(step + 1 - 1)
              /\ pic'.m.base = 32 /\ pic'.s.base = 40
              /\ pic'.m.imr = IF l < 8 THEN mask ELSE pic.m.imr
              /\ pic'.s.imr = IF l < 8 THEN pic.s.imr ELSE mask
  <2> DEFINE chip == Chip(l)
             c == [pic[chip] EXCEPT !.imr = mask]
  <2>1. /\ pic.m.icw = 0 /\ pic.s.icw = 0 /\ pic.m.base = 32 /\ pic.s.base = 40
        /\ IcwAfter(step + 1) = 0 /\ IcwAfter(step + 1 - 1) = 0
    BY <1>1, <1>15 DEF IcwAfter, Booted
  <2>2. chip \in {"m", "s"} /\ (chip = "m" <=> l < 8) /\ (chip = "s" <=> ~ (l < 8))
    BY DEF Chip
  <2> HIDE DEF chip
  <2>3. pic[chip] \in ChipState /\ pic[chip].icw = 0
    BY <1>1, <2>1, <2>2
  <2>4. DataWrite(pic[chip], mask) = c
    BY <2>3, DataWriteIs
  <2>5. pic' = Cascade([pic EXCEPT ![chip] = c])
    BY <1>15, <2>4 DEF outb, chip
  <2>6. /\ c \in ChipState /\ c.isr = pic[chip].isr /\ c.imr = mask
        /\ c.icw = pic[chip].icw /\ c.base = pic[chip].base
    BY <2>3 DEF ChipState
  <2> HIDE DEF c
  <2>7. Written(pic, chip, c, pic')
    BY <1>1, <2>2, <2>5, <2>6, WriteIs, Zenon
  <2>8. CASE l < 8
    BY <1>1, <2>1, <2>2, <2>6, <2>7, <2>8 DEF Written, Quiet
  <2>9. CASE ~ (l < 8)
    BY <1>1, <2>1, <2>2, <2>6, <2>7, <2>9 DEF Written, Quiet
  <2> QED
    BY <2>8, <2>9
<1>16. CASE step \in 12 .. 27
  <2> DEFINE l == step - 12
             mask == pic[Chip(l)].imr \cup {Bit(l)}
  <2>1. l \in 0 .. 15 /\ Now = [op |-> "mask", line |-> l]
    BY <1>16, BootIs
  <2>2. pic' = outb(pic, Chip(l), "data", mask) /\ saved_masks' = saved_masks
    BY <2>1, BootStepIs, Zenon
  <2>3. /\ l < 8 => Chip(l) = "m" /\ Bit(l) = l
        /\ ~ (l < 8) => Chip(l) = "s" /\ Bit(l) = l - 8
    BY <2>1, LineIs
  <2>4. /\ mask \in SUBSET (0 .. 7)
        /\ l < 8 => mask = pic.m.imr \cup {l}
        /\ ~ (l < 8) => mask = pic.s.imr \cup {l - 8}
    BY <1>1, <2>1, <2>3 DEF ChipState
  <2> HIDE DEF mask
  <2>5. /\ Quiet(pic') /\ pic' \in Pics /\ Wired(pic')
        /\ pic'.m.icw = IcwAfter(step + 1) /\ pic'.s.icw = IcwAfter(step + 1 - 1)
        /\ pic'.m.base = 32 /\ pic'.s.base = 40
    BY <1>15, <1>16, <2>1, <2>2, <2>4
  <2>6. pic'.m.imr = IF l < 8 THEN mask ELSE pic.m.imr
    BY <1>15, <1>16, <2>1, <2>2, <2>4
  <2>7. pic'.s.imr = IF l < 8 THEN pic.s.imr ELSE mask
    BY <1>15, <1>16, <2>1, <2>2, <2>4
  <2>8. /\ \A j \in 3 .. 7 : j + 12 < step => j \in pic.m.imr
        /\ \A j \in 8 .. 15 : j + 12 < step => j - 8 \in pic.s.imr
    BY DEF Booted
  <2>9. ASSUME NEW j \in 3 .. 7, j + 12 < step + 1 PROVE j \in pic'.m.imr
    BY <1>16, <2>4, <2>6, <2>8, <2>9
  <2>10. ASSUME NEW j \in 8 .. 15, j + 12 < step + 1 PROVE j - 8 \in pic'.s.imr
    BY <1>16, <2>4, <2>7, <2>8, <2>10
  <2>11. Booted(step + 1, pic')
    BY <2>5, <2>9, <2>10 DEF Booted
  <2> QED
    BY <2>2, <2>5, <2>11
<1>17. CASE step \in 28 .. 30
  <2> DEFINE l == step - 28
             mask == pic[Chip(l)].imr \ {Bit(l)}
  <2>1. l \in 0 .. 15 /\ l < 3 /\ Now = [op |-> "unmask", line |-> l]
    BY <1>17, BootIs
  <2>2. pic' = outb(pic, Chip(l), "data", mask) /\ saved_masks' = saved_masks
    BY <2>1, BootStepIs, Zenon
  <2>3. mask \in SUBSET (0 .. 7) /\ mask = pic.m.imr \ {l}
    BY <1>1, <2>1, LineIs DEF ChipState
  <2> HIDE DEF mask
  <2>4. /\ Quiet(pic') /\ pic' \in Pics /\ Wired(pic')
        /\ pic'.m.icw = IcwAfter(step + 1) /\ pic'.s.icw = IcwAfter(step + 1 - 1)
        /\ pic'.m.base = 32 /\ pic'.s.base = 40
        /\ pic'.m.imr = pic.m.imr \ {l} /\ pic'.s.imr = pic.s.imr
    <3>1. step \in 12 .. 30 /\ l \in 0 .. 15 /\ l < 8
      BY <1>17, <2>1
    <3> HIDE DEF l
    <3>2. /\ Quiet(pic') /\ pic' \in Pics /\ Wired(pic')
          /\ pic'.m.icw = IcwAfter(step + 1) /\ pic'.s.icw = IcwAfter(step + 1 - 1)
          /\ pic'.m.base = 32 /\ pic'.s.base = 40
      BY <1>15, <2>2, <2>3, <3>1, Zenon
    <3>3. pic'.m.imr = IF l < 8 THEN mask ELSE pic.m.imr
      BY <1>15, <2>2, <2>3, <3>1, Zenon
    <3>4. pic'.s.imr = IF l < 8 THEN pic.s.imr ELSE mask
      BY <1>15, <2>2, <2>3, <3>1, Zenon
    <3> QED
      BY <2>3, <3>1, <3>2, <3>3, <3>4
  <2>5. /\ \A j \in 3 .. 7 : j \in pic.m.imr
        /\ \A j \in 8 .. 15 : j - 8 \in pic.s.imr
    BY <1>17 DEF Booted
  <2>6. /\ \A j \in 3 .. 7 : j \in pic'.m.imr
        /\ \A j \in 8 .. 15 : j - 8 \in pic'.s.imr
    BY <2>1, <2>4, <2>5
  <2>7. Booted(step + 1, pic')
    BY <2>4, <2>6 DEF Booted
  <2> QED
    BY <2>2, <2>4, <2>7
<1>18. CASE step = 31
  <2>1. pic' \in {pic, Rise(pic, 0)} /\ saved_masks' = saved_masks
    BY <1>18, BootIs, BootStepIs
  <2>2. Moved(pic, pic')
    BY <1>1, <2>1, LineMoves DEF Moved, Booted
  <2>3. IcwAfter(step) = IcwAfter(step + 1) /\ IcwAfter(step - 1) = IcwAfter(step + 1 - 1)
    BY <1>18 DEF IcwAfter
  <2>4. /\ \A j \in 3 .. 7 : j \in pic.m.imr
        /\ \A j \in 8 .. 15 : j - 8 \in pic.s.imr
        /\ pic.m.base = 32 /\ pic.s.base = 40
    BY <1>18 DEF Booted
  <2>5. Booted(step + 1, pic') /\ Quiet(pic')
    BY <1>1, <2>2, <2>3, <2>4 DEF Booted, Moved, Quiet
  <2> QED
    BY <2>1, <2>5
<1>19. \/ step \in {0, 1, 2, 3, 4, 5, 6, 7, 8, 9, 10, 11}
       \/ step \in 12 .. 27 \/ step \in 28 .. 30 \/ step = 31
  BY <1>2
<1> QED
  BY <1>3, <1>4, <1>5, <1>6, <1>7, <1>8, <1>9, <1>10, <1>11, <1>12, <1>13, <1>14,
     <1>16, <1>17, <1>18, <1>19
-----------------------------------------------------------------------------
(* The invariant *)

\* A handler runs for an interrupt, which is in service or was spurious.
Serving == at = "eoi" \/ (at = "handler" /\ source # -1)

InterruptsInv ==
    /\ step \in 0 .. 32 /\ Booted(step, pic)
    /\ saved_masks \in [m : SUBSET (0 .. 7), s : SUBSET (0 .. 7)]
    /\ at \in {"boot", "main", "accepted", "iret"} => Quiet(pic)
    /\ at \in {"main", "accepted", "iret"} \/ Serving => step = 32
    /\ Serving => /\ pic.s.isr = {}
                  /\ pic.m.isr = {} \/ \E i \in 0 .. 7 : pic.m.isr = {i}
    /\ at = "handler" /\ source = -1 => vector = 14
    /\ at = "handler" /\ source # -1 =>
           <<source, vector>> \in {<<0, 32>>, <<1, 33>>, <<7, 39>>}
    /\ at = "eoi" => vector \in {32, 33, 39}

\* The gates that matter (idt.c:128-176).
LEMMA GateIs ==
    /\ gate(14) = "exception" /\ gate(32) = "timer" /\ gate(33) = "keyboard"
    /\ gate(39) = "default"
BY DEF gate

\* As the boot loader leaves the machine.
LEMMA InterruptsInitially == InterruptsInit => InterruptsInv
<1> SUFFICES ASSUME InterruptsInit
             PROVE  InterruptsInv
  OBVIOUS
<1>1. PICK masks \in BiosMasks :
          pic = [m |-> FirmwareChip(8, masks[1]), s |-> FirmwareChip(112, masks[2])]
  BY DEF InterruptsInit
<1>2. masks[1] \in SUBSET (0 .. 7) /\ masks[2] \in SUBSET (0 .. 7)
  BY InterruptsAssumption
<1>3. FirmwareChip(8, masks[1]) \in ChipState /\ FirmwareChip(112, masks[2]) \in ChipState
  BY <1>2 DEF FirmwareChip, ChipState
<1>4. /\ pic \in Pics /\ pic.m.irr = {} /\ pic.m.icw = 0 /\ pic.s.icw = 0
      /\ pic.m.isr = {} /\ pic.s.isr = {}
  BY <1>1, <1>3 DEF Pics, FirmwareChip
<1>5. Booted(0, pic) /\ Quiet(pic)
  BY <1>4 DEF Booted, IcwAfter, Wired, Quiet
<1>6. /\ step = 0 /\ at = "boot" /\ saved_masks = [m |-> {}, s |-> {}]
  BY DEF InterruptsInit
<1> QED
  BY <1>5, <1>6 DEF InterruptsInv, Serving

\* A request that comes or goes changes nothing of it.
LEMMA MovedKeeps ==
    ASSUME InterruptsInv, Moved(pic, pic'),
           UNCHANGED <<step, saved_masks, at, source, vector>>
    PROVE  InterruptsInv'
<1>1. Booted(step, pic)'
  BY DEF Booted, Moved, InterruptsInv
<1>2. Quiet(pic) => Quiet(pic)'
  BY DEF Quiet, Moved
<1>3. pic'.m.isr = pic.m.isr /\ pic'.s.isr = pic.s.isr
  BY DEF Moved
<1>4. Serving' = Serving
  BY DEF Serving
<1> QED
  BY <1>1, <1>2, <1>3, <1>4 DEF InterruptsInv

\* Only lines 0 and 1 of the master ever ask, and nothing of the slave
\* (kernel.c:55-57, 81-83).
LEMMA AskingIs ==
    ASSUME InterruptsInv, step = 32
    PROVE  /\ Asking(pic.m) \subseteq {0, 1} /\ Asking(pic.s) = {}
           /\ pic.m.base = 32 /\ pic \in Pics
<1>1. /\ \A l \in 3 .. 7 : l \in pic.m.imr
      /\ \A l \in 8 .. 15 : l - 8 \in pic.s.imr
      /\ pic.m.base = 32 /\ pic \in Pics /\ Wired(pic)
  BY DEF InterruptsInv, Booted
<1>2. pic.s.irr \subseteq 0 .. 7 /\ pic.m.irr \subseteq 0 .. 7
  BY <1>1 DEF Pics, ChipState
<1>3. \A i \in 0 .. 7 : i \in pic.s.imr
  <2> SUFFICES ASSUME NEW i \in 0 .. 7 PROVE i \in pic.s.imr
    OBVIOUS
  <2>1. i + 8 \in 8 .. 15 /\ (i + 8) - 8 = i
    OBVIOUS
  <2> QED
    BY <1>1, <2>1
<1>4. Asking(pic.s) = {}
  BY <1>2, <1>3 DEF Asking
<1>5. 2 \notin pic.m.irr
  BY <1>1, <1>4 DEF Wired
<1>6. Asking(pic.m) \subseteq {0, 1}
  BY <1>1, <1>2, <1>5 DEF Asking
<1> QED
  BY <1>1, <1>4, <1>6

\* The controller's answer to the processor: the line it names has the vector
\* of its handler, and is alone in service.
LEMMA AcknowledgeKeeps ==
    ASSUME InterruptsInv, Acknowledge
    PROVE  InterruptsInv'
<1>1. at = "accepted" /\ step = 32 /\ Quiet(pic) /\ Booted(32, pic)
  BY DEF Acknowledge, InterruptsInv
<1>2. /\ Asking(pic.m) \subseteq {0, 1} /\ pic.m.base = 32 /\ pic \in Pics
  BY <1>1, AskingIs
<1>3. ASSUME NEW p \in Pics, NEW v, NEW l, Enter(p, v, l),
             <<l, v>> \in {<<0, 32>>, <<1, 33>>, <<7, 39>>},
             p.m.imr = pic.m.imr, p.m.base = pic.m.base, p.m.icw = pic.m.icw,
             p.s = pic.s,
             p.m.isr = {} \/ \E i \in 0 .. 7 : p.m.isr = {i}
      PROVE  InterruptsInv'
  <2>1. pic' = Cascade(p) /\ at' = "handler" /\ vector' = v /\ source' = l
        /\ step' = step /\ saved_masks' = saved_masks
    BY <1>3 DEF Enter
  <2>2. Moved(p, pic')
    BY <2>1, CascadeMoves
  <2>3. Booted(32, pic')
    BY <1>1, <1>3, <2>2 DEF Booted, Moved
  <2>4. pic'.m.isr = p.m.isr /\ pic'.s.isr = {}
    BY <1>1, <1>3, <2>2 DEF Moved, Quiet
  <2>5. source' # -1
    BY <1>3, <2>1
  <2> QED
    BY <1>1, <1>3, <2>1, <2>3, <2>4, <2>5 DEF InterruptsInv, Serving
<1>4. CASE Asking(pic.m) = {}
  <2>1. Enter(pic, pic.m.base + 7, 7)
    BY <1>4 DEF Acknowledge
  <2>2. Enter(pic, 39, 7)
    BY <1>2, <2>1
  <2> QED
    BY <1>1, <1>2, <1>3, <2>2 DEF Quiet
<1>5. CASE Asking(pic.m) # {}
  <2> DEFINE i == Min(Asking(pic.m))
             p == Serve(pic, "m", i)
  <2>1. i \in {0, 1}
    <3>1. \E x \in Asking(pic.m) : \A y \in Asking(pic.m) : x <= y
      BY <1>2, <1>5
    <3> QED
      BY <1>2, <3>1 DEF Min
  <2>2. Enter(p, pic.m.base + i, i)
    BY <1>5, <2>1 DEF Acknowledge
  <2> HIDE DEF i
  <2>3. Enter(p, 32 + i, i)
    BY <1>2, <2>2
  <2>4. /\ p \in Pics /\ p.m.imr = pic.m.imr /\ p.m.base = pic.m.base
        /\ p.m.icw = pic.m.icw /\ p.s = pic.s /\ p.m.isr = pic.m.isr \cup {i}
    BY <1>2, <2>1 DEF Serve, Pics, ChipState
  <2> HIDE DEF p
  <2>5. p.m.isr = {i} /\ i \in 0 .. 7
    BY <1>1, <2>1, <2>4 DEF Quiet
  <2>6. <<i, 32 + i>> \in {<<0, 32>>, <<1, 33>>, <<7, 39>>}
    BY <2>1
  <2> QED
    BY <1>3, <2>3, <2>4, <2>5, <2>6
<1> QED
  BY <1>4, <1>5

\* The end of interrupt, to the master, is that of the line in service
\* (pic.c:43-49).
LEMMA SendEoiKeeps ==
    ASSUME InterruptsInv, SendEoi
    PROVE  InterruptsInv'
<1> DEFINE c == EndOfInterrupt(pic["m"])
<1>1. /\ at = "eoi" /\ step = 32 /\ vector \in {32, 33, 39} /\ Booted(32, pic)
      /\ pic.s.isr = {} /\ pic \in Pics
      /\ pic.m.isr = {} \/ \E i \in 0 .. 7 : pic.m.isr = {i}
  BY DEF SendEoi, InterruptsInv, Serving, Booted
<1>2. Acknowledged(gate(vector)) \in {0, 1, 7}
  BY DEF Acknowledged
<1>3. pic' = outb(pic, "m", "eoi", 32)
  <2>1. ~ (Acknowledged(gate(vector)) >= 8)
    BY <1>2
  <2> QED
    BY <2>1, Zenon DEF SendEoi, pic_send_eoi
<1>4. pic' = Cascade([pic EXCEPT !["m"] = c])
  BY <1>3 DEF outb
<1>5. pic["m"] \in ChipState /\ pic.m = pic["m"]
  BY <1>1 DEF Pics
<1>6. /\ c \in ChipState /\ c.isr = {} /\ c.imr = pic.m.imr
      /\ c.base = pic.m.base /\ c.icw = pic.m.icw
  <2>1. CASE pic.m.isr = {}
    BY <1>5, <2>1 DEF EndOfInterrupt, ChipState
  <2>2. ASSUME NEW i \in 0 .. 7, pic.m.isr = {i}
        PROVE  /\ c \in ChipState /\ c.isr = {} /\ c.imr = pic.m.imr
               /\ c.base = pic.m.base /\ c.icw = pic.m.icw
    <3>1. Min({i}) = i
      BY DEF Min
    <3>2. c = [pic["m"] EXCEPT !.isr = {}]
      BY <1>5, <2>2, <3>1 DEF EndOfInterrupt, ChipState
    <3> QED
      BY <1>5, <3>2 DEF ChipState
  <2> QED
    BY <1>1, <2>1, <2>2
<1> HIDE DEF c
<1>7. Written(pic, "m", c, pic')
  BY <1>1, <1>4, <1>6, WriteIs
<1>8. Booted(32, pic')
  BY <1>1, <1>6, <1>7 DEF Booted, Written
<1>9. Quiet(pic')
  BY <1>1, <1>6, <1>7 DEF Quiet, Written
<1>10. at' = "iret" /\ step' = step /\ saved_masks' = saved_masks
  BY DEF SendEoi
<1> QED
  BY <1>1, <1>8, <1>9, <1>10 DEF InterruptsInv, Serving

\* Every step of the processor and of the devices keeps it.
LEMMA InterruptsStep == InterruptsInv /\ [InterruptsNext]_interruptVars => InterruptsInv'
<1> SUFFICES ASSUME InterruptsInv, [InterruptsNext]_interruptVars
             PROVE  InterruptsInv'
  OBVIOUS
<1>0. pic \in Pics /\ Wired(pic) /\ Moved(pic, pic)
  BY DEF InterruptsInv, Booted, Moved
<1>1. CASE BootStep
  <2>1. at = "boot" /\ at' = "boot"
    BY <1>1 DEF BootStep
  <2> QED
    BY <1>1, <2>1, BootOne DEF InterruptsInv, Serving
<1>2. CASE Sti
  <2>1. step = 32
    <3>1. ASSUME step \in 0 .. 31 PROVE Now.op # "sti"
      <4>1. CASE step \in {0, 1, 2, 3, 4, 5, 6, 7, 8, 9, 10, 11}
        BY <4>1, BootIs DEF Now, Out
      <4>2. CASE step \in 12 .. 27
        BY <4>2, BootIs DEF Now
      <4>3. CASE step \in 28 .. 30
        BY <4>3, BootIs DEF Now
      <4>4. CASE step = 31
        BY <4>4, BootIs DEF Now
      <4> QED
        BY <3>1, <4>1, <4>2, <4>3, <4>4
    <3> QED
      BY <1>2, <3>1 DEF Sti, InterruptsInv
  <2>2. at = "boot" /\ at' = "main" /\ UNCHANGED <<pic, step, saved_masks>>
    BY <1>2 DEF Sti
  <2> QED
    BY <2>1, <2>2 DEF InterruptsInv, Serving
<1>3. CASE Accept
  BY <1>3 DEF Accept, InterruptsInv, Serving
<1>4. CASE Acknowledge
  BY <1>4, AcknowledgeKeeps
<1>5. CASE HandlerBody
  <2>1. /\ at = "handler" /\ at' = "eoi" /\ vector' = vector /\ step' = step
        /\ saved_masks' = saved_masks /\ source' = source
        /\ gate(vector) \in {"timer", "keyboard", "default"}
    BY <1>5 DEF HandlerBody
  <2>2. source # -1 /\ vector \in {32, 33, 39} /\ step = 32
    BY <2>1, GateIs DEF InterruptsInv, Serving
  <2>3. Moved(pic, pic')
    <3>1. pic' \in {pic, Fall(pic, 1)}
      BY <1>5 DEF HandlerBody
    <3> QED
      BY <1>0, <3>1, LineMoves
  <2>4. Booted(32, pic')
    BY <2>2, <2>3 DEF InterruptsInv, Booted, Moved
  <2>5. pic'.m.isr = pic.m.isr /\ pic'.s.isr = pic.s.isr
    BY <2>3 DEF Moved
  <2> QED
    BY <2>1, <2>2, <2>4, <2>5 DEF InterruptsInv, Serving
<1>6. CASE SendEoi
  BY <1>6, SendEoiKeeps
<1>7. CASE Iret
  BY <1>7 DEF Iret, InterruptsInv, Serving
<1>8. CASE Panic
  BY <1>8 DEF Panic, InterruptsInv, Serving
<1>9. CASE Exception
  BY <1>9 DEF Exception, InterruptsInv, Serving
<1>10. CASE TimerRises
  BY <1>0, <1>10, LineMoves, MovedKeeps DEF TimerRises, cpuVars
<1>11. CASE TimerFalls
  BY <1>0, <1>11, LineMoves, MovedKeeps DEF TimerFalls, cpuVars
<1>12. CASE KeyComes
  BY <1>0, <1>12, MovedKeeps DEF KeyComes, cpuVars
<1>13. CASE PortFills
  BY <1>0, <1>13, LineMoves, MovedKeeps DEF PortFills, cpuVars
<1>14. ASSUME NEW l \in Devices, DeviceToggles(l)
       PROVE  InterruptsInv'
  <2>1. l \in 0 .. 15
    BY InterruptsAssumption
  <2>2. Moved(pic, pic')
    BY <1>0, <1>14, <2>1, LineMoves DEF DeviceToggles
  <2> QED
    BY <1>14, <2>2, MovedKeeps DEF DeviceToggles, cpuVars
<1>15. CASE UNCHANGED interruptVars
  BY <1>0, <1>15, MovedKeeps DEF interruptVars, cpuVars
<1> QED
  BY <1>1, <1>2, <1>3, <1>4, <1>5, <1>6, <1>7, <1>8, <1>9, <1>10, <1>11, <1>12, <1>13,
     <1>14, <1>15
  DEF InterruptsNext, Cpu, Timer

\* The inductive invariant holds throughout.
THEOREM InterruptsInvariant == InterruptsSpec => []InterruptsInv
<1> QED
  BY InterruptsInitially, InterruptsStep, PTL DEF InterruptsSpec

\* Every interrupt runs the handler of its device, whatever the firmware left
\* (kernel.c:52-86, idt.c:110-176, pic.c:15-41).
THEOREM InterruptsReachHandlers == InterruptsSpec => []HandlersMatchLines
<1>1. InterruptsInv => HandlersMatchLines
  <2> SUFFICES ASSUME InterruptsInv, at = "handler", source # -1
               PROVE  gate(vector) = (CASE source = 0 -> "timer" [] source = 1 -> "keyboard"
                                       [] OTHER -> "default")
    BY DEF HandlersMatchLines
  <2>1. <<source, vector>> \in {<<0, 32>>, <<1, 33>>, <<7, 39>>}
    BY DEF InterruptsInv
  <2>2. \/ source = 0 /\ vector = 32
        \/ source = 1 /\ vector = 33
        \/ source = 7 /\ vector = 39
    BY <2>1
  <2> QED
    BY <2>2, GateIs
<1> QED
  BY <1>1, InterruptsInvariant, PTL

\* When no handler runs, nothing waits for an acknowledgement (idt.c:122-125,
\* kernel.c:55-57, pic.c:43-49).
THEOREM InterruptsAcknowledged == InterruptsSpec => []AllAcknowledged
<1>1. InterruptsInv => AllAcknowledged
  BY DEF InterruptsInv, AllAcknowledged, Quiet
<1> QED
  BY <1>1, InterruptsInvariant, PTL
=============================================================================
