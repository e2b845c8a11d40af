--------------------------- MODULE ServicesProofs ---------------------------
(***************************************************************************)
(* What the parsers return, and that the exit codes, ids, approvals        *)
(* and the audit log of the services are true, for every unit file, every  *)
(* command line, every program and every failing call.                     *)
(***************************************************************************)
EXTENDS Services, FiniteSetTheorems, WellFoundedInduction, TLAPS
-----------------------------------------------------------------------------
(* The loops of the parsers *)

\* A set of numbers that is not empty has a least one.
LEMMA Least ==
    ASSUME NEW T, T \subseteq Nat, T # {}
    PROVE  \E x \in T : \A y \in T : x <= y
<1>1. PICK x \in T : \A y \in T : ~ (<<y, x>> \in OpToRel(<, Nat))
  BY NatLessThanWellFounded, WFMin
<1>2. \A y \in Nat : y < x => <<y, x>> \in OpToRel(<, Nat)
  BY Zenon DEF OpToRel
<1>3. \A y \in T : ~ (y < x)
  BY <1>1, <1>2, Zenon
<1> QED
  BY <1>3

\* Counting positions of a sequence gives at most its length.
LEMMA Count ==
    ASSUME NEW n \in Nat, NEW T, T \subseteq 1 .. n
    PROVE  Cardinality(T) \in Nat /\ Cardinality(T) <= n
<1>1. IsFiniteSet(1 .. n) /\ Cardinality(1 .. n) = n
  BY FS_Interval
<1>2. IsFiniteSet(T) /\ Cardinality(T) <= Cardinality(1 .. n)
  BY <1>1, FS_Subset
<1>3. Cardinality(T) \in Nat
  BY <1>2, FS_CardinalityType
<1> QED
  BY <1>1, <1>2, <1>3

\* What snprintf leaves of a value are words (walud.c:85-103).
LEMMA CutIsWords ==
    ASSUME NEW value \in Seq(Word), NEW room
    PROVE  Cut(value, room) \in Seq(STRING)
<1> DEFINE begins == CHOOSE b : b = [k \in 1 .. Len(value) |->
                         IF k = 1 THEN 0 ELSE b[k - 1] + Bytes[value[k - 1]] + 1]
           left(k) == room - begins[k]
           First(w, n) == IF n \in DOMAIN Prefix[w] THEN Prefix[w][n] ELSE w
           kept == {i \in DOMAIN value : left(i) >= 0}
           m == Cardinality(kept)
<1>1. Cut(value, room) = [k \in 1 .. m |-> First(value[k], left(k))]
  BY Zenon DEF Cut
<1> HIDE DEF begins
<1>2. Len(value) \in Nat /\ DOMAIN value = 1 .. Len(value) /\ kept \subseteq 1 .. Len(value)
  OBVIOUS
<1>3. m \in Nat /\ m <= Len(value)
  <2> HIDE DEF kept
  <2> QED
    BY <1>2, Count
<1>4. ASSUME NEW w \in Word, NEW n PROVE First(w, n) \in STRING
  BY <1>4, WordsAssumption
<1> HIDE DEF m, left, First
<1>5. \A k \in 1 .. m : value[k] \in Word
  BY <1>2, <1>3
<1>6. \A k \in 1 .. m : First(value[k], left(k)) \in STRING
  BY <1>4, <1>5
<1> QED
  BY <1>1, <1>3, <1>6

\* The command line is words of what ExecStart holds (walud.c:153-163).
LEMMA ExecIsWords ==
    ASSUME unit.values \in [Fields -> Seq(STRING)]
    PROVE  ExecWords \in Seq(STRING)
<1> DEFINE start == unit.values[<<"Service", "ExecStart">>]
           T == {i \in DOMAIN start : i < 32 /\ start[i] # ""}
<1>1. start \in Seq(STRING)
  BY DEF Fields
<1>2. ExecWords = SubSeq(start, 1, Cardinality(T))
  BY Zenon DEF ExecWords
<1>3. Len(start) \in Nat /\ DOMAIN start = 1 .. Len(start) /\ T \subseteq DOMAIN start
  <2>1. T \subseteq DOMAIN start
    BY Zenon
  <2> HIDE DEF start, T
  <2> QED
    BY <1>1, <2>1
<1> HIDE DEF start, T
<1>4. Cardinality(T) \in Nat /\ Cardinality(T) <= Len(start)
  BY <1>3, Count
<1> QED
  BY <1>1, <1>2, <1>4

\* The units after each line of the file, parse_unit_file's loop turn by turn
\* (walud.c:53-106).
LEMMA UnitLoop ==
    ASSUME NEW file \in Seq(Line)
    PROVE  \E after : /\ after[0] = BlankUnit
                      /\ \A n \in 1 .. Len(file) : after[n] = UnitLine(after[n - 1], file[n])
                      /\ parse_unit_file(file) = after[Len(file)]
<1> DEFINE Turn(a, n) == IF n = 0 THEN BlankUnit ELSE UnitLine(a[n - 1], file[n])
           Turns(a, m) == [n \in 0 .. m |-> Turn(a, n)]
           bad == {m \in Nat : ~ \E a : a = Turns(a, m)}
<1>1. bad = {}
  <2> SUFFICES ASSUME bad # {} PROVE FALSE
    OBVIOUS
  <2>1. PICK m \in bad : \A o \in bad : m <= o
    <3> HIDE DEF bad
    <3>1. bad \subseteq Nat
      BY DEF bad
    <3> QED
      BY <3>1, Least
  <2>2. m # 0
    <3> DEFINE a == [n \in 0 .. 0 |-> BlankUnit]
    <3>1. a = Turns(a, 0)
      OBVIOUS
    <3> QED
      BY <3>1
  <2>3. m \in Nat /\ m - 1 \in Nat /\ m - 1 \notin bad
    <3>1. m \in Nat
      OBVIOUS
    <3> HIDE DEF bad
    <3> QED
      BY <3>1, <2>1, <2>2
  <2>4. PICK a : a = Turns(a, m - 1)
    BY <2>3
  <2> DEFINE b == [n \in 0 .. m |-> IF n = m THEN Turn(a, m) ELSE a[n]]
  <2>5. b = Turns(b, m)
    <3>1. ASSUME NEW n \in 0 .. m PROVE b[n] = Turn(b, n)
      <4>1. CASE n = m
        <5>1. b[m - 1] = a[m - 1]
          BY <2>3
        <5> QED
          BY <4>1, <5>1, <2>2
      <4>2. CASE n # m
        <5>1. b[n] = a[n] /\ (n # 0 => b[n - 1] = a[n - 1])
          BY <4>2, <2>3
        <5>2. a[n] = Turn(a, n)
          BY <4>2, <2>3, <2>4
        <5> QED
          BY <5>1, <5>2
      <4> QED
        BY <4>1, <4>2
    <3> QED
      BY <3>1
  <2> QED
    BY <2>1, <2>5
<1>2. PICK any : any = Turns(any, Len(file))
  BY <1>1
<1> DEFINE after == CHOOSE a : a = Turns(a, Len(file))
<1>3. after = Turns(after, Len(file))
  BY <1>2, Zenon
<1>4. parse_unit_file(file) = after[Len(file)]
  BY Zenon DEF parse_unit_file
<1> HIDE DEF after
<1>5. /\ after[0] = BlankUnit
      /\ \A n \in 1 .. Len(file) : after[n] = UnitLine(after[n - 1], file[n])
  BY <1>3
<1> QED
  BY <1>4, <1>5, Zenon

\* The header a line stands below, and the settings of a field so far.
HeaderOf(file, i, h) ==
    h \in 1 .. i /\ file[h].is = "header" /\ \A k \in h + 1 .. i : file[k].is # "header"

SetsUpTo(file, n, f) ==
    {i \in 1 .. n : /\ file[i].is = "set" /\ file[i].key = f[2]
                    /\ \E h \in 1 .. i : HeaderOf(file, i, h) /\ file[h].name = f[1]}

\* What the unit holds after n lines, as long as none was malformed.
SectionIs(file, n, u) ==
    \/ u.section = "" /\ \A i \in 1 .. n : file[i].is # "header"
    \/ \E h \in 1 .. n : HeaderOf(file, n, h) /\ file[h].name = u.section

ValueIs(file, n, u, f) ==
    \/ SetsUpTo(file, n, f) = {} /\ u.values[f] = <<>>
    \/ \E i \in SetsUpTo(file, n, f) :
           /\ \A j \in SetsUpTo(file, n, f) : j <= i
           /\ u.values[f] = Cut(file[i].value, Room(f))

Names == STRING \cup {""}
Units == [ok : BOOLEAN, section : Names, values : [Fields -> Seq(STRING)]]

UnitUpTo(file, n, u) ==
    /\ u \in Units
    /\ u.ok => /\ \A i \in 1 .. n : file[i].is # "broken"
               /\ SectionIs(file, n, u)
               /\ \A f \in Fields : ValueIs(file, n, u, f)

\* A field is a section and a key.
LEMMA FieldsAre ==
    /\ \A f \in Fields : f = <<f[1], f[2]>> /\ f[1] # ""
    /\ \A s, k : <<s, k>> \in Fields => s # ""
<1>1. ASSUME NEW f \in Fields PROVE f = <<f[1], f[2]>> /\ f[1] # ""
  <2>1. CASE f \in {"Unit"} \X {"Description", "After", "Requires"}
    <3>1. PICK k \in {"Description", "After", "Requires"} : f = <<"Unit", k>>
      BY <2>1
    <3> QED
      BY <3>1
  <2>2. CASE f \in {"Service"} \X {"ExecStart", "User", "Restart"}
    <3>1. PICK k \in {"ExecStart", "User", "Restart"} : f = <<"Service", k>>
      BY <2>2
    <3> QED
      BY <3>1
  <2>3. CASE f = <<"Install", "WantedBy">>
    BY <2>3
  <2> QED
    BY <2>1, <2>2, <2>3 DEF Fields
<1>2. ASSUME NEW s, NEW k, <<s, k>> \in Fields PROVE s # ""
  BY <1>1, <1>2
<1> QED
  BY <1>1, <1>2

\* One turn of the loop keeps it (walud.c:53-106).
LEMMA UnitTurn ==
    ASSUME NEW file \in Seq(Line), NEW n \in 1 .. Len(file), NEW u,
           UnitUpTo(file, n - 1, u)
    PROVE  UnitUpTo(file, n, UnitLine(u, file[n]))
<1> DEFINE v == UnitLine(u, file[n])
           line == file[n]
<1> USE DEF Units
<1>1. line \in Line
  OBVIOUS
<1>2. /\ n \in Nat /\ n >= 1 /\ n - 1 \in Nat
      /\ 1 .. n = (1 .. n - 1) \cup {n}
      /\ u \in Units
  BY DEF UnitUpTo
<1>3. CASE ~ u.ok
  BY <1>2, <1>3 DEF UnitUpTo, UnitLine
<1>4. CASE u.ok
  <2>1. /\ \A i \in 1 .. n - 1 : file[i].is # "broken"
        /\ SectionIs(file, n - 1, u)
        /\ \A f \in Fields : ValueIs(file, n - 1, u, f)
    BY <1>4 DEF UnitUpTo
  <2>2. ASSUME line.is # "header", NEW h \in 1 .. n
        PROVE  HeaderOf(file, n, h) <=> h \in 1 .. n - 1 /\ HeaderOf(file, n - 1, h)
    BY <1>2, <2>2 DEF HeaderOf
  <2>3. ASSUME NEW f \in Fields, n \notin SetsUpTo(file, n, f)
        PROVE  SetsUpTo(file, n, f) = SetsUpTo(file, n - 1, f)
    BY <1>2, <2>3 DEF SetsUpTo
  <2>4. ASSUME line.is # "set", NEW f \in Fields
        PROVE  SetsUpTo(file, n, f) = SetsUpTo(file, n - 1, f)
    BY <2>3, <2>4 DEF SetsUpTo
  <2>5. ASSUME line.is # "header", NEW w, w.section = u.section
        PROVE  SectionIs(file, n, w)
    BY <1>2, <2>1, <2>2, <2>5 DEF SectionIs
  <2>6. ASSUME line.is # "header", NEW f \in Fields
        PROVE  n \in SetsUpTo(file, n, f)
                 <=> line.is = "set" /\ f = <<u.section, line.key>>
    <3>1. ASSUME NEW h \in 1 .. n, HeaderOf(file, n, h)
          PROVE  file[h].name = u.section
      <4>1. h \in 1 .. n - 1 /\ HeaderOf(file, n - 1, h)
        BY <2>2, <2>6, <3>1
      <4>2. PICK g \in 1 .. n - 1 : HeaderOf(file, n - 1, g) /\ file[g].name = u.section
        BY <2>1, <4>1 DEF SectionIs, HeaderOf
      <4>3. g = h
        BY <4>1, <4>2, <1>2 DEF HeaderOf
      <4> QED
        BY <4>2, <4>3
    <3>2. ASSUME n \in SetsUpTo(file, n, f)
          PROVE  line.is = "set" /\ f = <<u.section, line.key>>
      BY <3>1, <3>2, FieldsAre DEF SetsUpTo
    <3>3. ASSUME line.is = "set", f = <<u.section, line.key>>
          PROVE  n \in SetsUpTo(file, n, f)
      <4>1. f[1] = u.section /\ f[2] = line.key /\ u.section # ""
        BY <3>3, FieldsAre
      <4>2. PICK h \in 1 .. n - 1 : HeaderOf(file, n - 1, h) /\ file[h].name = u.section
        BY <2>1, <4>1 DEF SectionIs
      <4>3. h \in 1 .. n /\ HeaderOf(file, n, h)
        BY <1>2, <2>2, <2>6, <4>2
      <4> QED
        BY <1>2, <3>3, <4>1, <4>2, <4>3 DEF SetsUpTo
    <3> QED
      BY <3>2, <3>3
  <2>7. CASE line.is = "broken"
    <3>1. v = [u EXCEPT !.ok = FALSE]
      BY <1>4, <2>7 DEF UnitLine
    <3> QED
      BY <1>2, <3>1 DEF UnitUpTo
  <2>8. CASE line.is = "header"
    <3>1. v = [u EXCEPT !.section = line.name] /\ line.name \in Names
      <4>1. line.name \in STRING
        BY <1>1, <2>8 DEF Line, Broken, Other
      <4>2. line.name \in Names
        BY <4>1, Zenon DEF Names
      <4>3. v = [u EXCEPT !.section = line.name]
        BY <1>4, <2>8 DEF UnitLine
      <4> QED
        BY <4>2, <4>3
    <3>2. HeaderOf(file, n, n)
      BY <1>2, <2>8 DEF HeaderOf
    <3>3. SectionIs(file, n, v)
      BY <1>2, <3>1, <3>2 DEF SectionIs
    <3>4. \A f \in Fields : ValueIs(file, n, v, f)
      BY <1>2, <2>1, <2>4, <2>8, <3>1 DEF ValueIs
    <3>5. v \in Units
      BY <1>2, <3>1
    <3> QED
      BY <1>2, <2>1, <2>8, <3>3, <3>4, <3>5 DEF UnitUpTo
  <2>9. CASE line.is = "set" /\ <<u.section, line.key>> \in Fields
    <3> DEFINE g == <<u.section, line.key>>
           cut == Cut(line.value, Room(g))
    <3>1. v = [u EXCEPT !.values[g] = cut] /\ cut \in Seq(STRING)
      <4>1. line.value \in Seq(Word)
        BY <1>1, <2>9 DEF Line, Broken, Other
      <4>2. cut \in Seq(STRING)
        BY <4>1, CutIsWords
      <4>3. v = [u EXCEPT !.values[g] = cut]
        BY <1>4, <2>9 DEF UnitLine
      <4> QED
        BY <4>2, <4>3
    <3> HIDE DEF cut
    <3>2. v \in Units
      BY <1>2, <2>9, <3>1
    <3>3. SectionIs(file, n, v)
      BY <1>2, <2>5, <2>9, <3>1
    <3>4. ASSUME NEW f \in Fields PROVE ValueIs(file, n, v, f)
      <4>1. CASE f = g
        <5>1. n \in SetsUpTo(file, n, f)
          BY <2>6, <2>9, <4>1
        <5>2. \A j \in SetsUpTo(file, n, f) : j <= n
          BY <1>2 DEF SetsUpTo
        <5>3. v.values[f] = Cut(file[n].value, Room(f))
          BY <1>2, <2>9, <3>1, <4>1 DEF cut
        <5> QED
          BY <5>1, <5>2, <5>3 DEF ValueIs
      <4>2. CASE f # g
        <5>1. SetsUpTo(file, n, f) = SetsUpTo(file, n - 1, f)
          BY <2>3, <2>6, <2>9, <4>2
        <5>2. v.values[f] = u.values[f]
          BY <1>2, <2>9, <3>1, <4>2
        <5> QED
          BY <2>1, <5>1, <5>2 DEF ValueIs
      <4> QED
        BY <4>1, <4>2
    <3> QED
      BY <1>2, <2>1, <2>9, <3>2, <3>3, <3>4 DEF UnitUpTo
  <2>10. CASE /\ line.is \notin {"broken", "header"}
              /\ ~ (line.is = "set" /\ <<u.section, line.key>> \in Fields)
    <3>1. v = u
      BY <1>4, <2>10 DEF UnitLine
    <3>2. SectionIs(file, n, u)
      BY <2>5, <2>10
    <3>3. ASSUME NEW f \in Fields PROVE ValueIs(file, n, u, f)
      <4>1. SetsUpTo(file, n, f) = SetsUpTo(file, n - 1, f)
        BY <2>3, <2>6, <2>10
      <4> QED
        BY <2>1, <4>1 DEF ValueIs
    <3> QED
      BY <1>2, <2>1, <2>10, <3>1, <3>2, <3>3 DEF UnitUpTo
  <2> QED
    BY <2>7, <2>8, <2>9, <2>10
<1> QED
  BY <1>3, <1>4

\* What parse_unit_file returns when it succeeds (walud.c:40-110).
LEMMA ParsedUnit ==
    ASSUME NEW file \in Seq(Line), parse_unit_file(file).ok
    PROVE  /\ \A i \in DOMAIN file : file[i] # Broken
           /\ \A f \in Fields : parse_unit_file(file).values[f] = Declared(file, f)
           /\ parse_unit_file(file).values \in [Fields -> Seq(STRING)]
<1> USE DEF Units
<1>1. PICK after : /\ after[0] = BlankUnit
                   /\ \A n \in 1 .. Len(file) : after[n] = UnitLine(after[n - 1], file[n])
                   /\ parse_unit_file(file) = after[Len(file)]
  BY UnitLoop
<1> DEFINE bad == {n \in 0 .. Len(file) : ~ UnitUpTo(file, n, after[n])}
<1>2. bad = {}
  <2> SUFFICES ASSUME bad # {} PROVE FALSE
    OBVIOUS
  <2>1. bad \subseteq Nat /\ bad \subseteq 0 .. Len(file)
    OBVIOUS
  <2>2. PICK n \in bad : \A o \in bad : n <= o
    <3> HIDE DEF bad
    <3> QED
      BY <2>1, Least
  <2>3. n # 0
    <3>1. UnitUpTo(file, 0, BlankUnit)
      <4>1. /\ BlankUnit \in Units
            /\ BlankUnit.section = ""
            /\ \A f \in Fields : BlankUnit.values[f] = <<>>
        <5> DEFINE none == <<>>
        <5>1. none \in Seq(STRING)
          OBVIOUS
        <5> HIDE DEF none
        <5>2. [f \in Fields |-> none] \in [Fields -> Seq(STRING)]
          BY <5>1
        <5>3. BlankUnit = [ok |-> TRUE, section |-> "", values |-> [f \in Fields |-> none]]
          BY DEF BlankUnit, none
        <5>4. \A f \in Fields : BlankUnit.values[f] = none
          BY <5>3
        <5>5. /\ BlankUnit \in Units
              /\ BlankUnit.section = ""
          <6>1. "" \in Names
            BY DEF Names
          <6> QED
            BY <5>2, <5>3, <6>1
        <5> QED
          BY <5>4, <5>5, Zenon DEF none
      <4>2. 1 .. 0 = {}
        OBVIOUS
      <4> QED
        BY <4>1, <4>2 DEF UnitUpTo, SectionIs, ValueIs, SetsUpTo
    <3> QED
      BY <1>1, <3>1
  <2>4. n \in 1 .. Len(file) /\ n - 1 \in 0 .. Len(file) /\ n - 1 \notin bad
    <3> HIDE DEF bad
    <3> QED
      BY <2>1, <2>2, <2>3
  <2>5. UnitUpTo(file, n - 1, after[n - 1])
    BY <2>4
  <2>6. UnitUpTo(file, n, after[n])
    BY <1>1, <2>4, <2>5, UnitTurn
  <2> QED
    BY <2>6
<1> DEFINE u == parse_unit_file(file)
<1>3. UnitUpTo(file, Len(file), u)
  BY <1>1, <1>2
<1> HIDE DEF bad, u
<1>4. ASSUME NEW f \in Fields PROVE u.values[f] = Declared(file, f)
  <2> DEFINE Section(i) == {h \in 1 .. i : file[h].is = "header" /\ file[h].name = f[1]
                                /\ \A k \in h + 1 .. i : file[k].is # "header"}
             Sets == {i \in DOMAIN file : /\ file[i].is = "set" /\ file[i].key = f[2]
                                          /\ Section(i) # {}}
  <2>1. Sets = SetsUpTo(file, Len(file), f)
    BY DEF SetsUpTo, HeaderOf
  <2>2. Declared(file, f) = IF Sets = {} THEN <<>> ELSE Cut(file[Max(Sets)].value, Room(f))
    BY DEF Declared
  <2>3. ValueIs(file, Len(file), u, f)
    BY <1>3 DEF UnitUpTo, u
  <2> HIDE DEF Sets
  <2>4. ASSUME NEW i \in Sets, \A j \in Sets : j <= i
        PROVE  Max(Sets) = i
    <3>1. Sets \subseteq Nat
      BY DEF Sets
    <3>2. \A x \in Sets : (\A y \in Sets : x >= y) <=> x = i
      BY <2>4, <3>1
    <3> QED
      BY <2>4, <3>2 DEF Max
  <2> QED
    BY <2>1, <2>2, <2>3, <2>4 DEF ValueIs
<1> QED
  BY <1>3, <1>4 DEF UnitUpTo, u, Broken

\* What the words from the i-th on give, from what the words after it give.
WordsFrom(argv, valued, flags, from, i) ==
    IF i > Len(argv) THEN [ok |-> TRUE, given |-> <<>>]
    ELSE IF argv[i] \in valued /\ i < Len(argv)
         THEN IF from[i + 2].ok
              THEN [ok |-> TRUE,
                    given |-> Under(from[i + 2].given, argv[i], argv[i + 1])]
              ELSE Usage
    ELSE IF argv[i] \in flags
         THEN IF from[i + 1].ok
              THEN [ok |-> TRUE, given |-> Under(from[i + 1].given, argv[i], "")]
              ELSE Usage
    ELSE Usage

\* The loop of parse_format_args, and of authd's verify, word by word
\* (storaged.c:42-56).
LEMMA OptionsLoop ==
    ASSUME NEW argv \in Seq(STRING), NEW valued, NEW flags
    PROVE  \E from : /\ \A i \in 1 .. Len(argv) + 2 :
                            from[i] = WordsFrom(argv, valued, flags, from, i)
                     /\ Options(argv, valued, flags) = from[1]
<1> DEFINE L == Len(argv)
           Body(a, i) == WordsFrom(argv, valued, flags, a, i)
           Fix(a, n) == a = [i \in n .. L + 2 |-> Body(a, i)]
           bad == {m \in 0 .. L + 1 : ~ \E a : Fix(a, L + 2 - m)}
<1>0. L \in Nat
  OBVIOUS
<1> HIDE DEF L
<1>1. bad = {}
  <2> SUFFICES ASSUME bad # {} PROVE FALSE
    OBVIOUS
  <2>1. bad \subseteq Nat /\ bad \subseteq 0 .. L + 1
    BY <1>0
  <2>2. PICK m \in bad : \A o \in bad : m <= o
    <3> HIDE DEF bad
    <3> QED
      BY <2>1, Least
  <2>3. m # 0
    <3> DEFINE a == [i \in L + 2 .. L + 2 |-> [ok |-> TRUE, given |-> <<>>]]
    <3>1. Body(a, L + 2) = [ok |-> TRUE, given |-> <<>>]
      <4>1. L + 2 > Len(argv)
        BY <1>0 DEF L
      <4> QED
        BY <4>1, Zenon DEF WordsFrom
    <3>2. L + 2 .. L + 2 = {L + 2}
      BY <1>0
    <3>3. \A i \in L + 2 .. L + 2 : Body(a, i) = [ok |-> TRUE, given |-> <<>>]
      BY <3>1, <3>2
    <3> HIDE DEF Body
    <3>4. Fix(a, L + 2)
      BY <3>3
    <3>5. L + 2 - 0 = L + 2
      BY <1>0
    <3>6. ASSUME m = 0 PROVE FALSE
      BY <3>4, <3>5, <3>6
    <3> QED
      BY <3>6
  <2>4. m \in 1 .. L + 1 /\ m - 1 \in 0 .. L + 1 /\ m - 1 \notin bad
    <3> HIDE DEF bad
    <3> QED
      BY <1>0, <2>1, <2>2, <2>3
  <2> DEFINE n == L + 2 - m
  <2>5. n \in 1 .. L + 1 /\ L + 2 - (m - 1) = n + 1
    BY <1>0, <2>4
  <2>6. PICK a : Fix(a, n + 1)
    <3>1. \E a : Fix(a, L + 2 - (m - 1))
      BY <2>4
    <3> QED
      BY <2>5, <3>1
  <2> HIDE DEF n
  <2> DEFINE b == [i \in n .. L + 2 |-> IF i = n THEN Body(a, n) ELSE a[i]]
  <2>7. \A i \in n + 1 .. L + 2 : b[i] = a[i]
    BY <1>0, <2>5
  <2>8. ASSUME NEW i \in n .. L + 2 PROVE Body(b, i) = Body(a, i)
    <3>1. CASE i > L
      BY <1>0, <3>1 DEF WordsFrom, L
    <3>2. CASE i <= L
      <4>1. b[i + 1] = a[i + 1] /\ b[i + 2] = a[i + 2]
        BY <1>0, <2>5, <2>7, <3>2
      <4> HIDE DEF b
      <4> QED
        BY <4>1 DEF WordsFrom
    <3> QED
      BY <1>0, <2>5, <3>1, <3>2
  <2>9. ASSUME NEW i \in n .. L + 2 PROVE b[i] = Body(b, i)
    <3>1. CASE i = n
      BY <2>8, <3>1
    <3>2. CASE i # n
      <4>1. b[i] = a[i] /\ i \in n + 1 .. L + 2
        BY <1>0, <2>5, <2>7, <3>2
      <4>2. a[i] = Body(a, i)
        <5> HIDE DEF Body
        <5> QED
          BY <2>6, <4>1
      <4> QED
        BY <2>8, <4>1, <4>2
    <3> QED
      BY <3>1, <3>2
  <2>10. Fix(b, n)
    <3> HIDE DEF Body
    <3> QED
      BY <2>9
  <2> QED
    BY <2>2, <2>10 DEF n
<1>2. \E a : Fix(a, 1)
  <2>1. L + 1 \in 0 .. L + 1 /\ L + 2 - (L + 1) = 1
    BY <1>0
  <2> QED
    BY <1>1, <2>1
<1> DEFINE from == CHOOSE a : Fix(a, 1)
<1>3. Fix(from, 1)
  BY <1>2, Zenon
<1>4. Options(argv, valued, flags) = from[1]
  BY Zenon DEF Options, WordsFrom, L
<1> HIDE DEF from
<1>5. \A i \in 1 .. L + 2 : from[i] = Body(from, i)
  <2> HIDE DEF Body
  <2> QED
    BY <1>3
<1> QED
  BY <1>4, <1>5, Zenon DEF L

\* The value is the one of the option's last occurrence from the i-th word on.
LastValueFrom(argv, valued, i, name, value) ==
    \E j \in i .. Len(argv) - 1 :
        /\ argv[j] = name /\ argv[j + 1] = value
        /\ \A k \in j + 1 .. Len(argv) : argv[k] = name => argv[k - 1] \in valued

\* What is given from the i-th word on.
GivenFrom(argv, valued, flags, i, options) ==
    options.ok =>
        /\ \A name \in DOMAIN options.given \cap valued :
               LastValueFrom(argv, valued, i, name, options.given[name])
        /\ \A name \in DOMAIN options.given \cap flags :
               \E j \in i .. Len(argv) : argv[j] = name
        /\ \A name \in valued \ DOMAIN options.given :
               \A k \in i .. Len(argv) :
                   argv[k] = name => k > i /\ argv[k - 1] \in valued

\* One turn of the loop keeps it: the words after an option and its value were
\* read already, and what they give stands (storaged.c:42-56).
LEMMA OptionsTurn ==
    ASSUME NEW argv \in Seq(STRING), NEW valued, NEW flags, valued \cap flags = {},
           NEW from, NEW i \in 1 .. Len(argv),
           GivenFrom(argv, valued, flags, i + 1, from[i + 1]),
           i < Len(argv) => GivenFrom(argv, valued, flags, i + 2, from[i + 2])
    PROVE  GivenFrom(argv, valued, flags, i, WordsFrom(argv, valued, flags, from, i))
<1> DEFINE L == Len(argv)
           options == WordsFrom(argv, valued, flags, from, i)
<1>1. L \in Nat /\ i \in Nat /\ i >= 1 /\ i <= L /\ ~ (i > L)
  OBVIOUS
<1>2. CASE argv[i] \in valued /\ i < L /\ from[i + 2].ok
  <2> DEFINE given == from[i + 2].given
  <2>1. options = [ok |-> TRUE, given |-> Under(given, argv[i], argv[i + 1])]
    BY <1>1, <1>2 DEF WordsFrom
  <2>2. /\ DOMAIN options.given = DOMAIN given \cup {argv[i]}
        /\ \A name \in DOMAIN given : options.given[name] = given[name]
        /\ argv[i] \notin DOMAIN given => options.given[argv[i]] = argv[i + 1]
    BY <2>1 DEF Under
  <2>3. /\ \A name \in DOMAIN given \cap valued :
               LastValueFrom(argv, valued, i + 2, name, given[name])
        /\ \A name \in DOMAIN given \cap flags : \E j \in i + 2 .. L : argv[j] = name
        /\ \A name \in valued \ DOMAIN given :
               \A k \in i + 2 .. L : argv[k] = name => k > i + 2 /\ argv[k - 1] \in valued
    BY <1>2 DEF GivenFrom
  <2> HIDE DEF options, given
  <2>4. ASSUME NEW name \in DOMAIN options.given \cap valued
        PROVE  LastValueFrom(argv, valued, i, name, options.given[name])
    <3>1. CASE name \in DOMAIN given
      BY <1>1, <2>2, <2>3, <3>1 DEF LastValueFrom
    <3>2. CASE name \notin DOMAIN given
      <4>1. name = argv[i] /\ options.given[name] = argv[i + 1]
        BY <2>2, <3>2
      <4>2. ASSUME NEW k \in i + 1 .. L, argv[k] = name
            PROVE  argv[k - 1] \in valued
        <5>1. CASE k = i + 1
          BY <1>1, <1>2, <5>1
        <5>2. CASE k # i + 1
          <6>1. k \in i + 2 .. L
            BY <1>1, <5>2
          <6> QED
            BY <2>3, <3>2, <4>2, <6>1
        <5> QED
          BY <5>1, <5>2
      <4>3. i \in i .. L - 1
        BY <1>1, <1>2
      <4> QED
        BY <4>1, <4>2, <4>3 DEF LastValueFrom
    <3> QED
      BY <3>1, <3>2
  <2>5. ASSUME NEW name \in DOMAIN options.given \cap flags
        PROVE  \E j \in i .. L : argv[j] = name
    BY <1>1, <2>2, <2>3
  <2>6. ASSUME NEW name \in valued \ DOMAIN options.given, NEW k \in i .. L, argv[k] = name
        PROVE  k > i /\ argv[k - 1] \in valued
    <3>1. k # i /\ name \notin DOMAIN given
      BY <2>2, <2>6
    <3>2. CASE k = i + 1
      BY <1>1, <1>2, <3>2
    <3>3. CASE k # i + 1
      <4>1. k \in i + 2 .. L
        BY <1>1, <3>1, <3>3
      <4> QED
        BY <1>1, <2>3, <2>6, <3>1, <4>1
    <3> QED
      BY <3>2, <3>3
  <2> QED
    BY <2>4, <2>5, <2>6 DEF GivenFrom, options
<1>3. CASE ~ (argv[i] \in valued /\ i < L) /\ argv[i] \in flags /\ from[i + 1].ok
  <2> DEFINE given == from[i + 1].given
             empty == ""
  <2>1. options = [ok |-> TRUE, given |-> Under(given, argv[i], empty)]
    BY <1>1, <1>3, Zenon DEF WordsFrom
  <2> HIDE DEF empty
  <2>2. /\ DOMAIN options.given = DOMAIN given \cup {argv[i]}
        /\ \A name \in DOMAIN given : options.given[name] = given[name]
    BY <2>1 DEF Under
  <2>3. /\ \A name \in DOMAIN given \cap valued :
               LastValueFrom(argv, valued, i + 1, name, given[name])
        /\ \A name \in DOMAIN given \cap flags : \E j \in i + 1 .. L : argv[j] = name
        /\ \A name \in valued \ DOMAIN given :
               \A k \in i + 1 .. L : argv[k] = name => k > i + 1 /\ argv[k - 1] \in valued
    BY <1>3 DEF GivenFrom
  <2> HIDE DEF options, given
  <2>4. ASSUME NEW name \in DOMAIN options.given \cap valued
        PROVE  LastValueFrom(argv, valued, i, name, options.given[name])
    <3>1. name \in DOMAIN given
      BY <1>3, <2>2
    <3>2. options.given[name] = given[name] /\ i + 1 \in Nat
      BY <1>1, <2>2, <3>1
    <3>3. LastValueFrom(argv, valued, i + 1, name, given[name])
      BY <2>3, <3>1
    <3>4. i + 1 .. L - 1 \subseteq i .. L - 1
      BY <1>1
    <3> QED
      BY <3>2, <3>3, <3>4, Zenon DEF LastValueFrom
  <2>5. ASSUME NEW name \in DOMAIN options.given \cap flags
        PROVE  \E j \in i .. L : argv[j] = name
    BY <1>1, <2>2, <2>3
  <2>6. ASSUME NEW name \in valued \ DOMAIN options.given, NEW k \in i .. L, argv[k] = name
        PROVE  k > i /\ argv[k - 1] \in valued
    <3>1. k # i /\ name \notin DOMAIN given
      BY <2>2, <2>6
    <3>2. k \in i + 1 .. L
      BY <1>1, <3>1
    <3> QED
      BY <1>1, <2>3, <2>6, <3>1, <3>2
  <2> QED
    BY <2>4, <2>5, <2>6 DEF GivenFrom, options
<1>4. CASE /\ ~ (argv[i] \in valued /\ i < L /\ from[i + 2].ok)
           /\ ~ (~ (argv[i] \in valued /\ i < L) /\ argv[i] \in flags /\ from[i + 1].ok)
  <2>1. options = Usage
    BY <1>1, <1>4, Zenon DEF WordsFrom
  <2>2. ~ options.ok
    BY <2>1 DEF Usage
  <2> QED
    BY <2>2 DEF GivenFrom
<1> QED
  BY <1>2, <1>3, <1>4

\* What the loop leaves in force: of every option with a value the last one,
\* and no flag that was not there (storaged.c:39-63).
LEMMA OptionsGiven ==
    ASSUME NEW argv \in Seq(STRING), NEW valued, NEW flags, valued \cap flags = {}
    PROVE  GivenFrom(argv, valued, flags, 1, Options(argv, valued, flags))
<1> DEFINE L == Len(argv)
<1>0. L \in Nat
  OBVIOUS
<1>1. PICK from : /\ \A i \in 1 .. L + 2 : from[i] = WordsFrom(argv, valued, flags, from, i)
                  /\ Options(argv, valued, flags) = from[1]
  BY OptionsLoop
<1> DEFINE Good(i) == GivenFrom(argv, valued, flags, i, from[i])
           bad == {m \in 0 .. L + 1 : ~ Good(L + 2 - m)}
<1>2. bad = {}
  <2> SUFFICES ASSUME bad # {} PROVE FALSE
    OBVIOUS
  <2>1. bad \subseteq Nat /\ bad \subseteq 0 .. L + 1
    BY <1>0
  <2>2. PICK m \in bad : \A o \in bad : m <= o
    <3> HIDE DEF bad
    <3> QED
      BY <2>1, Least
  <2> DEFINE i == L + 2 - m
  <2>3. m \in 0 .. L + 1 /\ i \in 1 .. L + 2 /\ ~ Good(i)
    BY <1>0
  <2>4. \A j \in 1 .. L + 2 : j > i => Good(j)
    <3> SUFFICES ASSUME NEW j \in 1 .. L + 2, j > i PROVE Good(j)
      OBVIOUS
    <3>1. /\ L + 2 - j \in 0 .. L + 1 /\ L + 2 - (L + 2 - j) = j
          /\ L + 2 - j < m /\ m \in Int /\ L + 2 - j \in Int
      BY <1>0, <2>3
    <3>2. L + 2 - j \notin bad
      <4> HIDE DEF bad, Good
      <4> QED
        BY <2>2, <3>1
    <3> HIDE DEF Good
    <3> QED
      BY <3>1, <3>2
  <2> HIDE DEF i, bad
  <2>5. i \in Nat
    BY <1>0, <2>3
  <2>6. CASE i > L
    <3>1. from[i] = [ok |-> TRUE, given |-> <<>>]
      BY <1>1, <2>3, <2>6, Zenon DEF WordsFrom
    <3>2. DOMAIN from[i].given = {}
      BY <3>1
    <3>3. \A k \in i .. L : FALSE
      BY <1>0, <2>5, <2>6
    <3>4. Good(i)
      BY <3>2, <3>3, Zenon DEF GivenFrom
    <3> QED
      BY <2>3, <3>4
  <2>7. CASE i <= L
    <3>1. i \in 1 .. L /\ i + 1 \in 1 .. L + 2 /\ i + 2 \in 1 .. L + 2
      BY <1>0, <2>3, <2>5, <2>7
    <3>2. Good(i + 1) /\ Good(i + 2)
      <4> HIDE DEF Good
      <4> QED
        BY <2>4, <2>5, <3>1
    <3>3. GivenFrom(argv, valued, flags, i, WordsFrom(argv, valued, flags, from, i))
      BY <3>1, <3>2, OptionsTurn
    <3> QED
      BY <1>1, <2>3, <3>3
  <2> QED
    BY <1>0, <2>5, <2>6, <2>7
<1>3. Good(1)
  <2>1. L + 1 \in 0 .. L + 1 /\ L + 2 - (L + 1) = 1
    BY <1>0
  <2> HIDE DEF Good
  <2> QED
    BY <1>2, <2>1
<1> QED
  BY <1>1, <1>3
-----------------------------------------------------------------------------
(* The authentication service *)

\* What Min is, where there is a least element.
LEMMA MinIs ==
    ASSUME NEW S, S \subseteq Nat, S # {}
    PROVE  Min(S) \in S /\ \A x \in S : Min(S) <= x
BY Least DEF Min

\* A line that starts with a name has it for its name, and what follows for
\* its hash unless that is empty (authd.c:84-85).
LEMMA NameIsFirst ==
    ASSUME NEW line \in Seq(STRING), 1 \in Tokens(line)
    PROVE  /\ NameAt(line) = 1
           /\ (\E n \in Tokens(line) : n # 1) =>
                  /\ HashAt(line) \in DOMAIN line /\ HashAt(line) >= 2
                  /\ 2 \in Tokens(line) => HashAt(line) = 2
<1>1. Tokens(line) \subseteq Nat /\ Tokens(line) \subseteq 1 .. Len(line) /\ DOMAIN line = 1 .. Len(line)
  <2>1. DOMAIN line \subseteq Nat /\ DOMAIN line = 1 .. Len(line)
    OBVIOUS
  <2> QED
    BY <2>1, Zenon DEF Tokens
<1>2. NameAt(line) \in Tokens(line) /\ \A k \in Tokens(line) : NameAt(line) <= k
  BY <1>1, MinIs DEF NameAt
<1>3. NameAt(line) = 1
  BY <1>1, <1>2
<1> DEFINE rest == Tokens(line) \ {1}
<1>4. ASSUME NEW n \in Tokens(line), n # 1
      PROVE  HashAt(line) \in rest /\ \A k \in rest : HashAt(line) <= k
  <2>1. rest \subseteq Nat /\ rest # {}
    BY <1>1, <1>4
  <2>2. HashAt(line) = Min(rest)
    BY <1>3 DEF HashAt
  <2> HIDE DEF rest
  <2> QED
    BY <2>1, <2>2, MinIs
<1> QED
  BY <1>1, <1>3, <1>4

\* The first line of the user that has a hash is the i-th, and it has it in its
\* second field.
MatchAt(file, user, password, i) ==
    /\ Len(file[i]) >= 2 /\ file[i][1] = user
    /\ file[i][2] \in DOMAIN Hashes /\ Hashes[file[i][2]] = password
    /\ \A j \in 1 .. i - 1 :
           Len(file[j]) >= 2 /\ file[j][1] = user => file[j][2] = ""

\* A password that is verified matches the hash of the user's first line that
\* has one, and the hash is the line's second field (authd.c:73-120).
LEMMA PasswordMatches ==
    ASSUME NEW file \in ShadowFiles, NEW user, NEW password,
           verify_user_password(user, password, file) = 0
    PROVE  \E i \in DOMAIN file : MatchAt(file, user, password, i)
<1> DEFINE entries == Entries(file, user)
           i == Min(entries)
           hash == parse_shadow_hash(file, user)
<1>1. /\ file \in Seq(Seq(STRING)) /\ DOMAIN file = 1 .. Len(file) /\ Len(file) \in Nat
      /\ \A k \in DOMAIN file : file[k] \in Seq(STRING)
  <2>1. file \in Seq(Seq(STRING))
    BY ShadowAssumption, Zenon
  <2> QED
    BY <2>1
<1>2. entries # {} /\ hash \in DOMAIN Hashes /\ Hashes[hash] = password
  BY SMT DEF verify_user_password, Matches
<1>3. entries \subseteq DOMAIN file /\ entries \subseteq Nat
  <2>1. entries \subseteq DOMAIN file
    BY Zenon DEF Entries
  <2> QED
    BY <1>1, <2>1
<1>4. i \in entries /\ \A j \in entries : i <= j
  <2> HIDE DEF entries
  <2> QED
    BY <1>2, <1>3, MinIs
<1>5. hash = file[i][HashAt(file[i])]
  BY Zenon DEF parse_shadow_hash
<1> HIDE DEF i, entries, hash
\* A line with two tokens starts with its name.
<1>6. ASSUME NEW k \in DOMAIN file, Len(file[k]) >= 2
      PROVE  1 \in Tokens(file[k])
  <2>1. file[k][1] # ""
    BY <1>6, ShadowAssumption, Zenon
  <2>2. 1 \in DOMAIN file[k]
    BY <1>1, <1>6
  <2> QED
    BY <2>1, <2>2, Zenon DEF Tokens
<1>7. /\ i \in DOMAIN file
      /\ \E k, n \in Tokens(file[i]) : k # n
      /\ file[i][NameAt(file[i])] = user
  BY <1>4, Zenon DEF entries, Entries
<1>8. Len(file[i]) >= 2
  <2>1. Tokens(file[i]) \subseteq DOMAIN file[i]
    BY Zenon DEF Tokens
  <2>2. DOMAIN file[i] = 1 .. Len(file[i]) /\ Len(file[i]) \in Nat
    BY <1>1, <1>7
  <2> QED
    BY <1>7, <2>1, <2>2
<1>9. /\ NameAt(file[i]) = 1 /\ HashAt(file[i]) \in DOMAIN file[i] /\ HashAt(file[i]) >= 2
  <2>1. 1 \in Tokens(file[i]) /\ file[i] \in Seq(STRING)
    BY <1>1, <1>6, <1>7, <1>8
  <2>2. \E n \in Tokens(file[i]) : n # 1
    BY <1>7
  <2> QED
    BY <2>1, <2>2, NameIsFirst
<1>10. HashAt(file[i]) = 2
  <2>1. \A k \in 3 .. Len(file[i]) : file[i][k] \notin DOMAIN Hashes
    BY <1>7, ShadowAssumption
  <2>2. HashAt(file[i]) \notin 3 .. Len(file[i])
    BY <1>2, <1>5, <2>1
  <2>3. DOMAIN file[i] = 1 .. Len(file[i]) /\ Len(file[i]) \in Nat
    BY <1>1, <1>7
  <2> QED
    BY <1>9, <2>2, <2>3
<1>11. ASSUME NEW j \in 1 .. i - 1, Len(file[j]) >= 2, file[j][1] = user
       PROVE  file[j][2] = ""
  <2>1. j \in DOMAIN file /\ j \in Nat /\ i \in Nat /\ j < i
    BY <1>1, <1>7
  <2>2. 2 \in DOMAIN file[j] /\ file[j] \in Seq(STRING)
    BY <1>1, <1>11, <2>1
  <2>3. 1 \in Tokens(file[j])
    BY <1>6, <1>11, <2>1
  <2>4. NameAt(file[j]) = 1
    BY <2>2, <2>3, NameIsFirst
  <2>5. 1 # 2 /\ j \notin entries
    BY <1>4, <2>1
  <2>6. 2 \notin Tokens(file[j])
    BY <1>11, <2>1, <2>3, <2>4, <2>5, Zenon DEF entries, Entries
  <2> QED
    BY <2>2, <2>6, Zenon DEF Tokens
<1> QED
  BY <1>2, <1>5, <1>7, <1>8, <1>9, <1>10, <1>11, Zenon DEF MatchAt

\* authd verify returns 0 only for a password of the user that its command
\* line names last (authd.c:161-202).
LEMMA VerifiesLastUser ==
    ASSUME NEW words \in Seq(STRING), words # <<>>, words[2] = "verify", NEW input, NEW file,
           authd(Tail(words), input, file) = 0
    PROVE  \E w \in 3 .. Len(words) - 1 :
               /\ words[w] = "--user"
               /\ \A k \in w + 1 .. Len(words) :
                      words[k] = "--user" => words[k - 1] \in {"--user", "--shadow"}
               /\ verify_user_password(words[w + 1], input, file) = 0
<1> DEFINE argv == Tail(words)
           rest == Tail(argv)
           valued == {"--user", "--shadow"}
           flags == {"--password-stdin"}
           options == Options(rest, valued, flags)
<1>1. argv \in Seq(STRING) /\ Len(argv) = Len(words) - 1
  OBVIOUS
<1>2. Len(argv) >= 2
  <2> HIDE DEF argv
  <2>1. ~ (Len(argv) < 2)
    BY SMT DEF authd, argv
  <2> QED
    BY <1>1, <2>1
<1>3. argv[1] = "verify"
  BY <1>2
<1>4. verify(argv, input, file) = 0
  <2> HIDE DEF argv
  <2>1. authd(argv, input, file) = 0
    BY DEF argv
  <2> QED
    BY <1>1, <1>2, <1>3, <2>1 DEF authd
<1>5. /\ Given(options, "--user")
      /\ verify_user_password(options.given["--user"], input, file) = 0
  BY <1>4 DEF verify
<1>6. /\ rest \in Seq(STRING) /\ Len(rest) = Len(words) - 2 /\ Len(words) \in Nat
      /\ \A j \in 1 .. Len(rest) : rest[j] = words[j + 2]
  <2>1. /\ \A j \in 1 .. Len(argv) : argv[j] = words[j + 1]
        /\ Len(words) \in Nat
    BY <1>1
  <2> HIDE DEF argv
  <2>2. /\ rest \in Seq(STRING) /\ Len(rest) = Len(argv) - 1
        /\ \A j \in 1 .. Len(rest) : rest[j] = argv[j + 1]
    BY <1>1, <1>2
  <2> HIDE DEF rest
  <2> QED
    BY <1>1, <1>2, <2>1, <2>2
<1>7. GivenFrom(rest, valued, flags, 1, options)
  <2>1. valued \cap flags = {}
    OBVIOUS
  <2> HIDE DEF valued, flags, rest
  <2> QED
    BY <1>6, <2>1, OptionsGiven
<1>8. LastValueFrom(rest, valued, 1, "--user", options.given["--user"])
  <2> HIDE DEF options, rest
  <2> QED
    BY <1>5, <1>7 DEF GivenFrom, Given
<1> HIDE DEF options, rest
<1>9. PICK j \in 1 .. Len(rest) - 1 :
               /\ rest[j] = "--user" /\ rest[j + 1] = options.given["--user"]
               /\ \A k \in j + 1 .. Len(rest) : rest[k] = "--user" => rest[k - 1] \in valued
  BY <1>8 DEF LastValueFrom
<1>10. j + 2 \in 3 .. Len(words) - 1 /\ j + 1 \in 1 .. Len(rest) /\ j \in 1 .. Len(rest)
       /\ j + 1 + 2 = j + 2 + 1
  BY <1>6, <1>9
<1>11. words[j + 2] = "--user" /\ words[j + 2 + 1] = options.given["--user"]
  BY <1>6, <1>9, <1>10
<1>12. ASSUME NEW k \in j + 2 + 1 .. Len(words), words[k] = "--user"
       PROVE  words[k - 1] \in valued
  <2>1. /\ k - 2 \in j + 1 .. Len(rest) /\ k - 2 \in 1 .. Len(rest) /\ k - 3 \in 1 .. Len(rest)
        /\ k - 2 + 2 = k /\ k - 3 + 2 = k - 1 /\ k - 2 - 1 = k - 3
    BY <1>6, <1>9
  <2>2. rest[k - 2] = "--user"
    BY <1>6, <1>12, <2>1
  <2>3. rest[k - 3] \in valued
    BY <1>9, <2>1, <2>2
  <2> QED
    BY <1>6, <2>1, <2>3
<1> QED
  BY <1>5, <1>10, <1>11, <1>12
-----------------------------------------------------------------------------
(* The invariant *)

\* The child and its parent: what the parent's place says of the child.
Family ==
    /\ walud_pc \in {"none", "parsed", "fork"} => child_pc = "none"
    /\ walud_pc = "wait" => child_pc # "none"
    /\ child_pc \in {"forked", "running"} => walud_pc = "wait"
    /\ child_pc = "none" => child_rc = -1
    /\ child_pc \in {"none", "forked"} => ~ ran
    /\ child_pc = "forked" => child_ids = walud_ids
    /\ child_pc = "running" => ran
    /\ child_pc = "exited" /\ child_rc = 0 => ran
    /\ child_pc = "signaled" => child_rc \in Nat \ {0}

\* The unit is what its file declares, and has a command once it is started.
Words ==
    /\ walud_pc \in {"parsed", "fork", "wait"} => unit.values \in [Fields -> Seq(STRING)]
    /\ walud_pc \in {"fork", "wait"} => ExecWords # <<>>
    /\ stor_pc # "none" => stor_argv \in Seq(STRING)

\* The storage service: before it decides it has said nothing, and until the
\* log is written its result is what it did.
Record ==
    /\ child_pc \in {"none", "forked"} => stor_pc = "none"
    /\ stor_pc \in {"none", "decide"} => stor_printed = {}
    /\ stor_pc \in {"none", "decide", "audit"} => stor_audit = <<>>
    /\ stor_pc = "audit" => /\ stor_result = "approved" <=> stor_printed # {}
                            /\ stor_result = "deny" <=> stor_rc # 0

\* The authentication service: a child that ended with 0 was told so by it.
Verdict ==
    /\ child_pc # "none" => ExecWords \in Seq(STRING) /\ ExecWords # <<>>
    /\ child_pc = "running" /\ Program = "/authd" => auth_file \in ShadowFiles
    /\ child_pc = "exited" /\ child_rc = 0 /\ Program = "/authd" =>
           /\ auth_file \in ShadowFiles
           /\ authd(Tail(ExecWords), auth_input, auth_file) = 0

ServicesInv ==
    /\ Family /\ Words /\ Record /\ Verdict
    /\ ParsedIsDeclared /\ SuccessMeansDone /\ RunsAsItsUser
    /\ ApprovalIsConfirmed /\ AuditIsTrue

\* Before the first invocation.
LEMMA ServicesInitially == Init => ServicesInv
BY DEF Init, WaludInit, StoragedInit, ServicesInv, Family, Words, Record, Verdict,
   ParsedIsDeclared, SuccessMeansDone, RunsAsItsUser, ApprovalIsConfirmed, AuditIsTrue

\* What the storage service decides, it decides once, and its result says it
\* (storaged.c:139-179).
LEMMA DecisionIsRecorded ==
    ASSUME StoragedDecide
    PROVE  /\ stor_pc' \in {"audit", "exited"}
           /\ stor_audit' = stor_audit /\ stor_argv' = stor_argv
           /\ stor_pc' = "audit" => /\ stor_result' = "approved" <=> stor_printed' # {}
                                    /\ stor_result' = "deny" <=> stor_rc' # 0
<1> DEFINE Recorded ==
               /\ stor_pc' \in {"audit", "exited"}
               /\ stor_audit' = stor_audit /\ stor_argv' = stor_argv
               /\ stor_pc' = "audit" => /\ stor_result' = "approved" <=> stor_printed' # {}
                                        /\ stor_result' = "deny" <=> stor_rc' # 0
           args == parse_format_args(stor_argv)
<1>2. ASSUME NEW device, command_probe(device)
      PROVE  Recorded
  BY <1>2 DEF command_probe, Outcome
<1>3. ASSUME command_format(args)
      PROVE  Recorded
  <2> DEFINE device == args.given["--device"]
  <2>1. CASE Outcome(2, "deny", "unasked", {})
    BY <2>1 DEF Outcome
  <2>2. ASSUME NEW table \in Table,
               IF Given(args, "--dry-run") THEN Outcome(0, "dry-run", table, {})
               ELSE IF table = "mounted" THEN Outcome(4, "deny", table, {})
               ELSE IF ~ Confirmed(args) THEN Outcome(3, "deny", table, {})
               ELSE Outcome(0, "approved", table, {device})
        PROVE  Recorded
    <3>1. CASE Outcome(0, "dry-run", table, {})
      BY <3>1 DEF Outcome
    <3>2. CASE Outcome(4, "deny", table, {})
      BY <3>2 DEF Outcome
    <3>3. CASE Outcome(3, "deny", table, {})
      BY <3>3 DEF Outcome
    <3>4. CASE Outcome(0, "approved", table, {device})
      BY <3>4 DEF Outcome
    <3> QED
      BY <2>2, <3>1, <3>2, <3>3, <3>4
  <2> QED
    BY <1>3, <2>1, <2>2 DEF command_format
<1>4. ASSUME Outcome(1, "", "unasked", {})
      PROVE  Recorded
  BY <1>4 DEF Outcome
<1> QED
  BY <1>2, <1>3, <1>4 DEF StoragedDecide

\* The value of an option is a matter of the command line only.
LEMMA LastValueStays ==
    ASSUME NEW name, NEW word, IsLastValue(name, word), stor_argv' = stor_argv
    PROVE  IsLastValue(name, word)'
BY Zenon DEF IsLastValue

\* An approval stands as long as the command line does.
LEMMA ApprovalStays ==
    ASSUME ApprovalIsConfirmed, UNCHANGED <<stor_argv, stor_printed, stor_seen>>
    PROVE  ApprovalIsConfirmed'
<1> SUFFICES ASSUME NEW device \in stor_printed
             PROVE  /\ {"--force", "--yes"} \subseteq {stor_argv'[i] : i \in DOMAIN stor_argv'}
                    /\ IsLastValue("--device", device)' /\ IsLastValue("--confirm", device)'
                    /\ stor_seen' # "mounted"
  BY DEF ApprovalIsConfirmed
<1> QED
  BY LastValueStays DEF ApprovalIsConfirmed

\* A format that is approved was confirmed, whatever the command line
\* (storaged.c:139-179).
LEMMA DecisionIsConfirmed ==
    ASSUME stor_argv \in Seq(STRING), stor_printed = {}, StoragedDecide
    PROVE  ApprovalIsConfirmed'
<1> DEFINE args == parse_format_args(stor_argv)
           device == args.given["--device"]
<1>1. ASSUME NEW rc, NEW result, NEW seen, Outcome(rc, result, seen, {})
      PROVE  ApprovalIsConfirmed'
  BY <1>1 DEF Outcome, ApprovalIsConfirmed
<1>2. ASSUME NEW d, command_probe(d)
      PROVE  ApprovalIsConfirmed'
  BY <1>1, <1>2, Zenon DEF command_probe
<1>3. ASSUME Len(stor_argv) > 0, Given(args, "--device"), Confirmed(args),
             NEW table \in Table, table # "mounted", Outcome(0, "approved", table, {device})
      PROVE  ApprovalIsConfirmed'
  <2> DEFINE valued == {"--device", "--confirm"}
             flags == {"--dry-run", "--force", "--yes"}
             words == Tail(stor_argv)
  <2>1. /\ words \in Seq(STRING) /\ Len(words) = Len(stor_argv) - 1 /\ Len(stor_argv) \in Nat
        /\ \A i \in 1 .. Len(words) : words[i] = stor_argv[i + 1]
    BY <1>3
  <2>2. GivenFrom(words, valued, flags, 1, args)
    <3>1. valued \cap flags = {}
      OBVIOUS
    <3> HIDE DEF valued, flags
    <3>2. GivenFrom(words, valued, flags, 1, Options(words, valued, flags))
      BY <2>1, <3>1, OptionsGiven
    <3> QED
      BY <3>2, Zenon DEF parse_format_args, valued, flags
  <2>3. /\ args.ok
        /\ {"--device", "--confirm", "--force", "--yes"} \subseteq DOMAIN args.given
        /\ args.given["--confirm"] = device
    BY <1>3 DEF Given, Confirmed
  <2> HIDE DEF args, device, words
  <2>4. /\ LastValueFrom(words, valued, 1, "--device", device)
        /\ LastValueFrom(words, valued, 1, "--confirm", device)
    BY <2>2, <2>3 DEF GivenFrom, device
  <2>5. /\ \E j \in 1 .. Len(words) : words[j] = "--force"
        /\ \E j \in 1 .. Len(words) : words[j] = "--yes"
    BY <2>2, <2>3 DEF GivenFrom
  <2>6. ASSUME NEW name, LastValueFrom(words, valued, 1, name, device)
        PROVE  IsLastValue(name, device)
    <3>1. PICK j \in 1 .. Len(words) - 1 :
                   /\ words[j] = name /\ words[j + 1] = device
                   /\ \A k \in j + 1 .. Len(words) : words[k] = name => words[k - 1] \in valued
      BY <2>6 DEF LastValueFrom
    <3>2. j + 1 \in 2 .. Len(stor_argv) - 1
      BY <2>1, <3>1
    <3>3. stor_argv[j + 1] = name /\ stor_argv[j + 1 + 1] = device
      BY <2>1, <3>1
    <3>4. ASSUME NEW k \in j + 1 + 1 .. Len(stor_argv), stor_argv[k] = name
          PROVE  stor_argv[k - 1] \in valued
      <4>1. k - 1 \in j + 1 .. Len(words) /\ k - 1 \in 1 .. Len(words)
            /\ k - 2 \in 1 .. Len(words) /\ k - 2 + 1 = k - 1 /\ k - 1 + 1 = k /\ k - 1 - 1 = k - 2
        BY <2>1, <3>1
      <4>2. words[k - 1] = name
        BY <2>1, <3>4, <4>1
      <4>3. words[k - 2] \in valued
        BY <3>1, <4>1, <4>2
      <4> QED
        BY <2>1, <4>1, <4>3
    <3> QED
      BY <3>2, <3>3, <3>4 DEF IsLastValue
  <2>7. IsLastValue("--device", device) /\ IsLastValue("--confirm", device)
    BY <2>4, <2>6
  <2>8. {"--force", "--yes"} \subseteq {stor_argv[i] : i \in DOMAIN stor_argv}
    <3>1. \A j \in 1 .. Len(words) : j + 1 \in DOMAIN stor_argv /\ words[j] = stor_argv[j + 1]
      BY <2>1
    <3> QED
      BY <2>5, <3>1
  <2>9. stor_argv' = stor_argv /\ stor_printed' = {device} /\ stor_seen' = table
    BY <1>3 DEF Outcome
  <2> QED
    BY <1>3, <2>7, <2>8, <2>9, LastValueStays DEF ApprovalIsConfirmed
<1>4. ASSUME Len(stor_argv) > 0, Given(args, "--device"), command_format(args)
      PROVE  ApprovalIsConfirmed'
  <2>1. ASSUME NEW table \in Table,
               IF Given(args, "--dry-run") THEN Outcome(0, "dry-run", table, {})
               ELSE IF table = "mounted" THEN Outcome(4, "deny", table, {})
               ELSE IF ~ Confirmed(args) THEN Outcome(3, "deny", table, {})
               ELSE Outcome(0, "approved", table, {device})
        PROVE  ApprovalIsConfirmed'
    BY <1>1, <1>3, <1>4, <2>1, Zenon
  <2> QED
    BY <1>1, <1>4, <2>1, Zenon DEF command_format
<1> QED
  BY <1>1, <1>2, <1>4 DEF StoragedDecide

\* The unit and the command line are what they were when they were read, and
\* an approval stays with its command line (walud.c:237-283, storaged.c:181-213).
LEMMA WordsStep ==
    ServicesInv /\ [Next]_vars => Words' /\ ParsedIsDeclared' /\ ApprovalIsConfirmed'
<1> SUFFICES ASSUME ServicesInv, [Next]_vars
             PROVE  Words' /\ ParsedIsDeclared' /\ ApprovalIsConfirmed'
  OBVIOUS
<1> USE DEF ServicesInv
<1>1. CASE WaludRuns /\ UNCHANGED <<storVars, authVars>>
  <2> DEFINE Read(file, readable) ==
               IF readable THEN parse_unit_file(file) ELSE NoUnit
  <2>0. PICK file \in UnitFiles, readable \in BOOLEAN :
                 /\ walud_file' = file /\ unit' = Read(file, readable)
                 /\ walud_pc' = IF Read(file, readable).ok THEN "parsed" ELSE "exited"
    BY <1>1 DEF WaludRuns
  <2>1. PICK u : /\ walud_file' = file /\ unit' = u
                 /\ walud_pc' = IF u.ok THEN "parsed" ELSE "exited"
                 /\ u = parse_unit_file(file) \/ u = NoUnit
    BY <2>0
  <2>2. u.ok => u = parse_unit_file(file)
    <3>1. ~ NoUnit.ok
      BY DEF NoUnit
    <3> QED
      BY <2>1, <3>1
  <2>3. file \in Seq(Line)
    BY WaludAssumption
  <2>4. u.ok => /\ \A i \in DOMAIN file : file[i] # Broken
                /\ \A f \in Fields : u.values[f] = Declared(file, f)
                /\ u.values \in [Fields -> Seq(STRING)]
    BY <2>2, <2>3, ParsedUnit
  <2>5. ParsedIsDeclared'
    BY <2>1, <2>4 DEF ParsedIsDeclared
  <2>6. Words'
    BY <1>1, <2>1, <2>4 DEF Words, storVars
  <2> QED
    BY <1>1, <2>5, <2>6, ApprovalStays DEF storVars
<1>2. CASE WaludCommand /\ UNCHANGED <<storVars, authVars>>
  <2>1. walud_pc' = "fork" => ExecWords # <<>>
    BY <1>2 DEF WaludCommand
  <2>2. /\ walud_pc = "parsed" /\ walud_pc' \in {"fork", "exited"}
        /\ unit' = unit /\ UNCHANGED storVars
    BY <1>2 DEF WaludCommand
  <2> QED
    BY <2>1, <2>2, ApprovalStays DEF Words, ExecWords, storVars, ParsedIsDeclared
<1>3. CASE Exec /\ StoragedExec(Tail(ExecWords)) /\ UNCHANGED authVars
  <2>1. walud_pc = "wait" /\ stor_pc = "none" /\ stor_printed = {}
    BY <1>3 DEF Exec, Family, Record
  <2>2. ExecWords \in Seq(STRING) /\ ExecWords # <<>>
    BY <2>1, ExecIsWords DEF Words
  <2>3. Tail(ExecWords) \in Seq(STRING)
    BY <2>2
  <2>4. /\ walud_pc' = walud_pc /\ unit' = unit
        /\ stor_argv' = Tail(ExecWords) /\ stor_printed' = stor_printed
    BY <1>3 DEF Exec, waludVars, StoragedExec
  <2> QED
    BY <2>1, <2>3, <2>4 DEF Words, ExecWords, ParsedIsDeclared, ApprovalIsConfirmed
<1>4. CASE StoragedDecide /\ UNCHANGED <<waludVars, childVars, authVars>>
  <2>1. stor_pc = "decide" /\ stor_argv' = stor_argv
    BY <1>4, DecisionIsRecorded DEF StoragedDecide
  <2>2. stor_printed = {} /\ stor_argv \in Seq(STRING)
    BY <2>1 DEF Record, Words
  <2>3. ApprovalIsConfirmed'
    BY <1>4, <2>2, DecisionIsConfirmed
  <2>4. Words' /\ ParsedIsDeclared'
    BY <1>4, <2>1, <2>2 DEF waludVars, Words, ExecWords, ParsedIsDeclared
  <2> QED
    BY <2>3, <2>4
<1>5. CASE Gone
  BY <1>5 DEF Gone, WaludGone, StoragedGone, Words, ParsedIsDeclared, ApprovalIsConfirmed
<1>6. ASSUME /\ UNCHANGED <<walud_file, unit>>
             /\ walud_pc' \in {walud_pc, "exited"} \/ (walud_pc = "fork" /\ walud_pc' = "wait")
             /\ UNCHANGED <<stor_argv, stor_printed, stor_seen>>
             /\ stor_pc = "none" => stor_pc' = "none"
      PROVE  Words' /\ ParsedIsDeclared' /\ ApprovalIsConfirmed'
  <2>1. ParsedIsDeclared'
    BY <1>6 DEF ParsedIsDeclared
  <2>2. Words'
    BY <1>6 DEF Words, ExecWords
  <2>3. ApprovalIsConfirmed'
    BY <1>6, ApprovalStays
  <2> QED
    BY <2>1, <2>2, <2>3
<1>7. CASE (WaludUsage \/ Fork \/ ExecFails \/ Wait) /\ UNCHANGED <<storVars, authVars>>
  BY <1>6, <1>7 DEF WaludUsage, Fork, ExecFails, Wait, waludVars, storVars
<1>8. CASE Exec /\ UNCHANGED storVars
  BY <1>6, <1>8 DEF Exec, waludVars, storVars
<1>9. CASE StoragedAudit /\ UNCHANGED <<waludVars, childVars, authVars>>
  BY <1>6, <1>9 DEF StoragedAudit, waludVars
<1>10. CASE Exits
  BY <1>6, <1>10 DEF Exits, ChildExits, waludVars, storVars
<1>11. ASSUME NEW signal \in Signals, Killed(signal)
       PROVE  Words' /\ ParsedIsDeclared' /\ ApprovalIsConfirmed'
  BY <1>6, <1>11 DEF Killed, ChildKilled, StoragedKilled, waludVars, storVars
<1>12. CASE UNCHANGED vars
  BY <1>6, <1>12 DEF vars, waludVars, storVars
<1> QED
  BY <1>1, <1>2, <1>3, <1>4, <1>5, <1>7, <1>8, <1>9, <1>10, <1>11, <1>12
  DEF Next, ExecStoraged, ExecAuthd, ExecOther

\* The verdict is that of the command line and of the file that was found, and
\* both stay until walud has ended (walud.c:186-234, authd.c:122-220).
LEMMA VerdictStep == ServicesInv /\ [Next]_vars => Verdict'
<1> SUFFICES ASSUME ServicesInv, [Next]_vars
             PROVE  Verdict'
  OBVIOUS
<1> USE DEF Verdict
<1>0. Verdict /\ Family /\ Words
  BY DEF ServicesInv
<1>1. ASSUME unit' = unit PROVE ExecWords' = ExecWords /\ Program' = Program
  BY <1>1 DEF ExecWords, Program
<1>2. ASSUME child_pc' = "none" PROVE Verdict'
  BY <1>2
<1>3. CASE Fork /\ UNCHANGED <<storVars, authVars>>
  <2>2. walud_pc = "fork" /\ child_pc' \in {"forked", child_pc} /\ child_pc = "none" /\ unit' = unit
    BY <1>0, <1>3 DEF Fork, Family
  <2>3. ExecWords \in Seq(STRING) /\ ExecWords # <<>>
    BY <1>0, <2>2, ExecIsWords DEF Words
  <2> QED
    BY <1>1, <2>2, <2>3
<1>4. CASE ExecFails /\ UNCHANGED <<storVars, authVars>>
  <2>1. /\ child_pc = "forked" /\ child_pc' = "exited" /\ child_rc' # 0 /\ unit' = unit
    BY <1>4 DEF ExecFails, waludVars
  <2> QED
    BY <1>0, <1>1, <2>1
<1>5. CASE ExecStoraged \/ ExecAuthd \/ ExecOther
  <2>1. child_pc = "forked" /\ child_pc' = "running" /\ unit' = unit
    BY <1>5 DEF ExecStoraged, ExecAuthd, ExecOther, Exec, waludVars
  <2>2. Program = "/authd" => auth_file' \in ShadowFiles
    BY <1>5 DEF ExecStoraged, ExecAuthd, ExecOther
  <2> QED
    BY <1>0, <1>1, <2>1, <2>2
<1>6. CASE Exits
  <2>1. /\ child_pc = "running" /\ child_pc' = "exited" /\ unit' = unit
        /\ UNCHANGED authVars
    BY <1>6 DEF Exits, ChildExits, waludVars
  <2>2. Program = "/authd" => child_rc' = authd(Tail(ExecWords), auth_input, auth_file)
    BY <1>6 DEF Exits, ChildExits
  <2>3. auth_input' = auth_input /\ auth_file' = auth_file
    BY <2>1 DEF authVars
  <2> HIDE DEF Verdict
  <2>4. /\ ExecWords \in Seq(STRING) /\ ExecWords # <<>>
        /\ Program = "/authd" => auth_file \in ShadowFiles
    BY <1>0, <2>1 DEF Verdict
  <2> QED
    BY <1>1, <2>1, <2>2, <2>3, <2>4, Zenon DEF Verdict
<1>7. ASSUME NEW signal \in Signals, Killed(signal) PROVE Verdict'
  <2>1. /\ child_pc \in {"forked", "running"} /\ child_pc' = "signaled" /\ unit' = unit
    BY <1>7 DEF Killed, ChildKilled, waludVars
  <2> QED
    BY <1>0, <1>1, <2>1
<1>8. ASSUME UNCHANGED <<unit, child_pc, child_rc, auth_input, auth_file>> PROVE Verdict'
  BY <1>0, <1>1, <1>8
<1>9. CASE WaludRuns /\ UNCHANGED <<storVars, authVars>>
  BY <1>0, <1>2, <1>9 DEF WaludRuns, Family, childVars
<1>10. CASE (WaludUsage \/ WaludCommand \/ Wait) /\ UNCHANGED <<storVars, authVars>>
  BY <1>8, <1>10 DEF WaludUsage, WaludCommand, Wait, childVars, authVars
<1>11. CASE (StoragedDecide \/ StoragedAudit) /\ UNCHANGED <<waludVars, childVars, authVars>>
  BY <1>8, <1>11 DEF waludVars, childVars, authVars
<1>12. CASE Gone
  BY <1>2, <1>12 DEF Gone, WaludGone
<1>13. CASE UNCHANGED vars
  BY <1>8, <1>13 DEF vars, waludVars, childVars, authVars
<1> QED
  BY <1>3, <1>4, <1>5, <1>6, <1>7, <1>9, <1>10, <1>11, <1>12, <1>13 DEF Next

\* Every step of walud, its child and the storage service keeps it.
LEMMA ServicesStep == ServicesInv /\ [Next]_vars => ServicesInv'
<1> SUFFICES ASSUME ServicesInv, [Next]_vars
             PROVE  ServicesInv'
  OBVIOUS
<1> DEFINE Kept == Family /\ Record /\ SuccessMeansDone /\ RunsAsItsUser /\ AuditIsTrue
<1> SUFFICES Kept'
  BY WordsStep, VerdictStep DEF ServicesInv
<1>0. Kept
  BY DEF ServicesInv
<1> USE <1>0 DEF Family, Record, SuccessMeansDone, RunsAsItsUser, AuditIsTrue
<1>1. CASE WaludUsage /\ UNCHANGED <<storVars, authVars>>
  BY <1>1 DEF WaludUsage, childVars, storVars, ChangesUser, User
<1>2. CASE WaludRuns /\ UNCHANGED <<storVars, authVars>>
  BY <1>2 DEF WaludRuns, childVars, storVars
<1>3. CASE WaludCommand /\ UNCHANGED <<storVars, authVars>>
  BY <1>3 DEF WaludCommand, childVars, storVars
<1>4. CASE Fork /\ UNCHANGED <<storVars, authVars>>
  BY <1>4 DEF Fork, storVars
<1>5. CASE ExecFails /\ UNCHANGED <<storVars, authVars>>
  BY <1>5 DEF ExecFails, storVars, waludVars
<1>6. CASE Exec /\ (storVars' = storVars \/ StoragedExec(Tail(ExecWords)))
  <2>1. child_ids' = IF ChangesUser THEN Passwd[User] ELSE walud_ids
    BY <1>6 DEF Exec, UserApplied, SwitchUser
  <2>2. ChangesUser' = ChangesUser /\ User' = User /\ walud_ids' = walud_ids
    BY <1>6 DEF Exec, waludVars, ChangesUser, User
  <2>3. RunsAsItsUser'
    BY <2>1, <2>2
  <2> QED
    BY <1>6, <2>3 DEF Exec, StoragedExec, storVars, waludVars
<1>7. CASE StoragedDecide /\ UNCHANGED <<waludVars, childVars, authVars>>
  <2>1. stor_pc = "decide"
    BY <1>7 DEF StoragedDecide
  <2>2. RunsAsItsUser' /\ Family' /\ SuccessMeansDone'
    BY <1>7 DEF waludVars, childVars, ChangesUser, User
  <2> QED
    BY <1>7, <2>1, <2>2, DecisionIsRecorded DEF childVars
<1>8. CASE StoragedAudit /\ UNCHANGED <<waludVars, childVars, authVars>>
  <2>1. RunsAsItsUser' /\ Family' /\ SuccessMeansDone'
    BY <1>8 DEF waludVars, childVars, ChangesUser, User
  <2>2. Record'
    BY <1>8 DEF StoragedAudit, childVars
  <2>3. AuditIsTrue'
    BY <1>8 DEF StoragedAudit
  <2> QED
    BY <2>1, <2>2, <2>3
<1>9. CASE Exits
  BY <1>9 DEF Exits, ChildExits, storVars, waludVars
<1>10. ASSUME NEW signal \in Signals, Killed(signal)
       PROVE  Kept'
  BY <1>10, ServicesAssumption DEF Killed, ChildKilled, StoragedKilled, storVars, waludVars
<1>11. CASE Wait /\ UNCHANGED <<storVars, authVars>>
  BY <1>11 DEF Wait, WaitStatus, childVars, storVars
<1>12. CASE Gone
  BY <1>12 DEF Gone, WaludGone, StoragedGone
<1>13. CASE UNCHANGED vars
  BY <1>13 DEF vars, waludVars, childVars, storVars, ChangesUser, User
<1> QED
  BY <1>1, <1>2, <1>3, <1>4, <1>5, <1>6, <1>7, <1>8, <1>9, <1>10, <1>11, <1>12, <1>13
  DEF Next, ExecStoraged, ExecAuthd, ExecOther

\* The inductive invariant holds throughout.
THEOREM ServicesInvariant == Spec => []ServicesInv
<1> QED
  BY ServicesInitially, ServicesStep, PTL DEF Spec

\* walud acts on what the unit file declares, as far as its fields have room:
\* for every file, and for values of every length (walud.c:15-23, 40-110).
THEOREM WaludParsesUnit == Spec => []ParsedIsDeclared
<1>1. ServicesInv => ParsedIsDeclared
  BY DEF ServicesInv
<1> QED
  BY <1>1, ServicesInvariant, PTL

\* walud start returns 0 only when the program was executed and returned 0,
\* whatever fails and whoever is killed (walud.c:184-234).
THEOREM WaludSuccessMeansDone == Spec => []SuccessMeansDone
<1>1. ServicesInv => SuccessMeansDone
  BY DEF ServicesInv
<1> QED
  BY <1>1, ServicesInvariant, PTL

\* A program runs with the ids of the parsed unit's user, whoever runs walud
\* and whatever the table of users says (walud.c:165-184).
THEOREM WaludRunsAsItsUser == Spec => []RunsAsItsUser
<1>1. ServicesInv => RunsAsItsUser
  BY DEF ServicesInv
<1> QED
  BY <1>1, ServicesInvariant, PTL

\* No format is approved without the device's confirmation, --force and --yes,
\* whatever the order and the number of the options (storaged.c:39-63, 139-179).
THEOREM StoragedApprovalIsConfirmed == Spec => []ApprovalIsConfirmed
<1>1. ServicesInv => ApprovalIsConfirmed
  BY DEF ServicesInv
<1> QED
  BY <1>1, ServicesInvariant, PTL

\* Nothing is in the audit log that was not decided (storaged.c:21-29, 139-179).
THEOREM StoragedAuditIsTrue == Spec => []AuditIsTrue
<1>1. ServicesInv => AuditIsTrue
  BY DEF ServicesInv
<1> QED
  BY <1>1, ServicesInvariant, PTL

\* walud start of a unit that verifies a password returns 0 only when the
\* password matches the hash of the user named last, for every command line
\* and every shadow file (authd.c:73-120, 161-202, walud.c:186-234).
THEOREM AuthdVerifiedMeansMatch == Spec => []VerifiedMeansMatch
<1>1. ServicesInv => VerifiedMeansMatch
  <2> SUFFICES ASSUME ServicesInv, walud_pc = "exited", walud_cmd = "start", walud_rc = 0,
                      Program = "/authd", ExecWords[2] = "verify"
               PROVE  VerifiedMeansMatch
    BY Zenon DEF VerifiedMeansMatch
  <2>1. child_pc = "exited" /\ child_rc = 0
    BY DEF ServicesInv, SuccessMeansDone
  <2>2. /\ ExecWords \in Seq(STRING) /\ ExecWords # <<>> /\ auth_file \in ShadowFiles
        /\ authd(Tail(ExecWords), auth_input, auth_file) = 0
    BY <2>1 DEF ServicesInv, Verdict
  <2>3. PICK w \in 3 .. Len(ExecWords) - 1 :
                 /\ ExecWords[w] = "--user"
                 /\ \A k \in w + 1 .. Len(ExecWords) :
                        ExecWords[k] = "--user" => ExecWords[k - 1] \in {"--user", "--shadow"}
                 /\ verify_user_password(ExecWords[w + 1], auth_input, auth_file) = 0
    BY <2>2, VerifiesLastUser
  <2>4. PICK i \in DOMAIN auth_file : MatchAt(auth_file, ExecWords[w + 1], auth_input, i)
    BY <2>2, <2>3, PasswordMatches
  <2> QED
    BY <2>3, <2>4, Zenon DEF VerifiedMeansMatch, MatchAt
<1> QED
  BY <1>1, ServicesInvariant, PTL
=============================================================================
