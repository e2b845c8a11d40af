------------------------------- MODULE Walud -------------------------------
(***************************************************************************)
(* The service manager (walud.c): it reads a unit file, checks it and runs *)
(* its program as a child, whose end it waits for.  A unit file is the     *)
(* sequence of its lines as fgets returns them, by what they are: a line   *)
(* of the file with more than 511 bytes is several.  A trimmed value is    *)
(* the sequence of its words, with one blank between any two; what a field *)
(* has no room for is cut off.  The answers of the system calls are        *)
(* choices.                                                                *)
(***************************************************************************)
EXTENDS Integers, SequencesExt

CONSTANTS
    Bytes,          \* of each word how many bytes it has
    Prefix,         \* of each word what each smaller number of bytes leaves
    UnitFiles,      \* the unit files there are
    Commands,       \* the first arguments walud is given
    Passwd,         \* of each user the uid and gid
    Absolute,       \* the words that start with '/'
    OwnIds          \* who may run walud

VARIABLES
    walud_pc,       \* "none", "parsed", "fork", "wait" or "exited"
    walud_cmd,
    walud_file,
    walud_ids,      \* its uid and gid
    walud_rc,
    unit,           \* what parse_unit_file returned
    child_pc,       \* "none", "forked", "running", "exited" or "signaled"
    child_ids,
    child_rc,
    ran             \* history: the program was executed

waludVars == <<walud_pc, walud_cmd, walud_file, walud_ids, walud_rc, unit>>
childVars == <<child_pc, child_ids, child_rc, ran>>

Root == [uid |-> 0, gid |-> 0]
NoUnit == [ok |-> FALSE, section |-> "", values |-> <<>>]

Word == DOMAIN Bytes

\* The lines.
Header(name) == [is |-> "header", name |-> name]
Broken == [is |-> "broken"]             \* a '[' without ']'
Other == [is |-> "other"]               \* blank, comment, or without '='
Setting(key, value) == [is |-> "set", key |-> key, value |-> value]
Line == [is : {"header"}, name : STRING] \cup {Broken, Other}
        \cup [is : {"set"}, key : STRING, value : Seq(Word)]

ASSUME WordsAssumption ==
    /\ Word \subseteq STRING
    /\ \A w \in Word :
           /\ Bytes[w] \in Nat
           /\ Prefix[w] \in [0 .. Bytes[w] - 1 -> Word]
           /\ \A n \in DOMAIN Prefix[w] : Bytes[Prefix[w][n]] = n

ASSUME WaludAssumption == UnitFiles \subseteq Seq(Line)

Fields == ({"Unit"} \X {"Description", "After", "Requires"})
          \cup ({"Service"} \X {"ExecStart", "User", "Restart"})
          \cup {<<"Install", "WantedBy">>}

WaludInit ==
    /\ walud_pc = "none" /\ walud_cmd = "" /\ walud_file = <<>>
    /\ walud_ids = Root /\ walud_rc = -1 /\ unit = NoUnit
    /\ child_pc = "none" /\ child_ids = Root /\ child_rc = -1 /\ ran = FALSE
-----------------------------------------------------------------------------
(* The unit file *)

\* What snprintf leaves of a value: its words as far as the first room bytes
\* go.  The last one may be cut, to nothing when the blank before it is the
\* last byte.
Cut(value, room) ==
    LET begins[k \in 1 .. Len(value)] ==
            IF k = 1 THEN 0 ELSE begins[k - 1] + Bytes[value[k - 1]] + 1
        left(k) == room - begins[k]
        First(w, n) == IF n \in DOMAIN Prefix[w] THEN Prefix[w][n] ELSE w
    IN  [k \in 1 .. Cardinality({i \in DOMAIN value : left(i) >= 0}) |->
            First(value[k], left(k))]

\* The bytes of each field, without the terminator.
Room(f) ==
    CASE f[2] = "ExecStart" -> 255
      [] f[2] \in {"User", "WantedBy"} -> 63
      [] f[2] = "Restart" -> 31
      [] OTHER -> 127

BlankUnit == [ok |-> TRUE, section |-> "", values |-> [f \in Fields |-> <<>>]]

\* Mutation: a key is known whatever its section is.
LineAnySection(u, line) ==
    IF ~ u.ok THEN u
    ELSE CASE line.is = "broken" -> [u EXCEPT !.ok = FALSE]
           [] line.is = "header" -> [u EXCEPT !.section = line.name]
           [] line.is = "set" ->
                  [u EXCEPT !.values = [f \in Fields |->
                       IF f[2] = line.key THEN Cut(line.value, Room(f)) ELSE u.values[f]]]
           [] OTHER -> u

\* One turn of the loop; nothing is read after a malformed header.  A header
\* cut to 31 bytes is longer than any section's name.
UnitLine(u, line) ==
    IF ~ u.ok THEN u
    ELSE CASE line.is = "broken" -> [u EXCEPT !.ok = FALSE]
           [] line.is = "header" -> [u EXCEPT !.section = line.name]
           [] line.is = "set" /\ <<u.section, line.key>> \in Fields ->
                  LET f == <<u.section, line.key>>
                  IN  [u EXCEPT !.values[f] = Cut(line.value, Room(f))]
           [] OTHER -> u

parse_unit_file(file) ==
    LET after[n \in 0 .. Len(file)] ==
            IF n = 0 THEN BlankUnit ELSE UnitLine(after[n - 1], file[n])
    IN  after[Len(file)]

validate_unit(u) ==
    /\ u.values[<<"Unit", "Description">>] # <<>>
    /\ LET start == u.values[<<"Service", "ExecStart">>]
       IN  start # <<>> /\ start[1] \in Absolute
    /\ u.values[<<"Service", "Restart">>] \in {<<>>, <<"no">>, <<"on-failure">>, <<"always">>}
-----------------------------------------------------------------------------
\* main, up to the command: the file may be unreadable.
WaludUsage ==
    /\ walud_pc = "none"
    /\ walud_pc' = "exited" /\ walud_rc' = 1
    /\ UNCHANGED <<walud_cmd, walud_file, walud_ids, unit, childVars>>

WaludRuns ==
    /\ walud_pc = "none"
    /\ \E cmd \in Commands, file \in UnitFiles, readable \in BOOLEAN, ids \in OwnIds :
           LET u == IF readable THEN parse_unit_file(file) ELSE NoUnit
           IN  /\ walud_cmd' = cmd /\ walud_file' = file /\ walud_ids' = ids
               /\ unit' = u
               /\ walud_pc' = IF u.ok THEN "parsed" ELSE "exited"
               /\ walud_rc' = IF u.ok THEN -1 ELSE 2
    /\ UNCHANGED childVars

User == unit.values[<<"Service", "User">>]

\* split_exec_start: the words, without one that was cut to nothing, as far
\* as argv_exec has slots, of which one is for the end.
ExecWords ==
    LET start == unit.values[<<"Service", "ExecStart">>]
    IN  SubSeq(start, 1, Cardinality({i \in DOMAIN start : i < 32 /\ start[i] # ""}))

\* The command: usage, a verdict on the unit, or its start, for which there
\* must be a command line.
WaludCommand ==
    /\ walud_pc = "parsed"
    /\ LET rc == IF walud_cmd \notin {"validate", "show", "start"} THEN 1
                 ELSE IF walud_cmd # "show" /\ ~ validate_unit(unit) THEN 3
                 ELSE IF walud_cmd = "start" /\ ExecWords = <<>> THEN 5
                 ELSE 0
       IN  IF walud_cmd = "start" /\ rc = 0
           THEN walud_pc' = "fork" /\ UNCHANGED walud_rc
           ELSE walud_pc' = "exited" /\ walud_rc' = rc
    /\ UNCHANGED <<walud_cmd, walud_file, walud_ids, unit, childVars>>

\* start_unit.
Fork ==
    /\ walud_pc = "fork"
    /\ \/ /\ walud_pc' = "wait" /\ child_pc' = "forked" /\ child_ids' = walud_ids
          /\ UNCHANGED walud_rc
       \/ /\ walud_pc' = "exited" /\ walud_rc' = 6
          /\ UNCHANGED <<child_pc, child_ids>>
    /\ UNCHANGED <<walud_cmd, walud_file, walud_ids, unit, child_rc, ran>>

\* The system call: only root, and the user itself, may change an id.
SetId(ids, field, id) ==
    IF ids.uid = 0 \/ ids[field] = id THEN [ids EXCEPT ![field] = id] ELSE ids

ChangesUser == User \notin {<<>>, <<"root">>}
KnownUser == User \in DOMAIN Passwd

\* apply_unit_user, in the child: the ids after setgid and setuid, in this
\* order.
SwitchUser(ids) ==
    IF ChangesUser /\ KnownUser
    THEN SetId(SetId(ids, "gid", Passwd[User].gid), "uid", Passwd[User].uid)
    ELSE ids

\* Mutation: the results of the two calls are not looked at.
UserAppliedUnchecked == ChangesUser => KnownUser

UserApplied == ChangesUser => KnownUser /\ SwitchUser(child_ids) = Passwd[User]

\* Each call may also fail for reasons of the system.
ExecFails ==
    /\ child_pc = "forked"
    /\ child_pc' = "exited"
    /\ child_rc' \in IF ~ ChangesUser THEN {127} ELSE IF UserApplied THEN {126, 127} ELSE {126}
    /\ UNCHANGED <<waludVars, child_ids, ran>>

Exec ==
    /\ child_pc = "forked"
    /\ UserApplied
    /\ child_ids' = SwitchUser(child_ids)
    /\ child_pc' = "running" /\ ran' = TRUE
    /\ UNCHANGED <<waludVars, child_rc>>

\* The program ends, or a signal ends the child.
ChildExits(rc) ==
    /\ child_pc = "running"
    /\ child_pc' = "exited" /\ child_rc' = rc
    /\ UNCHANGED <<waludVars, child_ids, ran>>

ChildKilled(signal) ==
    /\ child_pc \in {"forked", "running"}
    /\ child_pc' = "signaled" /\ child_rc' = signal
    /\ UNCHANGED <<waludVars, child_ids, ran>>

\* Mutation: the status of a killed child is read as an exit status, whose
\* bits are then zero.
ExitStatusOnly == IF child_pc = "exited" THEN child_rc ELSE 0

\* What start_unit makes of the child's status.
WaitStatus == IF child_pc = "exited" THEN child_rc ELSE 128 + child_rc

Wait ==
    /\ walud_pc = "wait" /\ child_pc \in {"exited", "signaled"}
    /\ walud_pc' = "exited"
    /\ walud_rc' \in {WaitStatus, 7}        \* 7 when waitpid fails
    /\ UNCHANGED <<walud_cmd, walud_file, walud_ids, unit, childVars>>

\* The invocation is over and forgotten.
WaludGone ==
    /\ walud_pc = "exited"
    /\ walud_pc' = "none" /\ walud_cmd' = "" /\ walud_file' = <<>>
    /\ walud_ids' = Root /\ walud_rc' = -1 /\ unit' = NoUnit
    /\ child_pc' = "none" /\ child_ids' = Root /\ child_rc' = -1 /\ ran' = FALSE
-----------------------------------------------------------------------------
\* What the file says of a field: the value of the last setting of its key
\* below a header, the nearest one, of its section, as far as the field goes.
Declared(file, f) ==
    LET Section(i) == {h \in 1 .. i : file[h].is = "header" /\ file[h].name = f[1]
                           /\ \A k \in h + 1 .. i : file[k].is # "header"}
        Sets == {i \in DOMAIN file : /\ file[i].is = "set" /\ file[i].key = f[2]
                                     /\ Section(i) # {}}
    IN  IF Sets = {} THEN <<>> ELSE Cut(file[Max(Sets)].value, Room(f))

\* walud acts on what the unit file declares: each field is its last setting
\* in its own section, cut to the field, wherever the sections are and however
\* often they come, and a malformed header anywhere makes the file unusable
\* (walud.c:15-23, 40-110).
ParsedIsDeclared ==
    walud_pc = "parsed" =>
        /\ \A i \in DOMAIN walud_file : walud_file[i] # Broken
        /\ \A f \in Fields : unit.values[f] = Declared(walud_file, f)

\* walud start returns 0 only when the program was executed and returned 0; a
\* failed fork, a user that cannot be taken on, a failed exec and a signal
\* are all told (walud.c:184-234).
SuccessMeansDone ==
    walud_pc = "exited" /\ walud_cmd = "start" /\ walud_rc = 0 =>
        ran /\ child_pc = "exited" /\ child_rc = 0

\* A program runs with the uid and the gid that the table of users has for the
\* User of the parsed unit, which may be a cut one; with those of walud only
\* when the unit names none, or root (walud.c:165-184).
RunsAsItsUser ==
    child_pc = "running" =>
        child_ids = IF ChangesUser THEN Passwd[User] ELSE walud_ids
=============================================================================
