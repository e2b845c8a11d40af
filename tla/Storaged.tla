------------------------------ MODULE Storaged ------------------------------
(***************************************************************************)
(* The storage service (storaged.c): one invocation decides whether a      *)
(* format may go on, says so, and then appends to the audit log.  What the *)
(* system answers on the way (stat, the table of mounts, the log) is a     *)
(* choice at the call.                                                     *)
(***************************************************************************)
EXTENDS CommandLine

CONSTANT
    ValidPath       \* the words that are paths below /dev/

VARIABLES
    stor_pc,        \* "none", "decide", "audit", "exited" or "killed"
    stor_argv,      \* the words after "storaged"
    stor_rc,
    stor_printed,   \* the approvals on the standard output
    stor_result,    \* what goes to the audit log
    stor_audit,     \* what this invocation appended to it
    stor_seen       \* history: what the table of mounts said, if asked

storVars == <<stor_pc, stor_argv, stor_rc, stor_printed, stor_result, stor_audit, stor_seen>>

StoragedInit ==
    /\ stor_pc = "none" /\ stor_argv = <<>> /\ stor_rc = -1
    /\ stor_printed = {} /\ stor_result = "" /\ stor_audit = <<>> /\ stor_seen = "unasked"

StoragedExec(argv) ==
    /\ stor_pc' = "decide" /\ stor_argv' = argv
    /\ UNCHANGED <<stor_rc, stor_printed, stor_result, stor_audit, stor_seen>>

\* The invocation is over and forgotten.
StoragedGone ==
    /\ stor_pc' = "none" /\ stor_argv' = <<>> /\ stor_rc' = -1
    /\ stor_printed' = {} /\ stor_result' = "" /\ stor_audit' = <<>> /\ stor_seen' = "unasked"
-----------------------------------------------------------------------------
parse_format_args(argv) ==
    Options(Tail(argv), {"--device", "--confirm"}, {"--dry-run", "--force", "--yes"})

Outcome(rc, result, seen, printed) ==
    /\ stor_rc' = rc /\ stor_result' = result
    /\ stor_seen' = seen /\ stor_printed' = printed
    /\ stor_pc' = IF result = "" THEN "exited" ELSE "audit"
    /\ UNCHANGED <<stor_argv, stor_audit>>

\* is_device_mounted: a table that cannot be read counts as an empty one.
Table == {"mounted", "free", "unreadable"}

\* Mutation: the device that is confirmed is not compared.
ConfirmedByYes(args) == Given(args, "--force") /\ Given(args, "--yes")

Confirmed(args) ==
    /\ Given(args, "--force") /\ Given(args, "--yes") /\ Given(args, "--confirm")
    /\ args.given["--confirm"] = args.given["--device"]

\* Mutation: the approval is logged before the flags are looked at.
FormatLogsEarly(args) ==
    LET device == args.given["--device"]
    IN  IF device \notin ValidPath THEN Outcome(2, "deny", "unasked", {})
        ELSE \E table \in Table :
                 IF Given(args, "--dry-run") THEN Outcome(0, "dry-run", table, {})
                 ELSE IF table = "mounted" THEN Outcome(4, "deny", table, {})
                 ELSE IF ~ Confirmed(args) THEN Outcome(3, "approved", table, {})
                 ELSE Outcome(0, "approved", table, {device})

\* The checks in order, each of which may end the command.
command_format(args) ==
    LET device == args.given["--device"]
    IN  IF device \notin ValidPath THEN Outcome(2, "deny", "unasked", {})
        ELSE \/ Outcome(2, "deny", "unasked", {})           \* not a block device
             \/ \E table \in Table :
                    IF Given(args, "--dry-run") THEN Outcome(0, "dry-run", table, {})
                    ELSE IF table = "mounted" THEN Outcome(4, "deny", table, {})
                    ELSE IF ~ Confirmed(args) THEN Outcome(3, "deny", table, {})
                    ELSE Outcome(0, "approved", table, {device})

command_probe(device) ==
    IF device \in ValidPath THEN Outcome(0, "ok", "unasked", {})
    ELSE Outcome(2, "deny", "unasked", {})

\* main: probe takes exactly its device, format its options.
StoragedDecide ==
    /\ stor_pc = "decide"
    /\ CASE Len(stor_argv) = 3 /\ stor_argv[1] = "probe" /\ stor_argv[2] = "--device" ->
               command_probe(stor_argv[3])
         [] Len(stor_argv) > 0 /\ stor_argv[1] = "format"
            /\ Given(parse_format_args(stor_argv), "--device") ->
               command_format(parse_format_args(stor_argv))
         [] OTHER -> Outcome(1, "", "unasked", {})

\* audit_event, when the log can be opened and when it cannot.
StoragedAudit ==
    /\ stor_pc = "audit"
    /\ stor_audit' \in {<<stor_result>>, <<>>}
    /\ stor_pc' = "exited"
    /\ UNCHANGED <<stor_argv, stor_rc, stor_printed, stor_result, stor_seen>>

StoragedKilled ==
    /\ stor_pc \in {"decide", "audit"}
    /\ stor_pc' = "killed"
    /\ UNCHANGED <<stor_argv, stor_rc, stor_printed, stor_result, stor_audit, stor_seen>>
-----------------------------------------------------------------------------
\* The last time the command line has the option, the word is its value: a
\* later word that looks like the option is the value of an option itself.
IsLastValue(name, word) ==
    \E i \in 2 .. Len(stor_argv) - 1 :
        /\ stor_argv[i] = name /\ stor_argv[i + 1] = word
        /\ \A k \in i + 1 .. Len(stor_argv) :
               stor_argv[k] = name => stor_argv[k - 1] \in {"--device", "--confirm"}

\* A format is approved only when the command line has --force and --yes, and
\* the device it names last is the one it confirms last, and the table of
\* mounts, as far as it could be read, did not have it: whatever the order of
\* the options and however often they come (storaged.c:39-63, 139-179).
ApprovalIsConfirmed ==
    \A device \in stor_printed :
        /\ {"--force", "--yes"} \subseteq {stor_argv[i] : i \in DOMAIN stor_argv}
        /\ IsLastValue("--device", device) /\ IsLastValue("--confirm", device)
        /\ stor_seen # "mounted"

\* The audit log never claims what did not happen, and a denial that it holds
\* is the caller's exit code too.  The other way round does not hold: the log
\* may be unwritable, or the process killed before it writes
\* (storaged.c:21-29, 139-179).
AuditIsTrue ==
    stor_audit # <<>> =>
        /\ stor_audit[1] = "approved" <=> stor_printed # {}
        /\ stor_audit[1] = "deny" <=> stor_rc # 0
=============================================================================
