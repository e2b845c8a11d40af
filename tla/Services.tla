------------------------------ MODULE Services ------------------------------
(***************************************************************************)
(* walud and the programs its units start: the storage service, the        *)
(* authentication service, or another one that returns what it likes.      *)
(***************************************************************************)
EXTENDS Walud, Storaged, Authd

CONSTANTS
    ShadowFiles,    \* the files authd may find
    Inputs,         \* the lines it may read
    Signals

ASSUME ServicesAssumption == Signals \subseteq Nat \ {0}

\* shadow(5): a line starts with a name, and what follows the hash are numbers.
ASSUME ShadowAssumption ==
    \A file \in ShadowFiles :
        /\ file \in Seq(Seq(STRING))
        /\ \A i \in DOMAIN file :
               /\ Len(file[i]) >= 2 => file[i][1] # ""
               /\ \A k \in 3 .. Len(file[i]) : file[i][k] \notin DOMAIN Hashes

VARIABLES
    auth_input,     \* what authd finds: a line of input,
    auth_file       \* and the shadow file

authVars == <<auth_input, auth_file>>
vars == <<waludVars, childVars, storVars, authVars>>

Init ==
    /\ WaludInit /\ StoragedInit
    /\ auth_input = NoInput /\ auth_file = NoFile

Program == ExecWords[1]

ExecStoraged ==
    /\ Exec /\ Program = "/storaged"
    /\ StoragedExec(Tail(ExecWords)) /\ UNCHANGED authVars

ExecAuthd ==
    /\ Exec /\ Program = "/authd"
    /\ auth_input' \in Inputs /\ auth_file' \in ShadowFiles
    /\ UNCHANGED storVars

ExecOther ==
    /\ Exec /\ Program \notin {"/storaged", "/authd"}
    /\ UNCHANGED <<storVars, authVars>>

Exits ==
    /\ child_pc = "running"
    /\ \/ Program = "/storaged" /\ stor_pc = "exited" /\ ChildExits(stor_rc)
       \/ Program = "/authd" /\ ChildExits(authd(Tail(ExecWords), auth_input, auth_file))
       \/ Program \notin {"/storaged", "/authd"} /\ \E rc \in {0, 1} : ChildExits(rc)
    /\ UNCHANGED <<storVars, authVars>>

Killed(signal) ==
    /\ ChildKilled(signal)
    /\ IF stor_pc \in {"decide", "audit"} THEN StoragedKilled ELSE UNCHANGED storVars
    /\ UNCHANGED authVars

Gone ==
    /\ WaludGone /\ StoragedGone
    /\ auth_input' = NoInput /\ auth_file' = NoFile

Next ==
    \/ WaludUsage /\ UNCHANGED <<storVars, authVars>>
    \/ WaludRuns /\ UNCHANGED <<storVars, authVars>>
    \/ WaludCommand /\ UNCHANGED <<storVars, authVars>>
    \/ Fork /\ UNCHANGED <<storVars, authVars>>
    \/ ExecFails /\ UNCHANGED <<storVars, authVars>>
    \/ ExecStoraged \/ ExecAuthd \/ ExecOther
    \/ StoragedDecide /\ UNCHANGED <<waludVars, childVars, authVars>>
    \/ StoragedAudit /\ UNCHANGED <<waludVars, childVars, authVars>>
    \/ Exits
    \/ \E signal \in Signals : Killed(signal)
    \/ Wait /\ UNCHANGED <<storVars, authVars>>
    \/ Gone

Spec == Init /\ [][Next]_vars
-----------------------------------------------------------------------------
\* walud start of a unit that verifies a password returns 0 only when a line
\* of the user that the command line names last holds, in its second field, a
\* hash of the line that was read, and no line of that user before it holds
\* another: although strtok_r takes the field after an empty one for the hash,
\* and skips a line without one (authd.c:73-120, 167-180, walud.c:186-235).
VerifiedMeansMatch ==
    walud_pc = "exited" /\ walud_cmd = "start" /\ walud_rc = 0
        /\ Program = "/authd" /\ ExecWords[2] = "verify" =>
        \E i \in DOMAIN auth_file, w \in 3 .. Len(ExecWords) - 1 :
            /\ ExecWords[w] = "--user"
            /\ \A k \in w + 1 .. Len(ExecWords) :
                   ExecWords[k] = "--user" => ExecWords[k - 1] \in {"--user", "--shadow"}
            /\ Len(auth_file[i]) >= 2 /\ auth_file[i][1] = ExecWords[w + 1]
            /\ auth_file[i][2] \in DOMAIN Hashes /\ Hashes[auth_file[i][2]] = auth_input
            /\ \A j \in 1 .. i - 1 :
                   Len(auth_file[j]) >= 2 /\ auth_file[j][1] = ExecWords[w + 1]
                       => auth_file[j][2] = ""
=============================================================================
