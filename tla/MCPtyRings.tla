----------------------------- MODULE MCPtyRings -----------------------------
(* One pty with rings of three slots, batches of up to three bytes: every   *)
(* offset of head and tail, short writes, and operations on ids that are    *)
(* not there.  The session table lies over the same ptys; its calls come    *)
(* with every session and pty number around the bounds of the two tables.   *)
EXTENDS PtyRings, Session

MCBuffers == {<<1>>, <<2, 1>>, <<1, 2, 2>>}

MCInit == Init /\ SessionInit
MCNext ==
    \/ Next /\ UNCHANGED sessionVars
    \/ SessionNext(MaxFaults - g_pty_invalid_ops) /\ UNCHANGED vars
MCSpec == MCInit /\ [][MCNext]_<<vars, sessionVars>>
=============================================================================
