------------------------------ MODULE Session ------------------------------
(***************************************************************************)
(* The session table (session.c).  Slots are taken in order and never      *)
(* given back, so the table is the sequence of the controlling ptys, and   *)
(* session i is its i-th element.                                          *)
(***************************************************************************)
EXTENDS PtyTable, Sequences

CONSTANT SESSION_MAX

ASSUME SessionAssumption == SESSION_MAX \in Nat

VARIABLES
    g_sessions,             \* the controlling pty of each session, -1 for none
    g_active_session_id,    \* -1 for none
    g_session_invalid_ops

sessionVars == <<g_sessions, g_active_session_id, g_session_invalid_ops>>

SessionTypeOK ==
    /\ g_sessions \in Seq(-1 .. PTY_MAX - 1)
    /\ Len(g_sessions) <= SESSION_MAX
    /\ g_active_session_id \in {-1} \cup 1 .. SESSION_MAX
    /\ g_session_invalid_ops \in Nat

SessionInit ==
    /\ g_sessions = <<>>
    /\ g_active_session_id = -1
    /\ g_session_invalid_ops = 0
-----------------------------------------------------------------------------
session_find(id) == id \in DOMAIN g_sessions

session_create ==
    /\ Len(g_sessions) < SESSION_MAX
    /\ g_sessions' = Append(g_sessions, -1)
    /\ UNCHANGED <<g_active_session_id, g_session_invalid_ops>>

\* Mutation: any pty number is taken.
SetControllingPtyUnchecked(id, pty) ==
    /\ session_find(id)
    /\ g_sessions' = [g_sessions EXCEPT ![id] = pty]
    /\ UNCHANGED <<g_active_session_id, g_session_invalid_ops>>

session_set_controlling_pty(id, pty) ==
    /\ session_find(id)
    /\ pty_is_valid(pty)
    /\ g_sessions' = [g_sessions EXCEPT ![id] = pty]
    /\ UNCHANGED <<g_active_session_id, g_session_invalid_ops>>

session_set_active(id) ==
    /\ session_find(id)
    /\ g_active_session_id' = id
    /\ UNCHANGED <<g_sessions, g_session_invalid_ops>>

\* The three calls when they fail: a full table, or no such session or pty.
SessionInvalidOp(id, pty) ==
    /\ Len(g_sessions) = SESSION_MAX \/ ~ session_find(id) \/ ~ pty_is_valid(pty)
    /\ g_session_invalid_ops' = g_session_invalid_ops + 1
    /\ UNCHANGED <<g_sessions, g_active_session_id>>

session_active_pty ==
    IF session_find(g_active_session_id) THEN g_sessions[g_active_session_id] ELSE -1
-----------------------------------------------------------------------------
\* A client: the calls with any argument, bounded by the number of failures.
SessionNext(MaxInvalid) ==
    \/ session_create
    \/ \E id \in -1 .. SESSION_MAX + 1 :
           \/ session_set_active(id)
           \/ \E pty \in -1 .. PTY_MAX :
                  \/ session_set_controlling_pty(id, pty)
                  \/ /\ g_session_invalid_ops < MaxInvalid
                     /\ SessionInvalidOp(id, pty)
-----------------------------------------------------------------------------
\* Whatever the order of the calls, the active session exists and the pty of
\* a session exists, so that the shell's reads from session_active_pty never
\* meet a slot nobody allocated (session.c:49, 58).
SessionsAreSound ==
    /\ g_active_session_id # -1 => session_find(g_active_session_id)
    /\ \A id \in DOMAIN g_sessions :
           g_sessions[id] # -1 => pty_is_valid(g_sessions[id])
=============================================================================
