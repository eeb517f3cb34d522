------------------------------- MODULE MCTurnRun -------------------------------
(***************************************************************************)
(* Model values for TurnRun: t1 is sent, t2 is a resend.                   *)
(***************************************************************************)
EXTENDS TurnRun

CONSTANTS t1, t2, h1, h2, c1, c2

MCTurns == {t1, t2}
MCResends == {t2}
MCHandlers == {h1, h2}
MCConns == {c1, c2}

\* A resend, and then or meanwhile its repetition over another connection, or a send
\* over the same one.
MCCommands == {<<h1, t2, c1>>, <<h2, t2, c2>>, <<h2, t1, c1>>}

\* One send.
OneTurn == {t1}
OneHandler == {h1}
OneConn == {c1}
OneCommand == {<<h1, t1, c1>>}
NoResends == {}

\* The agent does not fail, and its time does not run out.
Undisturbed ==
    \A h \in Handlers :
        /\ At(h, "running") => stage'[h] \in {"running", "completing", "stopping"}
        /\ aborted'[h] # "timeout"

UndisturbedSpec == Init /\ [][Next /\ Undisturbed]_vars
=============================================================================
