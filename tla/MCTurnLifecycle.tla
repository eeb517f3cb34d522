--------------------------- MODULE MCTurnLifecycle ---------------------------
(***************************************************************************)
(* Model values for TurnLifecycle.  Scope ids are only compared, so they   *)
(* may be permuted.                                                        *)
(***************************************************************************)
EXTENDS TurnLifecycle, TLC

CONSTANTS s1, s2, s3

MCScopes == {s1, s2, s3}

Symmetry == Permutations(MCScopes)

(***************************************************************************)
(* Continuing a stopped turn takes five mutations before it begins.  The   *)
(* bound of eight mutations and three messages is therefore lifted, to     *)
(* MaxSequence and MaxMessages, in a session whose first turn was stopped. *)
(***************************************************************************)
Stopped == \E s \in Scopes : turns[s].state = "stop_completed" /\ turns[s].sequence = 5

Focus == Stopped \/ (sequence < 8 /\ Len(messages) <= 3)

\* A session of six mutations has one injected message, a longer one has none.
FewInjected ==
    \A i, j \in DOMAIN messages :
        messages[i].role = "injected" /\ messages[j].role = "injected" =>
            i = j /\ sequence < 7 /\ ~Stopped

FocusedSpec == Init /\ [][Next /\ Focus /\ FewInjected']_vars
=============================================================================
