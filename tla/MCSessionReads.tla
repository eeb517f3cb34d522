----------------------------- MODULE MCSessionReads -----------------------------
(***************************************************************************)
(* Model values for SessionReads.                                          *)
(***************************************************************************)
EXTENDS SessionReads, TLC

CONSTANTS t1, t2, t3

MCTurns == {t1, t2, t3}

TwoTurns == {t1, t2}

\* Appending is always possible.
AppendAndRemove == {"remove"}

Settle == {"settle"}

Symmetry == Permutations(TwoTurns)
=============================================================================
