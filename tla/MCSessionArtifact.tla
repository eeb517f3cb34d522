--------------------------- MODULE MCSessionArtifact ---------------------------
(***************************************************************************)
(* Model values for SessionArtifact.                                       *)
(***************************************************************************)
EXTENDS SessionArtifact, TLC

CONSTANTS t1, t2, t3

MCTurns == {t1, t2, t3}

AllOperations == {"settle", "checkpoint", "remove"}

Symmetry == Permutations(MCTurns)
=============================================================================
