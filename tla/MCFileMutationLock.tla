-------------------------- MODULE MCFileMutationLock --------------------------
(***************************************************************************)
(* Model values for FileMutationLock.  Requests are numbers: their owner   *)
(* tokens break the tie of equal tickets, so they are not interchangeable. *)
(* The exploration starts after the request 0 died in its operation; its   *)
(* lock file is still there and its lease has yet to run out.              *)
(***************************************************************************)
EXTENDS FileMutationLock

MCRequests == 0..2

AbandonedInit ==
    /\ pc = [r \in Requests |-> IF r = 0 THEN "holding" ELSE "idle"]
    /\ file = [r \in Requests |-> NoFile]
    /\ lock = 0
    /\ unread = [r \in Requests |-> {}]
    /\ live = [r \in Requests |-> {}]
    /\ late = {}
    /\ crashed = {0}
    /\ stalls = 0
    /\ ahead = [r \in Requests |-> {}]
    /\ overlooked = FALSE

AbandonedSpec == AbandonedInit /\ [][Next]_vars
FairAbandonedSpec == AbandonedSpec /\ Fairness
=============================================================================
