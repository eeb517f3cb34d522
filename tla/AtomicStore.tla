------------------------------ MODULE AtomicStore ------------------------------
(***************************************************************************)
(* What saving a session promises: a save asks for the contents of the     *)
(* turns, and a reader finds either what was stored before or, from one    *)
(* moment on, exactly what was asked for.  A save that is cut short leaves  *)
(* the former.                                                             *)
(***************************************************************************)
EXTENDS Integers

CONSTANT Turns          \* the turns of the session

VARIABLES
    stored,     \* the content of every turn a reader finds (0: no such turn)
    asked       \* the contents the save under way asks for; stored if there is none

vars == <<stored, asked>>

Init == stored = [t \in Turns |-> 0] /\ asked = stored

Ask ==
    /\ asked = stored
    /\ asked' \in [Turns -> Nat]
    /\ UNCHANGED stored

Commit == stored' = asked /\ UNCHANGED asked

Drop == asked' = stored /\ UNCHANGED stored

Next == Ask \/ Commit \/ Drop

Spec == Init /\ [][Next]_vars
=============================================================================
