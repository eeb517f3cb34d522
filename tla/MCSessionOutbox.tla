--------------------------- MODULE MCSessionOutbox ---------------------------
(***************************************************************************)
(* Model values for SessionOutbox.                                         *)
(***************************************************************************)
EXTENDS SessionOutbox, TLC

CONSTANTS t1, t2, d1, d2, d3, web, cli

MCTurns == {t1, t2}
OneTurn == {t1}

\* One connection.
OneDispatcher == {d1}
OneConsumer == {web}
SingleConsumer == [d \in OneDispatcher |-> web]

\* Two connections of the service, which share a consumer, and the command line.
MCDispatchers == {d1, d2, d3}
MCConsumers == {web, cli}
MCConsumerOf == [d \in MCDispatchers |-> IF d = d3 THEN cli ELSE web]

\* Turns and the connections of the service are interchangeable.
Symmetry == Permutations(MCTurns) \cup Permutations({d1, d2})
=============================================================================
