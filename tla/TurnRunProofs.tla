---------------------------- MODULE TurnRunProofs ----------------------------
(***************************************************************************)
(* What the run layer guarantees for any number of turns, connections and  *)
(* commands: the registry leads to the run of every agent at work, and no  *)
(* agent works on a turn that was settled behind its back.                 *)
(***************************************************************************)
EXTENDS TurnRun, TLAPS

(***************************************************************************)
(* The invariant.  A handler that reserved a run owns it, and with it its  *)
(* connection, until it releases both; what the registry and a connection  *)
(* name is owned.  All this is about states in which no two commands have  *)
(* passed the check of one connection.                                     *)
(***************************************************************************)
Types ==
    /\ applied \in [Turns -> SUBSET Events]
    /\ byTurn \in [Turns -> Runs]
    /\ byDialog \in [Turns -> Runs]
    /\ aborted \in [Handlers -> {"no", "stop", "timeout"}]
    /\ conn \in [Conns -> Connection]
    /\ timers \subseteq Handlers
    /\ stage \in [Handlers \cup {Client} -> Stages]
    /\ run \in [Handlers -> Locals]
    /\ snap \in [Handlers \cup {Client} -> Snapshot]
    /\ stop \in [Turns -> StopStages]
    /\ mishaps \in 0..MaxMishaps
    /\ overlapped \in BOOLEAN
    /\ lost \subseteq Handlers

Fresh == {"idle", "received"}
Accepting == {"accepting", "recovering", "retrying", "accepted", "activating", "running"}
Activated == {"activating", "running", "completing"}
Settling == {"completed", "stopping", "stopped", "timingOut", "failing"}

Owner(h) == run[h].bound = h

\* The locals of a handler are set by the time they are used.
LocalsFit ==
    \A h \in Handlers :
        /\ stage[h] \notin {"idle", "done"} => TurnOf(h) \in Turns /\ ConnOf(h) \in Conns
        /\ stage[h] \in Fresh => run[h].bound = NoRun
        /\ stage[h] = "binding" => run[h].bound # NoRun
        /\ stage[h] \in Settling => run[h].target \in Turns

OwnersFit ==
    \A h \in Handlers :
        /\ stage[h] \in Accepting \cup {"completing", "completed"} => Owner(h)
        /\ stage[h] \notin Fresh \cup {"done"} => run[h].bound # NoRun
        /\ At(h, "running") => run[h].signal = h
        /\ Owner(h) => /\ stage[h] \notin Fresh \cup {"binding", "done"}
                       /\ State(h).handle = h /\ State(h).signal = h /\ State(h).running
                       /\ State(h).meta \in {NoTurn, TurnOf(h)}
                       /\ stage[h] \in Activated => State(h).meta = TurnOf(h)

ReceivedFit ==
    \A h \in Handlers : At(h, "received") =>
        /\ ~State(h).running
        /\ \A g \in Handlers : At(g, "received") /\ ConnOf(g) = ConnOf(h) => g = h

MetaFits ==
    \A c \in Conns : conn[c].meta # NoTurn =>
        \E k \in Handlers : Owner(k) /\ ConnOf(k) = c /\ TurnOf(k) = conn[c].meta

\* Who is bound to the run of another is on another connection, and disturbs that run
\* only when the rebinding failed.
BindingsFit ==
    \A g, h \in Handlers : run[g].bound = h =>
        /\ stage[h] \notin Fresh
        /\ g # h /\ Owner(h) => ConnOf(g) # ConnOf(h)
        /\ g # h => stage[g] \in {"binding", "done"} \/ h \in lost

RegistryFits ==
    \A t \in Turns, h \in Handlers :
        h \in {byTurn[t], byDialog[t]} => Owner(h) /\ TurnOf(h) = t

\* A run that was not aborted or hit is found by its turn until its agent ends.
Registered ==
    \A h \in Handlers :
        stage[h] \in Accepting /\ aborted[h] = "no" /\ h \notin lost => byTurn[TurnOf(h)] = h

Owned == OwnersFit /\ ReceivedFit /\ MetaFits /\ BindingsFit /\ RegistryFits /\ Registered

LEMMA ConnectionParts ==
    ASSUME NEW s \in Connection
    PROVE  /\ s.handle \in Runs /\ s.signal \in Runs /\ s.timer \in Runs
           /\ s.meta \in Turns \cup {NoTurn} /\ s.running \in BOOLEAN /\ s.timedOut \in BOOLEAN
BY DEF Connection

LEMMA ConnectionUpdates ==
    ASSUME NEW s \in Connection
    PROVE  /\ \A r \in Runs :
                 /\ [s EXCEPT !.handle = r] \in Connection
                 /\ [s EXCEPT !.timer = r] \in Connection
                 /\ [s EXCEPT !.running = TRUE, !.signal = r, !.timedOut = FALSE, !.handle = r]
                    \in Connection
           /\ \A t \in Turns \cup {NoTurn} : [s EXCEPT !.meta = t] \in Connection
           /\ [s EXCEPT !.timedOut = TRUE] \in Connection
BY DEF Connection

LEMMA LocalsParts ==
    ASSUME NEW l \in Locals
    PROVE  /\ l.turn \in Turns \cup {NoTurn} /\ l.conn \in Conns \cup {NoConn}
           /\ l.bound \in Runs /\ l.signal \in Runs /\ l.target \in Turns \cup {NoTurn}
BY DEF Locals

LEMMA LocalsUpdates ==
    ASSUME NEW l \in Locals
    PROVE  /\ \A t \in Turns, c \in Conns : [l EXCEPT !.turn = t, !.conn = c] \in Locals
           /\ \A r \in Runs : [l EXCEPT !.bound = r] \in Locals /\ [l EXCEPT !.signal = r] \in Locals
           /\ \A t \in Turns \cup {NoTurn} :
                 /\ [l EXCEPT !.target = t] \in Locals
                 /\ [l EXCEPT !.settling = TRUE, !.target = t] \in Locals
           /\ [l EXCEPT !.started = "yes"] \in Locals
           /\ [l EXCEPT !.started = "failed"] \in Locals
           /\ Ended(l) \in Locals
<1> USE DEF Locals
<1>1. \A t \in Turns, c \in Conns : [l EXCEPT !.turn = t, !.conn = c] \in Locals
      OBVIOUS
<1>2. \A r \in Runs : [l EXCEPT !.bound = r] \in Locals /\ [l EXCEPT !.signal = r] \in Locals
      OBVIOUS
<1>3. \A t \in Turns \cup {NoTurn} :
         /\ [l EXCEPT !.target = t] \in Locals
         /\ [l EXCEPT !.settling = TRUE, !.target = t] \in Locals
      OBVIOUS
<1>4. /\ [l EXCEPT !.started = "yes"] \in Locals
      /\ [l EXCEPT !.started = "failed"] \in Locals
      OBVIOUS
<1>5. Ended(l) \in Locals
      BY DEF Ended, NoLocals, Runs
<1> QED
      BY <1>1, <1>2, <1>3, <1>4, <1>5

LEMMA FoundRuns ==
    ASSUME Types, NEW t \in Turns
    PROVE  FindActiveRun(t) \in Runs /\ FindByTurn(t) \in Runs
BY DEF Types, FindActiveRun, FindByTurn

LEMMA FreeIsConnection == FreeConnection \in Connection
BY DEF FreeConnection, Connection, Runs

LEMMA ConnTyped ==
    ASSUME Types, LocalsFit, Next
    PROVE  (conn \in [Conns -> Connection])'
<1> USE DEF At, Goto, Apply, registry, State, ConnOf, TurnOf, Types
<1>1. ASSUME NEW h \in Handlers, BindExistingRun(h) PROVE (conn \in [Conns -> Connection])'
  <2>1. ConnOf(h) \in Conns /\ RunningTurn(h) \in Runs
        BY <1>1, FoundRuns DEF BindExistingRun, LocalsFit, RunningTurn
  <2> QED
        BY <1>1, <2>1, ConnectionUpdates DEF BindExistingRun
<1>2. ASSUME NEW h \in Handlers, Rebound(h) PROVE (conn \in [Conns -> Connection])'
      BY <1>2, ConnectionUpdates, FreeIsConnection DEF Rebound
<1>3. ASSUME NEW h \in Handlers, RebindFails(h) PROVE (conn \in [Conns -> Connection])'
      BY <1>3, ConnectionUpdates, FreeIsConnection DEF RebindFails
<1>4. ASSUME NEW h \in Handlers, ReserveRun(h) PROVE (conn \in [Conns -> Connection])'
  <2>1. ConnOf(h) \in Conns /\ h \in Runs
        BY <1>4 DEF ReserveRun, LocalsFit, Runs
  <2> QED
        BY <1>4, <2>1, ConnectionUpdates DEF ReserveRun
<1>5. ASSUME NEW h \in Handlers, CommitAction(h) PROVE (conn \in [Conns -> Connection])'
      BY <1>5, ConnectionUpdates, FreeIsConnection DEF CommitAction, Commit, Assess
<1>6. ASSUME NEW x \in Handlers \cup {Client}, RecoverActiveTurn(x)
      PROVE  (conn \in [Conns -> Connection])'
      BY <1>6, ConnectionUpdates, FreeIsConnection DEF RecoverActiveTurn, NotRecovered
<1>7. ASSUME NEW h \in Handlers, ActivateRun(h) PROVE (conn \in [Conns -> Connection])'
  <2>1. ConnOf(h) \in Conns /\ TurnOf(h) \in Turns
        BY <1>7 DEF ActivateRun, LocalsFit
  <2> QED
        BY <1>7, <2>1, ConnectionUpdates DEF ActivateRun
<1>8. ASSUME NEW h \in Handlers, ExecuteRun(h) PROVE (conn \in [Conns -> Connection])'
  <2>1. ConnOf(h) \in Conns /\ h \in Runs
        BY <1>8 DEF ExecuteRun, LocalsFit, Runs
  <2>2. CASE conn' = conn
        BY <2>2
  <2>3. CASE conn' = [conn EXCEPT ![ConnOf(h)].timer = h]
        BY <2>1, <2>3, ConnectionUpdates
  <2> QED
        BY <1>8, <2>2, <2>3 DEF ExecuteRun
<1>9. ASSUME NEW h \in Handlers, RunTimesOut(h) PROVE (conn \in [Conns -> Connection])'
  <2>1. CASE ConnOf(h) \in Conns
        BY <1>9, <2>1, ConnectionUpdates DEF RunTimesOut
  <2>2. CASE ConnOf(h) \notin Conns
        BY <1>9, <2>2 DEF RunTimesOut
  <2> QED
        BY <2>1, <2>2
<1>10. ASSUME NEW h \in Handlers, StartProcessing(h) PROVE (conn \in [Conns -> Connection])'
      BY <1>10, ConnectionUpdates, FreeIsConnection DEF StartProcessing
<1>11. ASSUME NEW h \in Handlers, AgentEnds(h) PROVE (conn \in [Conns -> Connection])'
      BY <1>11, ConnectionUpdates, FreeIsConnection
      DEF AgentEnds, FinalizeRunResult, GotoSettling, Catch, Release, Unregister
<1>12. ASSUME NEW h \in Handlers, CompleteProcessing(h)
      PROVE  (conn \in [Conns -> Connection])'
      BY <1>12, ConnectionUpdates, FreeIsConnection DEF CompleteProcessing, Commit
<1>13. ASSUME NEW h \in Handlers, FinalizeCompleted(h)
      PROVE  (conn \in [Conns -> Connection])'
      BY <1>13, ConnectionUpdates, FreeIsConnection DEF FinalizeCompleted, Commit
<1>14. ASSUME NEW h \in Handlers, FinalizeUserStopped(h)
      PROVE  (conn \in [Conns -> Connection])'
      BY <1>14, ConnectionUpdates, FreeIsConnection DEF FinalizeUserStopped, Commit
<1>15. ASSUME NEW h \in Handlers, FinalizeTimeout(h) PROVE (conn \in [Conns -> Connection])'
      BY <1>15, ConnectionUpdates, FreeIsConnection DEF FinalizeTimeout, Commit
<1>16. ASSUME NEW h \in Handlers, SettleFailedRun(h) PROVE (conn \in [Conns -> Connection])'
      BY <1>16, ConnectionUpdates, FreeIsConnection
      DEF SettleFailedRun, Catch, Release, Unregister
<1>17. ASSUME NEW h \in Handlers, RejectInvalid(h) PROVE (conn \in [Conns -> Connection])'
      BY <1>17, ConnectionUpdates, FreeIsConnection
      DEF RejectInvalid, Catch, Release, Unregister
<1>18. ASSUME NEW h \in Handlers, CommitCurrentFailure(h)
      PROVE  (conn \in [Conns -> Connection])'
      BY <1>18, ConnectionUpdates, FreeIsConnection DEF CommitCurrentFailure, Commit
<1>19. ASSUME NEW h \in Handlers, ReleaseRun(h) PROVE (conn \in [Conns -> Connection])'
      BY <1>19, ConnectionUpdates, FreeIsConnection DEF ReleaseRun, Release, Unregister
<1>20. ASSUME NEW h \in Handlers, NEW t \in Turns, NEW c \in Conns, Receive(h, t, c)
      PROVE  (conn \in [Conns -> Connection])'
      BY <1>20, ConnectionUpdates, FreeIsConnection DEF Receive
<1>21. ASSUME NEW t \in Turns, AcceptStop(t) PROVE (conn \in [Conns -> Connection])'
      BY <1>21, ConnectionUpdates, FreeIsConnection DEF AcceptStop, CommitStop
<1>22. ASSUME NEW t \in Turns, AbortRegisteredRun(t) PROVE (conn \in [Conns -> Connection])'
      BY <1>22, ConnectionUpdates, FreeIsConnection DEF AbortRegisteredRun, Abort
<1>23. ASSUME NEW t \in Turns, CompleteIdleStop(t) PROVE (conn \in [Conns -> Connection])'
      BY <1>23, ConnectionUpdates, FreeIsConnection DEF CompleteIdleStop, CommitStop
<1>24. CASE AssessTurnRecovery
      BY <1>24, ConnectionUpdates, FreeIsConnection DEF AssessTurnRecovery, Assess
<1>25. CASE RestartService
      BY <1>25, ConnectionUpdates, FreeIsConnection DEF RestartService
<1> QED
      BY <1>1, <1>2, <1>3, <1>4, <1>5, <1>6, <1>7, <1>8, <1>9, <1>10, <1>11, <1>12, <1>13,
         <1>14, <1>15, <1>16, <1>17, <1>18, <1>19, <1>20, <1>21, <1>22, <1>23, <1>24, <1>25
      DEF Next, HandlerStep, StopStep, ClientRecovers, AgentObeysAbort

LEMMA RunTyped ==
    ASSUME Types, LocalsFit, Next
    PROVE  (run \in [Handlers -> Locals])'
<1> USE DEF At, Goto, Apply, registry, ConnOf, TurnOf, Types
<1>1. ASSUME NEW h \in Handlers, BindExistingRun(h) PROVE (run \in [Handlers -> Locals])'
  <2>1. RunningTurn(h) \in Runs
        BY <1>1, FoundRuns DEF BindExistingRun, LocalsFit, RunningTurn
  <2> QED
        BY <1>1, <2>1, LocalsUpdates DEF BindExistingRun
<1>2. ASSUME NEW h \in Handlers, Rebound(h) PROVE (run \in [Handlers -> Locals])'
      BY <1>2, LocalsUpdates DEF Rebound
<1>3. ASSUME NEW h \in Handlers, RebindFails(h) PROVE (run \in [Handlers -> Locals])'
      BY <1>3, LocalsUpdates DEF RebindFails
<1>4. ASSUME NEW h \in Handlers, ReserveRun(h) PROVE (run \in [Handlers -> Locals])'
      BY <1>4, LocalsUpdates DEF ReserveRun, Runs
<1>5. ASSUME NEW h \in Handlers, CommitAction(h) PROVE (run \in [Handlers -> Locals])'
      BY <1>5, LocalsUpdates DEF CommitAction, Commit, Assess
<1>6. ASSUME NEW x \in Handlers \cup {Client}, RecoverActiveTurn(x)
      PROVE  (run \in [Handlers -> Locals])'
      BY <1>6, LocalsUpdates DEF RecoverActiveTurn, NotRecovered
<1>7. ASSUME NEW h \in Handlers, ActivateRun(h) PROVE (run \in [Handlers -> Locals])'
      BY <1>7, LocalsUpdates DEF ActivateRun
<1>8. ASSUME NEW h \in Handlers, ExecuteRun(h) PROVE (run \in [Handlers -> Locals])'
  <2>1. State(h).signal \in Runs
        BY <1>8, ConnectionParts DEF ExecuteRun, LocalsFit, State
  <2>2. CASE run' = run
        BY <2>2
  <2>3. CASE run' = [run EXCEPT ![h].signal = State(h).signal]
        BY <1>8, <2>1, <2>3, LocalsUpdates
  <2> QED
        BY <1>8, <2>2, <2>3 DEF ExecuteRun
<1>9. ASSUME NEW h \in Handlers, RunTimesOut(h) PROVE (run \in [Handlers -> Locals])'
      BY <1>9, LocalsUpdates DEF RunTimesOut, Abort
<1>10. ASSUME NEW h \in Handlers, StartProcessing(h) PROVE (run \in [Handlers -> Locals])'
  <2>1. CASE run' = [run EXCEPT ![h].started = "yes"]
        BY <1>10, <2>1, LocalsUpdates
  <2>2. CASE run' = [run EXCEPT ![h].started = "failed"]
        BY <1>10, <2>2, LocalsUpdates
  <2> QED
        BY <1>10, <2>1, <2>2 DEF StartProcessing
<1>11. ASSUME NEW h \in Handlers, AgentEnds(h) PROVE (run \in [Handlers -> Locals])'
  <2>1. State(h).meta \in Turns \cup {NoTurn}
        BY <1>11, ConnectionParts DEF AgentEnds, LocalsFit, State
  <2>2. CASE run' = run
        BY <2>2
  <2>3. CASE run' = [run EXCEPT ![h].target = State(h).meta]
        BY <1>11, <2>1, <2>3, LocalsUpdates
  <2>4. CASE run' = [run EXCEPT ![h].settling = TRUE, ![h].target = State(h).meta]
        BY <1>11, <2>1, <2>4, LocalsUpdates
  <2>5. CASE run' = [run EXCEPT ![h] = Ended(@)]
        BY <1>11, <2>5, LocalsUpdates
  <2> QED
        BY <1>11, <2>2, <2>3, <2>4, <2>5
        DEF AgentEnds, FinalizeRunResult, GotoSettling, Catch, Release
<1>12. ASSUME NEW h \in Handlers, CompleteProcessing(h) PROVE (run \in [Handlers -> Locals])'
  <2>1. State(h).meta \in Turns \cup {NoTurn}
        BY <1>12, ConnectionParts DEF CompleteProcessing, LocalsFit, State
  <2> QED
        BY <1>12, <2>1, LocalsUpdates DEF CompleteProcessing
<1>13. ASSUME NEW h \in Handlers, FinalizeCompleted(h) PROVE (run \in [Handlers -> Locals])'
      BY <1>13, LocalsUpdates DEF FinalizeCompleted, Commit
<1>14. ASSUME NEW h \in Handlers, FinalizeUserStopped(h)
      PROVE  (run \in [Handlers -> Locals])'
      BY <1>14, LocalsUpdates DEF FinalizeUserStopped, Commit
<1>15. ASSUME NEW h \in Handlers, FinalizeTimeout(h) PROVE (run \in [Handlers -> Locals])'
      BY <1>15, LocalsUpdates DEF FinalizeTimeout, Commit
<1>16. ASSUME NEW h \in Handlers, SettleFailedRun(h) PROVE (run \in [Handlers -> Locals])'
  <2>1. State(h).meta \in Turns \cup {NoTurn}
        BY <1>16, ConnectionParts DEF SettleFailedRun, LocalsFit, State
  <2>2. CASE run' = run
        BY <2>2
  <2>3. CASE run' = [run EXCEPT ![h].target = State(h).meta]
        BY <1>16, <2>1, <2>3, LocalsUpdates
  <2>4. CASE run' = [run EXCEPT ![h].settling = TRUE, ![h].target = State(h).meta]
        BY <1>16, <2>1, <2>4, LocalsUpdates
  <2>5. CASE run' = [run EXCEPT ![h] = Ended(@)]
        BY <1>16, <2>5, LocalsUpdates
  <2> QED
        BY <1>16, <2>2, <2>3, <2>4, <2>5 DEF SettleFailedRun, Catch, Release
<1>17. ASSUME NEW h \in Handlers, RejectInvalid(h) PROVE (run \in [Handlers -> Locals])'
  <2>1. State(h).meta \in Turns \cup {NoTurn}
        BY <1>17, ConnectionParts DEF RejectInvalid, LocalsFit, State
  <2>2. CASE run' = run
        BY <2>2
  <2>3. CASE run' = [run EXCEPT ![h].target = State(h).meta]
        BY <1>17, <2>1, <2>3, LocalsUpdates
  <2>4. CASE run' = [run EXCEPT ![h].settling = TRUE, ![h].target = State(h).meta]
        BY <1>17, <2>1, <2>4, LocalsUpdates
  <2>5. CASE run' = [run EXCEPT ![h] = Ended(@)]
        BY <1>17, <2>5, LocalsUpdates
  <2> QED
        BY <1>17, <2>2, <2>3, <2>4, <2>5 DEF RejectInvalid, Catch, Release
<1>18. ASSUME NEW h \in Handlers, CommitCurrentFailure(h)
      PROVE  (run \in [Handlers -> Locals])'
      BY <1>18, LocalsUpdates DEF CommitCurrentFailure, Commit
<1>19. ASSUME NEW h \in Handlers, ReleaseRun(h) PROVE (run \in [Handlers -> Locals])'
      BY <1>19, LocalsUpdates DEF ReleaseRun, Release, Unregister
<1>20. ASSUME NEW h \in Handlers, NEW t \in Turns, NEW c \in Conns, Receive(h, t, c)
      PROVE  (run \in [Handlers -> Locals])'
      BY <1>20, LocalsUpdates DEF Receive
<1>21. ASSUME NEW t \in Turns, AcceptStop(t) PROVE (run \in [Handlers -> Locals])'
      BY <1>21, LocalsUpdates DEF AcceptStop, CommitStop
<1>22. ASSUME NEW t \in Turns, AbortRegisteredRun(t) PROVE (run \in [Handlers -> Locals])'
      BY <1>22, LocalsUpdates DEF AbortRegisteredRun, Abort
<1>23. ASSUME NEW t \in Turns, CompleteIdleStop(t) PROVE (run \in [Handlers -> Locals])'
      BY <1>23, LocalsUpdates DEF CompleteIdleStop, CommitStop
<1>24. CASE AssessTurnRecovery
      BY <1>24, LocalsUpdates DEF AssessTurnRecovery, Assess
<1>25. CASE RestartService
      BY <1>25, LocalsUpdates DEF RestartService
<1> QED
      BY <1>1, <1>2, <1>3, <1>4, <1>5, <1>6, <1>7, <1>8, <1>9, <1>10, <1>11, <1>12, <1>13,
         <1>14, <1>15, <1>16, <1>17, <1>18, <1>19, <1>20, <1>21, <1>22, <1>23, <1>24, <1>25
      DEF Next, HandlerStep, StopStep, ClientRecovers, AgentObeysAbort

LEMMA LostTyped ==
    ASSUME Types, LocalsFit, Next
    PROVE  (lost \subseteq Handlers)'
<1> USE DEF At, Goto, Apply, registry, ConnOf, TurnOf, State, Types, Connection, Runs,
            LocalsFit
<1>1. ASSUME NEW h \in Handlers, BindExistingRun(h) PROVE (lost \subseteq Handlers)'
      BY <1>1 DEF BindExistingRun
<1>2. ASSUME NEW h \in Handlers, Rebound(h) PROVE (lost \subseteq Handlers)'
      BY <1>2 DEF Rebound
<1>3. ASSUME NEW h \in Handlers, RebindFails(h) PROVE (lost \subseteq Handlers)'
  <2>1. run[h].bound \in Handlers
        BY <1>3, LocalsParts DEF RebindFails, LocalsFit, Runs
  <2> QED
        BY <1>3, <2>1 DEF RebindFails
<1>4. ASSUME NEW h \in Handlers, ReserveRun(h) PROVE (lost \subseteq Handlers)'
      BY <1>4 DEF ReserveRun
<1>5. ASSUME NEW h \in Handlers, CommitAction(h) PROVE (lost \subseteq Handlers)'
      BY <1>5 DEF CommitAction, Commit, Assess
<1>6. ASSUME NEW x \in Handlers \cup {Client}, RecoverActiveTurn(x)
      PROVE  (lost \subseteq Handlers)'
      BY <1>6 DEF RecoverActiveTurn, NotRecovered
<1>7. ASSUME NEW h \in Handlers, ActivateRun(h) PROVE (lost \subseteq Handlers)'
      BY <1>7 DEF ActivateRun
<1>8. ASSUME NEW h \in Handlers, ExecuteRun(h) PROVE (lost \subseteq Handlers)'
      BY <1>8 DEF ExecuteRun
<1>9. ASSUME NEW h \in Handlers, RunTimesOut(h) PROVE (lost \subseteq Handlers)'
      BY <1>9 DEF RunTimesOut, Abort
<1>10. ASSUME NEW h \in Handlers, StartProcessing(h) PROVE (lost \subseteq Handlers)'
      BY <1>10 DEF StartProcessing
<1>11. ASSUME NEW h \in Handlers, AgentEnds(h) PROVE (lost \subseteq Handlers)'
      BY <1>11 DEF AgentEnds, FinalizeRunResult, GotoSettling, Catch, Release, Unregister
<1>12. ASSUME NEW h \in Handlers, CompleteProcessing(h) PROVE (lost \subseteq Handlers)'
      BY <1>12 DEF CompleteProcessing, Commit
<1>13. ASSUME NEW h \in Handlers, FinalizeCompleted(h) PROVE (lost \subseteq Handlers)'
      BY <1>13 DEF FinalizeCompleted, Commit
<1>14. ASSUME NEW h \in Handlers, FinalizeUserStopped(h) PROVE (lost \subseteq Handlers)'
      BY <1>14 DEF FinalizeUserStopped, Commit
<1>15. ASSUME NEW h \in Handlers, FinalizeTimeout(h) PROVE (lost \subseteq Handlers)'
      BY <1>15 DEF FinalizeTimeout, Commit
<1>16. ASSUME NEW h \in Handlers, SettleFailedRun(h) PROVE (lost \subseteq Handlers)'
      BY <1>16 DEF SettleFailedRun, Catch, Release, Unregister
<1>17. ASSUME NEW h \in Handlers, RejectInvalid(h) PROVE (lost \subseteq Handlers)'
      BY <1>17 DEF RejectInvalid, Catch, Release, Unregister
<1>18. ASSUME NEW h \in Handlers, CommitCurrentFailure(h) PROVE (lost \subseteq Handlers)'
      BY <1>18 DEF CommitCurrentFailure, Commit
<1>19. ASSUME NEW h \in Handlers, ReleaseRun(h) PROVE (lost \subseteq Handlers)'
      BY <1>19 DEF ReleaseRun, Release, Unregister
<1>20. ASSUME NEW h \in Handlers, NEW t \in Turns, NEW c \in Conns, Receive(h, t, c)
      PROVE  (lost \subseteq Handlers)'
      BY <1>20 DEF Receive
<1>21. ASSUME NEW t \in Turns, AcceptStop(t) PROVE (lost \subseteq Handlers)'
      BY <1>21 DEF AcceptStop, CommitStop
<1>22. ASSUME NEW t \in Turns, AbortRegisteredRun(t) PROVE (lost \subseteq Handlers)'
      BY <1>22 DEF AbortRegisteredRun, Abort
<1>23. ASSUME NEW t \in Turns, CompleteIdleStop(t) PROVE (lost \subseteq Handlers)'
      BY <1>23 DEF CompleteIdleStop, CommitStop
<1>24. CASE AssessTurnRecovery
      BY <1>24 DEF AssessTurnRecovery, Assess
<1>25. CASE RestartService
      BY <1>25 DEF RestartService
<1> QED
      BY <1>1, <1>2, <1>3, <1>4, <1>5, <1>6, <1>7, <1>8, <1>9, <1>10, <1>11, <1>12, <1>13,
         <1>14, <1>15, <1>16, <1>17, <1>18, <1>19, <1>20, <1>21, <1>22, <1>23, <1>24, <1>25
      DEF Next, HandlerStep, StopStep, ClientRecovers, AgentObeysAbort

LEMMA AppliedTyped ==
    ASSUME Types, Next
    PROVE  (applied \in [Turns -> SUBSET Events])'
<1> USE DEF At, Goto, Apply, registry, State, ConnOf, TurnOf, Types, Events, Ends,
            FinalizeEvent, Snapshot
<1>1. ASSUME NEW h \in Handlers, BindExistingRun(h)
      PROVE  (applied \in [Turns -> SUBSET Events])'
      BY <1>1 DEF BindExistingRun
<1>2. ASSUME NEW h \in Handlers, Rebound(h) PROVE (applied \in [Turns -> SUBSET Events])'
      BY <1>2 DEF Rebound
<1>3. ASSUME NEW h \in Handlers, RebindFails(h) PROVE (applied \in [Turns -> SUBSET Events])'
      BY <1>3 DEF RebindFails
<1>4. ASSUME NEW h \in Handlers, ReserveRun(h) PROVE (applied \in [Turns -> SUBSET Events])'
      BY <1>4 DEF ReserveRun
<1>5. ASSUME NEW h \in Handlers, CommitAction(h)
      PROVE  (applied \in [Turns -> SUBSET Events])'
      BY <1>5 DEF CommitAction, Commit, Assess
<1>6. ASSUME NEW x \in Handlers \cup {Client}, RecoverActiveTurn(x)
      PROVE  (applied \in [Turns -> SUBSET Events])'
      BY <1>6 DEF RecoverActiveTurn, NotRecovered
<1>7. ASSUME NEW h \in Handlers, ActivateRun(h) PROVE (applied \in [Turns -> SUBSET Events])'
      BY <1>7 DEF ActivateRun
<1>8. ASSUME NEW h \in Handlers, ExecuteRun(h) PROVE (applied \in [Turns -> SUBSET Events])'
      BY <1>8 DEF ExecuteRun
<1>9. ASSUME NEW h \in Handlers, RunTimesOut(h) PROVE (applied \in [Turns -> SUBSET Events])'
      BY <1>9 DEF RunTimesOut, Abort
<1>10. ASSUME NEW h \in Handlers, StartProcessing(h)
      PROVE  (applied \in [Turns -> SUBSET Events])'
      BY <1>10 DEF StartProcessing
<1>11. ASSUME NEW h \in Handlers, AgentEnds(h) PROVE (applied \in [Turns -> SUBSET Events])'
      BY <1>11 DEF AgentEnds, FinalizeRunResult, GotoSettling, Catch, Release, Unregister
<1>12. ASSUME NEW h \in Handlers, CompleteProcessing(h)
      PROVE  (applied \in [Turns -> SUBSET Events])'
      BY <1>12 DEF CompleteProcessing, Commit
<1>13. ASSUME NEW h \in Handlers, FinalizeCompleted(h)
      PROVE  (applied \in [Turns -> SUBSET Events])'
      BY <1>13 DEF FinalizeCompleted, Commit
<1>14. ASSUME NEW h \in Handlers, FinalizeUserStopped(h)
      PROVE  (applied \in [Turns -> SUBSET Events])'
      BY <1>14 DEF FinalizeUserStopped, Commit
<1>15. ASSUME NEW h \in Handlers, FinalizeTimeout(h)
      PROVE  (applied \in [Turns -> SUBSET Events])'
      BY <1>15 DEF FinalizeTimeout, Commit
<1>16. ASSUME NEW h \in Handlers, SettleFailedRun(h)
      PROVE  (applied \in [Turns -> SUBSET Events])'
      BY <1>16 DEF SettleFailedRun, Catch, Release, Unregister
<1>17. ASSUME NEW h \in Handlers, RejectInvalid(h)
      PROVE  (applied \in [Turns -> SUBSET Events])'
      BY <1>17 DEF RejectInvalid, Catch, Release, Unregister
<1>18. ASSUME NEW h \in Handlers, CommitCurrentFailure(h)
      PROVE  (applied \in [Turns -> SUBSET Events])'
      BY <1>18 DEF CommitCurrentFailure, Commit
<1>19. ASSUME NEW h \in Handlers, ReleaseRun(h) PROVE (applied \in [Turns -> SUBSET Events])'
      BY <1>19 DEF ReleaseRun, Release, Unregister
<1>20. ASSUME NEW h \in Handlers, NEW t \in Turns, NEW c \in Conns, Receive(h, t, c)
      PROVE  (applied \in [Turns -> SUBSET Events])'
      BY <1>20 DEF Receive
<1>21. ASSUME NEW t \in Turns, AcceptStop(t) PROVE (applied \in [Turns -> SUBSET Events])'
      BY <1>21 DEF AcceptStop, CommitStop
<1>22. ASSUME NEW t \in Turns, AbortRegisteredRun(t)
      PROVE  (applied \in [Turns -> SUBSET Events])'
      BY <1>22 DEF AbortRegisteredRun, Abort
<1>23. ASSUME NEW t \in Turns, CompleteIdleStop(t)
      PROVE  (applied \in [Turns -> SUBSET Events])'
      BY <1>23 DEF CompleteIdleStop, CommitStop
<1>24. CASE AssessTurnRecovery
      BY <1>24 DEF AssessTurnRecovery, Assess
<1>25. CASE RestartService
  <2>1. CASE UNCHANGED applied
        BY <2>1
  <2>2. CASE \E t \in Turns :
               /\ Open(t)
               /\ Apply(t, IF HasRecoverableFinalize(applied[t]) THEN FinalizeEvent(applied[t])
                           ELSE "FAILED")
        BY <2>2
  <2> QED
        BY <1>25, <2>1, <2>2 DEF RestartService
<1> QED
      BY <1>1, <1>2, <1>3, <1>4, <1>5, <1>6, <1>7, <1>8, <1>9, <1>10, <1>11, <1>12, <1>13,
         <1>14, <1>15, <1>16, <1>17, <1>18, <1>19, <1>20, <1>21, <1>22, <1>23, <1>24, <1>25
      DEF Next, HandlerStep, StopStep, ClientRecovers, AgentObeysAbort

LEMMA RegistryTyped ==
    ASSUME Types, LocalsFit, Next
    PROVE  (byTurn \in [Turns -> Runs] /\ byDialog \in [Turns -> Runs])'
<1> USE DEF At, Goto, Apply, registry, TurnOf, ConnOf, Types, Runs
<1>1. ASSUME NEW h \in Handlers, BindExistingRun(h)
      PROVE  (byTurn \in [Turns -> Runs] /\ byDialog \in [Turns -> Runs])'
      BY <1>1 DEF BindExistingRun
<1>2. ASSUME NEW h \in Handlers, Rebound(h)
      PROVE  (byTurn \in [Turns -> Runs] /\ byDialog \in [Turns -> Runs])'
      BY <1>2 DEF Rebound
<1>3. ASSUME NEW h \in Handlers, RebindFails(h)
      PROVE  (byTurn \in [Turns -> Runs] /\ byDialog \in [Turns -> Runs])'
      BY <1>3 DEF RebindFails
<1>4. ASSUME NEW h \in Handlers, ReserveRun(h)
      PROVE  (byTurn \in [Turns -> Runs] /\ byDialog \in [Turns -> Runs])'
      BY <1>4 DEF ReserveRun
<1>5. ASSUME NEW h \in Handlers, CommitAction(h)
      PROVE  (byTurn \in [Turns -> Runs] /\ byDialog \in [Turns -> Runs])'
      BY <1>5 DEF CommitAction, Commit, Assess
<1>6. ASSUME NEW x \in Handlers \cup {Client}, RecoverActiveTurn(x)
      PROVE  (byTurn \in [Turns -> Runs] /\ byDialog \in [Turns -> Runs])'
      BY <1>6 DEF RecoverActiveTurn, NotRecovered
<1>7. ASSUME NEW h \in Handlers, ActivateRun(h)
      PROVE  (byTurn \in [Turns -> Runs] /\ byDialog \in [Turns -> Runs])'
  <2>1. State(h).handle \in Runs
        BY <1>7, ConnectionParts DEF ActivateRun, LocalsFit, State
  <2> QED
        BY <1>7, <2>1 DEF ActivateRun
<1>8. ASSUME NEW h \in Handlers, ExecuteRun(h)
      PROVE  (byTurn \in [Turns -> Runs] /\ byDialog \in [Turns -> Runs])'
      BY <1>8 DEF ExecuteRun
<1>9. ASSUME NEW h \in Handlers, RunTimesOut(h)
      PROVE  (byTurn \in [Turns -> Runs] /\ byDialog \in [Turns -> Runs])'
      BY <1>9 DEF RunTimesOut, Abort
<1>10. ASSUME NEW h \in Handlers, StartProcessing(h)
      PROVE  (byTurn \in [Turns -> Runs] /\ byDialog \in [Turns -> Runs])'
      BY <1>10 DEF StartProcessing
<1>11. ASSUME NEW h \in Handlers, AgentEnds(h)
      PROVE  (byTurn \in [Turns -> Runs] /\ byDialog \in [Turns -> Runs])'
      BY <1>11 DEF AgentEnds, FinalizeRunResult, GotoSettling, Catch, Release, Unregister
<1>12. ASSUME NEW h \in Handlers, CompleteProcessing(h)
      PROVE  (byTurn \in [Turns -> Runs] /\ byDialog \in [Turns -> Runs])'
      BY <1>12 DEF CompleteProcessing, Commit
<1>13. ASSUME NEW h \in Handlers, FinalizeCompleted(h)
      PROVE  (byTurn \in [Turns -> Runs] /\ byDialog \in [Turns -> Runs])'
      BY <1>13 DEF FinalizeCompleted, Commit
<1>14. ASSUME NEW h \in Handlers, FinalizeUserStopped(h)
      PROVE  (byTurn \in [Turns -> Runs] /\ byDialog \in [Turns -> Runs])'
      BY <1>14 DEF FinalizeUserStopped, Commit
<1>15. ASSUME NEW h \in Handlers, FinalizeTimeout(h)
      PROVE  (byTurn \in [Turns -> Runs] /\ byDialog \in [Turns -> Runs])'
      BY <1>15 DEF FinalizeTimeout, Commit
<1>16. ASSUME NEW h \in Handlers, SettleFailedRun(h)
      PROVE  (byTurn \in [Turns -> Runs] /\ byDialog \in [Turns -> Runs])'
      BY <1>16 DEF SettleFailedRun, Catch, Release, Unregister
<1>17. ASSUME NEW h \in Handlers, RejectInvalid(h)
      PROVE  (byTurn \in [Turns -> Runs] /\ byDialog \in [Turns -> Runs])'
      BY <1>17 DEF RejectInvalid, Catch, Release, Unregister
<1>18. ASSUME NEW h \in Handlers, CommitCurrentFailure(h)
      PROVE  (byTurn \in [Turns -> Runs] /\ byDialog \in [Turns -> Runs])'
      BY <1>18 DEF CommitCurrentFailure, Commit
<1>19. ASSUME NEW h \in Handlers, ReleaseRun(h)
      PROVE  (byTurn \in [Turns -> Runs] /\ byDialog \in [Turns -> Runs])'
      BY <1>19 DEF ReleaseRun, Release, Unregister
<1>20. ASSUME NEW h \in Handlers, NEW t \in Turns, NEW c \in Conns, Receive(h, t, c)
      PROVE  (byTurn \in [Turns -> Runs] /\ byDialog \in [Turns -> Runs])'
      BY <1>20 DEF Receive
<1>21. ASSUME NEW t \in Turns, AcceptStop(t)
      PROVE  (byTurn \in [Turns -> Runs] /\ byDialog \in [Turns -> Runs])'
      BY <1>21 DEF AcceptStop, CommitStop
<1>22. ASSUME NEW t \in Turns, AbortRegisteredRun(t)
      PROVE  (byTurn \in [Turns -> Runs] /\ byDialog \in [Turns -> Runs])'
      BY <1>22 DEF AbortRegisteredRun, Abort
<1>23. ASSUME NEW t \in Turns, CompleteIdleStop(t)
      PROVE  (byTurn \in [Turns -> Runs] /\ byDialog \in [Turns -> Runs])'
      BY <1>23 DEF CompleteIdleStop, CommitStop
<1>24. CASE AssessTurnRecovery
      BY <1>24 DEF AssessTurnRecovery, Assess
<1>25. CASE RestartService
  <2>1. \A t \in Turns : byTurn'[t] = NoRun /\ byDialog'[t] = NoRun
        BY <1>25 DEF RestartService
  <2> QED
        BY <1>25, <2>1 DEF RestartService, Runs
<1> QED
      BY <1>1, <1>2, <1>3, <1>4, <1>5, <1>6, <1>7, <1>8, <1>9, <1>10, <1>11, <1>12, <1>13,
         <1>14, <1>15, <1>16, <1>17, <1>18, <1>19, <1>20, <1>21, <1>22, <1>23, <1>24, <1>25
      DEF Next, HandlerStep, StopStep, ClientRecovers, AgentObeysAbort

LEMMA AbortsTyped ==
    ASSUME Types, Next
    PROVE  (aborted \in [Handlers -> {"no", "stop", "timeout"}])'
<1> USE DEF At, Goto, Apply, registry, Types, Runs
<1>1. ASSUME NEW h \in Handlers, BindExistingRun(h)
      PROVE  (aborted \in [Handlers -> {"no", "stop", "timeout"}])'
      BY <1>1 DEF BindExistingRun
<1>2. ASSUME NEW h \in Handlers, Rebound(h)
      PROVE  (aborted \in [Handlers -> {"no", "stop", "timeout"}])'
      BY <1>2 DEF Rebound
<1>3. ASSUME NEW h \in Handlers, RebindFails(h)
      PROVE  (aborted \in [Handlers -> {"no", "stop", "timeout"}])'
      BY <1>3 DEF RebindFails
<1>4. ASSUME NEW h \in Handlers, ReserveRun(h)
      PROVE  (aborted \in [Handlers -> {"no", "stop", "timeout"}])'
      BY <1>4 DEF ReserveRun
<1>5. ASSUME NEW h \in Handlers, CommitAction(h)
      PROVE  (aborted \in [Handlers -> {"no", "stop", "timeout"}])'
      BY <1>5 DEF CommitAction, Commit, Assess
<1>6. ASSUME NEW x \in Handlers \cup {Client}, RecoverActiveTurn(x)
      PROVE  (aborted \in [Handlers -> {"no", "stop", "timeout"}])'
      BY <1>6 DEF RecoverActiveTurn, NotRecovered
<1>7. ASSUME NEW h \in Handlers, ActivateRun(h)
      PROVE  (aborted \in [Handlers -> {"no", "stop", "timeout"}])'
      BY <1>7 DEF ActivateRun
<1>8. ASSUME NEW h \in Handlers, ExecuteRun(h)
      PROVE  (aborted \in [Handlers -> {"no", "stop", "timeout"}])'
      BY <1>8 DEF ExecuteRun
<1>9. ASSUME NEW h \in Handlers, RunTimesOut(h)
      PROVE  (aborted \in [Handlers -> {"no", "stop", "timeout"}])'
      BY <1>9 DEF RunTimesOut, Abort
<1>10. ASSUME NEW h \in Handlers, StartProcessing(h)
      PROVE  (aborted \in [Handlers -> {"no", "stop", "timeout"}])'
      BY <1>10 DEF StartProcessing
<1>11. ASSUME NEW h \in Handlers, AgentEnds(h)
      PROVE  (aborted \in [Handlers -> {"no", "stop", "timeout"}])'
      BY <1>11 DEF AgentEnds, FinalizeRunResult, GotoSettling, Catch, Release, Unregister
<1>12. ASSUME NEW h \in Handlers, CompleteProcessing(h)
      PROVE  (aborted \in [Handlers -> {"no", "stop", "timeout"}])'
      BY <1>12 DEF CompleteProcessing, Commit
<1>13. ASSUME NEW h \in Handlers, FinalizeCompleted(h)
      PROVE  (aborted \in [Handlers -> {"no", "stop", "timeout"}])'
      BY <1>13 DEF FinalizeCompleted, Commit
<1>14. ASSUME NEW h \in Handlers, FinalizeUserStopped(h)
      PROVE  (aborted \in [Handlers -> {"no", "stop", "timeout"}])'
      BY <1>14 DEF FinalizeUserStopped, Commit
<1>15. ASSUME NEW h \in Handlers, FinalizeTimeout(h)
      PROVE  (aborted \in [Handlers -> {"no", "stop", "timeout"}])'
      BY <1>15 DEF FinalizeTimeout, Commit
<1>16. ASSUME NEW h \in Handlers, SettleFailedRun(h)
      PROVE  (aborted \in [Handlers -> {"no", "stop", "timeout"}])'
      BY <1>16 DEF SettleFailedRun, Catch, Release, Unregister
<1>17. ASSUME NEW h \in Handlers, RejectInvalid(h)
      PROVE  (aborted \in [Handlers -> {"no", "stop", "timeout"}])'
      BY <1>17 DEF RejectInvalid, Catch, Release, Unregister
<1>18. ASSUME NEW h \in Handlers, CommitCurrentFailure(h)
      PROVE  (aborted \in [Handlers -> {"no", "stop", "timeout"}])'
      BY <1>18 DEF CommitCurrentFailure, Commit
<1>19. ASSUME NEW h \in Handlers, ReleaseRun(h)
      PROVE  (aborted \in [Handlers -> {"no", "stop", "timeout"}])'
      BY <1>19 DEF ReleaseRun, Release, Unregister
<1>20. ASSUME NEW h \in Handlers, NEW t \in Turns, NEW c \in Conns, Receive(h, t, c)
      PROVE  (aborted \in [Handlers -> {"no", "stop", "timeout"}])'
      BY <1>20 DEF Receive
<1>21. ASSUME NEW t \in Turns, AcceptStop(t)
      PROVE  (aborted \in [Handlers -> {"no", "stop", "timeout"}])'
      BY <1>21 DEF AcceptStop, CommitStop
<1>22. ASSUME NEW t \in Turns, AbortRegisteredRun(t)
      PROVE  (aborted \in [Handlers -> {"no", "stop", "timeout"}])'
      BY <1>22 DEF AbortRegisteredRun, Abort
<1>23. ASSUME NEW t \in Turns, CompleteIdleStop(t)
      PROVE  (aborted \in [Handlers -> {"no", "stop", "timeout"}])'
      BY <1>23 DEF CompleteIdleStop, CommitStop
<1>24. CASE AssessTurnRecovery
      BY <1>24 DEF AssessTurnRecovery, Assess
<1>25. CASE RestartService
      BY <1>25 DEF RestartService
<1> QED
      BY <1>1, <1>2, <1>3, <1>4, <1>5, <1>6, <1>7, <1>8, <1>9, <1>10, <1>11, <1>12, <1>13,
         <1>14, <1>15, <1>16, <1>17, <1>18, <1>19, <1>20, <1>21, <1>22, <1>23, <1>24, <1>25
      DEF Next, HandlerStep, StopStep, ClientRecovers, AgentObeysAbort

LEMMA StagesTyped ==
    ASSUME Types, Next
    PROVE  (stage \in [Handlers \cup {Client} -> Stages])'
<1> USE DEF At, Goto, Apply, registry, Types, Stages
<1>1. ASSUME NEW h \in Handlers, BindExistingRun(h)
      PROVE  (stage \in [Handlers \cup {Client} -> Stages])'
      BY <1>1 DEF BindExistingRun
<1>2. ASSUME NEW h \in Handlers, Rebound(h)
      PROVE  (stage \in [Handlers \cup {Client} -> Stages])'
      BY <1>2 DEF Rebound
<1>3. ASSUME NEW h \in Handlers, RebindFails(h)
      PROVE  (stage \in [Handlers \cup {Client} -> Stages])'
      BY <1>3 DEF RebindFails
<1>4. ASSUME NEW h \in Handlers, ReserveRun(h)
      PROVE  (stage \in [Handlers \cup {Client} -> Stages])'
      BY <1>4 DEF ReserveRun
<1>5. ASSUME NEW h \in Handlers, CommitAction(h)
      PROVE  (stage \in [Handlers \cup {Client} -> Stages])'
      BY <1>5 DEF CommitAction, Commit, Assess
<1>6. ASSUME NEW x \in Handlers \cup {Client}, RecoverActiveTurn(x)
      PROVE  (stage \in [Handlers \cup {Client} -> Stages])'
      BY <1>6 DEF RecoverActiveTurn, NotRecovered
<1>7. ASSUME NEW h \in Handlers, ActivateRun(h)
      PROVE  (stage \in [Handlers \cup {Client} -> Stages])'
      BY <1>7 DEF ActivateRun
<1>8. ASSUME NEW h \in Handlers, ExecuteRun(h)
      PROVE  (stage \in [Handlers \cup {Client} -> Stages])'
      BY <1>8 DEF ExecuteRun
<1>9. ASSUME NEW h \in Handlers, RunTimesOut(h)
      PROVE  (stage \in [Handlers \cup {Client} -> Stages])'
      BY <1>9 DEF RunTimesOut, Abort
<1>10. ASSUME NEW h \in Handlers, StartProcessing(h)
      PROVE  (stage \in [Handlers \cup {Client} -> Stages])'
      BY <1>10 DEF StartProcessing
<1>11. ASSUME NEW h \in Handlers, AgentEnds(h)
      PROVE  (stage \in [Handlers \cup {Client} -> Stages])'
      BY <1>11 DEF AgentEnds, FinalizeRunResult, GotoSettling, Catch, Release, Unregister
<1>12. ASSUME NEW h \in Handlers, CompleteProcessing(h)
      PROVE  (stage \in [Handlers \cup {Client} -> Stages])'
      BY <1>12 DEF CompleteProcessing, Commit
<1>13. ASSUME NEW h \in Handlers, FinalizeCompleted(h)
      PROVE  (stage \in [Handlers \cup {Client} -> Stages])'
      BY <1>13 DEF FinalizeCompleted, Commit
<1>14. ASSUME NEW h \in Handlers, FinalizeUserStopped(h)
      PROVE  (stage \in [Handlers \cup {Client} -> Stages])'
      BY <1>14 DEF FinalizeUserStopped, Commit
<1>15. ASSUME NEW h \in Handlers, FinalizeTimeout(h)
      PROVE  (stage \in [Handlers \cup {Client} -> Stages])'
      BY <1>15 DEF FinalizeTimeout, Commit
<1>16. ASSUME NEW h \in Handlers, SettleFailedRun(h)
      PROVE  (stage \in [Handlers \cup {Client} -> Stages])'
      BY <1>16 DEF SettleFailedRun, Catch, Release, Unregister
<1>17. ASSUME NEW h \in Handlers, RejectInvalid(h)
      PROVE  (stage \in [Handlers \cup {Client} -> Stages])'
      BY <1>17 DEF RejectInvalid, Catch, Release, Unregister
<1>18. ASSUME NEW h \in Handlers, CommitCurrentFailure(h)
      PROVE  (stage \in [Handlers \cup {Client} -> Stages])'
      BY <1>18 DEF CommitCurrentFailure, Commit
<1>19. ASSUME NEW h \in Handlers, ReleaseRun(h)
      PROVE  (stage \in [Handlers \cup {Client} -> Stages])'
      BY <1>19 DEF ReleaseRun, Release, Unregister
<1>20. ASSUME NEW h \in Handlers, NEW t \in Turns, NEW c \in Conns, Receive(h, t, c)
      PROVE  (stage \in [Handlers \cup {Client} -> Stages])'
      BY <1>20 DEF Receive
<1>21. ASSUME NEW t \in Turns, AcceptStop(t)
      PROVE  (stage \in [Handlers \cup {Client} -> Stages])'
      BY <1>21 DEF AcceptStop, CommitStop
<1>22. ASSUME NEW t \in Turns, AbortRegisteredRun(t)
      PROVE  (stage \in [Handlers \cup {Client} -> Stages])'
      BY <1>22 DEF AbortRegisteredRun, Abort
<1>23. ASSUME NEW t \in Turns, CompleteIdleStop(t)
      PROVE  (stage \in [Handlers \cup {Client} -> Stages])'
      BY <1>23 DEF CompleteIdleStop, CommitStop
<1>24. CASE AssessTurnRecovery
      BY <1>24 DEF AssessTurnRecovery, Assess
<1>25. CASE RestartService
      BY <1>25 DEF RestartService
<1> QED
      BY <1>1, <1>2, <1>3, <1>4, <1>5, <1>6, <1>7, <1>8, <1>9, <1>10, <1>11, <1>12, <1>13,
         <1>14, <1>15, <1>16, <1>17, <1>18, <1>19, <1>20, <1>21, <1>22, <1>23, <1>24, <1>25
      DEF Next, HandlerStep, StopStep, ClientRecovers, AgentObeysAbort

LEMMA SnapsTyped ==
    ASSUME Types, Next
    PROVE  (snap \in [Handlers \cup {Client} -> Snapshot])'
<1> USE DEF At, Goto, Apply, registry, Types, Snapshot, NoSnapshot, Events, Ends,
            FinalizeEvent
<1>1. ASSUME NEW h \in Handlers, BindExistingRun(h)
      PROVE  (snap \in [Handlers \cup {Client} -> Snapshot])'
      BY <1>1 DEF BindExistingRun
<1>2. ASSUME NEW h \in Handlers, Rebound(h)
      PROVE  (snap \in [Handlers \cup {Client} -> Snapshot])'
      BY <1>2 DEF Rebound
<1>3. ASSUME NEW h \in Handlers, RebindFails(h)
      PROVE  (snap \in [Handlers \cup {Client} -> Snapshot])'
      BY <1>3 DEF RebindFails
<1>4. ASSUME NEW h \in Handlers, ReserveRun(h)
      PROVE  (snap \in [Handlers \cup {Client} -> Snapshot])'
      BY <1>4 DEF ReserveRun
<1>5. ASSUME NEW h \in Handlers, CommitAction(h)
      PROVE  (snap \in [Handlers \cup {Client} -> Snapshot])'
      BY <1>5 DEF CommitAction, Commit, Assess
<1>6. ASSUME NEW x \in Handlers \cup {Client}, RecoverActiveTurn(x)
      PROVE  (snap \in [Handlers \cup {Client} -> Snapshot])'
      BY <1>6 DEF RecoverActiveTurn, NotRecovered
<1>7. ASSUME NEW h \in Handlers, ActivateRun(h)
      PROVE  (snap \in [Handlers \cup {Client} -> Snapshot])'
      BY <1>7 DEF ActivateRun
<1>8. ASSUME NEW h \in Handlers, ExecuteRun(h)
      PROVE  (snap \in [Handlers \cup {Client} -> Snapshot])'
      BY <1>8 DEF ExecuteRun
<1>9. ASSUME NEW h \in Handlers, RunTimesOut(h)
      PROVE  (snap \in [Handlers \cup {Client} -> Snapshot])'
      BY <1>9 DEF RunTimesOut, Abort
<1>10. ASSUME NEW h \in Handlers, StartProcessing(h)
      PROVE  (snap \in [Handlers \cup {Client} -> Snapshot])'
      BY <1>10 DEF StartProcessing
<1>11. ASSUME NEW h \in Handlers, AgentEnds(h)
      PROVE  (snap \in [Handlers \cup {Client} -> Snapshot])'
      BY <1>11 DEF AgentEnds, FinalizeRunResult, GotoSettling, Catch, Release, Unregister
<1>12. ASSUME NEW h \in Handlers, CompleteProcessing(h)
      PROVE  (snap \in [Handlers \cup {Client} -> Snapshot])'
      BY <1>12 DEF CompleteProcessing, Commit
<1>13. ASSUME NEW h \in Handlers, FinalizeCompleted(h)
      PROVE  (snap \in [Handlers \cup {Client} -> Snapshot])'
      BY <1>13 DEF FinalizeCompleted, Commit
<1>14. ASSUME NEW h \in Handlers, FinalizeUserStopped(h)
      PROVE  (snap \in [Handlers \cup {Client} -> Snapshot])'
      BY <1>14 DEF FinalizeUserStopped, Commit
<1>15. ASSUME NEW h \in Handlers, FinalizeTimeout(h)
      PROVE  (snap \in [Handlers \cup {Client} -> Snapshot])'
      BY <1>15 DEF FinalizeTimeout, Commit
<1>16. ASSUME NEW h \in Handlers, SettleFailedRun(h)
      PROVE  (snap \in [Handlers \cup {Client} -> Snapshot])'
      BY <1>16 DEF SettleFailedRun, Catch, Release, Unregister
<1>17. ASSUME NEW h \in Handlers, RejectInvalid(h)
      PROVE  (snap \in [Handlers \cup {Client} -> Snapshot])'
      BY <1>17 DEF RejectInvalid, Catch, Release, Unregister
<1>18. ASSUME NEW h \in Handlers, CommitCurrentFailure(h)
      PROVE  (snap \in [Handlers \cup {Client} -> Snapshot])'
      BY <1>18 DEF CommitCurrentFailure, Commit
<1>19. ASSUME NEW h \in Handlers, ReleaseRun(h)
      PROVE  (snap \in [Handlers \cup {Client} -> Snapshot])'
      BY <1>19 DEF ReleaseRun, Release, Unregister
<1>20. ASSUME NEW h \in Handlers, NEW t \in Turns, NEW c \in Conns, Receive(h, t, c)
      PROVE  (snap \in [Handlers \cup {Client} -> Snapshot])'
      BY <1>20 DEF Receive
<1>21. ASSUME NEW t \in Turns, AcceptStop(t)
      PROVE  (snap \in [Handlers \cup {Client} -> Snapshot])'
      BY <1>21 DEF AcceptStop, CommitStop
<1>22. ASSUME NEW t \in Turns, AbortRegisteredRun(t)
      PROVE  (snap \in [Handlers \cup {Client} -> Snapshot])'
      BY <1>22 DEF AbortRegisteredRun, Abort
<1>23. ASSUME NEW t \in Turns, CompleteIdleStop(t)
      PROVE  (snap \in [Handlers \cup {Client} -> Snapshot])'
      BY <1>23 DEF CompleteIdleStop, CommitStop
<1>24. CASE AssessTurnRecovery
      BY <1>24 DEF AssessTurnRecovery, Assess
<1>25. CASE RestartService
      BY <1>25 DEF RestartService
<1> QED
      BY <1>1, <1>2, <1>3, <1>4, <1>5, <1>6, <1>7, <1>8, <1>9, <1>10, <1>11, <1>12, <1>13,
         <1>14, <1>15, <1>16, <1>17, <1>18, <1>19, <1>20, <1>21, <1>22, <1>23, <1>24, <1>25
      DEF Next, HandlerStep, StopStep, ClientRecovers, AgentObeysAbort

RestOfTypes ==
    /\ timers \subseteq Handlers /\ stop \in [Turns -> StopStages]
    /\ mishaps \in 0..MaxMishaps /\ overlapped \in BOOLEAN

LEMMA RestTyped ==
    ASSUME Types, Next
    PROVE  RestOfTypes'
<1> USE DEF At, Goto, Apply, registry, Types, RestOfTypes, StopStages
<1>1. ASSUME NEW h \in Handlers, BindExistingRun(h) PROVE RestOfTypes'
      BY <1>1, BoundsAssumption DEF BindExistingRun
<1>2. ASSUME NEW h \in Handlers, Rebound(h) PROVE RestOfTypes'
      BY <1>2, BoundsAssumption DEF Rebound
<1>3. ASSUME NEW h \in Handlers, RebindFails(h) PROVE RestOfTypes'
      BY <1>3, BoundsAssumption DEF RebindFails
<1>4. ASSUME NEW h \in Handlers, ReserveRun(h) PROVE RestOfTypes'
      BY <1>4, BoundsAssumption DEF ReserveRun
<1>5. ASSUME NEW h \in Handlers, CommitAction(h) PROVE RestOfTypes'
      BY <1>5, BoundsAssumption DEF CommitAction, Commit, Assess
<1>6. ASSUME NEW x \in Handlers \cup {Client}, RecoverActiveTurn(x) PROVE RestOfTypes'
      BY <1>6, BoundsAssumption DEF RecoverActiveTurn, NotRecovered
<1>7. ASSUME NEW h \in Handlers, ActivateRun(h) PROVE RestOfTypes'
      BY <1>7, BoundsAssumption DEF ActivateRun
<1>8. ASSUME NEW h \in Handlers, ExecuteRun(h) PROVE RestOfTypes'
      BY <1>8, BoundsAssumption DEF ExecuteRun
<1>9. ASSUME NEW h \in Handlers, RunTimesOut(h) PROVE RestOfTypes'
      BY <1>9, BoundsAssumption DEF RunTimesOut, Abort
<1>10. ASSUME NEW h \in Handlers, StartProcessing(h) PROVE RestOfTypes'
      BY <1>10, BoundsAssumption DEF StartProcessing
<1>11. ASSUME NEW h \in Handlers, AgentEnds(h) PROVE RestOfTypes'
      BY <1>11, BoundsAssumption
      DEF AgentEnds, FinalizeRunResult, GotoSettling, Catch, Release, Unregister
<1>12. ASSUME NEW h \in Handlers, CompleteProcessing(h) PROVE RestOfTypes'
      BY <1>12, BoundsAssumption DEF CompleteProcessing, Commit
<1>13. ASSUME NEW h \in Handlers, FinalizeCompleted(h) PROVE RestOfTypes'
      BY <1>13, BoundsAssumption DEF FinalizeCompleted, Commit
<1>14. ASSUME NEW h \in Handlers, FinalizeUserStopped(h) PROVE RestOfTypes'
      BY <1>14, BoundsAssumption DEF FinalizeUserStopped, Commit
<1>15. ASSUME NEW h \in Handlers, FinalizeTimeout(h) PROVE RestOfTypes'
      BY <1>15, BoundsAssumption DEF FinalizeTimeout, Commit
<1>16. ASSUME NEW h \in Handlers, SettleFailedRun(h) PROVE RestOfTypes'
      BY <1>16, BoundsAssumption DEF SettleFailedRun, Catch, Release, Unregister
<1>17. ASSUME NEW h \in Handlers, RejectInvalid(h) PROVE RestOfTypes'
      BY <1>17, BoundsAssumption DEF RejectInvalid, Catch, Release, Unregister
<1>18. ASSUME NEW h \in Handlers, CommitCurrentFailure(h) PROVE RestOfTypes'
      BY <1>18, BoundsAssumption DEF CommitCurrentFailure, Commit
<1>19. ASSUME NEW h \in Handlers, ReleaseRun(h) PROVE RestOfTypes'
      BY <1>19, BoundsAssumption DEF ReleaseRun, Release, Unregister
<1>20. ASSUME NEW h \in Handlers, NEW t \in Turns, NEW c \in Conns, Receive(h, t, c)
      PROVE  RestOfTypes'
  <2>1. mishaps' \in 0..MaxMishaps /\ overlapped' \in BOOLEAN
        <3>1. CASE mishaps < MaxMishaps /\ mishaps' = mishaps + 1 /\ overlapped' = TRUE
              BY <3>1, BoundsAssumption
        <3>2. CASE UNCHANGED <<mishaps, overlapped>>
              BY <3>2
        <3> QED
              BY <1>20, <3>1, <3>2 DEF Receive
  <2> QED
        BY <1>20, <2>1 DEF Receive
<1>21. ASSUME NEW t \in Turns, AcceptStop(t) PROVE RestOfTypes'
      BY <1>21, BoundsAssumption DEF AcceptStop, CommitStop
<1>22. ASSUME NEW t \in Turns, AbortRegisteredRun(t) PROVE RestOfTypes'
      BY <1>22, BoundsAssumption DEF AbortRegisteredRun, Abort
<1>23. ASSUME NEW t \in Turns, CompleteIdleStop(t) PROVE RestOfTypes'
      BY <1>23, BoundsAssumption DEF CompleteIdleStop, CommitStop
<1>24. CASE AssessTurnRecovery
      BY <1>24, BoundsAssumption DEF AssessTurnRecovery, Assess
<1>25. CASE RestartService
      BY <1>25, BoundsAssumption DEF RestartService
<1> QED
      BY <1>1, <1>2, <1>3, <1>4, <1>5, <1>6, <1>7, <1>8, <1>9, <1>10, <1>11, <1>12, <1>13,
         <1>14, <1>15, <1>16, <1>17, <1>18, <1>19, <1>20, <1>21, <1>22, <1>23, <1>24, <1>25
      DEF Next, HandlerStep, StopStep, ClientRecovers, AgentObeysAbort

LEMMA NextTypes ==
    ASSUME Types, LocalsFit, Next
    PROVE  Types'
BY AppliedTyped, RegistryTyped, AbortsTyped, ConnTyped, StagesTyped, RunTyped, SnapsTyped,
   RestTyped, LostTyped
   DEF Types, RestOfTypes

LEMMA LocalsStayFit ==
    ASSUME Types, LocalsFit, Next
    PROVE  LocalsFit'
<1> USE DEF At, Goto, Apply, registry, Types, LocalsFit, ConnOf, TurnOf, Fresh, Settling,
            Locals
<1>1. ASSUME NEW h \in Handlers, BindExistingRun(h) PROVE LocalsFit'
      BY <1>1 DEF BindExistingRun, CanBind
<1>2. ASSUME NEW h \in Handlers, Rebound(h) PROVE LocalsFit'
      BY <1>2 DEF Rebound
<1>3. ASSUME NEW h \in Handlers, RebindFails(h) PROVE LocalsFit'
      BY <1>3 DEF RebindFails
<1>4. ASSUME NEW h \in Handlers, ReserveRun(h) PROVE LocalsFit'
      BY <1>4 DEF ReserveRun
<1>5. ASSUME NEW h \in Handlers, CommitAction(h) PROVE LocalsFit'
      BY <1>5 DEF CommitAction, Commit, Assess
<1>6. ASSUME NEW x \in Handlers \cup {Client}, RecoverActiveTurn(x) PROVE LocalsFit'
  <2>1. \A g \in Handlers : g # x => stage'[g] = stage[g]
        BY <1>6 DEF RecoverActiveTurn, NotRecovered
  <2>2. x \in Handlers => stage'[x] \in {"retrying", "caught"} /\ stage[x] = "recovering"
        BY <1>6, HandlersAssumption DEF RecoverActiveTurn, NotRecovered
  <2> QED
        BY <1>6, <2>1, <2>2 DEF RecoverActiveTurn
<1>7. ASSUME NEW h \in Handlers, ActivateRun(h) PROVE LocalsFit'
      BY <1>7 DEF ActivateRun
<1>8. ASSUME NEW h \in Handlers, ExecuteRun(h) PROVE LocalsFit'
      BY <1>8 DEF ExecuteRun
<1>9. ASSUME NEW h \in Handlers, RunTimesOut(h) PROVE LocalsFit'
      BY <1>9 DEF RunTimesOut, Abort
<1>10. ASSUME NEW h \in Handlers, StartProcessing(h) PROVE LocalsFit'
  <2>1. run'[h].turn = run[h].turn /\ run'[h].conn = run[h].conn /\ run'[h].bound = run[h].bound
        BY <1>10 DEF StartProcessing
  <2>2. \A g \in Handlers : g # h => run'[g] = run[g]
        BY <1>10 DEF StartProcessing
  <2> QED
        BY <1>10, <2>1, <2>2 DEF StartProcessing
<1>11. ASSUME NEW h \in Handlers, AgentEnds(h) PROVE LocalsFit'
  <2>1. CASE FinalizeRunResult(h)
    <3>1. CASE GotoSettling(h, "timingOut") \/ GotoSettling(h, "stopping")
      <4>1. State(h).meta \in Turns \cup {NoTurn}
            BY <1>11, ConnectionParts DEF AgentEnds, State
      <4>2. run' = [run EXCEPT ![h].target = State(h).meta]
            BY <3>1 DEF GotoSettling
      <4>3. CASE State(h).meta = NoTurn /\ Goto(h, "caught")
            BY <1>11, <4>1, <4>2, <4>3 DEF AgentEnds
      <4>4. CASE State(h).meta \in Turns /\ \E s \in {"timingOut", "stopping"} : Goto(h, s)
            BY <1>11, <4>2, <4>4 DEF AgentEnds
      <4> QED
            BY <3>1, <4>1, <4>3, <4>4, TurnsAssumption DEF GotoSettling
    <3>2. CASE Goto(h, "completing") /\ UNCHANGED run
          BY <1>11, <3>2 DEF AgentEnds
    <3> QED
          BY <2>1, <3>1, <3>2 DEF FinalizeRunResult
  <2>2. ASSUME Catch(h), stage[h] \notin {"idle", "done"} PROVE LocalsFit'
    <3>1. CASE Release(h)
          BY <2>2, <3>1 DEF Release, Ended, NoLocals
    <3>2. CASE /\ State(h).meta # NoTurn
               /\ run' = [run EXCEPT ![h].settling = TRUE, ![h].target = State(h).meta]
               /\ \E s \in {"failing", "timingOut", "stopping"} : Goto(h, s)
      <4>1. State(h).meta \in Turns
            BY <2>2, <3>2, ConnectionParts DEF State
      <4> QED
            BY <2>2, <3>2, <4>1
    <3> QED
          BY <2>2, <3>1, <3>2 DEF Catch
  <2> QED
        BY <1>11, <2>1, <2>2 DEF AgentEnds
<1>12. ASSUME NEW h \in Handlers, CompleteProcessing(h) PROVE LocalsFit'
  <2>1. State(h).meta \in Turns \cup {NoTurn}
        BY <1>12, ConnectionParts DEF CompleteProcessing, State
  <2> QED
        BY <1>12, <2>1 DEF CompleteProcessing, Commit
<1>13. ASSUME NEW h \in Handlers, FinalizeCompleted(h) PROVE LocalsFit'
      BY <1>13 DEF FinalizeCompleted, Commit
<1>14. ASSUME NEW h \in Handlers, FinalizeUserStopped(h) PROVE LocalsFit'
      BY <1>14 DEF FinalizeUserStopped, Commit
<1>15. ASSUME NEW h \in Handlers, FinalizeTimeout(h) PROVE LocalsFit'
      BY <1>15 DEF FinalizeTimeout, Commit
<1>16. ASSUME NEW h \in Handlers, SettleFailedRun(h) PROVE LocalsFit'
  <2>1. ASSUME Catch(h), stage[h] \notin {"idle", "done"} PROVE LocalsFit'
    <3>1. CASE Release(h)
          BY <2>1, <3>1 DEF Release, Ended, NoLocals
    <3>2. CASE /\ State(h).meta # NoTurn
               /\ run' = [run EXCEPT ![h].settling = TRUE, ![h].target = State(h).meta]
               /\ \E s \in {"failing", "timingOut", "stopping"} : Goto(h, s)
      <4>1. State(h).meta \in Turns
            BY <2>1, <3>2, ConnectionParts DEF State
      <4> QED
            BY <2>1, <3>2, <4>1
    <3> QED
          BY <2>1, <3>1, <3>2 DEF Catch
  <2> QED
        BY <1>16, <2>1 DEF SettleFailedRun
<1>17. ASSUME NEW h \in Handlers, RejectInvalid(h) PROVE LocalsFit'
  <2>1. ASSUME Catch(h), stage[h] \notin {"idle", "done"} PROVE LocalsFit'
    <3>1. CASE Release(h)
          BY <2>1, <3>1 DEF Release, Ended, NoLocals
    <3>2. CASE /\ State(h).meta # NoTurn
               /\ run' = [run EXCEPT ![h].settling = TRUE, ![h].target = State(h).meta]
               /\ \E s \in {"failing", "timingOut", "stopping"} : Goto(h, s)
      <4>1. State(h).meta \in Turns
            BY <2>1, <3>2, ConnectionParts DEF State
      <4> QED
            BY <2>1, <3>2, <4>1
    <3> QED
          BY <2>1, <3>1, <3>2 DEF Catch
  <2> QED
        BY <1>17, <2>1 DEF RejectInvalid
<1>18. ASSUME NEW h \in Handlers, CommitCurrentFailure(h) PROVE LocalsFit'
      BY <1>18 DEF CommitCurrentFailure, Commit
<1>19. ASSUME NEW h \in Handlers, ReleaseRun(h) PROVE LocalsFit'
      BY <1>19 DEF ReleaseRun, Release, Ended, NoLocals
<1>20. ASSUME NEW h \in Handlers, NEW t \in Turns, NEW c \in Conns, Receive(h, t, c)
      PROVE  LocalsFit'
      BY <1>20 DEF Receive
<1>21. ASSUME NEW t \in Turns, AcceptStop(t) PROVE LocalsFit'
      BY <1>21 DEF AcceptStop, CommitStop
<1>22. ASSUME NEW t \in Turns, AbortRegisteredRun(t) PROVE LocalsFit'
      BY <1>22 DEF AbortRegisteredRun, Abort
<1>23. ASSUME NEW t \in Turns, CompleteIdleStop(t) PROVE LocalsFit'
      BY <1>23 DEF CompleteIdleStop, CommitStop
<1>24. CASE AssessTurnRecovery
      BY <1>24, HandlersAssumption DEF AssessTurnRecovery, Assess
<1>25. CASE RestartService
  <2>1. \A h \in Handlers : stage'[h] \in {"idle", "done"} /\ (stage'[h] = "idle" <=> stage[h] = "idle")
        BY <1>25, HandlersAssumption DEF RestartService
  <2>2. \A h \in Handlers : run'[h].bound = NoRun
        BY <1>25 DEF RestartService, Ended, NoLocals
  <2> QED
        BY <2>1, <2>2
<1> QED
      BY <1>1, <1>2, <1>3, <1>4, <1>5, <1>6, <1>7, <1>8, <1>9, <1>10, <1>11, <1>12, <1>13,
         <1>14, <1>15, <1>16, <1>17, <1>18, <1>19, <1>20, <1>21, <1>22, <1>23, <1>24, <1>25
      DEF Next, HandlerStep, StopStep, ClientRecovers, AgentObeysAbort

(***************************************************************************)
(* How a handler gets to its end: it releases what it holds, it settles    *)
(* the turn its connection names, or its agent has ended and the result is *)
(* about to be committed.                                                  *)
(***************************************************************************)
HandlerEnds(h) == AgentEnds(h) \/ SettleFailedRun(h) \/ RejectInvalid(h) \/ ReleaseRun(h)

Settles(h) ==
    /\ State(h).meta \in Turns
    /\ run' = [run EXCEPT ![h].settling = TRUE, ![h].target = State(h).meta]
    /\ \E s \in {"failing", "timingOut", "stopping"} : Goto(h, s)
    /\ lost' = IF OwnsConnection(h) THEN lost ELSE lost \cup ({State(h).handle} \ {NoRun})
    /\ UNCHANGED <<registry, timers, conn>>

Finalizes(h) ==
    /\ At(h, "running")
    /\ \/ Goto(h, "completing") /\ UNCHANGED run
       \/ /\ run' = [run EXCEPT ![h].target = State(h).meta]
          /\ \/ State(h).meta = NoTurn /\ Goto(h, "caught")
             \/ State(h).meta \in Turns /\ \E s \in {"timingOut", "stopping"} : Goto(h, s)
    /\ UNCHANGED <<registry, timers, conn, lost>>

LEMMA EndSteps ==
    ASSUME Types, LocalsFit, NEW h \in Handlers, HandlerEnds(h)
    PROVE  /\ stage[h] \in {"running", "caught", "received", "releasing"}
           /\ TurnOf(h) \in Turns /\ ConnOf(h) \in Conns
           /\ UNCHANGED <<applied, aborted, snap, stop, mishaps, overlapped>>
           /\ \/ Release(h) /\ UNCHANGED lost
              \/ Settles(h)
              \/ Finalizes(h)
<1>1. stage[h] \in {"running", "caught", "received", "releasing"}
      BY DEF HandlerEnds, AgentEnds, SettleFailedRun, RejectInvalid, ReleaseRun, At
<1>2. TurnOf(h) \in Turns /\ ConnOf(h) \in Conns
      BY <1>1 DEF LocalsFit
<1>3. State(h).meta \in Turns \cup {NoTurn}
      BY <1>2, ConnectionParts DEF Types, State
<1>4. ASSUME Catch(h) PROVE (Release(h) /\ UNCHANGED lost) \/ Settles(h)
      BY <1>3, <1>4, Zenon DEF Catch, Settles
<1>5. ASSUME FinalizeRunResult(h), At(h, "running"), UNCHANGED <<registry, timers, conn, lost>>
      PROVE  Finalizes(h)
      BY <1>3, <1>5 DEF FinalizeRunResult, GotoSettling, Finalizes
<1>6. UNCHANGED <<applied, aborted, snap, stop, mishaps, overlapped>>
      BY DEF HandlerEnds, AgentEnds, SettleFailedRun, RejectInvalid, ReleaseRun
<1> QED
      BY <1>1, <1>2, <1>4, <1>5, <1>6
      DEF HandlerEnds, AgentEnds, SettleFailedRun, RejectInvalid, ReleaseRun

LEMMA EndKeeps ==
    ASSUME Types, LocalsFit, NEW h \in Handlers, HandlerEnds(h)
    PROVE  /\ \A g \in Handlers : g # h => run'[g] = run[g] /\ stage'[g] = stage[g]
           /\ stage'[h] \in {"done", "failing", "timingOut", "stopping", "completing", "caught"}
           /\ run'[h].conn = run[h].conn
           /\ \/ run'[h].bound = run[h].bound /\ run'[h].turn = run[h].turn
              \/ run'[h].bound = NoRun /\ stage'[h] = "done"
           /\ lost \subseteq lost'
<1>1. CASE Release(h) /\ UNCHANGED lost
      BY <1>1 DEF Release, Goto, Ended, NoLocals, Types, Locals
<1>2. CASE Settles(h)
      BY <1>2 DEF Settles, Goto, Types, Locals
<1>3. CASE Finalizes(h)
      BY <1>3 DEF Finalizes, Goto, Types, Locals
<1> QED
      BY <1>1, <1>2, <1>3, EndSteps

LEMMA EndUnregisters ==
    ASSUME Types, LocalsFit, NEW h \in Handlers, HandlerEnds(h)
    PROVE  \/ /\ UNCHANGED registry
              /\ \/ run[h].bound = NoRun
                 \/ run'[h].bound = run[h].bound /\ run'[h].turn = run[h].turn
           \/ \A t \in Turns :
                 /\ byTurn'[t] = IF byTurn[t] = run[h].bound THEN NoRun ELSE byTurn[t]
                 /\ byDialog'[t] = IF byDialog[t] = run[h].bound THEN NoRun ELSE byDialog[t]
<1>1. CASE Release(h)
      BY <1>1 DEF Release, Unregister
<1>2. CASE Settles(h)
      BY <1>2 DEF Settles, Types, Locals
<1>3. CASE Finalizes(h)
      BY <1>3 DEF Finalizes, Types, Locals
<1> QED
      BY <1>1, <1>2, <1>3, EndSteps

LEMMA StartKeepsLocals ==
    ASSUME Types, NEW h \in Handlers, StartProcessing(h)
    PROVE  \A g \in Handlers :
              /\ run'[g].conn = run[g].conn /\ run'[g].turn = run[g].turn
              /\ run'[g].bound = run[g].bound /\ run'[g].signal = run[g].signal
              /\ run'[g].target = run[g].target
<1>1. CASE run' = [run EXCEPT ![h].started = "yes"]
      BY <1>1 DEF Types, Locals
<1>2. CASE run' = [run EXCEPT ![h].started = "failed"]
      BY <1>2 DEF Types, Locals
<1> QED
      BY <1>1, <1>2 DEF StartProcessing

LEMMA ExecuteKeeps ==
    ASSUME Types, NEW h \in Handlers, ExecuteRun(h)
    PROVE  /\ \A c \in Conns : /\ conn'[c].handle = conn[c].handle /\ conn'[c].signal = conn[c].signal
                              /\ conn'[c].meta = conn[c].meta /\ conn'[c].running = conn[c].running
           /\ \A g \in Handlers : /\ run'[g].bound = run[g].bound /\ run'[g].conn = run[g].conn
                                 /\ run'[g].turn = run[g].turn /\ run'[g].target = run[g].target
<1> USE DEF Types, Locals, Connection
<1>1. \A g \in Handlers : /\ run'[g].bound = run[g].bound /\ run'[g].conn = run[g].conn
                         /\ run'[g].turn = run[g].turn /\ run'[g].target = run[g].target
      BY DEF ExecuteRun
<1>2. CASE UNCHANGED conn
      BY <1>1, <1>2
<1>3. CASE conn' = [conn EXCEPT ![ConnOf(h)].timer = h]
      BY <1>1, <1>3
<1> QED
      BY <1>1, <1>2, <1>3 DEF ExecuteRun

\* No two owners share a connection, and a connection that a command was received on
\* has none; a handler that has received a command is not known to anybody.
LEMMA OwnersApart ==
    ASSUME OwnersFit, ReceivedFit, NEW g \in Handlers, NEW h \in Handlers, Owner(h),
           ConnOf(g) = ConnOf(h)
    PROVE  /\ Owner(g) => g = h
           /\ ~At(g, "received")
BY DEF OwnersFit, ReceivedFit, State

LEMMA NamedIsOwned ==
    ASSUME Owned, NEW h \in Handlers, ConnOf(h) \in Conns, State(h).meta \in Turns
    PROVE  ~At(h, "received")
BY OwnersApart, TurnsAssumption DEF Owned, MetaFits, State

LEMMA FoundAreOwners ==
    ASSUME Types, RegistryFits, NEW h \in Handlers, TurnOf(h) \in Turns, RunningTurn(h) # NoRun
    PROVE  RunningTurn(h) \in Handlers /\ Owner(RunningTurn(h))
BY DEF Types, RegistryFits, RunningTurn, FindActiveRun, FindByTurn, Runs

\* Releasing frees a connection only for its owner.
LEMMA ReleaseOthers ==
    ASSUME Types, LocalsFit, Owned, NEW h \in Handlers, NEW g \in Handlers, Release(h),
           stage[h] \notin {"idle", "done"}, g # h, Owner(g)
    PROVE  conn'[ConnOf(g)] = conn[ConnOf(g)]
<1> USE DEF Owned, Owner
<1>1. CASE ConnOf(g) # ConnOf(h)
  <2>1. ConnOf(g) \in Conns
        BY DEF OwnersFit, LocalsFit, Fresh
  <2> QED
        BY <1>1, <2>1 DEF Release, Types
<1>2. CASE ConnOf(g) = ConnOf(h)
  <2>1. State(h).handle = g /\ ~At(h, "received")
        BY <1>2, OwnersApart DEF OwnersFit, State
  <2>2. run[h].bound # NoRun
        BY <2>1 DEF OwnersFit, Fresh, At, LocalsFit
  <2>3. run[h].bound # g
        BY <1>2 DEF BindingsFit
  <2> QED
        BY <2>1, <2>2, <2>3 DEF Release, OwnsConnection
<1> QED
      BY <1>1, <1>2

LEMMA OwnersStayFit ==
    ASSUME Types, LocalsFit, Owned, Next, ~overlapped'
    PROVE  OwnersFit'
<1> USE DEF At, Goto, Apply, registry, Types, LocalsFit, OwnersFit, Owned, Owner, ConnOf,
            TurnOf, State, Fresh, Accepting, Activated, Settling, Locals, Connection, Runs
<1>1. ASSUME NEW h \in Handlers, BindExistingRun(h) PROVE OwnersFit'
  <2>1. RunningTurn(h) \in Handlers /\ RunningTurn(h) # h
        BY <1>1, FoundAreOwners DEF BindExistingRun, CanBind
  <2>2. \A g \in Handlers : Owner(g) => ConnOf(g) # ConnOf(h) /\ g # h
        BY <1>1, OwnersApart DEF BindExistingRun
  <2> QED
        BY <1>1, <2>1, <2>2, HandlersAssumption DEF BindExistingRun
<1>2. ASSUME NEW h \in Handlers, Rebound(h) PROVE OwnersFit'
      BY <1>2 DEF Rebound
<1>3. ASSUME NEW h \in Handlers, RebindFails(h) PROVE OwnersFit'
      BY <1>3 DEF RebindFails
<1>4. ASSUME NEW h \in Handlers, ReserveRun(h) PROVE OwnersFit'
  <2>1. \A g \in Handlers : Owner(g) => ConnOf(g) # ConnOf(h) /\ g # h
        BY <1>4, OwnersApart DEF ReserveRun
  <2>2. State(h).meta = NoTurn
        BY <1>4, <2>1 DEF ReserveRun, MetaFits
  <2>3. \A g \in Handlers : Owner(g) => conn'[ConnOf(g)] = conn[ConnOf(g)]
        BY <1>4, <2>1 DEF ReserveRun
  <2>4. /\ conn'[ConnOf(h)].handle = h /\ conn'[ConnOf(h)].signal = h
        /\ conn'[ConnOf(h)].running /\ conn'[ConnOf(h)].meta = NoTurn
        BY <1>4, <2>2 DEF ReserveRun
  <2> QED
        BY <1>4, <2>1, <2>3, <2>4, HandlersAssumption DEF ReserveRun
<1>5. ASSUME NEW h \in Handlers, CommitAction(h) PROVE OwnersFit'
      BY <1>5 DEF CommitAction, Commit, Assess
<1>6. ASSUME NEW x \in Handlers \cup {Client}, RecoverActiveTurn(x) PROVE OwnersFit'
  <2>1. \A g \in Handlers : g # x => stage'[g] = stage[g]
        BY <1>6 DEF RecoverActiveTurn, NotRecovered
  <2>2. x \in Handlers => stage'[x] \in {"retrying", "caught"} /\ stage[x] = "recovering"
        BY <1>6, HandlersAssumption DEF RecoverActiveTurn, NotRecovered
  <2> QED
        BY <1>6, <2>1, <2>2 DEF RecoverActiveTurn
<1>7. ASSUME NEW h \in Handlers, ActivateRun(h) PROVE OwnersFit'
      BY <1>7 DEF ActivateRun
<1>8. ASSUME NEW h \in Handlers, ExecuteRun(h) PROVE OwnersFit'
  <2>1. State(h).signal = h
        BY <1>8 DEF ExecuteRun
  <2>3. run'[h].signal = h /\ \A g \in Handlers : g # h => run'[g].signal = run[g].signal
        BY <1>8, <2>1, HandlersAssumption DEF ExecuteRun
  <2>4. stage' = [stage EXCEPT ![h] = "running"] /\ stage[h] = "activating"
        BY <1>8, <2>1, HandlersAssumption DEF ExecuteRun
  <2>5. \A g \in Handlers : Owner(g) => ConnOf(g) \in Conns
        OBVIOUS
  <2> QED
        BY <1>8, <2>3, <2>4, <2>5, ExecuteKeeps
<1>9. ASSUME NEW h \in Handlers, RunTimesOut(h) PROVE OwnersFit'
      BY <1>9 DEF RunTimesOut, Abort
<1>10. ASSUME NEW h \in Handlers, StartProcessing(h) PROVE OwnersFit'
      BY <1>10 DEF StartProcessing
<1>11. ASSUME NEW h \in Handlers, CompleteProcessing(h) PROVE OwnersFit'
      BY <1>11 DEF CompleteProcessing, Commit
<1>12. ASSUME NEW h \in Handlers, FinalizeCompleted(h) PROVE OwnersFit'
      BY <1>12 DEF FinalizeCompleted, Commit
<1>13. ASSUME NEW h \in Handlers, FinalizeUserStopped(h) PROVE OwnersFit'
      BY <1>13 DEF FinalizeUserStopped, Commit
<1>14. ASSUME NEW h \in Handlers, FinalizeTimeout(h) PROVE OwnersFit'
      BY <1>14 DEF FinalizeTimeout, Commit
<1>15. ASSUME NEW h \in Handlers, CommitCurrentFailure(h) PROVE OwnersFit'
      BY <1>15 DEF CommitCurrentFailure, Commit
<1>16. ASSUME NEW h \in Handlers, NEW t \in Turns, NEW c \in Conns, Receive(h, t, c)
      PROVE  OwnersFit'
  <2>1. run'[h].bound = NoRun /\ \A g \in Handlers : g # h => run'[g] = run[g]
        BY <1>16 DEF Receive
  <2> QED
        BY <1>16, <2>1, HandlersAssumption DEF Receive
<1>17. ASSUME NEW t \in Turns, AcceptStop(t) PROVE OwnersFit'
      BY <1>17 DEF AcceptStop, CommitStop
<1>18. ASSUME NEW t \in Turns, AbortRegisteredRun(t) PROVE OwnersFit'
      BY <1>18 DEF AbortRegisteredRun, Abort
<1>19. ASSUME NEW t \in Turns, CompleteIdleStop(t) PROVE OwnersFit'
      BY <1>19 DEF CompleteIdleStop, CommitStop
<1>20. CASE AssessTurnRecovery
      BY <1>20, HandlersAssumption DEF AssessTurnRecovery, Assess
<1>21. CASE RestartService
  <2>1. \A h \in Handlers : stage'[h] \in {"idle", "done"}
        BY <1>21, HandlersAssumption DEF RestartService
  <2>2. \A h \in Handlers : run'[h].bound = NoRun
        BY <1>21 DEF RestartService, Ended, NoLocals
  <2> QED
        BY <2>1, <2>2, HandlersAssumption
<1>22. ASSUME NEW h \in Handlers, HandlerEnds(h) PROVE OwnersFit'
  <2>1. CASE Release(h)
    <3>1. stage'[h] = "done" /\ run'[h].bound = NoRun
          BY <2>1 DEF Release, Ended, NoLocals
    <3>2. \A g \in Handlers : g # h => stage'[g] = stage[g] /\ run'[g] = run[g]
          BY <2>1 DEF Release
    <3>3. \A g \in Handlers : g # h /\ Owner(g) => conn'[ConnOf(g)] = conn[ConnOf(g)]
          BY <1>22, <2>1, EndSteps, ReleaseOthers
    <3> QED
          BY <3>1, <3>2, <3>3, HandlersAssumption
  <2>2. CASE Settles(h)
    <3>1. run[h].bound # NoRun
      <4>1. stage[h] \in {"running", "caught", "received", "releasing"} /\ ConnOf(h) \in Conns
            BY <1>22, EndSteps
      <4>2. State(h).meta \in Turns
            BY <2>2 DEF Settles
      <4>3. stage[h] # "received"
            BY <4>1, <4>2, NamedIsOwned
      <4> QED
            BY <4>1, <4>3
    <3>2. run'[h].bound = run[h].bound /\ run'[h].conn = run[h].conn /\ run'[h].turn = run[h].turn
          BY <2>2 DEF Settles
    <3>3. \A g \in Handlers : g # h => stage'[g] = stage[g] /\ run'[g] = run[g]
          BY <2>2 DEF Settles
    <3>4. stage'[h] \in {"failing", "timingOut", "stopping"} /\ UNCHANGED conn
          BY <2>2 DEF Settles
    <3> QED
          BY <3>1, <3>2, <3>3, <3>4
  <2>3. CASE Finalizes(h)
        BY <2>3 DEF Finalizes
  <2> QED
        BY <1>22, <2>1, <2>2, <2>3, EndSteps
<1> QED
      BY <1>1, <1>2, <1>3, <1>4, <1>5, <1>6, <1>7, <1>8, <1>9, <1>10, <1>11, <1>12, <1>13,
         <1>14, <1>15, <1>16, <1>17, <1>18, <1>19, <1>20, <1>21, <1>22
      DEF Next, HandlerStep, StopStep, ClientRecovers, AgentObeysAbort, HandlerEnds

LEMMA ReceivedStayFit ==
    ASSUME Types, LocalsFit, Owned, Next, ~overlapped'
    PROVE  ReceivedFit'
<1> USE DEF At, Goto, Apply, registry, Types, LocalsFit, ReceivedFit, Owned, ConnOf, TurnOf,
            State, Locals, Connection
<1>1. ASSUME NEW h \in Handlers, BindExistingRun(h) PROVE ReceivedFit'
      BY <1>1 DEF BindExistingRun
<1>2. ASSUME NEW h \in Handlers, Rebound(h) PROVE ReceivedFit'
      BY <1>2 DEF Rebound
<1>3. ASSUME NEW h \in Handlers, RebindFails(h) PROVE ReceivedFit'
      BY <1>3 DEF RebindFails
<1>4. ASSUME NEW h \in Handlers, ReserveRun(h) PROVE ReceivedFit'
      BY <1>4 DEF ReserveRun
<1>5. ASSUME NEW h \in Handlers, CommitAction(h) PROVE ReceivedFit'
      BY <1>5 DEF CommitAction, Commit, Assess
<1>6. ASSUME NEW x \in Handlers \cup {Client}, RecoverActiveTurn(x) PROVE ReceivedFit'
  <2>1. \A g \in Handlers : At(g, "received")' => At(g, "received")
        BY <1>6 DEF RecoverActiveTurn, NotRecovered
  <2> QED
        BY <1>6, <2>1 DEF RecoverActiveTurn
<1>7. ASSUME NEW h \in Handlers, ActivateRun(h) PROVE ReceivedFit'
      BY <1>7 DEF ActivateRun
<1>8. ASSUME NEW h \in Handlers, ExecuteRun(h) PROVE ReceivedFit'
  <2>1. \A g \in Handlers : At(g, "received")' => At(g, "received")
        BY <1>8 DEF ExecuteRun
  <2> QED
        BY <1>8, <2>1, ExecuteKeeps
<1>9. ASSUME NEW h \in Handlers, RunTimesOut(h) PROVE ReceivedFit'
      BY <1>9 DEF RunTimesOut, Abort
<1>10. ASSUME NEW h \in Handlers, StartProcessing(h) PROVE ReceivedFit'
  <2>1. \A g \in Handlers : run'[g].conn = run[g].conn
        BY <1>10, StartKeepsLocals
  <2> QED
        BY <1>10, <2>1 DEF StartProcessing
<1>11. ASSUME NEW h \in Handlers, CompleteProcessing(h) PROVE ReceivedFit'
      BY <1>11 DEF CompleteProcessing, Commit
<1>12. ASSUME NEW h \in Handlers, FinalizeCompleted(h) PROVE ReceivedFit'
      BY <1>12 DEF FinalizeCompleted, Commit
<1>13. ASSUME NEW h \in Handlers, FinalizeUserStopped(h) PROVE ReceivedFit'
      BY <1>13 DEF FinalizeUserStopped, Commit
<1>14. ASSUME NEW h \in Handlers, FinalizeTimeout(h) PROVE ReceivedFit'
      BY <1>14 DEF FinalizeTimeout, Commit
<1>15. ASSUME NEW h \in Handlers, CommitCurrentFailure(h) PROVE ReceivedFit'
      BY <1>15 DEF CommitCurrentFailure, Commit
<1>16. ASSUME NEW h \in Handlers, NEW t \in Turns, NEW c \in Conns, Receive(h, t, c)
      PROVE  ReceivedFit'
      BY <1>16 DEF Receive
<1>17. ASSUME NEW t \in Turns, AcceptStop(t) PROVE ReceivedFit'
      BY <1>17 DEF AcceptStop, CommitStop
<1>18. ASSUME NEW t \in Turns, AbortRegisteredRun(t) PROVE ReceivedFit'
      BY <1>18 DEF AbortRegisteredRun, Abort
<1>19. ASSUME NEW t \in Turns, CompleteIdleStop(t) PROVE ReceivedFit'
      BY <1>19 DEF CompleteIdleStop, CommitStop
<1>20. CASE AssessTurnRecovery
      BY <1>20, HandlersAssumption DEF AssessTurnRecovery, Assess
<1>21. CASE RestartService
  <2>1. \A h \in Handlers : stage'[h] \in {"idle", "done"}
        BY <1>21, HandlersAssumption DEF RestartService
  <2> QED
        BY <2>1
<1>22. ASSUME NEW h \in Handlers, HandlerEnds(h) PROVE ReceivedFit'
  <2>1. \A c \in Conns : conn'[c] = conn[c] \/ conn'[c].running = FALSE
    <3>1. CASE Release(h)
          BY <3>1 DEF Release, FreeConnection
    <3> QED
          BY <1>22, <3>1, EndSteps DEF Settles, Finalizes
  <2>2. \A g \in Handlers : At(g, "received")' => At(g, "received") /\ run'[g] = run[g]
        BY <1>22, EndKeeps
  <2> QED
        BY <2>1, <2>2
<1> QED
      BY <1>1, <1>2, <1>3, <1>4, <1>5, <1>6, <1>7, <1>8, <1>9, <1>10, <1>11, <1>12, <1>13,
         <1>14, <1>15, <1>16, <1>17, <1>18, <1>19, <1>20, <1>21, <1>22
      DEF Next, HandlerStep, StopStep, ClientRecovers, AgentObeysAbort, HandlerEnds

LEMMA MetaFollows ==
    ASSUME MetaFits,
           \A c \in Conns : conn'[c].meta \in {conn[c].meta, NoTurn},
           \A k \in Handlers : Owner(k) =>
              \/ run'[k].bound = k /\ run'[k].conn = run[k].conn /\ run'[k].turn = run[k].turn
              \/ conn'[ConnOf(k)].meta = NoTurn
    PROVE  MetaFits'
BY DEF MetaFits, Owner, ConnOf, TurnOf

LEMMA MetaStaysFit ==
    ASSUME Types, LocalsFit, Owned, Next, ~overlapped'
    PROVE  MetaFits'
<1> USE DEF At, Goto, Apply, registry, Types, LocalsFit, Owned, Owner, ConnOf, TurnOf,
            State, Locals, Connection
<1>1. ASSUME NEW h \in Handlers, BindExistingRun(h) PROVE MetaFits'
  <2>1. ~Owner(h)
        BY <1>1, HandlersAssumption DEF BindExistingRun, Fresh
  <2>2. \A g \in Handlers : g # h => run'[g] = run[g]
        BY <1>1 DEF BindExistingRun
  <2>3. \A d \in Conns : conn'[d].meta = conn[d].meta
        BY <1>1 DEF BindExistingRun
  <2> QED
        BY <2>1, <2>2, <2>3, MetaFollows
<1>2. ASSUME NEW h \in Handlers, Rebound(h) PROVE MetaFits'
      BY <1>2, MetaFollows DEF Rebound
<1>3. ASSUME NEW h \in Handlers, RebindFails(h) PROVE MetaFits'
      BY <1>3, MetaFollows DEF RebindFails
<1>4. ASSUME NEW h \in Handlers, ReserveRun(h) PROVE MetaFits'
  <2>1. ~Owner(h)
        BY <1>4, HandlersAssumption DEF ReserveRun, Fresh
  <2>2. \A g \in Handlers : g # h => run'[g] = run[g]
        BY <1>4 DEF ReserveRun
  <2>3. \A d \in Conns : conn'[d].meta = conn[d].meta
        BY <1>4 DEF ReserveRun
  <2> QED
        BY <2>1, <2>2, <2>3, MetaFollows
<1>5. ASSUME NEW h \in Handlers, CommitAction(h) PROVE MetaFits'
      BY <1>5, MetaFollows DEF CommitAction, Commit, Assess
<1>6. ASSUME NEW x \in Handlers \cup {Client}, RecoverActiveTurn(x) PROVE MetaFits'
      BY <1>6, MetaFollows DEF RecoverActiveTurn, NotRecovered
<1>7. ASSUME NEW h \in Handlers, ActivateRun(h) PROVE MetaFits'
  <2>1. Owner(h) /\ ConnOf(h) \in Conns
        BY <1>7 DEF ActivateRun, OwnersFit, Accepting
  <2>2. \A d \in Conns : d # ConnOf(h) => conn'[d] = conn[d]
        BY <1>7 DEF ActivateRun
  <2>3. conn'[ConnOf(h)].meta = TurnOf(h) /\ UNCHANGED run
        BY <1>7, <2>1 DEF ActivateRun
  <2> QED
        BY <2>1, <2>2, <2>3 DEF MetaFits
<1>8. ASSUME NEW h \in Handlers, ExecuteRun(h) PROVE MetaFits'
      BY <1>8, ExecuteKeeps, MetaFollows
<1>9. ASSUME NEW h \in Handlers, RunTimesOut(h) PROVE MetaFits'
      BY <1>9, MetaFollows DEF RunTimesOut, Abort
<1>10. ASSUME NEW h \in Handlers, StartProcessing(h) PROVE MetaFits'
      BY <1>10, StartKeepsLocals, MetaFollows DEF StartProcessing
<1>11. ASSUME NEW h \in Handlers, CompleteProcessing(h) PROVE MetaFits'
      BY <1>11, MetaFollows DEF CompleteProcessing, Commit
<1>12. ASSUME NEW h \in Handlers, FinalizeCompleted(h) PROVE MetaFits'
      BY <1>12, MetaFollows DEF FinalizeCompleted, Commit
<1>13. ASSUME NEW h \in Handlers, FinalizeUserStopped(h) PROVE MetaFits'
      BY <1>13, MetaFollows DEF FinalizeUserStopped, Commit
<1>14. ASSUME NEW h \in Handlers, FinalizeTimeout(h) PROVE MetaFits'
      BY <1>14, MetaFollows DEF FinalizeTimeout, Commit
<1>15. ASSUME NEW h \in Handlers, CommitCurrentFailure(h) PROVE MetaFits'
      BY <1>15, MetaFollows DEF CommitCurrentFailure, Commit
<1>16. ASSUME NEW h \in Handlers, NEW t \in Turns, NEW c \in Conns, Receive(h, t, c)
      PROVE  MetaFits'
  <2>1. ~Owner(h)
        BY <1>16, HandlersAssumption DEF Receive, Fresh
  <2>2. \A g \in Handlers : g # h => run'[g] = run[g]
        BY <1>16 DEF Receive
  <2>3. \A d \in Conns : conn'[d].meta = conn[d].meta
        BY <1>16 DEF Receive
  <2> QED
        BY <2>1, <2>2, <2>3, MetaFollows
<1>17. ASSUME NEW t \in Turns, AcceptStop(t) PROVE MetaFits'
      BY <1>17, MetaFollows DEF AcceptStop, CommitStop
<1>18. ASSUME NEW t \in Turns, AbortRegisteredRun(t) PROVE MetaFits'
      BY <1>18, MetaFollows DEF AbortRegisteredRun, Abort
<1>19. ASSUME NEW t \in Turns, CompleteIdleStop(t) PROVE MetaFits'
      BY <1>19, MetaFollows DEF CompleteIdleStop, CommitStop
<1>20. CASE AssessTurnRecovery
      BY <1>20, MetaFollows DEF AssessTurnRecovery, Assess
<1>21. CASE RestartService
  <2>1. \A c \in Conns : conn'[c].meta = NoTurn
        BY <1>21 DEF RestartService, FreeConnection
  <2> QED
        BY <2>1 DEF MetaFits
<1>22. ASSUME NEW h \in Handlers, HandlerEnds(h) PROVE MetaFits'
  <2>1. CASE Release(h)
    <3>1. \A g \in Handlers : g # h => run'[g] = run[g]
          BY <2>1 DEF Release
    <3>2. \A c \in Conns : conn'[c].meta = NoTurn \/ conn'[c] = conn[c]
          BY <2>1 DEF Release, FreeConnection
    <3>3. Owner(h) => OwnsConnection(h)
          BY DEF OwnsConnection, OwnersFit
    <3>4. Owner(h) => conn'[ConnOf(h)].meta = NoTurn
          BY <1>22, <2>1, <3>3, EndSteps DEF Release, FreeConnection
    <3> QED
          BY <3>1, <3>2, <3>4, MetaFollows
  <2>2. CASE Settles(h) \/ Finalizes(h)
    <3>1. \A g \in Handlers : run'[g].bound = run[g].bound /\ run'[g].conn = run[g].conn
                              /\ run'[g].turn = run[g].turn
          BY <2>2 DEF Settles, Finalizes
    <3>2. UNCHANGED conn
          BY <2>2 DEF Settles, Finalizes
    <3> QED
          BY <3>1, <3>2, MetaFollows
  <2> QED
        BY <1>22, <2>1, <2>2, EndSteps
<1> QED
      BY <1>1, <1>2, <1>3, <1>4, <1>5, <1>6, <1>7, <1>8, <1>9, <1>10, <1>11, <1>12, <1>13,
         <1>14, <1>15, <1>16, <1>17, <1>18, <1>19, <1>20, <1>21, <1>22
      DEF Next, HandlerStep, StopStep, ClientRecovers, AgentObeysAbort, HandlerEnds

LEMMA BindingsStayFit ==
    ASSUME Types, LocalsFit, Owned, Next, ~overlapped'
    PROVE  BindingsFit'
<1> USE DEF At, Goto, Apply, registry, Types, LocalsFit, BindingsFit, Owned, Owner, ConnOf,
            Fresh, Runs, Locals
<1>1. ASSUME NEW h \in Handlers, BindExistingRun(h) PROVE BindingsFit'
  <2>1. RunningTurn(h) \in Handlers /\ Owner(RunningTurn(h))
        BY <1>1, FoundAreOwners DEF BindExistingRun, CanBind
  <2>2. RunningTurn(h) # h /\ ConnOf(RunningTurn(h)) # ConnOf(h) /\ stage[RunningTurn(h)] \notin Fresh
        BY <1>1, <2>1, OwnersApart DEF BindExistingRun, OwnersFit
  <2>3. /\ run' = [run EXCEPT ![h].bound = RunningTurn(h)]
        /\ stage' = [stage EXCEPT ![h] = "binding"] /\ UNCHANGED lost
        BY <1>1 DEF BindExistingRun
  <2> HIDE DEF RunningTurn
  <2> QED
        BY <2>1, <2>2, <2>3
<1>2. ASSUME NEW h \in Handlers, Rebound(h) PROVE BindingsFit'
      BY <1>2 DEF Rebound
<1>3. ASSUME NEW h \in Handlers, RebindFails(h) PROVE BindingsFit'
      BY <1>3 DEF RebindFails
<1>4. ASSUME NEW h \in Handlers, ReserveRun(h) PROVE BindingsFit'
      BY <1>4 DEF ReserveRun
<1>5. ASSUME NEW h \in Handlers, CommitAction(h) PROVE BindingsFit'
      BY <1>5 DEF CommitAction, Commit, Assess
<1>6. ASSUME NEW x \in Handlers \cup {Client}, RecoverActiveTurn(x) PROVE BindingsFit'
  <2>1. \A g \in Handlers : stage'[g] = stage[g] \/ (stage[g] = "recovering" /\ stage'[g] \notin Fresh)
        BY <1>6, HandlersAssumption DEF RecoverActiveTurn, NotRecovered
  <2>2. \A g \in Handlers : stage[g] = "recovering" => run[g].bound = g
        BY DEF OwnersFit, Accepting
  <2> QED
        BY <1>6, <2>1, <2>2 DEF RecoverActiveTurn
<1>7. ASSUME NEW h \in Handlers, ActivateRun(h) PROVE BindingsFit'
      BY <1>7 DEF ActivateRun
<1>8. ASSUME NEW h \in Handlers, ExecuteRun(h) PROVE BindingsFit'
      BY <1>8, ExecuteKeeps DEF ExecuteRun
<1>9. ASSUME NEW h \in Handlers, RunTimesOut(h) PROVE BindingsFit'
      BY <1>9 DEF RunTimesOut, Abort
<1>10. ASSUME NEW h \in Handlers, StartProcessing(h) PROVE BindingsFit'
      BY <1>10, StartKeepsLocals DEF StartProcessing
<1>11. ASSUME NEW h \in Handlers, CompleteProcessing(h) PROVE BindingsFit'
      BY <1>11 DEF CompleteProcessing, Commit
<1>12. ASSUME NEW h \in Handlers, FinalizeCompleted(h) PROVE BindingsFit'
      BY <1>12 DEF FinalizeCompleted, Commit
<1>13. ASSUME NEW h \in Handlers, FinalizeUserStopped(h) PROVE BindingsFit'
      BY <1>13 DEF FinalizeUserStopped, Commit
<1>14. ASSUME NEW h \in Handlers, FinalizeTimeout(h) PROVE BindingsFit'
      BY <1>14 DEF FinalizeTimeout, Commit
<1>15. ASSUME NEW h \in Handlers, CommitCurrentFailure(h) PROVE BindingsFit'
      BY <1>15 DEF CommitCurrentFailure, Commit
<1>16. ASSUME NEW h \in Handlers, NEW t \in Turns, NEW c \in Conns, Receive(h, t, c)
      PROVE  BindingsFit'
      BY <1>16 DEF Receive
<1>17. ASSUME NEW t \in Turns, AcceptStop(t) PROVE BindingsFit'
      BY <1>17 DEF AcceptStop, CommitStop
<1>18. ASSUME NEW t \in Turns, AbortRegisteredRun(t) PROVE BindingsFit'
      BY <1>18 DEF AbortRegisteredRun, Abort
<1>19. ASSUME NEW t \in Turns, CompleteIdleStop(t) PROVE BindingsFit'
      BY <1>19 DEF CompleteIdleStop, CommitStop
<1>20. CASE AssessTurnRecovery
      BY <1>20 DEF AssessTurnRecovery, Assess
<1>21. CASE RestartService
  <2>1. \A g \in Handlers : run'[g].bound = NoRun
        BY <1>21 DEF RestartService, Ended, NoLocals
  <2> QED
        BY <2>1, HandlersAssumption
<1>22. ASSUME NEW h \in Handlers, HandlerEnds(h) PROVE BindingsFit'
  <2>1. stage[h] \notin {"binding", "done"}
        BY <1>22, EndSteps
  <2> QED
        BY <1>22, <2>1, EndKeeps, HandlersAssumption
<1> QED
      BY <1>1, <1>2, <1>3, <1>4, <1>5, <1>6, <1>7, <1>8, <1>9, <1>10, <1>11, <1>12, <1>13,
         <1>14, <1>15, <1>16, <1>17, <1>18, <1>19, <1>20, <1>21, <1>22
      DEF Next, HandlerStep, StopStep, ClientRecovers, AgentObeysAbort, HandlerEnds

LEMMA RegistryStaysFit ==
    ASSUME Types, LocalsFit, Owned, Next, ~overlapped'
    PROVE  RegistryFits'
<1> USE DEF At, Goto, Apply, registry, Types, LocalsFit, RegistryFits, Owned, Owner, TurnOf,
            Runs, Locals
<1>1. ASSUME NEW h \in Handlers, BindExistingRun(h) PROVE RegistryFits'
  <2>1. ~Owner(h)
        BY <1>1, HandlersAssumption DEF BindExistingRun, OwnersFit, Fresh
  <2>2. \A g \in Handlers : g # h => run'[g] = run[g]
        BY <1>1 DEF BindExistingRun
  <2> QED
        BY <1>1, <2>1, <2>2 DEF BindExistingRun
<1>2. ASSUME NEW h \in Handlers, Rebound(h) PROVE RegistryFits'
      BY <1>2 DEF Rebound
<1>3. ASSUME NEW h \in Handlers, RebindFails(h) PROVE RegistryFits'
      BY <1>3 DEF RebindFails
<1>4. ASSUME NEW h \in Handlers, ReserveRun(h) PROVE RegistryFits'
  <2>1. ~Owner(h)
        BY <1>4, HandlersAssumption DEF ReserveRun, OwnersFit, Fresh
  <2>2. \A g \in Handlers : g # h => run'[g] = run[g]
        BY <1>4 DEF ReserveRun
  <2> QED
        BY <1>4, <2>1, <2>2 DEF ReserveRun
<1>5. ASSUME NEW h \in Handlers, CommitAction(h) PROVE RegistryFits'
      BY <1>5 DEF CommitAction, Commit, Assess
<1>6. ASSUME NEW x \in Handlers \cup {Client}, RecoverActiveTurn(x) PROVE RegistryFits'
      BY <1>6 DEF RecoverActiveTurn, NotRecovered
<1>7. ASSUME NEW h \in Handlers, ActivateRun(h) PROVE RegistryFits'
  <2>1. Owner(h) /\ State(h).handle = h
        BY <1>7 DEF ActivateRun, OwnersFit, Accepting
  <2> QED
        BY <1>7, <2>1 DEF ActivateRun
<1>8. ASSUME NEW h \in Handlers, ExecuteRun(h) PROVE RegistryFits'
      BY <1>8, ExecuteKeeps DEF ExecuteRun
<1>9. ASSUME NEW h \in Handlers, RunTimesOut(h) PROVE RegistryFits'
      BY <1>9 DEF RunTimesOut, Abort
<1>10. ASSUME NEW h \in Handlers, StartProcessing(h) PROVE RegistryFits'
      BY <1>10, StartKeepsLocals DEF StartProcessing
<1>11. ASSUME NEW h \in Handlers, CompleteProcessing(h) PROVE RegistryFits'
      BY <1>11 DEF CompleteProcessing, Commit
<1>12. ASSUME NEW h \in Handlers, FinalizeCompleted(h) PROVE RegistryFits'
      BY <1>12 DEF FinalizeCompleted, Commit
<1>13. ASSUME NEW h \in Handlers, FinalizeUserStopped(h) PROVE RegistryFits'
      BY <1>13 DEF FinalizeUserStopped, Commit
<1>14. ASSUME NEW h \in Handlers, FinalizeTimeout(h) PROVE RegistryFits'
      BY <1>14 DEF FinalizeTimeout, Commit
<1>15. ASSUME NEW h \in Handlers, CommitCurrentFailure(h) PROVE RegistryFits'
      BY <1>15 DEF CommitCurrentFailure, Commit
<1>16. ASSUME NEW h \in Handlers, NEW t \in Turns, NEW c \in Conns, Receive(h, t, c)
      PROVE  RegistryFits'
  <2>1. ~Owner(h)
        BY <1>16, HandlersAssumption DEF Receive, OwnersFit, Fresh
  <2>2. \A g \in Handlers : g # h => run'[g] = run[g]
        BY <1>16 DEF Receive
  <2> QED
        BY <1>16, <2>1, <2>2 DEF Receive
<1>17. ASSUME NEW t \in Turns, AcceptStop(t) PROVE RegistryFits'
      BY <1>17 DEF AcceptStop, CommitStop
<1>18. ASSUME NEW t \in Turns, AbortRegisteredRun(t) PROVE RegistryFits'
      BY <1>18 DEF AbortRegisteredRun, Abort
<1>19. ASSUME NEW t \in Turns, CompleteIdleStop(t) PROVE RegistryFits'
      BY <1>19 DEF CompleteIdleStop, CommitStop
<1>20. CASE AssessTurnRecovery
      BY <1>20 DEF AssessTurnRecovery, Assess
<1>21. CASE RestartService
  <2>1. \A t \in Turns : byTurn'[t] = NoRun /\ byDialog'[t] = NoRun
        BY <1>21 DEF RestartService
  <2> QED
        BY <2>1, HandlersAssumption
<1>22. ASSUME NEW h \in Handlers, HandlerEnds(h) PROVE RegistryFits'
      BY <1>22, EndUnregisters, EndKeeps, HandlersAssumption
<1> QED
      BY <1>1, <1>2, <1>3, <1>4, <1>5, <1>6, <1>7, <1>8, <1>9, <1>10, <1>11, <1>12, <1>13,
         <1>14, <1>15, <1>16, <1>17, <1>18, <1>19, <1>20, <1>21, <1>22
      DEF Next, HandlerStep, StopStep, ClientRecovers, AgentObeysAbort, HandlerEnds

LEMMA RunsStayRegistered ==
    ASSUME Types, LocalsFit, Owned, Next, ~overlapped'
    PROVE  Registered'
<1> USE DEF At, Goto, Apply, registry, Types, LocalsFit, Registered, Owned, Owner, TurnOf,
            Runs, Locals, Accepting
<1>1. ASSUME NEW h \in Handlers, BindExistingRun(h) PROVE Registered'
      BY <1>1 DEF BindExistingRun
<1>2. ASSUME NEW h \in Handlers, Rebound(h) PROVE Registered'
      BY <1>2 DEF Rebound
<1>3. ASSUME NEW h \in Handlers, RebindFails(h) PROVE Registered'
      BY <1>3 DEF RebindFails
<1>4. ASSUME NEW h \in Handlers, ReserveRun(h) PROVE Registered'
  <2>1. byTurn[TurnOf(h)] # NoRun => IsAborted(byTurn[TurnOf(h)])
        BY <1>4 DEF ReserveRun, CanBind, RunningTurn, FindActiveRun, FindByTurn
  <2>2. \A g \in Handlers : g # h => run'[g] = run[g] /\ stage'[g] = stage[g]
        BY <1>4 DEF ReserveRun
  <2>3. byTurn' = [byTurn EXCEPT ![TurnOf(h)] = h] /\ run'[h].turn = run[h].turn
        BY <1>4 DEF ReserveRun
  <2>4. TurnOf(h) \in Turns /\ UNCHANGED <<aborted, lost>>
        BY <1>4 DEF ReserveRun
  <2>5. \A g \in Handlers : aborted[g] = "no" => ~IsAborted(g) /\ g # NoRun
        BY HandlersAssumption DEF IsAborted
  <2> QED
        BY <2>1, <2>2, <2>3, <2>4, <2>5
<1>5. ASSUME NEW h \in Handlers, CommitAction(h) PROVE Registered'
      BY <1>5 DEF CommitAction, Commit, Assess
<1>6. ASSUME NEW x \in Handlers \cup {Client}, RecoverActiveTurn(x) PROVE Registered'
      BY <1>6 DEF RecoverActiveTurn, NotRecovered
<1>7. ASSUME NEW h \in Handlers, ActivateRun(h) PROVE Registered'
  <2>1. Owner(h) /\ State(h).handle = h /\ h # NoRun /\ TurnOf(h) \in Turns
        BY <1>7, HandlersAssumption DEF ActivateRun, OwnersFit
  <2>2. /\ byTurn' = [byTurn EXCEPT ![TurnOf(h)] = h]
        /\ lost' = IF IsAborted(h) \/ h \in lost
                   THEN lost \cup ({byTurn[TurnOf(h)], byDialog[TurnOf(h)]} \ {h, NoRun})
                   ELSE lost
        /\ stage' = [stage EXCEPT ![h] = "activating"] /\ UNCHANGED <<aborted, run>>
        BY <1>7, <2>1 DEF ActivateRun
  <2>3. IsAborted(h) \/ h \in lost \/ byTurn[TurnOf(h)] = h
        BY <1>7, <2>1 DEF ActivateRun, IsAborted
  <2> QED
        BY <1>7, <2>1, <2>2, <2>3, HandlersAssumption DEF ActivateRun
<1>8. ASSUME NEW h \in Handlers, ExecuteRun(h) PROVE Registered'
      BY <1>8, ExecuteKeeps DEF ExecuteRun
<1>9. ASSUME NEW h \in Handlers, RunTimesOut(h) PROVE Registered'
      BY <1>9 DEF RunTimesOut, Abort
<1>10. ASSUME NEW h \in Handlers, StartProcessing(h) PROVE Registered'
      BY <1>10, StartKeepsLocals DEF StartProcessing
<1>11. ASSUME NEW h \in Handlers, CompleteProcessing(h) PROVE Registered'
      BY <1>11 DEF CompleteProcessing, Commit
<1>12. ASSUME NEW h \in Handlers, FinalizeCompleted(h) PROVE Registered'
      BY <1>12 DEF FinalizeCompleted, Commit
<1>13. ASSUME NEW h \in Handlers, FinalizeUserStopped(h) PROVE Registered'
      BY <1>13 DEF FinalizeUserStopped, Commit
<1>14. ASSUME NEW h \in Handlers, FinalizeTimeout(h) PROVE Registered'
      BY <1>14 DEF FinalizeTimeout, Commit
<1>15. ASSUME NEW h \in Handlers, CommitCurrentFailure(h) PROVE Registered'
      BY <1>15 DEF CommitCurrentFailure, Commit
<1>16. ASSUME NEW h \in Handlers, NEW t \in Turns, NEW c \in Conns, Receive(h, t, c)
      PROVE  Registered'
      BY <1>16 DEF Receive
<1>17. ASSUME NEW t \in Turns, AcceptStop(t) PROVE Registered'
      BY <1>17 DEF AcceptStop, CommitStop
<1>18. ASSUME NEW t \in Turns, AbortRegisteredRun(t) PROVE Registered'
      BY <1>18 DEF AbortRegisteredRun, Abort
<1>19. ASSUME NEW t \in Turns, CompleteIdleStop(t) PROVE Registered'
      BY <1>19 DEF CompleteIdleStop, CommitStop
<1>20. CASE AssessTurnRecovery
      BY <1>20, HandlersAssumption DEF AssessTurnRecovery, Assess
<1>21. CASE RestartService
  <2>1. \A h \in Handlers : stage'[h] \in {"idle", "done"}
        BY <1>21, HandlersAssumption DEF RestartService
  <2> QED
        BY <2>1
<1>22. ASSUME NEW h \in Handlers, HandlerEnds(h) PROVE Registered'
  <2>1. \A g \in Handlers : g # h /\ run[h].bound = g => g \in lost
        BY <1>22, EndSteps DEF BindingsFit
  <2>2. UNCHANGED aborted
        BY <1>22, EndSteps
  <2>3. \A g \in Handlers, t \in Turns :
           byTurn[t] = g => byTurn'[t] = g \/ run[h].bound = g
        BY <1>22, EndUnregisters
  <2>4. \A g \in Handlers : stage[g] \in Accepting => run[g].turn \in Turns
        OBVIOUS
  <2> QED
        BY <1>22, <2>1, <2>2, <2>3, <2>4, EndKeeps
<1> QED
      BY <1>1, <1>2, <1>3, <1>4, <1>5, <1>6, <1>7, <1>8, <1>9, <1>10, <1>11, <1>12, <1>13,
         <1>14, <1>15, <1>16, <1>17, <1>18, <1>19, <1>20, <1>21, <1>22
      DEF Next, HandlerStep, StopStep, ClientRecovers, AgentObeysAbort, HandlerEnds

(***************************************************************************)
(* The inductive invariant.                                                *)
(***************************************************************************)
RunInv == Types /\ LocalsFit /\ (~overlapped => Owned)

LEMMA InitRunInv == Init => RunInv
<1> SUFFICES ASSUME Init PROVE RunInv
    OBVIOUS
<1> USE DEF Init
<1>1. Types
  <2>1. NoLocals \in Locals /\ NoSnapshot \in Snapshot
        BY DEF NoLocals, Locals, Runs, NoSnapshot, Snapshot, Ends
  <2>2. mishaps \in 0..MaxMishaps
        BY BoundsAssumption
  <2> QED
        BY <2>1, <2>2, FreeIsConnection DEF Types, Runs, Stages, StopStages
<1> USE DEF NoLocals, FreeConnection
<1>2. LocalsFit
      BY <1>1 DEF LocalsFit, Fresh, Settling
<1>3. OwnersFit /\ ReceivedFit
      BY HandlersAssumption DEF OwnersFit, ReceivedFit, Owner, Fresh, Accepting, At
<1>4. MetaFits /\ BindingsFit /\ RegistryFits /\ Registered
      BY HandlersAssumption DEF MetaFits, BindingsFit, RegistryFits, Registered, Accepting
<1> QED
      BY <1>1, <1>2, <1>3, <1>4 DEF RunInv, Owned


LEMMA OverlapsLast ==
    ASSUME Types, LocalsFit, Next, overlapped
    PROVE  overlapped'
<1> USE DEF At, Goto, Apply, registry
<1>1. ASSUME NEW h \in Handlers, BindExistingRun(h) PROVE overlapped'
      BY <1>1 DEF BindExistingRun
<1>2. ASSUME NEW h \in Handlers, Rebound(h) PROVE overlapped'
      BY <1>2 DEF Rebound
<1>3. ASSUME NEW h \in Handlers, RebindFails(h) PROVE overlapped'
      BY <1>3 DEF RebindFails
<1>4. ASSUME NEW h \in Handlers, ReserveRun(h) PROVE overlapped'
      BY <1>4 DEF ReserveRun
<1>5. ASSUME NEW h \in Handlers, CommitAction(h) PROVE overlapped'
      BY <1>5 DEF CommitAction, Commit, Assess
<1>6. ASSUME NEW x \in Handlers \cup {Client}, RecoverActiveTurn(x) PROVE overlapped'
      BY <1>6 DEF RecoverActiveTurn, NotRecovered
<1>7. ASSUME NEW h \in Handlers, ActivateRun(h) PROVE overlapped'
      BY <1>7 DEF ActivateRun
<1>8. ASSUME NEW h \in Handlers, ExecuteRun(h) PROVE overlapped'
      BY <1>8 DEF ExecuteRun
<1>9. ASSUME NEW h \in Handlers, RunTimesOut(h) PROVE overlapped'
      BY <1>9 DEF RunTimesOut, Abort
<1>10. ASSUME NEW h \in Handlers, StartProcessing(h) PROVE overlapped'
      BY <1>10 DEF StartProcessing
<1>11. ASSUME NEW h \in Handlers, CompleteProcessing(h) PROVE overlapped'
      BY <1>11 DEF CompleteProcessing, Commit
<1>12. ASSUME NEW h \in Handlers, FinalizeCompleted(h) PROVE overlapped'
      BY <1>12 DEF FinalizeCompleted, Commit
<1>13. ASSUME NEW h \in Handlers, FinalizeUserStopped(h) PROVE overlapped'
      BY <1>13 DEF FinalizeUserStopped, Commit
<1>14. ASSUME NEW h \in Handlers, FinalizeTimeout(h) PROVE overlapped'
      BY <1>14 DEF FinalizeTimeout, Commit
<1>15. ASSUME NEW h \in Handlers, CommitCurrentFailure(h) PROVE overlapped'
      BY <1>15 DEF CommitCurrentFailure, Commit
<1>16. ASSUME NEW h \in Handlers, NEW t \in Turns, NEW c \in Conns, Receive(h, t, c)
      PROVE  overlapped'
      BY <1>16 DEF Receive
<1>17. ASSUME NEW t \in Turns, AcceptStop(t) PROVE overlapped'
      BY <1>17 DEF AcceptStop, CommitStop
<1>18. ASSUME NEW t \in Turns, AbortRegisteredRun(t) PROVE overlapped'
      BY <1>18 DEF AbortRegisteredRun, Abort
<1>19. ASSUME NEW t \in Turns, CompleteIdleStop(t) PROVE overlapped'
      BY <1>19 DEF CompleteIdleStop, CommitStop
<1>20. CASE AssessTurnRecovery
      BY <1>20 DEF AssessTurnRecovery, Assess
<1>21. CASE RestartService
      BY <1>21 DEF RestartService
<1>22. ASSUME NEW h \in Handlers, HandlerEnds(h) PROVE overlapped'
      BY <1>22, EndSteps
<1> QED
      BY <1>1, <1>2, <1>3, <1>4, <1>5, <1>6, <1>7, <1>8, <1>9, <1>10, <1>11, <1>12, <1>13,
         <1>14, <1>15, <1>16, <1>17, <1>18, <1>19, <1>20, <1>21, <1>22
      DEF Next, HandlerStep, StopStep, ClientRecovers, AgentObeysAbort, HandlerEnds

LEMMA NextRunInv == RunInv /\ [Next]_vars => RunInv'
<1> SUFFICES ASSUME RunInv, [Next]_vars PROVE RunInv'
    OBVIOUS
<1> USE DEF RunInv
<1>1. CASE Next
  <2>1. Types' /\ LocalsFit'
        BY <1>1, NextTypes, LocalsStayFit
  <2>2. ASSUME ~overlapped' PROVE Owned'
    <3>1. Owned
          BY <1>1, <2>1, <2>2, OverlapsLast
    <3> QED
          BY <1>1, <2>2, <3>1, OwnersStayFit, ReceivedStayFit, MetaStaysFit, BindingsStayFit,
             RegistryStaysFit, RunsStayRegistered
          DEF Owned
  <2> QED
        BY <2>1, <2>2
<1>2. CASE UNCHANGED vars
      BY <1>2
      DEF vars, Types, LocalsFit, Owned, OwnersFit, ReceivedFit, MetaFits, BindingsFit,
         RegistryFits, Registered, Owner, ConnOf, TurnOf, State, At
<1> QED
      BY <1>1, <1>2

LEMMA RunInvHolds == Spec => []RunInv
BY InitRunInv, NextRunInv, PTL DEF Spec

\* Every variable keeps its type, and as long as no two commands pass the check of one
\* connection, a handler that has ended has taken its run out of the registry.
THEOREM RunTypes == Spec => []TypeOK
<1>1. RunInv => TypeOK
  <2> SUFFICES ASSUME RunInv PROVE TypeOK
      OBVIOUS
  <2>1. ASSUME NEW h \in Handlers, NEW t \in Turns, At(h, "done")
        PROVE  h \notin {byTurn[t], byDialog[t]} \/ overlapped
        BY <2>1 DEF RunInv, Owned, OwnersFit, RegistryFits, At
  <2> QED
        BY <2>1 DEF RunInv, Types, TypeOK
<1> QED
    BY <1>1, RunInvHolds, PTL

\* An agent that nobody has told to end is found by its turn, so that the turn can be
\* stopped and rebound and is not taken for one without a run, whatever other commands,
\* stops, timeouts, recoveries and restarts come in between.
THEOREM RunsFound == Spec => []RunsAreRegistered
<1>1. RunInv => RunsAreRegistered
  <2> SUFFICES ASSUME RunInv, NEW h \in Handlers, IsLive(h), ~Excused(h)
      PROVE  FindActiveRun(TurnOf(h)) = h
      BY DEF RunsAreRegistered
  <2>1. Owned /\ h \notin lost /\ stage[h] = "running"
        BY DEF RunInv, Excused, IsLive, At
  <2>2. run[h].signal = h /\ h # NoRun
        BY <2>1, HandlersAssumption DEF Owned, OwnersFit, At
  <2>3. aborted[h] = "no"
        BY <2>2 DEF IsLive, IsAborted
  <2>4. byTurn[TurnOf(h)] = h
        BY <2>1, <2>3 DEF Owned, Registered, Accepting
  <2> QED
        BY <2>2, <2>4 DEF FindActiveRun
<1> QED
    BY <1>1, RunInvHolds, PTL
=============================================================================
