-------------------------- MODULE TurnRunOpenProofs --------------------------
(***************************************************************************)
(* No agent works on a turn that was settled behind its back, for any      *)
(* number of turns, connections and commands.                              *)
(*                                                                         *)
(* A turn that is sent is accepted once, so one run at most works on it.   *)
(* Whoever settles it, a stop that took it for idle, a recovery or a       *)
(* handler whose connection names it, saw that no agent works on it, and   *)
(* none can begin afterwards: the turn has events by then.                 *)
(***************************************************************************)
EXTENDS TurnRunProofs

Sent == Turns \ Resends

\* A run whose agent works or is about to, and that nothing has happened to.
Active(h) ==
    /\ stage[h] \in {"accepted", "activating", "running"}
    /\ aborted[h] = "no" /\ h \notin lost

Begun(h) == Owner(h) /\ (stage[h] = "accepted" \/ State(h).meta # NoTurn)

Nobody(t) == \A h \in Handlers : Active(h) => TurnOf(h) # t

BegunOnce ==
    \A h \in Handlers : Begun(h) =>
        /\ applied[TurnOf(h)] # {}
        /\ TurnOf(h) \in Sent =>
              \A g \in Handlers : Begun(g) /\ TurnOf(g) = TurnOf(h) => g = h

ActiveOpen ==
    \A h \in Handlers : Active(h) /\ TurnOf(h) \in Sent =>
        Open(TurnOf(h)) /\ ~HasRecoverableFinalize(applied[TurnOf(h)])

StopsFit ==
    \A t \in Turns :
        /\ stop[t] # "none" => applied[t] # {}
        /\ stop[t] \in {"processed", "completed"} /\ t \in Sent => Nobody(t)

\* A snapshot that is still that of the turn was taken with no agent at work on it.
SnapsFit ==
    \A x \in Handlers \cup {Client} : stage[x] = "recovering" =>
        /\ snap[x].turn \in Turns /\ snap[x].events # {}
        /\ snap[x].events \subseteq applied[snap[x].turn]
        /\ snap[x].turn \in Sent /\ applied[snap[x].turn] = snap[x].events => Nobody(snap[x].turn)

TargetsFit ==
    \A h \in Handlers : stage[h] \in Settling /\ run[h].target \in Sent =>
        applied[run[h].target] # {} /\ Nobody(run[h].target)

Sound == BegunOnce /\ ActiveOpen /\ StopsFit /\ SnapsFit /\ TargetsFit

\* The command of h is accepted.
Begins(h) ==
    /\ stage[h] \in {"accepting", "retrying"} /\ stage'[h] = "accepted"
    /\ TurnOf(h) \in Turns
    /\ TurnOf(h) \in Sent => applied[TurnOf(h)] = {}
    /\ applied' = [applied EXCEPT ![TurnOf(h)] = @ \cup {"ACTION_ACCEPTED"}]
    /\ UNCHANGED <<run, conn, lost, aborted>>
    /\ \A g \in Handlers : g # h => stage'[g] = stage[g]

LEMMA EventsAreKept ==
    ASSUME Types, LocalsFit, Next
    PROVE  lost \subseteq lost' /\ \A u \in Turns : applied[u] \subseteq applied'[u]
<1> USE DEF At, Goto, Apply, registry, Types
<1>1. ASSUME NEW h \in Handlers, BindExistingRun(h)
      PROVE  lost \subseteq lost' /\ \A u \in Turns : applied[u] \subseteq applied'[u]
      BY <1>1 DEF BindExistingRun
<1>2. ASSUME NEW h \in Handlers, Rebound(h)
      PROVE  lost \subseteq lost' /\ \A u \in Turns : applied[u] \subseteq applied'[u]
      BY <1>2 DEF Rebound
<1>3. ASSUME NEW h \in Handlers, RebindFails(h)
      PROVE  lost \subseteq lost' /\ \A u \in Turns : applied[u] \subseteq applied'[u]
      BY <1>3 DEF RebindFails
<1>4. ASSUME NEW h \in Handlers, ReserveRun(h)
      PROVE  lost \subseteq lost' /\ \A u \in Turns : applied[u] \subseteq applied'[u]
      BY <1>4 DEF ReserveRun
<1>5. ASSUME NEW h \in Handlers, CommitAction(h)
      PROVE  lost \subseteq lost' /\ \A u \in Turns : applied[u] \subseteq applied'[u]
      BY <1>5 DEF CommitAction, Commit, Assess
<1>6. ASSUME NEW x \in Handlers \cup {Client}, RecoverActiveTurn(x)
      PROVE  lost \subseteq lost' /\ \A u \in Turns : applied[u] \subseteq applied'[u]
      BY <1>6 DEF RecoverActiveTurn, NotRecovered
<1>7. ASSUME NEW h \in Handlers, ActivateRun(h)
      PROVE  lost \subseteq lost' /\ \A u \in Turns : applied[u] \subseteq applied'[u]
      BY <1>7 DEF ActivateRun
<1>8. ASSUME NEW h \in Handlers, ExecuteRun(h)
      PROVE  lost \subseteq lost' /\ \A u \in Turns : applied[u] \subseteq applied'[u]
      BY <1>8 DEF ExecuteRun
<1>9. ASSUME NEW h \in Handlers, RunTimesOut(h)
      PROVE  lost \subseteq lost' /\ \A u \in Turns : applied[u] \subseteq applied'[u]
      BY <1>9 DEF RunTimesOut, Abort
<1>10. ASSUME NEW h \in Handlers, StartProcessing(h)
      PROVE  lost \subseteq lost' /\ \A u \in Turns : applied[u] \subseteq applied'[u]
      BY <1>10 DEF StartProcessing
<1>11. ASSUME NEW h \in Handlers, CompleteProcessing(h)
      PROVE  lost \subseteq lost' /\ \A u \in Turns : applied[u] \subseteq applied'[u]
      BY <1>11 DEF CompleteProcessing, Commit
<1>12. ASSUME NEW h \in Handlers, FinalizeCompleted(h)
      PROVE  lost \subseteq lost' /\ \A u \in Turns : applied[u] \subseteq applied'[u]
      BY <1>12 DEF FinalizeCompleted, Commit
<1>13. ASSUME NEW h \in Handlers, FinalizeUserStopped(h)
      PROVE  lost \subseteq lost' /\ \A u \in Turns : applied[u] \subseteq applied'[u]
      BY <1>13 DEF FinalizeUserStopped, Commit
<1>14. ASSUME NEW h \in Handlers, FinalizeTimeout(h)
      PROVE  lost \subseteq lost' /\ \A u \in Turns : applied[u] \subseteq applied'[u]
      BY <1>14 DEF FinalizeTimeout, Commit
<1>15. ASSUME NEW h \in Handlers, CommitCurrentFailure(h)
      PROVE  lost \subseteq lost' /\ \A u \in Turns : applied[u] \subseteq applied'[u]
      BY <1>15 DEF CommitCurrentFailure, Commit
<1>16. ASSUME NEW h \in Handlers, NEW t \in Turns, NEW c \in Conns, Receive(h, t, c)
      PROVE  lost \subseteq lost' /\ \A u \in Turns : applied[u] \subseteq applied'[u]
      BY <1>16 DEF Receive
<1>17. ASSUME NEW t \in Turns, AcceptStop(t)
      PROVE  lost \subseteq lost' /\ \A u \in Turns : applied[u] \subseteq applied'[u]
      BY <1>17 DEF AcceptStop, CommitStop
<1>18. ASSUME NEW t \in Turns, AbortRegisteredRun(t)
      PROVE  lost \subseteq lost' /\ \A u \in Turns : applied[u] \subseteq applied'[u]
      BY <1>18 DEF AbortRegisteredRun, Abort
<1>19. ASSUME NEW t \in Turns, CompleteIdleStop(t)
      PROVE  lost \subseteq lost' /\ \A u \in Turns : applied[u] \subseteq applied'[u]
      BY <1>19 DEF CompleteIdleStop, CommitStop
<1>20. CASE AssessTurnRecovery
      BY <1>20 DEF AssessTurnRecovery, Assess
<1>21. CASE RestartService
  <2>1. CASE UNCHANGED applied
        BY <1>21, <2>1 DEF RestartService
  <2>2. CASE \E t \in Turns :
               /\ Open(t)
               /\ Apply(t, IF HasRecoverableFinalize(applied[t]) THEN FinalizeEvent(applied[t])
                           ELSE "FAILED")
        BY <1>21, <2>2 DEF RestartService
  <2> QED
        BY <1>21, <2>1, <2>2 DEF RestartService
<1>22. ASSUME NEW h \in Handlers, HandlerEnds(h)
      PROVE  lost \subseteq lost' /\ \A u \in Turns : applied[u] \subseteq applied'[u]
      BY <1>22, EndSteps, EndKeeps
<1> QED
      BY <1>1, <1>2, <1>3, <1>4, <1>5, <1>6, <1>7, <1>8, <1>9, <1>10, <1>11, <1>12, <1>13,
         <1>14, <1>15, <1>16, <1>17, <1>18, <1>19, <1>20, <1>21, <1>22
      DEF Next, HandlerStep, StopStep, ClientRecovers, AgentObeysAbort, HandlerEnds

LEMMA CommandBegins ==
    ASSUME Types, LocalsFit, NEW h \in Handlers, CommitAction(h)
    PROVE  /\ Begins(h) \/ \E s \in {"caught", "recovering"} : Goto(h, s)
           /\ UNCHANGED <<run, conn, lost, aborted>>
<1> USE DEF Goto, Apply, At
<1>1. CASE /\ Accepts(TurnOf(h), "ACTION_ACCEPTED") /\ ~Repeated(TurnOf(h))
           /\ Apply(TurnOf(h), "ACTION_ACCEPTED") /\ Goto(h, "accepted")
      BY <1>1 DEF CommitAction, Accepts, CanApply, Repeated, Sent, Begins, LocalsFit, Types
<1>2. CASE \E s \in {"caught", "recovering"} : Goto(h, s)
      BY <1>2 DEF CommitAction
<1> QED
      BY <1>1, <1>2 DEF CommitAction, Commit, Assess

\* A run is at work because it was, or because its command is accepted.
ActiveFrom(k) ==
    Active(k)' => (Active(k) /\ TurnOf(k)' = TurnOf(k)) \/ Begins(k)

LEMMA ActiveBefore ==
    ASSUME Types, LocalsFit, Next
    PROVE  \A k \in Handlers : ActiveFrom(k)
<1> USE DEF At, Goto, Apply, registry, Types, Active, TurnOf, ActiveFrom
<1>1. ASSUME NEW h \in Handlers, BindExistingRun(h) PROVE \A k \in Handlers : ActiveFrom(k)
      BY <1>1 DEF BindExistingRun
<1>2. ASSUME NEW h \in Handlers, Rebound(h) PROVE \A k \in Handlers : ActiveFrom(k)
      BY <1>2 DEF Rebound
<1>3. ASSUME NEW h \in Handlers, RebindFails(h) PROVE \A k \in Handlers : ActiveFrom(k)
      BY <1>3 DEF RebindFails
<1>4. ASSUME NEW h \in Handlers, ReserveRun(h) PROVE \A k \in Handlers : ActiveFrom(k)
      BY <1>4 DEF ReserveRun
<1>5. ASSUME NEW h \in Handlers, CommitAction(h) PROVE \A k \in Handlers : ActiveFrom(k)
      BY <1>5, CommandBegins DEF Begins
<1>6. ASSUME NEW x \in Handlers \cup {Client}, RecoverActiveTurn(x)
      PROVE  \A k \in Handlers : ActiveFrom(k)
  <2>1. \A g \in Handlers : stage'[g] \in {stage[g], "retrying", "caught"}
        BY <1>6, HandlersAssumption DEF RecoverActiveTurn, NotRecovered
  <2> QED
        BY <1>6, <2>1 DEF RecoverActiveTurn
<1>7. ASSUME NEW h \in Handlers, ActivateRun(h) PROVE \A k \in Handlers : ActiveFrom(k)
      BY <1>7 DEF ActivateRun
<1>8. ASSUME NEW h \in Handlers, ExecuteRun(h) PROVE \A k \in Handlers : ActiveFrom(k)
      BY <1>8, ExecuteKeeps DEF ExecuteRun
<1>9. ASSUME NEW h \in Handlers, RunTimesOut(h) PROVE \A k \in Handlers : ActiveFrom(k)
      BY <1>9 DEF RunTimesOut, Abort
<1>10. ASSUME NEW h \in Handlers, StartProcessing(h) PROVE \A k \in Handlers : ActiveFrom(k)
      BY <1>10, StartKeepsLocals DEF StartProcessing
<1>11. ASSUME NEW h \in Handlers, CompleteProcessing(h)
      PROVE  \A k \in Handlers : ActiveFrom(k)
      BY <1>11 DEF CompleteProcessing, Commit
<1>12. ASSUME NEW h \in Handlers, FinalizeCompleted(h)
      PROVE  \A k \in Handlers : ActiveFrom(k)
      BY <1>12 DEF FinalizeCompleted, Commit
<1>13. ASSUME NEW h \in Handlers, FinalizeUserStopped(h)
      PROVE  \A k \in Handlers : ActiveFrom(k)
      BY <1>13 DEF FinalizeUserStopped, Commit
<1>14. ASSUME NEW h \in Handlers, FinalizeTimeout(h) PROVE \A k \in Handlers : ActiveFrom(k)
      BY <1>14 DEF FinalizeTimeout, Commit
<1>15. ASSUME NEW h \in Handlers, CommitCurrentFailure(h)
      PROVE  \A k \in Handlers : ActiveFrom(k)
      BY <1>15 DEF CommitCurrentFailure, Commit
<1>16. ASSUME NEW h \in Handlers, NEW t \in Turns, NEW c \in Conns, Receive(h, t, c)
      PROVE  \A k \in Handlers : ActiveFrom(k)
      BY <1>16 DEF Receive
<1>17. ASSUME NEW t \in Turns, AcceptStop(t) PROVE \A k \in Handlers : ActiveFrom(k)
      BY <1>17 DEF AcceptStop, CommitStop
<1>18. ASSUME NEW t \in Turns, AbortRegisteredRun(t) PROVE \A k \in Handlers : ActiveFrom(k)
      BY <1>18 DEF AbortRegisteredRun, Abort
<1>19. ASSUME NEW t \in Turns, CompleteIdleStop(t) PROVE \A k \in Handlers : ActiveFrom(k)
      BY <1>19 DEF CompleteIdleStop, CommitStop
<1>20. CASE AssessTurnRecovery
      BY <1>20 DEF AssessTurnRecovery, Assess
<1>21. CASE RestartService
  <2>1. \A h \in Handlers : stage'[h] \in {"idle", "done"}
        BY <1>21, HandlersAssumption DEF RestartService
  <2> QED
        BY <2>1
<1>22. ASSUME NEW h \in Handlers, HandlerEnds(h) PROVE \A k \in Handlers : ActiveFrom(k)
      BY <1>22, EndSteps, EndKeeps
<1> QED
      BY <1>1, <1>2, <1>3, <1>4, <1>5, <1>6, <1>7, <1>8, <1>9, <1>10, <1>11, <1>12, <1>13,
         <1>14, <1>15, <1>16, <1>17, <1>18, <1>19, <1>20, <1>21, <1>22
      DEF Next, HandlerStep, StopStep, ClientRecovers, AgentObeysAbort, HandlerEnds

\* Once a turn that is sent has events, no run begins to work on it.
LEMMA NobodyStays ==
    ASSUME Types, LocalsFit, Next, NEW t \in Sent, applied[t] # {}, Nobody(t)
    PROVE  Nobody(t)' /\ applied'[t] # {}
<1>1. applied'[t] # {}
      BY EventsAreKept DEF Sent
<1>2. ASSUME NEW k \in Handlers, Active(k)', TurnOf(k)' = t PROVE FALSE
  <2>1. CASE Active(k) /\ TurnOf(k)' = TurnOf(k)
        BY <1>2, <2>1 DEF Nobody
  <2>2. CASE Begins(k)
        BY <1>2, <2>2 DEF Begins, TurnOf
  <2> QED
        BY <1>2, <2>1, <2>2, ActiveBefore DEF ActiveFrom
<1> QED
      BY <1>1, <1>2 DEF Nobody

LEMMA BegunFollows ==
    ASSUME NEW k \in Handlers, Begun(k)',
           Owner(k), run'[k].conn = run[k].conn, run'[k].turn = run[k].turn,
           conn'[ConnOf(k)].meta \in {conn[ConnOf(k)].meta, NoTurn},
           stage'[k] = "accepted" => stage[k] = "accepted"
    PROVE  Begun(k) /\ TurnOf(k)' = TurnOf(k)
BY DEF Begun, Owner, ConnOf, TurnOf, State

\* So it is with the runs that have begun.
BegunFrom(k) ==
    Begun(k)' => (Begun(k) /\ TurnOf(k)' = TurnOf(k)) \/ Begins(k)

LEMMA BegunBefore ==
    ASSUME Types, LocalsFit, Owned, Next, ~overlapped'
    PROVE  \A k \in Handlers : BegunFrom(k)
<1> USE DEF At, Goto, Apply, registry, Types, Begun, Owner, TurnOf, ConnOf, State, Owned,
            BegunFrom
<1>1. ASSUME NEW h \in Handlers, BindExistingRun(h) PROVE \A k \in Handlers : BegunFrom(k)
  <2>1. RunningTurn(h) \in Handlers /\ RunningTurn(h) # h
        BY <1>1, FoundAreOwners, HandlersAssumption
        DEF BindExistingRun, CanBind, LocalsFit, OwnersFit, Fresh
  <2>2. /\ run' = [run EXCEPT ![h].bound = RunningTurn(h)]
        /\ stage' = [stage EXCEPT ![h] = "binding"]
        BY <1>1 DEF BindExistingRun
  <2>3. \A d \in Conns : conn'[d].meta = conn[d].meta
        BY <1>1 DEF BindExistingRun, Connection
  <2>4. \A g \in Handlers : Owner(g) => ConnOf(g) \in Conns
        BY DEF OwnersFit, LocalsFit, Fresh
  <2>5. run'[h].bound # h /\ \A g \in Handlers : g # h => run'[g] = run[g] /\ stage'[g] = stage[g]
        BY <2>1, <2>2 DEF Locals
  <2> QED
        BY <2>3, <2>4, <2>5
<1>2. ASSUME NEW h \in Handlers, Rebound(h) PROVE \A k \in Handlers : BegunFrom(k)
      BY <1>2 DEF Rebound
<1>3. ASSUME NEW h \in Handlers, RebindFails(h) PROVE \A k \in Handlers : BegunFrom(k)
      BY <1>3 DEF RebindFails
<1>4. ASSUME NEW h \in Handlers, ReserveRun(h) PROVE \A k \in Handlers : BegunFrom(k)
  <2>1. Owner(h)' /\ (~Begun(h))'
    <3>1. \A g \in Handlers : Owner(g) => ConnOf(g) # ConnOf(h)
          BY <1>4, OwnersApart DEF ReserveRun
    <3>2. State(h).meta = NoTurn /\ ConnOf(h) \in Conns
          BY <1>4, <3>1 DEF ReserveRun, MetaFits, LocalsFit
    <3>3. conn'[ConnOf(h)].meta = NoTurn
          BY <1>4, <3>2 DEF ReserveRun, Connection
    <3> QED
          BY <1>4, <3>3 DEF ReserveRun, Locals
  <2>2. \A g \in Handlers : g # h => run'[g] = run[g] /\ stage'[g] = stage[g]
        BY <1>4 DEF ReserveRun
  <2>3. \A d \in Conns : conn'[d].meta = conn[d].meta
        BY <1>4 DEF ReserveRun, Connection
  <2>4. \A g \in Handlers : Owner(g) => ConnOf(g) \in Conns
        BY DEF OwnersFit, LocalsFit, Fresh
  <2> QED
        BY <2>1, <2>2, <2>3, <2>4
<1>5. ASSUME NEW h \in Handlers, CommitAction(h) PROVE \A k \in Handlers : BegunFrom(k)
      BY <1>5, CommandBegins DEF Begins
<1>6. ASSUME NEW x \in Handlers \cup {Client}, RecoverActiveTurn(x)
      PROVE  \A k \in Handlers : BegunFrom(k)
      BY <1>6 DEF RecoverActiveTurn, NotRecovered
<1>7. ASSUME NEW h \in Handlers, ActivateRun(h) PROVE \A k \in Handlers : BegunFrom(k)
  <2>1. Begun(h) /\ UNCHANGED run
        BY <1>7 DEF ActivateRun, OwnersFit, Accepting
  <2>2. \A g \in Handlers : g # h => stage'[g] = stage[g]
        BY <1>7 DEF ActivateRun
  <2>3. \A g \in Handlers : Owner(g) /\ g # h => ConnOf(g) # ConnOf(h)
        BY <2>1, OwnersApart
  <2>4. conn' = [conn EXCEPT ![ConnOf(h)].meta = TurnOf(h)]
        BY <1>7 DEF ActivateRun
  <2>5. \A g \in Handlers : Owner(g) => ConnOf(g) \in Conns
        BY DEF OwnersFit, LocalsFit, Fresh
  <2> QED
        BY <2>1, <2>2, <2>3, <2>4, <2>5
<1>8. ASSUME NEW h \in Handlers, ExecuteRun(h) PROVE \A k \in Handlers : BegunFrom(k)
  <2>1. \A g \in Handlers : Owner(g) => ConnOf(g) \in Conns
        BY DEF OwnersFit, LocalsFit, Fresh
  <2>2. \A g \in Handlers : stage'[g] = "accepted" => stage[g] = "accepted"
        BY <1>8 DEF ExecuteRun
  <2> QED
        BY <1>8, <2>1, <2>2, ExecuteKeeps
<1>9. ASSUME NEW h \in Handlers, RunTimesOut(h) PROVE \A k \in Handlers : BegunFrom(k)
      BY <1>9 DEF RunTimesOut, Abort
<1>10. ASSUME NEW h \in Handlers, StartProcessing(h) PROVE \A k \in Handlers : BegunFrom(k)
      BY <1>10, StartKeepsLocals DEF StartProcessing
<1>11. ASSUME NEW h \in Handlers, CompleteProcessing(h)
      PROVE  \A k \in Handlers : BegunFrom(k)
      BY <1>11 DEF CompleteProcessing, Commit
<1>12. ASSUME NEW h \in Handlers, FinalizeCompleted(h) PROVE \A k \in Handlers : BegunFrom(k)
      BY <1>12 DEF FinalizeCompleted, Commit
<1>13. ASSUME NEW h \in Handlers, FinalizeUserStopped(h)
      PROVE  \A k \in Handlers : BegunFrom(k)
      BY <1>13 DEF FinalizeUserStopped, Commit
<1>14. ASSUME NEW h \in Handlers, FinalizeTimeout(h) PROVE \A k \in Handlers : BegunFrom(k)
      BY <1>14 DEF FinalizeTimeout, Commit
<1>15. ASSUME NEW h \in Handlers, CommitCurrentFailure(h)
      PROVE  \A k \in Handlers : BegunFrom(k)
      BY <1>15 DEF CommitCurrentFailure, Commit
<1>16. ASSUME NEW h \in Handlers, NEW t \in Turns, NEW c \in Conns, Receive(h, t, c)
      PROVE  \A k \in Handlers : BegunFrom(k)
  <2>1. run'[h].bound = NoRun /\ \A g \in Handlers : g # h => run'[g] = run[g]
        BY <1>16 DEF Receive, LocalsFit, Fresh, Locals
  <2> QED
        BY <1>16, <2>1, HandlersAssumption DEF Receive
<1>17. ASSUME NEW t \in Turns, AcceptStop(t) PROVE \A k \in Handlers : BegunFrom(k)
      BY <1>17 DEF AcceptStop, CommitStop
<1>18. ASSUME NEW t \in Turns, AbortRegisteredRun(t) PROVE \A k \in Handlers : BegunFrom(k)
      BY <1>18 DEF AbortRegisteredRun, Abort
<1>19. ASSUME NEW t \in Turns, CompleteIdleStop(t) PROVE \A k \in Handlers : BegunFrom(k)
      BY <1>19 DEF CompleteIdleStop, CommitStop
<1>20. CASE AssessTurnRecovery
      BY <1>20 DEF AssessTurnRecovery, Assess
<1>21. CASE RestartService
  <2>1. \A h \in Handlers : run'[h].bound = NoRun
        BY <1>21 DEF RestartService, Ended, NoLocals
  <2> QED
        BY <2>1, HandlersAssumption
<1>22. ASSUME NEW h \in Handlers, HandlerEnds(h) PROVE \A k \in Handlers : BegunFrom(k)
  <2>1. \A d \in Conns : conn'[d] = conn[d] \/ conn'[d].meta = NoTurn
    <3>1. CASE Release(h)
          BY <3>1 DEF Release, FreeConnection
    <3> QED
          BY <1>22, <3>1, EndSteps DEF Settles, Finalizes
  <2>2. \A g \in Handlers : Owner(g) => ConnOf(g) \in Conns
        BY DEF OwnersFit, LocalsFit, Fresh
  <2> QED
        BY <1>22, <2>1, <2>2, EndKeeps, HandlersAssumption, BegunFollows
<1> QED
      BY <1>1, <1>2, <1>3, <1>4, <1>5, <1>6, <1>7, <1>8, <1>9, <1>10, <1>11, <1>12, <1>13,
         <1>14, <1>15, <1>16, <1>17, <1>18, <1>19, <1>20, <1>21, <1>22
      DEF Next, HandlerStep, StopStep, ClientRecovers, AgentObeysAbort, HandlerEnds

LEMMA ActiveIsBegun ==
    ASSUME LocalsFit, Owned, NEW h \in Handlers, Active(h)
    PROVE  Begun(h) /\ TurnOf(h) \in Turns
BY TurnsAssumption DEF LocalsFit, Owned, OwnersFit, Accepting, Activated, Active, Begun

LEMMA BegunHasTurn ==
    ASSUME LocalsFit, Owned, NEW h \in Handlers, Begun(h)
    PROVE  TurnOf(h) \in Turns /\ ConnOf(h) \in Conns
BY DEF LocalsFit, Owned, OwnersFit, Begun, Fresh

LEMMA BegunStaysOnce ==
    ASSUME Types, LocalsFit, Owned, BegunOnce, Next, ~overlapped'
    PROVE  BegunOnce'
<1> SUFFICES ASSUME NEW h \in Handlers, Begun(h)'
    PROVE  /\ applied'[TurnOf(h)'] # {}
           /\ \A g \in Handlers :
                 Begun(g)' /\ TurnOf(g)' = TurnOf(h)' /\ TurnOf(h)' \in Sent => g = h
    BY DEF BegunOnce
<1>1. CASE Begun(h) /\ TurnOf(h)' = TurnOf(h)
  <2>1. applied[TurnOf(h)] # {} /\ applied'[TurnOf(h)] # {}
        BY <1>1, EventsAreKept, BegunHasTurn DEF BegunOnce
  <2>2. ASSUME NEW g \in Handlers, Begun(g)', TurnOf(g)' = TurnOf(h)', TurnOf(h)' \in Sent
        PROVE  g = h
    <3>1. CASE Begun(g) /\ TurnOf(g)' = TurnOf(g)
          BY <1>1, <2>2, <3>1 DEF BegunOnce
    <3>2. CASE Begins(g)
          BY <1>1, <2>1, <2>2, <3>2 DEF Begins, TurnOf
    <3> QED
          BY <2>2, <3>1, <3>2, BegunBefore DEF BegunFrom
  <2> QED
        BY <1>1, <2>1, <2>2
<1>2. CASE Begins(h)
  <2>1. TurnOf(h) \in Turns /\ TurnOf(h)' = TurnOf(h) /\ applied'[TurnOf(h)] # {}
        BY <1>2 DEF Begins, TurnOf, Types
  <2>2. ASSUME NEW g \in Handlers, Begun(g)', TurnOf(g)' = TurnOf(h)', TurnOf(h)' \in Sent
        PROVE  g = h
    <3>1. CASE Begun(g) /\ TurnOf(g)' = TurnOf(g)
          BY <1>2, <2>1, <2>2, <3>1 DEF Begins, BegunOnce
    <3>2. CASE Begins(g)
          BY <1>2, <3>2 DEF Begins
    <3> QED
          BY <2>2, <3>1, <3>2, BegunBefore DEF BegunFrom
  <2> QED
        BY <2>1, <2>2
<1> QED
    BY <1>1, <1>2, BegunBefore DEF BegunFrom

\* At most one run is begun on a turn that is sent: if it is not at work, no run is.
LEMMA OthersAreIdle ==
    ASSUME LocalsFit, Owned, BegunOnce, NEW h \in Handlers, Begun(h), TurnOf(h) \in Sent,
           ~Active(h)
    PROVE  Nobody(TurnOf(h)) /\ applied[TurnOf(h)] # {}
BY ActiveIsBegun DEF Nobody, BegunOnce

\* The registry does not miss an agent.
LEMMA FoundByTurn ==
    ASSUME LocalsFit, Owned, NEW t \in Turns, FindActiveRun(t) = NoRun
    PROVE  Nobody(t)
BY HandlersAssumption
   DEF Nobody, Active, Owned, Registered, Accepting, FindActiveRun, LocalsFit, TurnOf

\* How a recovery gets its snapshot.
SnapFrom(y) ==
    stage'[y] = "recovering" =>
       \/ stage[y] = "recovering" /\ snap'[y] = snap[y]
       \/ \E u \in Turns : Open(u) /\ Assess(y, u) /\ UNCHANGED applied

LEMMA SnapBefore ==
    ASSUME Types, LocalsFit, Next
    PROVE  \A y \in Handlers \cup {Client} : SnapFrom(y)
<1> USE DEF At, Goto, Apply, registry, Types, SnapFrom
<1>1. ASSUME NEW h \in Handlers, BindExistingRun(h)
      PROVE  \A y \in Handlers \cup {Client} : SnapFrom(y)
      BY <1>1 DEF BindExistingRun
<1>2. ASSUME NEW h \in Handlers, Rebound(h)
      PROVE  \A y \in Handlers \cup {Client} : SnapFrom(y)
      BY <1>2 DEF Rebound
<1>3. ASSUME NEW h \in Handlers, RebindFails(h)
      PROVE  \A y \in Handlers \cup {Client} : SnapFrom(y)
      BY <1>3 DEF RebindFails
<1>4. ASSUME NEW h \in Handlers, ReserveRun(h)
      PROVE  \A y \in Handlers \cup {Client} : SnapFrom(y)
      BY <1>4 DEF ReserveRun
<1>5. ASSUME NEW h \in Handlers, CommitAction(h)
      PROVE  \A y \in Handlers \cup {Client} : SnapFrom(y)
  <2>1. CASE \E u \in Turns : Open(u) /\ Assess(h, u) /\ UNCHANGED applied
    <3>1. \A y \in Handlers \cup {Client} : y # h => stage'[y] = stage[y] /\ snap'[y] = snap[y]
          BY <2>1 DEF Assess
    <3> QED
          BY <2>1, <3>1
  <2>2. CASE UNCHANGED snap /\ \E s \in {"accepted", "caught"} : Goto(h, s)
        BY <2>2
  <2> QED
        BY <1>5, <2>1, <2>2 DEF CommitAction, Commit
<1>6. ASSUME NEW x \in Handlers \cup {Client}, RecoverActiveTurn(x)
      PROVE  \A y \in Handlers \cup {Client} : SnapFrom(y)
  <2>1. /\ \A y \in Handlers \cup {Client} : y # x => stage'[y] = stage[y] /\ snap'[y] = snap[y]
        /\ stage'[x] # "recovering"
        BY <1>6 DEF RecoverActiveTurn, NotRecovered
  <2> QED
        BY <2>1
<1>7. ASSUME NEW h \in Handlers, ActivateRun(h)
      PROVE  \A y \in Handlers \cup {Client} : SnapFrom(y)
      BY <1>7 DEF ActivateRun
<1>8. ASSUME NEW h \in Handlers, ExecuteRun(h)
      PROVE  \A y \in Handlers \cup {Client} : SnapFrom(y)
      BY <1>8 DEF ExecuteRun
<1>9. ASSUME NEW h \in Handlers, RunTimesOut(h)
      PROVE  \A y \in Handlers \cup {Client} : SnapFrom(y)
      BY <1>9 DEF RunTimesOut, Abort
<1>10. ASSUME NEW h \in Handlers, StartProcessing(h)
      PROVE  \A y \in Handlers \cup {Client} : SnapFrom(y)
      BY <1>10 DEF StartProcessing
<1>11. ASSUME NEW h \in Handlers, CompleteProcessing(h)
      PROVE  \A y \in Handlers \cup {Client} : SnapFrom(y)
      BY <1>11 DEF CompleteProcessing, Commit
<1>12. ASSUME NEW h \in Handlers, FinalizeCompleted(h)
      PROVE  \A y \in Handlers \cup {Client} : SnapFrom(y)
      BY <1>12 DEF FinalizeCompleted, Commit
<1>13. ASSUME NEW h \in Handlers, FinalizeUserStopped(h)
      PROVE  \A y \in Handlers \cup {Client} : SnapFrom(y)
      BY <1>13 DEF FinalizeUserStopped, Commit
<1>14. ASSUME NEW h \in Handlers, FinalizeTimeout(h)
      PROVE  \A y \in Handlers \cup {Client} : SnapFrom(y)
      BY <1>14 DEF FinalizeTimeout, Commit
<1>15. ASSUME NEW h \in Handlers, CommitCurrentFailure(h)
      PROVE  \A y \in Handlers \cup {Client} : SnapFrom(y)
      BY <1>15 DEF CommitCurrentFailure, Commit
<1>16. ASSUME NEW h \in Handlers, NEW t \in Turns, NEW c \in Conns, Receive(h, t, c)
      PROVE  \A y \in Handlers \cup {Client} : SnapFrom(y)
      BY <1>16 DEF Receive
<1>17. ASSUME NEW t \in Turns, AcceptStop(t)
      PROVE  \A y \in Handlers \cup {Client} : SnapFrom(y)
      BY <1>17 DEF AcceptStop, CommitStop
<1>18. ASSUME NEW t \in Turns, AbortRegisteredRun(t)
      PROVE  \A y \in Handlers \cup {Client} : SnapFrom(y)
      BY <1>18 DEF AbortRegisteredRun, Abort
<1>19. ASSUME NEW t \in Turns, CompleteIdleStop(t)
      PROVE  \A y \in Handlers \cup {Client} : SnapFrom(y)
      BY <1>19 DEF CompleteIdleStop, CommitStop
<1>20. CASE AssessTurnRecovery
  <2>1. PICK u \in Turns : Open(u) /\ Assess(Client, u) /\ UNCHANGED applied
        BY <1>20 DEF AssessTurnRecovery
  <2>2. \A y \in Handlers \cup {Client} : y # Client => stage'[y] = stage[y] /\ snap'[y] = snap[y]
        BY <2>1 DEF Assess
  <2> QED
        BY <2>1, <2>2
<1>21. CASE RestartService
      BY <1>21 DEF RestartService
<1>22. ASSUME NEW h \in Handlers, HandlerEnds(h)
      PROVE  \A y \in Handlers \cup {Client} : SnapFrom(y)
      BY <1>22, EndSteps DEF Release, Settles, Finalizes
<1> QED
      BY <1>1, <1>2, <1>3, <1>4, <1>5, <1>6, <1>7, <1>8, <1>9, <1>10, <1>11, <1>12, <1>13,
         <1>14, <1>15, <1>16, <1>17, <1>18, <1>19, <1>20, <1>21, <1>22
      DEF Next, HandlerStep, StopStep, ClientRecovers, AgentObeysAbort, HandlerEnds

LEMMA SnapsStayFit ==
    ASSUME Types, LocalsFit, Owned, ActiveOpen, SnapsFit, Next
    PROVE  SnapsFit'
<1> SUFFICES ASSUME NEW x \in Handlers \cup {Client}, stage'[x] = "recovering"
    PROVE  /\ snap'[x].turn \in Turns /\ snap'[x].events # {}
           /\ snap'[x].events \subseteq applied'[snap'[x].turn]
           /\ \A u \in Sent : u = snap'[x].turn /\ applied'[u] = snap'[x].events => Nobody(u)'
    BY DEF SnapsFit, Nobody, TurnOf
<1>1. CASE stage[x] = "recovering" /\ snap'[x] = snap[x]
  <2>1. applied[snap[x].turn] \subseteq applied'[snap[x].turn]
        BY <1>1, EventsAreKept DEF SnapsFit
  <2>2. ASSUME NEW u \in Sent, u = snap[x].turn, applied'[u] = snap[x].events
        PROVE  Nobody(u)'
    <3>1. applied[u] = snap[x].events /\ applied[u] # {}
          BY <1>1, <2>1, <2>2 DEF SnapsFit
    <3>2. Nobody(u)
          BY <1>1, <2>2, <3>1 DEF SnapsFit
    <3> QED
          BY <3>1, <3>2, NobodyStays
  <2> QED
        BY <1>1, <2>1, <2>2 DEF SnapsFit
<1>2. ASSUME NEW t \in Turns, Open(t), Assess(x, t), UNCHANGED applied
      PROVE  /\ snap'[x].turn = t /\ snap'[x].events = applied[t] /\ applied[t] # {}
             /\ t \in Sent => Nobody(t)'
  <2>1. snap'[x].turn = t /\ snap'[x].events = applied[t] /\ applied[t] # {}
        BY <1>2 DEF Assess, Open, Types
  <2>2. Nobody(t) \/ t \notin Sent
        BY <1>2, FoundByTurn DEF Assess, ActiveOpen, Nobody
  <2> QED
        BY <2>1, <2>2, NobodyStays
<1> QED
    BY <1>1, <1>2, SnapBefore DEF SnapFrom

\* How a stop gets where it is.
StopFrom(u) ==
    \/ stop'[u] \in {"none", stop[u]}
    \/ stop'[u] = "accepted" /\ applied'[u] # {}
    \/ stop[u] = "accepted" /\ FindActiveRun(u) = NoRun
    \/ stop[u] = "processed" /\ stop'[u] = "completed"

LEMMA StopBefore ==
    ASSUME Types, LocalsFit, Next
    PROVE  \A u \in Turns : StopFrom(u)
<1> USE DEF At, Goto, Apply, registry, Types, StopFrom
<1>1. ASSUME NEW h \in Handlers, BindExistingRun(h) PROVE \A u \in Turns : StopFrom(u)
      BY <1>1 DEF BindExistingRun
<1>2. ASSUME NEW h \in Handlers, Rebound(h) PROVE \A u \in Turns : StopFrom(u)
      BY <1>2 DEF Rebound
<1>3. ASSUME NEW h \in Handlers, RebindFails(h) PROVE \A u \in Turns : StopFrom(u)
      BY <1>3 DEF RebindFails
<1>4. ASSUME NEW h \in Handlers, ReserveRun(h) PROVE \A u \in Turns : StopFrom(u)
      BY <1>4 DEF ReserveRun
<1>5. ASSUME NEW h \in Handlers, CommitAction(h) PROVE \A u \in Turns : StopFrom(u)
      BY <1>5 DEF CommitAction, Commit, Assess
<1>6. ASSUME NEW x \in Handlers \cup {Client}, RecoverActiveTurn(x)
      PROVE  \A u \in Turns : StopFrom(u)
      BY <1>6 DEF RecoverActiveTurn, NotRecovered
<1>7. ASSUME NEW h \in Handlers, ActivateRun(h) PROVE \A u \in Turns : StopFrom(u)
      BY <1>7 DEF ActivateRun
<1>8. ASSUME NEW h \in Handlers, ExecuteRun(h) PROVE \A u \in Turns : StopFrom(u)
      BY <1>8 DEF ExecuteRun
<1>9. ASSUME NEW h \in Handlers, RunTimesOut(h) PROVE \A u \in Turns : StopFrom(u)
      BY <1>9 DEF RunTimesOut, Abort
<1>10. ASSUME NEW h \in Handlers, StartProcessing(h) PROVE \A u \in Turns : StopFrom(u)
      BY <1>10 DEF StartProcessing
<1>11. ASSUME NEW h \in Handlers, CompleteProcessing(h) PROVE \A u \in Turns : StopFrom(u)
      BY <1>11 DEF CompleteProcessing, Commit
<1>12. ASSUME NEW h \in Handlers, FinalizeCompleted(h) PROVE \A u \in Turns : StopFrom(u)
      BY <1>12 DEF FinalizeCompleted, Commit
<1>13. ASSUME NEW h \in Handlers, FinalizeUserStopped(h) PROVE \A u \in Turns : StopFrom(u)
      BY <1>13 DEF FinalizeUserStopped, Commit
<1>14. ASSUME NEW h \in Handlers, FinalizeTimeout(h) PROVE \A u \in Turns : StopFrom(u)
      BY <1>14 DEF FinalizeTimeout, Commit
<1>15. ASSUME NEW h \in Handlers, CommitCurrentFailure(h) PROVE \A u \in Turns : StopFrom(u)
      BY <1>15 DEF CommitCurrentFailure, Commit
<1>16. ASSUME NEW h \in Handlers, NEW t \in Turns, NEW c \in Conns, Receive(h, t, c)
      PROVE  \A u \in Turns : StopFrom(u)
      BY <1>16 DEF Receive
<1>17. ASSUME NEW t \in Turns, AcceptStop(t) PROVE \A u \in Turns : StopFrom(u)
  <2>1. \A u \in Turns : u # t => stop'[u] = stop[u]
        BY <1>17 DEF AcceptStop, CommitStop
  <2>2. stop'[t] = "none" \/ (stop'[t] = "accepted" /\ applied'[t] # {})
    <3>1. CASE Apply(t, "STOP_ACCEPTED") /\ stop' = [stop EXCEPT ![t] = "accepted"]
          BY <3>1
    <3>2. CASE stop' = [stop EXCEPT ![t] = "none"]
          BY <3>2
    <3> QED
          BY <1>17, <3>1, <3>2 DEF AcceptStop, CommitStop
  <2> QED
        BY <2>1, <2>2
<1>18. ASSUME NEW t \in Turns, AbortRegisteredRun(t) PROVE \A u \in Turns : StopFrom(u)
      BY <1>18 DEF AbortRegisteredRun, Abort
<1>19. ASSUME NEW t \in Turns, CompleteIdleStop(t) PROVE \A u \in Turns : StopFrom(u)
      BY <1>19 DEF CompleteIdleStop, CommitStop
<1>20. CASE AssessTurnRecovery
      BY <1>20 DEF AssessTurnRecovery, Assess
<1>21. CASE RestartService
      BY <1>21 DEF RestartService
<1>22. ASSUME NEW h \in Handlers, HandlerEnds(h) PROVE \A u \in Turns : StopFrom(u)
      BY <1>22, EndSteps
<1> QED
      BY <1>1, <1>2, <1>3, <1>4, <1>5, <1>6, <1>7, <1>8, <1>9, <1>10, <1>11, <1>12, <1>13,
         <1>14, <1>15, <1>16, <1>17, <1>18, <1>19, <1>20, <1>21, <1>22
      DEF Next, HandlerStep, StopStep, ClientRecovers, AgentObeysAbort, HandlerEnds

LEMMA StopsStayFit ==
    ASSUME Types, LocalsFit, Owned, StopsFit, Next
    PROVE  StopsFit'
<1> SUFFICES ASSUME NEW t \in Turns, stop'[t] # "none"
    PROVE  /\ applied'[t] # {}
           /\ stop'[t] \in {"processed", "completed"} /\ t \in Sent => Nobody(t)'
    BY DEF StopsFit
<1>1. CASE stop'[t] = "accepted" /\ applied'[t] # {}
      BY <1>1
<1>2. CASE /\ stop[t] # "none"
           /\ stop'[t] \in {"processed", "completed"} /\ t \in Sent => Nobody(t)
  <2>1. applied[t] # {} /\ applied'[t] # {}
        BY <1>2, EventsAreKept DEF StopsFit
  <2> QED
        BY <1>2, <2>1, NobodyStays
<1> QED
    BY <1>1, <1>2, StopBefore, FoundByTurn DEF StopsFit, StopFrom

\* How a handler gets the turn it settles.
TargetFrom(k) ==
    stage'[k] \in Settling =>
       \/ stage[k] \in Settling /\ run'[k].target = run[k].target
       \/ CompleteProcessing(k)
       \/ HandlerEnds(k) /\ (Settles(k) \/ Finalizes(k))

LEMMA TargetBefore ==
    ASSUME Types, LocalsFit, Next
    PROVE  \A k \in Handlers : TargetFrom(k)
<1> USE DEF At, Goto, Apply, registry, Types, Locals, Settling, TargetFrom
<1>1. ASSUME NEW h \in Handlers, BindExistingRun(h) PROVE \A k \in Handlers : TargetFrom(k)
      BY <1>1 DEF BindExistingRun
<1>2. ASSUME NEW h \in Handlers, Rebound(h) PROVE \A k \in Handlers : TargetFrom(k)
      BY <1>2 DEF Rebound
<1>3. ASSUME NEW h \in Handlers, RebindFails(h) PROVE \A k \in Handlers : TargetFrom(k)
      BY <1>3 DEF RebindFails
<1>4. ASSUME NEW h \in Handlers, ReserveRun(h) PROVE \A k \in Handlers : TargetFrom(k)
      BY <1>4 DEF ReserveRun
<1>5. ASSUME NEW h \in Handlers, CommitAction(h) PROVE \A k \in Handlers : TargetFrom(k)
      BY <1>5 DEF CommitAction, Commit, Assess
<1>6. ASSUME NEW x \in Handlers \cup {Client}, RecoverActiveTurn(x)
      PROVE  \A k \in Handlers : TargetFrom(k)
      BY <1>6 DEF RecoverActiveTurn, NotRecovered
<1>7. ASSUME NEW h \in Handlers, ActivateRun(h) PROVE \A k \in Handlers : TargetFrom(k)
      BY <1>7 DEF ActivateRun
<1>8. ASSUME NEW h \in Handlers, ExecuteRun(h) PROVE \A k \in Handlers : TargetFrom(k)
      BY <1>8, ExecuteKeeps DEF ExecuteRun
<1>9. ASSUME NEW h \in Handlers, RunTimesOut(h) PROVE \A k \in Handlers : TargetFrom(k)
      BY <1>9 DEF RunTimesOut, Abort
<1>10. ASSUME NEW h \in Handlers, StartProcessing(h) PROVE \A k \in Handlers : TargetFrom(k)
      BY <1>10, StartKeepsLocals DEF StartProcessing
<1>11. ASSUME NEW h \in Handlers, CompleteProcessing(h)
      PROVE  \A k \in Handlers : TargetFrom(k)
      BY <1>11 DEF CompleteProcessing, Commit
<1>12. ASSUME NEW h \in Handlers, FinalizeCompleted(h)
      PROVE  \A k \in Handlers : TargetFrom(k)
      BY <1>12 DEF FinalizeCompleted, Commit
<1>13. ASSUME NEW h \in Handlers, FinalizeUserStopped(h)
      PROVE  \A k \in Handlers : TargetFrom(k)
      BY <1>13 DEF FinalizeUserStopped, Commit
<1>14. ASSUME NEW h \in Handlers, FinalizeTimeout(h) PROVE \A k \in Handlers : TargetFrom(k)
      BY <1>14 DEF FinalizeTimeout, Commit
<1>15. ASSUME NEW h \in Handlers, CommitCurrentFailure(h)
      PROVE  \A k \in Handlers : TargetFrom(k)
      BY <1>15 DEF CommitCurrentFailure, Commit
<1>16. ASSUME NEW h \in Handlers, NEW t \in Turns, NEW c \in Conns, Receive(h, t, c)
      PROVE  \A k \in Handlers : TargetFrom(k)
      BY <1>16 DEF Receive
<1>17. ASSUME NEW t \in Turns, AcceptStop(t) PROVE \A k \in Handlers : TargetFrom(k)
      BY <1>17 DEF AcceptStop, CommitStop
<1>18. ASSUME NEW t \in Turns, AbortRegisteredRun(t) PROVE \A k \in Handlers : TargetFrom(k)
      BY <1>18 DEF AbortRegisteredRun, Abort
<1>19. ASSUME NEW t \in Turns, CompleteIdleStop(t) PROVE \A k \in Handlers : TargetFrom(k)
      BY <1>19 DEF CompleteIdleStop, CommitStop
<1>20. CASE AssessTurnRecovery
      BY <1>20 DEF AssessTurnRecovery, Assess
<1>21. CASE RestartService
      BY <1>21 DEF RestartService
<1>22. ASSUME NEW h \in Handlers, HandlerEnds(h) PROVE \A k \in Handlers : TargetFrom(k)
  <2>1. CASE Release(h)
        BY <2>1 DEF Release, Ended
  <2> QED
        BY <1>22, <2>1, EndSteps, EndKeeps
<1> QED
      BY <1>1, <1>2, <1>3, <1>4, <1>5, <1>6, <1>7, <1>8, <1>9, <1>10, <1>11, <1>12, <1>13,
         <1>14, <1>15, <1>16, <1>17, <1>18, <1>19, <1>20, <1>21, <1>22
      DEF Next, HandlerStep, StopStep, ClientRecovers, AgentObeysAbort, HandlerEnds

\* Whoever is about to settle the turn its connection names is the handler of that
\* turn's run, or has hit it.
LEMMA TargetsAreIdle ==
    ASSUME Types, LocalsFit, Owned, BegunOnce, Next, ~overlapped', NEW h \in Handlers,
           ConnOf(h) \in Conns, State(h).meta \in Sent, stage'[h] \in Settling,
           CompleteProcessing(h) \/ (HandlerEnds(h) /\ (Settles(h) \/ Finalizes(h)))
    PROVE  applied'[State(h).meta] # {}
           /\ \A j \in Handlers : Active(j)' => TurnOf(j)' # State(h).meta
<1> DEFINE t == State(h).meta
<1>1. PICK k \in Handlers : Owner(k) /\ ConnOf(k) = ConnOf(h) /\ TurnOf(k) = t
      BY TurnsAssumption DEF Owned, MetaFits, State, Sent
<1>2. Begun(k) /\ t \in Sent
      BY <1>1, TurnsAssumption DEF Begun, State, Sent
<1>3. applied[t] # {} /\ applied'[t] # {} /\ t \in Turns
      BY <1>1, <1>2, EventsAreKept DEF BegunOnce, Sent
<1>4. ~Active(k)'
  <2>1. CASE k = h
        BY <2>1 DEF Active, Settling
  <2>2. CASE k # h
    <3>1. ~Owner(h) /\ State(h).handle = k
          BY <1>1, <2>2, OwnersApart DEF Owned, OwnersFit, State
    <3>2. Settles(h) /\ HandlerEnds(h)
          BY <3>1 DEF CompleteProcessing, Finalizes, Owned, OwnersFit, Accepting, At
    <3>3. stage[h] \in {"running", "caught", "received", "releasing"} /\ ~At(h, "received")
          BY <3>2, EndSteps, NamedIsOwned DEF Sent
    <3>4. run[h].bound # NoRun
          BY <3>3 DEF Owned, OwnersFit, Fresh, At
    <3>5. run[h].bound # k
          BY <1>1, <2>2 DEF Owned, BindingsFit
    <3>6. k \in lost'
          BY <3>1, <3>2, <3>4, <3>5, HandlersAssumption DEF Settles, OwnsConnection
    <3> QED
          BY <3>6 DEF Active
  <2> QED
        BY <2>1, <2>2
<1>5. ASSUME NEW j \in Handlers, Active(j)', TurnOf(j)' = t PROVE FALSE
  <2>1. CASE Active(j) /\ TurnOf(j)' = TurnOf(j)
    <3>1. Begun(j)
          BY <2>1, ActiveIsBegun
    <3> QED
          BY <1>1, <1>2, <1>4, <1>5, <2>1, <3>1 DEF BegunOnce
  <2>2. CASE Begins(j)
        BY <1>2, <1>3, <1>5, <2>2 DEF Begins, TurnOf
  <2> QED
        BY <1>5, <2>1, <2>2, ActiveBefore DEF ActiveFrom
<1> QED
    BY <1>3, <1>5

LEMMA TargetsStayFit ==
    ASSUME Types, LocalsFit, Owned, BegunOnce, TargetsFit, Next, ~overlapped'
    PROVE  TargetsFit'
<1> SUFFICES ASSUME NEW h \in Handlers, stage'[h] \in Settling, NEW t \in Sent,
                    run'[h].target = t
    PROVE  applied'[t] # {} /\ Nobody(t)'
    BY DEF TargetsFit, Nobody, TurnOf
<1>1. CASE stage[h] \in Settling /\ run'[h].target = run[h].target
      BY <1>1, NobodyStays DEF TargetsFit
<1>2. CASE CompleteProcessing(h) \/ (HandlerEnds(h) /\ (Settles(h) \/ Finalizes(h)))
  <2>1. ConnOf(h) \in Conns
        BY <1>2, EndSteps DEF CompleteProcessing, LocalsFit, At
  <2>2. CASE run'[h].target = State(h).meta
        BY <1>2, <2>1, <2>2, TargetsAreIdle DEF Nobody
  <2>3. CASE CompleteProcessing(h)
    <3>1. run'[h].target = State(h).meta
          BY <2>3 DEF CompleteProcessing, Types, Locals
    <3> QED
          BY <2>2, <3>1
  <2>4. CASE Settles(h)
    <3>1. run'[h].target = State(h).meta
          BY <2>4 DEF Settles, Types, Locals
    <3> QED
          BY <2>2, <3>1
  <2>5. CASE Finalizes(h)
    <3>1. run'[h].target = State(h).meta
          BY <2>5 DEF Finalizes, Types, Locals, Settling, Goto
    <3> QED
          BY <2>2, <3>1
  <2> QED
        BY <1>2, <2>3, <2>4, <2>5
<1> QED
    BY <1>1, <1>2, TargetBefore DEF TargetFrom

\* What is known when a turn gets an event that settles it or leads to that.
Settleable(u) ==
    \/ \E g \in Handlers : At(g, "completing") /\ TurnOf(g) = u
    \/ \E g \in Handlers : stage[g] \in Settling /\ run[g].target = u
    \/ stop[u] \in {"processed", "completed"}
    \/ \E x \in Handlers \cup {Client} :
          At(x, "recovering") /\ snap[x].turn = u /\ applied[u] = snap[x].events
    \/ \A g \in Handlers : stage'[g] \in {"idle", "done"}

\* How a turn gets an event that settles it.
EventsFrom(u) ==
    \/ applied'[u] \subseteq
          applied[u] \cup {"ACTION_ACCEPTED", "PROCESSING_STARTED", "STOP_ACCEPTED"}
    \/ Settleable(u)

LEMMA EventsBefore ==
    ASSUME Types, LocalsFit, Next
    PROVE  \A u \in Turns : EventsFrom(u)
<1> USE DEF At, Goto, Apply, registry, Types, Settling, Settleable, EventsFrom
<1>1. ASSUME NEW h \in Handlers, BindExistingRun(h) PROVE \A u \in Turns : EventsFrom(u)
      BY <1>1 DEF BindExistingRun
<1>2. ASSUME NEW h \in Handlers, Rebound(h) PROVE \A u \in Turns : EventsFrom(u)
      BY <1>2 DEF Rebound
<1>3. ASSUME NEW h \in Handlers, RebindFails(h) PROVE \A u \in Turns : EventsFrom(u)
      BY <1>3 DEF RebindFails
<1>4. ASSUME NEW h \in Handlers, ReserveRun(h) PROVE \A u \in Turns : EventsFrom(u)
      BY <1>4 DEF ReserveRun
<1>5. ASSUME NEW h \in Handlers, CommitAction(h) PROVE \A u \in Turns : EventsFrom(u)
      BY <1>5 DEF CommitAction, Commit, Assess
<1>6. ASSUME NEW x \in Handlers \cup {Client}, RecoverActiveTurn(x)
      PROVE  \A u \in Turns : EventsFrom(u)
  <2>1. CASE CanRecover(snap[x]) /\ Apply(snap[x].turn, snap[x].event)
        BY <1>6, <2>1 DEF RecoverActiveTurn, CanRecover
  <2>2. CASE snap[x].event \in applied[snap[x].turn] /\ Apply(snap[x].turn, snap[x].event)
        BY <2>2
  <2>3. CASE UNCHANGED applied
        BY <2>3
  <2> QED
        BY <1>6, <2>1, <2>2, <2>3 DEF RecoverActiveTurn
<1>7. ASSUME NEW h \in Handlers, ActivateRun(h) PROVE \A u \in Turns : EventsFrom(u)
      BY <1>7 DEF ActivateRun
<1>8. ASSUME NEW h \in Handlers, ExecuteRun(h) PROVE \A u \in Turns : EventsFrom(u)
      BY <1>8 DEF ExecuteRun
<1>9. ASSUME NEW h \in Handlers, RunTimesOut(h) PROVE \A u \in Turns : EventsFrom(u)
      BY <1>9 DEF RunTimesOut, Abort
<1>10. ASSUME NEW h \in Handlers, StartProcessing(h) PROVE \A u \in Turns : EventsFrom(u)
      BY <1>10 DEF StartProcessing
<1>11. ASSUME NEW h \in Handlers, CompleteProcessing(h) PROVE \A u \in Turns : EventsFrom(u)
      BY <1>11 DEF CompleteProcessing, Commit
<1>12. ASSUME NEW h \in Handlers, FinalizeCompleted(h) PROVE \A u \in Turns : EventsFrom(u)
      BY <1>12 DEF FinalizeCompleted, Commit
<1>13. ASSUME NEW h \in Handlers, FinalizeUserStopped(h) PROVE \A u \in Turns : EventsFrom(u)
      BY <1>13 DEF FinalizeUserStopped, Commit
<1>14. ASSUME NEW h \in Handlers, FinalizeTimeout(h) PROVE \A u \in Turns : EventsFrom(u)
      BY <1>14 DEF FinalizeTimeout, Commit
<1>15. ASSUME NEW h \in Handlers, CommitCurrentFailure(h)
      PROVE  \A u \in Turns : EventsFrom(u)
      BY <1>15 DEF CommitCurrentFailure, Commit
<1>16. ASSUME NEW h \in Handlers, NEW t \in Turns, NEW c \in Conns, Receive(h, t, c)
      PROVE  \A u \in Turns : EventsFrom(u)
      BY <1>16 DEF Receive
<1>17. ASSUME NEW t \in Turns, AcceptStop(t) PROVE \A u \in Turns : EventsFrom(u)
      BY <1>17 DEF AcceptStop, CommitStop
<1>18. ASSUME NEW t \in Turns, AbortRegisteredRun(t) PROVE \A u \in Turns : EventsFrom(u)
      BY <1>18 DEF AbortRegisteredRun, Abort
<1>19. ASSUME NEW t \in Turns, CompleteIdleStop(t) PROVE \A u \in Turns : EventsFrom(u)
      BY <1>19 DEF CompleteIdleStop, CommitStop
<1>20. CASE AssessTurnRecovery
      BY <1>20 DEF AssessTurnRecovery, Assess
<1>21. CASE RestartService
  <2>1. \A g \in Handlers : stage'[g] \in {"idle", "done"}
        BY <1>21, HandlersAssumption DEF RestartService
  <2> QED
        BY <2>1
<1>22. ASSUME NEW h \in Handlers, HandlerEnds(h) PROVE \A u \in Turns : EventsFrom(u)
      BY <1>22, EndSteps
<1> QED
      BY <1>1, <1>2, <1>3, <1>4, <1>5, <1>6, <1>7, <1>8, <1>9, <1>10, <1>11, <1>12, <1>13,
         <1>14, <1>15, <1>16, <1>17, <1>18, <1>19, <1>20, <1>21, <1>22
      DEF Next, HandlerStep, StopStep, ClientRecovers, AgentObeysAbort, HandlerEnds

LEMMA ActiveStaysOpen ==
    ASSUME Types, LocalsFit, Owned, Sound, Next, ~overlapped'
    PROVE  ActiveOpen'
<1> USE DEF Sound
<1> SUFFICES ASSUME NEW h \in Handlers, Active(h)', NEW t \in Sent, TurnOf(h)' = t
    PROVE  Open(t)' /\ ~HasRecoverableFinalize(applied'[t])
    BY DEF ActiveOpen, Open, Settled
<1>1. CASE Active(h) /\ TurnOf(h) = t
  <2>1. Begun(h) /\ t \in Turns
        BY <1>1, ActiveIsBegun
  <2>2. ~Nobody(t) /\ Open(t) /\ ~HasRecoverableFinalize(applied[t])
        BY <1>1 DEF Nobody, ActiveOpen
  <2>3. ~Settleable(t)
    <3>1. ASSUME NEW g \in Handlers, At(g, "completing"), TurnOf(g) = t PROVE FALSE
      <4>1. Begun(g)
            BY <2>1, <3>1, TurnsAssumption
            DEF Owned, OwnersFit, Accepting, Activated, Begun, At
      <4>2. g = h
            BY <1>1, <2>1, <3>1, <4>1 DEF BegunOnce
      <4> QED
            BY <1>1, <3>1, <4>2 DEF Active, At
    <3>2. ASSUME NEW g \in Handlers, stage[g] \in Settling, run[g].target = t PROVE FALSE
          BY <2>2, <3>2 DEF TargetsFit
    <3>3. stop[t] \notin {"processed", "completed"}
          BY <2>1, <2>2 DEF StopsFit
    <3>4. ASSUME NEW x \in Handlers \cup {Client}, At(x, "recovering"), snap[x].turn = t,
                 applied[t] = snap[x].events
          PROVE  FALSE
          BY <2>2, <3>4 DEF SnapsFit, At
    <3>5. stage'[h] \notin {"idle", "done"}
          BY DEF Active
    <3> QED
          BY <3>1, <3>2, <3>3, <3>4, <3>5 DEF Settleable
  <2>4. /\ applied'[t] \subseteq
              applied[t] \cup {"ACTION_ACCEPTED", "PROCESSING_STARTED", "STOP_ACCEPTED"}
        /\ applied[t] \subseteq applied'[t]
        BY <2>1, <2>3, EventsBefore, EventsAreKept DEF EventsFrom
  <2> QED
        BY <2>2, <2>4 DEF Open, Settled, Ends, HasRecoverableFinalize
<1>2. CASE Begins(h)
      BY <1>2 DEF Begins, TurnOf, Types, Open, Settled, Ends, HasRecoverableFinalize
<1> QED
    BY <1>1, <1>2, ActiveBefore DEF ActiveFrom

(***************************************************************************)
(* The invariant and the theorem.                                          *)
(***************************************************************************)
OpenInv == RunInv /\ (~overlapped => Sound)

LEMMA InitOpenInv == Init => OpenInv
<1> SUFFICES ASSUME Init PROVE OpenInv
    OBVIOUS
<1>1. RunInv
      BY InitRunInv
<1>2. \A h \in Handlers : ~Begun(h) /\ ~Active(h) /\ stage[h] = "idle"
      BY HandlersAssumption DEF Init, NoLocals, Begun, Owner, Active
<1>3. stage[Client] = "idle" /\ \A t \in Turns : stop[t] = "none"
      BY DEF Init
<1> QED
      BY <1>1, <1>2, <1>3
      DEF OpenInv, Sound, BegunOnce, ActiveOpen, StopsFit, SnapsFit, TargetsFit, Settling

LEMMA NextOpenInv == OpenInv /\ [Next]_vars => OpenInv'
<1> SUFFICES ASSUME OpenInv, [Next]_vars PROVE OpenInv'
    OBVIOUS
<1>1. RunInv'
      BY NextRunInv DEF OpenInv
<1>2. CASE Next
  <2>1. ASSUME ~overlapped' PROVE Sound'
    <3>1. ~overlapped
          BY <1>2, <2>1, OverlapsLast DEF OpenInv, RunInv
    <3>2. Types /\ LocalsFit /\ Owned /\ Sound
          BY <3>1 DEF OpenInv, RunInv
    <3> QED
          BY <1>2, <2>1, <3>2, BegunStaysOnce, ActiveStaysOpen, StopsStayFit, SnapsStayFit,
             TargetsStayFit
          DEF Sound
  <2> QED
        BY <1>1, <2>1 DEF OpenInv
<1>3. CASE UNCHANGED vars
      BY <1>1, <1>3
      DEF OpenInv, vars, Sound, BegunOnce, ActiveOpen, StopsFit, SnapsFit, TargetsFit, Nobody,
          Active, Begun, Owner, State, ConnOf, TurnOf, Open, Settled
<1> QED
    BY <1>2, <1>3

\* An agent that nobody has told to end works on a turn that is open: no stop, no
\* recovery and no other handler settles a turn that is sent while a run works on it.
THEOREM AgentsOnOpenTurns == Spec => []AgentsWorkOnOpenTurns
<1>1. OpenInv => AgentsWorkOnOpenTurns
  <2> SUFFICES ASSUME OpenInv, NEW h \in Handlers, IsLive(h), ~Excused(h),
                      TurnOf(h) \notin Resends
      PROVE  Open(TurnOf(h))
      BY DEF AgentsWorkOnOpenTurns
  <2>1. Owned /\ Sound /\ LocalsFit /\ h \notin lost /\ stage[h] = "running"
        BY DEF OpenInv, RunInv, Excused, IsLive, At
  <2>2. run[h].signal = h /\ h # NoRun /\ TurnOf(h) \in Sent
        BY <2>1, HandlersAssumption DEF Owned, OwnersFit, LocalsFit, Sent, At
  <2>3. Active(h)
        BY <2>1, <2>2 DEF IsLive, IsAborted, Active
  <2> QED
        BY <2>1, <2>2, <2>3 DEF Sound, ActiveOpen
<1>2. Spec => []OpenInv
      BY InitOpenInv, NextOpenInv, PTL DEF Spec
<1> QED
    BY <1>1, <1>2, PTL
=============================================================================
