------------------------------- MODULE TurnRun -------------------------------
(***************************************************************************)
(* How the websocket service runs the turns of one session.  A run command *)
(* (send or resend) is handled by one call of onMessage, a process of its  *)
(* own: it binds to the run of its turn or reserves a new one, has the     *)
(* command accepted, starts the agent, and settles the turn when the agent *)
(* ends.  Meanwhile the user may stop the turn, its time may run out, the  *)
(* same command may arrive again over another connection, a client or the  *)
(* next command may recover a turn that lost its run, and the service may  *)
(* restart.                                                                *)
(*                                                                         *)
(* The handlers meet in three places: the lifecycle of the turns, where    *)
(* every commit is one step (it holds the session's mutation lock) but     *)
(* throws when the events it committed cannot be dispatched; the registry  *)
(* of runs; and the state of a connection, which the handlers of its       *)
(* messages share.  A step here is the code between two awaits.            *)
(*                                                                         *)
(* Of a turn only the events applied to it are kept: they determine its    *)
(* state.  What each event requires is in TurnLifecycle in full.           *)
(*                                                                         *)
(* Left out: which connection receives a run's events (closing a websocket *)
(* only detaches it from the run), the in-process transport, which aborts  *)
(* its runs when it closes, user interjections, turns deleted or replaced  *)
(* while they run, and failures of a finalize step that may be retried,    *)
(* which settle nothing.                                                   *)
(***************************************************************************)
EXTENDS Naturals, FiniteSets

CONSTANTS
    Turns, NoTurn,
    Resends,        \* the turns whose command is a resend; the others are sent
    Handlers,       \* the run commands the service receives, and their runs
    NoRun,
    Conns, NoConn,  \* websocket connections
    Commands,       \* bound: the commands that may arrive, <<handler, turn, connection>>
    Client,         \* whoever asks for a turn without a run to be finalized
    MaxMishaps      \* bound: dispatches that throw, restarts, and commands that both
                    \* pass the check of one connection

ASSUME TurnsAssumption == NoTurn \notin Turns /\ Resends \subseteq Turns
ASSUME HandlersAssumption == {NoRun, Client} \cap Handlers = {} /\ NoConn \notin Conns
ASSUME CommandsAssumption == Commands \subseteq Handlers \X Turns \X Conns
ASSUME BoundsAssumption == MaxMishaps \in Nat

VARIABLES
    applied,        \* the lifecycle events of each turn
    byTurn,         \* the registry of active runs, by turn scope ...
    byDialog,       \* ... and by dialog process
    aborted,        \* the abort signal of each run
    conn,           \* the state of each connection
    timers,         \* runs whose timeout is scheduled
    stage,          \* where each handler is, and the client's recovery
    run,            \* the locals of each handler
    snap,           \* the turn a recovery looks at, as it was when it was read
    stop,           \* the stop command of each turn
    mishaps,
    overlapped,     \* history: two commands passed the check of one connection
    lost            \* history: runs hit by a command that failed or was aborted

vars == <<applied, byTurn, byDialog, aborted, conn, timers, stage, run, snap, stop,
          mishaps, overlapped, lost>>
registry == <<byTurn, byDialog>>

Runs == Handlers \cup {NoRun}

(***************************************************************************)
(* The lifecycle of a turn.                                                *)
(***************************************************************************)
Ends == {"COMPLETED", "STOP_COMPLETED", "FAILED"}

Events == {"ACTION_ACCEPTED", "PROCESSING_STARTED", "PROCESSING_COMPLETED",
           "STOP_ACCEPTED", "STOP_PROCESSING_COMPLETED"} \cup Ends

Settled(t) == applied[t] \cap Ends # {}

Open(t) == applied[t] # {} /\ ~Settled(t)

\* The turn is in state processing.
IsProcessing(t) ==
    /\ "PROCESSING_STARTED" \in applied[t]
    /\ applied[t] \cap {"PROCESSING_COMPLETED", "STOP_ACCEPTED"} = {}

CanApply(t, event) ==
    \/ event = "ACTION_ACCEPTED" /\ applied[t] = {} /\ \A u \in Turns : ~Open(u)
    \/ /\ Open(t)
       /\ \/ event = "PROCESSING_STARTED" /\ event \notin applied[t]
          \/ event \in {"PROCESSING_COMPLETED", "STOP_ACCEPTED"} /\ IsProcessing(t)
          \/ event = "STOP_PROCESSING_COMPLETED" /\ "STOP_ACCEPTED" \in applied[t]
          \/ event = "COMPLETED" /\ "PROCESSING_COMPLETED" \in applied[t]
          \/ event = "STOP_COMPLETED" /\ "STOP_PROCESSING_COMPLETED" \in applied[t]
          \/ event = "FAILED"

\* Command ids are derived from the command and the event, so a commit repeated for
\* a turn is answered as a duplicate.
Accepts(t, event) == event \in applied[t] \/ CanApply(t, event)

Apply(t, event) == applied' = [applied EXCEPT ![t] = @ \cup {event}]

(***************************************************************************)
(* The registry and the connections.                                       *)
(***************************************************************************)
\* By turn scope first; the dialog process is part of the identity once it is known.
FindByTurn(t) == byTurn[t]
FindByDialog(t) == byDialog[t]      \* mutant: a run that is not activated is not found
FindActiveRun(t) == IF byTurn[t] # NoRun THEN byTurn[t] ELSE byDialog[t]

\* mutant: the key of the dialog process is left.
UnregisterTurnScope(r) ==
    /\ byTurn' = [t \in Turns |-> IF byTurn[t] = r THEN NoRun ELSE byTurn[t]]
    /\ UNCHANGED byDialog

Unregister(r) ==
    /\ byTurn' = [t \in Turns |-> IF byTurn[t] = r THEN NoRun ELSE byTurn[t]]
    /\ byDialog' = [t \in Turns |-> IF byDialog[t] = r THEN NoRun ELSE byDialog[t]]

Connection == [running : BOOLEAN, handle : Runs, signal : Runs,
               meta : Turns \cup {NoTurn}, timedOut : BOOLEAN, timer : Runs]

FreeConnection == [running |-> FALSE, handle |-> NoRun, signal |-> NoRun,
                   meta |-> NoTurn, timedOut |-> FALSE, timer |-> NoRun]

IsAborted(r) == r # NoRun /\ aborted[r] # "no"

\* mutant: the timer only sets the flag.
AbortByUser(r, reason) ==
    aborted' = IF r # NoRun /\ aborted[r] = "no" /\ reason = "stop"
               THEN [aborted EXCEPT ![r] = reason] ELSE aborted

Abort(r, reason) ==
    aborted' = IF r # NoRun /\ aborted[r] = "no" THEN [aborted EXCEPT ![r] = reason]
               ELSE aborted

(***************************************************************************)
(* Handlers.                                                               *)
(***************************************************************************)
Stages == {"idle", "received", "binding", "accepting", "recovering", "retrying",
           "accepted", "activating", "running",
           "completing", "completed", "stopping", "stopped", "timingOut",
           "caught", "failing", "releasing", "done"}

Locals == [turn : Turns \cup {NoTurn}, conn : Conns \cup {NoConn}, bound : Runs,
           signal : Runs, target : Turns \cup {NoTurn}, started : {"no", "yes", "failed"},
           settling : BOOLEAN]

NoLocals == [turn |-> NoTurn, conn |-> NoConn, bound |-> NoRun, signal |-> NoRun,
             target |-> NoTurn, started |-> "no", settling |-> FALSE]

Ended(locals) == [NoLocals EXCEPT !.conn = locals.conn]

NoSnapshot == [turn |-> NoTurn, events |-> {}, event |-> "FAILED"]

Init ==
    /\ applied = [t \in Turns |-> {}]
    /\ byTurn = [t \in Turns |-> NoRun]
    /\ byDialog = [t \in Turns |-> NoRun]
    /\ aborted = [h \in Handlers |-> "no"]
    /\ conn = [c \in Conns |-> FreeConnection]
    /\ timers = {}
    /\ stage = [x \in Handlers \cup {Client} |-> "idle"]
    /\ run = [h \in Handlers |-> NoLocals]
    /\ snap = [x \in Handlers \cup {Client} |-> NoSnapshot]
    /\ stop = [t \in Turns |-> "none"]
    /\ mishaps = 0
    /\ overlapped = FALSE
    /\ lost = {}

At(x, s) == stage[x] = s
Goto(x, s) == stage' = [stage EXCEPT ![x] = s]
ConnOf(h) == run[h].conn
TurnOf(h) == run[h].turn
State(h) == conn[ConnOf(h)]

(***************************************************************************)
(* Recovery of a turn without a run: by a client that asks for it, by the  *)
(* handler of a command the turn is in the way of, and after a restart.    *)
(***************************************************************************)
FinalizeEvent(events) ==
    IF "PROCESSING_COMPLETED" \in events THEN "COMPLETED" ELSE "STOP_COMPLETED"

HasRecoverableFinalize(events) ==
    events \cap {"PROCESSING_COMPLETED", "STOP_PROCESSING_COMPLETED"} # {}

\* A pending finalize step is taken whether the run is alive or not; otherwise the
\* turn fails if its run is gone (and its grace period over).  The turn is read
\* some time before the registry is looked at; if it changes in between, the event
\* is refused like one based on a turn that changes afterwards.
Assess(x, t) ==
    /\ \/ HasRecoverableFinalize(applied[t])
       \/ FindActiveRun(t) = NoRun
    /\ snap' = [snap EXCEPT ![x] =
          [turn |-> t, events |-> applied[t],
           event |-> IF HasRecoverableFinalize(applied[t]) THEN FinalizeEvent(applied[t])
                     ELSE "FAILED"]]
    /\ Goto(x, "recovering")

CanRecover(s) == applied[s.turn] = s.events

NotRecovered(x) == Goto(x, IF x = Client THEN "idle" ELSE "caught")

\* A commit of handler h: the event is applied or repeated, or it is refused.  The
\* events are dispatched before the commit returns, and when that throws, so does
\* the commit, although it was applied.
Commit(h, t, event, next, refused) ==
    \/ /\ Accepts(t, event)
       /\ Apply(t, event)
       /\ \/ Goto(h, next) /\ UNCHANGED mishaps
          \/ mishaps < MaxMishaps /\ mishaps' = mishaps + 1 /\ Goto(h, "caught")
    \/ ~Accepts(t, event) /\ Goto(h, refused) /\ UNCHANGED <<applied, mishaps>>

\* The check of the connection; reserving it comes later, after awaits.
Receive(h, t, c) ==
    /\ <<h, t, c>> \in Commands
    /\ At(h, "idle")
    /\ ~conn[c].running
    /\ Goto(h, "received")
    /\ run' = [run EXCEPT ![h].turn = t, ![h].conn = c]
    /\ IF \E g \in Handlers : At(g, "received") /\ ConnOf(g) = c
       THEN /\ mishaps < MaxMishaps /\ mishaps' = mishaps + 1
            /\ overlapped' = TRUE
       ELSE UNCHANGED <<mishaps, overlapped>>
    /\ UNCHANGED <<applied, registry, aborted, conn, timers, snap, stop, lost>>

RunningTurn(h) == LET t == TurnOf(h)
                  IN  IF t \in Resends THEN FindActiveRun(t) ELSE FindByTurn(t)

CanBindSend(h) ==       \* mutant: resends never bind
    TurnOf(h) \notin Resends /\ RunningTurn(h) # NoRun /\ ~IsAborted(RunningTurn(h))

CanBind(h) == RunningTurn(h) # NoRun /\ ~IsAborted(RunningTurn(h))

BindExistingRun(h) ==
    /\ At(h, "received")
    /\ CanBind(h)
    /\ conn' = [conn EXCEPT ![ConnOf(h)].handle = RunningTurn(h)]
    /\ run' = [run EXCEPT ![h].bound = RunningTurn(h)]
    /\ Goto(h, "binding")
    /\ UNCHANGED <<applied, registry, aborted, timers, snap, stop, mishaps,
                   overlapped, lost>>

\* The binding is kept; the connection is not occupied by it.
Rebound(h) ==
    /\ At(h, "binding")
    /\ Goto(h, "done")
    /\ UNCHANGED <<applied, registry, aborted, conn, timers, run, snap, stop, mishaps,
                   overlapped, lost>>

\* Dispatching the events throws.
RebindFails(h) ==
    /\ At(h, "binding")
    /\ mishaps < MaxMishaps
    /\ mishaps' = mishaps + 1
    /\ lost' = lost \cup {run[h].bound}
    /\ Goto(h, "caught")
    /\ UNCHANGED <<applied, registry, aborted, conn, timers, run, snap, stop,
                   overlapped>>

ReserveRun(h) ==
    /\ At(h, "received")
    /\ ~CanBind(h)
    /\ conn' = [conn EXCEPT ![ConnOf(h)] =
          [@ EXCEPT !.running = TRUE, !.signal = h, !.timedOut = FALSE, !.handle = h]]
    /\ byTurn' = [byTurn EXCEPT ![TurnOf(h)] = h]
    /\ run' = [run EXCEPT ![h].bound = h]
    /\ Goto(h, "accepting")
    /\ UNCHANGED <<applied, byDialog, aborted, timers, snap, stop, mishaps,
                   overlapped, lost>>

\* A send that was accepted before is refused, its version is the old one; a resend
\* is a duplicate and goes on like the first.
Repeated(t) == applied[t] # {} /\ t \notin Resends

\* The turn that is in the way is recovered, once.
CommitAction(h) ==
    LET t == TurnOf(h)
    IN  /\ At(h, "accepting") \/ At(h, "retrying")
        /\ \/ /\ Accepts(t, "ACTION_ACCEPTED") /\ ~Repeated(t)
              /\ Commit(h, t, "ACTION_ACCEPTED", "accepted", "caught")
              /\ UNCHANGED snap
           \/ /\ At(h, "accepting") /\ applied[t] = {}
              /\ \E u \in Turns : Open(u) /\ Assess(h, u)
              /\ UNCHANGED <<applied, mishaps>>
           \/ /\ ~Accepts(t, "ACTION_ACCEPTED") \/ Repeated(t)
              /\ Goto(h, "caught")
              /\ UNCHANGED <<applied, mishaps, snap>>
        /\ UNCHANGED <<registry, aborted, conn, timers, run, stop, overlapped, lost>>

\* The run is named after its turn and its dialog process.  The handle is that of
\* the connection; without one the assignment throws.  A run that was aborted in the
\* meantime is activated like any other, and replaces the one that took its place.
ActivateRun(h) ==
    LET t == TurnOf(h)
        handle == State(h).handle
    IN  /\ At(h, "accepted")
        /\ conn' = [conn EXCEPT ![ConnOf(h)].meta = t]
        /\ IF handle = NoRun
           THEN Goto(h, "caught") /\ UNCHANGED <<registry, lost>>
           ELSE /\ byTurn' = [byTurn EXCEPT ![t] = handle]
                /\ byDialog' = [byDialog EXCEPT ![t] = handle]
                /\ lost' = IF IsAborted(handle) \/ handle \in lost
                           THEN lost \cup ({byTurn[t], byDialog[t]} \ {handle, NoRun})
                           ELSE lost
                /\ Goto(h, "activating")
        /\ UNCHANGED <<applied, aborted, timers, run, snap, stop, mishaps, overlapped>>

\* The timeout is scheduled and the agent starts with the signal of the connection.
ExecuteRun(h) ==
    LET signal == State(h).signal
    IN  /\ At(h, "activating")
        /\ IF signal = NoRun
           THEN Goto(h, "caught") /\ UNCHANGED <<timers, conn, run>>
           ELSE /\ Goto(h, "running")
                /\ run' = [run EXCEPT ![h].signal = signal]
                /\ IF IsAborted(signal) THEN UNCHANGED <<timers, conn>>
                   ELSE /\ timers' = timers \cup {h}
                        /\ conn' = [conn EXCEPT ![ConnOf(h)].timer = h]
        /\ UNCHANGED <<applied, registry, aborted, snap, stop, mishaps,
                       overlapped, lost>>

\* The agent reports that it runs.
StartProcessing(h) ==
    /\ At(h, "running")
    /\ run[h].started = "no"
    /\ \/ /\ Accepts(TurnOf(h), "PROCESSING_STARTED")
          /\ Apply(TurnOf(h), "PROCESSING_STARTED")
          /\ \/ run' = [run EXCEPT ![h].started = "yes"] /\ UNCHANGED mishaps
             \/ /\ mishaps < MaxMishaps /\ mishaps' = mishaps + 1
                /\ run' = [run EXCEPT ![h].started = "failed"]
       \/ /\ ~Accepts(TurnOf(h), "PROCESSING_STARTED")
          /\ run' = [run EXCEPT ![h].started = "failed"]
          /\ UNCHANGED <<applied, mishaps>>
    /\ UNCHANGED <<registry, aborted, conn, timers, stage, snap, stop,
                   overlapped, lost>>

(***************************************************************************)
(* Settling.  What is decided from the connection's state is committed     *)
(* after an await, when that state and the turn's may have changed.        *)
(***************************************************************************)
\* The turn that the state of the connection names.  Without one the snapshot of the
\* run's state throws.
GotoSettling(h, next) ==
    /\ run' = [run EXCEPT ![h].target = State(h).meta]
    /\ Goto(h, IF State(h).meta = NoTurn THEN "caught" ELSE next)

StoppedByUser(h) == State(h).signal # NoRun /\ aborted[State(h).signal] = "stop"

\* finalizeRunResult, before its commits.
FinalizeRunResult(h) ==
    IF State(h).timedOut /\ IsAborted(State(h).signal) THEN GotoSettling(h, "timingOut")
    ELSE IF StoppedByUser(h) THEN GotoSettling(h, "stopping")
    ELSE Goto(h, "completing") /\ UNCHANGED run

CompleteProcessing(h) ==
    /\ At(h, "completing")
    /\ Commit(h, TurnOf(h), "PROCESSING_COMPLETED",
              IF State(h).meta = NoTurn THEN "caught" ELSE "completed", "caught")
    /\ run' = [run EXCEPT ![h].target = State(h).meta]
    /\ UNCHANGED <<registry, aborted, conn, timers, snap, stop, overlapped, lost>>

\* A completion that is refused is followed by a failure that may be retried, left out.
FinalizeCompleted(h) ==
    /\ At(h, "completed")
    /\ Commit(h, run[h].target, "COMPLETED", "releasing", "releasing")
    /\ UNCHANGED <<registry, aborted, conn, timers, run, snap, stop,
                   overlapped, lost>>

FinalizeUserStopped(h) ==
    /\ \/ At(h, "stopping")
          /\ Commit(h, run[h].target, "STOP_PROCESSING_COMPLETED", "stopped", "releasing")
       \/ At(h, "stopped")
          /\ Commit(h, run[h].target, "STOP_COMPLETED", "releasing", "releasing")
    /\ UNCHANGED <<registry, aborted, conn, timers, run, snap, stop,
                   overlapped, lost>>

FinalizeTimeout(h) ==
    /\ At(h, "timingOut")
    /\ Commit(h, run[h].target, "FAILED", "releasing", "releasing")
    /\ UNCHANGED <<registry, aborted, conn, timers, run, snap, stop,
                   overlapped, lost>>

CommitCurrentFailure(h) ==
    /\ At(h, "failing")
    /\ Commit(h, run[h].target, "FAILED", "releasing", "releasing")
    /\ UNCHANGED <<registry, aborted, conn, timers, run, snap, stop,
                   overlapped, lost>>

\* mutant: a connection is freed only if its run was activated.
OwnsActivated(h) == State(h).meta = TurnOf(h)

OwnsConnection(h) == run[h].bound = NoRun \/ State(h).handle = run[h].bound

\* The finally clause of onMessage.
Release(h) ==
    /\ IF run[h].bound = NoRun THEN UNCHANGED registry ELSE Unregister(run[h].bound)
    /\ IF OwnsConnection(h)
       THEN /\ timers' = timers \ {State(h).timer}
            /\ conn' = [conn EXCEPT ![ConnOf(h)] = FreeConnection]
       ELSE UNCHANGED <<timers, conn>>
    /\ run' = [run EXCEPT ![h] = Ended(@)]
    /\ Goto(h, "done")

ReleaseRun(h) ==
    /\ At(h, "releasing")
    /\ Release(h)
    /\ UNCHANGED <<applied, aborted, snap, stop, mishaps, overlapped, lost>>

\* The catch clause: the turn the connection names is settled.  Without one the
\* command is rejected, and an error in here ends the handler.  After a rebinding the
\* connection may name the turn of a command that came later.
Catch(h) ==
    IF run[h].settling \/ State(h).meta = NoTurn
    THEN Release(h) /\ UNCHANGED lost
    ELSE /\ run' = [run EXCEPT ![h].settling = TRUE, ![h].target = State(h).meta]
         /\ Goto(h, IF ~IsAborted(State(h).signal) THEN "failing"
                    ELSE IF State(h).timedOut THEN "timingOut"
                    ELSE IF StoppedByUser(h) THEN "stopping" ELSE "failing")
         /\ lost' = IF OwnsConnection(h) THEN lost ELSE lost \cup ({State(h).handle} \ {NoRun})
         /\ UNCHANGED <<registry, timers, conn>>

\* The agent returns or throws; a start that could not be persisted throws then.
AgentEnds(h) ==
    /\ At(h, "running")
    /\ \/ /\ run[h].started = "yes"
          /\ FinalizeRunResult(h)
          /\ UNCHANGED <<registry, timers, conn, lost>>
       \/ Catch(h)
    /\ UNCHANGED <<applied, aborted, snap, stop, mishaps, overlapped>>

SettleFailedRun(h) ==
    /\ At(h, "caught")
    /\ Catch(h)
    /\ UNCHANGED <<applied, aborted, snap, stop, mishaps, overlapped>>

\* The command cannot be mapped or has no valid identity.
RejectInvalid(h) ==
    /\ At(h, "received")
    /\ Catch(h)
    /\ UNCHANGED <<applied, aborted, snap, stop, mishaps, overlapped>>

\* The timer acts on what the connection runs by then.
RunTimesOut(h) ==
    /\ h \in timers
    /\ timers' = timers \ {h}
    /\ conn' = [conn EXCEPT ![ConnOf(h)].timedOut = TRUE]
    /\ Abort(State(h).signal, "timeout")
    /\ UNCHANGED <<applied, registry, stage, run, snap, stop, mishaps,
                   overlapped, lost>>

(***************************************************************************)
(* Stop.                                                                   *)
(***************************************************************************)
\* A commit of the stop handler; it ends when the commit is refused or throws.
CommitStop(t, event, next) ==
    \/ /\ Accepts(t, event)
       /\ Apply(t, event)
       /\ \/ stop' = [stop EXCEPT ![t] = next] /\ UNCHANGED mishaps
          \/ /\ mishaps < MaxMishaps /\ mishaps' = mishaps + 1
             /\ stop' = [stop EXCEPT ![t] = "none"]
    \/ /\ ~Accepts(t, event)
       /\ stop' = [stop EXCEPT ![t] = "none"]
       /\ UNCHANGED <<applied, mishaps>>

AcceptStop(t) ==
    /\ stop[t] = "none"
    /\ Accepts(t, "STOP_ACCEPTED")
    /\ CommitStop(t, "STOP_ACCEPTED", "accepted")
    /\ UNCHANGED <<registry, aborted, conn, timers, stage, run, snap,
                   overlapped, lost>>

AbortRegisteredRun(t) ==
    /\ stop[t] = "accepted"
    /\ FindActiveRun(t) # NoRun
    /\ Abort(FindActiveRun(t), "stop")
    /\ stop' = [stop EXCEPT ![t] = "none"]
    /\ UNCHANGED <<applied, registry, conn, timers, stage, run, snap, mishaps,
                   overlapped, lost>>

CompleteIdleStop(t) ==
    /\ \/ /\ stop[t] = "accepted"
          /\ FindActiveRun(t) = NoRun
          /\ stop' = [stop EXCEPT ![t] = "processed"]
          /\ UNCHANGED <<applied, mishaps>>
       \/ /\ stop[t] = "processed"
          /\ CommitStop(t, "STOP_PROCESSING_COMPLETED", "completed")
       \/ /\ stop[t] = "completed"
          /\ CommitStop(t, "STOP_COMPLETED", "none")
    /\ UNCHANGED <<registry, aborted, conn, timers, stage, run, snap,
                   overlapped, lost>>

AssessTurnRecovery ==
    /\ At(Client, "idle")
    /\ \E t \in Turns : Open(t) /\ Assess(Client, t)
    /\ UNCHANGED <<applied, registry, aborted, conn, timers, run, stop, mishaps,
                   overlapped, lost>>

RecoverActiveTurn(x) ==
    LET s == snap[x]
        next == IF x = Client THEN "idle" ELSE "retrying"
    IN  /\ At(x, "recovering")
        /\ \/ /\ CanRecover(s) \/ s.event \in applied[s.turn]
              /\ Apply(s.turn, s.event)
              /\ \/ Goto(x, next) /\ UNCHANGED mishaps
                 \/ /\ mishaps < MaxMishaps /\ mishaps' = mishaps + 1
                    /\ NotRecovered(x)
           \/ /\ ~CanRecover(s)
              /\ NotRecovered(x)
              /\ UNCHANGED <<applied, mishaps>>
        /\ snap' = [snap EXCEPT ![x] = NoSnapshot]
        /\ UNCHANGED <<registry, aborted, conn, timers, run, stop, overlapped, lost>>

\* Everything in memory is gone.  Before commands are taken again, the open turn is
\* recovered, with no run alive (or skipped, when its session cannot be read).
RestartService ==
    /\ mishaps < MaxMishaps
    /\ mishaps' = mishaps + 1
    /\ \/ UNCHANGED applied
       \/ \E t \in Turns :
             /\ Open(t)
             /\ Apply(t, IF HasRecoverableFinalize(applied[t]) THEN FinalizeEvent(applied[t])
                         ELSE "FAILED")
    /\ byTurn' = [t \in Turns |-> NoRun]
    /\ byDialog' = [t \in Turns |-> NoRun]
    /\ conn' = [c \in Conns |-> FreeConnection]
    /\ timers' = {}
    /\ stage' = [x \in Handlers \cup {Client} |->
                    IF x = Client \/ stage[x] = "idle" THEN "idle" ELSE "done"]
    /\ snap' = [x \in Handlers \cup {Client} |-> NoSnapshot]
    /\ stop' = [t \in Turns |-> "none"]
    /\ aborted' = [h \in Handlers |-> "no"]
    /\ run' = [h \in Handlers |-> Ended(run[h])]
    /\ UNCHANGED <<overlapped, lost>>

(***************************************************************************)
(* The whole.                                                              *)
(***************************************************************************)
\* An agent ends at any time, and must only when it is aborted.
AgentObeysAbort(h) == IsAborted(run[h].signal) /\ AgentEnds(h)

\* What a handler and its timer do without being asked to.
HandlerStep(h) ==
    \/ BindExistingRun(h) \/ Rebound(h) \/ ReserveRun(h) \/ CommitAction(h)
    \/ RecoverActiveTurn(h) \/ ActivateRun(h) \/ ExecuteRun(h)
    \/ RunTimesOut(h) \/ AgentObeysAbort(h)
    \/ CompleteProcessing(h) \/ FinalizeCompleted(h) \/ FinalizeUserStopped(h)
    \/ FinalizeTimeout(h) \/ SettleFailedRun(h) \/ CommitCurrentFailure(h)
    \/ ReleaseRun(h)

StopStep(t) == AbortRegisteredRun(t) \/ CompleteIdleStop(t)

ClientRecovers == AssessTurnRecovery \/ RecoverActiveTurn(Client)

Next ==
    \/ \E h \in Handlers :
          \/ \E t \in Turns, c \in Conns : Receive(h, t, c)
          \/ HandlerStep(h) \/ RejectInvalid(h) \/ RebindFails(h)
          \/ StartProcessing(h) \/ AgentEnds(h)
    \/ \E t \in Turns : AcceptStop(t) \/ StopStep(t)
    \/ ClientRecovers
    \/ RestartService

Spec == Init /\ [][Next]_vars

\* Handlers go on, the timer fires, an agent ends when it is aborted, and somebody
\* asks for turns to be finalized.  Nothing makes an agent end by itself, nobody has
\* to send or stop anything, and not even the stop handlers have to get to their end.
Fairness ==
    /\ \A h \in Handlers : WF_vars(HandlerStep(h))
    /\ WF_vars(ClientRecovers)

FairSpec == Spec /\ Fairness

(***************************************************************************)
(* Properties.                                                             *)
(***************************************************************************)
StopStages == {"none", "accepted", "processed", "completed"}

Snapshot == [turn : Turns \cup {NoTurn}, events : SUBSET Events, event : Ends]

\* Every variable has its type, and a handler that has ended is not in the registry.
TypeOK ==
    /\ applied \in [Turns -> SUBSET Events]
    /\ byTurn \in [Turns -> Runs]
    /\ byDialog \in [Turns -> Runs]
    /\ aborted \in [Handlers -> {"no", "stop", "timeout"}]
    /\ conn \in [Conns -> Connection]
    /\ timers \subseteq Handlers
    /\ stage \in [Handlers \cup {Client} -> Stages]
    /\ run \in [Handlers -> Locals]
    /\ snap \in [Handlers \cup {Client} -> Snapshot]
    /\ stop \in [Turns -> StopStages]
    /\ mishaps \in 0..MaxMishaps
    /\ overlapped \in BOOLEAN
    /\ lost \subseteq Handlers
    /\ \A h \in Handlers, t \in Turns :
          At(h, "done") => h \notin {byTurn[t], byDialog[t]} \/ overlapped

\* An agent at work that nobody has told to end.
IsLive(h) == At(h, "running") /\ ~IsAborted(run[h].signal)

Excused(h) == overlapped \/ h \in lost

\* As long as an agent works on a turn, the registry leads from the turn to that run,
\* so that it can be stopped and rebound and recovery takes it for alive; in
\* particular no second agent works on the turn.  What breaks this: a rebinding that
\* throws, a run aborted before it was activated that is activated all the same, and
\* two commands that pass the check of one connection.
RunsAreRegistered ==
    \A h \in Handlers : IsLive(h) => Excused(h) \/ FindActiveRun(TurnOf(h)) = h

\* No agent works on a turn that was settled behind its back, by a stop that took it
\* for idle, by a recovery that took it for dead, or by another connection.  A
\* repeated resend is the exception: it is accepted as a duplicate and runs again.  So
\* is a run on a connection over which a rebinding failed: it is settled as failed.
AgentsWorkOnOpenTurns ==
    \A h \in Handlers :
        IsLive(h) => Excused(h) \/ TurnOf(h) \in Resends \/ Open(TurnOf(h))

\* No turn remains open for ever, whatever fails, however often it is stopped, and when
\* the service restarts: a turn that was accepted leaves the open states only by being
\* settled.
EveryTurnSettles == \A t \in Turns : []<>~Open(t)

\* No connection remains occupied for ever: it takes the next command some day.
ConnectionsAreFreed == \A c \in Conns : []<>(~conn[c].running \/ overlapped)

\* A turn whose stop was accepted does not end as a failure.
StopIsHonoured ==
    \A t \in Turns : "STOP_ACCEPTED" \in applied[t] => "FAILED" \notin applied[t]
=============================================================================
