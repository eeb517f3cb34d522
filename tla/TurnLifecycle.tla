---------------------------- MODULE TurnLifecycle ----------------------------
(***************************************************************************)
(* The authoritative turn lifecycle of one session: the records of its     *)
(* turns, the single active turn, the tombstones of replaced turns, the    *)
(* command receipts and the user messages that belong to the turns.        *)
(*                                                                         *)
(* Every action is one command handler of the session message service      *)
(* (applyTurnLifecycleEvent, deleteFromMessage, replaceTurn) run to its    *)
(* end: it holds the session's mutation lock from the read of the session  *)
(* to its save, so handlers of one session do not interleave.  A rejected  *)
(* or deduplicated command changes nothing and is a stuttering step.       *)
(*                                                                         *)
(* A client chooses a turn scope id for one command and sends it with the  *)
(* aggregate version it has seen.  A command stays in "issued": it may be  *)
(* handled late, again, or never.                                          *)
(***************************************************************************)
(* The agent run of an accepted turn appends its messages without looking  *)
(* at the lifecycle, so they may also arrive after the turn was settled,   *)
(* deleted or replaced.  They are the assistant's, or have the role "user" *)
(* and are injected: context the agent or a plugin adds, and what the user *)
(* interjects into the running turn.                                       *)
(***************************************************************************)
EXTENDS Integers, Sequences, FiniteSets

CONSTANTS
    Scopes,         \* turn scope ids the clients choose
    NoScope,        \* the empty turn scope id ("")
    ReceiptLimit,   \* how many command receipts a session keeps (200)
    MaxSequence,    \* bound of the model: lifecycle mutations explored
    MaxMessages     \* bound of the model: length the agent's appends may reach

ASSUME NoScopeAssumption == NoScope \notin Scopes
ASSUME ReceiptLimitAssumption == ReceiptLimit \in Nat \ {0}
ASSUME BoundsAssumption == MaxSequence \in Nat /\ MaxMessages \in Nat

VARIABLES
    messages,           \* the messages in order: <<[scope, dialog, role], ...>>
    aggregateVersion,   \* version clients use for optimistic concurrency
    activeTurnScopeId,  \* the one turn that holds the session, or NoScope
    sequence,           \* counter of lifecycle mutations
    turns,              \* turn record of every scope ("absent" if none)
    replacedTurns,      \* tombstone of every scope (0, or the sequence it was written at)
    commandReceipts,    \* the retained receipts; "sequence" orders them
    issued              \* the command the client issued under each scope id

vars == <<messages, aggregateVersion, activeTurnScopeId, sequence, turns,
          replacedTurns, commandReceipts, issued>>

(***************************************************************************)
(* Turn records.                                                           *)
(***************************************************************************)
Phases == {"action", "processing", "completion", "stop"}

FailedStates == {"action_failed", "processing_failed", "completion_failed", "stop_failed"}

TerminalStates == {"completed", "stop_completed"} \cup FailedStates

OpenStates == {"action_requesting", "processing", "completion_requesting", "stopping"}

FailedStateMisnamed(phase) == phase     \* mutant: the phase is stored as state

FailedState(phase) ==
    CASE phase = "action"     -> "action_failed"
      [] phase = "processing" -> "processing_failed"
      [] phase = "completion" -> "completion_failed"
      [] phase = "stop"       -> "stop_failed"

\* "user" is the message that opens a turn.  "injected" has the role "user" too,
\* and the flag injectedMessage or pluginMessage.
Message == [scope : Scopes, dialog : Nat, role : {"user", "injected", "assistant"}]

\* What the code tests where it does not look at the flags.
HasUserRole(m) == m.role \in {"user", "injected"}

\* A command as the client issued it: the version it carries, the turn it
\* continues, the dialog process its turn runs under once the server chose it
\* (0 before), and whether a delivery of it was accepted.
Command ==
    [kind : {"none", "send", "continue", "resend"}, version : Nat,
     source : [scope : Scopes \cup {NoScope}, dialog : Nat],
     dialog : Nat, accepted : BOOLEAN]

NoSource == [scope |-> NoScope, dialog |-> 0]

Source == [scope : Scopes \cup {NoScope}, dialog : Nat]

TurnRecord ==
    [state           : {"absent"} \cup OpenStates \cup TerminalStates,
     phase           : {"none"} \cup Phases,
     action          : {"none", "send", "resend", "continue", "stop"},
     executionState  : {"none", "sending", "completed", "user_stopped", "error"},
     dialog          : Nat,
     revision        : Nat,
     sequence        : Nat,
     commitId        : {"none", "completion", "stop"},
     terminalStatus  : {"none", "completed", "user_stopped", "error"},
     failure         : {"none", "retryable", "final"},
     finalizeIntent  : {"none", "completion", "stop"},
     source          : Source,
     continuedBy     : Scopes \cup {NoScope}]

Absent ==
    [state |-> "absent", phase |-> "none", action |-> "none",
     executionState |-> "none", dialog |-> 0, revision |-> 0, sequence |-> 0,
     commitId |-> "none", terminalStatus |-> "none", failure |-> "none",
     finalizeIntent |-> "none", source |-> NoSource, continuedBy |-> NoScope]

Exists(s) == turns[s].state # "absent"

IsTerminal(t) == t.state \in TerminalStates

\* A finalize step that failed but may be tried again; the turn stays open.
IsRetryableFinalizeFailure(t) ==
    /\ t.state \in {"completion_failed", "stop_failed"}
    /\ t.finalizeIntent # "none"

IsSettled(t) == IsTerminal(t) /\ ~IsRetryableFinalizeFailure(t)

IsFinalizing(t) ==
    \/ t.state \in {"completion_requesting", "stopping"}
    \/ t.state \in {"completion_failed", "stop_failed"} /\ t.failure = "retryable"

CanStopLate(s) == turns[s].executionState = "sending"   \* mutant: state not checked

CanStop(s) == turns[s].state = "processing" /\ turns[s].executionState = "sending"

(***************************************************************************)
(* Command ids and receipts.  The id of a lifecycle command is derived     *)
(* from the turn scope, the event and, for a failure, the phase; the id of *)
(* a session command (delete, replace) is fresh, which its sequence number *)
(* stands for.                                                             *)
(***************************************************************************)
Events == {"ACTION_ACCEPTED", "PROCESSING_STARTED", "PROCESSING_COMPLETED",
           "STOP_ACCEPTED", "STOP_PROCESSING_COMPLETED", "COMPLETED",
           "STOP_COMPLETED", "FAILED"}

SessionCommands == {"MESSAGE_DELETE_FROM", "TURN_REPLACE"}

Receipt ==
    [scope : Scopes \cup {NoScope}, type : Events \cup SessionCommands,
     phase : {"none"} \cup Phases, revision : Nat, sequence : Nat]

IsDuplicate(s, event, phase) ==
    \E r \in commandReceipts : r.scope = s /\ r.type = event /\ r.phase = phase

\* normalizeCommandReceipts: only the newest ReceiptLimit receipts are kept.
Newest(receipts) ==
    {r \in receipts :
        Cardinality({q \in receipts : q.sequence > r.sequence}) < ReceiptLimit}

AppendReceipt(receipts, receipt) == Newest(receipts \cup {receipt})

KeepScopes(receipts, removed) == receipts   \* mutant: receipts of removed turns stay

WithoutScopes(receipts, removed) == {r \in receipts : r.scope \notin removed}

(***************************************************************************)
(* The terminal status is only persisted when the messages of the turn     *)
(* carry the dialog process id of its record; otherwise the handler        *)
(* reports turn_execution_identity_conflict and saves nothing.             *)
(***************************************************************************)
CanMaterializeTerminal(s) ==
    \A i \in DOMAIN messages : messages[i].scope = s => messages[i].dialog = turns[s].dialog

(***************************************************************************)
(* Commit of an accepted event: "records" holds the turn records with the  *)
(* event applied; the turn becomes or stops being the active one and the   *)
(* receipt is appended.  The check for a repeated command comes first.     *)
(***************************************************************************)
Revised(s, t) == [t EXCEPT !.revision = turns[s].revision + 1, !.sequence = sequence + 1]

HoldsSessionIfNotTerminal(t) == ~IsTerminal(t)  \* mutant: a retryable failure lets go

HoldsSession(t) == ~IsSettled(t)

CommitTurn(s, event, failedPhase, records) ==
    /\ sequence < MaxSequence
    /\ ~IsDuplicate(s, event, failedPhase)
    /\ turns' = records
    /\ activeTurnScopeId' = IF HoldsSession(records[s]) THEN s ELSE NoScope
    /\ sequence' = sequence + 1
    /\ commandReceipts' =
          AppendReceipt(commandReceipts,
              [scope |-> s, type |-> event, phase |-> failedPhase,
               revision |-> records[s].revision, sequence |-> sequence + 1])
    /\ UNCHANGED replacedTurns

\* An event on an existing turn: only its record changes.
Advance(s, event, failedPhase, t) ==
    /\ CommitTurn(s, event, failedPhase, [turns EXCEPT ![s] = Revised(s, t)])
    /\ UNCHANGED <<messages, aggregateVersion, issued>>

(***************************************************************************)
(* The client.  It issues a command under a fresh scope id, and sends it   *)
(* again with the current version after a version conflict, which is only  *)
(* answered to a command that was not accepted.                            *)
(***************************************************************************)
Unissued == [kind |-> "none", version |-> 0, source |-> NoSource, dialog |-> 0,
             accepted |-> FALSE]

IssueSend(s) ==
    /\ issued[s].kind = "none"
    /\ issued' = [issued EXCEPT ![s] = [@ EXCEPT !.kind = "send", !.version = aggregateVersion]]
    /\ UNCHANGED <<messages, aggregateVersion, activeTurnScopeId, sequence, turns,
                   replacedTurns, commandReceipts>>

IssueContinue(s, src) ==
    /\ issued[s].kind = "none"
    /\ turns[src].state = "stop_completed"
    /\ turns[src].continuedBy = NoScope
    /\ issued' = [issued EXCEPT ![s] =
          [@ EXCEPT !.kind = "continue", !.version = aggregateVersion,
                    !.source = [scope |-> src, dialog |-> turns[src].dialog]]]
    /\ UNCHANGED <<messages, aggregateVersion, activeTurnScopeId, sequence, turns,
                   replacedTurns, commandReceipts>>

ReissueAfterConflict(s) ==
    /\ issued[s].kind # "none"
    /\ ~issued[s].accepted
    /\ issued[s].version # aggregateVersion
    /\ issued' = [issued EXCEPT ![s].version = aggregateVersion]
    /\ UNCHANGED <<messages, aggregateVersion, activeTurnScopeId, sequence, turns,
                   replacedTurns, commandReceipts>>

(***************************************************************************)
(* ACTION_ACCEPTED.                                                        *)
(***************************************************************************)
VersionIgnored(s) == s \in Scopes     \* mutant: any version is accepted

VersionMatches(s) == issued[s].version = aggregateVersion

AcceptedTurn(s, kind, dialog, source) ==
    [Absent EXCEPT !.state = "action_requesting", !.phase = "action", !.action = kind,
                   !.dialog = dialog, !.revision = 1, !.sequence = sequence + 1,
                   !.source = source]

\* mutant: tombstones are not looked at
CanAcceptReplaced(s, kind) ==
    /\ issued[s].kind = kind
    /\ VersionMatches(s)
    /\ ~Exists(s)
    /\ activeTurnScopeId \in {NoScope, s}

CanAccept(s, kind) ==
    /\ issued[s].kind = kind
    /\ VersionMatches(s)
    /\ replacedTurns[s] = 0
    /\ ~Exists(s)
    /\ activeTurnScopeId \in {NoScope, s}

AcceptedVersionKept == aggregateVersion     \* mutant: accepting does not bump

AcceptedVersion == aggregateVersion + 1

\* The server chooses the dialog process of a sent or continued turn, and the
\* user message it materialises (unless the scope has one) bumps the version.
MaterializeUserMessage(s, dialog) ==
    /\ messages' = IF \E i \in DOMAIN messages :
                          messages[i].scope = s /\ HasUserRole(messages[i])
                   THEN messages
                   ELSE Append(messages, [scope |-> s, dialog |-> dialog, role |-> "user"])
    /\ aggregateVersion' = AcceptedVersion
    /\ issued' = [issued EXCEPT ![s].accepted = TRUE, ![s].dialog = dialog]

AcceptSend(s) ==
    LET t == AcceptedTurn(s, "send", sequence + 1, NoSource)
    IN  /\ CanAccept(s, "send")
        /\ CommitTurn(s, "ACTION_ACCEPTED", "none", [turns EXCEPT ![s] = t])
        /\ MaterializeUserMessage(s, t.dialog)

\* decideTurnContinuation: the source was stopped by the user and nobody else
\* continues it.
CanContinue(s, source) ==
    /\ source.scope \in Scopes
    /\ turns[source.scope].dialog = source.dialog
    /\ turns[source.scope].state = "stop_completed"
    /\ turns[source.scope].executionState = "user_stopped"
    /\ turns[source.scope].continuedBy \in {NoScope, s}

LinkSource(src, s) == [turns EXCEPT ![src].continuedBy = s]

AcceptContinue(s) ==
    LET source == issued[s].source
        t == AcceptedTurn(s, "continue", sequence + 1, source)
    IN  /\ CanAccept(s, "continue")
        /\ CanContinue(s, source)
        /\ CommitTurn(s, "ACTION_ACCEPTED", "none",
                      [LinkSource(source.scope, s) EXCEPT ![s] = t])
        /\ MaterializeUserMessage(s, t.dialog)

ResendFreshDialog(s) == sequence + 1    \* mutant: the server allocates again

ResendDialog(s) == issued[s].dialog

\* A resend runs under the dialog process the replacement allocated and finds
\* its user message in place: neither messages nor version change.
AcceptResend(s) ==
    /\ CanAccept(s, "resend")
    /\ CommitTurn(s, "ACTION_ACCEPTED", "none",
                  [turns EXCEPT ![s] = AcceptedTurn(s, "resend", ResendDialog(s), NoSource)])
    /\ issued' = [issued EXCEPT ![s].accepted = TRUE]
    /\ UNCHANGED <<messages, aggregateVersion>>

(***************************************************************************)
(* The events of an accepted turn.                                         *)
(***************************************************************************)
ProcessingStarted(s) ==
    /\ turns[s].state = "action_requesting"
    /\ turns[s].action # "stop"
    /\ Advance(s, "PROCESSING_STARTED", "none",
               [turns[s] EXCEPT !.state = "processing", !.phase = "processing",
                                !.executionState = "sending"])

ProcessingCompleted(s) ==
    /\ turns[s].state = "processing"
    /\ Advance(s, "PROCESSING_COMPLETED", "none",
               [turns[s] EXCEPT !.state = "completion_requesting", !.phase = "completion",
                                !.finalizeIntent = "completion"])

StopAccepted(s) ==
    /\ CanStop(s)
    /\ Advance(s, "STOP_ACCEPTED", "none",
               [turns[s] EXCEPT !.state = "action_requesting", !.phase = "stop",
                                !.action = "stop"])

StopProcessingCompleted(s) ==
    /\ turns[s].state = "action_requesting"
    /\ turns[s].action = "stop"
    /\ Advance(s, "STOP_PROCESSING_COMPLETED", "none",
               [turns[s] EXCEPT !.state = "stopping", !.phase = "stop",
                                !.finalizeIntent = "stop"])

Completed(s) ==
    /\ \/ turns[s].state = "completion_requesting"
       \/ turns[s].state = "completion_failed"
    /\ turns[s].finalizeIntent = "completion"
    /\ CanMaterializeTerminal(s)
    /\ Advance(s, "COMPLETED", "none",
               [turns[s] EXCEPT !.state = "completed", !.phase = "completion",
                                !.executionState = "completed", !.commitId = "completion",
                                !.terminalStatus = "completed", !.failure = "none",
                                !.finalizeIntent = "none"])

StopCompleted(s) ==
    /\ \/ turns[s].state = "stopping"
       \/ turns[s].state = "stop_failed"
    /\ turns[s].finalizeIntent = "stop"
    /\ CanMaterializeTerminal(s)
    /\ Advance(s, "STOP_COMPLETED", "none",
               [turns[s] EXCEPT !.state = "stop_completed", !.phase = "stop",
                                !.executionState = "user_stopped", !.commitId = "stop",
                                !.terminalStatus = "user_stopped", !.failure = "none",
                                !.finalizeIntent = "none"])

CanFailTwice(s) == Exists(s)    \* mutant: a settled turn may still fail

CanFail(s) == turns[s].state \in OpenStates

\* A failure settles the turn.
Failed(s, phase) ==
    /\ CanFail(s)
    /\ CanMaterializeTerminal(s)
    /\ Advance(s, "FAILED", phase,
               [turns[s] EXCEPT !.state = FailedState(phase), !.phase = phase,
                                !.executionState = "error", !.terminalStatus = "error",
                                !.failure = "final", !.finalizeIntent = "none"])

AnyIntent(s, phase) == turns[s].finalizeIntent # "none"     \* mutant: type not checked

IntentFits(s, phase) == turns[s].finalizeIntent = phase

\* A failure of a finalize step that may be retried keeps the turn open, with
\* its intent, whose type must fit the phase.
FinalizeFailed(s, phase) ==
    /\ CanFail(s)
    /\ IntentFits(s, phase)
    /\ Advance(s, "FAILED", phase,
               [turns[s] EXCEPT !.state = FailedState(phase), !.phase = phase,
                                !.executionState = "error", !.failure = "retryable"])

(***************************************************************************)
(* Session commands.  Both cut the messages from an anchor turn on and     *)
(* forget the turns of the messages they cut.  They carry the current      *)
(* version: one that carries another is rejected.                          *)
(***************************************************************************)
FirstMessage(i, s) ==
    /\ messages[i].scope = s
    /\ \A j \in 1..(i - 1) : messages[j].scope # s

ScopesFrom(i) == {messages[j].scope : j \in i..Len(messages)}

Before(i) == SubSeq(messages, 1, i - 1)

\* The nearest message of the user role at or before i (i itself if there is none).
UserTurnStart(start, i) ==
    /\ start <= i
    /\ \A j \in (start + 1)..i : ~HasUserRole(messages[j])
    /\ \/ HasUserRole(messages[start])
       \/ start = i /\ \A j \in 1..i : ~HasUserRole(messages[j])

\* mutant: a turn keeps naming a source that is gone
ForgetTurnsKeepSource(gone) ==
    [s \in Scopes |->
        IF s \in gone THEN Absent
        ELSE [turns[s] EXCEPT !.continuedBy = IF @ \in gone THEN NoScope ELSE @]]

ForgetTurns(gone) ==
    [s \in Scopes |->
        IF s \in gone THEN Absent
        ELSE [turns[s] EXCEPT !.continuedBy = IF @ \in gone THEN NoScope ELSE @,
                              !.source = IF @.scope \in gone THEN NoSource ELSE @]]

CommitSessionCommand(command, gone) ==
    /\ sequence < MaxSequence
    /\ turns' = ForgetTurns(gone)
    /\ activeTurnScopeId' = IF activeTurnScopeId \in gone THEN NoScope ELSE activeTurnScopeId
    /\ sequence' = sequence + 1
    /\ aggregateVersion' = aggregateVersion + 1
    /\ commandReceipts' =
          AppendReceipt(WithoutScopes(commandReceipts, gone),
              [scope |-> NoScope, type |-> command, phase |-> "none",
               revision |-> 0, sequence |-> sequence + 1])

DeleteFrom(s) ==
    \E i \in DOMAIN messages :
        /\ FirstMessage(i, s)
        /\ CommitSessionCommand("MESSAGE_DELETE_FROM", ScopesFrom(i))
        /\ messages' = Before(i)
        /\ UNCHANGED <<replacedTurns, issued>>

\* The replaced turns get a tombstone and the new message waits for the resend
\* of turn r.  A turn that continues a replaced one, or a second tombstone,
\* makes the handler throw before it saves.
CanReplace(gone) ==
    /\ \A g \in gone : replacedTurns[g] = 0
    /\ \A t \in Scopes \ gone : turns[t].source.scope \notin gone

\* The new message is a copy of the first replaced one: its flags stay, its role
\* becomes "user".
ReplacementRole(m) == IF m.role = "injected" THEN "injected" ELSE "user"

Replace(s, r) ==
    \E i, start \in DOMAIN messages :
        /\ FirstMessage(i, s)
        /\ UserTurnStart(start, i)
        /\ issued[r].kind = "none"
        /\ CanReplace(ScopesFrom(start))
        /\ CommitSessionCommand("TURN_REPLACE", ScopesFrom(start))
        /\ messages' = Append(Before(start),
                              [scope |-> r, dialog |-> sequence + 1,
                               role |-> ReplacementRole(messages[start])])
        /\ replacedTurns' = [g \in Scopes |-> IF g \in ScopesFrom(start) THEN sequence + 1
                                              ELSE replacedTurns[g]]
        /\ issued' = [issued EXCEPT ![r] =
              [@ EXCEPT !.kind = "resend", !.version = aggregateVersion + 1,
                        !.dialog = sequence + 1]]

(***************************************************************************)
(* The agent run of an accepted turn appends a message.  (One that is      *)
(* stored already, under its uid, is updated in place instead, which keeps *)
(* its scope, dialog process and role: a stuttering step.)                 *)
(***************************************************************************)
AppendTurns(s, role) ==
    /\ issued[s].accepted
    /\ Len(messages) < MaxMessages
    /\ messages' = Append(messages,
                          [scope |-> s, dialog |-> issued[s].dialog, role |-> role])
    /\ UNCHANGED <<aggregateVersion, activeTurnScopeId, sequence, turns, replacedTurns,
                   commandReceipts, issued>>

-----------------------------------------------------------------------------
Init ==
    /\ messages = <<>>
    /\ aggregateVersion = 0
    /\ activeTurnScopeId = NoScope
    /\ sequence = 0
    /\ turns = [s \in Scopes |-> Absent]
    /\ replacedTurns = [s \in Scopes |-> 0]
    /\ commandReceipts = {}
    /\ issued = [s \in Scopes |-> Unissued]

ClientStep(s) ==
    \/ IssueSend(s)
    \/ \E src \in Scopes : IssueContinue(s, src)
    \/ ReissueAfterConflict(s)

AcceptStep(s) ==
    \/ AcceptSend(s)
    \/ AcceptContinue(s)
    \/ AcceptResend(s)

TurnStep(s) ==
    \/ ProcessingStarted(s)
    \/ ProcessingCompleted(s)
    \/ StopAccepted(s)
    \/ StopProcessingCompleted(s)
    \/ Completed(s)
    \/ StopCompleted(s)
    \/ \E phase \in Phases : Failed(s, phase)
    \/ \E phase \in {"completion", "stop"} : FinalizeFailed(s, phase)

SessionStep(s) ==
    \/ DeleteFrom(s)
    \/ \E r \in Scopes : Replace(s, r)
    \/ \E role \in {"injected", "assistant"} : AppendTurns(s, role)

Next == \E s \in Scopes : ClientStep(s) \/ AcceptStep(s) \/ TurnStep(s) \/ SessionStep(s)

Spec == Init /\ [][Next]_vars

-----------------------------------------------------------------------------
(***************************************************************************)
(* The variables have their types.                                         *)
(***************************************************************************)
TypeOK ==
    /\ messages \in Seq(Message)
    /\ aggregateVersion \in Nat
    /\ activeTurnScopeId \in Scopes \cup {NoScope}
    /\ sequence \in Nat
    /\ turns \in [Scopes -> TurnRecord]
    /\ replacedTurns \in [Scopes -> Nat]
    /\ commandReceipts \subseteq Receipt
    /\ issued \in [Scopes -> Command]

(***************************************************************************)
(* A session has at most one turn that is not settled, and it is exactly   *)
(* the active turn: no turn is left open with nothing to drive or recover  *)
(* it (recovery and the stop handler only look at the active turn), and    *)
(* the active turn exists and is open, which every load of the lifecycle   *)
(* asserts ("invalid_active_turn").                                        *)
(***************************************************************************)
OpenTurnIsActive ==
    /\ \A s \in Scopes : Exists(s) /\ ~IsSettled(turns[s]) => activeTurnScopeId = s
    /\ activeTurnScopeId # NoScope =>
          Exists(activeTurnScopeId) /\ ~IsSettled(turns[activeTurnScopeId])

(***************************************************************************)
(* Every turn record passes the checks a load makes on it: a finalize      *)
(* intent exactly while the turn is finalizing, of the type of its phase;  *)
(* a failure exactly in a failed state; a terminal status exactly when the *)
(* turn is settled, matching its state.                                    *)
(***************************************************************************)
IntegrityOf(t) ==
    /\ IsFinalizing(t) <=> t.finalizeIntent # "none"
    /\ t.finalizeIntent # "none" =>
          t.finalizeIntent = (IF t.phase = "stop" THEN "stop" ELSE "completion")
    /\ t.state \in FailedStates <=> t.failure # "none"
    /\ IsSettled(t) <=> t.terminalStatus # "none"
    /\ t.state = "completed" => t.terminalStatus = "completed"
    /\ t.state = "stop_completed" => t.terminalStatus = "user_stopped"
    /\ t.state \in FailedStates => t.terminalStatus \in {"none", "error"}

RecordIntegrity == \A s \in Scopes : Exists(s) => IntegrityOf(turns[s])

(***************************************************************************)
(* "Continues" and "is continued by" are inverse relations between a       *)
(* stopped turn and one later turn, whatever is deleted or replaced; a     *)
(* load of the lifecycle asserts it, so a broken link would make the       *)
(* session unreadable.                                                     *)
(***************************************************************************)
ContinuationRelation ==
    \A s \in Scopes :
        /\ turns[s].source # NoSource =>
              LET src == turns[s].source.scope
              IN  /\ turns[src].state = "stop_completed"
                  /\ turns[src].dialog = turns[s].source.dialog
                  /\ turns[src].continuedBy = s
                  /\ turns[src].sequence < turns[s].sequence
        /\ turns[s].continuedBy # NoScope =>
              turns[turns[s].continuedBy].source = [scope |-> s, dialog |-> turns[s].dialog]

(***************************************************************************)
(* A replaced turn never exists again, however late its command arrives.   *)
(***************************************************************************)
ReplacedNeverMaterialized ==
    \A s \in Scopes : replacedTurns[s] # 0 => ~Exists(s) /\ replacedTurns[s] <= sequence

(***************************************************************************)
(* A receipt speaks of a turn that exists, at a revision it reached: a     *)
(* command of a deleted or replaced turn is not answered as a duplicate    *)
(* of something the session no longer holds.                               *)
(***************************************************************************)
ReceiptsMatchTurns ==
    \A r \in commandReceipts : r.scope # NoScope =>
        /\ Exists(r.scope)
        /\ r.revision <= turns[r.scope].revision
        /\ r.sequence <= turns[r.scope].sequence

(***************************************************************************)
(* The active turn can always be settled: none of its messages belongs to  *)
(* another dialog process, which would make every terminal commit fail     *)
(* with turn_execution_identity_conflict and the session refuse every new  *)
(* turn for good.                                                          *)
(***************************************************************************)
ActiveTurnCanSettle == activeTurnScopeId # NoScope => CanMaterializeTerminal(activeTurnScopeId)

(***************************************************************************)
(* A turn that was accepted and then deleted is never created again: a     *)
(* late or repeated delivery of its command carries an old version.  The   *)
(* deletion leaves no tombstone and drops the receipts, so nothing else    *)
(* stands in its way.                                                      *)
(***************************************************************************)
DeletedNeverRecreated ==
    [][\A s \in Scopes : issued[s].accepted /\ ~Exists(s) => ~Exists(s)']_vars

(***************************************************************************)
(* A stop wins: once it is accepted the turn never goes on to completion,  *)
(* and a turn that finalizes is not stopped any more.                      *)
(***************************************************************************)
StopIsFinal ==
    [][\A s \in Scopes :
          /\ turns[s].action = "stop" /\ Exists(s)' =>
                turns'[s].state \notin {"processing", "completion_requesting", "completed"}
          /\ turns[s].finalizeIntent # "none" /\ Exists(s)' =>
                turns'[s].action = turns[s].action]_vars

(***************************************************************************)
(* A settled turn keeps its outcome until a delete or a replacement        *)
(* removes it; only its links to other turns may change.                   *)
(***************************************************************************)
SettledIsImmutable ==
    [][\A s \in Scopes : IsSettled(turns[s]) /\ Exists(s)' =>
          turns'[s] = [turns[s] EXCEPT !.continuedBy = turns'[s].continuedBy,
                                       !.source = turns'[s].source]]_vars

(***************************************************************************)
(* As long as the aggregate version stays, the messages of the session     *)
(* only grow at their end, by messages of runs that were accepted: no      *)
(* message goes or changes places, and none that opens a turn comes.  So a *)
(* client whose version is accepted has seen every turn that was opened,   *)
(* deleted or replaced.  It need not have seen the rest: output, injected  *)
(* context and interjections are stored under the old version.             *)
(***************************************************************************)
UserMessagesMoveVersion ==
    [][aggregateVersion' = aggregateVersion =>
          /\ Len(messages) <= Len(messages')
          /\ \A i \in DOMAIN messages : messages'[i] = messages[i]
          /\ \A i \in DOMAIN messages' \ DOMAIN messages :
                messages'[i].role # "user" /\ issued[messages'[i].scope].accepted]_vars
=============================================================================
