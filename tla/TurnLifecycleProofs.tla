------------------------- MODULE TurnLifecycleProofs -------------------------
(***************************************************************************)
(* Proofs about TurnLifecycle for every set of turn scopes and every       *)
(* bound: the types, and what holds of the turns and their records.  The   *)
(* safety properties follow one plan: a step of the system is an           *)
(* acceptance, an event of an open turn, a session command, or one that    *)
(* leaves the turns alone, and the shape of each kind decides the case.    *)
(***************************************************************************)
EXTENDS TurnLifecycle, TLAPS

-----------------------------------------------------------------------------
(***************************************************************************)
(* Typing of the helpers.                                                  *)
(***************************************************************************)

\* Committing records of the right type keeps the committed variables typed.
LEMMA CommitTurnTypes ==
    ASSUME TypeOK, NEW s \in Scopes, NEW event \in Events,
           NEW phase \in {"none"} \cup Phases, NEW records \in [Scopes -> TurnRecord],
           CommitTurn(s, event, phase, records)
    PROVE  /\ turns' \in [Scopes -> TurnRecord]
           /\ activeTurnScopeId' \in Scopes \cup {NoScope}
           /\ sequence' \in Nat
           /\ commandReceipts' \subseteq Receipt
           /\ replacedTurns' \in [Scopes -> Nat]
  <1>1. records[s].revision \in Nat /\ sequence + 1 \in Nat
    BY DEF TypeOK, TurnRecord
  <1>2. [scope |-> s, type |-> event, phase |-> phase,
         revision |-> records[s].revision, sequence |-> sequence + 1] \in Receipt
    BY <1>1 DEF Receipt
  <1>3. commandReceipts' \subseteq Receipt
    BY <1>2 DEF CommitTurn, AppendReceipt, Newest, TypeOK
  <1> QED
    BY <1>3 DEF CommitTurn, TypeOK

\* Revising a record keeps its type.
LEMMA RevisedType ==
    ASSUME TypeOK, NEW s \in Scopes, NEW t \in TurnRecord
    PROVE  Revised(s, t) \in TurnRecord
  <1>1. turns[s].revision + 1 \in Nat /\ sequence + 1 \in Nat
    BY DEF TypeOK, TurnRecord
  <1> QED
    BY <1>1 DEF Revised, TurnRecord

\* An event on an existing turn keeps every variable typed.
LEMMA AdvanceTypes ==
    ASSUME TypeOK, NEW s \in Scopes, NEW event \in Events,
           NEW phase \in {"none"} \cup Phases, NEW t \in TurnRecord,
           Advance(s, event, phase, t)
    PROVE  TypeOK'
  <1>1. [turns EXCEPT ![s] = Revised(s, t)] \in [Scopes -> TurnRecord]
    BY RevisedType DEF TypeOK
  <1>2. CommitTurn(s, event, phase, [turns EXCEPT ![s] = Revised(s, t)])
    BY DEF Advance
  <1>3. /\ turns' \in [Scopes -> TurnRecord]
        /\ activeTurnScopeId' \in Scopes \cup {NoScope}
        /\ sequence' \in Nat
        /\ commandReceipts' \subseteq Receipt
        /\ replacedTurns' \in [Scopes -> Nat]
    BY <1>1, <1>2, CommitTurnTypes
  <1> QED
    BY <1>3 DEF Advance, TypeOK

\* Changing a field of a record.
LEMMA FieldTypes ==
    ASSUME NEW u \in TurnRecord
    PROVE  /\ \A x \in OpenStates \cup TerminalStates : [u EXCEPT !.state = x] \in TurnRecord
           /\ \A x \in Phases : [u EXCEPT !.phase = x] \in TurnRecord
           /\ \A x \in {"completed", "user_stopped", "error"} :
                 [u EXCEPT !.terminalStatus = x] \in TurnRecord
           /\ \A x \in {"none", "final"} : [u EXCEPT !.failure = x] \in TurnRecord
           /\ \A x \in {"none", "stop"} : [u EXCEPT !.finalizeIntent = x] \in TurnRecord
           /\ [u EXCEPT !.executionState = "sending"] \in TurnRecord
           /\ \A x \in {"send", "resend", "continue"} : [u EXCEPT !.action = x] \in TurnRecord
           /\ \A x \in Nat : [u EXCEPT !.dialog = x] \in TurnRecord
           /\ \A x \in Nat : [u EXCEPT !.revision = x] \in TurnRecord
           /\ \A x \in Nat : [u EXCEPT !.sequence = x] \in TurnRecord
           /\ \A x \in Source : [u EXCEPT !.source = x] \in TurnRecord
  <1>1. \A x \in OpenStates \cup TerminalStates : [u EXCEPT !.state = x] \in TurnRecord
    BY DEF TurnRecord
  <1>2. \A x \in Phases : [u EXCEPT !.phase = x] \in TurnRecord
    BY DEF TurnRecord
  <1>3. \A x \in {"completed", "user_stopped", "error"} :
           [u EXCEPT !.terminalStatus = x] \in TurnRecord
    BY DEF TurnRecord
  <1>4. \A x \in {"none", "final"} : [u EXCEPT !.failure = x] \in TurnRecord
    BY DEF TurnRecord
  <1>5. \A x \in {"none", "stop"} : [u EXCEPT !.finalizeIntent = x] \in TurnRecord
    BY DEF TurnRecord
  <1>6. [u EXCEPT !.executionState = "sending"] \in TurnRecord
    BY DEF TurnRecord
  <1>7. \A x \in {"send", "resend", "continue"} : [u EXCEPT !.action = x] \in TurnRecord
    BY DEF TurnRecord
  <1>8. \A x \in Nat : [u EXCEPT !.dialog = x] \in TurnRecord
    BY DEF TurnRecord
  <1>9. \A x \in Nat : [u EXCEPT !.revision = x] \in TurnRecord
    BY DEF TurnRecord
  <1>10. \A x \in Nat : [u EXCEPT !.sequence = x] \in TurnRecord
    BY DEF TurnRecord
  <1>11. \A x \in Source : [u EXCEPT !.source = x] \in TurnRecord
    BY DEF TurnRecord
  <1> QED
    BY <1>1, <1>2, <1>3, <1>4, <1>5, <1>6, <1>7, <1>8, <1>9, <1>10, <1>11

\* Settling a record, in two halves the SMT solver can take one at a time.
LEMMA MovedType ==
    ASSUME NEW u \in TurnRecord, NEW state \in TerminalStates, NEW phase \in Phases,
           NEW execution \in {"completed", "user_stopped", "error"},
           NEW commit \in {"none", "completion", "stop"}
    PROVE  [u EXCEPT !.state = state, !.phase = phase, !.executionState = execution,
                     !.commitId = commit] \in TurnRecord
  BY DEF TurnRecord

LEMMA OutcomeType ==
    ASSUME NEW u \in TurnRecord, NEW status \in {"completed", "user_stopped", "error"},
           NEW failure \in {"none", "final"}
    PROVE  [u EXCEPT !.terminalStatus = status, !.failure = failure,
                     !.finalizeIntent = "none"] \in TurnRecord
  <1>1. [u EXCEPT !.terminalStatus = status] \in TurnRecord
    BY FieldTypes
  <1>2. [u EXCEPT !.terminalStatus = status, !.failure = failure] \in TurnRecord
    BY <1>1, FieldTypes
  <1> QED
    BY <1>2, FieldTypes

\* The absence of a turn is a record, and so is a newly accepted turn.
LEMMA AbsentType == Absent \in TurnRecord
  BY DEF Absent, TurnRecord, NoSource, Source

LEMMA AcceptedTurnType ==
    ASSUME TypeOK, NEW s \in Scopes, NEW kind \in {"send", "resend", "continue"},
           NEW dialog \in Nat, NEW source \in Source
    PROVE  /\ AcceptedTurn(s, kind, dialog, source) \in TurnRecord
           /\ AcceptedTurn(s, kind, dialog, source).dialog = dialog
  <1>1. sequence + 1 \in Nat
    BY DEF TypeOK
  <1> DEFINE a == [Absent EXCEPT !.state = "action_requesting"]
             b == [a EXCEPT !.phase = "action"]
             c == [b EXCEPT !.action = kind]
             d == [c EXCEPT !.dialog = dialog]
             e == [d EXCEPT !.revision = 1]
             f == [e EXCEPT !.sequence = sequence + 1]
             g == [f EXCEPT !.source = source]
  <1>2. AcceptedTurn(s, kind, dialog, source) = g
    BY DEF AcceptedTurn
  <1>3. a \in TurnRecord
    BY AbsentType, FieldTypes DEF OpenStates
  <1> HIDE DEF a
  <1>4. b \in TurnRecord
    BY <1>3, FieldTypes DEF Phases
  <1> HIDE DEF b
  <1>5. c \in TurnRecord
    BY <1>4, FieldTypes
  <1> HIDE DEF c
  <1>6. d \in TurnRecord /\ d.dialog = dialog
    <2>1. d \in TurnRecord
      BY <1>5, FieldTypes
    <2>2. d.dialog = dialog
      BY <1>5 DEF TurnRecord
    <2> QED
      BY <2>1, <2>2
  <1> HIDE DEF d
  <1>7. e \in TurnRecord /\ e.dialog = dialog
    <2>1. e \in TurnRecord
      BY <1>6, FieldTypes
    <2>2. e.dialog = dialog
      BY <1>6 DEF TurnRecord
    <2> QED
      BY <2>1, <2>2
  <1> HIDE DEF e
  <1>8. f \in TurnRecord /\ f.dialog = dialog
    <2>1. f \in TurnRecord
      BY <1>1, <1>7, FieldTypes
    <2>2. f.dialog = dialog
      BY <1>7 DEF TurnRecord
    <2> QED
      BY <2>1, <2>2
  <1> HIDE DEF f
  <1>9. g \in TurnRecord /\ g.dialog = dialog
    <2>1. g \in TurnRecord
      BY <1>8, FieldTypes
    <2>2. g.dialog = dialog
      BY <1>8 DEF TurnRecord
    <2> QED
      BY <2>1, <2>2
  <1> QED
    BY <1>2, <1>9

\* Cutting the messages leaves messages, and names only known scopes.
LEMMA CutTypes ==
    ASSUME TypeOK, NEW i \in 1..Len(messages)
    PROVE  /\ Before(i) \in Seq(Message)
           /\ ScopesFrom(i) \subseteq Scopes
  <1>1. messages \in Seq(Message) /\ Len(messages) \in Nat
    BY DEF TypeOK
  <1>2. Before(i) \in Seq(Message)
    BY <1>1 DEF Before
  <1>3. \A j \in i..Len(messages) : messages[j] \in Message
    BY <1>1
  <1> QED
    BY <1>2, <1>3 DEF ScopesFrom, Message

\* Forgetting turns leaves records.
LEMMA ForgetTurnsType ==
    ASSUME TypeOK, NEW gone \in SUBSET Scopes
    PROVE  ForgetTurns(gone) \in [Scopes -> TurnRecord]
  <1>1. NoSource \in Source /\ NoScope \in Scopes \cup {NoScope}
    BY DEF NoSource, Source
  <1>2. ASSUME NEW s \in Scopes
        PROVE  [turns[s] EXCEPT !.continuedBy = IF @ \in gone THEN NoScope ELSE @,
                                !.source = IF @.scope \in gone THEN NoSource ELSE @]
                  \in TurnRecord
    <2>1. turns[s] \in TurnRecord
      BY <1>2 DEF TypeOK
    <2> QED
      BY <1>1, <2>1 DEF TurnRecord
  <1> QED
    BY <1>2, AbsentType DEF ForgetTurns

\* A session command keeps the variables it commits typed.
LEMMA SessionCommandTypes ==
    ASSUME TypeOK, NEW command \in SessionCommands, NEW gone \in SUBSET Scopes,
           CommitSessionCommand(command, gone)
    PROVE  /\ turns' \in [Scopes -> TurnRecord]
           /\ activeTurnScopeId' \in Scopes \cup {NoScope}
           /\ sequence' \in Nat
           /\ aggregateVersion' \in Nat
           /\ commandReceipts' \subseteq Receipt
  <1>1. [scope |-> NoScope, type |-> command, phase |-> "none",
         revision |-> 0, sequence |-> sequence + 1] \in Receipt
    BY DEF Receipt, TypeOK
  <1>2. commandReceipts' \subseteq Receipt
    BY <1>1 DEF CommitSessionCommand, AppendReceipt, Newest, WithoutScopes, TypeOK
  <1> QED
    BY <1>2, ForgetTurnsType DEF CommitSessionCommand, TypeOK

-----------------------------------------------------------------------------
(***************************************************************************)
(* The events of a turn have one shape: they revise the record of a turn   *)
(* that exists and is not settled, and leave alone what ties the turn to   *)
(* its dialog process and to other turns.  If the record was sound before, *)
(* it is sound after.                                                      *)
(***************************************************************************)
OpenStep(s, event, phase, t) ==
    /\ Advance(s, event, phase, t)
    /\ Exists(s)
    /\ ~IsSettled(turns[s])
    /\ t.state # "absent"
    /\ t.dialog = turns[s].dialog
    /\ t.source = turns[s].source
    /\ t.continuedBy = turns[s].continuedBy
    /\ IntegrityOf(turns[s]) => IntegrityOf(t)

LEMMA TurnStepShape ==
    ASSUME TypeOK, NEW s \in Scopes, TurnStep(s)
    PROVE  \E event \in Events, phase \in {"none"} \cup Phases, t \in TurnRecord :
              OpenStep(s, event, phase, t)
  <1>0. turns[s] \in TurnRecord
    BY DEF TypeOK
  <1>1. CASE ProcessingStarted(s)
    <2> DEFINE t == [turns[s] EXCEPT !.state = "processing", !.phase = "processing",
                                !.executionState = "sending"]
    <2>1. t \in TurnRecord
      <3>1. [turns[s] EXCEPT !.state = "processing"] \in TurnRecord
        BY <1>0, FieldTypes DEF OpenStates
      <3>2. [turns[s] EXCEPT !.state = "processing", !.phase = "processing"] \in TurnRecord
        BY <3>1, FieldTypes DEF Phases
      <3> QED
        BY <3>2, FieldTypes
    <2>2. Advance(s, "PROCESSING_STARTED", "none", t)
      BY <1>1 DEF ProcessingStarted
    <2>3. Exists(s) /\ ~IsSettled(turns[s])
      BY <1>1 DEF ProcessingStarted, Exists, IsSettled, IsTerminal, TerminalStates, FailedStates,
                  IsRetryableFinalizeFailure
    <2>4. IntegrityOf(turns[s]) => IntegrityOf(t)
      BY <1>0, <1>1 DEF ProcessingStarted, IntegrityOf, TurnRecord, IsFinalizing, IsSettled, IsTerminal,
                  TerminalStates, FailedStates, IsRetryableFinalizeFailure
    <2>5. /\ t.state # "absent" /\ t.dialog = turns[s].dialog
          /\ t.source = turns[s].source /\ t.continuedBy = turns[s].continuedBy
      BY <1>0 DEF TurnRecord
    <2> QED
      BY <2>1, <2>2, <2>3, <2>4, <2>5 DEF OpenStep, Events
  <1>2. CASE ProcessingCompleted(s)
    <2> DEFINE t == [turns[s] EXCEPT !.state = "completion_requesting", !.phase = "completion",
                                !.finalizeIntent = "completion"]
    <2>1. t \in TurnRecord
      BY <1>0 DEF TurnRecord, Phases, OpenStates, TerminalStates
    <2>2. Advance(s, "PROCESSING_COMPLETED", "none", t)
      BY <1>2 DEF ProcessingCompleted
    <2>3. Exists(s) /\ ~IsSettled(turns[s])
      BY <1>2 DEF ProcessingCompleted, Exists, IsSettled, IsTerminal, TerminalStates, FailedStates,
                  IsRetryableFinalizeFailure
    <2>4. IntegrityOf(turns[s]) => IntegrityOf(t)
      BY <1>0, <1>2 DEF ProcessingCompleted, IntegrityOf, TurnRecord, IsFinalizing, IsSettled, IsTerminal,
                  TerminalStates, FailedStates, IsRetryableFinalizeFailure
    <2>5. /\ t.state # "absent" /\ t.dialog = turns[s].dialog
          /\ t.source = turns[s].source /\ t.continuedBy = turns[s].continuedBy
      BY <1>0 DEF TurnRecord
    <2> QED
      BY <2>1, <2>2, <2>3, <2>4, <2>5 DEF OpenStep, Events
  <1>3. CASE StopAccepted(s)
    <2> DEFINE t == [turns[s] EXCEPT !.state = "action_requesting", !.phase = "stop",
                                !.action = "stop"]
    <2>1. t \in TurnRecord
      BY <1>0 DEF TurnRecord, Phases, OpenStates, TerminalStates
    <2>2. Advance(s, "STOP_ACCEPTED", "none", t)
      BY <1>3 DEF StopAccepted
    <2>3. Exists(s) /\ ~IsSettled(turns[s])
      BY <1>3 DEF StopAccepted, CanStop, Exists, IsSettled, IsTerminal, TerminalStates, FailedStates,
                  IsRetryableFinalizeFailure
    <2>4. IntegrityOf(turns[s]) => IntegrityOf(t)
      BY <1>0, <1>3 DEF StopAccepted, CanStop, IntegrityOf, TurnRecord, IsFinalizing, IsSettled, IsTerminal,
                  TerminalStates, FailedStates, IsRetryableFinalizeFailure
    <2>5. /\ t.state # "absent" /\ t.dialog = turns[s].dialog
          /\ t.source = turns[s].source /\ t.continuedBy = turns[s].continuedBy
      BY <1>0 DEF TurnRecord
    <2> QED
      BY <2>1, <2>2, <2>3, <2>4, <2>5 DEF OpenStep, Events
  <1>4. CASE StopProcessingCompleted(s)
    <2> DEFINE t == [turns[s] EXCEPT !.state = "stopping", !.phase = "stop",
                                !.finalizeIntent = "stop"]
    <2>1. t \in TurnRecord
      <3>1. [turns[s] EXCEPT !.state = "stopping"] \in TurnRecord
        BY <1>0, FieldTypes DEF OpenStates
      <3>2. [turns[s] EXCEPT !.state = "stopping", !.phase = "stop"] \in TurnRecord
        BY <3>1, FieldTypes DEF Phases
      <3> QED
        BY <3>2, FieldTypes
    <2>2. Advance(s, "STOP_PROCESSING_COMPLETED", "none", t)
      BY <1>4 DEF StopProcessingCompleted
    <2>3. Exists(s) /\ ~IsSettled(turns[s])
      BY <1>4 DEF StopProcessingCompleted, Exists, IsSettled, IsTerminal, TerminalStates, FailedStates,
                  IsRetryableFinalizeFailure
    <2>4. IntegrityOf(turns[s]) => IntegrityOf(t)
      BY <1>0, <1>4 DEF StopProcessingCompleted, IntegrityOf, TurnRecord, IsFinalizing, IsSettled, IsTerminal,
                  TerminalStates, FailedStates, IsRetryableFinalizeFailure
    <2>5. /\ t.state # "absent" /\ t.dialog = turns[s].dialog
          /\ t.source = turns[s].source /\ t.continuedBy = turns[s].continuedBy
      BY <1>0 DEF TurnRecord
    <2> QED
      BY <2>1, <2>2, <2>3, <2>4, <2>5 DEF OpenStep, Events
  <1>5. CASE Completed(s)
    <2> DEFINE t == [turns[s] EXCEPT !.state = "completed", !.phase = "completion",
                                !.executionState = "completed", !.commitId = "completion",
                                !.terminalStatus = "completed", !.failure = "none",
                                !.finalizeIntent = "none"]
           u == [turns[s] EXCEPT !.state = "completed", !.phase = "completion",
                                 !.executionState = "completed", !.commitId = "completion"]
    <2>1. t \in TurnRecord
      <3>1. u \in TurnRecord
        BY <1>0, MovedType DEF TerminalStates, Phases
      <3>2. t = [u EXCEPT !.terminalStatus = "completed", !.failure = "none",
                          !.finalizeIntent = "none"]
        OBVIOUS
      <3> QED
        BY <3>1, <3>2, OutcomeType
    <2>2. Advance(s, "COMPLETED", "none", t)
      BY <1>5 DEF Completed
    <2>3. Exists(s) /\ ~IsSettled(turns[s])
      BY <1>5 DEF Completed, Exists, IsSettled, IsTerminal, TerminalStates, FailedStates,
                  IsRetryableFinalizeFailure
    <2>4. IntegrityOf(turns[s]) => IntegrityOf(t)
      BY <1>0, <1>5 DEF Completed, IntegrityOf, TurnRecord, IsFinalizing, IsSettled, IsTerminal,
                  TerminalStates, FailedStates, IsRetryableFinalizeFailure
    <2>5. /\ t.state # "absent" /\ t.dialog = turns[s].dialog
          /\ t.source = turns[s].source /\ t.continuedBy = turns[s].continuedBy
      BY <1>0 DEF TurnRecord
    <2> QED
      BY <2>1, <2>2, <2>3, <2>4, <2>5 DEF OpenStep, Events
  <1>6. CASE StopCompleted(s)
    <2> DEFINE t == [turns[s] EXCEPT !.state = "stop_completed", !.phase = "stop",
                                !.executionState = "user_stopped", !.commitId = "stop",
                                !.terminalStatus = "user_stopped", !.failure = "none",
                                !.finalizeIntent = "none"]
           u == [turns[s] EXCEPT !.state = "stop_completed", !.phase = "stop",
                                 !.executionState = "user_stopped", !.commitId = "stop"]
    <2>1. t \in TurnRecord
      <3>1. u \in TurnRecord
        BY <1>0, MovedType DEF TerminalStates, Phases
      <3>2. t = [u EXCEPT !.terminalStatus = "user_stopped", !.failure = "none",
                          !.finalizeIntent = "none"]
        OBVIOUS
      <3> QED
        BY <3>1, <3>2, OutcomeType
    <2>2. Advance(s, "STOP_COMPLETED", "none", t)
      BY <1>6 DEF StopCompleted
    <2>3. Exists(s) /\ ~IsSettled(turns[s])
      BY <1>6 DEF StopCompleted, Exists, IsSettled, IsTerminal, TerminalStates, FailedStates,
                  IsRetryableFinalizeFailure
    <2>4. IntegrityOf(turns[s]) => IntegrityOf(t)
      BY <1>0, <1>6 DEF StopCompleted, IntegrityOf, TurnRecord, IsFinalizing, IsSettled, IsTerminal,
                  TerminalStates, FailedStates, IsRetryableFinalizeFailure
    <2>5. /\ t.state # "absent" /\ t.dialog = turns[s].dialog
          /\ t.source = turns[s].source /\ t.continuedBy = turns[s].continuedBy
      BY <1>0 DEF TurnRecord
    <2> QED
      BY <2>1, <2>2, <2>3, <2>4, <2>5 DEF OpenStep, Events
  <1>7. ASSUME NEW phase \in Phases, Failed(s, phase)
        PROVE  \E t \in TurnRecord : OpenStep(s, "FAILED", phase, t)
    <2> DEFINE t == [turns[s] EXCEPT !.state = FailedState(phase), !.phase = phase,
                                !.executionState = "error", !.terminalStatus = "error",
                                !.failure = "final", !.finalizeIntent = "none"]
           u == [turns[s] EXCEPT !.state = FailedState(phase), !.phase = phase,
                                 !.executionState = "error", !.commitId = turns[s].commitId]
    <2>0. /\ FailedState(phase) \in FailedStates /\ phase \in Phases
          /\ FailedState(phase) \in {"completion_failed", "stop_failed"} <=> phase \in {"completion", "stop"}
      BY <1>7 DEF FailedState, FailedStates, Phases
    <2>1. t \in TurnRecord
      <3>1. turns[s].commitId \in {"none", "completion", "stop"}
        BY <1>0 DEF TurnRecord
      <3>2. u \in TurnRecord
        BY <1>0, <2>0, <3>1, MovedType DEF TerminalStates
      <3>3. t = [u EXCEPT !.terminalStatus = "error", !.failure = "final",
                          !.finalizeIntent = "none"]
        BY <1>0 DEF TurnRecord
      <3> QED
        BY <3>2, <3>3, OutcomeType
    <2>2. Advance(s, "FAILED", phase, t)
      BY <1>7 DEF Failed
    <2>3. Exists(s) /\ ~IsSettled(turns[s])
      BY <1>7 DEF Failed, CanFail, OpenStates, Exists, IsSettled, IsTerminal, TerminalStates, FailedStates
    <2>4. IntegrityOf(turns[s]) => IntegrityOf(t)
      BY <1>0, <1>7, <2>0 DEF Failed, CanFail, OpenStates, IntegrityOf, TurnRecord, IsFinalizing,
                  IsSettled, IsTerminal, TerminalStates, FailedStates, IsRetryableFinalizeFailure
    <2>5. /\ t.state # "absent" /\ t.dialog = turns[s].dialog
          /\ t.source = turns[s].source /\ t.continuedBy = turns[s].continuedBy
      BY <1>0, <2>0 DEF TurnRecord, FailedStates
    <2> QED
      BY <2>1, <2>2, <2>3, <2>4, <2>5 DEF OpenStep
  <1>8. ASSUME NEW phase \in {"completion", "stop"}, FinalizeFailed(s, phase)
        PROVE  \E t \in TurnRecord : OpenStep(s, "FAILED", phase, t)
    <2> DEFINE t == [turns[s] EXCEPT !.state = FailedState(phase), !.phase = phase,
                                !.executionState = "error", !.failure = "retryable"]
    <2>0. /\ FailedState(phase) \in FailedStates /\ phase \in Phases
          /\ FailedState(phase) \in {"completion_failed", "stop_failed"} <=> phase \in {"completion", "stop"}
      BY <1>8 DEF FailedState, FailedStates, Phases
    <2>1. t \in TurnRecord
      BY <1>0, <2>0 DEF TurnRecord, TerminalStates
    <2>2. Advance(s, "FAILED", phase, t)
      BY <1>8 DEF FinalizeFailed
    <2>3. Exists(s) /\ ~IsSettled(turns[s])
      BY <1>8 DEF FinalizeFailed, CanFail, OpenStates, Exists, IsSettled, IsTerminal, TerminalStates, FailedStates
    <2>4. IntegrityOf(turns[s]) => IntegrityOf(t)
      BY <1>0, <1>8, <2>0 DEF FinalizeFailed, CanFail, IntentFits, OpenStates, IntegrityOf, TurnRecord, IsFinalizing,
                  IsSettled, IsTerminal, TerminalStates, FailedStates, IsRetryableFinalizeFailure
    <2>5. /\ t.state # "absent" /\ t.dialog = turns[s].dialog
          /\ t.source = turns[s].source /\ t.continuedBy = turns[s].continuedBy
      BY <1>0, <2>0 DEF TurnRecord, FailedStates
    <2> QED
      BY <2>1, <2>2, <2>3, <2>4, <2>5 DEF OpenStep
  <1> QED
    BY <1>1, <1>2, <1>3, <1>4, <1>5, <1>6, <1>7, <1>8 DEF TurnStep, Events, Phases

-----------------------------------------------------------------------------
THEOREM TypeCorrect == Spec => []TypeOK
  <1>1. Init => TypeOK
    <2> SUFFICES ASSUME Init PROVE TypeOK
      OBVIOUS
    <2>1. Unissued \in Command
      BY DEF Unissued, Command, NoSource
    <2> QED
      BY <2>1, AbsentType DEF Init, TypeOK
  <1>2. TypeOK /\ [Next]_vars => TypeOK'
    <2> SUFFICES ASSUME TypeOK, [Next]_vars PROVE TypeOK'
      OBVIOUS
    <2>0. CASE UNCHANGED vars
      BY <2>0 DEF vars, TypeOK
    <2>1. ASSUME NEW s \in Scopes, ClientStep(s) PROVE TypeOK'
      <3>0. issued[s] \in Command /\ aggregateVersion \in Nat
        BY <2>1 DEF TypeOK
      <3>1. CASE IssueSend(s)
        <4>1. [issued[s] EXCEPT !.kind = "send", !.version = aggregateVersion] \in Command
          BY <3>0 DEF Command
        <4> QED
          BY <3>1, <4>1 DEF IssueSend, TypeOK
      <3>2. ASSUME NEW src \in Scopes, IssueContinue(s, src) PROVE TypeOK'
        <4>1. turns[src].dialog \in Nat
          BY DEF TypeOK, TurnRecord
        <4>2. [issued[s] EXCEPT !.kind = "continue", !.version = aggregateVersion,
                  !.source = [scope |-> src, dialog |-> turns[src].dialog]] \in Command
          BY <3>0, <4>1 DEF Command
        <4> QED
          BY <3>2, <4>2 DEF IssueContinue, TypeOK
      <3>3. CASE ReissueAfterConflict(s)
        <4>1. [issued[s] EXCEPT !.version = aggregateVersion] \in Command
          BY <3>0 DEF Command
        <4> QED
          BY <3>3, <4>1 DEF ReissueAfterConflict, TypeOK
      <3> QED
        BY <2>1, <3>1, <3>2, <3>3 DEF ClientStep
    <2>2. ASSUME NEW s \in Scopes, AcceptStep(s) PROVE TypeOK'
      <3>0. sequence + 1 \in Nat /\ aggregateVersion + 1 \in Nat /\ NoSource \in Source
        BY DEF TypeOK, NoSource, Source
      <3>1. ASSUME NEW records \in [Scopes -> TurnRecord], NEW dialog \in Nat,
                   CommitTurn(s, "ACTION_ACCEPTED", "none", records),
                   MaterializeUserMessage(s, dialog)
            PROVE  TypeOK'
        <4>1. [scope |-> s, dialog |-> dialog, role |-> "user"] \in Message
          BY <2>2 DEF Message
        <4>2. messages' \in Seq(Message)
          BY <3>1, <4>1 DEF MaterializeUserMessage, TypeOK
        <4>3. aggregateVersion' \in Nat /\ issued' \in [Scopes -> Command]
          <5>1. /\ aggregateVersion' = aggregateVersion + 1
                /\ issued' = [issued EXCEPT ![s].accepted = TRUE, ![s].dialog = dialog]
            BY <3>1 DEF MaterializeUserMessage, AcceptedVersion
          <5>2. issued \in [Scopes -> Command]
            BY DEF TypeOK
          <5>3. [issued[s] EXCEPT !.accepted = TRUE, !.dialog = dialog] \in Command
            BY <2>2, <5>2 DEF Command
          <5> QED
            BY <3>0, <5>1, <5>2, <5>3
        <4> QED
          BY <2>2, <3>1, <4>2, <4>3, CommitTurnTypes DEF Events, TypeOK
      <3>2. CASE AcceptSend(s)
        <4> DEFINE t == AcceptedTurn(s, "send", sequence + 1, NoSource)
        <4>1. t \in TurnRecord /\ t.dialog = sequence + 1
          BY <2>2, <3>0, AcceptedTurnType
        <4>2. [turns EXCEPT ![s] = t] \in [Scopes -> TurnRecord]
          BY <4>1 DEF TypeOK
        <4> QED
          BY <3>0, <3>1, <3>2, <4>1, <4>2 DEF AcceptSend
      <3>3. CASE AcceptContinue(s)
        <4> DEFINE source == issued[s].source
                   t == AcceptedTurn(s, "continue", sequence + 1, source)
        <4>1. source \in Source
          BY <2>2 DEF TypeOK, Command, Source
        <4>2. t \in TurnRecord /\ t.dialog = sequence + 1
          BY <2>2, <3>0, <4>1, AcceptedTurnType
        <4>3. LinkSource(source.scope, s) \in [Scopes -> TurnRecord]
          <5>1. source.scope \in Scopes
            BY <3>3 DEF AcceptContinue, CanContinue
          <5>2. turns[source.scope] \in TurnRecord
            BY <5>1 DEF TypeOK
          <5>3. [turns[source.scope] EXCEPT !.continuedBy = s] \in TurnRecord
            BY <2>2, <5>2 DEF TurnRecord
          <5> QED
            BY <5>1, <5>3 DEF LinkSource, TypeOK
        <4>4. [LinkSource(source.scope, s) EXCEPT ![s] = t] \in [Scopes -> TurnRecord]
          BY <4>2, <4>3
        <4> QED
          BY <3>0, <3>1, <3>3, <4>2, <4>4 DEF AcceptContinue
      <3>4. CASE AcceptResend(s)
        <4> DEFINE t == AcceptedTurn(s, "resend", ResendDialog(s), NoSource)
        <4>1. t \in TurnRecord
          BY <2>2, <3>0, AcceptedTurnType DEF ResendDialog, TypeOK, Command
        <4>2. [turns EXCEPT ![s] = t] \in [Scopes -> TurnRecord]
          BY <4>1 DEF TypeOK
        <4>3. issued' \in [Scopes -> Command]
          BY <3>4 DEF AcceptResend, TypeOK, Command
        <4> QED
          BY <2>2, <3>4, <4>2, <4>3, CommitTurnTypes DEF AcceptResend, Events, TypeOK
      <3> QED
        BY <2>2, <3>2, <3>3, <3>4 DEF AcceptStep
    <2>3. ASSUME NEW s \in Scopes, TurnStep(s) PROVE TypeOK'
      <3>1. PICK event \in Events, phase \in {"none"} \cup Phases, t \in TurnRecord :
               OpenStep(s, event, phase, t)
        BY <2>3, TurnStepShape
      <3> QED
        BY <3>1, AdvanceTypes DEF OpenStep
    <2>4. ASSUME NEW s \in Scopes, SessionStep(s) PROVE TypeOK'
      <3>1. CASE DeleteFrom(s)
        <4>1. PICK i \in DOMAIN messages :
                 /\ CommitSessionCommand("MESSAGE_DELETE_FROM", ScopesFrom(i))
                 /\ messages' = Before(i)
                 /\ UNCHANGED <<replacedTurns, issued>>
          BY <3>1 DEF DeleteFrom
        <4>2. i \in 1..Len(messages)
          BY DEF TypeOK
        <4> QED
          BY <4>1, <4>2, CutTypes, SessionCommandTypes DEF SessionCommands, TypeOK
      <3>2. ASSUME NEW r \in Scopes, Replace(s, r) PROVE TypeOK'
        <4>1. PICK start \in DOMAIN messages :
                 /\ CommitSessionCommand("TURN_REPLACE", ScopesFrom(start))
                 /\ messages' = Append(Before(start),
                                  [scope |-> r, dialog |-> sequence + 1,
                                   role |-> ReplacementRole(messages[start])])
                 /\ replacedTurns' = [g \in Scopes |-> IF g \in ScopesFrom(start)
                                                       THEN sequence + 1 ELSE replacedTurns[g]]
                 /\ issued' = [issued EXCEPT ![r] =
                       [@ EXCEPT !.kind = "resend", !.version = aggregateVersion + 1,
                                 !.dialog = sequence + 1]]
          BY <3>2 DEF Replace
        <4>2. start \in 1..Len(messages)
          BY DEF TypeOK
        <4>3. sequence + 1 \in Nat /\ aggregateVersion + 1 \in Nat
          BY DEF TypeOK
        <4>4. [scope |-> r, dialog |-> sequence + 1,
               role |-> ReplacementRole(messages[start])] \in Message
          BY <3>2, <4>3 DEF Message, ReplacementRole
        <4>5. messages' \in Seq(Message)
          BY <4>1, <4>2, <4>4, CutTypes
        <4>6. replacedTurns' \in [Scopes -> Nat] /\ issued' \in [Scopes -> Command]
          <5>1. issued \in [Scopes -> Command] /\ replacedTurns \in [Scopes -> Nat]
            BY DEF TypeOK
          <5>2. [issued[r] EXCEPT !.kind = "resend", !.version = aggregateVersion + 1,
                                  !.dialog = sequence + 1] \in Command
            BY <3>2, <4>3, <5>1 DEF Command
          <5> QED
            BY <4>1, <4>3, <5>1, <5>2
        <4> QED
          BY <4>1, <4>2, <4>5, <4>6, CutTypes, SessionCommandTypes DEF SessionCommands, TypeOK
      <3>3. ASSUME NEW role \in {"injected", "assistant"}, AppendTurns(s, role) PROVE TypeOK'
        <4>1. [scope |-> s, dialog |-> issued[s].dialog, role |-> role] \in Message
          BY <2>4 DEF Message, TypeOK, Command
        <4>2. messages' \in Seq(Message)
          BY <3>3, <4>1 DEF AppendTurns, TypeOK
        <4> QED
          BY <3>3, <4>2 DEF AppendTurns, TypeOK
      <3> QED
        BY <2>4, <3>1, <3>2, <3>3 DEF SessionStep
    <2> QED
      BY <2>0, <2>1, <2>2, <2>3, <2>4 DEF Next
  <1> QED
    BY <1>1, <1>2, PTL DEF Spec

-----------------------------------------------------------------------------
(***************************************************************************)
(* The shapes of the steps.                                                *)
(***************************************************************************)

\* The turn keeps everything but its links to other turns.
Relinked(q) ==
    turns'[q] = [turns[q] EXCEPT !.continuedBy = turns'[q].continuedBy,
                                 !.source = turns'[q].source]

\* The lifecycle of the session is as before.
LifecycleKept ==
    UNCHANGED <<activeTurnScopeId, sequence, turns, replacedTurns, commandReceipts>>

\* A turn is accepted under a scope id that has none; others may be relinked.
AcceptedStep(s, kind, dialog, source) ==
    /\ CanAccept(s, kind)
    /\ turns'[s] = AcceptedTurn(s, kind, dialog, source)
    /\ \A q \in Scopes \ {s} : Relinked(q)
    /\ activeTurnScopeId' = s
    /\ sequence' = sequence + 1
    /\ UNCHANGED replacedTurns
    /\ issued' = [issued EXCEPT ![s].accepted = TRUE, ![s].dialog = dialog]

\* A session command makes some turns absent and may relink the others.
ForgetStep(gone) ==
    /\ \A q \in gone : turns'[q] = Absent
    /\ \A q \in Scopes \ gone : Relinked(q)
    /\ activeTurnScopeId' = IF activeTurnScopeId \in gone THEN NoScope ELSE activeTurnScopeId
    /\ sequence' = sequence + 1
    /\ aggregateVersion' = aggregateVersion + 1
    /\ \A q \in Scopes : \/ replacedTurns'[q] = replacedTurns[q]
                         \/ (q \in gone /\ replacedTurns'[q] = sequence + 1)

\* A newly accepted turn is open, so it holds the session.
LEMMA AcceptedHolds ==
    ASSUME TypeOK, NEW s \in Scopes, NEW kind \in {"send", "resend", "continue"},
           NEW dialog \in Nat, NEW source \in Source
    PROVE  LET t == AcceptedTurn(s, kind, dialog, source)
           IN  /\ t.state = "action_requesting"
               /\ t.finalizeIntent = "none" /\ t.failure = "none"
               /\ t.terminalStatus = "none"
               /\ HoldsSession(t)
  BY DEF AcceptedTurn, Absent, HoldsSession, IsSettled, IsTerminal, TerminalStates, FailedStates

LEMMA AcceptShape ==
    ASSUME TypeOK, NEW s \in Scopes, AcceptStep(s)
    PROVE  \E kind \in {"send", "resend", "continue"}, dialog \in Nat, source \in Source :
              AcceptedStep(s, kind, dialog, source)
  <1>0. sequence + 1 \in Nat /\ NoSource \in Source
    BY DEF TypeOK, NoSource, Source
  <1>1. ASSUME NEW kind \in {"send", "resend", "continue"}, NEW dialog \in Nat,
               NEW source \in Source, NEW records,
               records[s] = AcceptedTurn(s, kind, dialog, source),
               CommitTurn(s, "ACTION_ACCEPTED", "none", records)
        PROVE  /\ turns'[s] = AcceptedTurn(s, kind, dialog, source)
               /\ activeTurnScopeId' = s
               /\ sequence' = sequence + 1
               /\ UNCHANGED replacedTurns
    <2>1. HoldsSession(AcceptedTurn(s, kind, dialog, source))
      BY AcceptedHolds
    <2> QED
      BY <1>1, <2>1 DEF CommitTurn
  <1>2. ASSUME NEW q \in Scopes, turns'[q] = turns[q] PROVE Relinked(q)
    BY <1>2 DEF Relinked, TypeOK, TurnRecord
  <1>3. CASE AcceptSend(s)
    <2> DEFINE t == AcceptedTurn(s, "send", sequence + 1, NoSource)
    <2>1. t.dialog = sequence + 1
      BY <1>0, AcceptedTurnType
    <2>2. [turns EXCEPT ![s] = t][s] = t
      BY DEF TypeOK
    <2>3. \A q \in Scopes \ {s} : turns'[q] = turns[q]
      BY <1>3 DEF AcceptSend, CommitTurn, TypeOK
    <2>4. CommitTurn(s, "ACTION_ACCEPTED", "none", [turns EXCEPT ![s] = t])
      BY <1>3 DEF AcceptSend
    <2>5. AcceptedStep(s, "send", sequence + 1, NoSource)
      BY <1>0, <1>1, <1>2, <1>3, <2>1, <2>2, <2>3, <2>4
         DEF AcceptSend, AcceptedStep, MaterializeUserMessage
    <2> QED
      BY <1>0, <2>5
  <1>4. CASE AcceptContinue(s)
    <2> DEFINE source == issued[s].source
               t == AcceptedTurn(s, "continue", sequence + 1, source)
               records == [LinkSource(source.scope, s) EXCEPT ![s] = t]
    <2>0. source \in Source /\ source.scope \in Scopes
      BY <1>4 DEF AcceptContinue, CanContinue, TypeOK, Command, Source
    <2>1. t.dialog = sequence + 1
      BY <1>0, <2>0, AcceptedTurnType
    <2>2. records[s] = t
      BY <2>0 DEF LinkSource, TypeOK
    <2>3. CommitTurn(s, "ACTION_ACCEPTED", "none", records)
      BY <1>4 DEF AcceptContinue
    <2>4. ASSUME NEW q \in Scopes \ {s} PROVE Relinked(q)
      <3>0. turns[q] \in TurnRecord
        BY DEF TypeOK
      <3>1. turns'[q] = LinkSource(source.scope, s)[q]
        BY <2>3 DEF CommitTurn, LinkSource, TypeOK
      <3>2. CASE q = source.scope
        <4>1. turns'[q] = [turns[q] EXCEPT !.continuedBy = s]
          BY <3>1, <3>2 DEF LinkSource, TypeOK
        <4> QED
          BY <3>0, <4>1 DEF Relinked, TurnRecord
      <3>3. CASE q # source.scope
        <4>1. turns'[q] = turns[q]
          BY <3>1, <3>3 DEF LinkSource, TypeOK
        <4> QED
          BY <1>2, <4>1
      <3> QED
        BY <3>2, <3>3
    <2>5. AcceptedStep(s, "continue", sequence + 1, source)
      BY <1>0, <1>1, <1>4, <2>0, <2>1, <2>2, <2>3, <2>4
         DEF AcceptContinue, AcceptedStep, MaterializeUserMessage
    <2> QED
      BY <1>0, <2>0, <2>5
  <1>5. CASE AcceptResend(s)
    <2> DEFINE t == AcceptedTurn(s, "resend", ResendDialog(s), NoSource)
    <2>0. ResendDialog(s) \in Nat
      BY DEF ResendDialog, TypeOK, Command
    <2>1. [turns EXCEPT ![s] = t][s] = t
      BY DEF TypeOK
    <2>2. \A q \in Scopes \ {s} : turns'[q] = turns[q]
      BY <1>5 DEF AcceptResend, CommitTurn, TypeOK
    <2>3. CommitTurn(s, "ACTION_ACCEPTED", "none", [turns EXCEPT ![s] = t])
      BY <1>5 DEF AcceptResend
    <2>4. issued' = [issued EXCEPT ![s].accepted = TRUE, ![s].dialog = ResendDialog(s)]
      BY <1>5 DEF AcceptResend, ResendDialog, TypeOK, Command
    <2>5. AcceptedStep(s, "resend", ResendDialog(s), NoSource)
      BY <1>0, <1>1, <1>2, <1>5, <2>0, <2>1, <2>2, <2>3, <2>4 DEF AcceptResend, AcceptedStep
    <2> QED
      BY <1>0, <2>0, <2>5
  <1> QED
    BY <1>3, <1>4, <1>5 DEF AcceptStep

LEMMA OpenStepEffect ==
    ASSUME TypeOK, NEW s \in Scopes, NEW event \in Events,
           NEW phase \in {"none"} \cup Phases, NEW t \in TurnRecord,
           OpenStep(s, event, phase, t)
    PROVE  /\ turns'[s] = Revised(s, t)
           /\ \A q \in Scopes \ {s} : turns'[q] = turns[q]
           /\ activeTurnScopeId' = IF HoldsSession(turns'[s]) THEN s ELSE NoScope
           /\ sequence' = sequence + 1
           /\ UNCHANGED <<replacedTurns, messages, aggregateVersion, issued>>
  BY DEF OpenStep, Advance, CommitTurn, TypeOK

\* Revising a record changes only its revision and sequence.
LEMMA RevisedKeeps ==
    ASSUME TypeOK, NEW s \in Scopes, NEW t \in TurnRecord
    PROVE  LET u == Revised(s, t)
           IN  /\ u.state = t.state /\ u.phase = t.phase /\ u.dialog = t.dialog
               /\ u.action = t.action /\ u.failure = t.failure
               /\ u.finalizeIntent = t.finalizeIntent
               /\ u.terminalStatus = t.terminalStatus
               /\ u.source = t.source /\ u.continuedBy = t.continuedBy
               /\ u.revision = turns[s].revision + 1
               /\ u.sequence = sequence + 1
  BY DEF Revised, TurnRecord

\* A relinked turn has the same outcome.
LEMMA RelinkedKeeps ==
    ASSUME TypeOK, NEW q \in Scopes, Relinked(q)
    PROVE  LET t == turns[q]
               u == turns'[q]
           IN  /\ u.state = t.state /\ u.phase = t.phase /\ u.dialog = t.dialog
               /\ u.action = t.action /\ u.failure = t.failure
               /\ u.finalizeIntent = t.finalizeIntent
               /\ u.terminalStatus = t.terminalStatus
               /\ u.revision = t.revision
               /\ u.sequence = t.sequence
  <1>1. turns[q] \in TurnRecord
    BY DEF TypeOK
  <1> QED
    BY <1>1 DEF Relinked, TurnRecord

LEMMA ForgottenRelinked ==
    ASSUME TypeOK, NEW command, NEW gone \in SUBSET Scopes,
           CommitSessionCommand(command, gone)
    PROVE  /\ \A q \in gone : turns'[q] = Absent
           /\ \A q \in Scopes \ gone : Relinked(q)
  <1>1. \A q \in gone : turns'[q] = Absent
    BY DEF CommitSessionCommand, ForgetTurns
  <1>2. ASSUME NEW q \in Scopes \ gone PROVE Relinked(q)
    <2>1. turns[q] \in TurnRecord
      BY DEF TypeOK
    <2>2. turns'[q] = [turns[q] EXCEPT !.continuedBy = IF @ \in gone THEN NoScope ELSE @,
                           !.source = IF @.scope \in gone THEN NoSource ELSE @]
      BY DEF CommitSessionCommand, ForgetTurns
    <2> QED
      BY <2>1, <2>2 DEF Relinked, TurnRecord
  <1> QED
    BY <1>1, <1>2

LEMMA SessionShape ==
    ASSUME TypeOK, NEW s \in Scopes, SessionStep(s)
    PROVE  LifecycleKept \/ \E gone \in SUBSET Scopes : ForgetStep(gone)
  <1>1. CASE DeleteFrom(s)
    <2>1. PICK i \in DOMAIN messages :
             CommitSessionCommand("MESSAGE_DELETE_FROM", ScopesFrom(i)) /\ UNCHANGED replacedTurns
      BY <1>1 DEF DeleteFrom
    <2>2. ScopesFrom(i) \in SUBSET Scopes
      BY CutTypes DEF TypeOK
    <2>3. /\ \A q \in ScopesFrom(i) : turns'[q] = Absent
          /\ \A q \in Scopes \ ScopesFrom(i) : Relinked(q)
      BY <2>1, <2>2, ForgottenRelinked
    <2>4. ForgetStep(ScopesFrom(i))
      BY <2>1, <2>2, <2>3 DEF ForgetStep, CommitSessionCommand, TypeOK
    <2> QED
      BY <2>2, <2>4
  <1>2. ASSUME NEW r \in Scopes, Replace(s, r)
        PROVE  \E gone \in SUBSET Scopes : ForgetStep(gone)
    <2>1. PICK start \in DOMAIN messages :
             /\ CommitSessionCommand("TURN_REPLACE", ScopesFrom(start))
             /\ replacedTurns' = [g \in Scopes |-> IF g \in ScopesFrom(start)
                                                   THEN sequence + 1 ELSE replacedTurns[g]]
      BY <1>2 DEF Replace
    <2>2. ScopesFrom(start) \in SUBSET Scopes
      BY CutTypes DEF TypeOK
    <2>3. /\ \A q \in ScopesFrom(start) : turns'[q] = Absent
          /\ \A q \in Scopes \ ScopesFrom(start) : Relinked(q)
      BY <2>1, <2>2, ForgottenRelinked
    <2>4. ForgetStep(ScopesFrom(start))
      BY <2>1, <2>2, <2>3 DEF ForgetStep, CommitSessionCommand, TypeOK
    <2> QED
      BY <2>2, <2>4
  <1>3. ASSUME NEW role, AppendTurns(s, role) PROVE LifecycleKept
    BY <1>3 DEF AppendTurns, LifecycleKept
  <1> QED
    BY <1>1, <1>2, <1>3 DEF SessionStep

\* Every step has one of the shapes.
LEMMA StepShape ==
    ASSUME TypeOK, [Next]_vars
    PROVE  \/ LifecycleKept
           \/ \E s \in Scopes, kind \in {"send", "resend", "continue"},
                 dialog \in Nat, source \in Source : AcceptedStep(s, kind, dialog, source)
           \/ \E s \in Scopes, event \in Events, phase \in {"none"} \cup Phases,
                 t \in TurnRecord : OpenStep(s, event, phase, t)
           \/ \E gone \in SUBSET Scopes : ForgetStep(gone)
  <1>1. CASE UNCHANGED vars
    BY <1>1 DEF vars, LifecycleKept
  <1>2. ASSUME NEW s \in Scopes, ClientStep(s) PROVE LifecycleKept
    BY <1>2 DEF ClientStep, IssueSend, IssueContinue, ReissueAfterConflict, LifecycleKept
  <1> QED
    BY <1>1, <1>2, AcceptShape, TurnStepShape, SessionShape DEF Next

-----------------------------------------------------------------------------
(***************************************************************************)
(* At most one turn is open, and it is the active one.  The property is    *)
(* inductive: an acceptance requires the session to be free (a turn that   *)
(* is already active under the same id would exist), an event revises the  *)
(* open turn, and a command that forgets the active turn frees the         *)
(* session.                                                                *)
(***************************************************************************)
THEOREM OneOpenTurn == Spec => []OpenTurnIsActive
  <1>1. Init => OpenTurnIsActive
    BY DEF Init, OpenTurnIsActive, Exists, Absent
  <1>2. TypeOK /\ OpenTurnIsActive /\ [Next]_vars => OpenTurnIsActive'
    <2> SUFFICES ASSUME TypeOK, OpenTurnIsActive, [Next]_vars PROVE OpenTurnIsActive'
      OBVIOUS
    <2> DEFINE Open(t) == t.state # "absent" /\ ~IsSettled(t)
    <2>0. ASSUME NEW t, NEW u, u.state = t.state, u.finalizeIntent = t.finalizeIntent
          PROVE  IsSettled(u) <=> IsSettled(t)
      BY <2>0 DEF IsSettled, IsTerminal, IsRetryableFinalizeFailure
    <2>1. CASE LifecycleKept
      BY <2>1 DEF LifecycleKept, OpenTurnIsActive, Exists
    <2>2. ASSUME NEW s \in Scopes, NEW kind \in {"send", "resend", "continue"},
                 NEW dialog \in Nat, NEW source \in Source, AcceptedStep(s, kind, dialog, source)
          PROVE  OpenTurnIsActive'
      <3>1. activeTurnScopeId = NoScope
        BY <2>2 DEF AcceptedStep, CanAccept, OpenTurnIsActive
      <3>2. Open(turns'[s]) /\ activeTurnScopeId' = s
        BY <2>2, AcceptedHolds DEF AcceptedStep, HoldsSession
      <3>3. ASSUME NEW q \in Scopes \ {s} PROVE ~Open(turns'[q])
        BY <2>0, <2>2, <3>1, RelinkedKeeps, NoScopeAssumption
           DEF AcceptedStep, OpenTurnIsActive, Exists
      <3> QED
        BY <3>2, <3>3 DEF OpenTurnIsActive, Exists
    <2>3. ASSUME NEW s \in Scopes, NEW event \in Events, NEW phase \in {"none"} \cup Phases,
                 NEW t \in TurnRecord, OpenStep(s, event, phase, t)
          PROVE  OpenTurnIsActive'
      <3>1. activeTurnScopeId = s
        BY <2>3 DEF OpenStep, OpenTurnIsActive
      <3>2. turns'[s].state # "absent"
        BY <2>3, OpenStepEffect, RevisedKeeps DEF OpenStep
      <3>3. ASSUME NEW q \in Scopes \ {s} PROVE ~Open(turns'[q])
        BY <2>3, <3>1, OpenStepEffect DEF OpenTurnIsActive, Exists
      <3>4. activeTurnScopeId' = IF HoldsSession(turns'[s]) THEN s ELSE NoScope
        BY <2>3, OpenStepEffect
      <3> QED
        BY <3>2, <3>3, <3>4, NoScopeAssumption DEF OpenTurnIsActive, Exists, HoldsSession
    <2>4. ASSUME NEW gone \in SUBSET Scopes, ForgetStep(gone) PROVE OpenTurnIsActive'
      <3>1. \A q \in gone : ~Open(turns'[q])
        BY <2>4 DEF ForgetStep, Absent
      <3>2. \A q \in Scopes \ gone : Open(turns'[q]) <=> Open(turns[q])
        BY <2>0, <2>4, RelinkedKeeps DEF ForgetStep
      <3>3. activeTurnScopeId \in Scopes \cup {NoScope}
        BY DEF TypeOK
      <3> QED
        BY <2>4, <3>1, <3>2, <3>3, NoScopeAssumption DEF ForgetStep, OpenTurnIsActive, Exists
    <2> QED
      BY <2>1, <2>2, <2>3, <2>4, StepShape
  <1> QED
    BY <1>1, <1>2, TypeCorrect, PTL DEF Spec

(***************************************************************************)
(* A replaced turn does not exist and its tombstone is not newer than the  *)
(* session: only an acceptance makes a turn exist, and it looks at the     *)
(* tombstone; a replacement makes the turns it entombs absent.             *)
(***************************************************************************)
THEOREM ReplacedStaysAway == Spec => []ReplacedNeverMaterialized
  <1>1. Init => ReplacedNeverMaterialized
    BY DEF Init, ReplacedNeverMaterialized
  <1>2. TypeOK /\ ReplacedNeverMaterialized /\ [Next]_vars => ReplacedNeverMaterialized'
    <2> SUFFICES ASSUME TypeOK, ReplacedNeverMaterialized, [Next]_vars
                 PROVE  ReplacedNeverMaterialized'
      OBVIOUS
    <2>0. sequence \in Nat /\ \A q \in Scopes : replacedTurns[q] \in Nat
      BY DEF TypeOK
    <2>1. CASE LifecycleKept
      BY <2>1 DEF LifecycleKept, ReplacedNeverMaterialized, Exists
    <2>2. ASSUME NEW s \in Scopes, NEW kind \in {"send", "resend", "continue"},
                 NEW dialog \in Nat, NEW source \in Source, AcceptedStep(s, kind, dialog, source)
          PROVE  ReplacedNeverMaterialized'
      <3>1. replacedTurns[s] = 0 /\ sequence' = sequence + 1 /\ UNCHANGED replacedTurns
        BY <2>2 DEF AcceptedStep, CanAccept
      <3>2. \A q \in Scopes \ {s} : turns'[q].state = turns[q].state
        BY <2>2, RelinkedKeeps DEF AcceptedStep
      <3> QED
        BY <2>0, <3>1, <3>2 DEF ReplacedNeverMaterialized, Exists
    <2>3. ASSUME NEW s \in Scopes, NEW event \in Events, NEW phase \in {"none"} \cup Phases,
                 NEW t \in TurnRecord, OpenStep(s, event, phase, t)
          PROVE  ReplacedNeverMaterialized'
      <3>1. replacedTurns[s] = 0
        BY <2>3 DEF OpenStep, ReplacedNeverMaterialized
      <3> QED
        BY <2>0, <2>3, <3>1, OpenStepEffect DEF ReplacedNeverMaterialized, Exists
    <2>4. ASSUME NEW gone \in SUBSET Scopes, ForgetStep(gone) PROVE ReplacedNeverMaterialized'
      <3>1. \A q \in gone : ~Exists(q)'
        BY <2>4 DEF ForgetStep, Exists, Absent
      <3>2. \A q \in Scopes \ gone : Exists(q)' <=> Exists(q)
        BY <2>4, RelinkedKeeps DEF ForgetStep, Exists
      <3> QED
        BY <2>0, <2>4, <3>1, <3>2 DEF ForgetStep, ReplacedNeverMaterialized
    <2> QED
      BY <2>1, <2>2, <2>3, <2>4, StepShape
  <1> QED
    BY <1>1, <1>2, TypeCorrect, PTL DEF Spec

-----------------------------------------------------------------------------
(***************************************************************************)
(* Every record passes the checks a load makes on it: events preserve the  *)
(* soundness of a record (TurnStepShape), a new record is sound, and links *)
(* to other turns do not matter.                                           *)
(***************************************************************************)
LEMMA IntegrityDepends ==
    ASSUME NEW t, NEW u, u.state = t.state, u.phase = t.phase, u.failure = t.failure,
           u.finalizeIntent = t.finalizeIntent, u.terminalStatus = t.terminalStatus
    PROVE  IntegrityOf(u) <=> IntegrityOf(t)
  BY DEF IntegrityOf, IsFinalizing, IsSettled, IsTerminal, IsRetryableFinalizeFailure

THEOREM RecordsAreSound == Spec => []RecordIntegrity
  <1>1. Init => RecordIntegrity
    BY DEF Init, RecordIntegrity, Exists, Absent
  <1>2. TypeOK /\ RecordIntegrity /\ [Next]_vars => RecordIntegrity'
    <2> SUFFICES ASSUME TypeOK, RecordIntegrity, [Next]_vars PROVE RecordIntegrity'
      OBVIOUS
    <2>0. ASSUME NEW q \in Scopes, Relinked(q)
          PROVE  Exists(q)' => IntegrityOf(turns'[q])
      BY <2>0, RelinkedKeeps, IntegrityDepends DEF RecordIntegrity, Exists
    <2>1. CASE LifecycleKept
      BY <2>1 DEF LifecycleKept, RecordIntegrity, Exists
    <2>2. ASSUME NEW s \in Scopes, NEW kind \in {"send", "resend", "continue"},
                 NEW dialog \in Nat, NEW source \in Source, AcceptedStep(s, kind, dialog, source)
          PROVE  RecordIntegrity'
      <3>1. IntegrityOf(turns'[s])
        BY <2>2, AcceptedHolds
           DEF AcceptedStep, IntegrityOf, IsFinalizing, HoldsSession, FailedStates
      <3> QED
        BY <2>0, <2>2, <3>1 DEF AcceptedStep, RecordIntegrity
    <2>3. ASSUME NEW s \in Scopes, NEW event \in Events, NEW phase \in {"none"} \cup Phases,
                 NEW t \in TurnRecord, OpenStep(s, event, phase, t)
          PROVE  RecordIntegrity'
      <3>1. IntegrityOf(t)
        BY <2>3 DEF OpenStep, RecordIntegrity
      <3>2. IntegrityOf(turns'[s])
        BY <2>3, <3>1, OpenStepEffect, RevisedKeeps, IntegrityDepends
      <3> QED
        BY <2>3, <3>2, OpenStepEffect DEF RecordIntegrity, Exists
    <2>4. ASSUME NEW gone \in SUBSET Scopes, ForgetStep(gone) PROVE RecordIntegrity'
      <3>1. \A q \in gone : ~Exists(q)'
        BY <2>4 DEF ForgetStep, Exists, Absent
      <3> QED
        BY <2>0, <2>4, <3>1 DEF ForgetStep, RecordIntegrity
    <2> QED
      BY <2>1, <2>2, <2>3, <2>4, StepShape
  <1> QED
    BY <1>1, <1>2, TypeCorrect, PTL DEF Spec

-----------------------------------------------------------------------------
(***************************************************************************)
(* A settled turn keeps its outcome: an acceptance needs an absent turn    *)
(* and an event a turn that is not settled.                                *)
(***************************************************************************)
THEOREM SettledStays == Spec => SettledIsImmutable
  <1> DEFINE Kept == \A q \in Scopes : IsSettled(turns[q]) /\ Exists(q)' => Relinked(q)
  <1>1. TypeOK /\ [Next]_vars => Kept
    <2> SUFFICES ASSUME TypeOK, [Next]_vars PROVE Kept
      OBVIOUS
    <2>0. ASSUME NEW q \in Scopes, turns'[q] = turns[q] PROVE Relinked(q)
      BY <2>0 DEF Relinked, TypeOK, TurnRecord
    <2>1. CASE LifecycleKept
      BY <2>0, <2>1 DEF LifecycleKept
    <2>2. ASSUME NEW s \in Scopes, NEW kind \in {"send", "resend", "continue"},
                 NEW dialog \in Nat, NEW source \in Source, AcceptedStep(s, kind, dialog, source)
          PROVE  Kept
      <3>1. ~IsSettled(turns[s])
        BY <2>2 DEF AcceptedStep, CanAccept, Exists, IsSettled, IsTerminal, TerminalStates,
                    FailedStates
      <3> QED
        BY <2>2, <3>1 DEF AcceptedStep
    <2>3. ASSUME NEW s \in Scopes, NEW event \in Events, NEW phase \in {"none"} \cup Phases,
                 NEW t \in TurnRecord, OpenStep(s, event, phase, t)
          PROVE  Kept
      BY <2>0, <2>3, OpenStepEffect DEF OpenStep
    <2>4. ASSUME NEW gone \in SUBSET Scopes, ForgetStep(gone) PROVE Kept
      BY <2>4 DEF ForgetStep, Exists, Absent
    <2> QED
      BY <2>1, <2>2, <2>3, <2>4, StepShape
  <1>2. Kept => [\A s \in Scopes : IsSettled(turns[s]) /\ Exists(s)' =>
                    turns'[s] = [turns[s] EXCEPT !.continuedBy = turns'[s].continuedBy,
                                                 !.source = turns'[s].source]]_vars
    BY DEF Relinked
  <1> QED
    BY <1>1, <1>2, TypeCorrect, PTL DEF Spec, SettledIsImmutable
==============================================================================
