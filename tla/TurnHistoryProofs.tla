-------------------------- MODULE TurnHistoryProofs --------------------------
(***************************************************************************)
(* Proofs about the commands of TurnLifecycle and the order of things: a   *)
(* deleted turn is never created again, the active turn can always be      *)
(* settled, what moves the version, what receipts say of their turns, that *)
(* a stop is final, and that continuations point at each other.            *)
(***************************************************************************)
EXTENDS TurnLifecycleProofs

-----------------------------------------------------------------------------
(***************************************************************************)
(* What keeps a late command of a deleted turn out.  Every turn stems from *)
(* an accepted command, and an accepted command that has no turn carries   *)
(* an older version than the session's: whoever removed the turn moved it. *)
(***************************************************************************)
CommandInv ==
    \A s \in Scopes :
        /\ issued[s].version <= aggregateVersion
        /\ issued[s].kind = "none" => ~issued[s].accepted
        /\ Exists(s) => issued[s].accepted
        /\ issued[s].accepted /\ ~Exists(s) => issued[s].version < aggregateVersion

\* The command of one scope id that was not accepted is issued anew.
IssuedStep(s, command) ==
    /\ ~issued[s].accepted
    /\ command.kind # "none"
    /\ ~command.accepted
    /\ command.version = aggregateVersion'
    /\ issued' = [issued EXCEPT ![s] = command]

LEMMA ClientShape ==
    ASSUME TypeOK, CommandInv, NEW s \in Scopes, ClientStep(s)
    PROVE  /\ UNCHANGED <<messages, aggregateVersion, turns, sequence>>
           /\ \E command \in Command :
                 IssuedStep(s, command) /\ command.dialog = issued[s].dialog
                 /\ (issued[s].kind = "none" \/ command.kind = issued[s].kind)
  <1>0. /\ issued \in [Scopes -> Command] /\ issued[s] \in Command /\ aggregateVersion \in Nat
        /\ turns \in [Scopes -> TurnRecord]
    BY DEF TypeOK
  <1>1. CASE IssueSend(s)
    <2> DEFINE command == [issued[s] EXCEPT !.kind = "send", !.version = aggregateVersion]
    <2>1. /\ command \in Command /\ command.kind = "send" /\ command.version = aggregateVersion
          /\ command.accepted = issued[s].accepted /\ command.dialog = issued[s].dialog
      BY <1>0 DEF Command
    <2>2. issued' = [issued EXCEPT ![s] = command] /\ issued[s].kind = "none" /\ ~issued[s].accepted
      BY <1>1 DEF IssueSend, CommandInv
    <2> QED
      BY <1>1, <2>1, <2>2 DEF IssueSend, IssuedStep
  <1>2. ASSUME NEW src \in Scopes, IssueContinue(s, src)
        PROVE  /\ UNCHANGED <<messages, aggregateVersion, turns, sequence>>
               /\ \E command \in Command :
                     IssuedStep(s, command) /\ command.dialog = issued[s].dialog
                     /\ issued[s].kind = "none"
    <2> DEFINE source == [scope |-> src, dialog |-> turns[src].dialog]
               command == [issued[s] EXCEPT !.kind = "continue", !.version = aggregateVersion,
                                            !.source = source]
    <2>0. source \in [scope : Scopes \cup {NoScope}, dialog : Nat]
      BY <1>0 DEF TurnRecord
    <2>1. /\ command \in Command /\ command.kind = "continue"
          /\ command.version = aggregateVersion
          /\ command.accepted = issued[s].accepted /\ command.dialog = issued[s].dialog
      BY <1>0, <2>0 DEF Command
    <2>2. issued' = [issued EXCEPT ![s] = command] /\ issued[s].kind = "none" /\ ~issued[s].accepted
      BY <1>2 DEF IssueContinue, CommandInv
    <2> QED
      BY <1>2, <2>1, <2>2 DEF IssueContinue, IssuedStep
  <1>3. CASE ReissueAfterConflict(s)
    <2> DEFINE command == [issued[s] EXCEPT !.version = aggregateVersion]
    <2>1. /\ command \in Command /\ command.kind = issued[s].kind
          /\ command.version = aggregateVersion
          /\ command.accepted = issued[s].accepted /\ command.dialog = issued[s].dialog
      BY <1>0 DEF Command
    <2>2. issued' = [issued EXCEPT ![s] = command]
      BY <1>0, <1>3 DEF ReissueAfterConflict
    <2> QED
      BY <1>3, <2>1, <2>2 DEF ReissueAfterConflict, IssuedStep
  <1> QED
    BY <1>1, <1>2, <1>3 DEF ClientStep

\* What accepting a command does to the command, its turn and the messages.
LEMMA AcceptEffect ==
    ASSUME TypeOK, NEW s \in Scopes, AcceptStep(s)
    PROVE  /\ issued[s].kind # "none" /\ VersionMatches(s) /\ ~Exists(s) /\ Exists(s)'
           /\ aggregateVersion' >= aggregateVersion
           /\ \A q \in Scopes \ {s} : issued'[q] = issued[q] /\ Relinked(q)
           /\ issued'[s].accepted
           /\ issued'[s].version = issued[s].version /\ issued'[s].kind = issued[s].kind
           /\ issued'[s].dialog = turns'[s].dialog
           /\ issued[s].kind = "resend" => issued'[s].dialog = issued[s].dialog
           /\ \/ messages' = messages
              \/ messages' = Append(messages,
                    [scope |-> s, dialog |-> issued'[s].dialog, role |-> "user"])
  <1>1. PICK kind \in {"send", "resend", "continue"}, dialog \in Nat, source \in Source :
           AcceptedStep(s, kind, dialog, source)
    BY AcceptShape
  <1>2. issued \in [Scopes -> Command] /\ issued[s] \in Command /\ aggregateVersion \in Nat
    BY DEF TypeOK
  <1>3. issued'[s] = [issued[s] EXCEPT !.accepted = TRUE, !.dialog = dialog]
    BY <1>1, <1>2 DEF AcceptedStep
  <1>4. /\ issued'[s].accepted /\ issued'[s].dialog = dialog
        /\ issued'[s].version = issued[s].version /\ issued'[s].kind = issued[s].kind
    BY <1>2, <1>3 DEF Command
  <1>5. \A q \in Scopes \ {s} : issued'[q] = issued[q] /\ Relinked(q)
    BY <1>1, <1>2 DEF AcceptedStep
  <1>6. turns'[s].dialog = dialog /\ turns'[s].state = "action_requesting"
    BY <1>1, AcceptedTurnType, AcceptedHolds DEF AcceptedStep
  <1>7. issued[s].kind # "none" /\ VersionMatches(s) /\ ~Exists(s)
    BY <1>1 DEF AcceptedStep, CanAccept
  <1>8. aggregateVersion' \in {aggregateVersion, aggregateVersion + 1}
    BY DEF AcceptStep, AcceptSend, AcceptContinue, AcceptResend, MaterializeUserMessage,
           AcceptedVersion
  <1>9. /\ issued[s].kind = "resend" => issued'[s].dialog = issued[s].dialog
        /\ \/ messages' = messages
           \/ messages' = Append(messages,
                 [scope |-> s, dialog |-> issued'[s].dialog, role |-> "user"])
    <2>1. ASSUME NEW d, MaterializeUserMessage(s, d)
          PROVE  \/ messages' = messages
                 \/ messages' = Append(messages,
                       [scope |-> s, dialog |-> issued'[s].dialog, role |-> "user"])
      <3>1. issued'[s] = [issued[s] EXCEPT !.accepted = TRUE, !.dialog = d]
        BY <1>2, <2>1 DEF MaterializeUserMessage
      <3>2. issued'[s].dialog = d
        BY <1>2, <3>1 DEF Command
      <3> QED
        BY <2>1, <3>2 DEF MaterializeUserMessage
    <2>2. CASE AcceptSend(s)
      BY <2>1, <2>2 DEF AcceptSend, CanAccept
    <2>3. CASE AcceptContinue(s)
      BY <2>1, <2>3 DEF AcceptContinue, CanAccept
    <2>4. CASE AcceptResend(s)
      <3>1. issued'[s] = [issued[s] EXCEPT !.accepted = TRUE] /\ messages' = messages
        BY <1>2, <2>4 DEF AcceptResend
      <3> QED
        BY <1>2, <3>1 DEF Command
    <2> QED
      BY <2>2, <2>3, <2>4 DEF AcceptStep
  <1> QED
    BY <1>2, <1>4, <1>5, <1>6, <1>7, <1>8, <1>9 DEF Exists

\* What a session command does: the turns it cuts are gone, the version moves,
\* and a replacement prepares a command that was never issued.
LEMMA CutEffect ==
    ASSUME TypeOK, NEW s \in Scopes, DeleteFrom(s) \/ \E r \in Scopes : Replace(s, r)
    PROVE  \E i \in 1..Len(messages) :
              /\ \A q \in Scopes : \/ turns'[q] = Absent
                                   \/ Relinked(q) /\ q \notin ScopesFrom(i)
              /\ aggregateVersion' = aggregateVersion + 1
              /\ \/ messages' = Before(i) /\ UNCHANGED issued
                 \/ \E r \in Scopes, role \in {"user", "injected"} :
                       /\ issued[r].kind = "none"
                       /\ messages' = Append(Before(i),
                             [scope |-> r, dialog |-> issued'[r].dialog, role |-> role])
                       /\ \A q \in Scopes \ {r} : issued'[q] = issued[q]
                       /\ issued'[r].kind = "resend"
                       /\ issued'[r].version = aggregateVersion'
                       /\ issued'[r].accepted = issued[r].accepted
                       /\ issued'[r].dialog = sequence + 1
  <1>0. issued \in [Scopes -> Command] /\ sequence + 1 \in Nat /\ messages \in Seq(Message)
    BY DEF TypeOK
  <1>1. ASSUME NEW command, NEW i \in 1..Len(messages),
               CommitSessionCommand(command, ScopesFrom(i))
        PROVE  /\ \A q \in Scopes : \/ turns'[q] = Absent
                                    \/ Relinked(q) /\ q \notin ScopesFrom(i)
               /\ aggregateVersion' = aggregateVersion + 1
    <2>1. ScopesFrom(i) \in SUBSET Scopes
      BY CutTypes
    <2>2. /\ \A q \in ScopesFrom(i) : turns'[q] = Absent
          /\ \A q \in Scopes \ ScopesFrom(i) : Relinked(q)
      BY <1>1, <2>1, ForgottenRelinked
    <2> QED
      BY <1>1, <2>2 DEF CommitSessionCommand
  <1>2. CASE DeleteFrom(s)
    <2>1. PICK i \in DOMAIN messages :
             /\ CommitSessionCommand("MESSAGE_DELETE_FROM", ScopesFrom(i))
             /\ messages' = Before(i) /\ UNCHANGED issued
      BY <1>2 DEF DeleteFrom
    <2>2. i \in 1..Len(messages)
      BY <1>0
    <2> QED
      BY <1>1, <2>1, <2>2
  <1>3. ASSUME NEW r \in Scopes, Replace(s, r)
        PROVE  \E i \in 1..Len(messages) :
              /\ \A q \in Scopes : \/ turns'[q] = Absent
                                   \/ Relinked(q) /\ q \notin ScopesFrom(i)
              /\ aggregateVersion' = aggregateVersion + 1
              /\ issued[r].kind = "none"
              /\ \E role \in {"user", "injected"} :
                    messages' = Append(Before(i),
                        [scope |-> r, dialog |-> issued'[r].dialog, role |-> role])
              /\ \A q \in Scopes \ {r} : issued'[q] = issued[q]
              /\ issued'[r].kind = "resend"
              /\ issued'[r].version = aggregateVersion'
              /\ issued'[r].accepted = issued[r].accepted
              /\ issued'[r].dialog = sequence + 1
    <2>1. PICK start \in DOMAIN messages :
             /\ issued[r].kind = "none"
             /\ CommitSessionCommand("TURN_REPLACE", ScopesFrom(start))
             /\ messages' = Append(Before(start),
                               [scope |-> r, dialog |-> sequence + 1,
                                role |-> ReplacementRole(messages[start])])
             /\ issued' = [issued EXCEPT ![r] =
                   [@ EXCEPT !.kind = "resend", !.version = aggregateVersion + 1,
                             !.dialog = sequence + 1]]
      BY <1>3 DEF Replace
    <2>2. start \in 1..Len(messages)
      BY <1>0
    <2>3. issued'[r] = [issued[r] EXCEPT !.kind = "resend", !.version = aggregateVersion + 1,
                                         !.dialog = sequence + 1]
      BY <1>0, <2>1
    <2>4. /\ issued'[r].kind = "resend" /\ issued'[r].version = aggregateVersion + 1
          /\ issued'[r].dialog = sequence + 1 /\ issued'[r].accepted = issued[r].accepted
      BY <1>0, <2>3 DEF Command
    <2>5. \A q \in Scopes \ {r} : issued'[q] = issued[q]
      BY <1>0, <2>1
    <2>6. ReplacementRole(messages[start]) \in {"user", "injected"}
      BY DEF ReplacementRole
    <2> QED
      BY <1>1, <2>1, <2>2, <2>4, <2>5, <2>6
  <1> QED
    BY <1>2, <1>3

-----------------------------------------------------------------------------
\* A step that leaves commands, versions and the existence of turns alone
\* preserves the invariant of the commands.
LEMMA CommandKept ==
    ASSUME CommandInv, UNCHANGED <<issued, aggregateVersion>>,
           \A q \in Scopes : Exists(q)' <=> Exists(q)
    PROVE  CommandInv'
  BY DEF CommandInv

LEMMA CommandInductive == TypeOK /\ CommandInv /\ [Next]_vars => CommandInv'
  <1> SUFFICES ASSUME TypeOK, CommandInv, [Next]_vars PROVE CommandInv'
    OBVIOUS
  <1>0. /\ issued \in [Scopes -> Command] /\ aggregateVersion \in Nat
        /\ \A q \in Scopes : issued[q].version \in Nat /\ issued[q].accepted \in BOOLEAN
    BY DEF TypeOK, Command
  <1>1. CASE UNCHANGED vars
    BY <1>1, CommandKept DEF vars, Exists
  <1>2. ASSUME NEW s \in Scopes, ClientStep(s) PROVE CommandInv'
    <2>1. /\ UNCHANGED <<aggregateVersion, turns>>
          /\ \E command \in Command : IssuedStep(s, command)
      BY <1>2, ClientShape
    <2>2. /\ ~issued[s].accepted /\ ~issued'[s].accepted /\ issued'[s].kind # "none"
          /\ issued'[s].version = aggregateVersion'
          /\ \A q \in Scopes \ {s} : issued'[q] = issued[q]
      BY <1>0, <2>1 DEF IssuedStep
    <2> QED
      BY <1>0, <2>1, <2>2 DEF CommandInv, Exists
  <1>3. ASSUME NEW s \in Scopes, AcceptStep(s) PROVE CommandInv'
    <2>1. aggregateVersion' \in Nat
      BY <1>0, <1>3 DEF AcceptStep, AcceptSend, AcceptContinue, AcceptResend,
                        MaterializeUserMessage, AcceptedVersion
    <2>2. ASSUME NEW q \in Scopes \ {s}
          PROVE  issued'[q] = issued[q] /\ (Exists(q)' <=> Exists(q))
      BY <1>3, AcceptEffect, RelinkedKeeps DEF Exists
    <2>3. /\ issued'[s].accepted /\ Exists(s)' /\ issued'[s].kind # "none"
          /\ issued'[s].version = issued[s].version
          /\ aggregateVersion' >= aggregateVersion
      BY <1>3, AcceptEffect
    <2>4. issued'[s].version <= aggregateVersion'
      BY <1>0, <2>1, <2>3 DEF CommandInv
    <2> QED
      BY <1>0, <2>1, <2>2, <2>3, <2>4 DEF CommandInv
  <1>4. ASSUME NEW s \in Scopes, TurnStep(s) PROVE CommandInv'
    <2>1. PICK event \in Events, phase \in {"none"} \cup Phases, t \in TurnRecord :
             OpenStep(s, event, phase, t)
      BY <1>4, TurnStepShape
    <2>2. Exists(s) /\ Exists(s)'
      BY <2>1, OpenStepEffect, RevisedKeeps DEF OpenStep, Exists
    <2> QED
      BY <2>1, <2>2, OpenStepEffect, CommandKept DEF Exists
  <1>5. ASSUME NEW s \in Scopes, DeleteFrom(s) \/ \E r \in Scopes : Replace(s, r)
        PROVE  CommandInv'
    <2>1. PICK i \in 1..Len(messages) :
              /\ \A q \in Scopes : \/ turns'[q] = Absent
                                   \/ Relinked(q) /\ q \notin ScopesFrom(i)
              /\ aggregateVersion' = aggregateVersion + 1
              /\ \/ UNCHANGED issued
                 \/ \E r \in Scopes :
                       /\ issued[r].kind = "none"
                       /\ \A q \in Scopes \ {r} : issued'[q] = issued[q]
                       /\ issued'[r].kind = "resend"
                       /\ issued'[r].version = aggregateVersion'
                       /\ issued'[r].accepted = issued[r].accepted
      BY <1>5, CutEffect
    <2>2. \A q \in Scopes : Exists(q)' => Exists(q)
      BY <2>1, RelinkedKeeps DEF Exists, Absent
    <2> QED
      BY <1>0, <2>1, <2>2 DEF CommandInv
  <1>6. ASSUME NEW s \in Scopes, NEW role, AppendTurns(s, role) PROVE CommandInv'
    BY <1>6, CommandKept DEF AppendTurns, Exists
  <1> QED
    BY <1>1, <1>2, <1>3, <1>4, <1>5, <1>6 DEF Next, SessionStep

(***************************************************************************)
(* A turn that was accepted and deleted is never created again, however    *)
(* late and however often its command arrives.                             *)
(***************************************************************************)
THEOREM DeletedStaysDeleted == Spec => DeletedNeverRecreated
  <1> DEFINE Stays == \A s \in Scopes : issued[s].accepted /\ ~Exists(s) => ~Exists(s)'
  <1>1. Init => CommandInv
    BY DEF Init, CommandInv, Unissued, Exists, Absent
  <1>2. TypeOK /\ CommandInv /\ [Next]_vars => Stays
    <2> SUFFICES ASSUME TypeOK, CommandInv, [Next]_vars, NEW s \in Scopes,
                        issued[s].accepted, ~Exists(s)
                 PROVE  ~Exists(s)'
      OBVIOUS
    <2>1. issued[s].version < aggregateVersion /\ issued[s].version \in Nat /\ aggregateVersion \in Nat
      BY DEF CommandInv, TypeOK, Command
    <2>2. CASE UNCHANGED vars
      BY <2>2 DEF vars, Exists
    <2>3. ASSUME NEW q \in Scopes, ClientStep(q) PROVE ~Exists(s)'
      BY <2>3, ClientShape DEF Exists
    <2>4. ASSUME NEW q \in Scopes, AcceptStep(q) PROVE ~Exists(s)'
      <3>0. issued[q].version = aggregateVersion
        BY <2>4, AcceptEffect DEF VersionMatches
      <3>1. q # s
        BY <2>1, <3>0
      <3> QED
        BY <2>4, <3>1, AcceptEffect, RelinkedKeeps DEF Exists
    <2>5. ASSUME NEW q \in Scopes, TurnStep(q) PROVE ~Exists(s)'
      <3>1. PICK event \in Events, phase \in {"none"} \cup Phases, t \in TurnRecord :
               OpenStep(q, event, phase, t)
        BY <2>5, TurnStepShape
      <3> QED
        BY <3>1, OpenStepEffect DEF OpenStep, Exists
    <2>6. ASSUME NEW q \in Scopes, DeleteFrom(q) \/ \E r \in Scopes : Replace(q, r)
          PROVE  ~Exists(s)'
      <3>1. turns'[s] = Absent \/ Relinked(s)
        BY <2>6, CutEffect
      <3> QED
        BY <3>1, RelinkedKeeps DEF Exists, Absent
    <2>7. ASSUME NEW q \in Scopes, NEW role, AppendTurns(q, role) PROVE ~Exists(s)'
      BY <2>7 DEF AppendTurns, Exists
    <2> QED
      BY <2>2, <2>3, <2>4, <2>5, <2>6, <2>7 DEF Next, SessionStep
  <1>3. Stays => [\A s \in Scopes : issued[s].accepted /\ ~Exists(s) => ~Exists(s)']_vars
    OBVIOUS
  <1> QED
    BY <1>1, <1>2, <1>3, TypeCorrect, CommandInductive, PTL DEF Spec, DeletedNeverRecreated

-----------------------------------------------------------------------------
(***************************************************************************)
(* Why the active turn can be settled: turn and messages take their dialog *)
(* process from the command, and the process of a command is never changed *)
(* once a message of it is there.  Until it is accepted, only the command  *)
(* a replacement prepares has a message.                                   *)
(***************************************************************************)
MayHaveMessages(command) == command.accepted \/ command.kind = "resend"

Dialogs(ms, commands) ==
    \A i \in 1..Len(ms) : /\ MayHaveMessages(commands[ms[i].scope])
                          /\ ms[i].dialog = commands[ms[i].scope].dialog

DialogInv ==
    /\ Dialogs(messages, issued)
    /\ \A s \in Scopes : Exists(s) => turns[s].dialog = issued[s].dialog

LEMMA DialogsAppend ==
    ASSUME NEW ms \in Seq(Message), NEW commands, NEW m \in Message, Dialogs(ms, commands),
           MayHaveMessages(commands[m.scope]), m.dialog = commands[m.scope].dialog
    PROVE  Dialogs(Append(ms, m), commands)
  <1>1. Len(Append(ms, m)) = Len(ms) + 1 /\ Len(ms) \in Nat
    OBVIOUS
  <1>2. ASSUME NEW i \in 1..(Len(ms) + 1)
        PROVE  Append(ms, m)[i] = IF i = Len(ms) + 1 THEN m ELSE ms[i]
    OBVIOUS
  <1> QED
    BY <1>1, <1>2 DEF Dialogs

LEMMA DialogsCut ==
    ASSUME NEW commands, messages \in Seq(Message), Dialogs(messages, commands),
           NEW i \in 1..Len(messages)
    PROVE  Dialogs(Before(i), commands)
  BY DEF Dialogs, Before

\* A command may change as long as it has no message.
LEMMA DialogsKept ==
    ASSUME NEW ms \in Seq(Message), NEW before, NEW after, Dialogs(ms, before),
           \A s \in Scopes : \/ ~MayHaveMessages(before[s])
                             \/ /\ MayHaveMessages(after[s])
                                /\ after[s].dialog = before[s].dialog
    PROVE  Dialogs(ms, after)
  <1> SUFFICES ASSUME NEW i \in 1..Len(ms)
               PROVE  /\ MayHaveMessages(after[ms[i].scope])
                      /\ ms[i].dialog = after[ms[i].scope].dialog
    BY DEF Dialogs
  <1>0. ms[i] \in Message
    OBVIOUS
  <1>1. ms[i].scope \in Scopes
    BY <1>0 DEF Message
  <1>2. MayHaveMessages(before[ms[i].scope]) /\ ms[i].dialog = before[ms[i].scope].dialog
    BY DEF Dialogs
  <1> QED
    BY <1>1, <1>2

LEMMA DialogInductive == TypeOK /\ CommandInv /\ DialogInv /\ [Next]_vars => DialogInv'
  <1> SUFFICES ASSUME TypeOK, CommandInv, DialogInv, [Next]_vars PROVE DialogInv'
    OBVIOUS
  <1>0. /\ issued \in [Scopes -> Command] /\ aggregateVersion \in Nat /\ sequence \in Nat
        /\ messages \in Seq(Message)
        /\ \A q \in Scopes : issued[q].version \in Nat /\ issued[q].dialog \in Nat
    BY DEF TypeOK, Command
  <1>1. CASE UNCHANGED vars
    BY <1>1 DEF vars, DialogInv, Exists
  <1>2. ASSUME NEW s \in Scopes, ClientStep(s) PROVE DialogInv'
    <2>1. PICK command \in Command :
             /\ IssuedStep(s, command) /\ command.dialog = issued[s].dialog
             /\ (issued[s].kind = "none" \/ command.kind = issued[s].kind)
      BY <1>2, ClientShape
    <2>2. /\ ~issued[s].accepted /\ issued'[s].dialog = issued[s].dialog
          /\ issued[s].kind = "resend" => issued'[s].kind = "resend"
          /\ \A q \in Scopes \ {s} : issued'[q] = issued[q]
      BY <1>0, <2>1 DEF IssuedStep
    <2>3. UNCHANGED <<messages, turns>>
      BY <1>2, ClientShape
    <2>4. Dialogs(messages, issued')
      BY <1>0, <2>2, DialogsKept DEF DialogInv, MayHaveMessages
    <2> QED
      BY <2>2, <2>3, <2>4 DEF DialogInv, Exists
  <1>3. ASSUME NEW s \in Scopes, AcceptStep(s) PROVE DialogInv'
    <2>1. ~issued[s].accepted
      <3>1. issued[s].version = aggregateVersion /\ ~Exists(s)
        BY <1>3, AcceptEffect DEF VersionMatches
      <3> QED
        BY <1>0, <3>1 DEF CommandInv
    <2>2. /\ \A q \in Scopes \ {s} : issued'[q] = issued[q] /\ Relinked(q)
          /\ issued'[s].accepted /\ issued'[s].dialog = turns'[s].dialog
          /\ issued[s].kind = "resend" => issued'[s].dialog = issued[s].dialog
      BY <1>3, AcceptEffect
    <2>3. Dialogs(messages, issued')
      BY <1>0, <2>1, <2>2, DialogsKept DEF DialogInv, MayHaveMessages
    <2>4. Dialogs(messages', issued')
      <3>1. \/ messages' = messages
            \/ messages' = Append(messages,
                  [scope |-> s, dialog |-> issued'[s].dialog, role |-> "user"])
        BY <1>3, AcceptEffect
      <3>2. issued'[s].dialog \in Nat
        <4>1. PICK kind \in {"send", "resend", "continue"}, dialog \in Nat, source \in Source :
                 AcceptedStep(s, kind, dialog, source)
          BY <1>3, AcceptShape
        <4>2. issued'[s] = [issued[s] EXCEPT !.accepted = TRUE, !.dialog = dialog]
          BY <1>0, <4>1 DEF AcceptedStep
        <4> QED
          BY <1>0, <4>2 DEF Command
      <3>3. [scope |-> s, dialog |-> issued'[s].dialog, role |-> "user"] \in Message
        BY <3>2 DEF Message
      <3> QED
        BY <1>0, <2>2, <2>3, <3>1, <3>3, DialogsAppend DEF MayHaveMessages
    <2>5. ASSUME NEW q \in Scopes \ {s}, Exists(q)' PROVE turns'[q].dialog = issued'[q].dialog
      BY <2>2, <2>5, RelinkedKeeps DEF DialogInv, Exists
    <2> QED
      BY <2>2, <2>4, <2>5 DEF DialogInv
  <1>4. ASSUME NEW s \in Scopes, TurnStep(s) PROVE DialogInv'
    <2>1. PICK event \in Events, phase \in {"none"} \cup Phases, t \in TurnRecord :
             OpenStep(s, event, phase, t)
      BY <1>4, TurnStepShape
    <2>2. UNCHANGED <<messages, issued>> /\ \A q \in Scopes \ {s} : turns'[q] = turns[q]
      BY <2>1, OpenStepEffect
    <2>3. Exists(s) /\ turns'[s].dialog = turns[s].dialog
      BY <2>1, OpenStepEffect, RevisedKeeps DEF OpenStep
    <2> QED
      BY <2>2, <2>3 DEF DialogInv, Exists
  <1>5. ASSUME NEW s \in Scopes, DeleteFrom(s) \/ \E r \in Scopes : Replace(s, r)
        PROVE  DialogInv'
    <2>1. PICK i \in 1..Len(messages) :
              /\ \A q \in Scopes : turns'[q] = Absent \/ Relinked(q)
              /\ \/ messages' = Before(i) /\ UNCHANGED issued
                 \/ \E r \in Scopes, role \in {"user", "injected"} :
                       /\ issued[r].kind = "none"
                       /\ messages' = Append(Before(i),
                             [scope |-> r, dialog |-> issued'[r].dialog, role |-> role])
                       /\ \A q \in Scopes \ {r} : issued'[q] = issued[q]
                       /\ issued'[r].kind = "resend"
                       /\ issued'[r].dialog = sequence + 1
      BY <1>5, CutEffect
    <2>2. Before(i) \in Seq(Message) /\ Dialogs(Before(i), issued)
      BY <1>0, CutTypes, DialogsCut DEF DialogInv
    <2>3. ASSUME NEW q \in Scopes, Exists(q)'
          PROVE  Exists(q) /\ turns'[q].dialog = issued[q].dialog
      BY <2>1, <2>3, RelinkedKeeps DEF DialogInv, Exists, Absent
    <2>4. CASE messages' = Before(i) /\ UNCHANGED issued
      BY <2>2, <2>3, <2>4 DEF DialogInv
    <2>5. ASSUME NEW r \in Scopes, NEW role \in {"user", "injected"},
                 issued[r].kind = "none",
                 messages' = Append(Before(i),
                    [scope |-> r, dialog |-> issued'[r].dialog, role |-> role]),
                 \A q \in Scopes \ {r} : issued'[q] = issued[q],
                 issued'[r].kind = "resend", issued'[r].dialog = sequence + 1
          PROVE  DialogInv'
      <3>1. ~MayHaveMessages(issued[r]) /\ ~Exists(r)
        BY <2>5 DEF CommandInv, MayHaveMessages
      <3>2. Dialogs(Before(i), issued')
        BY <2>2, <2>5, <3>1, DialogsKept
      <3>3. issued'[r].dialog \in Nat
        BY <1>0, <2>5
      <3>4. [scope |-> r, dialog |-> issued'[r].dialog, role |-> role] \in Message
        BY <3>3 DEF Message
      <3>5. Dialogs(messages', issued')
        BY <2>2, <2>5, <3>2, <3>4, DialogsAppend DEF MayHaveMessages
      <3> QED
        BY <2>3, <2>5, <3>1, <3>5 DEF DialogInv
    <2> QED
      BY <2>1, <2>4, <2>5
  <1>6. ASSUME NEW s \in Scopes, NEW role \in {"injected", "assistant"}, AppendTurns(s, role)
        PROVE  DialogInv'
    <2> DEFINE m == [scope |-> s, dialog |-> issued[s].dialog, role |-> role]
    <2>1. m \in Message
      BY <1>0 DEF Message
    <2>2. messages' = Append(messages, m) /\ UNCHANGED <<issued, turns>> /\ issued[s].accepted
      BY <1>6 DEF AppendTurns
    <2>3. Dialogs(Append(messages, m), issued)
      BY <1>0, <2>1, <2>2, DialogsAppend DEF DialogInv, MayHaveMessages
    <2> QED
      BY <2>2, <2>3 DEF DialogInv, Exists
  <1> QED
    BY <1>1, <1>2, <1>3, <1>4, <1>5, <1>6 DEF Next, SessionStep

(***************************************************************************)
(* The messages of the active turn carry the dialog process of its record, *)
(* so its terminal event is never refused for them.                        *)
(***************************************************************************)
THEOREM ActiveTurnSettles == Spec => []ActiveTurnCanSettle
  <1>1. Init => CommandInv /\ DialogInv
    BY DEF Init, CommandInv, DialogInv, Dialogs, Unissued, Exists, Absent
  <1>2. TypeOK /\ OpenTurnIsActive /\ DialogInv => ActiveTurnCanSettle
    <2> SUFFICES ASSUME TypeOK, OpenTurnIsActive, DialogInv, activeTurnScopeId # NoScope
                 PROVE  CanMaterializeTerminal(activeTurnScopeId)
      BY DEF ActiveTurnCanSettle
    <2>1. /\ activeTurnScopeId \in Scopes /\ Exists(activeTurnScopeId)
          /\ DOMAIN messages = 1..Len(messages)
      BY DEF TypeOK, OpenTurnIsActive
    <2> QED
      BY <2>1 DEF DialogInv, Dialogs, CanMaterializeTerminal
  <1> QED
    BY <1>1, <1>2, TypeCorrect, OneOpenTurn, CommandInductive, DialogInductive, PTL DEF Spec

-----------------------------------------------------------------------------
(***************************************************************************)
(* Without a new version, the messages are the same or a run that was      *)
(* accepted appended one, which does not open a turn.                      *)
(***************************************************************************)
LEMMA MessagesWithoutVersion ==
    ASSUME TypeOK, [Next]_vars, aggregateVersion' = aggregateVersion
    PROVE  \/ messages' = messages
           \/ \E m \in Message :
                 /\ messages' = Append(messages, m)
                 /\ m.role # "user" /\ issued[m.scope].accepted
  <1>0. aggregateVersion \in Nat /\ issued \in [Scopes -> Command]
    BY DEF TypeOK
  <1>1. CASE UNCHANGED vars
    BY <1>1 DEF vars
  <1>2. ASSUME NEW s \in Scopes, ClientStep(s) PROVE messages' = messages
    BY <1>2 DEF ClientStep, IssueSend, IssueContinue, ReissueAfterConflict
  <1>3. ASSUME NEW s \in Scopes, AcceptStep(s) PROVE messages' = messages
    BY <1>0, <1>3 DEF AcceptStep, AcceptSend, AcceptContinue, AcceptResend,
                      MaterializeUserMessage, AcceptedVersion
  <1>4. ASSUME NEW s \in Scopes, TurnStep(s) PROVE messages' = messages
    BY <1>4, TurnStepShape, OpenStepEffect
  <1>5. ASSUME NEW s \in Scopes, DeleteFrom(s) \/ \E r \in Scopes : Replace(s, r) PROVE FALSE
    <2>1. aggregateVersion' = aggregateVersion + 1
      BY <1>5, CutEffect
    <2> QED
      BY <1>0, <2>1
  <1>6. ASSUME NEW s \in Scopes, NEW role \in {"injected", "assistant"}, AppendTurns(s, role)
        PROVE  \E m \in Message :
                  /\ messages' = Append(messages, m)
                  /\ m.role # "user" /\ issued[m.scope].accepted
    <2> DEFINE m == [scope |-> s, dialog |-> issued[s].dialog, role |-> role]
    <2>1. m \in Message /\ m.role # "user" /\ m.scope = s
      BY <1>0 DEF Message, Command
    <2>2. messages' = Append(messages, m) /\ issued[s].accepted
      BY <1>6 DEF AppendTurns
    <2> QED
      BY <2>1, <2>2
  <1> QED
    BY <1>1, <1>2, <1>3, <1>4, <1>5, <1>6 DEF Next, SessionStep

(***************************************************************************)
(* As long as the aggregate version stays, messages are only added, at the *)
(* end, by runs that were accepted, and none of them opens a turn.         *)
(***************************************************************************)
THEOREM UserMessagesVersioned == Spec => UserMessagesMoveVersion
  <1> DEFINE Grown ==
        aggregateVersion' = aggregateVersion =>
          /\ Len(messages) <= Len(messages')
          /\ \A i \in DOMAIN messages : messages'[i] = messages[i]
          /\ \A i \in DOMAIN messages' \ DOMAIN messages :
                messages'[i].role # "user" /\ issued[messages'[i].scope].accepted
  <1>1. TypeOK /\ [Next]_vars => Grown
    <2> SUFFICES ASSUME TypeOK, [Next]_vars, aggregateVersion' = aggregateVersion PROVE Grown
      OBVIOUS
    <2>0. messages \in Seq(Message) /\ DOMAIN messages = 1..Len(messages) /\ Len(messages) \in Nat
      BY DEF TypeOK
    <2>1. CASE messages' = messages
      BY <2>0, <2>1
    <2>2. ASSUME NEW m \in Message, messages' = Append(messages, m),
                 m.role # "user", issued[m.scope].accepted
          PROVE  Grown
      <3>1. /\ Len(messages') = Len(messages) + 1
            /\ DOMAIN messages' = 1..(Len(messages) + 1)
            /\ messages'[Len(messages) + 1] = m
            /\ \A i \in 1..Len(messages) : messages'[i] = messages[i]
        BY <2>0, <2>2
      <3>2. \A i \in DOMAIN messages' \ DOMAIN messages : messages'[i] = m
        BY <2>0, <3>1
      <3> QED
        BY <2>0, <2>2, <3>1, <3>2
    <2> QED
      BY <2>1, <2>2, MessagesWithoutVersion
  <1>2. Grown => [aggregateVersion' = aggregateVersion =>
          /\ Len(messages) <= Len(messages')
          /\ \A i \in DOMAIN messages : messages'[i] = messages[i]
          /\ \A i \in DOMAIN messages' \ DOMAIN messages :
                messages'[i].role # "user" /\ issued[messages'[i].scope].accepted]_vars
    OBVIOUS
  <1> QED
    BY <1>1, <1>2, TypeCorrect, PTL DEF Spec, UserMessagesMoveVersion

-----------------------------------------------------------------------------
(***************************************************************************)
(* Receipts.  A commit retains some of the receipts and adds one that      *)
(* holds the revision and the sequence its turn has from then on.          *)
(***************************************************************************)
ReceiptInv ==
    /\ ReceiptsMatchTurns
    /\ \A s \in Scopes : turns[s].sequence <= sequence

LEMMA CommitReceipts ==
    ASSUME TypeOK, NEW s \in Scopes, AcceptStep(s) \/ TurnStep(s)
    PROVE  \A r \in commandReceipts' :
              \/ r \in commandReceipts
              \/ /\ r.scope = s /\ r.revision = turns'[s].revision
                 /\ r.sequence = sequence + 1
  <1>1. ASSUME NEW event, NEW phase, NEW records, CommitTurn(s, event, phase, records)
        PROVE  \A r \in commandReceipts' :
                  \/ r \in commandReceipts
                  \/ /\ r.scope = s /\ r.revision = turns'[s].revision
                     /\ r.sequence = sequence + 1
    BY <1>1 DEF CommitTurn, AppendReceipt, Newest
  <1>2. CASE AcceptStep(s)
    BY <1>1, <1>2 DEF AcceptStep, AcceptSend, AcceptContinue, AcceptResend
  <1>3. CASE TurnStep(s)
    <2>1. PICK event \in Events, phase \in {"none"} \cup Phases, t \in TurnRecord :
             OpenStep(s, event, phase, t)
      BY <1>3, TurnStepShape
    <2>2. CommitTurn(s, event, phase, [turns EXCEPT ![s] = Revised(s, t)])
      BY <2>1 DEF OpenStep, Advance
    <2> QED
      BY <1>1, <2>2
  <1> QED
    BY <1>2, <1>3

LEMMA CutReceipts ==
    ASSUME TypeOK, NEW s \in Scopes, DeleteFrom(s) \/ \E r \in Scopes : Replace(s, r)
    PROVE  \E gone \in SUBSET Scopes :
              /\ \A q \in gone : turns'[q] = Absent
              /\ \A q \in Scopes \ gone : Relinked(q)
              /\ sequence' = sequence + 1
              /\ \A r \in commandReceipts' :
                    r.scope = NoScope \/ (r \in commandReceipts /\ r.scope \notin gone)
  <1>1. ASSUME NEW command, NEW gone \in SUBSET Scopes, CommitSessionCommand(command, gone)
        PROVE  /\ \A q \in gone : turns'[q] = Absent
               /\ \A q \in Scopes \ gone : Relinked(q)
               /\ sequence' = sequence + 1
               /\ \A r \in commandReceipts' :
                     r.scope = NoScope \/ (r \in commandReceipts /\ r.scope \notin gone)
    BY <1>1, ForgottenRelinked DEF CommitSessionCommand, AppendReceipt, Newest, WithoutScopes
  <1>2. PICK i \in DOMAIN messages, command \in SessionCommands : CommitSessionCommand(command, ScopesFrom(i))
    BY DEF DeleteFrom, Replace, SessionCommands
  <1>3. ScopesFrom(i) \in SUBSET Scopes
    BY CutTypes DEF TypeOK
  <1> QED
    BY <1>1, <1>2, <1>3

(***************************************************************************)
(* A retained receipt speaks of a turn that exists, at a revision the turn *)
(* reached.                                                                *)
(***************************************************************************)
THEOREM ReceiptsMatch == Spec => []ReceiptsMatchTurns
  <1>1. Init => ReceiptInv
    BY DEF Init, ReceiptInv, ReceiptsMatchTurns, Absent
  <1>2. TypeOK /\ ReceiptInv /\ [Next]_vars => ReceiptInv'
    <2> SUFFICES ASSUME TypeOK, ReceiptInv, [Next]_vars PROVE ReceiptInv'
      OBVIOUS
    <2>0. /\ sequence \in Nat /\ commandReceipts \subseteq Receipt
          /\ \A q \in Scopes : turns[q].revision \in Nat /\ turns[q].sequence \in Nat
          /\ \A r \in commandReceipts : r.revision \in Nat /\ r.sequence \in Nat
                                        /\ r.scope \in Scopes \cup {NoScope}
      BY DEF TypeOK, TurnRecord, Receipt
    <2>1. CASE UNCHANGED <<turns, sequence, commandReceipts>>
      BY <2>1 DEF ReceiptInv, ReceiptsMatchTurns, Exists
    <2>2. ASSUME NEW s \in Scopes,
                 sequence' = sequence + 1,
                 Exists(s)', turns'[s].sequence = sequence + 1,
                 turns'[s].revision >= turns[s].revision \/ ~Exists(s),
                 turns'[s].revision \in Nat,
                 \A q \in Scopes \ {s} :
                    /\ turns'[q].state = turns[q].state
                    /\ turns'[q].revision = turns[q].revision
                    /\ turns'[q].sequence = turns[q].sequence,
                 \A r \in commandReceipts' :
                    \/ r \in commandReceipts
                    \/ /\ r.scope = s /\ r.revision = turns'[s].revision
                       /\ r.sequence = sequence + 1
          PROVE  ReceiptInv'
      <3>1. \A q \in Scopes : turns'[q].sequence <= sequence'
        BY <2>0, <2>2 DEF ReceiptInv
      <3>2. ASSUME NEW r \in commandReceipts', r.scope # NoScope
            PROVE  /\ Exists(r.scope)' /\ r.revision <= turns'[r.scope].revision
                   /\ r.sequence <= turns'[r.scope].sequence
        <4>1. CASE r.scope = s /\ r.revision = turns'[s].revision /\ r.sequence = sequence + 1
          BY <2>0, <2>2, <4>1
        <4>2. CASE r \in commandReceipts /\ r.scope = s
          <5>1. /\ Exists(s) /\ r.revision <= turns[s].revision
                /\ r.sequence <= turns[s].sequence /\ turns[s].sequence <= sequence
            BY <3>2, <4>2 DEF ReceiptInv, ReceiptsMatchTurns
          <5> QED
            BY <2>0, <2>2, <4>2, <5>1
        <4>3. CASE r \in commandReceipts /\ r.scope # s
          BY <2>0, <2>2, <3>2, <4>3 DEF ReceiptInv, ReceiptsMatchTurns, Exists
        <4> QED
          BY <2>2, <4>1, <4>2, <4>3
      <3> QED
        BY <3>1, <3>2 DEF ReceiptInv, ReceiptsMatchTurns
    <2>3. ASSUME NEW s \in Scopes,
                 ClientStep(s) \/ \E role \in {"injected", "assistant"} : AppendTurns(s, role)
          PROVE  UNCHANGED <<turns, sequence, commandReceipts>>
      BY <2>3 DEF ClientStep, IssueSend, IssueContinue, ReissueAfterConflict, AppendTurns
    <2>4. ASSUME NEW s \in Scopes, AcceptStep(s) PROVE ReceiptInv'
      <3>1. PICK kind \in {"send", "resend", "continue"}, dialog \in Nat, source \in Source :
               AcceptedStep(s, kind, dialog, source)
        BY <2>4, AcceptShape
      <3>2. turns'[s].revision = 1 /\ turns'[s].sequence = sequence + 1
        BY <3>1 DEF AcceptedStep, AcceptedTurn, Absent
      <3>3. Exists(s)' /\ ~Exists(s)
        BY <2>4, AcceptEffect
      <3>4. sequence' = sequence + 1 /\ \A q \in Scopes \ {s} : Relinked(q)
        BY <3>1 DEF AcceptedStep
      <3> QED
        BY <2>2, <2>4, <3>2, <3>3, <3>4, RelinkedKeeps, CommitReceipts
    <2>5. ASSUME NEW s \in Scopes, TurnStep(s) PROVE ReceiptInv'
      <3>1. PICK event \in Events, phase \in {"none"} \cup Phases, t \in TurnRecord :
               OpenStep(s, event, phase, t)
        BY <2>5, TurnStepShape
      <3>2. /\ turns'[s].revision = turns[s].revision + 1
            /\ turns'[s].sequence = sequence + 1 /\ Exists(s)' /\ sequence' = sequence + 1
            /\ \A q \in Scopes \ {s} : turns'[q] = turns[q]
        BY <3>1, OpenStepEffect, RevisedKeeps DEF OpenStep, Exists
      <3> QED
        BY <2>0, <2>2, <2>5, <3>2, CommitReceipts
    <2>6. ASSUME NEW s \in Scopes, DeleteFrom(s) \/ \E r \in Scopes : Replace(s, r)
          PROVE  ReceiptInv'
      <3>1. PICK gone \in SUBSET Scopes :
              /\ \A q \in gone : turns'[q] = Absent
              /\ \A q \in Scopes \ gone : Relinked(q)
              /\ sequence' = sequence + 1
              /\ \A r \in commandReceipts' :
                    r.scope = NoScope \/ (r \in commandReceipts /\ r.scope \notin gone)
        BY <2>6, CutReceipts
      <3>2. \A q \in Scopes : turns'[q].sequence <= sequence'
        BY <2>0, <3>1, RelinkedKeeps DEF Absent, ReceiptInv
      <3>3. ASSUME NEW r \in commandReceipts', r.scope # NoScope
            PROVE  /\ Exists(r.scope)' /\ r.revision <= turns'[r.scope].revision
                   /\ r.sequence <= turns'[r.scope].sequence
        <4>1. r \in commandReceipts /\ r.scope \in Scopes \ gone
          BY <2>0, <3>1, <3>3
        <4> QED
          BY <3>1, <3>3, <4>1, RelinkedKeeps DEF ReceiptInv, ReceiptsMatchTurns, Exists
      <3> QED
        BY <3>2, <3>3 DEF ReceiptInv, ReceiptsMatchTurns
    <2> QED
      BY <2>1, <2>3, <2>4, <2>5, <2>6 DEF Next, SessionStep, vars
  <1>3. ReceiptInv => ReceiptsMatchTurns
    BY DEF ReceiptInv
  <1> QED
    BY <1>1, <1>2, <1>3, TypeCorrect, PTL DEF Spec

-----------------------------------------------------------------------------
(***************************************************************************)
(* A stop is final.  A stopped turn is on its way to the end of the stop   *)
(* and intends nothing else; a turn that intends to finalize was not and   *)
(* will not be stopped, for only a turn that is processing is.             *)
(***************************************************************************)
StopSound(t) ==
    t.action = "stop" =>
        /\ t.state \notin {"processing", "completion_requesting", "completed"}
        /\ t.finalizeIntent # "completion"

StopInv ==
    \A s \in Scopes :
        /\ StopSound(turns[s])
        /\ ~Exists(s) => turns[s].action = "none" /\ turns[s].finalizeIntent = "none"

\* What a step may do to the action of a turn.
StopStep(t, u) ==
    /\ u.state # "absent"
    /\ StopSound(u)
    /\ t.action = "stop" => u.action = "stop"
    /\ t.finalizeIntent # "none" => u.action = t.action

LEMMA TurnStepStops ==
    ASSUME TypeOK, NEW s \in Scopes, TurnStep(s), StopSound(turns[s]), IntegrityOf(turns[s])
    PROVE  StopStep(turns[s], turns'[s])
  <1>0. turns[s] \in TurnRecord
    BY DEF TypeOK
  <1>1. ASSUME NEW event, NEW phase, NEW t, DOMAIN t = DOMAIN turns[s],
               Advance(s, event, phase, t)
        PROVE  /\ turns'[s].state = t.state
               /\ turns'[s].action = t.action
               /\ turns'[s].finalizeIntent = t.finalizeIntent
    <2>1. turns'[s] = Revised(s, t)
      BY <1>1 DEF Advance, CommitTurn, TypeOK
    <2> QED
      BY <1>0, <1>1, <2>1 DEF Revised, TurnRecord
  <1>2. CASE ProcessingStarted(s)
    <2> DEFINE t == [turns[s] EXCEPT !.state = "processing", !.phase = "processing",
                                     !.executionState = "sending"]
    <2>1. /\ DOMAIN t = DOMAIN turns[s] /\ t.state = "processing"
          /\ t.action = turns[s].action /\ t.finalizeIntent = turns[s].finalizeIntent
      BY <1>0 DEF TurnRecord
    <2>2. \E event : Advance(s, event, "none", t)
      BY <1>2 DEF ProcessingStarted
    <2> HIDE DEF t
    <2>3. /\ turns'[s].state = t.state /\ turns'[s].action = t.action
          /\ turns'[s].finalizeIntent = t.finalizeIntent
      BY <1>1, <2>1, <2>2
    <2> QED
      BY <1>2, <2>1, <2>3 DEF ProcessingStarted, StopSound, StopStep, IntegrityOf, IsFinalizing
  <1>3. CASE ProcessingCompleted(s)
    <2> DEFINE t == [turns[s] EXCEPT !.state = "completion_requesting", !.phase = "completion",
                                     !.finalizeIntent = "completion"]
    <2>1. /\ DOMAIN t = DOMAIN turns[s] /\ t.state = "completion_requesting"
          /\ t.action = turns[s].action /\ t.finalizeIntent = "completion"
      BY <1>0 DEF TurnRecord
    <2>2. \E event : Advance(s, event, "none", t)
      BY <1>3 DEF ProcessingCompleted
    <2> HIDE DEF t
    <2>3. /\ turns'[s].state = t.state /\ turns'[s].action = t.action
          /\ turns'[s].finalizeIntent = t.finalizeIntent
      BY <1>1, <2>1, <2>2
    <2> QED
      BY <1>3, <2>1, <2>3 DEF ProcessingCompleted, StopSound, StopStep, IntegrityOf, IsFinalizing
  <1>4. CASE StopAccepted(s)
    <2> DEFINE t == [turns[s] EXCEPT !.state = "action_requesting", !.phase = "stop", !.action = "stop"]
    <2>1. /\ DOMAIN t = DOMAIN turns[s] /\ t.state = "action_requesting"
          /\ t.action = "stop" /\ t.finalizeIntent = turns[s].finalizeIntent
      BY <1>0 DEF TurnRecord
    <2>2. \E event : Advance(s, event, "none", t)
      BY <1>4 DEF StopAccepted
    <2> HIDE DEF t
    <2>3. /\ turns'[s].state = t.state /\ turns'[s].action = t.action
          /\ turns'[s].finalizeIntent = t.finalizeIntent
      BY <1>1, <2>1, <2>2
    <2> QED
      BY <1>4, <2>1, <2>3 DEF StopAccepted, CanStop, StopSound, StopStep, IntegrityOf, IsFinalizing
  <1>5. CASE StopProcessingCompleted(s)
    <2> DEFINE t == [turns[s] EXCEPT !.state = "stopping", !.phase = "stop",
                                     !.finalizeIntent = "stop"]
    <2>1. /\ DOMAIN t = DOMAIN turns[s] /\ t.state = "stopping"
          /\ t.action = turns[s].action /\ t.finalizeIntent = "stop"
      BY <1>0 DEF TurnRecord
    <2>2. \E event : Advance(s, event, "none", t)
      BY <1>5 DEF StopProcessingCompleted
    <2> HIDE DEF t
    <2>3. /\ turns'[s].state = t.state /\ turns'[s].action = t.action
          /\ turns'[s].finalizeIntent = t.finalizeIntent
      BY <1>1, <2>1, <2>2
    <2> QED
      BY <1>5, <2>1, <2>3 DEF StopProcessingCompleted, StopSound, StopStep, IntegrityOf, IsFinalizing
  <1>6. CASE Completed(s)
    <2> DEFINE t == [turns[s] EXCEPT !.state = "completed", !.phase = "completion",
                                     !.executionState = "completed", !.commitId = "completion",
                                     !.terminalStatus = "completed", !.failure = "none",
                                     !.finalizeIntent = "none"]
    <2>1. /\ DOMAIN t = DOMAIN turns[s] /\ t.state = "completed"
          /\ t.action = turns[s].action /\ t.finalizeIntent = "none"
      BY <1>0 DEF TurnRecord
    <2>2. \E event : Advance(s, event, "none", t)
      BY <1>6 DEF Completed
    <2> HIDE DEF t
    <2>3. /\ turns'[s].state = t.state /\ turns'[s].action = t.action
          /\ turns'[s].finalizeIntent = t.finalizeIntent
      BY <1>1, <2>1, <2>2
    <2> QED
      BY <1>6, <2>1, <2>3 DEF Completed, StopSound, StopStep, IntegrityOf, IsFinalizing
  <1>7. CASE StopCompleted(s)
    <2> DEFINE t == [turns[s] EXCEPT !.state = "stop_completed", !.phase = "stop",
                                     !.executionState = "user_stopped", !.commitId = "stop",
                                     !.terminalStatus = "user_stopped", !.failure = "none",
                                     !.finalizeIntent = "none"]
    <2>1. /\ DOMAIN t = DOMAIN turns[s] /\ t.state = "stop_completed"
          /\ t.action = turns[s].action /\ t.finalizeIntent = "none"
      BY <1>0 DEF TurnRecord
    <2>2. \E event : Advance(s, event, "none", t)
      BY <1>7 DEF StopCompleted
    <2> HIDE DEF t
    <2>3. /\ turns'[s].state = t.state /\ turns'[s].action = t.action
          /\ turns'[s].finalizeIntent = t.finalizeIntent
      BY <1>1, <2>1, <2>2
    <2> QED
      BY <1>7, <2>1, <2>3 DEF StopCompleted, StopSound, StopStep, IntegrityOf, IsFinalizing
  <1>8. ASSUME NEW phase \in Phases, Failed(s, phase) PROVE StopStep(turns[s], turns'[s])
    <2> DEFINE t == [turns[s] EXCEPT !.state = FailedState(phase), !.phase = phase,
                                     !.executionState = "error", !.terminalStatus = "error",
                                     !.failure = "final", !.finalizeIntent = "none"]
    <2>0. FailedState(phase) \in FailedStates
      BY <1>8 DEF FailedState, FailedStates, Phases
    <2>1. /\ DOMAIN t = DOMAIN turns[s] /\ t.state = FailedState(phase)
          /\ t.action = turns[s].action /\ t.finalizeIntent = "none"
      BY <1>0 DEF TurnRecord
    <2>2. Advance(s, "FAILED", phase, t)
      BY <1>8 DEF Failed
    <2> HIDE DEF t
    <2>3. /\ turns'[s].state = t.state /\ turns'[s].action = t.action
          /\ turns'[s].finalizeIntent = t.finalizeIntent
      BY <1>1, <2>1, <2>2
    <2> QED
      BY <2>0, <2>1, <2>3 DEF FailedStates, StopSound, StopStep
  <1>9. ASSUME NEW phase \in {"completion", "stop"}, FinalizeFailed(s, phase) PROVE StopStep(turns[s], turns'[s])
    <2> DEFINE t == [turns[s] EXCEPT !.state = FailedState(phase), !.phase = phase,
                                     !.executionState = "error", !.failure = "retryable"]
    <2>0. FailedState(phase) \in FailedStates
      BY <1>9 DEF FailedState, FailedStates, Phases
    <2>1. /\ DOMAIN t = DOMAIN turns[s] /\ t.state = FailedState(phase)
          /\ t.action = turns[s].action /\ t.finalizeIntent = turns[s].finalizeIntent
      BY <1>0 DEF TurnRecord
    <2>2. Advance(s, "FAILED", phase, t)
      BY <1>9 DEF FinalizeFailed
    <2> HIDE DEF t
    <2>3. /\ turns'[s].state = t.state /\ turns'[s].action = t.action
          /\ turns'[s].finalizeIntent = t.finalizeIntent
      BY <1>1, <2>1, <2>2
    <2> QED
      BY <2>0, <2>1, <2>3 DEF FailedStates, StopSound, StopStep
  <1> QED
    BY <1>2, <1>3, <1>4, <1>5, <1>6, <1>7, <1>8, <1>9 DEF TurnStep

(***************************************************************************)
(* Once a stop is accepted the turn never goes on to completion, and a     *)
(* turn that finalizes is not stopped any more.                            *)
(***************************************************************************)
THEOREM StopStays == Spec => StopIsFinal
  <1> DEFINE Final ==
        \A s \in Scopes :
          /\ turns[s].action = "stop" /\ Exists(s)' =>
                turns'[s].state \notin {"processing", "completion_requesting", "completed"}
          /\ turns[s].finalizeIntent # "none" /\ Exists(s)' =>
                turns'[s].action = turns[s].action
  <1>1. Init => StopInv
    BY DEF Init, StopInv, StopSound, Absent
  <1>2. TypeOK /\ RecordIntegrity /\ StopInv /\ [Next]_vars => StopInv' /\ Final
    <2> SUFFICES ASSUME TypeOK, RecordIntegrity, StopInv, [Next]_vars, NEW q \in Scopes
                 PROVE  /\ StopSound(turns'[q])
                        /\ ~Exists(q)' => /\ turns'[q].action = "none"
                                          /\ turns'[q].finalizeIntent = "none"
                        /\ turns[q].action = "stop" /\ Exists(q)' =>
                              turns'[q].state \notin {"processing", "completion_requesting",
                                                      "completed"}
                        /\ turns[q].finalizeIntent # "none" /\ Exists(q)' =>
                              turns'[q].action = turns[q].action
      BY DEF StopInv
    <2>0. StopSound(turns[q])
          /\ (~Exists(q) => turns[q].action = "none" /\ turns[q].finalizeIntent = "none")
      BY DEF StopInv
    <2>1. CASE Relinked(q)
      BY <2>0, <2>1, RelinkedKeeps DEF StopSound, Exists
    <2>2. CASE turns'[q] = Absent
      BY <2>2 DEF Absent, StopSound, Exists
    <2>3. CASE \E kind \in {"send", "resend", "continue"}, dialog \in Nat, source \in Source :
                  AcceptedStep(q, kind, dialog, source)
      <3>1. PICK kind \in {"send", "resend", "continue"}, dialog \in Nat, source \in Source :
               AcceptedStep(q, kind, dialog, source)
        BY <2>3
      <3>2. turns'[q].action = kind /\ turns'[q].state = "action_requesting" /\ ~Exists(q)
        BY <3>1 DEF AcceptedStep, CanAccept, AcceptedTurn, Absent
      <3> QED
        BY <2>0, <3>2 DEF StopSound, Exists
    <2>4. CASE TurnStep(q)
      <3>1. Exists(q)
        BY <2>4, TurnStepShape DEF OpenStep
      <3>2. StopStep(turns[q], turns'[q])
        BY <2>0, <2>4, <3>1, TurnStepStops DEF RecordIntegrity
      <3> QED
        BY <3>2 DEF StopStep, StopSound, Exists
    <2>5. Relinked(q) \/ turns'[q] = Absent \/ TurnStep(q)
          \/ \E kind \in {"send", "resend", "continue"}, dialog \in Nat, source \in Source :
                AcceptedStep(q, kind, dialog, source)
      <3>0. ASSUME turns'[q] = turns[q] PROVE Relinked(q)
        BY <3>0 DEF Relinked, TypeOK, TurnRecord
      <3>1. CASE UNCHANGED vars
        BY <3>0, <3>1 DEF vars
      <3>2. ASSUME NEW s \in Scopes, ClientStep(s) PROVE Relinked(q)
        BY <3>0, <3>2 DEF ClientStep, IssueSend, IssueContinue, ReissueAfterConflict
      <3>3. ASSUME NEW s \in Scopes, AcceptStep(s), s # q PROVE Relinked(q)
        BY <3>3, AcceptEffect
      <3>4. ASSUME NEW s \in Scopes, TurnStep(s), s # q PROVE Relinked(q)
        BY <3>0, <3>4, TurnStepShape, OpenStepEffect
      <3>5. ASSUME NEW s \in Scopes, SessionStep(s) PROVE Relinked(q) \/ turns'[q] = Absent
        BY <3>0, <3>5, SessionShape DEF LifecycleKept, ForgetStep
      <3> QED
        BY <3>1, <3>2, <3>3, <3>4, <3>5, AcceptShape DEF Next
    <2> QED
      BY <2>1, <2>2, <2>3, <2>4, <2>5
  <1>3. Final => [\A s \in Scopes :
          /\ turns[s].action = "stop" /\ Exists(s)' =>
                turns'[s].state \notin {"processing", "completion_requesting", "completed"}
          /\ turns[s].finalizeIntent # "none" /\ Exists(s)' =>
                turns'[s].action = turns[s].action]_vars
    OBVIOUS
  <1> QED
    BY <1>1, <1>2, <1>3, TypeCorrect, RecordsAreSound, PTL DEF Spec, StopIsFinal

-----------------------------------------------------------------------------
(***************************************************************************)
(* The continuation relation.  What it needs besides: sources are turns of *)
(* the session, a turn that does not exist has no links, and no record is  *)
(* newer than the session.                                                 *)
(***************************************************************************)
LinksInv ==
    /\ ContinuationRelation
    /\ \A s \in Scopes :
          /\ turns[s].source # NoSource => turns[s].source.scope \in Scopes
          /\ ~Exists(s) => turns[s].source = NoSource /\ turns[s].continuedBy = NoScope
          /\ turns[s].sequence <= sequence

LEMMA SourceOf ==
    ASSUME TypeOK, LinksInv, NEW q \in Scopes, turns[q].source # NoSource
    PROVE  \E src \in Scopes :
              /\ turns[q].source.scope = src
              /\ turns[src].state = "stop_completed"
              /\ turns[src].dialog = turns[q].source.dialog
              /\ turns[src].continuedBy = q
              /\ turns[src].sequence < turns[q].sequence
  BY DEF LinksInv, ContinuationRelation

LEMMA ContinuationOf ==
    ASSUME TypeOK, LinksInv, NEW q \in Scopes, turns[q].continuedBy # NoScope
    PROVE  \E next \in Scopes :
              /\ turns[q].continuedBy = next
              /\ turns[next].source = [scope |-> q, dialog |-> turns[q].dialog]
              /\ turns[next].source # NoSource
              /\ turns[next].source.scope = q
  <1>1. turns[q].continuedBy \in Scopes
    BY DEF TypeOK, TurnRecord
  <1>2. [scope |-> q, dialog |-> turns[q].dialog].scope # NoSource.scope
    BY NoScopeAssumption DEF NoSource
  <1>3. turns[turns[q].continuedBy].source = [scope |-> q, dialog |-> turns[q].dialog]
    BY DEF LinksInv, ContinuationRelation
  <1> QED
    BY <1>1, <1>2, <1>3

\* A turn that is not stopped has no continuation and is not continued.
LEMMA OnlyStoppedContinued ==
    ASSUME TypeOK, LinksInv, NEW s \in Scopes, turns[s].state # "stop_completed"
    PROVE  /\ turns[s].continuedBy = NoScope
           /\ \A q \in Scopes : turns[q].source # NoSource => turns[q].source.scope # s
           /\ ~Exists(s) => \A q \in Scopes : turns[q].continuedBy # s
  <1>1. \A q \in Scopes : turns[q].source # NoSource => turns[q].source.scope # s
    BY SourceOf
  <1>2. turns[s].continuedBy = NoScope
    BY <1>1, ContinuationOf
  <1>3. ASSUME ~Exists(s), NEW q \in Scopes, turns[q].continuedBy = s PROVE FALSE
    <2>1. turns[s].source = NoSource /\ s # NoScope
      BY <1>3, NoScopeAssumption DEF LinksInv
    <2> QED
      BY <1>3, <2>1, ContinuationOf
  <1> QED
    BY <1>1, <1>2, <1>3

\* The invariant of the links, one turn at a time and with its ends named.
LEMMA LinksFrom ==
    ASSUME \A q \in Scopes : turns'[q].source # NoSource =>
              \E src \in Scopes :
                 /\ turns'[q].source.scope = src
                 /\ turns'[src].state = "stop_completed"
                 /\ turns'[src].dialog = turns'[q].source.dialog
                 /\ turns'[src].continuedBy = q
                 /\ turns'[src].sequence < turns'[q].sequence,
           \A q \in Scopes : turns'[q].continuedBy # NoScope =>
              \E next \in Scopes :
                 /\ turns'[q].continuedBy = next
                 /\ turns'[next].source = [scope |-> q, dialog |-> turns'[q].dialog],
           \A q \in Scopes :
              /\ ~Exists(q)' => turns'[q].source = NoSource /\ turns'[q].continuedBy = NoScope
              /\ turns'[q].sequence <= sequence'
    PROVE  LinksInv'
  BY DEF LinksInv, ContinuationRelation

LEMMA LinksAfterEvent ==
    ASSUME TypeOK, LinksInv, NEW s \in Scopes, TurnStep(s)
    PROVE  LinksInv'
  <1>1. PICK event \in Events, phase \in {"none"} \cup Phases, t \in TurnRecord :
           OpenStep(s, event, phase, t)
    BY TurnStepShape
  <1>2. /\ turns[s].state # "stop_completed" /\ Exists(s)
        /\ turns'[s].source = turns[s].source /\ turns'[s].dialog = turns[s].dialog
        /\ turns'[s].continuedBy = turns[s].continuedBy
        /\ turns'[s].sequence = sequence + 1 /\ turns'[s].state # "absent"
        /\ sequence' = sequence + 1
        /\ \A q \in Scopes \ {s} : turns'[q] = turns[q]
    BY <1>1, OpenStepEffect, RevisedKeeps
       DEF OpenStep, IsSettled, IsTerminal, TerminalStates, IsRetryableFinalizeFailure
  <1>3. sequence \in Nat /\ \A q \in Scopes : turns[q].sequence \in Nat /\ turns[q].sequence <= sequence
    BY DEF TypeOK, TurnRecord, LinksInv
  <1>4. /\ turns[s].continuedBy = NoScope
        /\ \A q \in Scopes : turns[q].source # NoSource => turns[q].source.scope # s
    BY <1>2, OnlyStoppedContinued
  <1>5. ASSUME NEW q \in Scopes, turns'[q].source # NoSource
        PROVE  \E src \in Scopes :
                 /\ turns'[q].source.scope = src
                 /\ turns'[src].state = "stop_completed"
                 /\ turns'[src].dialog = turns'[q].source.dialog
                 /\ turns'[src].continuedBy = q
                 /\ turns'[src].sequence < turns'[q].sequence
    <2>1. turns[q].source # NoSource /\ turns'[q].source = turns[q].source
      BY <1>2, <1>5
    <2>2. PICK src \in Scopes :
              /\ turns[q].source.scope = src
              /\ turns[src].state = "stop_completed"
              /\ turns[src].dialog = turns[q].source.dialog
              /\ turns[src].continuedBy = q
              /\ turns[src].sequence < turns[q].sequence
      BY <2>1, SourceOf
    <2>3. turns'[src] = turns[src]
      BY <1>2, <2>2
    <2>4. turns[src].sequence < turns'[q].sequence
      BY <1>2, <1>3, <2>2
    <2> QED
      BY <2>1, <2>2, <2>3, <2>4
  <1>6. ASSUME NEW q \in Scopes, turns'[q].continuedBy # NoScope
        PROVE  \E next \in Scopes :
                 /\ turns'[q].continuedBy = next
                 /\ turns'[next].source = [scope |-> q, dialog |-> turns'[q].dialog]
    <2>1. turns'[q] = turns[q]
      BY <1>2, <1>4, <1>6
    <2>2. PICK next \in Scopes :
             /\ turns[q].continuedBy = next
             /\ turns[next].source = [scope |-> q, dialog |-> turns[q].dialog]
      BY <1>6, <2>1, ContinuationOf
    <2>3. turns'[next].source = turns[next].source
      BY <1>2
    <2> QED
      BY <2>1, <2>2, <2>3
  <1>7. ASSUME NEW q \in Scopes
        PROVE  /\ ~Exists(q)' => turns'[q].source = NoSource /\ turns'[q].continuedBy = NoScope
               /\ turns'[q].sequence <= sequence'
    BY <1>2, <1>3 DEF LinksInv, Exists
  <1> QED
    BY <1>5, <1>6, <1>7, LinksFrom

\* An acceptance changes no other turn, or links the stopped turn it continues.
LEMMA AcceptLinks ==
    ASSUME TypeOK, NEW s \in Scopes, AcceptStep(s)
    PROVE  /\ ~Exists(s) /\ Exists(s)' /\ sequence' = sequence + 1
           /\ turns'[s].continuedBy = NoScope /\ turns'[s].sequence = sequence + 1
           /\ \/ /\ turns'[s].source = NoSource
                 /\ \A q \in Scopes \ {s} : turns'[q] = turns[q]
              \/ \E src \in Scopes \ {s} :
                    /\ turns[src].state = "stop_completed"
                    /\ turns[src].continuedBy \in {NoScope, s}
                    /\ turns'[s].source = [scope |-> src, dialog |-> turns[src].dialog]
                    /\ turns'[src] = [turns[src] EXCEPT !.continuedBy = s]
                    /\ \A q \in Scopes \ {s, src} : turns'[q] = turns[q]
  <1>0. turns \in [Scopes -> TurnRecord]
    BY DEF TypeOK
  <1>1. PICK kind \in {"send", "resend", "continue"}, dialog \in Nat, source \in Source :
           AcceptedStep(s, kind, dialog, source)
    BY AcceptShape
  <1>2. /\ ~Exists(s) /\ Exists(s)' /\ sequence' = sequence + 1
        /\ turns'[s].continuedBy = NoScope /\ turns'[s].sequence = sequence + 1
    BY <1>1 DEF AcceptedStep, CanAccept, AcceptedTurn, Absent, Exists
  <1>3. ASSUME NEW k, NEW d, turns' = [turns EXCEPT ![s] = AcceptedTurn(s, k, d, NoSource)]
        PROVE  turns'[s].source = NoSource /\ \A q \in Scopes \ {s} : turns'[q] = turns[q]
    BY <1>0, <1>3 DEF AcceptedTurn, Absent
  <1>4. CASE AcceptSend(s)
    BY <1>2, <1>3, <1>4 DEF AcceptSend, CommitTurn
  <1>5. CASE AcceptResend(s)
    BY <1>2, <1>3, <1>5 DEF AcceptResend, CommitTurn
  <1>6. CASE AcceptContinue(s)
    <2> DEFINE given == issued[s].source
               src == given.scope
               t == AcceptedTurn(s, "continue", sequence + 1, given)
    <2>1. /\ src \in Scopes /\ turns[src].state = "stop_completed"
          /\ turns[src].continuedBy \in {NoScope, s}
          /\ given.dialog = turns[src].dialog
      BY <1>6 DEF AcceptContinue, CanContinue
    <2>2. given = [scope |-> src, dialog |-> turns[src].dialog]
      <3>1. given \in [scope : Scopes \cup {NoScope}, dialog : Nat]
        BY DEF TypeOK, Command
      <3> QED
        BY <2>1, <3>1
    <2>3. s # src
      BY <1>2, <2>1 DEF Exists
    <2>4. turns' = [LinkSource(src, s) EXCEPT ![s] = t]
      BY <1>6 DEF AcceptContinue, CommitTurn
    <2>5. turns'[s].source = given
      BY <1>0, <2>1, <2>4 DEF LinkSource, AcceptedTurn, Absent
    <2>6. turns'[src] = [turns[src] EXCEPT !.continuedBy = s]
      BY <1>0, <2>1, <2>3, <2>4 DEF LinkSource
    <2>7. \A q \in Scopes \ {s, src} : turns'[q] = turns[q]
      BY <1>0, <2>1, <2>4 DEF LinkSource
    <2> HIDE DEF given, src, t
    <2> QED
      BY <1>2, <2>1, <2>2, <2>3, <2>5, <2>6, <2>7
  <1> QED
    BY <1>4, <1>5, <1>6 DEF AcceptStep

LEMMA LinksAfterAccept ==
    ASSUME TypeOK, LinksInv, NEW s \in Scopes, AcceptStep(s)
    PROVE  LinksInv'
  <1>1. /\ ~Exists(s) /\ Exists(s)' /\ sequence' = sequence + 1
        /\ turns'[s].continuedBy = NoScope /\ turns'[s].sequence = sequence + 1
    BY AcceptLinks
  <1>2. /\ sequence \in Nat
        /\ \A q \in Scopes : turns[q].sequence \in Nat /\ turns[q].sequence <= sequence
    BY DEF TypeOK, TurnRecord, LinksInv
  <1>3. /\ turns[s].continuedBy = NoScope
        /\ \A q \in Scopes : turns[q].source # NoSource => turns[q].source.scope # s
        /\ \A q \in Scopes : turns[q].continuedBy # s
    BY <1>1, OnlyStoppedContinued DEF Exists
  <1>4. CASE /\ turns'[s].source = NoSource
             /\ \A q \in Scopes \ {s} : turns'[q] = turns[q]
    <2>1. ASSUME NEW q \in Scopes, turns'[q].source # NoSource
          PROVE  \E src \in Scopes :
                   /\ turns'[q].source.scope = src
                   /\ turns'[src].state = "stop_completed"
                   /\ turns'[src].dialog = turns'[q].source.dialog
                   /\ turns'[src].continuedBy = q
                   /\ turns'[src].sequence < turns'[q].sequence
      <3>1. q # s /\ turns'[q] = turns[q] /\ turns[q].source # NoSource
        BY <1>4, <2>1
      <3>2. PICK src \in Scopes :
                /\ turns[q].source.scope = src
                /\ turns[src].state = "stop_completed"
                /\ turns[src].dialog = turns[q].source.dialog
                /\ turns[src].continuedBy = q
                /\ turns[src].sequence < turns[q].sequence
        BY <3>1, SourceOf
      <3>3. turns'[src] = turns[src]
        BY <1>3, <1>4, <3>1, <3>2
      <3> QED
        BY <3>1, <3>2, <3>3
    <2>2. ASSUME NEW q \in Scopes, turns'[q].continuedBy # NoScope
          PROVE  \E next \in Scopes :
                   /\ turns'[q].continuedBy = next
                   /\ turns'[next].source = [scope |-> q, dialog |-> turns'[q].dialog]
      <3>1. q # s /\ turns'[q] = turns[q]
        BY <1>1, <1>4, <2>2
      <3>2. PICK next \in Scopes :
               /\ turns[q].continuedBy = next
               /\ turns[next].source = [scope |-> q, dialog |-> turns[q].dialog]
        BY <2>2, <3>1, ContinuationOf
      <3>3. turns'[next] = turns[next]
        BY <1>3, <1>4, <3>2
      <3> QED
        BY <3>1, <3>2, <3>3
    <2>3. ASSUME NEW q \in Scopes
          PROVE  /\ ~Exists(q)' => /\ turns'[q].source = NoSource
                                   /\ turns'[q].continuedBy = NoScope
                 /\ turns'[q].sequence <= sequence'
      BY <1>1, <1>2, <1>4 DEF LinksInv, Exists
    <2> QED
      BY <2>1, <2>2, <2>3, LinksFrom
  <1>5. ASSUME NEW old \in Scopes \ {s},
               turns[old].state = "stop_completed",
               turns[old].continuedBy \in {NoScope, s},
               turns'[s].source = [scope |-> old, dialog |-> turns[old].dialog],
               turns'[old] = [turns[old] EXCEPT !.continuedBy = s],
               \A q \in Scopes \ {s, old} : turns'[q] = turns[q]
        PROVE  LinksInv'
    <2>0. /\ turns[old] \in TurnRecord
          /\ turns'[old].state = turns[old].state /\ turns'[old].dialog = turns[old].dialog
          /\ turns'[old].source = turns[old].source /\ turns'[old].sequence = turns[old].sequence
          /\ turns'[old].continuedBy = s
      BY <1>5 DEF TypeOK, TurnRecord
    <2>1. ASSUME NEW q \in Scopes, turns'[q].source # NoSource
          PROVE  \E src \in Scopes :
                   /\ turns'[q].source.scope = src
                   /\ turns'[src].state = "stop_completed"
                   /\ turns'[src].dialog = turns'[q].source.dialog
                   /\ turns'[src].continuedBy = q
                   /\ turns'[src].sequence < turns'[q].sequence
      <3>1. CASE q = s
        <4>1. /\ turns'[q].source.scope = old /\ turns'[old].dialog = turns'[q].source.dialog
          BY <1>5, <2>0, <3>1
        <4>2. turns'[old].sequence < turns'[q].sequence
          BY <1>1, <1>2, <2>0, <3>1
        <4> QED
          BY <1>5, <2>0, <3>1, <4>1, <4>2
      <3>2. CASE q # s
        <4>1. /\ turns[q].source # NoSource /\ turns'[q].source = turns[q].source
              /\ turns'[q].sequence = turns[q].sequence
          BY <1>5, <2>0, <2>1, <3>2
        <4>2. PICK src \in Scopes :
                  /\ turns[q].source.scope = src
                  /\ turns[src].state = "stop_completed"
                  /\ turns[src].dialog = turns[q].source.dialog
                  /\ turns[src].continuedBy = q
                  /\ turns[src].sequence < turns[q].sequence
          BY <4>1, SourceOf
        <4>3. src # s /\ src # old
          BY <1>3, <1>5, <3>2, <4>1, <4>2, NoScopeAssumption
        <4>4. turns'[src] = turns[src]
          BY <1>5, <4>3
        <4> QED
          BY <4>1, <4>2, <4>4
      <3> QED
        BY <3>1, <3>2
    <2>2. ASSUME NEW q \in Scopes, turns'[q].continuedBy # NoScope
          PROVE  \E next \in Scopes :
                   /\ turns'[q].continuedBy = next
                   /\ turns'[next].source = [scope |-> q, dialog |-> turns'[q].dialog]
      <3>1. CASE q = old
        BY <1>5, <2>0, <3>1
      <3>2. CASE q # old
        <4>1. q # s /\ turns'[q] = turns[q]
          BY <1>1, <1>5, <2>2, <3>2
        <4>2. PICK next \in Scopes :
                 /\ turns[q].continuedBy = next
                 /\ turns[next].source = [scope |-> q, dialog |-> turns[q].dialog]
          BY <2>2, <4>1, ContinuationOf
        <4>3. turns'[next].source = turns[next].source
          BY <1>3, <1>5, <2>0, <4>2
        <4> QED
          BY <4>1, <4>2, <4>3
      <3> QED
        BY <3>1, <3>2
    <2>3. ASSUME NEW q \in Scopes
          PROVE  /\ ~Exists(q)' => /\ turns'[q].source = NoSource
                                   /\ turns'[q].continuedBy = NoScope
                 /\ turns'[q].sequence <= sequence'
      <3>0. Exists(old)' /\ turns[old].sequence <= sequence /\ turns[old].sequence \in Nat
        BY <1>2, <1>5, <2>0 DEF Exists
      <3>1. CASE q \in {s, old}
        BY <1>1, <1>2, <2>0, <3>0, <3>1
      <3>2. CASE q \notin {s, old}
        BY <1>1, <1>2, <1>5, <3>2 DEF LinksInv, Exists
      <3> QED
        BY <3>1, <3>2
    <2> QED
      BY <2>1, <2>2, <2>3, LinksFrom
  <1> QED
    BY <1>4, <1>5, AcceptLinks

\* A session command forgets turns and the links that name them.
LEMMA CutLinks ==
    ASSUME TypeOK, NEW s \in Scopes, DeleteFrom(s) \/ \E r \in Scopes : Replace(s, r)
    PROVE  \E gone \in SUBSET Scopes :
              turns' = ForgetTurns(gone) /\ sequence' = sequence + 1
  <1>1. PICK i \in DOMAIN messages, command \in SessionCommands :
           CommitSessionCommand(command, ScopesFrom(i))
    BY DEF DeleteFrom, Replace, SessionCommands
  <1>2. ScopesFrom(i) \in SUBSET Scopes
    BY CutTypes DEF TypeOK
  <1> QED
    BY <1>1, <1>2 DEF CommitSessionCommand

LEMMA LinksAfterCut ==
    ASSUME TypeOK, LinksInv, NEW gone \in SUBSET Scopes,
           turns' = ForgetTurns(gone), sequence' = sequence + 1
    PROVE  LinksInv'
  <1>1. \A q \in gone : turns'[q] = Absent
    BY DEF ForgetTurns
  <1>2. ASSUME NEW q \in Scopes \ gone
        PROVE  /\ turns'[q].continuedBy = IF turns[q].continuedBy \in gone THEN NoScope
                                          ELSE turns[q].continuedBy
               /\ turns'[q].source = IF turns[q].source.scope \in gone THEN NoSource
                                     ELSE turns[q].source
               /\ turns'[q].state = turns[q].state /\ turns'[q].dialog = turns[q].dialog
               /\ turns'[q].sequence = turns[q].sequence
    <2>1. turns[q] \in TurnRecord
      BY DEF TypeOK
    <2>2. turns'[q] = [turns[q] EXCEPT !.continuedBy = IF @ \in gone THEN NoScope ELSE @,
                           !.source = IF @.scope \in gone THEN NoSource ELSE @]
      BY DEF ForgetTurns
    <2> QED
      BY <2>1, <2>2 DEF TurnRecord
  <1>3. ASSUME NEW q \in Scopes, turns'[q].source # NoSource
        PROVE  \E src \in Scopes :
                 /\ turns'[q].source.scope = src
                 /\ turns'[src].state = "stop_completed"
                 /\ turns'[src].dialog = turns'[q].source.dialog
                 /\ turns'[src].continuedBy = q
                 /\ turns'[src].sequence < turns'[q].sequence
    <2>1. q \in Scopes \ gone
      BY <1>1, <1>3 DEF Absent
    <2>2. turns'[q].source = turns[q].source /\ turns[q].source.scope \notin gone
      BY <1>2, <1>3, <2>1
    <2>3. PICK src \in Scopes :
              /\ turns[q].source.scope = src
              /\ turns[src].state = "stop_completed"
              /\ turns[src].dialog = turns[q].source.dialog
              /\ turns[src].continuedBy = q
              /\ turns[src].sequence < turns[q].sequence
      BY <1>3, <2>2, SourceOf
    <2>4. src \in Scopes \ gone
      BY <2>2, <2>3
    <2>5. /\ turns'[src].continuedBy = q /\ turns'[src].state = turns[src].state
          /\ turns'[src].dialog = turns[src].dialog
          /\ turns'[src].sequence = turns[src].sequence
      BY <1>2, <2>1, <2>3, <2>4
    <2> QED
      BY <1>2, <2>1, <2>2, <2>3, <2>5
  <1>4. ASSUME NEW q \in Scopes, turns'[q].continuedBy # NoScope
        PROVE  \E next \in Scopes :
                 /\ turns'[q].continuedBy = next
                 /\ turns'[next].source = [scope |-> q, dialog |-> turns'[q].dialog]
    <2>1. q \in Scopes \ gone
      BY <1>1, <1>4 DEF Absent
    <2>2. turns'[q].continuedBy = turns[q].continuedBy /\ turns[q].continuedBy \notin gone
      BY <1>2, <1>4, <2>1
    <2>3. PICK next \in Scopes :
             /\ turns[q].continuedBy = next
             /\ turns[next].source = [scope |-> q, dialog |-> turns[q].dialog]
             /\ turns[next].source.scope = q
      BY <1>4, <2>2, ContinuationOf
    <2>4. turns'[next].source = turns[next].source
      BY <1>2, <2>1, <2>2, <2>3
    <2> QED
      BY <1>2, <2>1, <2>2, <2>3, <2>4
  <1>5. ASSUME NEW q \in Scopes
        PROVE  /\ ~Exists(q)' => turns'[q].source = NoSource /\ turns'[q].continuedBy = NoScope
               /\ turns'[q].sequence <= sequence'
    <2>1. sequence \in Nat /\ turns[q].sequence \in Nat /\ turns[q].sequence <= sequence
      BY DEF TypeOK, TurnRecord, LinksInv
    <2>2. CASE q \in gone
      BY <1>1, <2>1, <2>2 DEF Absent
    <2>3. CASE q \notin gone
      BY <1>2, <2>1, <2>3 DEF LinksInv, Exists
    <2> QED
      BY <2>2, <2>3
  <1> QED
    BY <1>3, <1>4, <1>5, LinksFrom

(***************************************************************************)
(* "Continues" and "is continued by" stay inverse relations, whatever is   *)
(* deleted or replaced around them.                                        *)
(***************************************************************************)
THEOREM ContinuationsMatch == Spec => []ContinuationRelation
  <1>1. Init => LinksInv
    <2>1. Init => \A s \in Scopes : /\ turns[s] = Absent
                                    /\ turns[s].sequence <= sequence
      BY DEF Init, Absent
    <2> QED
      BY <2>1 DEF LinksInv, ContinuationRelation, Absent
  <1>2. TypeOK /\ LinksInv /\ [Next]_vars => LinksInv'
    <2> SUFFICES ASSUME TypeOK, LinksInv, [Next]_vars PROVE LinksInv'
      OBVIOUS
    <2>1. CASE UNCHANGED <<turns, sequence>>
      BY <2>1 DEF LinksInv, ContinuationRelation, Exists
    <2>2. ASSUME NEW s \in Scopes,
                 ClientStep(s) \/ \E role \in {"injected", "assistant"} : AppendTurns(s, role)
          PROVE  UNCHANGED <<turns, sequence>>
      BY <2>2 DEF ClientStep, IssueSend, IssueContinue, ReissueAfterConflict, AppendTurns
    <2>3. ASSUME NEW s \in Scopes, DeleteFrom(s) \/ \E r \in Scopes : Replace(s, r)
          PROVE  LinksInv'
      BY <2>3, CutLinks, LinksAfterCut
    <2> QED
      BY <2>1, <2>2, <2>3, LinksAfterAccept, LinksAfterEvent DEF Next, SessionStep, vars
  <1>3. LinksInv => ContinuationRelation
    BY DEF LinksInv
  <1> QED
    BY <1>1, <1>2, <1>3, TypeCorrect, PTL DEF Spec
==============================================================================
