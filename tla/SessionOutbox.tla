----------------------------- MODULE SessionOutbox -----------------------------
(***************************************************************************)
(* The authority event outbox of one session: which events were committed, *)
(* which of them are still to be delivered, and to whom.                   *)
(*                                                                         *)
(* A turn command saves the session manifest, whose receipts carry the     *)
(* lifecycle events, and then copies them ("materializes" them) into       *)
(* outbox.jsonl; every reader of the outbox, and every save before it      *)
(* replaces the manifest, copies what is missing too.  The other events of *)
(* a run are appended to outbox.jsonl directly.  The dispatchers of the    *)
(* connections read the outbox, record their attempts, send and            *)
(* acknowledge; one of them compacts it.  Two locks order all this: the    *)
(* commands of a session hold its lifecycle lock from their begin to their *)
(* end, and everything that touches outbox.jsonl holds the outbox lock,    *)
(* which the write of the manifest does not take.                          *)
(*                                                                         *)
(* An event is the number of its commit.  outbox.jsonl is kept as what the *)
(* fold of its lines yields (projectAuthorityOutboxJournal): the events in *)
(* the journal, the REMOVE tombstones, the attempts and acknowledgements,  *)
(* and how the file ends.                                                  *)
(***************************************************************************)
EXTENDS Integers, Sequences, FiniteSets

CONSTANTS
    Turns,          \* turn scopes
    NoTurn,         \* no turn
    Consumers,      \* service.websocket, service.cli
    Dispatchers,    \* one dispatcher per connection
    ConsumerOf,     \* the consumer a dispatcher delivers for
    ReceiptLimit,   \* receipts the manifest keeps (200 in the code)
    BatchSize,      \* events of one delivery batch (100 in the code)
    MaxEvents,      \* bound of the model: events committed
    MaxFaults       \* bound of the model: crashes and failed operations

SessionScope == "session"       \* the ordering scope of the lifecycle events

ASSUME TurnsAssumption == NoTurn \notin Turns /\ SessionScope \notin Turns
ASSUME ConsumerAssumption == ConsumerOf \in [Dispatchers -> Consumers]
ASSUME LimitsAssumption == ReceiptLimit \in Nat \ {0} /\ BatchSize \in Nat \ {0}
ASSUME BoundsAssumption == MaxEvents \in Nat /\ MaxFaults \in Nat

VARIABLES
    committed,      \* all events ever committed (history): event e is committed[e]
    manifest,       \* session.json: sequence, commandReceipts and turns
    command,        \* the command that holds the lifecycle lock
    journal,        \* the events of outbox.jsonl, in the order of their COMMIT lines
    tombstones,     \* the events its REMOVE lines name
    tail,           \* how outbox.jsonl ends
    floors,         \* outbox-checkpoint.json: the sequence floor of every scope
    compacting,     \* the events a compaction, which holds the outbox lock, reclaims
    attempted,      \* the events each consumer has an ATTEMPT line for
    delivered,      \* the events each consumer has an ACK line for
    aged,           \* those acknowledged longer ago than the retention time
    dispatch,       \* what each dispatcher is doing
    sent,           \* the events sent to each consumer (history)
    gone,           \* the events that have left the journal (history)
    up,             \* the service runs
    faults          \* crashes and failed operations so far

disk == <<manifest, floors>>
deliveries == <<attempted, delivered, aged>>
service == <<up, faults>>
vars == <<committed, manifest, command, journal, tombstones, tail, floors, compacting,
          attempted, delivered, aged, dispatch, sent, gone, up, faults>>

Scopes == Turns \cup {SessionScope}

Event == [turn : Turns, scope : Scopes, sequence : Nat \ {0}]

Events == DOMAIN committed

SessionReceipt == 0         \* the receipt of a session command carries no event

Elements(s) == {s[i] : i \in DOMAIN s}

First(s, n) == SubSeq(s, 1, IF n < Len(s) THEN n ELSE Len(s))

\* The numbers of a set in ascending order.
Ascending(I) ==
    [k \in 1..Cardinality(I) |-> CHOOSE i \in I : Cardinality({j \in I : j < i}) = k - 1]

\* The elements of a sequence that are in S, in their order.
Filter(s, S) ==
    LET at == Ascending({i \in DOMAIN s : s[i] \in S})
    IN  [k \in DOMAIN at |-> s[at[k]]]

Largest(S) == IF S = {} THEN 0 ELSE CHOOSE x \in S : \A y \in S : y <= x

SequencesOf(scope, es) == {committed[e].sequence : e \in {x \in es : committed[x].scope = scope}}

(***************************************************************************)
(* projectCommittedTurnOutbox: the events of the manifest's receipts that  *)
(* are not in the journal, were not removed and lie above the floor that   *)
(* compaction left.  They are added behind the journal, which is rewritten *)
(* as a whole then.                                                        *)
(***************************************************************************)
Missing ==
    {e \in Events \ (Elements(journal) \cup tombstones) :
        committed[e].sequence > floors[SessionScope]}

Additions == Filter(manifest.receipts, Missing)

\* mutant: the missing events are put first.
PrependedAdditions == Additions \o journal

Projected == journal \o Additions

ProjectedTail == IF Additions = <<>> THEN tail ELSE "clean"

\* Who reads or writes the outbox takes its lock, and the lines have to parse.
CanRead == up /\ compacting = {} /\ tail # "torn"

Materialize ==
    /\ journal' = Projected
    /\ tail' = ProjectedTail

(***************************************************************************)
(* appendAuthorityOutboxRecords, after a read: n lines are appended to the *)
(* file, or the service dies when only some bytes are there: a number of   *)
(* whole lines and then nothing, part of a line, or a line without its     *)
(* newline.  Such an open line still parses, but the next append is glued  *)
(* to it.                                                                  *)
(***************************************************************************)
Appends(n, kept) ==
    \/ /\ kept = n
       /\ tail' = IF ProjectedTail = "open" THEN "torn" ELSE "clean"
       /\ UNCHANGED service
    \/ /\ faults < MaxFaults
       /\ faults' = faults + 1
       /\ up' = FALSE
       /\ \/ kept < n /\ tail' = "torn"
          \/ kept < n /\ ProjectedTail = "clean" /\ tail' = "clean"
          \/ kept > 0 /\ ProjectedTail = "clean" /\ tail' = "open"

-----------------------------------------------------------------------------
(***************************************************************************)
(* Commands.  A lifecycle event of a turn, or the removal of turns by a    *)
(* deletion or a replacement.                                              *)
(***************************************************************************)
IdleCommand == [phase |-> "idle", turn |-> NoTurn, removes |-> {}]

Room == Len(committed) < MaxEvents

\* Reads the outbox for the event ids it may not reuse.
BeginTurnEvent(t) ==
    /\ command.phase = "idle"
    /\ CanRead
    /\ Room
    /\ manifest.turns[t] # "removed"
    /\ Materialize
    /\ command' = [phase |-> "begun", turn |-> t, removes |-> {}]
    /\ UNCHANGED <<committed, disk, tombstones, compacting, deliveries, dispatch, sent,
                   gone, service>>

FirstEvent(t) == CHOOSE e \in Events : /\ committed[e].turn = t
                                       /\ \A f \in Events : committed[f].turn = t => e <= f

\* The messages are cut at the first message of turn t.
RemovedWith(t) == {u \in Turns : manifest.turns[u] = "live" /\ FirstEvent(u) >= FirstEvent(t)}

\* A repeated removal is answered from its receipt and changes nothing.
BeginRemoval(t) ==
    /\ command.phase = "idle"
    /\ up
    /\ manifest.turns[t] = "live"
    /\ command' = [phase |-> "begun", turn |-> NoTurn, removes |-> RemovedWith(t)]
    /\ UNCHANGED <<committed, disk, journal, tombstones, tail, compacting, deliveries,
                   dispatch, sent, gone, service>>

\* mutant: the save trusts that the events of the last command were published.
SaveWithoutMaterializing ==
    /\ command.phase = "begun"
    /\ CanRead
    /\ command' = [command EXCEPT !.phase = "materialized"]
    /\ UNCHANGED <<committed, disk, journal, tombstones, tail, compacting, deliveries, dispatch,
                   sent, gone, service>>

\* The save first persists the events of the manifest that it will replace.
MaterializePrevious ==
    /\ command.phase = "begun"
    /\ CanRead
    /\ Materialize
    /\ command' = [command EXCEPT !.phase = "materialized"]
    /\ UNCHANGED <<committed, disk, tombstones, compacting, deliveries, dispatch, sent,
                   gone, service>>

WithReceipt(receipts, e) ==
    LET all == Append(receipts, e)
    IN  SubSeq(all, IF Len(all) > ReceiptLimit THEN Len(all) - ReceiptLimit + 1 ELSE 1, Len(all))

SavedTurnEvent ==
    [sequence |-> manifest.sequence + 1,
     receipts |-> WithReceipt(manifest.receipts, Len(committed) + 1),
     turns |-> [manifest.turns EXCEPT ![command.turn] = "live"]]

\* mutant: a removal leaves the receipts alone.
EveryReceipt == {SessionReceipt} \cup Events

KeptReceipts == {SessionReceipt} \cup {e \in Events : committed[e].turn \notin command.removes}

SavedRemoval ==
    [sequence |-> manifest.sequence + 1,
     receipts |-> WithReceipt(Filter(manifest.receipts, KeptReceipts), SessionReceipt),
     turns |-> [t \in Turns |-> IF t \in command.removes THEN "removed" ELSE manifest.turns[t]]]

\* The commit point of a command.  It does not take the outbox lock.
WriteManifest ==
    /\ command.phase = "materialized"
    /\ up
    /\ \/ /\ command.removes = {}
          /\ committed' = Append(committed, [turn |-> command.turn, scope |-> SessionScope,
                                             sequence |-> manifest.sequence + 1])
          /\ manifest' = SavedTurnEvent
       \/ /\ command.removes # {}
          /\ manifest' = SavedRemoval
          /\ UNCHANGED committed
    /\ command' = [command EXCEPT !.phase = "saved"]
    /\ UNCHANGED <<journal, tombstones, tail, floors, compacting, deliveries, dispatch, sent,
                   gone, service>>

PublishTurnEvent ==
    /\ command.phase = "saved" /\ command.removes = {}
    /\ CanRead
    /\ Materialize
    /\ command' = IdleCommand
    /\ UNCHANGED <<committed, disk, tombstones, compacting, deliveries, dispatch, sent,
                   gone, service>>

\* removeAuthorityOutboxTurnScopes: a REMOVE line for every event of the turns.
RemoveScopes(kept) ==
    LET doomed == Filter(Projected, {e \in Events : committed[e].turn \in command.removes})
        removed == Elements(First(doomed, kept))
    IN  /\ command.phase = "saved" /\ command.removes # {}
        /\ CanRead
        /\ kept \in 0..Len(doomed)
        /\ IF doomed = <<>> THEN tail' = ProjectedTail /\ UNCHANGED service
                            ELSE Appends(Len(doomed), kept)
        /\ journal' = Filter(Projected, Events \ removed)
        /\ tombstones' = tombstones \cup removed
        /\ gone' = gone \cup removed
        /\ command' = IdleCommand
        /\ UNCHANGED <<committed, disk, compacting, deliveries, dispatch, sent>>

\* commitAuthorityEvent: an event of a run, whose turn may be removed meanwhile.
\* mutant: the numbers continue from the events that are still there.
SequenceOfJournal(scope) == 1 + Largest(SequencesOf(scope, Elements(Projected)))

NextSequence(scope) ==
    1 + Largest({floors[scope]} \cup SequencesOf(scope, Elements(Projected)))

CommitMessage(t, kept) ==
    /\ command.phase = "idle"
    /\ CanRead
    /\ Room
    /\ manifest.turns[t] # "new"
    /\ Appends(1, kept)
    /\ IF kept = 1
       THEN /\ committed' = Append(committed, [turn |-> t, scope |-> t,
                                               sequence |-> NextSequence(t)])
            /\ journal' = Append(Projected, Len(committed) + 1)
       ELSE journal' = Projected /\ UNCHANGED committed
    /\ UNCHANGED <<disk, command, tombstones, compacting, deliveries, dispatch, sent, gone>>

-----------------------------------------------------------------------------
(***************************************************************************)
(* Dispatchers: read what is pending for the consumer, record the attempt  *)
(* of the batch, send it event by event, acknowledge what was sent.        *)
(***************************************************************************)
IdleDispatch == [phase |-> "idle", batch |-> <<>>, sends |-> 0]

\* mutant: an event that was tried before is left to the connection that tried it.
PendingUntried(c) ==
    First(Filter(Projected, Events \ (attempted[c] \cup delivered[c])), BatchSize)

Pending(c) == First(Filter(Projected, Events \ delivered[c]), BatchSize)

ReadPending(d) ==
    LET batch == Pending(ConsumerOf[d])
    IN  /\ dispatch[d].phase = "idle"
        /\ CanRead
        /\ Materialize
        /\ dispatch' = [dispatch EXCEPT ![d] =
              IF batch = <<>> THEN IdleDispatch
                              ELSE [phase |-> "read", batch |-> batch, sends |-> 0]]
        /\ UNCHANGED <<committed, disk, command, tombstones, compacting, deliveries, sent,
                       gone, service>>

Found(es) == es \subseteq Elements(Projected)

\* An event of the batch that has left the outbox since ends the drain.
RecordAttempts(d, kept) ==
    LET batch == dispatch[d].batch
        c == ConsumerOf[d]
    IN  /\ dispatch[d].phase = "read"
        /\ CanRead
        /\ journal' = Projected
        /\ kept \in 0..Len(batch)
        /\ IF Found(Elements(batch))
           THEN /\ Appends(Len(batch), kept)
                /\ attempted' = [attempted EXCEPT ![c] =
                      @ \cup (Elements(First(batch, kept)) \ delivered[c])]
                /\ dispatch' = [dispatch EXCEPT ![d].phase = "sending"]
           ELSE /\ tail' = ProjectedTail
                /\ dispatch' = [dispatch EXCEPT ![d] = IdleDispatch]
                /\ UNCHANGED <<attempted, service>>
        /\ UNCHANGED <<committed, disk, command, tombstones, compacting, delivered, aged, sent,
                       gone>>

SendEvent(d) ==
    /\ dispatch[d].phase = "sending"
    /\ up
    /\ dispatch[d].sends < Len(dispatch[d].batch)
    /\ dispatch' = [dispatch EXCEPT ![d].sends = @ + 1]
    /\ sent' = [sent EXCEPT ![ConsumerOf[d]] =
          @ \cup {dispatch[d].batch[dispatch[d].sends + 1]}]
    /\ UNCHANGED <<committed, disk, command, journal, tombstones, tail, compacting, deliveries,
                   gone, service>>

\* The first send fails: there is nothing to acknowledge.
FailSend(d) ==
    /\ dispatch[d].phase = "sending"
    /\ up
    /\ dispatch[d].sends = 0
    /\ dispatch' = [dispatch EXCEPT ![d] = IdleDispatch]
    /\ UNCHANGED <<committed, disk, command, journal, tombstones, tail, compacting, deliveries,
                   sent, gone, service>>

Sent(d) == First(dispatch[d].batch, dispatch[d].sends)

\* After the last send, or when a later send fails.  An event that has left the
\* outbox since makes the whole acknowledgement fail.
Acknowledge(d, kept) ==
    LET c == ConsumerOf[d]
        acks == Sent(d)
        new == Filter(acks, Events \ delivered[c])
    IN  /\ dispatch[d].phase = "sending"
        /\ dispatch[d].sends > 0
        /\ CanRead
        /\ journal' = Projected
        /\ kept \in 0..Len(new)
        /\ IF Found(Elements(acks)) /\ new # <<>>
           THEN /\ Appends(Len(new), kept)
                /\ delivered' = [delivered EXCEPT ![c] = @ \cup Elements(First(new, kept))]
           ELSE tail' = ProjectedTail /\ UNCHANGED <<delivered, service>>
        /\ dispatch' = [dispatch EXCEPT ![d] = IdleDispatch]
        /\ UNCHANGED <<committed, disk, command, tombstones, compacting, attempted, aged, sent,
                       gone>>

(***************************************************************************)
(* Compaction, by a dispatcher whose drain has ended: first the floors of  *)
(* all events of the outbox, then the journal without the reclaimed        *)
(* events and without tombstones.                                          *)
(***************************************************************************)
\* mutant: one consumer's acknowledgement is enough.
ReclaimableByAny(e) == \E c \in Consumers : e \in aged[c]

Reclaimable(e) ==
    LET entries == {c \in Consumers : e \in attempted[c] \cup delivered[c]}
    IN  entries # {} /\ \A c \in entries : e \in aged[c]

AdvancedFloors ==
    [s \in Scopes |-> Largest({floors[s]} \cup SequencesOf(s, Elements(Projected)))]

WriteCheckpoint ==
    /\ CanRead
    /\ \E d \in Dispatchers : dispatch[d].phase = "idle"
    /\ \E e \in Elements(Projected) : Reclaimable(e)
    /\ Materialize
    /\ floors' = AdvancedFloors
    /\ compacting' = {e \in Elements(Projected) : Reclaimable(e)}
    /\ UNCHANGED <<committed, manifest, command, tombstones, deliveries, dispatch, sent, gone,
                   service>>

CompactJournal ==
    /\ up
    /\ compacting # {}
    /\ journal' = Filter(journal, Events \ compacting)
    /\ tombstones' = {}
    /\ tail' = "clean"
    /\ compacting' = {}
    /\ gone' = gone \cup compacting
    /\ UNCHANGED <<committed, disk, command, deliveries, dispatch, sent, service>>

\* The retention time passes for all that is acknowledged.
TimePasses ==
    /\ aged # delivered
    /\ aged' = delivered
    /\ UNCHANGED <<committed, disk, command, journal, tombstones, tail, compacting, attempted,
                   delivered, dispatch, sent, gone, service>>

(***************************************************************************)
(* Faults: an operation of a command or a compaction throws, the service   *)
(* dies; what is on disk stays, what is in memory and the locks are gone.  *)
(***************************************************************************)
Fault == up /\ faults < MaxFaults /\ faults' = faults + 1

CommandFails ==
    /\ Fault
    /\ command.phase # "idle"
    /\ command' = IdleCommand
    /\ UNCHANGED <<committed, disk, journal, tombstones, tail, compacting, deliveries,
                   dispatch, sent, gone, up>>

CompactionFails ==
    /\ Fault
    /\ compacting # {}
    /\ compacting' = {}
    /\ UNCHANGED <<committed, disk, command, journal, tombstones, tail, deliveries,
                   dispatch, sent, gone, up>>

Crash ==
    /\ Fault
    /\ up' = FALSE
    /\ UNCHANGED <<committed, disk, command, journal, tombstones, tail, compacting, deliveries,
                   dispatch, sent, gone>>

Restart ==
    /\ ~up
    /\ up' = TRUE
    /\ command' = IdleCommand
    /\ compacting' = {}
    /\ dispatch' = [d \in Dispatchers |-> IdleDispatch]
    /\ UNCHANGED <<committed, disk, journal, tombstones, tail, deliveries, sent, gone, faults>>

-----------------------------------------------------------------------------
Init ==
    /\ committed = <<>>
    /\ manifest = [sequence |-> 0, receipts |-> <<>>, turns |-> [t \in Turns |-> "new"]]
    /\ command = IdleCommand
    /\ journal = <<>>
    /\ tombstones = {}
    /\ tail = "clean"
    /\ floors = [s \in Scopes |-> 0]
    /\ compacting = {}
    /\ attempted = [c \in Consumers |-> {}]
    /\ delivered = [c \in Consumers |-> {}]
    /\ aged = [c \in Consumers |-> {}]
    /\ dispatch = [d \in Dispatchers |-> IdleDispatch]
    /\ sent = [c \in Consumers |-> {}]
    /\ gone = {}
    /\ up = TRUE
    /\ faults = 0

CommandStep ==
    \/ \E t \in Turns : BeginTurnEvent(t) \/ BeginRemoval(t)
    \/ MaterializePrevious
    \/ WriteManifest
    \/ PublishTurnEvent
    \/ \E kept \in 0..MaxEvents : RemoveScopes(kept)
    \/ \E t \in Turns, kept \in 0..1 : CommitMessage(t, kept)

DispatchStep(d) ==
    \/ ReadPending(d)
    \/ SendEvent(d)
    \/ FailSend(d)
    \/ \E kept \in 0..MaxEvents : RecordAttempts(d, kept) \/ Acknowledge(d, kept)

Next ==
    \/ CommandStep
    \/ \E d \in Dispatchers : DispatchStep(d)
    \/ WriteCheckpoint
    \/ CompactJournal
    \/ TimePasses
    \/ CommandFails
    \/ CompactionFails
    \/ Crash
    \/ Restart

Spec == Init /\ [][Next]_vars

-----------------------------------------------------------------------------
Batch == [phase : {"idle", "read", "sending"}, batch : Seq(Events), sends : Nat]

TypeOK ==
    /\ committed \in Seq(Event)
    /\ manifest \in [sequence : Nat, receipts : Seq(Events \cup {SessionReceipt}),
                     turns : [Turns -> {"new", "live", "removed"}]]
    /\ command \in [phase : {"idle", "begun", "materialized", "saved"},
                    turn : Turns \cup {NoTurn}, removes : SUBSET Turns]
    /\ journal \in Seq(Events)
    /\ tombstones \subseteq Events /\ compacting \subseteq Events /\ gone \subseteq Events
    /\ tail \in {"clean", "open", "torn"}
    /\ floors \in [Scopes -> Nat]
    /\ \A f \in {attempted, delivered, aged, sent} : f \in [Consumers -> SUBSET Events]
    /\ dispatch \in [Dispatchers -> Batch]
    /\ up \in BOOLEAN
    /\ faults \in 0..MaxFaults

Removed(e) == manifest.turns[committed[e].turn] = "removed"

(***************************************************************************)
(* The variables have their types, and the journal holds the events in the *)
(* order of their commits and none twice, although lifecycle events get    *)
(* there only after the manifest that commits them, by whoever reads the   *)
(* outbox first.                                                           *)
(***************************************************************************)
JournalOK ==
    /\ TypeOK
    /\ \A i, j \in DOMAIN journal : i < j => journal[i] < journal[j]

(***************************************************************************)
(* No committed event is lost: it is in the outbox, or its receipt brings  *)
(* it there with the next read, or it has left the outbox, reclaimed by a  *)
(* compaction or removed with its turn.  In particular the receipts that a *)
(* manifest drops (it keeps the last ReceiptLimit) are in the outbox       *)
(* before, and no floor hides a receipt that was never materialized.  And  *)
(* what has left the outbox never comes back, neither removed events when  *)
(* compaction drops their tombstones nor reclaimed ones whose receipts are *)
(* still in the manifest.                                                  *)
(***************************************************************************)
NothingIsLostOrReturns ==
    /\ Events = gone \cup Elements(Projected)
    /\ gone \cap Elements(Projected) = {}

(***************************************************************************)
(* A consumer gets the events of an ordering scope in the order of their   *)
(* commits: whatever is sent, the earlier events of its scope were sent to *)
(* this consumer too, or have left the outbox, also when the batch was     *)
(* read long before or another connection delivers for the same consumer.  *)
(***************************************************************************)
SentInOrder ==
    \A c \in Consumers : \A e \in sent[c], f \in Events :
        f < e /\ committed[f].scope = committed[e].scope => f \in sent[c] \cup gone

(***************************************************************************)
(* The sequence numbers of an ordering scope increase with the commits,    *)
(* also after the events that had the last ones were reclaimed.  Only the  *)
(* message scope of a removed turn whose run goes on counts again from its *)
(* floor.                                                                  *)
(***************************************************************************)
SequencesIncrease ==
    \A e, f \in Events :
        f < e /\ committed[f].scope = committed[e].scope =>
            \/ committed[f].sequence < committed[e].sequence
            \/ committed[e].scope # SessionScope /\ Removed(e)

(***************************************************************************)
(* A consumer loses no event that it is known to wait for: an event with   *)
(* an attempt of the consumer leaves the outbox only sent to it and        *)
(* acknowledged by it, or with its turn.                                   *)
(***************************************************************************)
AttemptsAreKept ==
    \A c \in Consumers : \A e \in attempted[c] \cap gone :
        Removed(e) \/ e \in delivered[c] \cap sent[c]

(***************************************************************************)
(* No lifecycle event of a removed turn is offered to a consumer: once the *)
(* command that removed the turn has ended, its events are out of the      *)
(* outbox.                                                                 *)
(***************************************************************************)
RemovedTurnsAreSilent ==
    up /\ command.phase = "idle" =>
        \A e \in Elements(Projected) :
            committed[e].scope = SessionScope => ~Removed(e)
=============================================================================
