--------------------------- MODULE SessionArtifact ---------------------------
(***************************************************************************)
(* How a session is kept on disk: a manifest (session.json) that lists the *)
(* turns, one append-only journal file per turn, and the snapshot files    *)
(* that summary checkpoints compact a journal into.                        *)
(*                                                                         *)
(* A save (writeSessionArtifact for the whole session,                     *)
(* writeSessionTurnArtifacts for a view of some turns) holds the session's *)
(* mutation lock from the load to its end, so saves do not interleave; but *)
(* it writes one file after the other and may be cut short at every step,  *)
(* by a crash of the process or by an I/O error.  A file that is replaced  *)
(* is written under a temporary name and renamed, so a save that is cut    *)
(* short in between leaves the file as it was, and the temporary one too.  *)
(* No save looks at temporary files.  (The maintenance function            *)
(* cleanupSessionArtifacts, which no handler calls, is not modelled.)      *)
(*                                                                         *)
(* The content of a turn is the number of the save that last changed it.   *)
(* A journal is a sequence of batches, each the records one save wrote: it *)
(* takes the messages from one content to the next.                        *)
(***************************************************************************)
EXTENDS Integers, Sequences, FiniteSets

CONSTANTS
    Turns,          \* turn scopes that may have messages
    NoTurn,         \* no turn
    Operations,     \* what the saves explored do besides appending messages
    MaxSaves        \* bound of the model: saves begun

ASSUME NoTurnAssumption == NoTurn \notin Turns
ASSUME OperationsAssumption == Operations \subseteq {"settle", "checkpoint", "remove"}
ASSUME MaxSavesAssumption == MaxSaves \in Nat

VARIABLES
    manifest,   \* session.json: the listed turns and turnArtifactSequence
    journals,   \* the journal file of every turn id (<<>>: missing or empty)
    snapshots,  \* the snapshot files
    temps,      \* the saves that left a temporary file behind
    save,       \* the save that holds the session lock
    saves       \* saves begun so far

vars == <<manifest, journals, snapshots, temps, save, saves>>

Ids == 1..MaxSaves          \* a save lists at most one new turn

Partial == -1               \* a line cut in the middle
Unreadable == -2            \* the load throws
Mixed == -3                 \* messages of no single save

Contents == 0..MaxSaves

(***************************************************************************)
(* Data.  An item of the manifest's turnOrder: its journal's id, the       *)
(* content its messageHashes stand for, the committed length of the        *)
(* journal, the contents its snapshots hold.  Whether the turn is terminal *)
(* is part of the turn lifecycle, which the manifest holds too.            *)
(***************************************************************************)
Item == [id : 0..MaxSaves, content : Contents, committed : Nat,
         checkpoints : Seq(Contents), compacted : BOOLEAN, terminal : BOOLEAN]

NoItem == [id |-> 0, content |-> 0, committed |-> 0, checkpoints |-> <<>>,
           compacted |-> FALSE, terminal |-> FALSE]

Batch == [from : Contents \cup {Partial}, to : Contents \cup {Partial}]

SnapshotFile == [id : Ids, revision : Nat \ {0}, from : Contents, to : Contents]

Listed == {t \in Turns : manifest.items[t].id # 0}

Last(s) == IF s = <<>> THEN 0 ELSE s[Len(s)]

SnapshotOf(item, revision) ==
    [id |-> item.id, revision |-> revision,
     from |-> IF revision = 1 THEN 0 ELSE item.checkpoints[revision - 1],
     to |-> item.checkpoints[revision]]

\* Every snapshot the item names is there with the content hash it names.
ChainVerified(item) ==
    \A revision \in DOMAIN item.checkpoints : SnapshotOf(item, revision) \in snapshots

(***************************************************************************)
(* materialize: the snapshots of an item, then the committed part of its   *)
(* journal, folded over each other.                                        *)
(***************************************************************************)
Materialize(item) ==
    LET base == Last(item.checkpoints)
        journal == journals[item.id]
        n == item.committed
    IN  IF ~ChainVerified(item) \/ Len(journal) < n THEN Unreadable
        ELSE IF n = 0 THEN base
        ELSE IF journal[n].to = Partial THEN Unreadable
        ELSE IF \A i \in 1..n : journal[i].from = (IF i = 1 THEN base ELSE journal[i - 1].to)
             THEN journal[n].to
        ELSE Mixed

Materialized == [t \in Turns |-> IF t \in Listed THEN Materialize(manifest.items[t]) ELSE 0]

Reads(t) == Materialized[t] = manifest.items[t].content

\* A terminal turn whose journal was neither compacted nor snapshotted: the
\* next save has to rewrite it.
RequiresRewrite(item) == item.terminal /\ ~item.compacted /\ item.checkpoints = <<>>

(***************************************************************************)
(* A save begins: it loads the turns of its view, decides the new contents *)
(* and assigns turn ids.  The turns outside the view are retained as they  *)
(* are; one of them that has to be rewritten makes the save throw.         *)
(***************************************************************************)
Idle == [stage |-> "idle", items |-> [t \in Turns |-> NoItem], lastId |-> 0,
         pending |-> {}, checkpoint |-> NoTurn]

IdByPosition(new) == Cardinality(Listed) + 1    \* mutant: position in the layout

NextId(new) == manifest.lastId + 1

Plan(gone, new, changed, settled) ==
    [t \in Turns |->
        IF t \in gone THEN NoItem
        ELSE IF t \in new THEN [NoItem EXCEPT !.id = NextId(new), !.content = saves + 1]
        ELSE [manifest.items[t] EXCEPT !.content = IF t \in changed THEN saves + 1 ELSE @,
                                       !.terminal = @ \/ t \in settled]]

BeginSave(view, gone, new, changed, settled, checkpoint) ==
    /\ save.stage = "idle"
    /\ saves < MaxSaves
    /\ \A t \in Listed : ChainVerified(manifest.items[t])
    /\ \A t \in view : Reads(t)
    /\ \A t \in Listed \ view : ~RequiresRewrite(manifest.items[t])
    /\ saves' = saves + 1
    /\ save' = [stage |-> "turns", items |-> Plan(gone, new, changed, settled),
                lastId |-> IF new = {} THEN manifest.lastId ELSE NextId(new),
                pending |-> (view \ gone) \cup new, checkpoint |-> checkpoint]
    /\ UNCHANGED <<manifest, journals, snapshots, temps>>

\* A lifecycle event that changes no message: the whole session is saved.
SaveLifecycle == BeginSave(Listed, {}, {}, {}, {}, NoTurn)

\* New messages of turn t: appendTurns saves a view that holds the turn and
\* every turn that has to be rewritten.
SaveAppended(t) ==
    \E view \in SUBSET Listed :
        /\ t \in Listed => t \in view
        /\ BeginSave(view, {}, {t} \ Listed, {t}, {}, NoTurn)

\* A terminal event of turn t, which may also change its messages.
SaveSettled(t) ==
    /\ "settle" \in Operations
    /\ t \in Listed
    /\ ~manifest.items[t].terminal
    /\ \E changed \in SUBSET {t} : BeginSave(Listed, {}, {}, changed, {t}, NoTurn)

\* A summary checkpoint marks messages of turn t.
SaveCheckpoint(t) ==
    /\ "checkpoint" \in Operations
    /\ t \in Listed
    /\ BeginSave(Listed, {}, {}, {t}, {}, t)

\* A deletion cuts turns; a replacement adds the turn of the new message.
SaveRemoved(gone) ==
    /\ "remove" \in Operations
    /\ gone # {}
    /\ gone \subseteq Listed
    /\ \/ BeginSave(Listed, gone, {}, {}, {}, NoTurn)
       \/ \E t \in Turns \ Listed : BeginSave(Listed, gone, {t}, {}, {}, NoTurn)

(***************************************************************************)
(* The save writes the turns of its view one by one.                       *)
(***************************************************************************)
Writing(t) == save.stage = "turns" /\ t \in save.pending

TurnWritten(t, journal, committed, compacted) ==
    /\ journals' = [journals EXCEPT ![save.items[t].id] = journal]
    /\ save' = [save EXCEPT !.items[t].committed = committed,
                            !.items[t].compacted = compacted,
                            !.pending = @ \ {t}]
    /\ UNCHANGED <<manifest, snapshots, temps, saves>>

MustCompactIfChanged(t) ==      \* mutant: only a turn with new messages is compacted
    /\ RequiresRewrite(save.items[t])
    /\ save.checkpoint # t
    /\ save.items[t].content # manifest.items[t].content

MustCompact(t) == RequiresRewrite(save.items[t]) /\ save.checkpoint # t

\* The records that take the last committed content to the new one.
Diff(t) ==
    IF save.items[t].content = manifest.items[t].content THEN <<>>
    ELSE <<[from |-> manifest.items[t].content, to |-> save.items[t].content]>>

UntruncatedJournal(t) == journals[save.items[t].id]     \* mutant: the tail stays

\* What a journal is cut back to before records are appended: a tail that an
\* aborted save left behind goes.
CommittedJournal(t) == SubSeq(journals[save.items[t].id], 1, manifest.items[t].committed)

AppendJournal(t) ==
    /\ Writing(t)
    /\ save.checkpoint # t
    /\ ~MustCompact(t)
    /\ Len(journals[save.items[t].id]) >= manifest.items[t].committed
    /\ TurnWritten(t, CommittedJournal(t) \o Diff(t),
                   manifest.items[t].committed + Len(Diff(t)), manifest.items[t].compacted)

\* The compacted journal replaces the old file in one rename.  How it compares
\* with the old one byte by byte depends on the messages: the committed part
\* may be the same, the new file may be shorter, or its first bytes end in the
\* middle of a line.
Compacted(t) ==
    LET content == save.items[t].content
    IN  {CommittedJournal(t) \o Diff(t),
         <<[from |-> 0, to |-> content]>>,
         <<[from |-> 0, to |-> Partial], [from |-> Partial, to |-> content]>>}

Compacting(t) == Writing(t) /\ MustCompact(t)

CompactJournal(t) ==
    /\ Compacting(t)
    /\ \E journal \in Compacted(t) : TurnWritten(t, journal, Len(journal), TRUE)

NextRevision(t) == Len(manifest.items[t].checkpoints) + 1

\* The snapshot of a checkpoint takes the last checkpoint to the new content.
Snapshotting(t) ==
    /\ Writing(t)
    /\ save.checkpoint = t
    /\ save.items[t].checkpoints = manifest.items[t].checkpoints

WriteSnapshot(t) ==
    LET item == save.items[t]
    IN  /\ Snapshotting(t)
        /\ snapshots' =
              {f \in snapshots : ~(f.id = item.id /\ f.revision = NextRevision(t))}
                  \cup {[id |-> item.id, revision |-> NextRevision(t),
                         from |-> Last(item.checkpoints), to |-> item.content]}
        /\ save' = [save EXCEPT !.items[t].checkpoints = Append(@, item.content)]
        /\ UNCHANGED <<manifest, journals, temps, saves>>

\* ... and the journal starts over, empty.
Resetting(t) ==
    /\ Writing(t)
    /\ save.checkpoint = t
    /\ save.items[t].checkpoints # manifest.items[t].checkpoints

ResetJournal(t) ==
    /\ Resetting(t)
    /\ TurnWritten(t, <<>>, 0, manifest.items[t].compacted)

(***************************************************************************)
(* The manifest is replaced by one rename.  Then the files it does not     *)
(* name are removed, and the save returns.                                 *)
(***************************************************************************)
PrunesBefore(stage) == stage = "turns"      \* mutant: files are removed first

PrunesAt(stage) == stage = "journals"

Committing ==
    /\ save.stage = "turns"
    /\ save.pending = {}
    /\ \A t \in Turns : ChainVerified(save.items[t])

WriteManifest ==
    /\ Committing
    /\ manifest' = [items |-> save.items, lastId |-> save.lastId]
    /\ save' = [save EXCEPT !.stage = "journals"]
    /\ UNCHANGED <<journals, snapshots, temps, saves>>

PruneJournals ==
    /\ PrunesAt(save.stage)
    /\ journals' = [id \in Ids |-> IF \E t \in Turns : save.items[t].id = id
                                   THEN journals[id] ELSE <<>>]
    /\ save' = [save EXCEPT !.stage = IF @ = "journals" THEN "snapshots" ELSE @]
    /\ UNCHANGED <<manifest, snapshots, temps, saves>>

KeptAll(file) == file.revision > 0      \* mutant: no snapshot is ever removed

LatestOnly(file) ==     \* mutant: the chain's earlier snapshots are removed
    \E t \in Turns : /\ save.items[t].id = file.id
                     /\ file.revision = Len(save.items[t].checkpoints)

Referenced(file) ==
    \E t \in Turns : /\ save.items[t].id = file.id
                     /\ file.revision \in DOMAIN save.items[t].checkpoints

PruneSnapshots ==
    /\ save.stage = "snapshots"
    /\ snapshots' = {file \in snapshots : Referenced(file)}
    /\ save' = [save EXCEPT !.stage = "written"]
    /\ UNCHANGED <<manifest, journals, temps, saves>>

EndSave ==
    /\ save.stage = "written"
    /\ save' = Idle
    /\ UNCHANGED <<manifest, journals, snapshots, temps, saves>>

(***************************************************************************)
(* The save is cut short: between two steps, in the middle of the append   *)
(* of a journal, which leaves part of a record behind, or before one of    *)
(* its renames, which leaves a temporary file.                             *)
(***************************************************************************)
Abort ==
    /\ save.stage # "idle"
    /\ save' = Idle
    /\ UNCHANGED <<manifest, journals, snapshots, temps, saves>>

TornAppend(t) ==
    /\ Writing(t)
    /\ save.checkpoint # t
    /\ ~MustCompact(t)
    /\ Len(journals[save.items[t].id]) >= manifest.items[t].committed
    /\ Diff(t) # <<>>
    /\ journals' = [journals EXCEPT ![save.items[t].id] =
                        Append(CommittedJournal(t),
                               [from |-> manifest.items[t].content, to |-> Partial])]
    /\ save' = Idle
    /\ UNCHANGED <<manifest, snapshots, temps, saves>>

CutReplacement ==
    /\ \/ \E t \in Turns : Compacting(t) \/ Snapshotting(t) \/ Resetting(t)
       \/ Committing
    /\ temps' = temps \cup {saves}
    /\ save' = Idle
    /\ UNCHANGED <<manifest, journals, snapshots, saves>>

-----------------------------------------------------------------------------
Init ==
    /\ manifest = [items |-> [t \in Turns |-> NoItem], lastId |-> 0]
    /\ journals = [id \in Ids |-> <<>>]
    /\ snapshots = {}
    /\ temps = {}
    /\ save = Idle
    /\ saves = 0

Begin ==
    \/ SaveLifecycle
    \/ \E t \in Turns : SaveAppended(t) \/ SaveSettled(t) \/ SaveCheckpoint(t)
    \/ \E gone \in SUBSET Turns : SaveRemoved(gone)

WriteTurn(t) ==
    \/ AppendJournal(t)
    \/ CompactJournal(t)
    \/ WriteSnapshot(t)
    \/ ResetJournal(t)

Next ==
    \/ Begin
    \/ \E t \in Turns : WriteTurn(t) \/ TornAppend(t)
    \/ WriteManifest
    \/ PruneJournals
    \/ PruneSnapshots
    \/ EndSave
    \/ Abort
    \/ CutReplacement

Spec == Init /\ [][Next]_vars

-----------------------------------------------------------------------------
TypeOK ==
    /\ manifest \in [items : [Turns -> Item], lastId : 0..MaxSaves]
    /\ journals \in [Ids -> Seq(Batch)]
    /\ snapshots \subseteq SnapshotFile
    /\ temps \subseteq Ids
    /\ save \in [stage : {"idle", "turns", "journals", "snapshots", "written"},
                 items : [Turns -> Item], lastId : 0..MaxSaves,
                 pending : SUBSET Turns, checkpoint : Turns \cup {NoTurn}]
    /\ saves \in 0..MaxSaves

(***************************************************************************)
(* The variables have their types, and no listed turn waits for a rewrite: *)
(* a turn is compacted by the save that settles it.  So a turn view may    *)
(* leave any turn out without being refused                                *)
(* (SESSION_TURN_VIEW_INCOMPLETE).                                         *)
(***************************************************************************)
ManifestOK == TypeOK /\ \A t \in Listed : ~RequiresRewrite(manifest.items[t])

(***************************************************************************)
(* What a save commits is what a reader finds: the replacement of the      *)
(* manifest makes every turn it lists anew read as the content its hashes  *)
(* stand for, whatever earlier saves that were cut short left in the       *)
(* journals and snapshots.                                                 *)
(***************************************************************************)
CommittedReads ==
    [][\A t \in Turns : manifest'.items[t] \notin {manifest.items[t], NoItem} => Reads(t)']_vars

(***************************************************************************)
(* When a save has finished, no journal and no snapshot is left that the   *)
(* manifest does not name: neither of turns that are gone nor what a save  *)
(* that was cut short left under an id or a revision nobody has committed. *)
(* What does stay, for good, is temporary files: never of the save that    *)
(* has finished, only of earlier ones that committed nothing.              *)
(***************************************************************************)
NoOrphans ==
    save.stage = "written" =>
        /\ \A id \in Ids : journals[id] # <<>> => \E t \in Listed : manifest.items[t].id = id
        /\ \A f \in snapshots : \E t \in Listed :
              f.id = manifest.items[t].id /\ f = SnapshotOf(manifest.items[t], f.revision)
        /\ \A n \in temps : n < saves /\ \A t \in Listed : manifest.items[t].content # n

(***************************************************************************)
(* A journal belongs to one turn, and the id of a turn is never used for   *)
(* another one, also when the first was removed: a stale reference cannot  *)
(* resolve to somebody else's messages.                                    *)
(***************************************************************************)
JournalIdentity ==
    [][/\ manifest'.lastId >= manifest.lastId
       /\ \A t \in Turns :
            LET id == manifest'.items[t].id
            IN  id \notin {0, manifest.items[t].id} =>
                  /\ id \in (manifest.lastId + 1)..manifest'.lastId
                  /\ \A u \in Turns \ {t} : manifest'.items[u].id # id]_vars

(***************************************************************************)
(* A snapshot the manifest names is never changed or removed while the     *)
(* turn is listed under its id ("immutable snapshots indexed by the        *)
(* manifest"), also by a save that is aborted and tried again.             *)
(***************************************************************************)
SnapshotsAreImmutable ==
    [][\A t \in Listed :
          /\ ChainVerified(manifest.items[t])
          /\ manifest'.items[t].id = manifest.items[t].id
          => ChainVerified(manifest.items[t])']_vars

(***************************************************************************)
(* Only a rewrite makes a committed turn unreadable: the step that         *)
(* replaces its journal, by compaction or by the reset after a checkpoint, *)
(* before the manifest that goes with it.  Every other step (pruning,      *)
(* writing other turns, being cut short) keeps what was committed.         *)
(***************************************************************************)
OnlyRewriteBreaks ==
    [][\A t \in Listed : Reads(t) /\ t \in Listed' /\ ~Reads(t)' =>
          /\ save'.pending = save.pending \ {t}
          /\ t \in save.pending
          /\ \/ save.checkpoint = t
             \/ save.items[t].terminal /\ ~manifest.items[t].terminal]_vars

(***************************************************************************)
(* As long as no save compacts or checkpoints, saving a session is atomic. *)
(***************************************************************************)
Asked == IF save.stage = "idle" THEN Materialized
         ELSE [t \in Turns |-> save.items[t].content]

Store == INSTANCE AtomicStore WITH stored <- Materialized, asked <- Asked

SavesAreAtomic == Store!Spec
=============================================================================
