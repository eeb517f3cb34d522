------------------------ MODULE SessionArtifactProofs ------------------------
(***************************************************************************)
(* What the files of a session guarantee for any set of turns and any      *)
(* number of saves, each of which may be cut short at every step.          *)
(***************************************************************************)
EXTENDS SessionReads, TLAPS

(***************************************************************************)
(* The types, but for the temporary files: nothing depends on them, and    *)
(* what holds of them is an invariant of its own (TempsFit).               *)
(***************************************************************************)
Typed ==
    /\ manifest \in [items : [Turns -> Item], lastId : 0..MaxSaves]
    /\ journals \in [Ids -> Seq(Batch)]
    /\ snapshots \subseteq SnapshotFile
    /\ save \in [stage : {"idle", "turns", "journals", "snapshots", "written"},
                 items : [Turns -> Item], lastId : 0..MaxSaves,
                 pending : SUBSET Turns, checkpoint : Turns \cup {NoTurn}]
    /\ saves \in 0..MaxSaves

(***************************************************************************)
(* The invariant, part by part.  First the ids: the manifest numbers its   *)
(* turns apart, and a save gives a turn the id it has or a new one.        *)
(***************************************************************************)
Apart(items) == \A t, u \in Turns : items[t].id = items[u].id /\ items[t].id # 0 => t = u

NoneIsUnlisted(items) == \A t \in Turns : items[t].id = 0 => items[t] = NoItem

ManifestIds ==
    /\ manifest.lastId <= saves
    /\ \A t \in Turns : manifest.items[t].id <= manifest.lastId
    /\ Apart(manifest.items)
    /\ NoneIsUnlisted(manifest.items)

PlannedIds ==
    save.stage # "idle" =>
        /\ manifest.lastId <= save.lastId
        /\ save.lastId <= saves
        /\ Apart(save.items)
        /\ NoneIsUnlisted(save.items)
        /\ \A t \in Turns :
              /\ save.items[t].id <= save.lastId
              /\ save.items[t].id \in {0, manifest.items[t].id} \/ save.items[t].id > manifest.lastId

(***************************************************************************)
(* What of a turn that is still to be written is as in the manifest; what  *)
(* has to be rewritten is to be written.                                   *)
(***************************************************************************)
Planned ==
    save.stage = "turns" =>
        \A t \in Turns :
            /\ RequiresRewrite(save.items[t]) => t \in save.pending
            /\ t \in save.pending =>
                  /\ save.items[t].id # 0
                  /\ manifest.items[t].id \in {0, save.items[t].id}
                  /\ save.items[t].compacted = manifest.items[t].compacted
                  /\ \/ save.items[t].checkpoints = manifest.items[t].checkpoints
                     \/ /\ save.checkpoint = t
                        /\ save.items[t].checkpoints =
                              Append(manifest.items[t].checkpoints, save.items[t].content)

Clean == \A t \in Turns : ~RequiresRewrite(manifest.items[t])

(***************************************************************************)
(* The committed part of a journal, folded over what the snapshots hold,   *)
(* gives the content the item stands for.                                  *)
(***************************************************************************)
Folds(base, journal, n, content) ==
    /\ Len(journal) >= n
    /\ n = 0 => base = content
    /\ n # 0 => journal[n].to = content
    /\ \A i \in 1..n : journal[i].from = IF i = 1 THEN base ELSE journal[i - 1].to

JournalFits(item) ==
    Folds(Last(item.checkpoints), journals[item.id], item.committed, item.content)

PendingFit ==
    save.stage = "turns" =>
        \A t \in save.pending : manifest.items[t].id # 0 => JournalFits(manifest.items[t])

WrittenFit ==
    save.stage = "turns" =>
        \A t \in Turns \ save.pending :
            save.items[t] \in {manifest.items[t], NoItem} \/ JournalFits(save.items[t])

(***************************************************************************)
(* A file name stands for one snapshot.  Once the manifest is replaced, it *)
(* is what the save planned, its snapshots are there, and the files it     *)
(* does not name go.                                                       *)
(***************************************************************************)
FilesApart ==
    \A f, g \in snapshots : f.id = g.id /\ f.revision = g.revision => f = g

Committed ==
    save.stage \in {"journals", "snapshots", "written"} =>
        /\ manifest.items = save.items
        /\ manifest.lastId = save.lastId
        /\ \A t \in Turns : ChainVerified(manifest.items[t])
        /\ save.stage # "journals" =>
              \A id \in Ids : journals[id] # <<>> => \E t \in Turns : save.items[t].id = id
        /\ save.stage = "written" => \A f \in snapshots : Referenced(f)

(***************************************************************************)
(* Without settling and checkpoints nothing is ever rewritten, and every   *)
(* listed turn reads.                                                      *)
(***************************************************************************)
Plain(item) == ~item.terminal /\ item.checkpoints = <<>>

Untouched ==
    Operations \subseteq {"remove"} =>
        /\ \A t \in Turns : Plain(manifest.items[t]) /\ Plain(save.items[t])
        /\ save.checkpoint = NoTurn
        /\ \A t \in Listed : JournalFits(manifest.items[t])

IInv ==
    /\ Typed /\ ManifestIds /\ PlannedIds /\ Planned /\ Clean
    /\ PendingFit /\ WrittenFit /\ FilesApart /\ Committed /\ Untouched

-----------------------------------------------------------------------------
(***************************************************************************)
(* The data.                                                               *)
(***************************************************************************)
SaveType == [stage : {"idle", "turns", "journals", "snapshots", "written"},
             items : [Turns -> Item], lastId : 0..MaxSaves,
             pending : SUBSET Turns, checkpoint : Turns \cup {NoTurn}]

LEMMA ItemFields ==
    ASSUME NEW item \in Item
    PROVE  /\ item.id \in 0..MaxSaves /\ item.content \in Contents /\ item.committed \in Nat
           /\ item.checkpoints \in Seq(Contents)
           /\ item.compacted \in BOOLEAN /\ item.terminal \in BOOLEAN
BY DEF Item

LEMMA NoItemFits ==
    /\ NoItem \in Item
    /\ NoItem.id = 0 /\ NoItem.content = 0 /\ NoItem.committed = 0
    /\ NoItem.checkpoints = <<>> /\ NoItem.compacted = FALSE /\ NoItem.terminal = FALSE
    /\ ~RequiresRewrite(NoItem)
BY MaxSavesAssumption DEF NoItem, Item, Contents, RequiresRewrite

LEMMA IdleFits == Idle \in SaveType
BY NoItemFits, MaxSavesAssumption DEF Idle, SaveType

LEMMA LastContent ==
    ASSUME NEW s \in Seq(Contents)
    PROVE  Last(s) \in Contents
BY MaxSavesAssumption DEF Last, Contents

LEMMA LastAppended ==
    ASSUME NEW s \in Seq(Contents), NEW c \in Contents
    PROVE  /\ Append(s, c) \in Seq(Contents) /\ Append(s, c) # <<>> /\ Append(s, c) # s
           /\ Len(Append(s, c)) = Len(s) + 1 /\ Last(Append(s, c)) = c
BY DEF Last

(***************************************************************************)
(* The committed part of a journal folds like the journal, whatever comes  *)
(* after it, and one more batch takes it to the next content.              *)
(***************************************************************************)
LEMMA KeptFolds ==
    ASSUME NEW base \in Contents, NEW journal \in Seq(Batch), NEW n \in Nat,
           NEW c \in Contents, NEW tail \in Seq(Batch), Folds(base, journal, n, c)
    PROVE  /\ SubSeq(journal, 1, n) \o tail \in Seq(Batch)
           /\ Folds(base, SubSeq(journal, 1, n) \o tail, n, c)
<1> DEFINE kept == SubSeq(journal, 1, n)
<1>1. kept \in Seq(Batch) /\ Len(kept) = n /\ \A i \in 1..n : kept[i] = journal[i]
      BY DEF Folds
<1> DEFINE whole == kept \o tail
<1>2. /\ whole \in Seq(Batch) /\ Len(whole) >= n
      /\ \A i \in 1..n : whole[i] = journal[i]
      BY <1>1
<1> HIDE DEF whole
<1>3. n # 0 => n \in 1..n /\ \A i \in 1..n : i # 1 => i - 1 \in 1..n OBVIOUS
<1>4. Folds(base, whole, n, c) BY <1>2, <1>3 DEF Folds
<1>5. QED BY <1>2, <1>4 DEF whole

LEMMA MoreFolds ==
    ASSUME NEW base \in Contents, NEW journal \in Seq(Batch), NEW n \in Nat,
           NEW c \in Contents, NEW d \in Contents, Folds(base, journal, n, c)
    PROVE  LET more == SubSeq(journal, 1, n) \o <<[from |-> c, to |-> d]>>
           IN  more \in Seq(Batch) /\ Len(more) = n + 1 /\ Folds(base, more, n + 1, d)
<1> DEFINE batch == [from |-> c, to |-> d]
           kept == SubSeq(journal, 1, n)
           more == kept \o <<batch>>
<1>1. batch \in Batch /\ <<batch>> \in Seq(Batch) BY DEF Batch
<1>2. kept \in Seq(Batch) /\ Len(kept) = n /\ \A i \in 1..n : kept[i] = journal[i]
      BY DEF Folds
<1>3. /\ more \in Seq(Batch) /\ Len(more) = n + 1 /\ more[n + 1] = batch
      /\ \A i \in 1..n : more[i] = journal[i]
      BY <1>1, <1>2
<1> HIDE DEF more
<1>4. \A i \in 1..(n + 1) : more[i].from = IF i = 1 THEN base ELSE more[i - 1].to
      <2> SUFFICES ASSUME NEW i \in 1..(n + 1)
                   PROVE  more[i].from = IF i = 1 THEN base ELSE more[i - 1].to
          OBVIOUS
      <2>1. CASE i \in 1..n
            <3>1. i # 1 => i - 1 \in 1..n BY <2>1
            <3>2. QED BY <2>1, <3>1, <1>3 DEF Folds
      <2>2. CASE i = n + 1 /\ n = 0 BY <2>2, <1>3 DEF Folds
      <2>3. CASE i = n + 1 /\ n # 0
            <3>1. n \in 1..n /\ i - 1 = n /\ i # 1 BY <2>3
            <3>2. QED BY <2>3, <3>1, <1>3 DEF Folds
      <2>4. QED BY <2>1, <2>2, <2>3
<1>5. Folds(base, more, n + 1, d) BY <1>3, <1>4 DEF Folds
<1>6. QED BY <1>3, <1>5 DEF more

LEMMA NewFolds ==
    ASSUME NEW c \in Contents
    PROVE  /\ <<[from |-> 0, to |-> c]>> \in Seq(Batch)
           /\ Folds(0, <<[from |-> 0, to |-> c]>>, 1, c)
           /\ <<[from |-> 0, to |-> Partial], [from |-> Partial, to |-> c]>> \in Seq(Batch)
           /\ Folds(0, <<[from |-> 0, to |-> Partial], [from |-> Partial, to |-> c]>>, 2, c)
BY MaxSavesAssumption DEF Folds, Batch, Contents

(***************************************************************************)
(* A turn reads when its snapshots are there and its journal fits.         *)
(***************************************************************************)
LEMMA MaterializeFits ==
    ASSUME Typed, NEW item \in Item, item.id # 0
    PROVE  Materialize(item) = item.content <=> ChainVerified(item) /\ JournalFits(item)
<1> DEFINE base == Last(item.checkpoints)
           journal == journals[item.id]
           n == item.committed
<1>1. base \in Contents /\ journal \in Seq(Batch) /\ n \in Nat /\ item.content \in Contents
      BY ItemFields, LastContent DEF Typed, Ids
<1>2. item.content \notin {Unreadable, Mixed, Partial}
      BY <1>1, MaxSavesAssumption DEF Contents, Unreadable, Mixed, Partial
<1> HIDE DEF base, journal, n
<1>3. Materialize(item) =
         IF ~ChainVerified(item) \/ Len(journal) < n THEN Unreadable
         ELSE IF n = 0 THEN base
         ELSE IF journal[n].to = Partial THEN Unreadable
         ELSE IF \A i \in 1..n : journal[i].from = (IF i = 1 THEN base ELSE journal[i - 1].to)
              THEN journal[n].to
         ELSE Mixed
      BY DEF Materialize, base, journal, n
<1>4. JournalFits(item) <=> Folds(base, journal, n, item.content)
      BY DEF JournalFits, base, journal, n
<1>5. QED BY <1>1, <1>2, <1>3, <1>4 DEF Folds

LEMMA TypeParts ==
    ASSUME Typed
    PROVE  /\ save \in SaveType
           /\ \A t \in Turns : manifest.items[t] \in Item /\ save.items[t] \in Item
           /\ manifest.lastId \in Nat /\ save.lastId \in Nat /\ saves \in Nat
BY MaxSavesAssumption DEF Typed, SaveType

-----------------------------------------------------------------------------
(***************************************************************************)
(* A save begins.  What all the operations have in common:                 *)
(***************************************************************************)
Begins(view, gone, new, changed, settled, checkpoint) ==
    /\ view \subseteq Listed
    /\ gone \subseteq view
    /\ new \subseteq Turns \ Listed
    /\ \A t, u \in new : t = u
    /\ changed \subseteq view \cup new
    /\ settled \subseteq view
    /\ Operations \subseteq {"remove"} => settled = {} /\ checkpoint = NoTurn
    /\ BeginSave(view, gone, new, changed, settled, checkpoint)

LEMMA BeginParts ==
    ASSUME Begin
    PROVE  \E view, gone, new, changed, settled \in SUBSET Turns,
              checkpoint \in Turns \cup {NoTurn} :
              Begins(view, gone, new, changed, settled, checkpoint)
<1> USE DEF Begins
<1>0. Listed \subseteq Turns BY DEF Listed
<1>1. CASE SaveLifecycle
      <2>1. Begins(Listed, {}, {}, {}, {}, NoTurn) BY <1>1 DEF SaveLifecycle
      <2> HIDE DEF Begins
      <2>2. QED BY <1>0, <2>1
<1>2. ASSUME NEW t \in Turns, SaveAppended(t)
      PROVE  \E view, gone, new, changed, settled \in SUBSET Turns,
                checkpoint \in Turns \cup {NoTurn} :
                Begins(view, gone, new, changed, settled, checkpoint)
      <2>1. PICK view \in SUBSET Listed :
               /\ t \in Listed => t \in view
               /\ BeginSave(view, {}, {t} \ Listed, {t}, {}, NoTurn)
            BY <1>2 DEF SaveAppended
      <2>2. Begins(view, {}, {t} \ Listed, {t}, {}, NoTurn) BY <2>1
      <2> HIDE DEF Begins
      <2>3. view \in SUBSET Turns /\ {t} \ Listed \in SUBSET Turns /\ {t} \in SUBSET Turns
            BY <1>0
      <2>4. QED BY <2>2, <2>3
<1>3. ASSUME NEW t \in Turns, SaveSettled(t)
      PROVE  \E view, gone, new, changed, settled \in SUBSET Turns,
                checkpoint \in Turns \cup {NoTurn} :
                Begins(view, gone, new, changed, settled, checkpoint)
      <2>1. PICK changed \in SUBSET {t} : BeginSave(Listed, {}, {}, changed, {t}, NoTurn)
            BY <1>3 DEF SaveSettled
      <2>2. t \in Listed /\ "settle" \in Operations BY <1>3 DEF SaveSettled
      <2>3. Begins(Listed, {}, {}, changed, {t}, NoTurn) BY <2>1, <2>2
      <2> HIDE DEF Begins
      <2>4. changed \in SUBSET Turns /\ {t} \in SUBSET Turns OBVIOUS
      <2>5. QED BY <1>0, <2>3, <2>4
<1>4. ASSUME NEW t \in Turns, SaveCheckpoint(t)
      PROVE  \E view, gone, new, changed, settled \in SUBSET Turns,
                checkpoint \in Turns \cup {NoTurn} :
                Begins(view, gone, new, changed, settled, checkpoint)
      <2>1. Begins(Listed, {}, {}, {t}, {}, t) BY <1>4 DEF SaveCheckpoint
      <2> HIDE DEF Begins
      <2>2. QED BY <1>0, <2>1
<1>5. ASSUME NEW gone \in SUBSET Turns, SaveRemoved(gone)
      PROVE  \E view, gone_1, new, changed, settled \in SUBSET Turns,
                checkpoint \in Turns \cup {NoTurn} :
                Begins(view, gone_1, new, changed, settled, checkpoint)
      <2>1. CASE BeginSave(Listed, gone, {}, {}, {}, NoTurn)
            <3>1. Begins(Listed, gone, {}, {}, {}, NoTurn) BY <1>5, <2>1 DEF SaveRemoved
            <3> HIDE DEF Begins
            <3>2. QED BY <1>0, <3>1
      <2>2. ASSUME NEW t \in Turns \ Listed, BeginSave(Listed, gone, {t}, {}, {}, NoTurn)
            PROVE  Begins(Listed, gone, {t}, {}, {}, NoTurn)
            BY <1>5, <2>2 DEF SaveRemoved
      <2>3. \/ BeginSave(Listed, gone, {}, {}, {}, NoTurn)
            \/ \E t \in Turns \ Listed : BeginSave(Listed, gone, {t}, {}, {}, NoTurn)
            BY <1>5 DEF SaveRemoved
      <2> HIDE DEF Begins
      <2>4. CASE \E t \in Turns \ Listed : BeginSave(Listed, gone, {t}, {}, {}, NoTurn)
            <3>1. PICK t \in Turns \ Listed : Begins(Listed, gone, {t}, {}, {}, NoTurn)
                  BY <2>2, <2>4
            <3>2. {t} \in SUBSET Turns OBVIOUS
            <3>3. QED BY <1>0, <3>1, <3>2
      <2>5. QED BY <2>1, <2>3, <2>4
<1> HIDE DEF Begins
<1>6. QED BY <1>1, <1>2, <1>3, <1>4, <1>5 DEF Begin

\* What a save plans for a turn, by what it does to it.
Outlined(view, gone, new, changed, settled, checkpoint) ==
    /\ save' \in SaveType /\ saves' \in 0..MaxSaves /\ saves' = saves + 1
    /\ save'.stage = "turns" /\ save'.pending = (view \ gone) \cup new
    /\ save'.checkpoint = checkpoint
    /\ save'.lastId = IF new = {} THEN manifest.lastId ELSE manifest.lastId + 1
    /\ \A t \in gone : save'.items[t] = NoItem
    /\ \A t \in new :
          /\ manifest.items[t] = NoItem
          /\ save'.items[t].id = manifest.lastId + 1
          /\ save'.items[t].checkpoints = <<>>
          /\ save'.items[t].compacted = FALSE /\ ~save'.items[t].terminal
    /\ \A t \in Turns \ (gone \cup new) :
          /\ save'.items[t].id = manifest.items[t].id
          /\ save'.items[t].checkpoints = manifest.items[t].checkpoints
          /\ save'.items[t].compacted = manifest.items[t].compacted
          /\ save'.items[t].committed = manifest.items[t].committed
          /\ t \notin settled => save'.items[t].terminal = manifest.items[t].terminal
          /\ t \notin changed \cup settled => save'.items[t] = manifest.items[t]

LEMMA PlanParts ==
    ASSUME Typed, ManifestIds,
           NEW view \in SUBSET Turns, NEW gone \in SUBSET Turns, NEW new \in SUBSET Turns,
           NEW changed \in SUBSET Turns, NEW settled \in SUBSET Turns,
           NEW checkpoint \in Turns \cup {NoTurn},
           Begins(view, gone, new, changed, settled, checkpoint)
    PROVE  Outlined(view, gone, new, changed, settled, checkpoint)
<1> DEFINE Kept(t) == [manifest.items[t] EXCEPT !.content = IF t \in changed THEN saves + 1 ELSE @,
                                                !.terminal = @ \/ t \in settled]
           New == [NoItem EXCEPT !.id = manifest.lastId + 1, !.content = saves + 1]
           items == Plan(gone, new, changed, settled)
<1>1. saves < MaxSaves /\ saves' = saves + 1 /\ saves \in Nat
      BY TypeParts DEF Begins, BeginSave
<1>2. saves + 1 \in Contents /\ manifest.lastId + 1 \in 0..MaxSaves
      BY <1>1, TypeParts, MaxSavesAssumption DEF ManifestIds, Contents
<1>3. \A t \in Turns : items[t] = IF t \in gone THEN NoItem ELSE IF t \in new THEN New ELSE Kept(t)
      BY DEF Plan, NextId
<1>4. /\ New \in Item /\ New.id = manifest.lastId + 1 /\ New.checkpoints = <<>>
      /\ New.compacted = FALSE /\ ~New.terminal
      BY <1>2, NoItemFits DEF Item
<1>5. ASSUME NEW t \in Turns
      PROVE  /\ Kept(t) \in Item
             /\ Kept(t).id = manifest.items[t].id
             /\ Kept(t).checkpoints = manifest.items[t].checkpoints
             /\ Kept(t).compacted = manifest.items[t].compacted
             /\ Kept(t).committed = manifest.items[t].committed
             /\ t \notin settled => Kept(t).terminal = manifest.items[t].terminal
             /\ t \notin changed \cup settled => Kept(t) = manifest.items[t]
      <2>1. manifest.items[t] \in Item BY TypeParts
      <2>2. QED BY <2>1, <1>2 DEF Item
<1> HIDE DEF Kept, New
<1>6. items \in [Turns -> Item]
      <2>1. \A t \in Turns : items[t] \in Item BY <1>3, <1>4, <1>5, NoItemFits
      <2>2. items = [t \in Turns |-> items[t]] BY DEF Plan
      <2> HIDE DEF items
      <2>3. QED BY <2>1, <2>2
<1> HIDE DEF items
<1>7. save' = [stage |-> "turns", items |-> items,
               lastId |-> IF new = {} THEN manifest.lastId ELSE manifest.lastId + 1,
               pending |-> (view \ gone) \cup new, checkpoint |-> checkpoint]
      BY DEF Begins, BeginSave, NextId, items
<1>8. save' \in SaveType
      <2>1. manifest.lastId \in 0..MaxSaves BY DEF Typed
      <2>2. QED BY <1>2, <1>6, <1>7, <2>1 DEF SaveType
<1>9. \A t \in new : manifest.items[t] = NoItem BY DEF Begins, Listed, ManifestIds, NoneIsUnlisted
<1>10. gone \cap new = {} BY DEF Begins, Listed
<1>11. save'.items = items BY <1>7
<1>12. saves' \in 0..MaxSaves BY <1>1, MaxSavesAssumption
<1>13. /\ \A t \in gone : save'.items[t] = NoItem
       /\ \A t \in new :
                 /\ save'.items[t].id = manifest.lastId + 1
                 /\ save'.items[t].checkpoints = <<>>
                 /\ save'.items[t].compacted = FALSE /\ ~save'.items[t].terminal
       BY <1>3, <1>4, <1>10, <1>11
<1>14. \A t \in Turns \ (gone \cup new) : save'.items[t] = Kept(t)
       BY <1>3, <1>11
<1>15. QED BY <1>1, <1>5, <1>7, <1>8, <1>9, <1>12, <1>13, <1>14 DEF Outlined

LEMMA BeginKeeps ==
    ASSUME IInv, Begin
    PROVE  IInv'
<1> USE DEF IInv
<1>1. PICK view, gone, new, changed, settled \in SUBSET Turns, checkpoint \in Turns \cup {NoTurn} :
         Begins(view, gone, new, changed, settled, checkpoint)
      BY BeginParts
<1>2. UNCHANGED <<manifest, journals, snapshots>> /\ save.stage = "idle"
      BY <1>1 DEF Begins, BeginSave
<1>3. /\ view \subseteq Listed /\ gone \subseteq view /\ new \subseteq Turns \ Listed
      /\ \A t, u \in new : t = u
      /\ changed \subseteq view \cup new /\ settled \subseteq view
      /\ Operations \subseteq {"remove"} => settled = {} /\ checkpoint = NoTurn
      BY <1>1 DEF Begins
<1>4. /\ save' \in SaveType /\ saves' \in 0..MaxSaves /\ saves' = saves + 1
      /\ save'.stage = "turns" /\ save'.pending = (view \ gone) \cup new
      /\ save'.checkpoint = checkpoint
      /\ save'.lastId = IF new = {} THEN manifest.lastId ELSE manifest.lastId + 1
      /\ \A t \in gone : save'.items[t] = NoItem
      /\ \A t \in new :
            /\ manifest.items[t] = NoItem
            /\ save'.items[t].id = manifest.lastId + 1
            /\ save'.items[t].checkpoints = <<>>
            /\ save'.items[t].compacted = FALSE /\ ~save'.items[t].terminal
      /\ \A t \in Turns \ (gone \cup new) :
            /\ save'.items[t].id = manifest.items[t].id
            /\ save'.items[t].checkpoints = manifest.items[t].checkpoints
            /\ save'.items[t].compacted = manifest.items[t].compacted
            /\ t \notin settled => save'.items[t].terminal = manifest.items[t].terminal
            /\ t \notin changed \cup settled => save'.items[t] = manifest.items[t]
      <2>1. Typed /\ ManifestIds BY DEF IInv
      <2>2. Outlined(view, gone, new, changed, settled, checkpoint) BY <1>1, <2>1, PlanParts
      <2>3. QED BY <2>2 DEF Outlined
<1>8. /\ manifest.lastId \in Nat /\ saves \in Nat
      /\ \A t \in Turns : manifest.items[t].id \in Nat
      BY TypeParts, ItemFields
<1>9. \A t \in view : t \in Turns /\ manifest.items[t].id # 0 BY <1>3 DEF Listed
<1>10. Typed' BY <1>2, <1>4 DEF Typed, SaveType
<1>11. ManifestIds' BY <1>2, <1>4, <1>8 DEF ManifestIds, Apart, NoneIsUnlisted
<1>12. PlannedIds'
      <2>1. \A t \in Turns :
               \/ save'.items[t].id = 0 /\ save'.items[t] = NoItem
               \/ /\ save'.items[t].id = manifest.items[t].id
                  /\ save'.items[t].id # 0
               \/ t \in new /\ save'.items[t].id = manifest.lastId + 1
            <3> SUFFICES ASSUME NEW t \in Turns
                         PROVE  \/ save'.items[t].id = 0 /\ save'.items[t] = NoItem
                                \/ /\ save'.items[t].id = manifest.items[t].id
                                   /\ save'.items[t].id # 0
                                \/ t \in new /\ save'.items[t].id = manifest.lastId + 1
                OBVIOUS
            <3>1. CASE t \in gone BY <1>4, <3>1, NoItemFits
            <3>2. CASE t \in new BY <1>4, <3>2
            <3>3. CASE t \notin gone \cup new /\ manifest.items[t].id # 0 BY <1>4, <3>3
            <3>4. CASE t \notin gone \cup new /\ manifest.items[t].id = 0
                  <4>1. t \notin changed \cup settled BY <1>3, <1>9, <3>4
                  <4>2. QED BY <1>4, <3>4, <4>1 DEF ManifestIds, NoneIsUnlisted
            <3>5. QED BY <3>1, <3>2, <3>3, <3>4
      <2>2. \A t \in Turns : manifest.items[t].id <= manifest.lastId BY DEF ManifestIds
      <2>3. Apart(save'.items)
            BY <1>3, <1>8, <2>1, <2>2 DEF ManifestIds, Apart
      <2>4. NoneIsUnlisted(save'.items) BY <1>8, <2>1 DEF NoneIsUnlisted
      <2>5. manifest.lastId <= save'.lastId /\ save'.lastId <= saves'
            BY <1>4, <1>8 DEF ManifestIds
      <2>6. \A t \in Turns :
               /\ save'.items[t].id <= save'.lastId
               /\ save'.items[t].id \in {0, manifest.items[t].id} \/ save'.items[t].id > manifest.lastId
            BY <1>4, <1>8, <2>1, <2>2
      <2>7. QED BY <1>2, <2>3, <2>4, <2>5, <2>6 DEF PlannedIds, Apart, NoneIsUnlisted
<1>13. ASSUME NEW t \in Turns, t \in view \ gone
       PROVE  t \notin gone \cup new
       BY <1>3, <1>13
<1>14. \A t \in Turns \ save'.pending : save'.items[t] \in {manifest.items[t], NoItem}
       <2> SUFFICES ASSUME NEW t \in Turns, t \notin save'.pending
                    PROVE  save'.items[t] \in {manifest.items[t], NoItem}
           OBVIOUS
       <2>1. CASE t \in gone BY <1>4, <2>1
       <2>2. CASE t \notin gone BY <1>3, <1>4, <2>2
       <2>3. QED BY <2>1, <2>2
<1>15. Planned'
      <2> SUFFICES ASSUME NEW t \in Turns
                   PROVE  /\ RequiresRewrite(save'.items[t]) => t \in save'.pending
                          /\ t \in save'.pending =>
                                /\ save'.items[t].id # 0
                                /\ manifest.items[t].id \in {0, save'.items[t].id}
                                /\ save'.items[t].compacted = manifest.items[t].compacted
                                /\ save'.items[t].checkpoints = manifest.items[t].checkpoints
          BY <1>2 DEF Planned, RequiresRewrite
      <2>1. RequiresRewrite(save'.items[t]) => t \in save'.pending
            BY <1>14, NoItemFits DEF Clean
      <2>2. CASE t \in new
            <3>1. manifest.items[t].id = 0 /\ manifest.items[t].compacted = FALSE
                  /\ manifest.items[t].checkpoints = <<>>
                  BY <1>4, <2>2, NoItemFits
            <3>2. /\ save'.items[t].id # 0 /\ save'.items[t].checkpoints = <<>>
                  /\ save'.items[t].compacted = FALSE
                  BY <1>4, <1>8, <2>2
            <3>3. QED BY <2>1, <3>1, <3>2
      <2>3. CASE t \in view \ gone BY <1>4, <1>9, <1>13, <2>1, <2>3
      <2>4. CASE t \notin save'.pending BY <2>1, <2>4
      <2>5. QED BY <1>4, <2>2, <2>3, <2>4
<1>16. Clean' BY <1>2 DEF Clean, RequiresRewrite
<1>17. PendingFit'
      <2> SUFFICES ASSUME NEW t \in save'.pending, manifest.items[t].id # 0
                   PROVE  JournalFits(manifest.items[t])
          BY <1>2 DEF PendingFit, JournalFits
      <2>1. t \in view
            BY <1>3, <1>4 DEF Listed
      <2>2. Reads(t) /\ t \in Listed /\ t \in Turns BY <1>1, <1>3, <1>9, <2>1 DEF Begins, BeginSave
      <2>3. Materialize(manifest.items[t]) = manifest.items[t].content
            BY <2>2 DEF Reads, Materialized
      <2>4. QED BY <2>2, <2>3, MaterializeFits, TypeParts
<1>18. WrittenFit' BY <1>2, <1>14 DEF WrittenFit
<1>19. FilesApart' BY <1>2 DEF FilesApart
<1>20. Committed' BY <1>4 DEF Committed
<1>21. Untouched'
      <2> SUFFICES ASSUME Operations \subseteq {"remove"}
                   PROVE  /\ \A t \in Turns : Plain(save'.items[t])
                          /\ save'.checkpoint = NoTurn
          BY <1>2 DEF Untouched, Plain, Listed, JournalFits
      <2>1. \A t \in Turns : Plain(manifest.items[t]) BY DEF Untouched
      <2>2. settled = {} /\ checkpoint = NoTurn BY <1>3
      <2>3. ASSUME NEW t \in Turns
            PROVE  Plain(save'.items[t])
            <3>1. CASE t \in gone BY <1>4, <3>1, NoItemFits DEF Plain
            <3>2. CASE t \in new BY <1>4, <3>2 DEF Plain
            <3>3. CASE t \notin gone \cup new BY <1>4, <2>1, <2>2, <3>3 DEF Plain
            <3>4. QED BY <3>1, <3>2, <3>3
      <2>4. QED BY <1>4, <2>2, <2>3
<1>22. QED BY <1>10, <1>11, <1>12, <1>15, <1>16, <1>17, <1>18, <1>19, <1>20, <1>21

-----------------------------------------------------------------------------
(***************************************************************************)
(* A save writes a turn: into the journal of that turn and no other, which *)
(* folds to the new content, and as far as the manifest still needs it to  *)
(* the old one.                                                            *)
(***************************************************************************)
Updated(t, journal, committed, compacted) ==
    /\ UNCHANGED <<manifest, snapshots, saves>>
    /\ save' \in SaveType /\ save'.stage = "turns" /\ save'.lastId = save.lastId
    /\ save'.checkpoint = save.checkpoint /\ save'.pending = save.pending \ {t}
    /\ \A u \in Turns \ {t} : save'.items[u] = save.items[u]
    /\ save'.items[t].id = save.items[t].id
    /\ save'.items[t].content = save.items[t].content
    /\ save'.items[t].checkpoints = save.items[t].checkpoints
    /\ save'.items[t].terminal = save.items[t].terminal
    /\ save'.items[t].committed = committed
    /\ save'.items[t].compacted = compacted
    /\ journals' \in [Ids -> Seq(Batch)]
    /\ journals'[save.items[t].id] = journal
    /\ \A id \in Ids \ {save.items[t].id} : journals'[id] = journals[id]

LEMMA WrittenParts ==
    ASSUME Typed, NEW t \in Turns, save.stage = "turns", save.items[t].id # 0,
           NEW journal \in Seq(Batch), NEW committed \in Nat, NEW compacted \in BOOLEAN,
           TurnWritten(t, journal, committed, compacted)
    PROVE  Updated(t, journal, committed, compacted)
<1> DEFINE item == [save.items[t] EXCEPT !.committed = committed, !.compacted = compacted]
<1>1. save.items[t] \in Item /\ save \in SaveType BY TypeParts
<1>2. save.items[t].id \in Ids BY <1>1, ItemFields, MaxSavesAssumption DEF Ids
<1>3. /\ item \in Item /\ item.id = save.items[t].id /\ item.content = save.items[t].content
      /\ item.checkpoints = save.items[t].checkpoints /\ item.terminal = save.items[t].terminal
      /\ item.committed = committed /\ item.compacted = compacted
      BY <1>1 DEF Item
<1>4. save' = [save EXCEPT !.items = [save.items EXCEPT ![t] = item], !.pending = @ \ {t}]
      BY <1>1 DEF TurnWritten, SaveType, Item
<1> HIDE DEF item
<1>5. /\ save' \in SaveType /\ save'.stage = "turns" /\ save'.lastId = save.lastId
      /\ save'.checkpoint = save.checkpoint /\ save'.pending = save.pending \ {t}
      /\ save'.items[t] = item /\ \A u \in Turns \ {t} : save'.items[u] = save.items[u]
      BY <1>1, <1>3, <1>4 DEF SaveType
<1>6. journals' = [journals EXCEPT ![save.items[t].id] = journal] BY DEF TurnWritten
<1>7. /\ journals' \in [Ids -> Seq(Batch)]
      /\ journals'[save.items[t].id] = journal
      /\ \A id \in Ids \ {save.items[t].id} : journals'[id] = journals[id]
      BY <1>2, <1>6 DEF Typed
<1>8. UNCHANGED <<manifest, snapshots, saves>> BY DEF TurnWritten
<1>9. QED BY <1>3, <1>5, <1>7, <1>8 DEF Updated

\* The file of a turn that is written is not the file of another listed turn.
LEMMA OwnJournal ==
    ASSUME IInv, NEW t \in Turns, Writing(t)
    PROVE  /\ save.items[t].id \in Ids
           /\ manifest.items[t].id \in {0, save.items[t].id}
           /\ \A u \in Turns \ {t} : /\ manifest.items[u].id # save.items[t].id
                                     /\ save.items[u].id # save.items[t].id
<1>1. /\ save.stage = "turns" /\ save.items[t].id # 0 /\ manifest.items[t].id \in {0, save.items[t].id}
      BY DEF IInv, Writing, Planned
<1>2. \A u \in Turns : manifest.items[u].id \in 0..MaxSaves /\ save.items[u].id \in 0..MaxSaves
      BY TypeParts, ItemFields DEF IInv
<1>3. \A u \in Turns : save.items[u].id = save.items[t].id => u = t
      BY <1>1 DEF IInv, PlannedIds, Apart
<1>4. \A u \in Turns : manifest.items[u].id = save.items[t].id => u = t
      <2> SUFFICES ASSUME NEW u \in Turns, manifest.items[u].id = save.items[t].id
                   PROVE  u = t
          OBVIOUS
      <2>1. manifest.items[u].id <= manifest.lastId BY DEF IInv, ManifestIds
      <2>2. save.items[t].id = manifest.items[t].id
            BY <1>1, <1>2, <2>1, TypeParts, MaxSavesAssumption DEF IInv, PlannedIds
      <2>3. QED BY <1>1, <2>2 DEF IInv, ManifestIds, Apart
<1>5. QED BY <1>1, <1>2, <1>3, <1>4, MaxSavesAssumption DEF Ids

LEMMA TurnKeeps ==
    ASSUME IInv, NEW t \in Turns, Writing(t),
           NEW journal \in Seq(Batch), NEW committed \in Nat, NEW compacted \in BOOLEAN,
           TurnWritten(t, journal, committed, compacted),
           save.items[t].terminal => compacted \/ save.items[t].checkpoints # <<>>,
           Folds(Last(save.items[t].checkpoints), journal, committed, save.items[t].content),
           Operations \subseteq {"remove"} =>
               Folds(Last(manifest.items[t].checkpoints), journal,
                     manifest.items[t].committed, manifest.items[t].content)
    PROVE  IInv'
<1>1. Typed /\ save.stage = "turns" /\ t \in save.pending BY DEF IInv, Writing
<1>2. /\ save.items[t].id \in Ids
      /\ manifest.items[t].id \in {0, save.items[t].id}
      /\ \A u \in Turns \ {t} : /\ manifest.items[u].id # save.items[t].id
                                /\ save.items[u].id # save.items[t].id
      BY OwnJournal
<1>3. save.items[t].id # 0 BY <1>2, MaxSavesAssumption DEF Ids
<1>4. Updated(t, journal, committed, compacted) BY <1>1, <1>3, WrittenParts
<1>5. \A u \in Turns : manifest.items[u].id \in Ids \cup {0} /\ save.items[u].id \in Ids \cup {0}
      <2>1. \A u \in Turns : manifest.items[u].id \in 0..MaxSaves /\ save.items[u].id \in 0..MaxSaves
            BY <1>1, TypeParts, ItemFields
      <2>2. QED BY <2>1, MaxSavesAssumption DEF Ids
<1>6. Typed' BY <1>1, <1>4 DEF Updated, Typed, SaveType
<1>7. ManifestIds' BY <1>4 DEF IInv, Updated, ManifestIds, Apart, NoneIsUnlisted
<1>8. \A u \in Turns : save'.items[u].id = save.items[u].id BY <1>4 DEF Updated
<1>9. PlannedIds'
      <2>1. NoneIsUnlisted(save'.items)
            BY <1>1, <1>3, <1>4, <1>8 DEF IInv, PlannedIds, NoneIsUnlisted, Updated
      <2>2. Apart(save'.items) BY <1>1, <1>8 DEF IInv, PlannedIds, Apart
      <2>3. QED BY <1>1, <1>4, <1>8, <2>1, <2>2
                DEF IInv, PlannedIds, Updated, NoneIsUnlisted, Apart
<1>10. Planned'
       <2>1. ~RequiresRewrite(save'.items[t]) BY <1>4 DEF Updated, RequiresRewrite
       <2>2. \A u \in Turns : u # t => save'.items[u] = save.items[u] BY <1>4 DEF Updated
       <2>3. /\ save'.pending = save.pending \ {t} /\ save'.checkpoint = save.checkpoint
             /\ manifest' = manifest
             BY <1>4 DEF Updated
       <2>4. \A u \in Turns \ {t} : RequiresRewrite(save'.items[u]) => u \in save'.pending
             BY <1>1, <2>2, <2>3 DEF IInv, Planned
       <2>5. ASSUME NEW u \in Turns, u \in save'.pending
             PROVE  /\ save'.items[u].id # 0
                    /\ manifest.items[u].id \in {0, save'.items[u].id}
                    /\ save'.items[u].compacted = manifest.items[u].compacted
                    /\ \/ save'.items[u].checkpoints = manifest.items[u].checkpoints
                       \/ /\ save'.checkpoint = u
                          /\ save'.items[u].checkpoints =
                                Append(manifest.items[u].checkpoints, save'.items[u].content)
             <3>1. u # t /\ u \in save.pending BY <2>3, <2>5
             <3>2. save'.items[u] = save.items[u] BY <2>2, <3>1
             <3>3. QED BY <1>1, <2>3, <3>1, <3>2 DEF IInv, Planned
       <2>6. QED BY <2>1, <2>3, <2>4, <2>5 DEF Planned
<1>11. Clean' BY <1>4 DEF IInv, Clean, Updated, RequiresRewrite
<1>12. \A u \in Turns \ {t} : manifest.items[u].id # 0 =>
          (JournalFits(manifest.items[u])' <=> JournalFits(manifest.items[u]))
       BY <1>2, <1>4, <1>5 DEF Updated, JournalFits
<1>13. PendingFit' BY <1>1, <1>4, <1>12 DEF IInv, PendingFit, Updated, SaveType
<1>14. WrittenFit'
       <2> SUFFICES ASSUME NEW u \in Turns, u \notin save'.pending
                    PROVE  \/ save'.items[u] \in {manifest.items[u], NoItem}
                           \/ Folds(Last(save'.items[u].checkpoints), journals'[save'.items[u].id],
                                    save'.items[u].committed, save'.items[u].content)
           BY <1>4 DEF WrittenFit, JournalFits, Updated
       <2>1. CASE u = t BY <1>4, <2>1 DEF Updated
       <2>2. CASE u # t /\ save.items[u].id = 0
             BY <1>1, <1>4, <2>2 DEF IInv, PlannedIds, NoneIsUnlisted, Updated
       <2>3. CASE u # t /\ save.items[u].id # 0
             <3>1. save'.items[u] = save.items[u]
                   /\ journals'[save.items[u].id] = journals[save.items[u].id]
                   BY <1>2, <1>4, <1>5, <2>3 DEF Updated
             <3>2. u \notin save.pending BY <1>4, <2>3 DEF Updated
             <3>3. save.items[u] \in {manifest.items[u], NoItem} \/ JournalFits(save.items[u])
                   BY <1>1, <3>2 DEF IInv, WrittenFit
             <3>4. QED BY <3>1, <3>3 DEF JournalFits
       <2>4. QED BY <2>1, <2>2, <2>3
<1>15. FilesApart' BY <1>4 DEF IInv, FilesApart, Updated
<1>16. Committed' BY <1>4 DEF Committed, Updated
<1>17. Untouched'
       <2> SUFFICES ASSUME Operations \subseteq {"remove"}
                    PROVE  /\ \A u \in Turns : Plain(manifest.items[u]) /\ Plain(save'.items[u])
                           /\ save'.checkpoint = NoTurn
                           /\ \A u \in Listed : JournalFits(manifest.items[u])'
           BY <1>4 DEF Untouched, Updated, Plain, Listed
       <2>1. \A u \in Turns : Plain(manifest.items[u]) /\ Plain(save.items[u])
             BY DEF IInv, Untouched
       <2>2. \A u \in Turns : Plain(save'.items[u]) BY <1>4, <2>1 DEF Updated, Plain
       <2>3. save'.checkpoint = NoTurn BY <1>4 DEF IInv, Untouched, Updated
       <2>4. ASSUME NEW u \in Listed PROVE JournalFits(manifest.items[u])'
             <3>1. CASE u = t BY <1>2, <1>4, <2>4, <3>1 DEF Updated, JournalFits, Listed
             <3>2. CASE u # t BY <1>12, <2>4, <3>2 DEF IInv, Untouched, Listed
             <3>3. QED BY <3>1, <3>2
       <2>5. QED BY <2>1, <2>2, <2>3, <2>4
<1>18. QED BY <1>6, <1>7, <1>9, <1>10, <1>11, <1>13, <1>14, <1>15, <1>16, <1>17 DEF IInv

\* Before it is written, a journal folds to what the manifest says, a new one to nothing.
LEMMA PendingFolds ==
    ASSUME IInv, NEW t \in Turns, Writing(t)
    PROVE  /\ Last(manifest.items[t].checkpoints) \in Contents
           /\ journals[save.items[t].id] \in Seq(Batch)
           /\ manifest.items[t].committed \in Nat
           /\ manifest.items[t].content \in Contents /\ save.items[t].content \in Contents
           /\ Folds(Last(manifest.items[t].checkpoints), journals[save.items[t].id],
                    manifest.items[t].committed, manifest.items[t].content)
<1>1. Typed /\ save.stage = "turns" /\ t \in save.pending BY DEF IInv, Writing
<1>2. save.items[t].id \in Ids /\ manifest.items[t].id \in {0, save.items[t].id} BY OwnJournal
<1>3. /\ manifest.items[t].committed \in Nat
      /\ manifest.items[t].content \in Contents /\ save.items[t].content \in Contents
      /\ Last(manifest.items[t].checkpoints) \in Contents
      BY <1>1, TypeParts, ItemFields, LastContent
<1>4. journals[save.items[t].id] \in Seq(Batch) BY <1>1, <1>2 DEF Typed
<1>5. CASE manifest.items[t].id = 0
      <2>1. manifest.items[t] = NoItem BY <1>5 DEF IInv, ManifestIds, NoneIsUnlisted
      <2>2. /\ Last(manifest.items[t].checkpoints) = 0
            /\ manifest.items[t].committed = 0 /\ manifest.items[t].content = 0
            BY <2>1, NoItemFits DEF Last
      <2>3. QED BY <1>3, <1>4, <2>2 DEF Folds
<1>6. CASE manifest.items[t].id = save.items[t].id
      <2>1. manifest.items[t].id # 0 BY <1>2, <1>6, MaxSavesAssumption DEF Ids
      <2>2. JournalFits(manifest.items[t]) BY <1>1, <2>1 DEF IInv, PendingFit
      <2>3. QED BY <1>3, <1>4, <1>6, <2>2 DEF JournalFits
<1>7. QED BY <1>2, <1>5, <1>6

\* What an append leaves in the file: the committed part and the new batch.
LEMMA AppendedFolds ==
    ASSUME IInv, NEW t \in Turns, Writing(t)
    PROVE  LET base == Last(manifest.items[t].checkpoints)
               journal == CommittedJournal(t) \o Diff(t)
           IN  /\ journal \in Seq(Batch)
               /\ Len(Diff(t)) \in Nat
               /\ Len(journal) = manifest.items[t].committed + Len(Diff(t))
               /\ Folds(base, journal, manifest.items[t].committed, manifest.items[t].content)
               /\ Folds(base, journal, manifest.items[t].committed + Len(Diff(t)),
                        save.items[t].content)
<1> DEFINE base == Last(manifest.items[t].checkpoints)
           old == journals[save.items[t].id]
           n == manifest.items[t].committed
           c == manifest.items[t].content
           d == save.items[t].content
           journal == CommittedJournal(t) \o Diff(t)
<1>1. /\ base \in Contents /\ old \in Seq(Batch) /\ n \in Nat /\ c \in Contents /\ d \in Contents
      /\ Folds(base, old, n, c)
      BY PendingFolds
<1>2. /\ journal = SubSeq(old, 1, n) \o Diff(t)
      /\ Diff(t) = IF d = c THEN <<>> ELSE <<[from |-> c, to |-> d]>>
      BY DEF CommittedJournal, Diff
<1> HIDE DEF base, old, n, c, d, journal
<1>3. Diff(t) \in Seq(Batch) /\ Len(Diff(t)) = IF d = c THEN 0 ELSE 1
      <2>1. [from |-> c, to |-> d] \in Batch BY <1>1 DEF Batch
      <2>2. <<[from |-> c, to |-> d]>> \in Seq(Batch) /\ Len(<<[from |-> c, to |-> d]>>) = 1
            BY <2>1
      <2>3. QED BY <1>2, <2>2
<1>4. journal \in Seq(Batch) /\ Folds(base, journal, n, c)
      BY <1>1, <1>2, <1>3, KeptFolds
<1>5. Len(journal) = n + Len(Diff(t))
      <2>1. SubSeq(old, 1, n) \in Seq(Batch) /\ Len(SubSeq(old, 1, n)) = n BY <1>1 DEF Folds
      <2>2. QED BY <1>2, <1>3, <2>1
<1>6. Folds(base, journal, n + Len(Diff(t)), d)
      <2>1. CASE d = c BY <1>1, <1>3, <1>4, <2>1
      <2>2. CASE d # c BY <1>1, <1>2, <1>3, <2>2, MoreFolds
      <2>3. QED BY <2>1, <2>2
<1>7. QED BY <1>3, <1>4, <1>5, <1>6 DEF base, n, c, d, journal

\* A turn to be written that is not the one with the checkpoint has no new snapshot.
LEMMA SameCheckpoints ==
    ASSUME IInv, NEW t \in Turns, Writing(t), save.checkpoint # t
    PROVE  save.items[t].checkpoints = manifest.items[t].checkpoints
BY DEF IInv, Planned, Writing

LEMMA AppendKeeps ==
    ASSUME IInv, NEW t \in Turns, AppendJournal(t)
    PROVE  IInv'
<1> DEFINE base == Last(manifest.items[t].checkpoints)
           journal == CommittedJournal(t) \o Diff(t)
           committed == manifest.items[t].committed + Len(Diff(t))
           compacted == manifest.items[t].compacted
<1>1. /\ Writing(t) /\ save.checkpoint # t /\ ~MustCompact(t)
      /\ TurnWritten(t, journal, committed, compacted)
      BY DEF AppendJournal
<1>2. save.items[t].checkpoints = manifest.items[t].checkpoints BY <1>1, SameCheckpoints
<1>3. /\ journal \in Seq(Batch) /\ committed \in Nat
      /\ Folds(base, journal, manifest.items[t].committed, manifest.items[t].content)
      /\ Folds(base, journal, committed, save.items[t].content)
      BY <1>1, AppendedFolds, PendingFolds
<1>4. manifest.items[t].compacted \in BOOLEAN
      /\ save.items[t].compacted = manifest.items[t].compacted
      BY <1>1, TypeParts, ItemFields DEF IInv, Planned, Writing
<1>5. save.items[t].terminal => compacted \/ save.items[t].checkpoints # <<>>
      BY <1>1, <1>4 DEF MustCompact, RequiresRewrite
<1> HIDE DEF journal, committed
<1>6. QED BY <1>1, <1>2, <1>3, <1>4, <1>5, TurnKeeps

LEMMA CompactKeeps ==
    ASSUME IInv, NEW t \in Turns, CompactJournal(t)
    PROVE  IInv'
<1>1. PICK journal \in Compacted(t) : TurnWritten(t, journal, Len(journal), TRUE)
      BY DEF CompactJournal, Compacting
<1>2. /\ Writing(t) /\ save.checkpoint # t
      /\ save.items[t].terminal /\ save.items[t].checkpoints = <<>>
      BY DEF CompactJournal, Compacting, MustCompact, RequiresRewrite
<1>3. manifest.items[t].checkpoints = <<>> BY <1>2, SameCheckpoints
<1>4. Last(save.items[t].checkpoints) = 0 /\ Last(manifest.items[t].checkpoints) = 0
      BY <1>2, <1>3 DEF Last
<1>5. save.items[t].content \in Contents BY <1>2, PendingFolds
<1>6. /\ journal \in Seq(Batch) /\ Len(journal) \in Nat
      /\ Folds(0, journal, Len(journal), save.items[t].content)
      <2>1. CASE journal = CommittedJournal(t) \o Diff(t)
            BY <1>2, <1>4, <2>1, AppendedFolds
      <2>2. CASE journal = <<[from |-> 0, to |-> save.items[t].content]>>
            BY <1>5, <2>2, NewFolds
      <2>3. CASE journal = <<[from |-> 0, to |-> Partial],
                             [from |-> Partial, to |-> save.items[t].content]>>
            BY <1>5, <2>3, NewFolds
      <2>4. QED BY <2>1, <2>2, <2>3 DEF Compacted
<1>7. ~(Operations \subseteq {"remove"}) BY <1>2 DEF IInv, Untouched, Plain
<1>8. QED BY <1>1, <1>2, <1>4, <1>6, <1>7, TurnKeeps

LEMMA ResetKeeps ==
    ASSUME IInv, NEW t \in Turns, ResetJournal(t)
    PROVE  IInv'
<1>1. /\ Writing(t) /\ save.checkpoint = t
      /\ save.items[t].checkpoints # manifest.items[t].checkpoints
      /\ TurnWritten(t, <<>>, 0, manifest.items[t].compacted)
      BY DEF ResetJournal, Resetting
<1>2. save.items[t].checkpoints = Append(manifest.items[t].checkpoints, save.items[t].content)
      BY <1>1 DEF IInv, Planned, Writing
<1>3. /\ manifest.items[t].checkpoints \in Seq(Contents) /\ save.items[t].content \in Contents
      /\ manifest.items[t].compacted \in BOOLEAN
      BY TypeParts, ItemFields DEF IInv
<1>4. save.items[t].checkpoints # <<>>
      /\ Last(save.items[t].checkpoints) = save.items[t].content
      <2> DEFINE old == manifest.items[t].checkpoints
                 content == save.items[t].content
      <2>1. Append(old, content) # <<>> /\ Last(Append(old, content)) = content
            <3> HIDE DEF old, content
            <3>1. old \in Seq(Contents) /\ content \in Contents BY <1>3 DEF old, content
            <3>2. QED BY <3>1, LastAppended
      <2>2. QED BY <1>2, <2>1
<1>5. <<>> \in Seq(Batch) /\ Folds(Last(save.items[t].checkpoints), <<>>, 0, save.items[t].content)
      BY <1>4 DEF Folds
<1>6. ~(Operations \subseteq {"remove"})
      BY <1>1, NoTurnAssumption DEF IInv, Untouched
<1>7. QED BY <1>1, <1>3, <1>4, <1>5, <1>6, TurnKeeps

-----------------------------------------------------------------------------
(***************************************************************************)
(* A snapshot is written under a revision no manifest has named.           *)
(***************************************************************************)
LEMMA SnapshotKeeps ==
    ASSUME IInv, NEW t \in Turns, WriteSnapshot(t)
    PROVE  IInv'
<1> DEFINE item == save.items[t]
           file == [id |-> item.id, revision |-> NextRevision(t),
                    from |-> Last(item.checkpoints), to |-> item.content]
           longer == [item EXCEPT !.checkpoints = Append(@, item.content)]
<1>1. /\ Writing(t) /\ save.checkpoint = t
      /\ item.checkpoints = manifest.items[t].checkpoints
      /\ snapshots' = {f \in snapshots : ~(f.id = item.id /\ f.revision = NextRevision(t))}
                         \cup {file}
      /\ UNCHANGED <<manifest, journals, saves>>
      BY DEF WriteSnapshot, Snapshotting
<1>2. save \in SaveType /\ item \in Item /\ save.stage = "turns" /\ t \in save.pending
      BY <1>1, TypeParts DEF IInv, Writing
<1>3. item.id \in Ids BY <1>1, OwnJournal
<1>4. /\ item.checkpoints \in Seq(Contents) /\ item.content \in Contents
      /\ Last(item.checkpoints) \in Contents /\ NextRevision(t) \in Nat \ {0}
      BY <1>1, <1>2, ItemFields, LastContent DEF NextRevision
<1>5. file \in SnapshotFile BY <1>3, <1>4 DEF SnapshotFile
<1>6. /\ longer \in Item /\ longer.id = item.id /\ longer.content = item.content
      /\ longer.committed = item.committed
      /\ longer.compacted = item.compacted /\ longer.terminal = item.terminal
      /\ longer.checkpoints = Append(item.checkpoints, item.content)
      /\ longer.checkpoints # <<>>
      BY <1>2, <1>4, LastAppended DEF Item
<1>7. save' = [save EXCEPT !.items = [save.items EXCEPT ![t] = longer]]
      BY <1>2 DEF WriteSnapshot, Snapshotting, SaveType, Item
<1> HIDE DEF longer, file
<1>8. /\ save' \in SaveType /\ save'.stage = "turns" /\ save'.lastId = save.lastId
      /\ save'.pending = save.pending /\ save'.checkpoint = t
      /\ save'.items[t] = longer /\ \A u \in Turns \ {t} : save'.items[u] = save.items[u]
      BY <1>1, <1>2, <1>6, <1>7 DEF SaveType
<1>9. Typed' BY <1>1, <1>5, <1>8 DEF IInv, Typed, SaveType
<1>10. ManifestIds' BY <1>1 DEF IInv, ManifestIds, Apart, NoneIsUnlisted
<1>11. \A u \in Turns : save'.items[u].id = save.items[u].id BY <1>6, <1>8
<1>12. PlannedIds'
       <2>1. NoneIsUnlisted(save'.items)
             BY <1>2, <1>3, <1>8, <1>11, MaxSavesAssumption
             DEF IInv, PlannedIds, NoneIsUnlisted, Ids
       <2>2. Apart(save'.items) BY <1>2, <1>11 DEF IInv, PlannedIds, Apart
       <2>3. QED BY <1>1, <1>2, <1>8, <1>11, <2>1, <2>2
                 DEF IInv, PlannedIds, NoneIsUnlisted, Apart
<1>13. Planned'
       <2> SUFFICES ASSUME NEW u \in Turns
                    PROVE  /\ RequiresRewrite(save'.items[u]) => u \in save.pending
                           /\ u \in save.pending =>
                                 /\ save'.items[u].id # 0
                                 /\ manifest.items[u].id \in {0, save'.items[u].id}
                                 /\ save'.items[u].compacted = manifest.items[u].compacted
                                 /\ \/ save'.items[u].checkpoints = manifest.items[u].checkpoints
                                    \/ /\ save.checkpoint = u
                                       /\ save'.items[u].checkpoints =
                                             Append(manifest.items[u].checkpoints,
                                                    save'.items[u].content)
           BY <1>1, <1>8 DEF Planned, RequiresRewrite
       <2>1. CASE u = t
             <3>1. manifest.items[t].id \in {0, item.id}
                   /\ item.compacted = manifest.items[t].compacted /\ item.id # 0
                   BY <1>2 DEF IInv, Planned
             <3>2. QED BY <1>1, <1>2, <1>6, <1>8, <2>1, <3>1
       <2>2. CASE u # t BY <1>2, <1>8, <2>2 DEF IInv, Planned
       <2>3. QED BY <2>1, <2>2
<1>14. Clean' BY <1>1 DEF IInv, Clean, RequiresRewrite
<1>15. PendingFit' BY <1>1, <1>2, <1>8 DEF IInv, PendingFit, JournalFits
<1>16. WrittenFit' BY <1>1, <1>2, <1>8 DEF IInv, WrittenFit, JournalFits
<1>17. FilesApart'
       <2>1. file.id = item.id /\ file.revision = NextRevision(t) BY DEF file
       <2>2. QED BY <1>1, <2>1 DEF IInv, FilesApart
<1>18. Committed' BY <1>8 DEF Committed
<1>19. Untouched' BY <1>1, NoTurnAssumption DEF IInv, Untouched
<1>20. QED BY <1>9, <1>10, <1>12, <1>13, <1>14, <1>15, <1>16, <1>17, <1>18, <1>19 DEF IInv

(***************************************************************************)
(* The manifest is replaced, the files it does not name are removed.       *)
(***************************************************************************)
LEMMA ManifestKeeps ==
    ASSUME IInv, WriteManifest
    PROVE  IInv'
<1>1. /\ save.stage = "turns" /\ save.pending = {}
      /\ \A t \in Turns : ChainVerified(save.items[t])
      /\ manifest' = [items |-> save.items, lastId |-> save.lastId]
      /\ save' = [save EXCEPT !.stage = "journals"]
      /\ UNCHANGED <<journals, snapshots, saves>>
      BY DEF WriteManifest, Committing
<1>2. save \in SaveType BY TypeParts DEF IInv
<1>3. /\ save' \in SaveType /\ save'.stage = "journals" /\ save'.items = save.items
      /\ save'.lastId = save.lastId /\ save'.checkpoint = save.checkpoint
      /\ manifest'.items = save.items /\ manifest'.lastId = save.lastId
      BY <1>1, <1>2 DEF SaveType
<1>4. Typed' BY <1>1, <1>2, <1>3 DEF IInv, Typed, SaveType
<1>5. ManifestIds' BY <1>1, <1>3 DEF IInv, PlannedIds, ManifestIds, Apart, NoneIsUnlisted
<1>6. PlannedIds'
      <2>1. save.lastId \in Nat BY TypeParts DEF IInv
      <2>2. QED BY <1>1, <1>3, <2>1 DEF IInv, PlannedIds, Apart, NoneIsUnlisted
<1>7. Planned' /\ PendingFit' /\ WrittenFit' BY <1>3 DEF Planned, PendingFit, WrittenFit
<1>8. Clean' BY <1>1, <1>3 DEF IInv, Planned, Clean, RequiresRewrite
<1>9. FilesApart' BY <1>1 DEF IInv, FilesApart
<1>10. Committed' BY <1>1, <1>3 DEF Committed, ChainVerified, SnapshotOf
<1>11. Untouched'
       <2> SUFFICES ASSUME Operations \subseteq {"remove"}
                    PROVE  /\ \A t \in Turns : Plain(save.items[t])
                           /\ save.checkpoint = NoTurn
                           /\ \A t \in Turns : save.items[t].id # 0 => JournalFits(save.items[t])
           BY <1>1, <1>3 DEF Untouched, Plain, Listed, JournalFits
       <2>1. ASSUME NEW t \in Turns, save.items[t].id # 0
             PROVE  JournalFits(save.items[t])
             <3>1. save.items[t] # NoItem BY <2>1, NoItemFits
             <3>2. CASE save.items[t] = manifest.items[t]
                   BY <2>1, <3>2 DEF IInv, Untouched, Listed
             <3>3. CASE save.items[t] # manifest.items[t]
                   BY <1>1, <3>1, <3>3 DEF IInv, WrittenFit
             <3>4. QED BY <3>2, <3>3
       <2>2. QED BY <2>1 DEF IInv, Untouched
<1>12. QED BY <1>4, <1>5, <1>6, <1>7, <1>8, <1>9, <1>10, <1>11 DEF IInv

LEMMA PruneJournalsKeeps ==
    ASSUME IInv, PruneJournals
    PROVE  IInv'
<1>1. /\ save.stage = "journals"
      /\ journals' = [id \in Ids |-> IF \E t \in Turns : save.items[t].id = id
                                     THEN journals[id] ELSE <<>>]
      /\ save' = [save EXCEPT !.stage = "snapshots"]
      /\ UNCHANGED <<manifest, snapshots, saves>>
      BY DEF PruneJournals, PrunesAt
<1>2. save \in SaveType BY TypeParts DEF IInv
<1>3. /\ save' \in SaveType /\ save'.stage = "snapshots" /\ save'.items = save.items
      /\ save'.lastId = save.lastId /\ save'.checkpoint = save.checkpoint
      BY <1>1, <1>2 DEF SaveType
<1>4. journals' \in [Ids -> Seq(Batch)]
      <2>1. \A id \in Ids : journals[id] \in Seq(Batch) /\ <<>> \in Seq(Batch)
            BY DEF IInv, Typed
      <2>2. QED BY <1>1, <2>1
<1>5. Typed' BY <1>1, <1>3, <1>4 DEF IInv, Typed, SaveType
<1>6. ManifestIds' BY <1>1 DEF IInv, ManifestIds, Apart, NoneIsUnlisted
<1>7. PlannedIds' BY <1>1, <1>3 DEF IInv, PlannedIds, Apart, NoneIsUnlisted
<1>8. Planned' /\ PendingFit' /\ WrittenFit' BY <1>3 DEF Planned, PendingFit, WrittenFit
<1>9. Clean' BY <1>1 DEF IInv, Clean, RequiresRewrite
<1>10. FilesApart' BY <1>1 DEF IInv, FilesApart
<1>11. manifest.items = save.items BY <1>1 DEF IInv, Committed
<1>12. Committed'
       <2>1. \A id \in Ids : journals'[id] # <<>> => \E t \in Turns : save.items[t].id = id
             BY <1>1
       <2>2. QED BY <1>1, <1>3, <2>1 DEF IInv, Committed, ChainVerified, SnapshotOf
<1>13. Untouched'
       <2> SUFFICES ASSUME Operations \subseteq {"remove"}, NEW t \in Turns,
                           manifest.items[t].id # 0
                    PROVE  JournalFits(manifest.items[t])'
           BY <1>1, <1>3 DEF IInv, Untouched, Plain, Listed
       <2>1. manifest.items[t].id \in Ids
             BY TypeParts, ItemFields, MaxSavesAssumption DEF IInv, Ids
       <2>2. journals'[manifest.items[t].id] = journals[manifest.items[t].id]
             BY <1>1, <1>11, <2>1
       <2>3. JournalFits(manifest.items[t]) BY DEF IInv, Untouched, Listed
       <2>4. QED BY <1>1, <2>2, <2>3 DEF JournalFits
<1>14. QED BY <1>5, <1>6, <1>7, <1>8, <1>9, <1>10, <1>12, <1>13 DEF IInv

LEMMA PruneSnapshotsKeeps ==
    ASSUME IInv, PruneSnapshots
    PROVE  IInv'
<1>1. /\ save.stage = "snapshots"
      /\ snapshots' = {file \in snapshots : Referenced(file)}
      /\ save' = [save EXCEPT !.stage = "written"]
      /\ UNCHANGED <<manifest, journals, saves>>
      BY DEF PruneSnapshots
<1>2. save \in SaveType BY TypeParts DEF IInv
<1>3. /\ save' \in SaveType /\ save'.stage = "written" /\ save'.items = save.items
      /\ save'.lastId = save.lastId /\ save'.checkpoint = save.checkpoint
      BY <1>1, <1>2 DEF SaveType
<1>4. Typed' BY <1>1, <1>3 DEF IInv, Typed, SaveType
<1>5. ManifestIds' BY <1>1 DEF IInv, ManifestIds, Apart, NoneIsUnlisted
<1>6. PlannedIds' BY <1>1, <1>3 DEF IInv, PlannedIds, Apart, NoneIsUnlisted
<1>7. Planned' /\ PendingFit' /\ WrittenFit' BY <1>3 DEF Planned, PendingFit, WrittenFit
<1>8. Clean' BY <1>1 DEF IInv, Clean, RequiresRewrite
<1>9. FilesApart' BY <1>1 DEF IInv, FilesApart
<1>10. Committed'
       <2>1. manifest.items = save.items /\ manifest.lastId = save.lastId
             BY <1>1 DEF IInv, Committed
       <2>2. ASSUME NEW t \in Turns
             PROVE  ChainVerified(manifest.items[t])'
             <3> SUFFICES ASSUME NEW r \in DOMAIN manifest.items[t].checkpoints
                          PROVE  SnapshotOf(manifest.items[t], r) \in snapshots'
                 BY <1>1 DEF ChainVerified, SnapshotOf
             <3>1. SnapshotOf(manifest.items[t], r) \in snapshots
                   BY <1>1 DEF IInv, Committed, ChainVerified
             <3>2. Referenced(SnapshotOf(manifest.items[t], r))
                   BY <2>1 DEF Referenced, SnapshotOf
             <3>3. QED BY <1>1, <3>1, <3>2
       <2>3. \A f \in snapshots' : Referenced(f)' BY <1>1, <1>3 DEF Referenced
       <2>4. \A id \in Ids : journals[id] # <<>> => \E t \in Turns : save.items[t].id = id
             BY <1>1 DEF IInv, Committed
       <2>5. QED BY <1>1, <1>3, <2>1, <2>2, <2>3, <2>4 DEF Committed
<1>11. Untouched' BY <1>1, <1>3 DEF IInv, Untouched, Plain, Listed, JournalFits
<1>12. QED BY <1>4, <1>5, <1>6, <1>7, <1>8, <1>9, <1>10, <1>11 DEF IInv

(***************************************************************************)
(* A save ends, or is cut short.                                           *)
(***************************************************************************)
LEMMA EndKeeps ==
    ASSUME IInv, save' = Idle, UNCHANGED <<manifest, snapshots, saves>>,
           journals' \in [Ids -> Seq(Batch)],
           Operations \subseteq {"remove"} =>
               \A t \in Listed : JournalFits(manifest.items[t])'
    PROVE  IInv'
<1>1. /\ save' \in SaveType /\ save'.stage = "idle" /\ save'.checkpoint = NoTurn
      /\ \A t \in Turns : save'.items[t] = NoItem
      BY IdleFits DEF Idle
<1>2. Typed' BY <1>1 DEF IInv, Typed, SaveType
<1>3. ManifestIds' BY DEF IInv, ManifestIds, Apart, NoneIsUnlisted
<1>4. PlannedIds' /\ Planned' /\ PendingFit' /\ WrittenFit' /\ Committed'
      BY <1>1 DEF PlannedIds, Planned, PendingFit, WrittenFit, Committed
<1>5. Clean' /\ FilesApart' BY DEF IInv, Clean, RequiresRewrite, FilesApart
<1>6. Untouched'
      <2>1. \A t \in Turns : Plain(save'.items[t]) BY <1>1, NoItemFits DEF Plain
      <2>2. QED BY <1>1, <2>1 DEF IInv, Untouched, Plain, Listed
<1>7. QED BY <1>2, <1>3, <1>4, <1>5, <1>6 DEF IInv

\* A torn append damages nothing that the manifest needs.
LEMMA TornParts ==
    ASSUME IInv, NEW t \in Turns, TornAppend(t)
    PROVE  /\ Writing(t) /\ save' = Idle /\ UNCHANGED <<manifest, snapshots, saves>>
           /\ journals' \in [Ids -> Seq(Batch)]
           /\ Folds(Last(manifest.items[t].checkpoints), journals'[save.items[t].id],
                    manifest.items[t].committed, manifest.items[t].content)
           /\ \A id \in Ids \ {save.items[t].id} : journals'[id] = journals[id]
<1> DEFINE tail == [from |-> manifest.items[t].content, to |-> Partial]
           journal == CommittedJournal(t) \o <<tail>>
<1>1. /\ Writing(t) /\ save.checkpoint # t
      /\ journals' = [journals EXCEPT ![save.items[t].id] = Append(CommittedJournal(t), tail)]
      /\ save' = Idle /\ UNCHANGED <<manifest, snapshots, saves>>
      BY DEF TornAppend
<1>2. /\ Last(manifest.items[t].checkpoints) \in Contents
      /\ journals[save.items[t].id] \in Seq(Batch)
      /\ manifest.items[t].committed \in Nat /\ manifest.items[t].content \in Contents
      /\ Folds(Last(manifest.items[t].checkpoints), journals[save.items[t].id],
               manifest.items[t].committed, manifest.items[t].content)
      BY <1>1, PendingFolds
<1>3. save.items[t].id \in Ids BY <1>1, OwnJournal
<1>4. <<tail>> \in Seq(Batch)
      <2>1. tail \in Batch BY <1>2 DEF Batch
      <2>2. QED BY <2>1
<1> HIDE DEF tail
<1>5. CommittedJournal(t) \in Seq(Batch) BY <1>2 DEF CommittedJournal, Folds
<1>6. Append(CommittedJournal(t), tail) = journal BY <1>4, <1>5
<1>7. /\ journal \in Seq(Batch)
      /\ Folds(Last(manifest.items[t].checkpoints), journal,
               manifest.items[t].committed, manifest.items[t].content)
      BY <1>2, <1>4, KeptFolds DEF CommittedJournal
<1> HIDE DEF journal
<1>8. /\ journals' \in [Ids -> Seq(Batch)] /\ journals'[save.items[t].id] = journal
      /\ \A id \in Ids \ {save.items[t].id} : journals'[id] = journals[id]
      BY <1>1, <1>3, <1>6, <1>7 DEF IInv, Typed
<1>9. QED BY <1>1, <1>7, <1>8

(***************************************************************************)
(* The journal of a turn that is neither compacted nor reset by the step   *)
(* goes on fitting what the manifest says of it.                           *)
(***************************************************************************)
LEMMA FileStays ==
    ASSUME IInv, NEW t \in Turns, NEW u \in Turns, manifest.items[t].id # 0,
           JournalFits(manifest.items[t]), manifest' = manifest, Writing(u),
           \A id \in Ids \ {save.items[u].id} : journals'[id] = journals[id],
           u = t => Folds(Last(manifest.items[t].checkpoints), journals'[save.items[t].id],
                          manifest.items[t].committed, manifest.items[t].content)
    PROVE  JournalFits(manifest.items[t])'
<1>1. manifest.items[t].id \in Ids
      BY TypeParts, ItemFields, MaxSavesAssumption DEF IInv, Ids
<1>2. CASE u = t
      <2>1. manifest.items[t].id = save.items[t].id BY <1>2, OwnJournal
      <2>2. QED BY <1>2, <2>1 DEF JournalFits
<1>3. CASE u # t
      <2>1. manifest.items[t].id # save.items[u].id BY <1>3, OwnJournal
      <2>2. QED BY <1>1, <2>1 DEF JournalFits
<1>4. QED BY <1>2, <1>3

LEMMA TornKeeps ==
    ASSUME IInv, NEW t \in Turns, TornAppend(t)
    PROVE  IInv'
<1>1. ASSUME Operations \subseteq {"remove"}, NEW u \in Listed
      PROVE  JournalFits(manifest.items[u])'
      <2>1. u \in Turns /\ manifest.items[u].id # 0 /\ JournalFits(manifest.items[u])
            BY <1>1 DEF IInv, Untouched, Listed
      <2>2. QED BY <2>1, TornParts, FileStays
<1>2. QED BY <1>1, TornParts, EndKeeps

LEMMA CutShortKeeps ==
    ASSUME IInv, EndSave \/ Abort \/ CutReplacement
    PROVE  IInv'
<1>1. save' = Idle /\ UNCHANGED <<manifest, journals, snapshots, saves>>
      BY DEF EndSave, Abort, CutReplacement
<1>2. journals' \in [Ids -> Seq(Batch)] BY <1>1 DEF IInv, Typed
<1>3. ASSUME Operations \subseteq {"remove"}, NEW t \in Listed
      PROVE  JournalFits(manifest.items[t])'
      BY <1>1, <1>3 DEF IInv, Untouched, JournalFits
<1>4. QED BY <1>1, <1>2, <1>3, EndKeeps

-----------------------------------------------------------------------------
LEMMA InitInv == Init => IInv
<1> SUFFICES ASSUME Init PROVE IInv
    OBVIOUS
<1>1. /\ manifest.lastId = 0 /\ manifest.items = [t \in Turns |-> NoItem]
      /\ \A t \in Turns : manifest.items[t] = NoItem
      /\ save = Idle /\ save.stage = "idle" /\ save.checkpoint = NoTurn
      /\ \A t \in Turns : save.items[t] = NoItem
      /\ snapshots = {} /\ saves = 0 /\ journals = [id \in Ids |-> <<>>]
      BY DEF Init, Idle
<1>2. Typed
      <2>1. manifest \in [items : [Turns -> Item], lastId : 0..MaxSaves]
            BY NoItemFits, MaxSavesAssumption DEF Init
      <2>2. journals \in [Ids -> Seq(Batch)] BY <1>1
      <2>3. QED BY <1>1, <2>1, <2>2, IdleFits, MaxSavesAssumption DEF Typed, SaveType
<1>3. ManifestIds BY <1>1, NoItemFits DEF ManifestIds, Apart, NoneIsUnlisted
<1>4. PlannedIds /\ Planned /\ PendingFit /\ WrittenFit /\ Committed
      BY <1>1 DEF PlannedIds, Planned, PendingFit, WrittenFit, Committed
<1>5. Clean /\ FilesApart BY <1>1, NoItemFits DEF Clean, FilesApart
<1>6. Untouched BY <1>1, NoItemFits DEF Untouched, Plain, Listed
<1>7. QED BY <1>2, <1>3, <1>4, <1>5, <1>6 DEF IInv

LEMMA NextInv ==
    ASSUME IInv, [Next]_vars
    PROVE  IInv'
<1>1. CASE Begin BY <1>1, BeginKeeps
<1>2. ASSUME NEW t \in Turns, WriteTurn(t) PROVE IInv'
      BY <1>2, AppendKeeps, CompactKeeps, SnapshotKeeps, ResetKeeps DEF WriteTurn
<1>3. ASSUME NEW t \in Turns, TornAppend(t) PROVE IInv' BY <1>3, TornKeeps
<1>4. CASE WriteManifest BY <1>4, ManifestKeeps
<1>5. CASE PruneJournals BY <1>5, PruneJournalsKeeps
<1>6. CASE PruneSnapshots BY <1>6, PruneSnapshotsKeeps
<1>7. CASE EndSave \/ Abort \/ CutReplacement BY <1>7, CutShortKeeps
<1>8. CASE UNCHANGED vars
      <2>1. UNCHANGED <<manifest, journals, snapshots, save, saves>> BY <1>8 DEF vars
      <2>2. Typed' /\ ManifestIds' /\ PlannedIds'
            BY <2>1 DEF IInv, Typed, ManifestIds, PlannedIds, Apart, NoneIsUnlisted
      <2>3. Planned' /\ Clean' BY <2>1 DEF IInv, Planned, Clean, RequiresRewrite
      <2>4. PendingFit' /\ WrittenFit' BY <2>1 DEF IInv, PendingFit, WrittenFit, JournalFits
      <2>5. FilesApart' BY <2>1 DEF IInv, FilesApart
      <2>6. Committed'
            BY <2>1 DEF IInv, Committed, ChainVerified, SnapshotOf, Referenced, Listed
      <2>7. Untouched' BY <2>1 DEF IInv, Untouched, Plain, JournalFits, Listed
      <2>8. QED BY <2>2, <2>3, <2>4, <2>5, <2>6, <2>7 DEF IInv
<1>9. QED BY <1>1, <1>2, <1>3, <1>4, <1>5, <1>6, <1>7, <1>8 DEF Next

LEMMA Invariance == Spec => []IInv
<1>1. IInv /\ [Next]_vars => IInv' BY NextInv
<1>2. QED BY <1>1, InitInv, PTL DEF Spec

-----------------------------------------------------------------------------
(***************************************************************************)
(* The temporary files.  A save that left one has ended, and what it would *)
(* have committed is in no manifest and in no plan: contents are numbered  *)
(* by the saves, and only the last save's own number can be new.           *)
(***************************************************************************)
TempsFit ==
    /\ temps \subseteq Ids
    /\ save.stage = "turns" => saves \in Ids
    /\ \A n \in temps : n <= saves /\ (save.stage # "idle" => n < saves)
    /\ \A t \in Turns :
          /\ manifest.items[t].content <= saves
          /\ save.stage = "turns" => /\ manifest.items[t].content < saves
                                     /\ save.items[t].content <= saves
    /\ \A n \in temps, t \in Turns :
          manifest.items[t].content # n /\ save.items[t].content # n

\* What the steps of a save leave of the contents it planned.
SameContents ==
    /\ UNCHANGED <<temps, saves>>
    /\ \A t \in Turns : save'.items[t].content = save.items[t].content

LEMMA PlannedContents ==
    ASSUME Typed, Begin
    PROVE  /\ save.stage = "idle" /\ save'.stage = "turns"
           /\ saves < MaxSaves /\ saves' = saves + 1 /\ UNCHANGED <<manifest, temps>>
           /\ \A t \in Turns :
                 save'.items[t].content \in {0, manifest.items[t].content, saves + 1}
<1>1. PICK view, gone, new, changed, settled \in SUBSET Turns, checkpoint \in Turns \cup {NoTurn} :
         Begins(view, gone, new, changed, settled, checkpoint)
      BY BeginParts
<1>2. /\ save.stage = "idle" /\ save'.stage = "turns"
      /\ saves < MaxSaves /\ saves' = saves + 1 /\ UNCHANGED <<manifest, temps>>
      /\ save'.items = Plan(gone, new, changed, settled)
      BY <1>1 DEF Begins, BeginSave
<1>3. ASSUME NEW t \in Turns
      PROVE  save'.items[t].content \in {0, manifest.items[t].content, saves + 1}
      <2>1. manifest.items[t] \in Item /\ NoItem \in Item BY TypeParts, NoItemFits
      <2>2. save'.items[t] =
               IF t \in gone THEN NoItem
               ELSE IF t \in new THEN [NoItem EXCEPT !.id = NextId(new), !.content = saves + 1]
               ELSE [manifest.items[t] EXCEPT !.content = IF t \in changed THEN saves + 1 ELSE @,
                                              !.terminal = @ \/ t \in settled]
            BY <1>2 DEF Plan
      <2>3. QED BY <2>1, <2>2, NoItemFits DEF Item
<1>4. QED BY <1>2, <1>3

LEMMA WritingKeepsContents ==
    ASSUME Typed, NEW t \in Turns, WriteTurn(t)
    PROVE  /\ SameContents /\ manifest' = manifest
           /\ save.stage = "turns" /\ save'.stage = "turns"
<1>1. save \in SaveType /\ \A u \in Turns : save.items[u] \in Item BY TypeParts
<1>2. ASSUME NEW journal, NEW committed, NEW compacted,
             TurnWritten(t, journal, committed, compacted)
      PROVE  /\ UNCHANGED <<manifest, temps, saves>> /\ save'.stage = save.stage
             /\ \A u \in Turns : save'.items[u].content = save.items[u].content
      BY <1>1, <1>2 DEF TurnWritten, SaveType, Item
<1>3. CASE WriteSnapshot(t)
      BY <1>1, <1>3 DEF WriteSnapshot, Snapshotting, Writing, SameContents, SaveType, Item
<1>4. CASE AppendJournal(t) BY <1>2, <1>4 DEF AppendJournal, Writing, SameContents
<1>5. CASE CompactJournal(t)
      BY <1>2, <1>5 DEF CompactJournal, Compacting, Writing, SameContents
<1>6. CASE ResetJournal(t) BY <1>2, <1>6 DEF ResetJournal, Resetting, Writing, SameContents
<1>7. QED BY <1>3, <1>4, <1>5, <1>6 DEF WriteTurn

LEMMA TempsNext ==
    ASSUME IInv, TempsFit, [Next]_vars
    PROVE  TempsFit'
<1>1. /\ saves \in Nat /\ MaxSaves \in Nat
      /\ \A t \in Turns : manifest.items[t].content \in Nat /\ save.items[t].content \in Nat
      BY TypeParts, ItemFields, MaxSavesAssumption DEF IInv, Contents
<1>2. \A n \in Ids : n \in Nat /\ n # 0 BY MaxSavesAssumption DEF Ids
<1>3. ASSUME save' = Idle, UNCHANGED <<manifest, saves>>, temps' \subseteq temps \cup {saves},
             temps' # temps => save.stage = "turns"
      PROVE  TempsFit'
      <2>1. save'.stage = "idle" /\ \A t \in Turns : save'.items[t].content = 0
            BY <1>3, NoItemFits DEF Idle
      <2>2. \A n \in temps' : /\ n \in Ids /\ n <= saves
                              /\ \A t \in Turns : manifest.items[t].content # n
            BY <1>1, <1>3 DEF TempsFit
      <2>3. QED BY <1>1, <1>2, <1>3, <2>1, <2>2 DEF TempsFit
<1>4. CASE Begin
      <2>1. saves + 1 \in Ids BY <1>1, <1>4, PlannedContents DEF IInv, Ids
      <2>2. \A n \in temps : n \in Ids /\ n < saves + 1 BY <1>1, <1>2 DEF TempsFit
      <2>3. QED BY <1>1, <1>2, <1>4, <2>1, <2>2, PlannedContents DEF IInv, TempsFit
<1>5. ASSUME NEW t \in Turns, WriteTurn(t) PROVE TempsFit'
      BY <1>5, WritingKeepsContents DEF IInv, TempsFit, SameContents
<1>6. CASE WriteManifest
      <2>1. /\ save.stage = "turns" /\ manifest'.items = save.items /\ UNCHANGED <<temps, saves>>
            /\ save'.stage = "journals" /\ save'.items = save.items
            BY <1>6, TypeParts DEF WriteManifest, Committing, IInv, SaveType
      <2>2. QED BY <2>1 DEF TempsFit
<1>7. CASE PruneJournals \/ PruneSnapshots
      <2>1. /\ save.stage # "idle" /\ save'.stage \notin {"idle", "turns"}
            /\ save'.items = save.items /\ UNCHANGED <<manifest, temps, saves>>
            BY <1>7, TypeParts DEF PruneJournals, PrunesAt, PruneSnapshots, IInv, SaveType
      <2>2. QED BY <2>1 DEF TempsFit
<1>8. CASE EndSave \/ Abort \/ \E t \in Turns : TornAppend(t)
      BY <1>3, <1>8 DEF EndSave, Abort, TornAppend
<1>9. CASE CutReplacement
      BY <1>3, <1>9 DEF CutReplacement, Compacting, Snapshotting, Resetting, Committing, Writing
<1>10. CASE UNCHANGED vars BY <1>10 DEF vars, TempsFit
<1>11. QED BY <1>4, <1>5, <1>6, <1>7, <1>8, <1>9, <1>10 DEF Next

LEMMA TempsInvariance == Spec => []TempsFit
<1>1. Init => TempsFit
      <2> SUFFICES ASSUME Init PROVE TempsFit
          OBVIOUS
      <2>1. /\ temps = {} /\ save.stage = "idle" /\ saves = 0
            /\ \A t \in Turns : manifest.items[t].content = 0
            BY NoItemFits DEF Init, Idle
      <2>2. QED BY <2>1 DEF TempsFit
<1>2. IInv /\ TempsFit /\ [Next]_vars => TempsFit' BY TempsNext
<1>3. QED BY <1>1, <1>2, Invariance, PTL DEF Spec

-----------------------------------------------------------------------------
(***************************************************************************)
(* The state invariants.                                                   *)
(***************************************************************************)

(***************************************************************************)
(* The manifest has its type, and no turn it lists waits for a rewrite:    *)
(* saving a view of a session is never refused for a turn outside of it.   *)
(***************************************************************************)
THEOREM ManifestIsSound == Spec => []ManifestOK
<1>1. IInv /\ TempsFit => ManifestOK
      BY DEF IInv, Clean, ManifestOK, Listed, Typed, TempsFit, TypeOK
<1>2. QED BY <1>1, Invariance, TempsInvariance, PTL

(***************************************************************************)
(* A save that has pruned leaves no journal and no snapshot that the       *)
(* manifest does not name, whatever the saves before it left behind.  The  *)
(* temporary files that stay are of earlier saves that committed nothing.  *)
(***************************************************************************)
THEOREM NothingIsOrphaned == Spec => []NoOrphans
<1>1. ASSUME IInv, TempsFit PROVE NoOrphans
      <2> SUFFICES ASSUME save.stage = "written" PROVE NoOrphans
          BY DEF NoOrphans
      <2>1. /\ manifest.items = save.items
            /\ \A t \in Turns : ChainVerified(manifest.items[t])
            /\ \A id \in Ids : journals[id] # <<>> => \E t \in Turns : save.items[t].id = id
            /\ \A f \in snapshots : Referenced(f)
            BY <1>1 DEF IInv, Committed
      <2>2. \A id \in Ids : id # 0 BY MaxSavesAssumption DEF Ids
      <2>3. \A id \in Ids : journals[id] # <<>> => \E t \in Listed : manifest.items[t].id = id
            BY <2>1, <2>2 DEF Listed
      <2>4. ASSUME NEW f \in snapshots
            PROVE  \E t \in Listed : f.id = manifest.items[t].id
                                     /\ f = SnapshotOf(manifest.items[t], f.revision)
            <3>1. PICK t \in Turns : /\ manifest.items[t].id = f.id
                                     /\ f.revision \in DOMAIN manifest.items[t].checkpoints
                  BY <2>1 DEF Referenced
            <3>2. f.id \in Ids BY <1>1 DEF IInv, Typed, SnapshotFile
            <3>3. t \in Listed BY <2>2, <3>1, <3>2 DEF Listed
            <3>4. SnapshotOf(manifest.items[t], f.revision) \in snapshots
                  BY <2>1, <3>1 DEF ChainVerified
            <3>5. /\ SnapshotOf(manifest.items[t], f.revision).id = f.id
                  /\ SnapshotOf(manifest.items[t], f.revision).revision = f.revision
                  BY <3>1 DEF SnapshotOf
            <3>6. f = SnapshotOf(manifest.items[t], f.revision)
                  BY <1>1, <3>4, <3>5 DEF IInv, FilesApart
            <3>7. QED BY <3>1, <3>3, <3>6
      <2>5. \A n \in temps : n < saves /\ \A t \in Listed : manifest.items[t].content # n
            BY <1>1 DEF TempsFit, Listed
      <2>6. QED BY <2>3, <2>4, <2>5 DEF NoOrphans
<1>2. QED BY <1>1, Invariance, TempsInvariance, PTL

(***************************************************************************)
(* The action properties.  Only the replacement of the manifest changes    *)
(* it.                                                                     *)
(***************************************************************************)
LEMMA OnlyOneWrites ==
    ASSUME [Next]_vars, ~WriteManifest
    PROVE  manifest' = manifest
<1>1. ASSUME NEW view, NEW gone, NEW new, NEW changed, NEW settled, NEW checkpoint,
             BeginSave(view, gone, new, changed, settled, checkpoint)
      PROVE  manifest' = manifest
      BY <1>1 DEF BeginSave
<1>2. ASSUME Begin PROVE manifest' = manifest
      BY <1>1, <1>2 DEF Begin, SaveLifecycle, SaveAppended, SaveSettled, SaveCheckpoint, SaveRemoved
<1>3. ASSUME NEW t \in Turns, WriteTurn(t) \/ TornAppend(t) PROVE manifest' = manifest
      BY <1>3 DEF WriteTurn, AppendJournal, CompactJournal, Compacting, WriteSnapshot,
                  Snapshotting, ResetJournal, Resetting,
                  TurnWritten, TornAppend
<1>4. ASSUME PruneJournals \/ PruneSnapshots \/ EndSave \/ Abort \/ CutReplacement
      PROVE  manifest' = manifest
      BY <1>4 DEF PruneJournals, PruneSnapshots, EndSave, Abort, CutReplacement
<1>5. QED BY <1>2, <1>3, <1>4 DEF Next, vars

(***************************************************************************)
(* Every id the manifest gives to a turn is new, and given to no other     *)
(* turn.                                                                   *)
(***************************************************************************)
THEOREM IdsAreNew == Spec => JournalIdentity
<1> DEFINE Given == /\ manifest'.lastId >= manifest.lastId
                    /\ \A t \in Turns :
                         LET id == manifest'.items[t].id
                         IN  id \notin {0, manifest.items[t].id} =>
                               /\ id \in (manifest.lastId + 1)..manifest'.lastId
                               /\ \A u \in Turns \ {t} : manifest'.items[u].id # id
<1>1. IInv /\ [Next]_vars => Given
      <2> SUFFICES ASSUME IInv, [Next]_vars PROVE Given
          OBVIOUS
      <2>1. manifest.lastId \in Nat /\ save.lastId \in Nat
            /\ \A t \in Turns : save.items[t].id \in Nat
            BY TypeParts, ItemFields DEF IInv
      <2>2. CASE WriteManifest
            <3>1. /\ save.stage = "turns"
                  /\ manifest'.items = save.items /\ manifest'.lastId = save.lastId
                  BY <2>2 DEF WriteManifest, Committing
            <3>2. QED BY <2>1, <3>1 DEF IInv, PlannedIds, Apart
      <2>3. CASE ~WriteManifest
            <3>1. manifest' = manifest BY <2>3, OnlyOneWrites
            <3>2. QED BY <2>1, <3>1
      <2>4. QED BY <2>2, <2>3
<1>2. QED BY <1>1, Invariance, PTL DEF Spec, JournalIdentity

(***************************************************************************)
(* What a turn reads.  Where its files are as they were, it reads as       *)
(* before.                                                                 *)
(***************************************************************************)
ReadsWell(t) == ChainVerified(manifest.items[t]) /\ JournalFits(manifest.items[t])

LEMMA ReadsIf ==
    ASSUME Typed, NEW t \in Listed
    PROVE  Reads(t) <=> ReadsWell(t)
<1>1. t \in Turns /\ manifest.items[t] \in Item /\ manifest.items[t].id # 0
      BY TypeParts DEF Listed
<1>2. Reads(t) <=> Materialize(manifest.items[t]) = manifest.items[t].content
      BY <1>1 DEF Reads, Materialized
<1>3. QED BY <1>1, <1>2, MaterializeFits DEF ReadsWell

LEMMA ReadsIfNext == (Typed => \A t \in Listed : Reads(t) <=> ReadsWell(t))'
<1>1. Typed => \A t \in Listed : Reads(t) <=> ReadsWell(t) BY ReadsIf
<1>2. QED BY <1>1, PTL

(***************************************************************************)
(* The snapshots that make up a listed turn stay as they are.              *)
(***************************************************************************)
LEMMA ChainStays ==
    ASSUME IInv, [Next]_vars, NEW t \in Turns, manifest.items[t].id # 0,
           ChainVerified(manifest.items[t]), manifest'.items[t].id = manifest.items[t].id
    PROVE  ChainVerified(manifest.items[t])'
<1>1. ASSUME WriteManifest PROVE ChainVerified(manifest.items[t])'
      <2>1. ChainVerified(save.items[t]) /\ manifest'.items = save.items /\ snapshots' = snapshots
            BY <1>1 DEF WriteManifest, Committing
      <2>2. QED BY <2>1 DEF ChainVerified, SnapshotOf
<1>2. ASSUME NEW u \in Turns, WriteSnapshot(u) PROVE ChainVerified(manifest.items[t])'
      <2>1. /\ Writing(u) /\ manifest' = manifest
            /\ \A f \in snapshots :
                  ~(f.id = save.items[u].id /\ f.revision = NextRevision(u)) => f \in snapshots'
            BY <1>2 DEF WriteSnapshot, Snapshotting
      <2>2. ASSUME NEW r \in DOMAIN manifest.items[t].checkpoints
            PROVE  SnapshotOf(manifest.items[t], r) \in snapshots'
            <3>1. /\ SnapshotOf(manifest.items[t], r).id = manifest.items[t].id
                  /\ SnapshotOf(manifest.items[t], r).revision = r
                  BY DEF SnapshotOf
            <3>2. SnapshotOf(manifest.items[t], r) \in snapshots BY DEF ChainVerified
            <3>3. CASE u # t
                  <4>1. manifest.items[t].id # save.items[u].id BY <2>1, <3>3, OwnJournal
                  <4>2. QED BY <2>1, <3>1, <3>2, <4>1
            <3>4. CASE u = t
                  <4>1. manifest.items[t].checkpoints \in Seq(Contents)
                        BY TypeParts, ItemFields DEF IInv
                  <4>2. r # NextRevision(u) BY <3>4, <4>1 DEF NextRevision
                  <4>3. QED BY <2>1, <3>1, <3>2, <4>2
            <3>5. QED BY <3>3, <3>4
      <2>3. QED BY <2>1, <2>2 DEF ChainVerified, SnapshotOf
<1>3. ASSUME PruneSnapshots PROVE ChainVerified(manifest.items[t])'
      <2>1. manifest.items = save.items /\ manifest' = manifest
            BY <1>3 DEF PruneSnapshots, IInv, Committed
      <2>2. ASSUME NEW r \in DOMAIN manifest.items[t].checkpoints
            PROVE  SnapshotOf(manifest.items[t], r) \in snapshots'
            <3>1. SnapshotOf(manifest.items[t], r) \in snapshots BY DEF ChainVerified
            <3>2. Referenced(SnapshotOf(manifest.items[t], r))
                  BY <2>1 DEF Referenced, SnapshotOf
            <3>3. QED BY <1>3, <3>1, <3>2 DEF PruneSnapshots
      <2>3. QED BY <2>1, <2>2 DEF ChainVerified, SnapshotOf
<1>4. ASSUME manifest' = manifest, snapshots' = snapshots PROVE ChainVerified(manifest.items[t])'
      BY <1>4 DEF ChainVerified, SnapshotOf
<1>5. ASSUME NEW view, NEW gone, NEW new, NEW changed, NEW settled, NEW checkpoint,
             BeginSave(view, gone, new, changed, settled, checkpoint)
      PROVE  snapshots' = snapshots
      BY <1>5 DEF BeginSave
<1>6. ASSUME Begin PROVE snapshots' = snapshots
      BY <1>5, <1>6 DEF Begin, SaveLifecycle, SaveAppended, SaveSettled, SaveCheckpoint, SaveRemoved
<1>7. ASSUME NEW u \in Turns, AppendJournal(u) \/ CompactJournal(u) \/ ResetJournal(u) \/ TornAppend(u)
      PROVE  snapshots' = snapshots
      BY <1>7 DEF AppendJournal, CompactJournal, Compacting, ResetJournal, Resetting, TurnWritten, TornAppend
<1>8. ASSUME PruneJournals \/ EndSave \/ Abort \/ CutReplacement \/ UNCHANGED vars
      PROVE  snapshots' = snapshots
      BY <1>8 DEF PruneJournals, EndSave, Abort, CutReplacement, vars
<1>9. QED
      <2>1. WriteManifest \/ manifest' = manifest BY OnlyOneWrites
      <2>2. QED BY <1>1, <1>2, <1>3, <1>4, <1>6, <1>7, <1>8, <2>1 DEF Next, WriteTurn

(***************************************************************************)
(* No step of any save, completed or cut short, changes or removes a       *)
(* snapshot that the manifest names for a turn it goes on listing.         *)
(***************************************************************************)
THEOREM SnapshotsStay == Spec => SnapshotsAreImmutable
<1> DEFINE Kept == \A t \in Listed :
                      /\ ChainVerified(manifest.items[t])
                      /\ manifest'.items[t].id = manifest.items[t].id
                      => ChainVerified(manifest.items[t])'
<1>1. IInv /\ [Next]_vars => Kept BY ChainStays DEF Listed
<1>2. QED BY <1>1, Invariance, PTL DEF Spec, SnapshotsAreImmutable

(***************************************************************************)
(* A turn reads as the manifest says from the moment a new manifest lists  *)
(* it, whatever saves that were cut short left in its files.               *)
(***************************************************************************)
THEOREM WhatIsCommittedReads == Spec => CommittedReads
<1> DEFINE Kept == \A t \in Turns : manifest'.items[t] \notin {manifest.items[t], NoItem} => Reads(t)'
<1>1. IInv /\ [Next]_vars => Kept
      <2> SUFFICES ASSUME IInv, [Next]_vars, NEW t \in Turns,
                          manifest'.items[t] \notin {manifest.items[t], NoItem}
                   PROVE  Reads(t)'
          OBVIOUS
      <2>1. WriteManifest BY OnlyOneWrites
      <2>2. /\ save.stage = "turns" /\ save.pending = {} /\ ChainVerified(save.items[t])
            /\ manifest'.items = save.items /\ UNCHANGED <<journals, snapshots>>
            BY <2>1 DEF WriteManifest, Committing
      <2>3. JournalFits(save.items[t]) BY <2>2 DEF IInv, WrittenFit
      <2>4. ReadsWell(t)'
            BY <2>2, <2>3 DEF ReadsWell, ChainVerified, SnapshotOf, JournalFits
      <2>5. save.items[t].id # 0 BY <2>2 DEF IInv, PlannedIds, NoneIsUnlisted
      <2>6. t \in Listed' BY <2>2, <2>5 DEF Listed
      <2>7. Typed' BY NextInv DEF IInv
      <2>8. QED BY <2>4, <2>6, <2>7, ReadsIfNext
<1>2. QED BY <1>1, Invariance, PTL DEF Spec, CommittedReads

LEMMA JournalStays ==
    ASSUME IInv, [Next]_vars, NEW t \in Turns, manifest.items[t].id # 0, manifest' = manifest,
           JournalFits(manifest.items[t]), ~CompactJournal(t), ~ResetJournal(t)
    PROVE  JournalFits(manifest.items[t])'
<1>1. ASSUME NEW u \in Turns, NEW journal, NEW committed, NEW compacted, Writing(u),
             TurnWritten(u, journal, committed, compacted),
             u = t => journal = CommittedJournal(t) \o Diff(t)
      PROVE  JournalFits(manifest.items[t])'
      <2>1. save.items[u].id \in Ids BY <1>1, OwnJournal
      <2>2. /\ journals'[save.items[u].id] = journal
            /\ \A id \in Ids \ {save.items[u].id} : journals'[id] = journals[id]
            BY <1>1, <2>1 DEF IInv, Typed, TurnWritten
      <2>3. u = t => Folds(Last(manifest.items[t].checkpoints), journals'[save.items[t].id],
                           manifest.items[t].committed, manifest.items[t].content)
            BY <1>1, <2>2, AppendedFolds
      <2>4. QED BY <1>1, <2>2, <2>3, FileStays
<1>2. ASSUME NEW u \in Turns, AppendJournal(u) PROVE JournalFits(manifest.items[t])'
      BY <1>1, <1>2 DEF AppendJournal
<1>3. ASSUME NEW u \in Turns, CompactJournal(u) PROVE JournalFits(manifest.items[t])'
      BY <1>1, <1>3 DEF CompactJournal, Compacting
<1>4. ASSUME NEW u \in Turns, ResetJournal(u) PROVE JournalFits(manifest.items[t])'
      BY <1>1, <1>4 DEF ResetJournal, Resetting
<1>5. ASSUME NEW u \in Turns, TornAppend(u) PROVE JournalFits(manifest.items[t])'
      BY <1>5, TornParts, FileStays
<1>6. ASSUME PruneJournals PROVE JournalFits(manifest.items[t])'
      <2>1. manifest.items = save.items /\ manifest.items[t].id \in Ids
            BY <1>6, TypeParts, ItemFields, MaxSavesAssumption
            DEF PruneJournals, PrunesAt, IInv, Committed, Ids
      <2>2. journals'[manifest.items[t].id] = journals[manifest.items[t].id]
            BY <1>6, <2>1 DEF PruneJournals
      <2>3. QED BY <2>2 DEF JournalFits
<1>7. ASSUME journals' = journals PROVE JournalFits(manifest.items[t])'
      BY <1>7 DEF JournalFits
<1>8. ASSUME NEW view, NEW gone, NEW new, NEW changed, NEW settled, NEW checkpoint,
             BeginSave(view, gone, new, changed, settled, checkpoint)
      PROVE  journals' = journals
      BY <1>8 DEF BeginSave
<1>9. ASSUME Begin PROVE journals' = journals
      BY <1>8, <1>9 DEF Begin, SaveLifecycle, SaveAppended, SaveSettled, SaveCheckpoint, SaveRemoved
<1>10. ASSUME NEW u \in Turns, WriteSnapshot(u) PROVE journals' = journals
       BY <1>10 DEF WriteSnapshot, Snapshotting
<1>11. ASSUME WriteManifest \/ PruneSnapshots \/ EndSave \/ Abort \/ CutReplacement \/ UNCHANGED vars
       PROVE  journals' = journals
       BY <1>11 DEF WriteManifest, Committing, PruneSnapshots, EndSave, Abort, CutReplacement, vars
<1>12. QED BY <1>2, <1>3, <1>4, <1>5, <1>6, <1>7, <1>9, <1>10, <1>11 DEF Next, WriteTurn

(***************************************************************************)
(* A turn that reads stops reading only while the save is at it that       *)
(* checkpoints it or settles it: no other step of any save, and no step of *)
(* a save of another turn, can take a committed turn from its readers.     *)
(***************************************************************************)
THEOREM RewritesAlone == Spec => OnlyRewriteBreaks
<1> DEFINE Rewrites(t) == /\ save'.pending = save.pending \ {t}
                          /\ t \in save.pending
                          /\ \/ save.checkpoint = t
                             \/ save.items[t].terminal /\ ~manifest.items[t].terminal
           Kept == \A t \in Listed : Reads(t) /\ t \in Listed' /\ ~Reads(t)' => Rewrites(t)
<1>1. ASSUME IInv, NEW t \in Turns, CompactJournal(t) \/ ResetJournal(t)
      PROVE  Rewrites(t)
      <2>1. PICK journal, committed, compacted : TurnWritten(t, journal, committed, compacted)
            BY <1>1 DEF CompactJournal, Compacting, ResetJournal, Resetting
      <2>2. save'.pending = save.pending \ {t}
            <3>1. save \in SaveType /\ save.items[t] \in Item BY <1>1, TypeParts DEF IInv
            <3>2. QED BY <2>1, <3>1 DEF TurnWritten, SaveType
      <2>3. Writing(t) /\ t \in save.pending
            BY <1>1 DEF CompactJournal, Compacting, ResetJournal, Resetting, Writing
      <2>4. CASE CompactJournal(t)
            <3>1. /\ save.checkpoint # t /\ save.items[t].terminal
                  /\ ~save.items[t].compacted /\ save.items[t].checkpoints = <<>>
                  BY <2>4 DEF CompactJournal, Compacting, MustCompact, RequiresRewrite
            <3>2. /\ save.items[t].compacted = manifest.items[t].compacted
                  /\ save.items[t].checkpoints = manifest.items[t].checkpoints
                  BY <1>1, <2>3, <3>1, SameCheckpoints DEF IInv, Planned, Writing
            <3>3. ~manifest.items[t].terminal
                  BY <1>1, <3>1, <3>2 DEF IInv, Clean, RequiresRewrite
            <3>4. QED BY <2>2, <2>3, <3>1, <3>3
      <2>5. CASE ResetJournal(t) BY <2>2, <2>3, <2>5 DEF ResetJournal, Resetting
      <2>6. QED BY <1>1, <2>4, <2>5
<1>2. IInv /\ [Next]_vars => Kept
      <2> SUFFICES ASSUME IInv, [Next]_vars, NEW t \in Listed, Reads(t), t \in Listed', ~Reads(t)'
                   PROVE  Rewrites(t)
          OBVIOUS
      <2>1. Typed /\ Typed' BY NextInv DEF IInv
      <2>2. t \in Turns /\ manifest.items[t].id # 0 /\ manifest'.items[t].id # 0 BY DEF Listed
      <2>3. ReadsWell(t) BY <2>1, ReadsIf
      <2>4. ~ReadsWell(t)' BY <2>1, ReadsIfNext
      <2>5. CASE WriteManifest
            <3>1. /\ save.stage = "turns" /\ save.pending = {} /\ ChainVerified(save.items[t])
                  /\ manifest'.items = save.items /\ UNCHANGED <<journals, snapshots>>
                  BY <2>2, <2>5 DEF WriteManifest, Committing
            <3>2. save.items[t] # NoItem BY <2>2, <3>1, NoItemFits
            <3>3. save.items[t] = manifest.items[t] \/ JournalFits(save.items[t])
                  BY <2>2, <3>1, <3>2 DEF IInv, WrittenFit
            <3>4. JournalFits(save.items[t]) BY <2>3, <3>3 DEF ReadsWell
            <3>5. ReadsWell(t)'
                  BY <3>1, <3>4 DEF ReadsWell, ChainVerified, SnapshotOf, JournalFits
            <3>6. QED BY <2>4, <3>5
      <2>6. CASE ~WriteManifest
            <3>1. manifest' = manifest BY <2>6, OnlyOneWrites
            <3>2. ChainVerified(manifest.items[t])' BY <2>2, <2>3, <3>1, ChainStays DEF ReadsWell
            <3>3. ~JournalFits(manifest.items[t])' BY <2>4, <3>2 DEF ReadsWell
            <3>4. CompactJournal(t) \/ ResetJournal(t)
                  BY <2>2, <2>3, <3>1, <3>3, JournalStays DEF ReadsWell
            <3>5. QED BY <1>1, <2>2, <3>4
      <2>7. QED BY <2>5, <2>6
<1>3. QED BY <1>2, Invariance, PTL DEF Spec, OnlyRewriteBreaks

-----------------------------------------------------------------------------
(***************************************************************************)
(* Refinement.  Where nothing is rewritten, what a reader finds is what    *)
(* the manifest says, and only the replacement of the manifest changes it. *)
(***************************************************************************)
Contented(items) == [t \in Turns |-> items[t].content]

LEMMA AllRead ==
    ASSUME IInv, Operations \subseteq {"remove"}
    PROVE  Materialized = Contented(manifest.items)
<1> SUFFICES ASSUME NEW t \in Turns
             PROVE  Materialized[t] = manifest.items[t].content
    BY DEF Materialized, Contented
<1>1. CASE t \in Listed
      <2>1. manifest.items[t].checkpoints = <<>> /\ JournalFits(manifest.items[t])
            BY <1>1 DEF IInv, Untouched, Plain
      <2>2. ReadsWell(t) BY <2>1 DEF ReadsWell, ChainVerified
      <2>3. QED BY <1>1, <2>2, ReadsIf DEF IInv, Reads
<1>2. CASE t \notin Listed
      <2>1. manifest.items[t] = NoItem
            BY <1>2 DEF IInv, ManifestIds, NoneIsUnlisted, Listed
      <2>2. QED BY <1>2, <2>1, NoItemFits DEF Materialized
<1>3. QED BY <1>1, <1>2

LEMMA AllReadNext == (IInv /\ Operations \subseteq {"remove"} => Materialized = Contented(manifest.items))'
<1>1. IInv /\ Operations \subseteq {"remove"} => Materialized = Contented(manifest.items)
      BY AllRead
<1>2. QED BY <1>1, PTL

\* A step of a save that neither begins nor ends it nor replaces the manifest writes
\* contents it has asked for from the start.
LEMMA WritingAsks ==
    ASSUME IInv, NEW t \in Turns, WriteTurn(t)
    PROVE  /\ save.stage = "turns" /\ save'.stage = "turns" /\ manifest' = manifest
           /\ Contented(save'.items) = Contented(save.items)
BY WritingKeepsContents DEF IInv, SameContents, Contented

LEMMA AtomicInit ==
    ASSUME Init
    PROVE  Store!Init
<1>1. Listed = {} BY NoItemFits DEF Init, Listed
<1>2. Materialized = [t \in Turns |-> 0] BY <1>1 DEF Materialized
<1>3. Asked = Materialized BY DEF Init, Idle, Asked
<1>4. QED BY <1>2, <1>3 DEF Store!Init

LEMMA AtomicNext ==
    ASSUME IInv, [Next]_vars, Operations \subseteq {"remove"}
    PROVE  [Store!Next]_(Store!vars)
<1> USE DEF Store!vars
<1>1. Materialized = Contented(manifest.items) BY AllRead
<1>2. Materialized' = Contented(manifest'.items)
      <2>1. (Materialized = Contented(manifest.items))' BY NextInv, AllReadNext
      <2>2. QED BY <2>1 DEF Contented
<1>3. /\ save.stage = "idle" => Asked = Materialized
      /\ save.stage # "idle" => Asked = Contented(save.items)
      /\ save'.stage = "idle" => Asked' = Materialized'
      /\ save'.stage # "idle" => Asked' = Contented(save'.items)
      BY DEF Asked, Contented
<1>4. CASE Begin
      <2>1. PICK view, gone, new, changed, settled \in SUBSET Turns,
                 checkpoint \in Turns \cup {NoTurn} :
               Begins(view, gone, new, changed, settled, checkpoint)
            BY <1>4, BeginParts
      <2>2. save.stage = "idle" /\ manifest' = manifest BY <2>1 DEF Begins, BeginSave
      <2>3. Outlined(view, gone, new, changed, settled, checkpoint) BY <2>1, PlanParts DEF IInv
      <2>4. save' \in SaveType /\ save'.stage = "turns" BY <2>3 DEF Outlined
      <2>5. Contented(save'.items) \in [Turns -> Nat]
            <3>1. \A t \in Turns : save'.items[t].content \in Nat
                  BY <2>4, ItemFields, MaxSavesAssumption DEF SaveType, Contents
            <3>2. QED BY <3>1 DEF Contented
      <2>6. Store!Ask BY <1>1, <1>2, <1>3, <2>2, <2>4, <2>5 DEF Store!Ask
      <2>7. QED BY <2>6 DEF Store!Next
<1>5. ASSUME NEW t \in Turns, WriteTurn(t) PROVE UNCHANGED Store!vars
      BY <1>1, <1>2, <1>3, <1>5, WritingAsks
<1>6. CASE WriteManifest
      <2>1. /\ save.stage = "turns" /\ manifest'.items = save.items
            /\ save'.stage = "journals" /\ save'.items = save.items
            <3>1. save \in SaveType BY TypeParts DEF IInv
            <3>2. QED BY <1>6, <3>1 DEF WriteManifest, Committing, SaveType
      <2>2. Materialized' = Asked /\ Asked' = Asked BY <1>2, <1>3, <2>1
      <2>3. QED BY <2>2 DEF Store!Next, Store!Commit
<1>7. CASE PruneJournals \/ PruneSnapshots
      <2>1. /\ save.stage # "idle" /\ save'.stage # "idle" /\ save'.items = save.items
            /\ manifest' = manifest
            <3>1. save \in SaveType BY TypeParts DEF IInv
            <3>2. QED BY <1>7, <3>1 DEF PruneJournals, PrunesAt, PruneSnapshots, SaveType
      <2>2. QED BY <1>1, <1>2, <1>3, <2>1
<1>8. ASSUME EndSave \/ Abort \/ CutReplacement \/ \E t \in Turns : TornAppend(t)
      PROVE  [Store!Next]_(Store!vars)
      <2>1. save' = Idle /\ manifest' = manifest BY <1>8 DEF EndSave, Abort, CutReplacement, TornAppend
      <2>2. save'.stage = "idle" BY <2>1 DEF Idle
      <2>3. Asked' = Materialized' /\ Materialized' = Materialized
            BY <1>1, <1>2, <1>3, <2>1, <2>2
      <2>4. QED BY <2>3 DEF Store!Next, Store!Drop
<1>9. CASE UNCHANGED vars
      <2>1. save' = save /\ manifest' = manifest BY <1>9 DEF vars
      <2>2. QED BY <1>1, <1>2, <1>3, <2>1
<1>10. QED BY <1>4, <1>5, <1>6, <1>7, <1>8, <1>9 DEF Next

(***************************************************************************)
(* As long as no save settles or checkpoints a turn, the files implement   *)
(* the atomic store, however many saves are cut short and wherever.        *)
(***************************************************************************)
THEOREM RemovalsAreAtomic ==
    ASSUME Operations \subseteq {"remove"}
    PROVE  Spec => SavesAreAtomic
<1>1. Init => Store!Init BY AtomicInit
<1>2. IInv /\ [Next]_vars => [Store!Next]_(Store!vars) BY AtomicNext
<1>3. QED BY <1>1, <1>2, Invariance, PTL DEF Spec, SavesAreAtomic, Store!Spec

-----------------------------------------------------------------------------
(***************************************************************************)
(* Readers without the lock.  A save that only appends never shortens what *)
(* the manifest has committed of a turn.                                   *)
(***************************************************************************)
Grows ==
    save.stage # "idle" =>
        \A t \in Turns : save.items[t].id = manifest.items[t].id =>
            save.items[t].committed >= manifest.items[t].committed

(***************************************************************************)
(* What an item that a reader holds of turn t is still good for: its id is *)
(* nobody else's; while the turn is listed under it, the journal begins    *)
(* with the batches the item has committed; once the turn was removed, it  *)
(* does, or it is too short and the reader notices.                        *)
(***************************************************************************)
Holds(t, item) ==
    /\ Plain(item)
    /\ item.id <= manifest.lastId
    /\ \A u \in Turns : manifest.items[u].id = item.id => u = t
    /\ JournalFits(item) \/ Len(journals[item.id]) < item.committed
    /\ manifest.items[t].id = item.id =>
          JournalFits(item) /\ item.committed <= manifest.items[t].committed

ReaderFits ==
    /\ reader \in [stage : {"idle", "reading", "failed"}, items : [Turns -> Item],
                   pending : SUBSET Turns, got : [Turns -> Contents]]
    /\ \A t \in Turns : reader.items[t].id # 0 => Holds(t, reader.items[t])
    /\ \A t \in reader.pending : reader.items[t].id # 0

ReadsInv == IInv /\ Grows /\ ReaderFits /\ ReadsAreSnapshots

\* Nothing is rewritten, so the steps that rewrite are not taken.
LEMMA NoRewrite ==
    ASSUME IInv, Operations \subseteq {"remove"}, NEW t \in Turns
    PROVE  ~CompactJournal(t) /\ ~WriteSnapshot(t) /\ ~ResetJournal(t)
<1>1. ~save.items[t].terminal /\ save.checkpoint = NoTurn /\ NoTurn # t
      BY NoTurnAssumption DEF IInv, Untouched, Plain
<1>2. QED BY <1>1 DEF CompactJournal, Compacting, MustCompact, RequiresRewrite, WriteSnapshot,
                      Snapshotting, ResetJournal, Resetting

LEMMA BeginGrows ==
    ASSUME IInv, Begin
    PROVE  Grows'
<1>1. PICK view, gone, new, changed, settled \in SUBSET Turns,
           checkpoint \in Turns \cup {NoTurn} :
         Begins(view, gone, new, changed, settled, checkpoint)
      BY BeginParts
<1>2. /\ Outlined(view, gone, new, changed, settled, checkpoint)
      /\ manifest' = manifest /\ gone \subseteq Listed
      BY <1>1, PlanParts DEF IInv, Begins, BeginSave
<1>3. SUFFICES ASSUME NEW t \in Turns, save'.items[t].id = manifest.items[t].id
               PROVE  save'.items[t].committed >= manifest.items[t].committed
      BY <1>2 DEF Grows
<1>4. /\ manifest.items[t] \in Item /\ manifest.items[t].committed \in Nat
      /\ manifest.items[t].id \in Nat /\ manifest.lastId \in Nat
      /\ manifest.items[t].id <= manifest.lastId
      BY TypeParts, ItemFields DEF IInv, ManifestIds
<1>5. t \notin gone BY <1>2, <1>3, NoItemFits DEF Outlined, Listed
<1>6. t \notin new
      <2>1. t \in new => save'.items[t].id = manifest.lastId + 1 BY <1>2 DEF Outlined
      <2>2. QED BY <1>3, <1>4, <2>1
<1>7. save'.items[t].committed = manifest.items[t].committed
      BY <1>2, <1>5, <1>6 DEF Outlined
<1>8. QED BY <1>4, <1>7

LEMMA GrowsNext ==
    ASSUME IInv, Grows, Operations \subseteq {"remove"}, [Next]_vars
    PROVE  Grows'
<1>1. save \in SaveType /\ \A t \in Turns : manifest.items[t].committed \in Nat
      BY TypeParts, ItemFields DEF IInv
<1>2. CASE Begin BY <1>2, BeginGrows
<1>3. ASSUME NEW t \in Turns, AppendJournal(t) PROVE Grows'
      <2> DEFINE journal == CommittedJournal(t) \o Diff(t)
                 committed == manifest.items[t].committed + Len(Diff(t))
                 compacted == manifest.items[t].compacted
      <2>1. /\ Writing(t) /\ save.stage = "turns" /\ save.items[t].id # 0
            /\ TurnWritten(t, journal, committed, compacted)
            BY <1>3 DEF AppendJournal, Writing, IInv, Planned
      <2>2. /\ journal \in Seq(Batch) /\ Len(Diff(t)) \in Nat
            BY <2>1, AppendedFolds
      <2>3. committed \in Nat /\ committed >= manifest.items[t].committed BY <1>1, <2>2
      <2>4. compacted \in BOOLEAN BY TypeParts, ItemFields DEF IInv
      <2> HIDE DEF journal, committed, compacted
      <2>5. Updated(t, journal, committed, compacted)
            BY <2>1, <2>2, <2>3, <2>4, WrittenParts DEF IInv
      <2>6. /\ manifest' = manifest /\ save'.items[t].committed = committed
            /\ \A u \in Turns \ {t} : save'.items[u] = save.items[u]
            BY <2>5 DEF Updated
      <2>7. QED BY <2>1, <2>3, <2>6 DEF Grows
<1>4. CASE WriteManifest
      <2>1. manifest'.items = save.items /\ save'.items = save.items
            BY <1>1, <1>4 DEF WriteManifest, Committing, SaveType
      <2>2. \A t \in Turns : save.items[t].committed \in Nat BY TypeParts, ItemFields DEF IInv
      <2>3. QED BY <2>1, <2>2 DEF Grows
<1>5. CASE PruneJournals \/ PruneSnapshots
      <2>1. manifest' = manifest /\ save'.items = save.items /\ save.stage # "idle"
            BY <1>1, <1>5 DEF PruneJournals, PrunesAt, PruneSnapshots, SaveType
      <2>2. QED BY <2>1 DEF Grows
<1>6. ASSUME EndSave \/ Abort \/ CutReplacement \/ \E t \in Turns : TornAppend(t) PROVE Grows'
      <2>1. save' = Idle BY <1>6 DEF EndSave, Abort, CutReplacement, TornAppend
      <2>2. QED BY <2>1 DEF Grows, Idle
<1>7. CASE UNCHANGED vars BY <1>7 DEF vars, Grows
<1>8. QED BY <1>2, <1>3, <1>4, <1>5, <1>6, <1>7, NoRewrite DEF Next, WriteTurn

\* A file that is cut back to n batches and appended to goes on folding up to any
\* number of them.
LEMMA PrefixFolds ==
    ASSUME NEW base \in Contents, NEW journal \in Seq(Batch), NEW n \in Nat, NEW k \in Nat,
           NEW c \in Contents, NEW tail \in Seq(Batch),
           k <= n, n <= Len(journal), Folds(base, journal, k, c)
    PROVE  Folds(base, SubSeq(journal, 1, n) \o tail, k, c)
<1> DEFINE kept == SubSeq(journal, 1, n)
           whole == kept \o tail
<1>1. kept \in Seq(Batch) /\ Len(kept) = n /\ \A i \in 1..n : kept[i] = journal[i]
      OBVIOUS
<1>2. /\ whole \in Seq(Batch) /\ Len(whole) >= n
      /\ \A i \in 1..n : whole[i] = journal[i]
      BY <1>1
<1> HIDE DEF whole
<1>3. /\ Len(whole) >= k
      /\ \A i \in 1..k : whole[i] = journal[i]
      /\ k # 0 => k \in 1..k
      /\ \A i \in 1..k : i # 1 => i - 1 \in 1..k
      BY <1>2
<1>4. Folds(base, whole, k, c) BY <1>3 DEF Folds
<1>5. QED BY <1>4 DEF whole

\* What a step of a save does to the file of an item that a reader holds.
LEMMA FileHolds ==
    ASSUME IInv, Operations \subseteq {"remove"}, [Next]_vars, manifest' = manifest,
           NEW t \in Turns, NEW item \in Item, item.id # 0, Holds(t, item)
    PROVE  Holds(t, item)'
<1> DEFINE base == Last(item.checkpoints)
           k == item.committed
           c == item.content
           Good == /\ JournalFits(item)' \/ Len(journals'[item.id]) < k
                   /\ manifest.items[t].id = item.id => JournalFits(item)'
<1>1. SUFFICES Good
      BY DEF Holds, Plain
<1>2. /\ item.id \in Ids /\ base \in Contents /\ k \in Nat /\ c \in Contents
      /\ journals[item.id] \in Seq(Batch)
      BY ItemFields, LastContent, MaxSavesAssumption DEF Ids, IInv, Typed
<1>3. JournalFits(item) \/ Len(journals[item.id]) < k BY DEF Holds
<1>4. manifest.items[t].id = item.id => JournalFits(item) /\ k <= manifest.items[t].committed
      BY DEF Holds
<1>5. ASSUME journals'[item.id] = journals[item.id] PROVE Good
      BY <1>3, <1>4, <1>5 DEF JournalFits
<1>6. ASSUME NEW u \in Turns, Writing(u), NEW tail \in Seq(Batch),
             journals' = [journals EXCEPT ![save.items[u].id] = CommittedJournal(u) \o tail]
      PROVE  Good
      <2>1. save.items[u].id \in Ids /\ save.stage # "idle" BY <1>6, OwnJournal DEF Writing
      <2>2. CASE item.id # save.items[u].id
            <3>1. journals'[item.id] = journals[item.id]
                  BY <1>2, <1>6, <2>1, <2>2 DEF IInv, Typed
            <3>2. QED BY <1>5, <3>1
      <2>3. CASE item.id = save.items[u].id
            <3>1. manifest.lastId \in Nat /\ item.id \in Nat BY <1>2, TypeParts DEF IInv, Ids
            <3>2. manifest.items[u].id = item.id
                  BY <2>1, <2>3, <3>1 DEF IInv, PlannedIds, Holds
            <3>3. u = t BY <3>2 DEF Holds
            <3>4. JournalFits(item) /\ k <= manifest.items[u].committed BY <1>4, <3>2, <3>3
            <3>5. /\ manifest.items[u].committed \in Nat
                  /\ manifest.items[u].committed <= Len(journals[item.id])
                  BY <1>6, <2>3, PendingFolds DEF Folds
            <3>6. Folds(base, journals[item.id], k, c) BY <3>4 DEF JournalFits
            <3>7. Folds(base, SubSeq(journals[item.id], 1, manifest.items[u].committed) \o tail, k, c)
                  BY <1>2, <1>6, <3>4, <3>5, <3>6, PrefixFolds
            <3>8. journals'[item.id]
                     = SubSeq(journals[item.id], 1, manifest.items[u].committed) \o tail
                  BY <1>2, <1>6, <2>1, <2>3 DEF IInv, Typed, CommittedJournal
            <3>9. JournalFits(item)' BY <3>7, <3>8 DEF JournalFits
            <3>10. QED BY <3>9
      <2>4. QED BY <2>2, <2>3
<1>7. ASSUME NEW u \in Turns, AppendJournal(u) PROVE Good
      <2>1. Writing(u) /\ Diff(u) \in Seq(Batch)
            <3>1. Writing(u) BY <1>7 DEF AppendJournal
            <3>2. manifest.items[u].content \in Contents /\ save.items[u].content \in Contents
                  BY <3>1, PendingFolds
            <3>3. [from |-> manifest.items[u].content, to |-> save.items[u].content] \in Batch
                  BY <3>2 DEF Batch
            <3>4. QED BY <3>1, <3>3 DEF Diff
      <2>2. QED BY <1>6, <1>7, <2>1 DEF AppendJournal, TurnWritten
<1>8. ASSUME NEW u \in Turns, TornAppend(u) PROVE Good
      <2> DEFINE torn == [from |-> manifest.items[u].content, to |-> Partial]
      <2>1. Writing(u) BY <1>8 DEF TornAppend
      <2>2. /\ <<torn>> \in Seq(Batch)
            <3>1. manifest.items[u].content \in Contents BY <2>1, PendingFolds
            <3>2. torn \in Batch BY <3>1 DEF Batch
            <3>3. QED BY <3>2
      <2>3. CommittedJournal(u) \in Seq(Batch)
            BY <2>1, PendingFolds DEF CommittedJournal, Folds
      <2>4. Append(CommittedJournal(u), torn) = CommittedJournal(u) \o <<torn>>
            <3>1. torn \in Batch BY <2>1, PendingFolds DEF Batch
            <3> HIDE DEF torn
            <3>2. QED BY <2>3, <3>1
      <2>5. journals' = [journals EXCEPT ![save.items[u].id] = Append(CommittedJournal(u), torn)]
            BY <1>8 DEF TornAppend
      <2> HIDE DEF torn
      <2>6. QED BY <1>6, <2>1, <2>2, <2>4, <2>5
<1>9. ASSUME PruneJournals PROVE Good
      <2>1. save.stage = "journals" BY <1>9 DEF PruneJournals, PrunesAt
      <2>2. manifest.items = save.items BY <2>1 DEF IInv, Committed
      <2>3. journals'[item.id] = IF \E u \in Turns : save.items[u].id = item.id
                                 THEN journals[item.id] ELSE <<>>
            BY <1>2, <1>9 DEF PruneJournals
      <2>4. CASE \E u \in Turns : save.items[u].id = item.id BY <1>5, <2>3, <2>4
      <2>5. CASE ~ \E u \in Turns : save.items[u].id = item.id
            <3>1. manifest.items[t].id # item.id /\ journals'[item.id] = <<>> BY <2>2, <2>3, <2>5
            <3>2. CASE k = 0
                  <4>1. JournalFits(item) BY <1>2, <1>3, <3>2
                  <4>2. base = c BY <3>2, <4>1 DEF JournalFits, Folds
                  <4>3. JournalFits(item)' BY <3>1, <3>2, <4>2 DEF JournalFits, Folds
                  <4>4. QED BY <3>1, <4>3
            <3>3. CASE k # 0 BY <1>2, <3>1, <3>3
            <3>4. QED BY <3>2, <3>3
      <2>6. QED BY <2>4, <2>5
<1>10. ASSUME NEW view, NEW gone, NEW new, NEW changed, NEW settled, NEW checkpoint,
              BeginSave(view, gone, new, changed, settled, checkpoint)
       PROVE  journals' = journals
       BY <1>10 DEF BeginSave
<1>11. ASSUME Begin PROVE journals' = journals
       BY <1>10, <1>11 DEF Begin, SaveLifecycle, SaveAppended, SaveSettled, SaveCheckpoint, SaveRemoved
<1>12. ASSUME WriteManifest \/ PruneSnapshots \/ EndSave \/ Abort \/ CutReplacement \/ UNCHANGED vars
       PROVE  journals' = journals
       BY <1>12 DEF WriteManifest, Committing, PruneSnapshots, EndSave, Abort, CutReplacement, vars
<1>13. QED BY <1>5, <1>7, <1>8, <1>9, <1>11, <1>12, NoRewrite DEF Next, WriteTurn

LEMMA HoldsOn ==
    ASSUME IInv, Grows, Operations \subseteq {"remove"}, [Next]_vars,
           NEW t \in Turns, NEW item \in Item, item.id # 0, Holds(t, item)
    PROVE  /\ Holds(t, item)'
           /\ manifest.items[t].id # item.id => manifest'.items[t].id # item.id
<1>1. CASE WriteManifest
      <2>1. /\ save.stage = "turns" /\ journals' = journals
            /\ manifest'.items = save.items /\ manifest'.lastId = save.lastId
            BY <1>1 DEF WriteManifest, Committing
      <2>2. /\ item.id \in Nat /\ manifest.lastId \in Nat /\ save.lastId \in Nat
            /\ manifest.lastId <= save.lastId /\ item.id <= manifest.lastId
            BY <2>1, ItemFields, TypeParts DEF IInv, PlannedIds, Holds
      <2>3. \A u \in Turns : save.items[u].id = item.id => manifest.items[u].id = item.id
            BY <2>1, <2>2 DEF IInv, PlannedIds
      <2>4. save.items[t].id = item.id => item.committed <= save.items[t].committed
            <3> SUFFICES ASSUME save.items[t].id = item.id
                         PROVE  item.committed <= save.items[t].committed
                OBVIOUS
            <3>1. manifest.items[t].id = item.id BY <2>3
            <3>2. save.items[t].committed >= manifest.items[t].committed BY <2>1, <3>1 DEF Grows
            <3>3. item.committed <= manifest.items[t].committed BY <3>1 DEF Holds
            <3>4. QED BY <3>2, <3>3, ItemFields, TypeParts DEF IInv
      <2>5. JournalFits(item)' <=> JournalFits(item) BY <2>1 DEF JournalFits
      <2>6. Holds(t, item)' BY <2>1, <2>2, <2>3, <2>4, <2>5 DEF Holds, Plain
      <2>7. QED BY <2>1, <2>3, <2>6
<1>2. CASE ~WriteManifest
      <2>1. manifest' = manifest BY <1>2, OnlyOneWrites
      <2>2. QED BY <2>1, FileHolds
<1>3. QED BY <1>1, <1>2

LEMMA ReadsSteps ==
    ASSUME [ReadsNext]_readVars
    PROVE  /\ [Next]_vars
           /\ \/ UNCHANGED reader
              \/ /\ UNCHANGED vars
                 /\ \/ ReadManifest
                    \/ \E t \in Turns : ReadTurn(t)
                    \/ reader' = NoReader
<1>1. CASE SaveStep BY <1>1 DEF SaveStep, Next
<1>2. CASE ListSaved BY <1>2 DEF ListSaved, Next
<1>3. CASE ReadManifest BY <1>3 DEF ReadManifest, vars
<1>4. CASE \E t \in Turns : ReadTurn(t) BY <1>4 DEF ReadTurn, vars
<1>5. CASE FinishRead BY <1>5 DEF FinishRead, vars
<1>6. CASE MarkUnavailable BY <1>6 DEF MarkUnavailable, vars
<1>7. CASE UNCHANGED readVars BY <1>7 DEF readVars, vars
<1>8. QED BY <1>1, <1>2, <1>3, <1>4, <1>5, <1>6, <1>7 DEF ReadsNext

\* The steps of a save do not disturb a reader.
LEMMA SavesKeepReads ==
    ASSUME ReadsInv, Operations \subseteq {"remove"}, [Next]_vars, UNCHANGED reader
    PROVE  ReaderFits' /\ ReadsAreSnapshots'
<1>1. ASSUME NEW t \in Turns, reader.items[t].id # 0
      PROVE  /\ Holds(t, reader.items[t])'
             /\ manifest.items[t].id # reader.items[t].id =>
                   manifest'.items[t].id # reader.items[t].id
      <2>1. reader.items[t] \in Item /\ Holds(t, reader.items[t])
            BY <1>1 DEF ReadsInv, ReaderFits
      <2>2. PICK item \in Item : item = reader.items[t] BY <2>1
      <2>3. Holds(t, item) /\ item.id # 0 BY <1>1, <2>1, <2>2
      <2>4. /\ Holds(t, item)'
            /\ manifest.items[t].id # item.id => manifest'.items[t].id # item.id
            BY <2>3, HoldsOn DEF ReadsInv
      <2>5. item = reader'.items[t] BY <2>2
      <2>6. QED BY <2>2, <2>4, <2>5 DEF Holds, Plain, JournalFits
<1>2. ReaderFits' BY <1>1 DEF ReadsInv, ReaderFits
<1>3. ReadsAreSnapshots' BY <1>1 DEF ReadsInv, ReadsAreSnapshots
<1>4. QED BY <1>2, <1>3

LEMMA BeginsReading ==
    ASSUME ReadsInv, Operations \subseteq {"remove"}, ReadManifest, UNCHANGED vars
    PROVE  ReaderFits' /\ ReadsAreSnapshots'
<1>1. /\ reader' = [stage |-> "reading", items |-> manifest.items, pending |-> Listed,
                    got |-> [t \in Turns |-> 0]]
      /\ UNCHANGED <<manifest, journals, snapshots, save, saves>>
      BY DEF ReadManifest
<1>2. /\ reader'.stage = "reading" /\ reader'.items = manifest.items
      /\ reader'.pending = Listed /\ reader'.got = [t \in Turns |-> 0]
      BY <1>1
<1>3. reader' \in [stage : {"idle", "reading", "failed"}, items : [Turns -> Item],
                   pending : SUBSET Turns, got : [Turns -> Contents]]
      <2>1. manifest.items \in [Turns -> Item] BY DEF ReadsInv, IInv, Typed
      <2>2. [t \in Turns |-> 0] \in [Turns -> Contents] BY MaxSavesAssumption DEF Contents
      <2>3. QED BY <1>1, <2>1, <2>2 DEF Listed
<1>4. ASSUME NEW t \in Turns, manifest.items[t].id # 0
      PROVE  Holds(t, manifest.items[t])
      <2>1. /\ Plain(manifest.items[t]) /\ JournalFits(manifest.items[t])
            BY <1>4 DEF ReadsInv, IInv, Untouched, Listed
      <2>2. /\ manifest.items[t].id <= manifest.lastId
            /\ \A u \in Turns : manifest.items[u].id = manifest.items[t].id => u = t
            BY <1>4 DEF ReadsInv, IInv, ManifestIds, Apart
      <2>3. manifest.items[t].committed <= manifest.items[t].committed
            BY TypeParts, ItemFields DEF ReadsInv, IInv
      <2>4. QED BY <2>1, <2>2, <2>3 DEF Holds
<1>5. ASSUME NEW t \in Turns, reader'.items[t].id # 0
      PROVE  Holds(t, reader.items[t])'
      <2>1. Holds(t, manifest.items[t]) BY <1>2, <1>4, <1>5
      <2>2. reader'.items[t] = manifest.items[t] BY <1>2
      <2>3. QED BY <1>1, <2>1, <2>2 DEF Holds, Plain, JournalFits
<1>6. ReaderFits' BY <1>2, <1>3, <1>5 DEF ReaderFits, Listed
<1>7. ReadsAreSnapshots' BY <1>2 DEF ReadsAreSnapshots, Listed
<1>8. QED BY <1>6, <1>7

\* What the reader finds of a turn is what its manifest says, or the turn has gone.
LEMMA ReadsTurn ==
    ASSUME ReadsInv, Operations \subseteq {"remove"}, NEW t \in Turns, ReadTurn(t), UNCHANGED vars
    PROVE  ReaderFits' /\ ReadsAreSnapshots'
<1> DEFINE item == reader.items[t]
           content == Materialize(item)
<1>1. /\ reader.stage = "reading" /\ t \in reader.pending
      /\ reader' = IF content = Unreadable THEN [reader EXCEPT !.stage = "failed"]
                   ELSE [reader EXCEPT !.pending = @ \ {t}, !.got[t] = content]
      /\ UNCHANGED <<manifest, journals, snapshots, save, saves>>
      BY DEF ReadTurn
<1>2. /\ reader \in [stage : {"idle", "reading", "failed"}, items : [Turns -> Item],
                     pending : SUBSET Turns, got : [Turns -> Contents]]
      /\ item \in Item /\ item.id # 0 /\ Holds(t, item)
      BY <1>1 DEF ReadsInv, ReaderFits
<1>3. /\ item.content \in Contents /\ item.content # Unreadable
      BY <1>2, ItemFields, MaxSavesAssumption DEF Contents, Unreadable
<1>4. ChainVerified(item) BY <1>2 DEF Holds, Plain, ChainVerified
<1>5. CASE JournalFits(item)
      <2>1. content = item.content BY <1>2, <1>4, <1>5, MaterializeFits DEF ReadsInv, IInv
      <2> HIDE DEF content
      <2>2. reader' = [reader EXCEPT !.pending = @ \ {t},
                                     !.got = [reader.got EXCEPT ![t] = item.content]]
            BY <1>1, <1>3, <2>1
      <2>3. [reader.got EXCEPT ![t] = item.content] \in [Turns -> Contents]
            BY <1>2, <1>3
      <2>4. PICK got \in [Turns -> Contents] : got = [reader.got EXCEPT ![t] = item.content]
            BY <2>3
      <2>5. got[t] = item.content /\ \A u \in Turns \ {t} : got[u] = reader.got[u]
            BY <1>2, <2>4
      <2>6. /\ reader'.stage = "reading" /\ reader'.items = reader.items
            /\ reader'.pending = reader.pending \ {t} /\ reader'.got = got
            /\ reader' \in [stage : {"idle", "reading", "failed"}, items : [Turns -> Item],
                            pending : SUBSET Turns, got : [Turns -> Contents]]
            BY <1>1, <1>2, <2>2, <2>4
      <2>7. ASSUME NEW u \in Turns, reader.items[u].id # 0
            PROVE  Holds(u, reader.items[u])'
            BY <1>1, <2>6, <2>7 DEF ReadsInv, ReaderFits, Holds, Plain, JournalFits
      <2>8. ReaderFits' BY <2>6, <2>7 DEF ReadsInv, ReaderFits
      <2>9. ReadsAreSnapshots'
            BY <1>1, <2>5, <2>6 DEF ReadsInv, ReadsAreSnapshots
      <2>10. QED BY <2>8, <2>9
<1>6. CASE ~JournalFits(item)
      <2>1. Len(journals[item.id]) < item.committed /\ manifest.items[t].id # item.id
            BY <1>2, <1>6 DEF Holds
      <2>2. content = Unreadable BY <2>1 DEF Materialize
      <2> HIDE DEF content
      <2>3. reader' = [reader EXCEPT !.stage = "failed"] BY <1>1, <2>2
      <2>4. /\ reader'.stage = "failed" /\ reader'.items = reader.items
            /\ reader'.pending = reader.pending /\ reader'.got = reader.got
            /\ reader' \in [stage : {"idle", "reading", "failed"}, items : [Turns -> Item],
                            pending : SUBSET Turns, got : [Turns -> Contents]]
            BY <1>2, <2>3
      <2>5. ASSUME NEW u \in Turns, reader.items[u].id # 0
            PROVE  Holds(u, reader.items[u])'
            BY <1>1, <2>4, <2>5 DEF ReadsInv, ReaderFits, Holds, Plain, JournalFits
      <2>6. ReaderFits' BY <2>4, <2>5 DEF ReadsInv, ReaderFits
      <2>7. ReadsAreSnapshots'
            BY <1>1, <1>2, <2>1, <2>4 DEF ReadsAreSnapshots
      <2>8. QED BY <2>6, <2>7
<1>7. QED BY <1>5, <1>6

LEMMA NoReaderFits ==
    ASSUME reader = NoReader
    PROVE  ReaderFits /\ ReadsAreSnapshots
<1>1. /\ reader.stage = "idle" /\ reader.pending = {} /\ reader.got = [t \in Turns |-> 0]
      /\ reader.items = [t \in Turns |-> NoItem]
      /\ reader = [stage |-> "idle", items |-> [t \in Turns |-> NoItem],
                   pending |-> {}, got |-> [t \in Turns |-> 0]]
      BY DEF NoReader
<1>2. \A t \in Turns : reader.items[t].id = 0 BY <1>1, NoItemFits
<1>3. reader \in [stage : {"idle", "reading", "failed"}, items : [Turns -> Item],
                  pending : SUBSET Turns, got : [Turns -> Contents]]
      BY <1>1, NoItemFits, MaxSavesAssumption DEF Contents
<1>4. ReaderFits BY <1>1, <1>2, <1>3 DEF ReaderFits
<1>5. ReadsAreSnapshots BY <1>1 DEF ReadsAreSnapshots
<1>6. QED BY <1>4, <1>5

LEMMA NoReaderFitsNext == (reader = NoReader => ReaderFits /\ ReadsAreSnapshots)'
<1>1. reader = NoReader => ReaderFits /\ ReadsAreSnapshots BY NoReaderFits
<1>2. QED BY <1>1, PTL

LEMMA ReadsNextInv ==
    ASSUME ReadsInv, Operations \subseteq {"remove"}, [ReadsNext]_readVars
    PROVE  ReadsInv'
<1>1. IInv' /\ Grows' BY ReadsSteps, NextInv, GrowsNext DEF ReadsInv
<1>2. ReaderFits' /\ ReadsAreSnapshots'
      <2>1. CASE UNCHANGED reader BY <2>1, ReadsSteps, SavesKeepReads
      <2>2. CASE UNCHANGED vars /\ ReadManifest BY <2>2, BeginsReading
      <2>3. CASE UNCHANGED vars /\ \E t \in Turns : ReadTurn(t) BY <2>3, ReadsTurn
      <2>4. CASE reader' = NoReader
            <3>1. NoReader' = NoReader BY DEF NoReader, NoItem
            <3>2. QED BY <2>4, <3>1, NoReaderFitsNext
      <2>5. QED BY <2>1, <2>2, <2>3, <2>4, ReadsSteps
<1>3. QED BY <1>1, <1>2 DEF ReadsInv

(***************************************************************************)
(* While saves only append to turns and remove turns, a reader that takes  *)
(* no lock gets every turn as of the manifest it started from, and fails   *)
(* only when a turn it wants was removed meanwhile, for any number of      *)
(* turns and of saves that run or are cut short under it.                  *)
(***************************************************************************)
THEOREM UnlockedReadsAreSound ==
    ASSUME Operations \subseteq {"remove"}
    PROVE  ReadsSpec => []ReadsAreSnapshots
<1>1. ReadsInit => ReadsInv
      <2>1. ReadsInit => Grows BY DEF ReadsInit, Init, Idle, Grows
      <2>2. QED BY <2>1, InitInv, NoReaderFits DEF ReadsInit, ReadsInv
<1>2. ReadsInv /\ [ReadsNext]_readVars => ReadsInv' BY ReadsNextInv
<1>3. ReadsInv => ReadsAreSnapshots BY DEF ReadsInv
<1>4. QED BY <1>1, <1>2, <1>3, PTL DEF ReadsSpec
=============================================================================
