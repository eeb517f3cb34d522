----------------------------- MODULE SessionReads -----------------------------
(***************************************************************************)
(* SessionArtifact with a reader that does not hold the session lock       *)
(* (findById, findTurnView and readSessionDisplaySummary called outside a  *)
(* mutation) and with the availability the session list shows.             *)
(*                                                                         *)
(* The reader reads the manifest, then one turn after the other, while a   *)
(* save may go on.  When a read throws, the repository lists the session   *)
(* as unavailable, under the lock of the list only; a save that ends lists *)
(* it as available.                                                        *)
(***************************************************************************)
EXTENDS SessionArtifact

VARIABLES
    reader,     \* the manifest the reader works from, and what it has read
    listing     \* availability of the session in sessions.json

readVars == <<manifest, journals, snapshots, temps, save, saves, reader, listing>>

NoReader ==
    [stage |-> "idle", items |-> [t \in Turns |-> NoItem],
     pending |-> {}, got |-> [t \in Turns |-> 0]]

(***************************************************************************)
(* The writer: the end of a save upserts the session's line in the list.   *)
(***************************************************************************)
SaveStep ==
    /\ \/ Begin
       \/ \E t \in Turns : WriteTurn(t) \/ TornAppend(t)
       \/ WriteManifest
       \/ PruneJournals
       \/ PruneSnapshots
       \/ Abort
       \/ CutReplacement
    /\ UNCHANGED <<reader, listing>>

ListSaved ==
    /\ EndSave
    /\ listing' = "available"
    /\ UNCHANGED reader

(***************************************************************************)
(* The reader.                                                             *)
(***************************************************************************)
ReadManifest ==
    /\ reader.stage = "idle"
    /\ Listed # {}
    /\ reader' = [stage |-> "reading", items |-> manifest.items, pending |-> Listed,
                  got |-> [t \in Turns |-> 0]]
    /\ UNCHANGED <<manifest, journals, snapshots, temps, save, saves, listing>>

ReadTurn(t) ==
    /\ reader.stage = "reading"
    /\ t \in reader.pending
    /\ LET content == Materialize(reader.items[t])
       IN  reader' = IF content = Unreadable THEN [reader EXCEPT !.stage = "failed"]
                     ELSE [reader EXCEPT !.pending = @ \ {t}, !.got[t] = content]
    /\ UNCHANGED <<manifest, journals, snapshots, temps, save, saves, listing>>

FinishRead ==
    /\ reader.stage = "reading"
    /\ reader.pending = {}
    /\ reader' = NoReader
    /\ UNCHANGED <<manifest, journals, snapshots, temps, save, saves, listing>>

\* _projectUnavailableOnFailure: the failed read is not looked at again.
MarkUnavailable ==
    /\ reader.stage = "failed"
    /\ listing' = "unavailable"
    /\ reader' = NoReader
    /\ UNCHANGED <<manifest, journals, snapshots, temps, save, saves>>

-----------------------------------------------------------------------------
ReadsInit == Init /\ reader = NoReader /\ listing = "available"

ReadsNext ==
    \/ SaveStep
    \/ ListSaved
    \/ ReadManifest
    \/ \E t \in Turns : ReadTurn(t)
    \/ FinishRead
    \/ MarkUnavailable

ReadsSpec == ReadsInit /\ [][ReadsNext]_readVars

-----------------------------------------------------------------------------
(***************************************************************************)
(* While no save rewrites a journal, a reader without the lock gets every  *)
(* turn as of the manifest it started from, never a mix of two saves, with *)
(* appends, torn tails and removals going on under it; and it only fails   *)
(* when a save has removed a turn it wants to read.                        *)
(***************************************************************************)
ReadsAreSnapshots ==
    /\ \A t \in Turns :
          reader.stage = "reading" /\ reader.items[t].id # 0 /\ t \notin reader.pending =>
              reader.got[t] = reader.items[t].content
    /\ reader.stage = "failed" =>
          \E t \in Turns : reader.items[t].id # 0 /\ manifest.items[t].id # reader.items[t].id

(***************************************************************************)
(* docs/message-identity-architecture.md:191: the repository lists         *)
(* sessions that cannot be read as unavailable.  Between two saves, a      *)
(* session listed as unavailable should be one that cannot be read.        *)
(***************************************************************************)
UnavailableOnlyIfUnreadable ==
    save.stage = "idle" /\ listing = "unavailable" => ~ \A t \in Listed : Reads(t)
=============================================================================
