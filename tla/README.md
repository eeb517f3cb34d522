# Noobot: verification of the session core

Noobot is a self-hosted, multi-user workspace for AI agents: a Node.js monorepo
with a websocket service, an agent runtime, a Vue/Electron client and some thirty
protocol packages. What users lose when something goes wrong is a *session*: the
messages of a conversation, the turns they belong to, and whether a turn is still
running. This directory holds TLA+ models of the code that owns that state, TLC
configurations that check them on small instances, and theorems about them that
TLAPS proves for every instance.

    tlc -workers 2 -config MCTurnLifecycle.cfg MCTurnLifecycle.tla
    tlapm TurnLifecycleProofs.tla

Contents: [the system](#the-system) · [modules](#modules-and-code) ·
[runs](#what-the-runs-check) · [bounds](#bounds) · [fairness](#fairness-and-deadlock) ·
[proofs](#what-is-proved) · [findings](#disagreements-with-the-documentation) ·
[not modelled](#not-modelled) · [plan](#plan)

## The system

Paths are relative to `src/`.

| Component | State it keeps | Operations | What is hard | What makes it correct |
| --- | --- | --- | --- | --- |
| Turn lifecycle core (`authoritative-state`, `session-protocol/src/lifecycle`, `.../command`) | per session: turn records, the active turn, tombstones of replaced turns, command receipts, a mutation counter | eight lifecycle events, delete from a message, replace a turn | late and repeated commands, finalize steps that fail and are retried, links between a stopped turn and its continuation | one open turn and it is the active one; a record always passes the checks of the next load; nothing that was deleted or replaced comes back |
| Session message service (`agent/src/session/services/session-message-service`) | the messages | materialises user messages, persists terminal status, appends the agent's output, cuts messages | output that arrives after its turn is gone; optimistic concurrency by aggregate version | versions move with every message that opens a turn, and with every cut; a turn's messages carry the dialog process of its record |
| Session artifact store (`agent/src/session/session-artifact-session`) | `session.json`, a journal per turn, snapshot files | whole-session saves, turn-view saves, compaction, checkpoints, pruning, reads | a crash between any two file operations, a torn append, stale tails | what was committed stays readable; ids are never reused; a finished save leaves no journal or snapshot of a turn that is gone |
| Session repository (`.../repositories/file-system-session-repository`) | `sessions.json` (the list), session tree | reads without the lock, listing, creation, subtree deletion | reads racing saves | a read is of one save; the list agrees with the session |
| Authority event outbox (`agent/src/session/authority-outbox-store`, `event-protocol`) | journal of commit/attempt/ack/remove records, sequence floors | projection of receipts, delivery, acknowledgement, removal, compaction | crash between the save and the projection | every committed event is delivered at least once and none of a deleted turn is |
| Websocket run layer (`service/ws/chat-websocket`) | runs in memory, their sockets and abort controllers | accept, rebind, stop, time out, settle, recover after a restart | stop against completion against timeout, restart between two commits | every accepted turn settles; a turn runs once |
| File mutation lock (`agent/src/shared/storage/file-mutation-coordinator.js`) | lock files, waiter files, heartbeats | acquire, elect, reclaim a stale lock, release | two processes reclaiming at once | one holder |
| Agent proxy (`agent-proxy/src`) | per session a channel: its subscribers, a window of lifecycle events, one upstream connection, retention; per browser socket: deliveries without a receipt, a reconnect transaction | join or start a run, broadcast, retry, reconnect, query a snapshot, clean up | events during a reconnect, several reconnects at once, a query connection that a run takes over, browsers that vanish | a browser that reconnected is current; no delivery leaves it with an older event; every reconnect ends |
| Agent runtime, tools, models, workflow engine, plugins, connectors, model proxy, client | | | | out of scope of this stage, see [Not modelled](#not-modelled) |

How they interact. A client sends a command (send, continue, resend, stop, delete,
replace) over the websocket. The run layer turns it into lifecycle events, each
committed by the session message service: it takes the session's mutation lock
(`withSessionMutation`, a file lock shared by all processes), loads the session,
asks the lifecycle core for a decision, and saves the session through the artifact
store. The agent run appends messages and writes checkpoints through the same lock.
Events of committed receipts are projected into the outbox and delivered over the
websocket a command came from. That websocket is the agent proxy's, which keeps the
last events of a session in a channel and broadcasts them to the browsers that look at
it; a browser that was away reconnects to the channel. Readers (session list, history, recovery) go through the repository and
mostly do *not* take the lock.

The lock is the reason the project splits as it does: between commands of one
session nothing interleaves, so `TurnLifecycle` makes each handler one step;
inside one save only crashes and unlocked readers interfere, so
`SessionArtifact` takes it apart file by file; `FileMutationLock` looks at what the
lock itself is worth; and `TurnRun` is about what happens *between* the commits of a
turn, where handlers interleave and no lock is held.

Every hazard of these components is listed in `PROJECT.json`, at the line where it
bites, with the properties that cover it or the module planned for it.

## Modules and code

| Module | Models |
| --- | --- |
| `TurnLifecycle` | turn lifecycle core, session message service, the commands a client issues |
| `MCTurnLifecycle` | its TLC instance |
| `TurnLifecycleProofs`, `TurnHistoryProofs` | theorems about it |
| `AtomicStore` | what a session store promises |
| `SessionArtifact` | artifact store, save by save and file by file |
| `MCSessionArtifact` | its TLC instance |
| `SessionReads` | `SessionArtifact` with an unlocked reader and the session list |
| `MCSessionReads` | its TLC instance |
| `SessionArtifactProofs` | theorems about both |
| `SessionOutbox` | authority event outbox, its two locks, dispatchers and compaction |
| `MCSessionOutbox` | its TLC instance |
| `SessionOutboxProofs` | theorems about it |
| `FileMutationLock` | the lock file, its queue of waiters, leases and stale locks |
| `MCFileMutationLock` | its TLC instance |
| `FileMutationLockProofs` | theorems about it |
| `TurnRun` | websocket run layer: run commands, the registry, connections, stop, timeout, recovery |
| `MCTurnRun` | its TLC instance |
| `TurnRunProofs`, `TurnRunOpenProofs` | theorems about it |
| `ProxyChannel` | agent proxy: a channel, its upstream, deliveries and reconnects |
| `MCProxyChannel` | its TLC instance |
| `ProxyChannelProofs` | theorems about it |

### TurnLifecycle

One session. A step is one handler of the session message service run to its end;
a command the code rejects or deduplicates changes nothing and is a stuttering
step.

* `messages` keeps of a message what the lifecycle looks at: its turn scope, its
  dialog process, and its role: the assistant's, the user's where it opens a turn, or
  `injected`, which has the role of the user and the flag of an injected or a plugin
  message. `turns` is a total function, with
  `Absent` for scopes without a record. A record has the fields of
  `turn-lifecycle-transition.js` that a guard or a check reads.
* `replacedTurns[s]` is 0 or the sequence number of the tombstone.
  `commandReceipts` is a set ordered by `sequence`; the newest `ReceiptLimit`
  survive (200 in the code). The command id of a lifecycle event is derived from
  scope, event and failed phase, so `IsDuplicate` compares these; a delete or a
  replacement has a fresh id, for which its sequence number stands.
* `issued` is the client and the network in one: the command a client issued under
  a scope id, with the aggregate version it carries. It stays there, so it may be
  delivered late, again, or never. The client reissues it with the current version
  only after a version conflict (`ReissueAfterConflict`). Delete and replace carry
  the version the client sees when they run, so issuing and running them is one
  step; with any other version they are rejected.
* `AcceptSend`, `AcceptContinue` and `AcceptResend` are ACTION_ACCEPTED for the
  three kinds of command. The version check comes before the idempotency check, as
  in the code. Sending and continuing bump the version with the user message they
  materialise; resending finds its message in place and bumps nothing.
* `ProcessingStarted` … `StopCompleted`, `Failed` and `FinalizeFailed` are the
  other seven events. A terminal event is refused (`CanMaterializeTerminal`) when a
  message of the turn carries another dialog process than its record.
* `DeleteFrom` and `Replace` cut the messages from an anchor on and forget the
  turns of the messages they cut: record, receipts, and links in both directions.
  `Replace` also writes tombstones, adds the new user message and prepares the
  resend; it is refused when a turn that survives continues one that is cut.
* `AppendTurns` is what a run stores: the agent's output, and messages with the role of
  the user that context assembly, a plugin or an interjection adds
  (`turn-persister.js:245-250`). It looks at no lifecycle state at all and moves no
  version, as in the code, so it may arrive after its turn was settled, deleted or
  replaced. Whoever looks for the message that opens a turn skips the injected ones
  (`turn-state.js:478-480`); a replacement may take one as its anchor.

Left out: the `expectedRevision` guard of stop and recovery commands (leaving it out
allows more behaviours), the `retryable` flag of failures outside the finalize
steps (the code ignores it), binding attachments and user meta results (they rewrite
fields no guard reads), and the read-only repair view of orphaned turns.

### SessionArtifact

The files of one session and one save at a time. `Begin` is the load and the
decision of what to save; then each file operation is a step: `AppendJournal`,
`CompactJournal`, `WriteSnapshot` and `ResetJournal` per turn (in any order, which
includes the code's), `WriteManifest`, `PruneJournals`, `PruneSnapshots`,
`EndSave`. `Abort` cuts the save short between any two of them, `TornAppend` in the
middle of an append, and `CutReplacement` in the middle of any of the four steps that
replace a file, after the temporary file was written and before it is renamed; whether
the process dies or an I/O call throws. `temps` has the saves that left a temporary
file so. Pruning does not look at these files, and nothing reads them.

The data is reduced to what tells a right read from a wrong one. The content of a
turn is the number of the save that last changed it; a journal is a sequence of
batches `[from, to]`, one per save; reading (`Materialize`) folds the snapshots
and the committed prefix, and yields a content, `Unreadable`, or `Mixed` when the
batches do not belong together. The committed length in bytes becomes a number
of batches, with `Partial` for a prefix that ends inside a line. How a compacted
journal compares byte by byte with the file it replaces depends on the messages, so
`Compacted` offers all three cases: the same prefix, a shorter file, a prefix cut
in the middle of a line.

Saves that meet a session which does not read as its manifest says throw in the code
and are not followed further (`BeginSave`). Left out: the in-process caches of
materialised turns (validated by device and inode), the checkpoint receipts, more
than one new turn per save, cutting a turn in its middle, the rewrite
of older layouts, and the maintenance command that lists and removes unknown files
(`session-artifact-maintenance.js`), temporary ones included.

### SessionReads

Adds a reader that takes no lock (`findById`, `findTurnView`,
`readSessionDisplaySummary`): the manifest in one step, then one turn per step, while
a save goes on. A failed read marks the session unavailable in the list, under
the list's lock only; the end of a save lists it as available.

### SessionOutbox

The events of one session from their commit to their delivery. An event is the number
of its commit, `committed[e]` its turn, ordering scope and sequence number.

* There are two kinds of events. A *lifecycle* event is committed by the manifest that
  carries its receipt (`WriteManifest`) and is numbered by the lifecycle; it gets
  into `outbox.jsonl` by `Materialize` (`projectCommittedTurnOutbox`): in the command
  itself, at the latest before the next save replaces the manifest
  (`MaterializePrevious`), or at any read of the outbox. A *message* event of a run
  is appended directly (`CommitMessage`) under the next number of its scope.
* A command takes the steps begin, materialize, write, publish (or, for a deletion or a
  replacement, `RemoveScopes`), with `command` standing for the lifecycle lock it holds;
  `CommitMessage` needs that lock too and is one step, since it holds the outbox lock
  as well. `compacting` stands for the outbox lock during the two writes of a
  compaction. The manifest write takes no outbox lock and so interleaves with it.
* `outbox.jsonl` is kept as what the fold of its lines yields: `journal` (commits not
  removed), `tombstones`, `attempted`, `delivered`, and in `tail` how the file ends. An
  append (`Appends`) may die after any number of whole lines (`clean`), inside a line
  (`torn`: no read succeeds any more) or before the newline of a line (`open`: it
  still parses, but the next append is glued to it).
* A dispatcher reads its batch, records the attempts, sends event by event and
  acknowledges what it sent, taking the outbox lock for each step and keeping none in
  between. Connections of the service share one consumer.
* `CommandFails`, `CompactionFails` and `Crash` interrupt at any step; `Restart` finds
  what is on disk. A repeated command is answered from its receipt and changes nothing.

Left out: session artifact events (their commit rewrites the session as well),
the dispatcher's dirty flag and compaction interval (a dispatcher may drain, and an
idle one compact, at any time), and the repair of a torn file, for which the code
has no operation.

### FileMutationLock

One lock path and the calls of `run` for it, each a process (`pc`).

* `CreateWaiter`, `ListWaiters`, `InspectWaiter` and `PublishTicket` are queueing: a
  waiter file is created without a ticket, the directory is listed in one step, its
  files are inspected one per step, and the file is renamed to carry the highest ticket
  seen plus one. The same listing precedes every election (`IsElected`). `file[r]` is
  the waiter file of a request (`NoFile`, `Choosing` or its ticket), `unread` and
  `live` are its last listing.
* An elected request tries to create the lock (`OpenLock`); finding one, it looks whether
  that is gone, fresh or stale (`ResolveCreateFailure`) and renames a stale one away
  (`ReclaimStaleLock`). The lock may change between any two of these steps, and the
  rename takes whatever is there.
* `EndOperation` compares the token, `RemoveLock` removes the file: two steps, as in the
  code.
* Time is reduced to which files are stale (`late`). Those of a dead request become so
  (`LeaseExpires`); those of a live one may (`MissHeartbeats`, bounded) until it gets to
  its timer again (`Heartbeat`). `Crash` takes a request away between two steps and
  leaves its files. `GiveUp` is the deadline, which the code looks at between polls only.

Left out: nested calls (they run at once), errors of the file system other than the
expected ENOENT and EEXIST, and the target of a reclaiming rename.

### TurnRun

The turns of one session and the handlers that work on them, one per run command. A step
is the code between two awaits; a commit of the lifecycle is one step because it holds
the session's lock. Of a turn only the set of `applied` events is kept, which determines
its state; the guards are those of `TurnLifecycle`.

* `Receive` is `onMessage` up to the check that the connection runs nothing.
  `BindExistingRun` attaches to the run of the turn when the registry has one that is not
  aborted; otherwise `ReserveRun` takes the connection and registers a handle.
  `CommitAction` has the command accepted, once more after recovering the turn that is
  in the way. `ActivateRun` names the run after its turn and dialog process, `ExecuteRun`
  schedules the timeout and starts the agent.
* `AgentEnds` is the agent returning or throwing. What follows is decided from the state
  of the connection (`FinalizeRunResult`, or `Catch` after an error) and committed an
  await later. `ReleaseRun` is the `finally` clause.
* A connection's state (`conn`) belongs to the connection, not to the handler: the timer,
  the abort signal, the run's meta data are read from there when they are used. So two
  commands that pass the check of one connection (`overlapped`) get in each other's way.
* A stop is `AcceptStop`, then `AbortRegisteredRun` or, without a run,
  `CompleteIdleStop`. It may come at any time and be repeated.
* Recovery reads a turn, looks for its run and later commits what it decided, on
  condition that the turn is still the one it read: `AssessTurnRecovery` and
  `RecoverActiveTurn` for a client that asks, the same for a command in whose way the
  turn is. `RestartService` forgets everything in memory and recovers the open turn.
* `Commit` may apply an event and then throw, because the events are dispatched before
  it returns (`turn-lifecycle-bridge.js`). A repeated send is refused, since it carries
  the version from before its first acceptance; a repeated resend is a duplicate, and
  the code runs its agent again.

Left out: which connection gets a run's events (closing a websocket only detaches it),
the in-process transport (which aborts its runs on closing), interjections and
interactions, turns that are deleted or replaced while they run, the grace period of
recovery, and failures of a finalize step that may be retried: the one that follows a
refused COMPLETED (`terminal-outcomes.js:150`), say. Such a failure does not settle the
turn; one that waits for its completion goes on waiting for it.

### ProxyChannel

One channel of the agent proxy between the service and the browsers. The proxy is one
thread; a step is the code between two awaits.

* `log` and `runner` are the service: the events it has committed for the session's
  turns, and the turn it runs. `sent` of them have reached the proxy, in their order;
  they are sent over a connection once a run command has come over it (`up.bound`).
  `RunArrives` is such a command, `Commit` the run going on, `RunLost` its end without
  a last event.
* `up` is the upstream transport. Its generation tells a connection from the one before;
  its purpose says whether a reconnect may close it (`CloseOwned`). A run command that
  is forwarded claims it.
* `chan` is the channel: window, journal (by where it begins), subscribers, whether a run
  goes on, whether it is kept only for a while. `EventArrives` records an event and
  sends it to the subscribers, or buffers it for those that reconnect.
* `flight` holds what waits for a receipt: one event per turn and socket. Events are sent
  one by one; one is not sent when a later one of its turn is in flight, and supersedes
  an earlier one. A set of events that one step sends is `Delivered` in that order, and
  `Rewinds` tells whether one of them is older than what was sent before. `Retry` sends
  what is in flight again and in the end gives the socket up.
* `Reconnect` cancels the socket's earlier reconnect and subscribes it; then it is
  answered from the window, or waits for a snapshot (`Prepare`). Without a
  channel one is provisioned first, and `Provisioned` goes on from what it finds then.
  `Read` is the service, `Answered` and `Rejected` the two ends; a snapshot that
  finds a turn nobody runs may ask for recovery (within the grace period it does not),
  and is followed by a finalize then.
* An answer from a snapshot (`Publish`) tells of the turns the snapshot has, the open one
  and the `TerminalLimit` that ended last (`Covered`), then of the window's events
  *after* the snapshot, then of what was buffered. The window's events up to the snapshot
  are dropped, of other turns as well.
* `ReleaseSocket` and `Cleanup` take sockets and channels away, with what belongs to them.
  `seen` is what the browsers have. History is `frame`, the last event of each turn that
  was sent to a socket; `rewound`, the sockets that were sent an event after a later
  one; `joined`, those that joined a run while their reconnect waited; and `current`, the
  turns the last completed reconnect of a socket brought up to date.

Left out: other events, interactions and channel states, stop and execution queries,
child sessions (several channels), sockets that are slow, the journal's limit,
authentication, and events that the service sends again because an acknowledgement
was lost (`SessionOutbox` has them).

### AtomicStore

The promise `SessionArtifact` is measured against: what a reader finds changes in one
step from what was stored to what a save asked for, or not at all.

## What the runs check

| Run | Instance | Shows |
| --- | --- | --- |
| `lifecycle` | 3 scopes, from an empty session; 8 mutations, 10 in sessions whose first turn was stopped, an injected message up to 6; 970 000 states | `OpenTurnIsActive`, `RecordIntegrity`, `ReplacedNeverMaterialized`, `ReceiptsMatchTurns`, `ActiveTurnCanSettle`, `ContinuationRelation`; as action properties `DeletedNeverRecreated`, `StopIsFinal`, `SettledIsImmutable`, `UserMessagesMoveVersion` |
| `artifact` | 3 turns, 5 saves of every kind; 307 000 states | `ManifestOK`, `NoOrphans`; as action properties `CommittedReads`, `JournalIdentity`, `SnapshotsAreImmutable`, `OnlyRewriteBreaks` |
| `unlocked_reads` | 3 turns, 4 saves that append or remove, a reader; 213 000 states | `SavesAreAtomic`: the store implements `AtomicStore`; `ReadsAreSnapshots` |
| `read_race` | 2 turns, 3 saves that append or settle | a counterexample to `UnavailableOnlyIfUnreadable` |
| `outbox` | 2 turns, 1 connection, 3 events, 2 faults; 880 000 states | `JournalOK`, `NothingIsLostOrReturns`, `SequencesIncrease` |
| `outbox_delivery` | 1 turn, 2 connections and the command line, 2 events; 116 000 states | `SentInOrder`, `AttemptsAreKept`, `RemovedTurnsAreSilent` |
| `removal_fault` | 1 turn, 1 connection, 1 fault | a counterexample to `RemovedTurnsAreSilent` |
| `lock` | 3 requests, of which one died holding the lock and one more may die, 1 missed lease; 133 000 states | `ExclusiveUnlessOverlooked`, `ServedInOrder`; liveness `EveryWaiterIsServed` |
| `lock_overlooked` | 3 requests, of which one died holding the lock, nobody suspended | a counterexample to `MutualExclusion` |
| `turn_run` | 2 turns, 2 handlers, 2 connections, 1 mishap; 303 000 states | `RunsAreRegistered`, `AgentsWorkOnOpenTurns`; liveness `EveryTurnSettles`, `ConnectionsAreFreed` |
| `stop_lost` | 1 send whose agent neither fails nor runs out of time, no mishap | a counterexample to `StopIsHonoured` |
| `proxy_channel` | 1 or 2 browsers, 2 reconnects, 2 commands, 4 events, 1 ended turn in a snapshot, 1 lost upstream or run; 350 000 states | `SubscribersOK`, `CompletedMeansCurrent`; as action properties `SilenceHasReason`, `NoFrameGoesBack`, `QueriesLeaveRunsAlone`; liveness `NothingHangs` |

The runs `lifecycle`, `lock` and `turn_run` check the type invariant as well; `ManifestOK`
(no turn waits for a rewrite), `JournalOK` (commit order) and `SubscribersOK` (closed
sockets are detached) have the one of their module as a conjunct. Some of the less
obvious results:

* `DeletedNeverRecreated`: a deletion leaves no tombstone and drops the receipts of
  what it deletes. Only the aggregate version keeps a repeated command of a deleted
  turn out, and it does because every accepted turn was followed by a change of the
  version: for a sent or continued turn its acceptance, for a resent turn the very
  deletion.
* `ActiveTurnCanSettle`: a terminal event is refused for good if one message of the
  turn has the wrong dialog process. That the resend reuses the dialog process the
  replacement allocated, and late output the one it was started with, is what
  excludes it.
* `UserMessagesMoveVersion` is what the optimistic concurrency of the commands rests on,
  and it is weaker than its name: not every message with the role of the user moves the
  version, only the ones that open a turn do, and cuts. What comes under the same version
  is messages of accepted runs, at the end. So a client whose version is accepted may
  have missed output, injected context and interjections, but no turn.
* `NoOrphans` is about journals and snapshots. A temporary file of a save that was cut
  short in a replacement stays: pruning looks at `.json` and `.jsonl` only
  (`session-artifact-writer.js:276-278`). The property says how far that goes: the save
  that has finished left none, and a save that did leave one has committed nothing the
  manifest lists.
* `OnlyRewriteBreaks` and `SavesAreAtomic` belong together. A save is *not* atomic
  in general: compacting the journal of a turn that has just settled, or resetting it
  after a checkpoint, replaces the journal by a rename before the manifest, and a crash
  in between can leave a turn whose committed length its journal does not have.
  `OnlyRewriteBreaks` says that these two steps, on the turn being written, are the
  only ones that ever do this; `SavesAreAtomic` that without them (Operations =
  {"remove"}) a save is atomic, crash or not.
* `CommittedReads` says the damage goes no further: whatever such a crash and
  earlier aborted saves left behind, a save that reaches its manifest commits turns
  that read as it meant them.

* `NothingIsLostOrReturns` divides the committed events in two: those that have left the
  outbox (`gone`), and those a read of it finds, with the receipts it would copy. No event is
  in neither and none in both. The two halves pull in opposite directions. What a
  compaction reclaims may still have a receipt, and the floors keep it out; a floor that
  rises too far would keep out an event that was never copied. They do not, because
  the floors are taken from the outbox *after* it was brought up to date under the same
  lock, and lifecycle events are numbered in the order of their commits.
* `SequencesIncrease` has an exception: the message scope of a removed turn whose run
  goes on counts again from the floor, for its events are gone from the outbox and
  no floor records them.
* `AttemptsAreKept` is as far as the promise to a consumer goes: an event is reclaimed
  when all consumers *with an entry* have acknowledged it, so a consumer that
  never tried (the command line, say) may never see it.

* `ExclusiveUnlessOverlooked` is mutual exclusion with its two exceptions: a live request
  that missed its heartbeats for a whole lease, and an election that overlooked a waiter
  being renamed (the second is the finding below). Crashes, deadlines and reclaiming
  alone never let a second holder in, because only an elected waiter touches a lock
  that is not its own, and a waiter with a ticket stays first until it is through.
* `ServedInOrder` holds even with missed leases: a ticket that was published before
  another request began to queue is in the listing that numbers it.
* `EveryTurnSettles` is carried by three things together: an error path of a handler
  releases its run, so recovery does not take a dead run for alive; the timeout aborts
  an agent that does not end; and whoever asks next gets a turn without a run
  finalized or failed. The stop handler is not one of them: it may hang or die.
* `RunsAreRegistered` and `AgentsWorkOnOpenTurns` are what keeps a stop or a recovery from
  settling a turn that an agent works on. They are broken by two commands that pass the
  check of one connection (`overlapped`), and for single runs (`lost`) in three ways: a
  rebinding that throws unregisters the run it failed to bind to; if another command was
  activated on its connection meanwhile, its catch clause settles that command's turn as
  failed (`message-run-handler.js:60-70`, `command-stage.js:72-98`); and a run that was
  aborted between its reservation and its activation is activated all the same
  (`active-run-stage.js:89-98`) and takes the registration of the run that has
  replaced it. The properties name all of them, and the theorems show there are no others.

* `CompletedMeansCurrent` is what a reconnect is for. The snapshot is read some time
  before it arrives, and the proxy goes on receiving: that nothing falls between the two
  is due to the socket subscribing and buffering in the step that asks for the snapshot.
  It speaks of the turns the answer covers. The proxy asks for the ten turns that ended
  last (`session-replay.js:81`, `authority-query-service.js:48-57`) and drops the window's
  events up to the snapshot (`snapshot-transaction.js:49`): if more turns of the window
  have ended, the browser gets nothing of the older ones.
* `SilenceHasReason` names all ends without an answer: the socket was closed, another
  reconnect of the socket took over, or the channel was deleted. In the last case
  the pending command is removed without being settled (`command-registry.js:92-97`), with
  the socket open and no other reconnect, and the browser relies on its own timeout. What the
  property excludes is that this happens to a channel in use, or to an unused one:
  the channel's run ended, and it was kept long after that. A reconnect does not
  prolong that.
* `SubscribersOK` names its hole, and `SilenceHasReason` the same one. A
  reconnect that provisions the channel waits for its upstream, and afterwards does not look
  whether the socket is still open or has reconnected in the meantime
  (`reconnect.js:105`): it may subscribe a closed socket, and take the place of a newer
  reconnect, whose answer is then dropped.
* `NoFrameGoesBack` has two halves. What a socket was sent last of a turn never gets
  older: that is the invariant a browser needs which keeps the last it was told. On the
  way, events may go back. A join replays the journal from the number it is given. And
  if a socket joins while its reconnect waits, what the join replays is buffered already;
  once the browser has confirmed the later of two events, nothing is in flight, and the
  answer sends both again, the older one first (`reconnect-publisher.js:33-48`). The
  property says there is no third case: without a join the buffer has later events only.
* `NothingHangs` counts as an end that the channel is cleaned up.
* A browser reconnects with *one* number, the largest sequence it has
  (`authoritativeTurnRuntime.js:60`), and the window is searched from there
  (`session-replay.js`). The number does not say that it has everything before. If a
  reconnect is rejected, its buffer is discarded, with the end of a turn, say; the
  socket stays subscribed and is sent the events of the next turn; the reconnect after
  that names one of these and is answered with nothing. So `CompletedMeansCurrent` counts an
  answer from the window only for the turns of which the browser has what its number claims
  (`HasUpTo`), and an answer from a snapshot for all it covers.
  TLC finds the gap once the window holds three
  events; the attempt to prove the property without the condition led to it.
* `CompletedMeansCurrent` speaks of completed reconnects and measures against the window.
  A send during a reconnect restarts the upstream (`channel-flow.js:287`), the snapshot
  is never answered, and the rejection discards what was buffered; a
  provisioned channel has no window, so a browser that knows no event is answered with
  nothing whatever the service is doing (`session-replay.js:144`). Both rely on what
  the browser does next.
* `QueriesLeaveRunsAlone` rests on the purpose of the connection, not on who opened it: a
  continue may be forwarded over a connection a reconnect opened for its query.

Each property is paired in `PROJECT.json` with a mutant, a plausible bug in a
mapped definition that makes TLC report that property. The mutated forms stand next to
the definitions they replace, marked `mutant:`.

### Bounds

* Scopes: three are the smallest number with a deleted or replaced turn, its
  continuation or resend, and a bystander. Scope ids are only compared for
  equality, so they are a symmetry set.
* `MaxSequence` bounds lifecycle mutations. A turn takes five to be stopped and four to
  complete, so eight allow a whole turn, a cut, and a new turn up to its start.
  Continuations need five mutations before they begin: `Focus` in `MCTurnLifecycle`
  lets a session whose first turn was stopped go on to `MaxSequence` = 10 and four
  messages; every other session ends when it has eight mutations or more than three messages.
  `FewInjected` allows one injected message, in sessions of up to six mutations: it is
  enough for one that comes late, is cut, or is a replacement's anchor.
* `MaxMessages` bounds the agent's appends only; the commands may go beyond it.
* `ReceiptLimit` = 2 stands for 200: receipts are evicted within the run, so
  idempotency is checked with and without the receipt.
* `MaxSaves` counts saves begun, aborted ones included. Five cover: a committed turn,
  an aborted save that leaves something behind, a removal, a new turn, and a save
  that cleans up. Every id and content is at most `MaxSaves`.

* `SessionOutbox`: `ReceiptLimit` = 1 in `outbox`, so that every command evicts the
  receipt before it. Three events cover an event that was not published, the command of
  another turn that evicts it, and a message; two faults a failure and a crash on top
  of it. `outbox_delivery` trades events and faults for dispatchers: two events of
  one scope show their order, and three dispatchers the sharing of a consumer and a
  second one. `BatchSize` = 2 lets a batch be acknowledged in part.

* `FileMutationLock`: three requests are a dead holder and two waiters that race to
  reclaim its lock, which is where two can be elected. `MaxCrashes` = 2 counts the
  dead holder; `MaxStalls` = 1 lets a live request lose its waiter file or its lock once.
* `TurnRun`: `Commands` is the bound that matters. A resend runs on one connection, and the
  second command is its repetition over another connection (it binds, or runs
  again) or a send of another turn over the same one (it is refused, recovers the turn
  in its way, or overlaps). `MaxMishaps` counts dispatches that throw,
  restarts and overlaps: with one, each of them meets every step of both handlers, any
  stop, timeout or failing agent included. Stops, timeouts, failing agents and
  recoveries are not bounded: the set of applied events is finite. Some interleavings
  need three commands (two of the three ways to `lost` above do) or a second mishap;
  for the safety properties the theorems cover any number of them.

* `ProxyChannel`: two browsers, each able to reconnect while the other does, or one that
  reconnects twice; two sends per delivery, so one is retried and one is the last; a
  window of three events, so it forgets one of the four and still spans two turns; four
  events, a run and the beginning of another; `TerminalLimit` = 1 for 10, so that the turn
  that ended before the last is not covered. The product of all this is too large, so `Focus` in
  `MCProxyChannel` explores four parts: one browser with two commands or faults (all
  three while a run has two events); one browser with receipts, retries and
  disappearance over one run without a fault; two browsers over one run of two events
  without a fault; two browsers of which one reconnects, joins the other's run and sends
  receipts (`Joining`), which is how events go back. In the first and third receipts and
  retries do not happen: what was delivered stays in flight.

### Fairness and deadlock

Three specifications assume fairness, all weak.

* `FileMutationLock!Fairness`: a request that is alive goes on with what it does
  (`Progress`: the event loop resumes it, and its operation ends), the leases of dead
  requests run out, and a suspended request gets to its heartbeat again. Nobody has to
  start queueing, die, or give up.
* `TurnRun!Fairness`: a handler goes on, its timer fires, and an agent ends *once it is
  aborted* (`AgentObeysAbort`; every model call and tool gets the abort signal); somebody
  asks for open turns to be finalized (a client does when it loads a session with one,
  and the next command does). An agent that is not aborted need never end, nobody has
  to stop anything, and stop handlers need not get to their end.

* `ProxyChannel!Fairness` is the proxy's timers and nothing else: the wait for a
  provisioned channel has a deadline (`reconnect.js:51`), a pending snapshot a timeout
  (`session-replay.js:51`), a delivery is retried until its receipt, and a socket the
  proxy has closed is seen to be closed. No upstream has to open, no service to answer,
  no browser to send receipts.

Elsewhere nothing is assumed: a user may walk away. `CHECK_DEADLOCK FALSE`
is set in every run because the
bounds end the exploration and because a session may really stop: nothing happens
in it until a user acts.

## What is proved

Each component's module has theorems. Each theorem is about the module's `Spec` for any
values of its constants that satisfy its assumptions, which TLC evaluates on every run of
the module:
`TurnLifecycle` for any set of scopes, any positive receipt limit and any bounds;
`FileMutationLock` for any set of requests and any number of crashes and stalls;
`TurnRun` for any sets of turns, resends, commands and connections and any number of
mishaps; `SessionArtifact` for any set of turns, any choice of its operations and any
number of saves; `SessionOutbox` for any turns, consumers and dispatchers, any positive
receipt limit and batch size, and any number of events and faults; `ProxyChannel` for any
sockets, any window, limit of a snapshot and number of attempts, and any numbers of turns,
events, reconnects, commands and faults. What they take for granted of the constants is that the model values
differ (`NoScope` is no scope, `NoRun` no handler, `NoTurn` no turn, `NoSocket` no socket),
that bounds are natural numbers, that `Operations` names operations of the store and that
every dispatcher has a consumer.

| Theorem | Module | Statement |
| --- | --- | --- |
| `TypeCorrect` | `TurnLifecycleProofs` | `Spec => []TypeOK` |
| `OneOpenTurn` | `TurnLifecycleProofs` | `Spec => []OpenTurnIsActive` |
| `ReplacedStaysAway` | `TurnLifecycleProofs` | `Spec => []ReplacedNeverMaterialized` |
| `RecordsAreSound` | `TurnLifecycleProofs` | `Spec => []RecordIntegrity` |
| `SettledStays` | `TurnLifecycleProofs` | `Spec => SettledIsImmutable` |
| `DeletedStaysDeleted` | `TurnHistoryProofs` | `Spec => DeletedNeverRecreated` |
| `ActiveTurnSettles` | `TurnHistoryProofs` | `Spec => []ActiveTurnCanSettle` |
| `UserMessagesVersioned` | `TurnHistoryProofs` | `Spec => UserMessagesMoveVersion` |
| `ReceiptsMatch` | `TurnHistoryProofs` | `Spec => []ReceiptsMatchTurns` |
| `StopStays` | `TurnHistoryProofs` | `Spec => StopIsFinal` |
| `ContinuationsMatch` | `TurnHistoryProofs` | `Spec => []ContinuationRelation` |
| `LockTypes` | `FileMutationLockProofs` | `Spec => []TypeOK` |
| `LockServesInOrder` | `FileMutationLockProofs` | `Spec => []ServedInOrder` |
| `LockExcludes` | `FileMutationLockProofs` | `Spec => []ExclusiveUnlessOverlooked` |
| `RunTypes` | `TurnRunProofs` | `Spec => []TypeOK` |
| `RunsFound` | `TurnRunProofs` | `Spec => []RunsAreRegistered` |
| `AgentsOnOpenTurns` | `TurnRunOpenProofs` | `Spec => []AgentsWorkOnOpenTurns` |
| `ManifestIsSound` | `SessionArtifactProofs` | `Spec => []ManifestOK` |
| `NothingIsOrphaned` | `SessionArtifactProofs` | `Spec => []NoOrphans` |
| `IdsAreNew` | `SessionArtifactProofs` | `Spec => JournalIdentity` |
| `SnapshotsStay` | `SessionArtifactProofs` | `Spec => SnapshotsAreImmutable` |
| `WhatIsCommittedReads` | `SessionArtifactProofs` | `Spec => CommittedReads` |
| `RewritesAlone` | `SessionArtifactProofs` | `Spec => OnlyRewriteBreaks` |
| `RemovalsAreAtomic` | `SessionArtifactProofs` | `Spec => SavesAreAtomic` if `Operations` is within `{"remove"}` |
| `UnlockedReadsAreSound` | `SessionArtifactProofs` | `ReadsSpec => []ReadsAreSnapshots` if `Operations` is within `{"remove"}` |
| `JournalIsInOrder` | `SessionOutboxProofs` | `Spec => []JournalOK` |
| `NoEventIsLostOrReturns` | `SessionOutboxProofs` | `Spec => []NothingIsLostOrReturns` |
| `SequencesAlwaysIncrease` | `SessionOutboxProofs` | `Spec => []SequencesIncrease` |
| `DeliveryIsInOrder` | `SessionOutboxProofs` | `Spec => []SentInOrder` |
| `NoAttemptIsDropped` | `SessionOutboxProofs` | `Spec => []AttemptsAreKept` |
| `RemovalSilencesTurns` | `SessionOutboxProofs` | `Spec => [](faults = 0 => RemovedTurnsAreSilent)` |
| `SubscribersAreThere` | `ProxyChannelProofs` | `Spec => []SubscribersOK` |
| `SilenceIsExplained` | `ProxyChannelProofs` | `Spec => SilenceHasReason` |
| `CompletedIsCurrent` | `ProxyChannelProofs` | `Spec => []CompletedMeansCurrent` |
| `FramesOnlyAdvance` | `ProxyChannelProofs` | `Spec => NoFrameGoesBack` |
| `RunsAreLeftAlone` | `ProxyChannelProofs` | `Spec => QueriesLeaveRunsAlone` |

So every safety property a passing run checks is a theorem too, under the condition on the
constants the run meets: reads and the refinement where nothing is rewritten
(`unlocked_reads`), the silence of removed turns where nothing fails
(`outbox_delivery`). Neither condition can be dropped for reads and removals, as
`read_race` and `removal_fault` show.

### The lifecycle

Instead of one case for each of the sixteen actions in every theorem,
each action is shown once to have one of a few shapes: it leaves the lifecycle alone
(`LifecycleKept`), accepts a turn under an unused scope id (`AcceptedStep`), revises
one turn that is open (`OpenStep`), or forgets a set of turns (`ForgetStep`); turns
it is not about are at most `Relinked`. `StepShape` says these are all. The
theorems then go shape by shape:

* `TypeOK` is inductive, over lemmas that type the operators the actions share.
  `OpenTurnIsActive`, `RecordIntegrity` and `ReplacedNeverMaterialized` are
  inductive given `TypeOK`; `OpenStep` carries "a sound record stays sound".
* `DeletedNeverRecreated` needs `CommandInv`: no command carries a newer version than
  the session's, every turn stems from an accepted command, and an accepted command
  *without* a turn carries an *older* version. The last part is the point:
  a command is accepted only with the current version, and whatever removes its
  turn moves the version past it.
* `ActiveTurnCanSettle` needs `DialogInv`: every message carries the dialog process of
  the command of its scope, and only an accepted command or one prepared by a
  replacement has messages; so the process chosen on acceptance cannot clash with
  messages already there. That the command was not accepted before is `CommandInv`.
* `ReceiptsMatchTurns` needs that no record is newer than the session.
* `UserMessagesMoveVersion` needs no invariant: every step that leaves the version alone
  either leaves the messages alone or is an append of an accepted scope.
* `StopIsFinal` needs `StopInv`: a stopped turn is in none of the states of
  completion and has no completion intent; `RecordIntegrity` supplies that a
  turn which may be stopped has no intent.
* `ContinuationRelation` needs `LinksInv`: sources are turns of the session and
  a turn that does not exist has no links. Its core is `OnlyStoppedContinued`:
  a turn that is not stopped takes no part in the relation, so neither an event nor a
  new turn can break it; a cut clears both ends.

### The lock

* `LockServesInOrder`: a ticket published before another request began to queue is in
  every listing that request makes, as long as its owner has not been served; so the
  later request numbers itself above it and is not elected before it.
* `LockExcludes` needs `Undisturbed => Safe`: as long as no live request lost its
  heartbeats and no election overlooked a waiter, the request that is elected, or has
  the lock, is first of all that have a ticket, and every other one is behind it or has
  yet to inspect its waiter file. Mutual exclusion as it stands is far from
  inductive: nothing in it says why a second waiter, which lists the directory while the
  first is opening the lock, will not get past its election.
* The runs start in `AbandonedInit`, a state with a lock left by a dead holder. It is
  reachable from `Init`, so the theorems about `Spec` cover it.

### The run layer

Both theorems are about states in which no two commands passed the check of one
connection; that history never turns back (`OverlapsLast`).

* `RunInv` is about ownership. A handler that reserved a run owns it, and with it its
  connection, until it releases both (`OwnersFit`): the connection carries its handle, its
  signal, and no turn but its own. A received command finds its connection unowned
  (`ReceivedFit`); a connection names the turn of its owner (`MetaFits`); the registry
  names owners only (`RegistryFits`). A handler bound to the run of another is on
  another connection and ends without touching that run, unless the rebinding failed
  (`BindingsFit`). With these, no step but an activation and a failed rebinding takes the
  run of an owner that is neither aborted nor `lost` from the registry (`Registered`).
* `OpenInv` adds what happens to the turns. A sent turn is accepted once, when it has no
  events, so at most one run is ever begun on it (`BegunOnce`). Everybody who may
  settle the turn has seen, at a moment when the turn had events, that no active run
  works on it: an idle stop and a recovery because the registry had none
  (`StopsFit`, `SnapsFit`, the latter only while its snapshot is that of the turn),
  and a handler that settles what its connection names because it is the run, or has
  hit it (`TargetsFit`). From then on none can begin (`NobodyStays`). So the turn
  of an active run gets no event that settles it (`ActiveOpen`).

Looking for these invariants with three commands showed that two of the ways to `lost`
were missing from the properties; they are in the code.

### The artifact store

All seven theorems rest on one invariant, `IInv`. None of the properties is inductive:
that a turn reads once the manifest lists it depends on what the save wrote steps
earlier, over files that saves cut short may have left.

* `ManifestIds`, `PlannedIds`: the turns of the manifest, and those of the save under way,
  have different ids; a turn keeps its id or gets one above all the manifest has given.
  So the journal a save writes belongs to no other turn (`OwnJournal`), and what an
  interrupted save left under a new id is overwritten before the id is committed.
* `Planned`, `Clean`: a turn that is still to be written is planned as the manifest has it,
  but for its new content and at most one checkpoint more; whatever needs a rewrite
  is to be written, so that none is left when the manifest is replaced.
* `PendingFit`, `WrittenFit`: the committed part of a journal folds, over the last
  checkpoint, to the content of the manifest until the save writes the turn, and to the
  planned content afterwards. An append keeps the first while it makes the second: that
  is why a save cut short before the manifest does no harm, and a rewrite does.
* `TempsFit`, on top of `IInv`: a save that left a temporary file is not the one under way,
  and no item of the manifest or of the save under way stems from it. `NoOrphans` needs it.
* `FilesApart`, `Committed`: a snapshot's name stands for one content; once the manifest
  is replaced, its snapshots are there, and what it does not name has gone, step by step.
* `Untouched`: where saves only append and remove, nothing is rewritten, so every
  listed turn reads at all times. It is what makes `RemovalsAreAtomic` go through:
  the content of the abstract store is that of the manifest, it changes when the manifest
  is replaced, and every other step is a stutter or the bookkeeping of a save.

* `UnlockedReadsAreSound` adds what the items a reader holds are good for (`Holds`): the id
  is nobody else's; as long as the turn is listed, the journal begins with the batches
  the item has committed; once the turn was removed it does, or it is too short and the
  reader notices. Journals of listed turns only grow meanwhile (`Grows`).

### The outbox

One invariant, `IInv`, with all six properties as parts or consequences. What the code
relies on without saying so is in these:

* `CommitsFit`: the session's own scope is numbered by the manifest, a message scope
  belongs to the turn of its name, and no floor of the session's scope is ahead of the
  manifest.
* `ReceiptsFit`, `CommandFits`: the receipts are ordered and of turns that are there; at
  most one is missing in the journal, that of the very last commit; and none from the time a
  command has materialized until it writes the manifest. This is what makes it safe for
  a manifest to drop its oldest receipt.
* `JournalFits`: what has left the outbox was removed with its turn or lies below the floor
  of its scope, and so does what a compaction is about to reclaim. That is why neither
  a dropped tombstone nor a receipt that is still there brings an event back.
* `DispatchFits`: a batch is ordered, sent up to where its dispatcher is, and whatever of its
  scopes comes earlier and is not in it was sent or has gone. `SentInOrder` follows for a
  batch that was read long before, since what is committed meanwhile comes behind it.
* `AttemptsFit` and `Silent`: a compaction reclaims what was attempted for a consumer only once
  that consumer has acknowledged it; before the first fault an event of a removed turn is pending
  only while its command goes on.

The model filters sequences by taking the indices that stay in ascending order
(`Ascending`, `Filter`). `SelectSeq`, which it resembles, is defined by recursion and out of
the provers' reach; `Ascending` counts, and `SessionOutboxProofs` begins with what it
yields: each number of a finite set once, in order.

### The proxy

`IInv` has a part for each thing a reconnect can leave in disorder. The steps are divided
in two: those that leave the reconnects alone (`QuietStep`) are shown once to do so
(`Quiet`); each of the others (`LoudStep`) has a lemma that says what it makes of the
channel, the requests and the socket, and the parts of the invariant follow from these.

* `Subscribed` and `Histories` are the types and `SubscribersOK`.
* `ChannelFits`: a channel that does not exist is empty and has no connection; the window
  has only events that arrived; an idle connection has no purpose.
* `RequestsFit`: reconnects are used in their order, and while one is pending there is a
  channel. `TransactionsFit`: the transaction of a socket is a reconnect of that
  socket; one that waits *without* it lost it to a reconnect that came back from
  provisioning. Without that,
  `SilenceHasReason` does not go through a step of `Answered`.
* `FramesFit`: what is in flight of a turn is what was sent of it last; a buffer has
  everything from its first event on, so that what it ends with is not older than what was
  sent before it (`FrameMoves`). `BuffersFit`: what is buffered for a socket that has not
  joined meanwhile is later than all it was sent; so only a join, or the answer after
  one, sends an older event (`Rewinding`).
* `AnswersFit`: what is in the window and not covered by the snapshot that was read is
  in the buffer of the reconnect. When the snapshot is read everything that has arrived
  is covered; from then on the buffer grows with the window. A browser has all
  the window's events of the turns in which it is current, for a snapshot those it
  covers (`Covered`); `CompletedMeansCurrent` states it for the last of each.
* `SilentReplaced`: a reconnect that was dropped has lost its socket, or another one has
  taken its place, now and for ever. `SilenceHasReason` follows for the step that drops it.

### What is not proved

Out of the prover's reach, and so for TLC only: liveness (`EveryTurnSettles`,
`ConnectionsAreFreed`, `EveryWaiterIsServed`, `NothingHangs`), `ENABLED`, and what functions
defined by recursion compute for all inputs. The runs `lifecycle` and `proxy_channel` explore a
part of their instance (`Focus`); for the safety properties the theorems cover the rest.

## Disagreements with the documentation

### A readable session listed as unavailable

`docs/message-identity-architecture.md:191` has the repository rebuild the session list
from the facts and show sessions that *cannot be read* as unavailable. Run
`read_race` finds a readable one that is: `findById` reads the manifest without the
session lock; the save that settles a turn then compacts the turn's journal and
finishes, listing the session as available; the reader finds a journal shorter than
the committed length of the manifest it holds, fails with TURN_JOURNAL_TRUNCATED, and
`_projectUnavailableOnFailure` (`summary-methods.js:71-82`) marks the session
unavailable without looking again. The mark stays until the session is next saved or the
list's membership changes; recovery after a restart
(`recover-service-restart-turns.js:14-19`) skips such a session. `unlocked_reads` shows
the other side: with only appends, removals and torn tails a reader never fails on
a turn that is still there.

### Events of a deleted turn

`docs/message-identity-architecture.md:76` calls the outbox a recoverable projection and
says that REMOVE tombstones and floors keep events from coming back after a deletion. Run
`removal_fault` finds a deletion they do not cover. `deleteFromMessage` saves the manifest
(`turn-mutations.js:241`) and then writes the REMOVE lines (`:245`). When the second
step throws, or the service dies in between, the deletion is committed and the events
of its turns stay pending. Nothing makes up for it: a repeated command is answered
from its receipt (`:203-213`), and later reads project receipts only. The next drain sends the
events of a turn the session no longer has. Without faults this does not happen
(`outbox_delivery`).

### Two waiters elected

The test `agent/__tests__/session/session-mutation-coordinator.test.js:339` says that one
waiter is elected to reclaim a stale lock and asserts (`:364`) that operations never
overlap. Run `lock_overlooked` finds two that do, with no request suspended. An election
lists the directory and then looks at the files one by one; a waiter that renames its
file to its ticket in between is answered with ENOENT, which `inspectWaiterIfPresent`
(`file-mutation-coordinator.js:73`) takes for a waiter that left. Two waiters that
numbered themselves at the same time can so both win, both find the lock stale, and the
slower rename takes the lock the faster one has created by then. `TurnLifecycle`,
`SessionArtifact` and `SessionOutbox` take the lock's mutual exclusion for granted; what
two overlapping saves do to a session is not modelled.

### A stopped turn that fails

`docs/browser-protocol-e2e-test-plan.zh-CN.md:166-171` gives the order of a user's stop as
accepted, processing completed, completed, and
`service/__tests__/routes/chat-websocket-server.stop-terminal.test.js:177` expects the stop
to be completed when the run completes normally. The test lets the run end after the
abort. Run `stop_lost` lets it end before: STOP_ACCEPTED is committed and its events
are dispatched (`message-stop-handler.js:145`), the agent returns meanwhile, sees no
abort, and commits PROCESSING_COMPLETED, which a stopping turn refuses; the error ends in
`settleFailedRun`, which commits FAILED.

Smaller observations, without a run of their own: a timeout that fires after a stop
makes the stopped turn fail, because the flag of the timer is looked at before the
reason of the abort (`message-run/terminal-stage.js:15`, `message-handler.js:318`); a
resend that is repeated after its run has ended is deduplicated and its agent runs again
on the settled turn (`message-run/command-stage.js:166`), which is why
`AgentsWorkOnOpenTurns` excepts resends.

## Not modelled

* Session creation and tree: planned, see below.
* Session repair, memory repair and workspace upgrades: conversions of documents of
  earlier schema versions, whose shapes are the whole content.
* Agent runtime, tools, context assembly, models: the loop depends on model output.
  Where it meets a session (appends, checkpoints) it is modelled.
* Workflow engine: a scheduler of its own; a candidate for a later module.
* The rest of the agent proxy (`ProxyChannel` says what), model proxy, connectors,
  plugins, HTTP routes: forwarding, process supervision, credentials, adapters to
  external programs.
* Client: presentation. Only the commands it issues and when it repeats them matter
  here, and these are in `TurnLifecycle`.
* Shared helpers, protocol validation, scripts.

## Plan

In this order; the first five are done.

1. `TurnLifecycle` with its runs, all its properties proved;
   `SessionArtifact` with its safety properties and its refinement of `AtomicStore` proved;
   `SessionReads`, proved where saves only append and remove.
2. `SessionOutbox` with its runs, its properties proved. Left of it: an abstract
   at-least-once channel as refinement target, session artifact events, and
   `EventDispatch`, the dispatcher's dirty flag and in-flight entry, where a dispatch may
   go unnoticed.
3. `TurnRun` with its runs. Left of it: interjections (a queue per run that is sealed
   when the agent ends) and the in-process transport.
4. `FileMutationLock` with its runs.
5. `ProxyChannel` with its run, its safety properties proved. Left of it: interactions and
   their requests, stop and execution queries, and the channels of child sessions.
6. `SessionTree`: creation, placement and subtree deletion with the list.
7. Proofs. Done: every safety property of the passing runs. Left: the abstract channel of
   the outbox (item 2), once it is stated, and the modules to come.
