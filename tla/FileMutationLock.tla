-------------------------- MODULE FileMutationLock --------------------------
(***************************************************************************)
(* The lock file under which every session, workspace and attachment index *)
(* is changed (FileMutationCoordinator).  A request is one outermost call  *)
(* of run for one lock path; requests of one process and of several        *)
(* processes meet only in the directory, so a request is the unit of       *)
(* interleaving and of failure.                                            *)
(*                                                                         *)
(* A request first queues: it creates a waiter file, numbers it one above  *)
(* the tickets it sees, and renames the file to carry its ticket.  The     *)
(* waiter with the lowest ticket is elected, and only an elected waiter    *)
(* creates the lock file or moves a stale one out of the way.  A directory *)
(* is listed with one call and the files are then inspected one by one, so *)
(* a file may be renamed or removed between the two.                       *)
(*                                                                         *)
(* A request that is alive touches its files; a file that was not touched  *)
(* for the lease is stale.  `late' holds the requests whose files are      *)
(* stale: those of a crashed request become so, and those of a live one    *)
(* may when its process is suspended longer than the lease.                *)
(*                                                                         *)
(* Left out: nested calls, which run their operation at once; errors of    *)
(* the file system other than the expected ENOENT and EEXIST (the retries  *)
(* of EPERM on Windows among them); the rename target of a reclaimed lock, *)
(* which nobody reads.                                                     *)
(***************************************************************************)
EXTENDS Integers, FiniteSets

CONSTANTS
    Requests,     \* the calls of run, ordered as their owner tokens are
    NoRequest,    \* no lock file
    MaxCrashes,   \* bound: requests whose process dies
    MaxStalls     \* bound: times a live request misses its heartbeats

ASSUME RequestsAssumption == Requests \subseteq Nat /\ NoRequest \notin Requests
ASSUME BoundsAssumption == MaxCrashes \in Nat /\ MaxStalls \in Nat

VARIABLES
    pc,          \* where each request is
    file,        \* the waiter file of each request: NoFile, Choosing or its ticket
    lock,        \* the request whose token is in the lock file
    unread,      \* a request's last listing: the files it has yet to inspect ...
    live,        \* ... and the ones it found fresh
    late,        \* requests whose files are stale
    crashed,     \* requests whose process died
    stalls,      \* how often a live request missed its heartbeats
    ahead,       \* history: the requests that had a ticket when this one queued
    overlooked   \* history: an election missed a waiter that was being renamed

vars == <<pc, file, lock, unread, live, late, crashed, stalls, ahead, overlooked>>

NoFile == -1
Choosing == 0
HasTicket(r) == file[r] > Choosing

\* A name in the directory: whose waiter file it is, and its ticket.
Entries == [owner : Requests, ticket : Nat]

Stages == {"idle", "choosing", "registering", "polling", "retrying", "electing",
           "blocked", "reclaiming", "acquired", "holding", "removing",
           "done", "timedOut"}
Listing == {"registering", "electing"}

Init ==
    /\ pc = [r \in Requests |-> "idle"]
    /\ file = [r \in Requests |-> NoFile]
    /\ lock = NoRequest
    /\ unread = [r \in Requests |-> {}]
    /\ live = [r \in Requests |-> {}]
    /\ late = {}
    /\ crashed = {}
    /\ stalls = 0
    /\ ahead = [r \in Requests |-> {}]
    /\ overlooked = FALSE

At(r, stage) == r \notin crashed /\ pc[r] = stage
Goto(r, stage) == pc' = [pc EXCEPT ![r] = stage]

(***************************************************************************)
(* Queueing.                                                               *)
(***************************************************************************)
CreateWaiter(r) ==
    /\ At(r, "idle")
    /\ file' = [file EXCEPT ![r] = Choosing]
    /\ ahead' = [ahead EXCEPT ![r] = {q \in Requests : HasTicket(q)}]
    /\ Goto(r, "choosing")
    /\ UNCHANGED <<lock, unread, live, late, crashed, stalls, overlooked>>

Names == {[owner |-> q, ticket |-> file[q]] : q \in {p \in Requests : file[p] # NoFile}}

\* The listing, for a ticket or for an election: first the names ...
ListWaiters(r) ==
    /\ \/ At(r, "choosing") /\ Goto(r, "registering")
       \/ (At(r, "polling") \/ At(r, "retrying")) /\ Goto(r, "electing")
    /\ unread' = [unread EXCEPT ![r] = Names]
    /\ UNCHANGED <<file, lock, live, late, crashed, stalls, ahead, overlooked>>

\* ... then one file after the other.  A stale file is removed; a name that is
\* gone is skipped, also when the file has only been renamed.
InspectWaiter(r, e) ==
    /\ r \notin crashed /\ pc[r] \in Listing
    /\ unread' = [unread EXCEPT ![r] = @ \ {e}]
    /\ LET present == file[e.owner] = e.ticket
           stale == e.owner \in late
       IN  /\ live' = IF present /\ ~stale THEN [live EXCEPT ![r] = @ \cup {e}] ELSE live
           /\ file' = IF present /\ stale THEN [file EXCEPT ![e.owner] = NoFile] ELSE file
           /\ overlooked' = \/ overlooked
                            \/ pc[r] = "electing" /\ ~present /\ HasTicket(e.owner)
    /\ UNCHANGED <<pc, lock, late, crashed, stalls, ahead>>

Inspected(r) == unread[r] = {}

\* mutant: the list of live waiters is shared by the polls.
KeepListing(r) == UNCHANGED live

Forget(r) == live' = [live EXCEPT ![r] = {}]

Tickets(r) == {Choosing} \cup {e.ticket : e \in live[r]}

\* One above the highest ticket seen.  A waiter whose file was removed cannot
\* rename it.
PublishTicket(r) ==
    /\ At(r, "registering")
    /\ Inspected(r)
    /\ \/ /\ file[r] = Choosing
          /\ \E n \in Tickets(r) :
                /\ \A m \in Tickets(r) : m <= n
                /\ file' = [file EXCEPT ![r] = n + 1]
          /\ Goto(r, "retrying")
       \/ /\ file[r] = NoFile
          /\ UNCHANGED file
          /\ Goto(r, "timedOut")
    /\ Forget(r)
    /\ UNCHANGED <<lock, unread, late, crashed, stalls, ahead, overlooked>>

\* mutant: waiters are sorted by their tokens alone.
ByToken(e, f) == e.owner <= f.owner

Before(e, f) == \/ e.ticket < f.ticket
                \/ e.ticket = f.ticket /\ e.owner <= f.owner

\* mutant: waiters that are still choosing are passed over.
FirstOfSettled(r) ==
    LET settled == {e \in live[r] : e.ticket # Choosing}
    IN  \E e \in settled : e.owner = r /\ \A f \in settled : Before(e, f)

\* The first of the waiters seen, unless one of them is still choosing.
IsElected(r) ==
    /\ \A e \in live[r] : e.ticket # Choosing
    /\ \E e \in live[r] : e.owner = r /\ \A f \in live[r] : Before(e, f)

LoseElection(r) ==
    /\ At(r, "electing")
    /\ Inspected(r)
    /\ ~IsElected(r)
    /\ Goto(r, "polling")
    /\ Forget(r)
    /\ UNCHANGED <<file, lock, unread, late, crashed, stalls, ahead, overlooked>>

\* The deadline is looked at only between polls.
GiveUp(r) ==
    /\ At(r, "polling")
    /\ file' = [file EXCEPT ![r] = NoFile]
    /\ Goto(r, "timedOut")
    /\ UNCHANGED <<lock, unread, live, late, crashed, stalls, ahead, overlooked>>

(***************************************************************************)
(* Taking the lock.                                                        *)
(***************************************************************************)
OpenLock(r) ==
    /\ At(r, "electing")
    /\ Inspected(r)
    /\ IsElected(r)
    /\ \/ lock = NoRequest /\ lock' = r /\ Goto(r, "acquired")
       \/ lock # NoRequest /\ lock' = lock /\ Goto(r, "blocked")
    /\ Forget(r)
    /\ UNCHANGED <<file, unread, late, crashed, stalls, ahead, overlooked>>

\* The lock file could not be created: it is gone by now, fresh or stale.
ResolveCreateFailure(r) ==
    /\ At(r, "blocked")
    /\ \/ lock = NoRequest /\ Goto(r, "retrying")
       \/ lock \in Requests \ late /\ Goto(r, "polling")
       \/ lock \in late /\ Goto(r, "reclaiming")
    /\ UNCHANGED <<file, lock, unread, live, late, crashed, stalls, ahead, overlooked>>

\* The rename takes whatever lock file is there by now.
ReclaimStaleLock(r) ==
    /\ At(r, "reclaiming")
    /\ lock' = NoRequest
    /\ Goto(r, "retrying")
    /\ UNCHANGED <<file, unread, live, late, crashed, stalls, ahead, overlooked>>

\* mutant: the waiter file is left to be reclaimed.
LeaveWaiter(r) ==
    /\ At(r, "acquired")
    /\ Goto(r, "holding")
    /\ UNCHANGED <<file, lock, unread, live, late, crashed, stalls, ahead, overlooked>>

CloseWaiter(r) ==
    /\ At(r, "acquired")
    /\ file' = [file EXCEPT ![r] = NoFile]
    /\ Goto(r, "holding")
    /\ UNCHANGED <<lock, unread, live, late, crashed, stalls, ahead, overlooked>>

(***************************************************************************)
(* The end of the operation: the token in the lock file is compared, then  *)
(* the file is removed.                                                    *)
(***************************************************************************)
EndOperation(r) ==
    /\ At(r, "holding")
    /\ Goto(r, IF lock = r THEN "removing" ELSE "done")
    /\ UNCHANGED <<file, lock, unread, live, late, crashed, stalls, ahead, overlooked>>

RemoveLock(r) ==
    /\ At(r, "removing")
    /\ lock' = NoRequest
    /\ Goto(r, "done")
    /\ UNCHANGED <<file, unread, live, late, crashed, stalls, ahead, overlooked>>

(***************************************************************************)
(* Time and failures.                                                      *)
(***************************************************************************)
Ended == {"done", "timedOut"}

Crash(r) ==
    /\ Cardinality(crashed) < MaxCrashes
    /\ r \notin crashed
    /\ pc[r] \notin Ended \cup {"idle"}
    /\ crashed' = crashed \cup {r}
    /\ UNCHANGED <<pc, file, lock, unread, live, late, stalls, ahead, overlooked>>

\* The lease of a dead request runs out.
LeaseExpires(r) ==
    /\ r \in crashed \ late
    /\ late' = late \cup {r}
    /\ UNCHANGED <<pc, file, lock, unread, live, crashed, stalls, ahead, overlooked>>

\* A live request does not get to touch its files for longer than the lease.
MissHeartbeats(r) ==
    /\ stalls < MaxStalls
    /\ r \notin crashed \cup late
    /\ pc[r] \notin Ended \cup {"idle"}
    /\ late' = late \cup {r}
    /\ stalls' = stalls + 1
    /\ UNCHANGED <<pc, file, lock, unread, live, crashed, ahead, overlooked>>

\* The heartbeat stops before the lock file is removed.
Heartbeat(r) ==
    /\ r \in late \ crashed
    /\ pc[r] # "removing"
    /\ late' = late \ {r}
    /\ UNCHANGED <<pc, file, lock, unread, live, crashed, stalls, ahead, overlooked>>

Progress(r) ==
    \/ ListWaiters(r) \/ PublishTicket(r) \/ LoseElection(r)
    \/ \E e \in unread[r] : InspectWaiter(r, e)
    \/ OpenLock(r) \/ ResolveCreateFailure(r) \/ ReclaimStaleLock(r)
    \/ CloseWaiter(r) \/ EndOperation(r) \/ RemoveLock(r)

Next == \E r \in Requests :
    \/ CreateWaiter(r) \/ Progress(r) \/ GiveUp(r)
    \/ Crash(r) \/ LeaseExpires(r) \/ MissHeartbeats(r) \/ Heartbeat(r)

Spec == Init /\ [][Next]_vars

\* The event loop resumes every request that is alive, operations end, and time passes.
Fairness == \A r \in Requests :
    WF_vars(Progress(r)) /\ WF_vars(LeaseExpires(r)) /\ WF_vars(Heartbeat(r))

FairSpec == Spec /\ Fairness

(***************************************************************************)
(* Properties.                                                             *)
(***************************************************************************)
\* Every variable has its type, and a listing is forgotten when it was evaluated,
\* so that the next election starts from the directory alone.
TypeOK ==
    /\ pc \in [Requests -> Stages]
    /\ file \in [Requests -> Nat \cup {NoFile}]
    /\ lock \in Requests \cup {NoRequest}
    /\ unread \in [Requests -> SUBSET Entries]
    /\ live \in [Requests -> SUBSET Entries]
    /\ late \subseteq Requests
    /\ crashed \subseteq Requests
    /\ stalls \in Nat
    /\ ahead \in [Requests -> SUBSET Requests]
    /\ overlooked \in BOOLEAN
    /\ \A r \in Requests : pc[r] \notin Listing => unread[r] = {} /\ live[r] = {}

Holders == {r \in Requests : At(r, "holding")}

\* No two requests are in their operation at once.
MutualExclusion == \A r, q \in Holders : r = q

\* Two operations run at once only after a live request missed its heartbeats for
\* a whole lease, or after an election overlooked a waiter that was renamed while
\* the directory was being inspected: crashes, time-outs and the reclaiming of
\* stale locks alone never let a second holder in.
ExclusiveUnlessOverlooked == stalls = 0 /\ ~overlooked => MutualExclusion

\* A request that starts to queue when another has its ticket is never served
\* before it, unless that one is gone or was taken for dead.
ServedInOrder ==
    \A r, q \in Requests :
        q \in ahead[r] /\ pc[r] \in {"acquired", "holding", "removing", "done"}
        => \/ pc[q] \in {"acquired", "holding", "removing", "done", "timedOut"}
           \/ q \in crashed
           \/ file[q] = NoFile

Evicted(r) == pc[r] \notin Ended /\ file[r] = NoFile

\* Every request that queues is served, gives up at its deadline, dies, or lost
\* its place because it was taken for dead: no order of registrations, crashes and
\* reclaims leaves a waiter polling a free lock for ever.
EveryWaiterIsServed ==
    \A r \in Requests :
        At(r, "choosing") ~> (pc[r] \in Ended \/ r \in crashed \/ Evicted(r))
=============================================================================
