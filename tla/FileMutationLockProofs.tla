------------------------ MODULE FileMutationLockProofs ------------------------
(***************************************************************************)
(* What the lock guarantees for every set of requests and all bounds: its  *)
(* types, that waiters are served in the order of their tickets, and that  *)
(* only a missed lease or an overlooked waiter lets two operations overlap.*)
(***************************************************************************)
EXTENDS FileMutationLock, TLAPS

(***************************************************************************)
(* Types.                                                                  *)
(***************************************************************************)
LEMMA NamesAreEntries ==
    ASSUME TypeOK
    PROVE  Names \in SUBSET Entries
BY DEF TypeOK, Names, Entries, NoFile

LEMMA TicketsAreNumbers ==
    ASSUME TypeOK, NEW r \in Requests
    PROVE  Tickets(r) \subseteq Nat
BY DEF TypeOK, Tickets, Entries, Choosing

LEMMA InitTypeOK == Init => TypeOK
<1> SUFFICES ASSUME Init PROVE TypeOK
    OBVIOUS
<1>1. /\ pc \in [Requests -> Stages] /\ lock \in Requests \cup {NoRequest}
      /\ late \subseteq Requests /\ crashed \subseteq Requests
      /\ stalls \in Nat /\ overlooked \in BOOLEAN
      BY DEF Init, Stages
<1>2. file \in [Requests -> Nat \cup {NoFile}]
      BY DEF Init
<1>3. /\ unread \in [Requests -> SUBSET Entries] /\ live \in [Requests -> SUBSET Entries]
      /\ ahead \in [Requests -> SUBSET Requests]
      BY DEF Init
<1>4. \A r \in Requests : unread[r] = {} /\ live[r] = {}
      BY DEF Init
<1> QED
      BY <1>1, <1>2, <1>3, <1>4 DEF TypeOK

LEMMA QueueingTypeOK ==
    ASSUME TypeOK, NEW r \in Requests,
           \/ CreateWaiter(r) \/ ListWaiters(r) \/ (\E e \in unread[r] : InspectWaiter(r, e))
           \/ PublishTicket(r) \/ LoseElection(r) \/ GiveUp(r)
    PROVE  TypeOK'
<1> USE DEF TypeOK, At, Goto, Stages, Listing, NoFile, Choosing
<1>1. CASE CreateWaiter(r)
      BY <1>1 DEF CreateWaiter
<1>2. CASE ListWaiters(r)
      BY <1>2, NamesAreEntries DEF ListWaiters
<1>3. ASSUME NEW e \in unread[r], InspectWaiter(r, e)
      PROVE  TypeOK'
  <2>1. e \in Entries /\ e.owner \in Requests
        BY <1>3 DEF Entries
  <2>2. live' \in [Requests -> SUBSET Entries] /\ file' \in [Requests -> Nat \cup {NoFile}]
        BY <1>3, <2>1 DEF InspectWaiter
  <2> QED
        BY <1>3, <2>1, <2>2 DEF InspectWaiter
<1>4. CASE PublishTicket(r)
      BY <1>4, TicketsAreNumbers DEF PublishTicket, Forget, Inspected
<1>5. CASE LoseElection(r)
      BY <1>5 DEF LoseElection, Forget, Inspected
<1>6. CASE GiveUp(r)
      BY <1>6 DEF GiveUp
<1> QED
      BY <1>1, <1>2, <1>3, <1>4, <1>5, <1>6

LEMMA LockingTypeOK ==
    ASSUME TypeOK, NEW r \in Requests,
           \/ OpenLock(r) \/ ResolveCreateFailure(r) \/ ReclaimStaleLock(r)
           \/ CloseWaiter(r) \/ EndOperation(r) \/ RemoveLock(r)
           \/ Crash(r) \/ LeaseExpires(r) \/ MissHeartbeats(r) \/ Heartbeat(r)
    PROVE  TypeOK'
<1> USE DEF TypeOK, At, Goto, Stages, Listing, NoFile
<1>1. CASE OpenLock(r)
      BY <1>1 DEF OpenLock, Forget, Inspected
<1>2. CASE ResolveCreateFailure(r)
      BY <1>2 DEF ResolveCreateFailure
<1>3. CASE ReclaimStaleLock(r)
      BY <1>3 DEF ReclaimStaleLock
<1>4. CASE CloseWaiter(r)
      BY <1>4 DEF CloseWaiter
<1>5. CASE EndOperation(r)
      BY <1>5 DEF EndOperation
<1>6. CASE RemoveLock(r)
      BY <1>6 DEF RemoveLock
<1>7. CASE Crash(r)
      BY <1>7 DEF Crash
<1>8. CASE LeaseExpires(r)
      BY <1>8 DEF LeaseExpires
<1>9. CASE MissHeartbeats(r)
      BY <1>9 DEF MissHeartbeats
<1>10. CASE Heartbeat(r)
      BY <1>10 DEF Heartbeat
<1> QED
      BY <1>1, <1>2, <1>3, <1>4, <1>5, <1>6, <1>7, <1>8, <1>9, <1>10

LEMMA NextTypeOK ==
    ASSUME TypeOK, [Next]_vars
    PROVE  TypeOK'
<1>1. CASE Next
      BY <1>1, QueueingTypeOK, LockingTypeOK DEF Next, Progress
<1>2. CASE UNCHANGED vars
      BY <1>2 DEF vars, TypeOK
<1> QED
      BY <1>1, <1>2

\* Every variable keeps its type, and listings do not outlive their election.
THEOREM LockTypes == Spec => []TypeOK
<1> QED
      BY InitTypeOK, NextTypeOK, PTL DEF Spec

(***************************************************************************)
(* Service in the order of the tickets.  A request q that had its ticket   *)
(* when r began to queue is either gone, or r stays behind it: r finds the *)
(* file of q in the listing it numbers itself by, its ticket is therefore  *)
(* higher, and the file of q is again in every listing r is elected by.    *)
(***************************************************************************)
EntryOf(r) == [owner |-> r, ticket |-> file[r]]
Seen(r) == unread[r] \cup live[r]

Numbered == {"polling", "retrying", "electing", "blocked", "reclaiming", "acquired"}
Served == {"acquired", "holding", "removing", "done", "timedOut"}
Waiting == {"polling", "retrying", "blocked", "reclaiming", "timedOut"}

Gone(q) == pc[q] \in Served \/ q \in crashed \/ file[q] = NoFile

LaterTicket(r, q) == file[r] = NoFile \/ file[r] > file[q]

StaysBehind(r, q) ==
    /\ HasTicket(q)
    /\ \/ pc[r] = "choosing"
       \/ pc[r] = "registering" /\ EntryOf(q) \in Seen(r)
       \/ pc[r] \in Waiting /\ LaterTicket(r, q)
       \/ /\ pc[r] = "electing" /\ LaterTicket(r, q) /\ EntryOf(q) \in Seen(r)
          /\ \A e \in Seen(r) : e.owner = r => e.ticket > file[q]

TicketsAreNumbered == \A r \in Requests : HasTicket(r) => pc[r] \in Numbered
IdleIsUnordered == \A r \in Requests : pc[r] = "idle" => ahead[r] = {}
QueuedAreNotIdle == \A r \in Requests : \A q \in ahead[r] : pc[q] # "idle"
InLine == \A r \in Requests : \A q \in ahead[r] : Gone(q) \/ StaysBehind(r, q)

OrderInv == TypeOK /\ TicketsAreNumbered /\ IdleIsUnordered /\ QueuedAreNotIdle /\ InLine

LEMMA InitOrderInv == Init => OrderInv
BY InitTypeOK
   DEF Init, OrderInv, TicketsAreNumbered, IdleIsUnordered, QueuedAreNotIdle, InLine,
       HasTicket, NoFile, Choosing

\* The listing of a request has the name of every waiter with a ticket.
LEMMA NamesHaveTickets ==
    ASSUME NEW q \in Requests, HasTicket(q), TypeOK
    PROVE  EntryOf(q) \in Names
BY DEF TypeOK, Names, EntryOf, HasTicket, NoFile, Choosing

LEMMA QueueingKeepsOrder ==
    ASSUME OrderInv, TypeOK', NEW r \in Requests,
           \/ CreateWaiter(r) \/ ListWaiters(r) \/ (\E e \in unread[r] : InspectWaiter(r, e))
           \/ PublishTicket(r) \/ LoseElection(r) \/ GiveUp(r)
    PROVE  OrderInv'
<1> USE DEF OrderInv, At, Goto, NoFile, Choosing, Numbered, Served, Waiting
<1>1. CASE CreateWaiter(r)
  <2>1. ~HasTicket(r)
        BY <1>1 DEF CreateWaiter, TicketsAreNumbered
  <2>2. TicketsAreNumbered' /\ IdleIsUnordered' /\ QueuedAreNotIdle'
        BY <1>1, <2>1
           DEF CreateWaiter, TicketsAreNumbered, IdleIsUnordered, QueuedAreNotIdle,
               HasTicket, TypeOK
  <2>3. ASSUME NEW a \in Requests, NEW q \in ahead'[a]
        PROVE  Gone(q)' \/ StaysBehind(a, q)'
    <3>1. q \in Requests
          BY DEF TypeOK
    <3>2. CASE a = r
          BY <1>1, <2>1, <3>1, <3>2
             DEF CreateWaiter, TypeOK, StaysBehind, HasTicket
    <3>3. CASE a # r
      <4>1. Gone(q) \/ StaysBehind(a, q)
            BY <1>1, <3>3 DEF CreateWaiter, InLine, TypeOK
      <4>2. q # r
            BY <1>1, <3>3 DEF CreateWaiter, QueuedAreNotIdle, TypeOK
      <4> QED
            BY <1>1, <3>1, <3>3, <4>1, <4>2
               DEF CreateWaiter, TypeOK, Gone, StaysBehind, HasTicket, LaterTicket, Seen, EntryOf
    <3> QED
          BY <3>2, <3>3
  <2> QED
        BY <2>2, <2>3 DEF InLine
<1>2. CASE ListWaiters(r)
  <2>1. TicketsAreNumbered' /\ IdleIsUnordered' /\ QueuedAreNotIdle'
        BY <1>2
           DEF ListWaiters, TicketsAreNumbered, IdleIsUnordered, QueuedAreNotIdle,
               HasTicket, TypeOK
  <2>2. ASSUME NEW a \in Requests, NEW q \in ahead'[a]
        PROVE  Gone(q)' \/ StaysBehind(a, q)'
    <3>1. q \in Requests /\ (Gone(q) \/ StaysBehind(a, q))
          BY <1>2 DEF ListWaiters, InLine, TypeOK
    <3>2. CASE Gone(q)
          BY <1>2, <3>1, <3>2 DEF ListWaiters, Gone, TypeOK
    <3>3. CASE StaysBehind(a, q) /\ a # r
          BY <1>2, <3>1, <3>3
             DEF ListWaiters, TypeOK, StaysBehind, HasTicket, LaterTicket, Seen, EntryOf
    <3>4. CASE StaysBehind(a, q) /\ a = r
      <4>1. EntryOf(q) \in Names
            BY <3>1, <3>4, NamesHaveTickets DEF StaysBehind
      <4>2. \A e \in Names : e.owner = r => e.ticket = file[r] /\ file[r] # NoFile
            BY DEF Names
      <4>3. Seen(r)' = Names
            BY <1>2 DEF ListWaiters, Seen, TypeOK, Listing
      <4>4. EntryOf(q)' = EntryOf(q) /\ HasTicket(q)' /\ file' = file
            BY <1>2, <3>4 DEF ListWaiters, EntryOf, HasTicket, StaysBehind
      <4>5. CASE pc[r] = "choosing"
            BY <1>2, <3>4, <4>1, <4>3, <4>4, <4>5 DEF ListWaiters, StaysBehind, TypeOK
      <4>6. CASE pc[r] # "choosing"
        <5>1. LaterTicket(r, q) /\ pc'[r] = "electing"
              BY <1>2, <3>4, <4>6 DEF ListWaiters, StaysBehind, TypeOK
        <5> QED
              BY <3>4, <4>1, <4>2, <4>3, <4>4, <5>1 DEF StaysBehind, LaterTicket
      <4> QED
            BY <4>5, <4>6
    <3> QED
          BY <3>1, <3>2, <3>3, <3>4
  <2> QED
        BY <2>1, <2>2 DEF InLine
<1>3. ASSUME NEW e \in unread[r], InspectWaiter(r, e)
      PROVE  OrderInv'
  <2>1. e \in Entries /\ e.owner \in Requests
        BY <1>3 DEF TypeOK, Entries
  <2>2. \A q \in Requests : file'[q] = file[q] \/ file'[q] = NoFile
        BY <1>3, <2>1 DEF InspectWaiter, TypeOK
  <2>3. pc' = pc /\ ahead' = ahead /\ crashed' = crashed
        BY <1>3 DEF InspectWaiter
  <2>4. TicketsAreNumbered' /\ IdleIsUnordered' /\ QueuedAreNotIdle'
        BY <2>2, <2>3
           DEF TicketsAreNumbered, IdleIsUnordered, QueuedAreNotIdle, HasTicket, TypeOK
  <2>5. \A a \in Requests : Seen(a)' \subseteq Seen(a)
        BY <1>3 DEF InspectWaiter, Seen, TypeOK
  <2>6. ASSUME NEW a \in Requests, NEW q \in Requests, file'[q] = file[q],
               EntryOf(q) \in Seen(a), HasTicket(q)
        PROVE  EntryOf(q) \in Seen(a)'
    <3>1. e = EntryOf(q) => file[e.owner] = e.ticket /\ e.owner = q
          BY DEF EntryOf
    <3>2. e = EntryOf(q) => e.owner \notin late
          BY <1>3, <2>1, <2>6, <3>1 DEF InspectWaiter, TypeOK, HasTicket
    <3>3. e = EntryOf(q) => live'[r] = live[r] \cup {e}
          BY <1>3, <3>1, <3>2 DEF InspectWaiter, TypeOK
    <3>4. live[a] \subseteq live'[a]
          BY <1>3 DEF InspectWaiter, TypeOK
    <3>5. unread'[a] = IF a = r THEN unread[a] \ {e} ELSE unread[a]
          BY <1>3 DEF InspectWaiter, TypeOK
    <3> QED
          BY <2>6, <3>3, <3>4, <3>5 DEF Seen
  <2>7. ASSUME NEW a \in Requests, NEW q \in ahead'[a]
        PROVE  Gone(q)' \/ StaysBehind(a, q)'
    <3>1. q \in Requests /\ (Gone(q) \/ StaysBehind(a, q))
          BY <2>3 DEF InLine, TypeOK
    <3>2. CASE Gone(q) \/ file'[q] = NoFile
          BY <2>2, <2>3, <3>1, <3>2 DEF Gone
    <3>3. CASE StaysBehind(a, q) /\ file'[q] = file[q]
      <4>1. EntryOf(q)' = EntryOf(q) /\ HasTicket(q)'
            BY <3>3 DEF EntryOf, StaysBehind, HasTicket
      <4>2. EntryOf(q) \in Seen(a) => EntryOf(q) \in Seen(a)'
            BY <2>6, <3>1, <3>3 DEF StaysBehind
      <4>3. LaterTicket(a, q) => LaterTicket(a, q)'
            BY <2>2, <3>3 DEF LaterTicket
      <4> QED
            BY <2>3, <2>5, <3>3, <4>1, <4>2, <4>3 DEF StaysBehind
    <3> QED
          BY <2>2, <3>1, <3>2, <3>3
  <2> QED
        BY <2>4, <2>7 DEF InLine
<1>4. CASE PublishTicket(r)
  <2>1. ~HasTicket(r)
        BY <1>4 DEF PublishTicket, TicketsAreNumbered
  <2>2. TicketsAreNumbered' /\ IdleIsUnordered' /\ QueuedAreNotIdle'
        BY <1>4, <2>1
           DEF PublishTicket, TicketsAreNumbered, IdleIsUnordered, QueuedAreNotIdle,
               HasTicket, TypeOK
  <2>3. ASSUME NEW a \in Requests, NEW q \in ahead'[a]
        PROVE  Gone(q)' \/ StaysBehind(a, q)'
    <3>1. q \in Requests /\ (Gone(q) \/ StaysBehind(a, q))
          BY <1>4 DEF PublishTicket, InLine, TypeOK
    <3>2. CASE Gone(q) /\ q # r
          BY <1>4, <3>1, <3>2 DEF PublishTicket, Gone, TypeOK
    <3>3. CASE Gone(q) /\ q = r
          BY <1>4, <3>1, <3>3 DEF PublishTicket, Gone, TypeOK
    <3>4. CASE StaysBehind(a, q) /\ a # r
      <4>1. q # r
            BY <2>1, <3>4 DEF StaysBehind
      <4> QED
            BY <1>4, <3>1, <3>4, <4>1
               DEF PublishTicket, Forget, TypeOK, StaysBehind, HasTicket, LaterTicket,
                   Seen, EntryOf
    <3>5. CASE StaysBehind(a, q) /\ a = r
      <4>1. q # r
            BY <2>1, <3>5 DEF StaysBehind
      <4>2. EntryOf(q) \in live[r]
            BY <1>4, <3>5 DEF PublishTicket, StaysBehind, Inspected, Seen
      <4>3. file[q] \in Tickets(r)
            BY <4>2 DEF Tickets, EntryOf
      <4>4. LaterTicket(r, q)'
            BY <1>4, <3>1, <4>1, <4>3, TicketsAreNumbers
               DEF PublishTicket, TypeOK, LaterTicket
      <4>5. pc'[r] \in Waiting
            BY <1>4 DEF PublishTicket, TypeOK
      <4>6. HasTicket(q)'
            BY <1>4, <3>1, <3>5, <4>1 DEF PublishTicket, StaysBehind, TypeOK, HasTicket
      <4> QED
            BY <3>5, <4>4, <4>5, <4>6 DEF StaysBehind
    <3> QED
          BY <3>1, <3>2, <3>3, <3>4, <3>5
  <2> QED
        BY <2>2, <2>3 DEF InLine
<1>5. CASE LoseElection(r)
      BY <1>5
         DEF LoseElection, Forget, TypeOK, TicketsAreNumbered, IdleIsUnordered,
             QueuedAreNotIdle, InLine, Gone, StaysBehind, HasTicket, LaterTicket, Seen, EntryOf
<1>6. CASE GiveUp(r)
      BY <1>6
         DEF GiveUp, TypeOK, TicketsAreNumbered, IdleIsUnordered,
             QueuedAreNotIdle, InLine, Gone, StaysBehind, HasTicket, LaterTicket, Seen, EntryOf
<1> QED
      BY <1>1, <1>2, <1>3, <1>4, <1>5, <1>6

LEMMA LockingKeepsOrder ==
    ASSUME OrderInv, TypeOK', NEW r \in Requests,
           \/ OpenLock(r) \/ ResolveCreateFailure(r) \/ ReclaimStaleLock(r)
           \/ CloseWaiter(r) \/ EndOperation(r) \/ RemoveLock(r)
           \/ Crash(r) \/ LeaseExpires(r) \/ MissHeartbeats(r) \/ Heartbeat(r)
    PROVE  OrderInv'
<1> USE DEF OrderInv, At, Goto, NoFile, Choosing, Numbered, Served, Waiting
<1> USE DEF TicketsAreNumbered, IdleIsUnordered, QueuedAreNotIdle, InLine, Gone,
            StaysBehind, HasTicket, LaterTicket, Seen, EntryOf
<1>1. CASE OpenLock(r)
  <2>1. ASSUME NEW q \in ahead[r]
        PROVE  Gone(q)
    <3>1. PICK e \in live[r] : e.owner = r /\ \A f \in live[r] : Before(e, f)
          BY <1>1 DEF OpenLock, IsElected
    <3>2. SUFFICES ASSUME ~Gone(q) PROVE FALSE
          OBVIOUS
    <3>3. EntryOf(q) \in live[r] /\ e.ticket > file[q]
          BY <1>1, <3>1, <3>2 DEF OpenLock, Inspected
    <3>4. e.ticket \in Nat /\ file[q] \in Int
          BY <3>1 DEF TypeOK, Entries
    <3>5. Before(e, EntryOf(q))
          BY <3>1, <3>3
    <3> QED
          BY <3>3, <3>4, <3>5, EntryOf(q).ticket = file[q] DEF Before
  <2>2. TicketsAreNumbered' /\ IdleIsUnordered' /\ QueuedAreNotIdle'
        BY <1>1 DEF OpenLock, TypeOK
  <2>3. InLine'
    <3>1. ASSUME NEW a \in Requests, NEW q \in ahead'[a]
          PROVE  Gone(q)' \/ StaysBehind(a, q)'
      <4>1. Gone(q) => Gone(q)'
            BY <1>1 DEF OpenLock, TypeOK
      <4>2. CASE a = r
            BY <1>1, <2>1, <4>1, <4>2 DEF OpenLock
      <4>3. CASE a # r
            BY <1>1, <4>1, <4>3 DEF OpenLock, Forget, TypeOK
      <4> QED
            BY <4>2, <4>3
    <3> QED
          BY <3>1
  <2> QED
        BY <2>2, <2>3
<1>2. CASE ResolveCreateFailure(r)
      BY <1>2 DEF ResolveCreateFailure, TypeOK
<1>3. CASE ReclaimStaleLock(r)
      BY <1>3 DEF ReclaimStaleLock, TypeOK
<1>4. CASE CloseWaiter(r)
      BY <1>4 DEF CloseWaiter, TypeOK
<1>5. CASE EndOperation(r)
      BY <1>5 DEF EndOperation, TypeOK
<1>6. CASE RemoveLock(r)
      BY <1>6 DEF RemoveLock, TypeOK
<1>7. CASE Crash(r)
      BY <1>7 DEF Crash, TypeOK
<1>8. CASE LeaseExpires(r)
      BY <1>8 DEF LeaseExpires
<1>9. CASE MissHeartbeats(r)
      BY <1>9 DEF MissHeartbeats
<1>10. CASE Heartbeat(r)
      BY <1>10 DEF Heartbeat
<1> QED
      BY <1>1, <1>2, <1>3, <1>4, <1>5, <1>6, <1>7, <1>8, <1>9, <1>10

LEMMA NextOrderInv ==
    ASSUME OrderInv, [Next]_vars
    PROVE  OrderInv'
<1>1. TypeOK'
      BY NextTypeOK DEF OrderInv
<1>2. CASE Next
      BY <1>1, <1>2, QueueingKeepsOrder, LockingKeepsOrder DEF Next, Progress
<1>3. CASE UNCHANGED vars
      BY <1>1, <1>3
         DEF vars, OrderInv, TicketsAreNumbered, IdleIsUnordered, QueuedAreNotIdle, InLine,
             Gone, StaysBehind, HasTicket, LaterTicket, Seen, EntryOf
<1> QED
      BY <1>2, <1>3

\* A request is never served before one that had its ticket when it began to queue,
\* unless that one is gone or was taken for dead: of the ticket and the listings of
\* waitForElection, for any number of requests, crashes and missed heartbeats.
THEOREM LockServesInOrder == Spec => []ServedInOrder
<1>1. OrderInv => ServedInOrder
  <2> SUFFICES ASSUME OrderInv, NEW r \in Requests, NEW q \in Requests, q \in ahead[r],
                      pc[r] \in {"acquired", "holding", "removing", "done"}
               PROVE  Gone(q)
      BY DEF ServedInOrder, Gone, Served
  <2> QED
      BY DEF OrderInv, InLine, StaysBehind, Waiting
<1> QED
      BY <1>1, InitOrderInv, NextOrderInv, PTL DEF Spec

(***************************************************************************)
(* Exclusion.  As long as no live request misses its heartbeats and no     *)
(* election overlooks a waiter, an elected request is the first of all the *)
(* waiters, those that have yet to number themselves included: they find   *)
(* its file in their listing.  So nobody creates the lock file while       *)
(* another request owns it or is about to move it away.                    *)
(***************************************************************************)
Undisturbed == stalls = 0 /\ ~overlooked

Alive(r) == r \notin crashed

Unnumbered == {"idle", "choosing", "registering"}
Elected == {"blocked", "reclaiming", "acquired"}
Owning == {"acquired", "holding", "removing"}
Elsewhere == {"idle", "choosing", "holding", "removing", "done", "timedOut"}

FileFits(r) ==
    /\ pc[r] \in {"choosing", "registering"} <=> file[r] = Choosing
    /\ pc[r] \in Numbered <=> HasTicket(r)

\* A name that r has listed: its own is current, and a numbered one stays so.
EntryFits(r, e) ==
    /\ e.owner = r => e.ticket = file[r]
    /\ Alive(e.owner) /\ e.ticket > Choosing
       => pc[e.owner] \notin Unnumbered /\ file[e.owner] \in {e.ticket, NoFile}

\* Nothing q does makes it overtake r.
Behind(q, r) ==
    \/ ~Alive(q)
    \/ pc[q] \in Elsewhere
    \/ pc[q] = "registering" /\ EntryOf(r) \in Seen(q)
    \/ HasTicket(q) /\ Before(EntryOf(r), EntryOf(q))

Considered(q, r) == \E e \in Seen(r) : e.owner = q

OnlyTheDeadAreLate == late \subseteq crashed
FilesFit == \A r \in Requests : Alive(r) => FileFits(r)
EntriesFit == \A r \in Requests : Alive(r) => \A e \in Seen(r) : EntryFits(r, e)
ElectedIsFirst ==
    \A r, q \in Requests : Alive(r) /\ pc[r] \in Elected /\ q # r => Behind(q, r)
ElectionsAreFair ==
    \A r, q \in Requests :
        Alive(r) /\ pc[r] = "electing" /\ q # r => Considered(q, r) \/ Behind(q, r)
OwnersHoldTheLock == \A r \in Requests : Alive(r) /\ pc[r] \in Owning => lock = r
ReclaimedIsDead ==
    \A r \in Requests : At(r, "reclaiming") => lock \in crashed \cup {NoRequest}

Safe == /\ OnlyTheDeadAreLate
        /\ FilesFit
        /\ EntriesFit
        /\ ElectedIsFirst
        /\ ElectionsAreFair
        /\ OwnersHoldTheLock
        /\ ReclaimedIsDead

ExclusionInv == TypeOK /\ (Undisturbed => Safe)

StepOf(p) == \/ CreateWaiter(p) \/ Progress(p) \/ GiveUp(p)
             \/ Crash(p) \/ LeaseExpires(p) \/ MissHeartbeats(p) \/ Heartbeat(p)

LEMMA LivingKeepTheirFiles ==
    ASSUME TypeOK, TypeOK', Safe, Undisturbed', NEW p \in Requests, StepOf(p),
           NEW r \in Requests, Alive(r)'
    PROVE  FileFits(r)' /\ (r # p => file'[r] = file[r])
<1> USE DEF At, Goto, NoFile, Choosing, Listing, Numbered, TypeOK, FileFits, HasTicket,
            Alive, Safe, FilesFit, OnlyTheDeadAreLate, Entries
<1>1. CASE CreateWaiter(p)
      BY <1>1 DEF CreateWaiter
<1>2. CASE ListWaiters(p)
      BY <1>2 DEF ListWaiters
<1>3. ASSUME NEW e \in unread[p], InspectWaiter(p, e)
      PROVE  FileFits(r)' /\ (r # p => file'[r] = file[r])
      BY <1>3 DEF InspectWaiter
<1>4. CASE PublishTicket(p)
  <2>1. \A n \in Tickets(p) : n + 1 > Choosing
        BY TicketsAreNumbers
  <2>2. file[p] = Choosing => file'[p] > Choosing /\ pc'[p] = "retrying"
        BY <1>4, <2>1 DEF PublishTicket, TypeOK
  <2>3. file[p] = NoFile => file'[p] = NoFile /\ pc'[p] = "timedOut"
        BY <1>4 DEF PublishTicket, TypeOK
  <2>4. \A q \in Requests \ {p} : pc'[q] = pc[q] /\ file'[q] = file[q]
        BY <1>4 DEF PublishTicket, TypeOK
  <2>5. crashed' = crashed
        BY <1>4 DEF PublishTicket
  <2>6. file[p] \in {Choosing, NoFile}
        BY <1>4 DEF PublishTicket
  <2> QED
        BY <2>2, <2>3, <2>4, <2>5, <2>6 DEF FileFits, HasTicket, Alive, Safe, FilesFit
<1>5. CASE LoseElection(p)
      BY <1>5 DEF LoseElection, Forget, Inspected
<1>6. CASE GiveUp(p)
      BY <1>6 DEF GiveUp
<1>7. CASE OpenLock(p)
      BY <1>7 DEF OpenLock, Forget, Inspected
<1>8. CASE ResolveCreateFailure(p)
      BY <1>8 DEF ResolveCreateFailure
<1>9. CASE ReclaimStaleLock(p)
      BY <1>9 DEF ReclaimStaleLock
<1>10. CASE CloseWaiter(p)
      BY <1>10 DEF CloseWaiter
<1>11. CASE EndOperation(p)
      BY <1>11 DEF EndOperation
<1>12. CASE RemoveLock(p)
      BY <1>12 DEF RemoveLock
<1>13. CASE Crash(p)
      BY <1>13 DEF Crash
<1>14. CASE LeaseExpires(p)
      BY <1>14 DEF LeaseExpires
<1>15. CASE Heartbeat(p)
      BY <1>15 DEF Heartbeat
<1>16. CASE MissHeartbeats(p)
      BY <1>16 DEF MissHeartbeats, Undisturbed
<1> QED
      BY <1>1, <1>2, <1>3, <1>4, <1>5, <1>6, <1>7, <1>8, <1>9, <1>10, <1>11, <1>12, <1>13,
         <1>14, <1>15, <1>16
      DEF StepOf, Progress

LEMMA BehindIsStable ==
    ASSUME TypeOK, TypeOK', Safe, Undisturbed', NEW p \in Requests, StepOf(p),
           NEW q \in Requests, NEW r \in Requests, q # r, Alive(r)',
           pc[r] \in Numbered, pc'[r] \in Numbered, Behind(q, r)
    PROVE  Behind(q, r)'
<1> USE DEF At, Goto, NoFile, Choosing, Listing, Numbered, TypeOK, Behind, Elsewhere,
            HasTicket, Alive, Seen, EntryOf, Before, Safe, FilesFit, FileFits,
            OnlyTheDeadAreLate, Entries
<1>1. CASE CreateWaiter(p)
      BY <1>1 DEF CreateWaiter
<1>2. CASE ListWaiters(p)
  <2>1. HasTicket(r)
        BY <1>2 DEF ListWaiters, Safe, FilesFit, FileFits, HasTicket, Alive
  <2>2. EntryOf(r) \in Names
        BY <2>1, NamesHaveTickets
  <2>3. EntryOf(r)' = EntryOf(r) /\ EntryOf(q)' = EntryOf(q)
        BY <1>2 DEF ListWaiters, EntryOf
  <2>4. CASE q = p /\ pc[p] = "choosing"
    <3>1. pc'[q] = "registering" /\ unread'[q] = Names
          BY <1>2, <2>4 DEF ListWaiters, TypeOK
    <3> QED
          BY <2>2, <2>3, <3>1 DEF Behind, Seen
  <2>5. CASE ~(q = p /\ pc[p] = "choosing")
        BY <1>2, <2>3, <2>5
           DEF ListWaiters, TypeOK, Behind, Elsewhere, HasTicket, Alive, Seen
  <2> QED
        BY <2>4, <2>5
<1>3. ASSUME NEW e \in unread[p], InspectWaiter(p, e)
      PROVE  Behind(q, r)'
      BY <1>3 DEF InspectWaiter
<1>4. CASE PublishTicket(p)
  <2>1. HasTicket(r) /\ r # p
        BY <1>4 DEF PublishTicket, Safe, FilesFit, FileFits, HasTicket, Alive
  <2>2. EntryOf(r)' = EntryOf(r)
        BY <1>4, <2>1 DEF PublishTicket, EntryOf, TypeOK
  <2>3. CASE q # p
        BY <1>4, <2>1, <2>2, <2>3
           DEF PublishTicket, Forget, TypeOK, Behind, Elsewhere, HasTicket, Alive, Seen,
               EntryOf, Before
  <2>4. CASE q = p /\ EntryOf(r) \notin Seen(p)
        BY <1>4, <2>4 DEF PublishTicket, Behind, Elsewhere, Alive, Safe, FilesFit, FileFits
  <2>5. CASE q = p /\ EntryOf(r) \in Seen(p)
    <3>1. EntryOf(r) \in live[p]
          BY <1>4, <2>5 DEF PublishTicket, Inspected, Seen
    <3>2. file[r] \in Tickets(p)
          BY <3>1 DEF Tickets, EntryOf
    <3>3. CASE file[p] = Choosing
      <4>1. file'[p] > file[r] /\ HasTicket(p)'
            BY <1>4, <3>2, <3>3, TicketsAreNumbers DEF PublishTicket, TypeOK, HasTicket
      <4> QED
            BY <2>1, <2>2, <2>5, <4>1 DEF Behind, Before, EntryOf
    <3>4. CASE file[p] = NoFile
          BY <1>4, <2>5, <3>4 DEF PublishTicket, TypeOK, Behind, Elsewhere
    <3> QED
          BY <1>4, <3>3, <3>4 DEF PublishTicket
  <2> QED
        BY <2>3, <2>4, <2>5
<1>5. CASE LoseElection(p)
      BY <1>5 DEF LoseElection, Forget, Inspected
<1>6. CASE GiveUp(p)
      BY <1>6 DEF GiveUp
<1>7. CASE OpenLock(p)
      BY <1>7 DEF OpenLock, Forget, Inspected
<1>8. CASE ResolveCreateFailure(p)
      BY <1>8 DEF ResolveCreateFailure
<1>9. CASE ReclaimStaleLock(p)
      BY <1>9 DEF ReclaimStaleLock
<1>10. CASE CloseWaiter(p)
      BY <1>10 DEF CloseWaiter
<1>11. CASE EndOperation(p)
      BY <1>11 DEF EndOperation
<1>12. CASE RemoveLock(p)
      BY <1>12 DEF RemoveLock
<1>13. CASE Crash(p)
      BY <1>13 DEF Crash
<1>14. CASE LeaseExpires(p)
      BY <1>14 DEF LeaseExpires
<1>15. CASE Heartbeat(p)
      BY <1>15 DEF Heartbeat
<1>16. CASE MissHeartbeats(p)
      BY <1>16 DEF MissHeartbeats, Undisturbed
<1> QED
      BY <1>1, <1>2, <1>3, <1>4, <1>5, <1>6, <1>7, <1>8, <1>9, <1>10, <1>11, <1>12, <1>13,
         <1>14, <1>15, <1>16
      DEF StepOf, Progress

LEMMA EntriesStayFit ==
    ASSUME TypeOK, TypeOK', Safe, Undisturbed', NEW p \in Requests, StepOf(p)
    PROVE  EntriesFit'
<1> USE DEF At, Goto, NoFile, Choosing, Listing, Numbered, TypeOK, EntriesFit, EntryFits,
            Unnumbered, HasTicket, Alive, Seen, Safe, FilesFit, FileFits,
            OnlyTheDeadAreLate, Entries
<1>1. CASE CreateWaiter(p)
      BY <1>1 DEF CreateWaiter
<1>2. CASE ListWaiters(p)
  <2>1. \A e \in Names : e.owner \in Requests /\ e.ticket = file[e.owner]
        BY DEF Names
  <2>2. \A e \in Names : EntryFits(p, e)'
        BY <1>2, <2>1
           DEF ListWaiters, TypeOK, EntryFits, Unnumbered, HasTicket, Alive, Safe, FilesFit,
               FileFits
  <2>3. Seen(p)' = Names
        BY <1>2 DEF ListWaiters, Seen, TypeOK
  <2>4. ASSUME NEW r \in Requests, r # p, Alive(r)', NEW e \in Seen(r)'
        PROVE  EntryFits(r, e)'
    <3>1. Alive(r) /\ e \in Seen(r) /\ e.owner \in Requests
          BY <1>2, <2>4 DEF ListWaiters, Seen, TypeOK, Alive, Entries
    <3>2. EntryFits(r, e)
          BY <3>1 DEF Safe, EntriesFit
    <3> QED
          BY <1>2, <3>1, <3>2
             DEF ListWaiters, TypeOK, EntryFits, Unnumbered, HasTicket, Alive, Safe, FilesFit,
                 FileFits
  <2> QED
        BY <2>2, <2>3, <2>4 DEF EntriesFit
<1>3. ASSUME NEW e \in unread[p], InspectWaiter(p, e)
      PROVE  EntriesFit'
      BY <1>3 DEF InspectWaiter
<1>4. CASE PublishTicket(p)
      BY <1>4 DEF PublishTicket, Forget, Inspected
<1>5. CASE LoseElection(p)
      BY <1>5 DEF LoseElection, Forget, Inspected
<1>6. CASE GiveUp(p)
      BY <1>6 DEF GiveUp
<1>7. CASE OpenLock(p)
      BY <1>7 DEF OpenLock, Forget, Inspected
<1>8. CASE ResolveCreateFailure(p)
      BY <1>8 DEF ResolveCreateFailure
<1>9. CASE ReclaimStaleLock(p)
      BY <1>9 DEF ReclaimStaleLock
<1>10. CASE CloseWaiter(p)
      BY <1>10 DEF CloseWaiter
<1>11. CASE EndOperation(p)
      BY <1>11 DEF EndOperation
<1>12. CASE RemoveLock(p)
      BY <1>12 DEF RemoveLock
<1>13. CASE Crash(p)
      BY <1>13 DEF Crash
<1>14. CASE LeaseExpires(p)
      BY <1>14 DEF LeaseExpires
<1>15. CASE Heartbeat(p)
      BY <1>15 DEF Heartbeat
<1>16. CASE MissHeartbeats(p)
      BY <1>16 DEF MissHeartbeats, Undisturbed
<1> QED
      BY <1>1, <1>2, <1>3, <1>4, <1>5, <1>6, <1>7, <1>8, <1>9, <1>10, <1>11, <1>12, <1>13,
         <1>14, <1>15, <1>16
      DEF StepOf, Progress

\* The winner of an election is ahead of every other request.
LEMMA WinnerIsBeforeAll ==
    ASSUME TypeOK, Safe, NEW p \in Requests, Alive(p), pc[p] = "electing", Inspected(p),
           IsElected(p), NEW q \in Requests, q # p
    PROVE  Behind(q, p)
<1> USE DEF NoFile, Choosing
<1>1. PICK m \in live[p] : m.owner = p /\ \A f \in live[p] : Before(m, f)
      BY DEF IsElected
<1>2. m.ticket = file[p]
      BY <1>1 DEF Safe, EntriesFit, EntryFits, Seen
<1>3. CASE Behind(q, p)
      BY <1>3
<1>4. CASE ~Behind(q, p)
  <2>1. PICK e \in live[p] : e.owner = q
        BY <1>4 DEF Safe, ElectionsAreFair, Considered, Seen, Inspected
  <2>2. Before(m, e) /\ e.ticket \in Nat /\ e.ticket > Choosing
        BY <1>1, <2>1 DEF IsElected, TypeOK, Entries
  <2>3. EntryFits(p, e) /\ Alive(q) /\ FileFits(q)
        BY <1>4, <2>1 DEF Safe, EntriesFit, FilesFit, Behind, Seen
  <2>4. pc[q] \notin Unnumbered /\ file[q] \in {e.ticket, NoFile}
        BY <2>1, <2>2, <2>3 DEF EntryFits
  <2>5. CASE file[q] = e.ticket
        BY <1>1, <1>2, <2>1, <2>2, <2>5 DEF Behind, HasTicket, Before, EntryOf
  <2>6. CASE file[q] = NoFile
    <3>1. pc[q] \in Elsewhere
          BY <2>3, <2>6 DEF FileFits, HasTicket, Elsewhere, Numbered, TypeOK, Stages
    <3> QED
          BY <3>1 DEF Behind
  <2> QED
        BY <2>4, <2>5, <2>6
<1> QED
      BY <1>3, <1>4

\* ... so nobody wins while another request is elected.
LEMMA WinnerIsFirst ==
    ASSUME TypeOK, Safe, NEW p \in Requests, Alive(p), pc[p] = "electing", Inspected(p),
           IsElected(p), NEW r \in Requests, r # p, Alive(r), pc[r] \in Elected
    PROVE  FALSE
<1>1. Behind(r, p) /\ Behind(p, r)
      BY WinnerIsBeforeAll DEF Safe, ElectedIsFirst
<1>2. Before(EntryOf(p), EntryOf(r)) /\ Before(EntryOf(r), EntryOf(p))
      BY <1>1 DEF Behind, Elsewhere, Elected, Alive
<1>3. /\ file[p] <= file[r] /\ file[r] <= file[p]
      /\ file[p] = file[r] => p <= r /\ r <= p
      BY <1>2 DEF Before, EntryOf, TypeOK, NoFile
<1> QED
      BY <1>3, RequestsAssumption DEF TypeOK, NoFile

LEMMA OnlyListingElects ==
    ASSUME TypeOK, TypeOK', Safe, Undisturbed', NEW p \in Requests, StepOf(p),
           NEW r \in Requests, Alive(r)', pc'[r] = "electing",
           ~ListWaiters(p), ~\E e \in unread[p] : InspectWaiter(p, e)
    PROVE  Alive(r) /\ pc[r] = "electing" /\ Seen(r)' = Seen(r)
<1> USE DEF At, Goto, NoFile, Choosing, Listing, Numbered, TypeOK, Alive, Seen
<1>1. CASE CreateWaiter(p)
      BY <1>1 DEF CreateWaiter
<1>2. CASE ListWaiters(p)
      BY <1>2 DEF ListWaiters
<1>3. ASSUME NEW e \in unread[p], InspectWaiter(p, e)
      PROVE  Alive(r) /\ pc[r] = "electing" /\ Seen(r)' = Seen(r)
      BY <1>3
<1>4. CASE PublishTicket(p)
      BY <1>4 DEF PublishTicket, Forget, Inspected
<1>5. CASE LoseElection(p)
      BY <1>5 DEF LoseElection, Forget, Inspected
<1>6. CASE GiveUp(p)
      BY <1>6 DEF GiveUp
<1>7. CASE OpenLock(p)
      BY <1>7 DEF OpenLock, Forget, Inspected
<1>8. CASE ResolveCreateFailure(p)
      BY <1>8 DEF ResolveCreateFailure
<1>9. CASE ReclaimStaleLock(p)
      BY <1>9 DEF ReclaimStaleLock
<1>10. CASE CloseWaiter(p)
      BY <1>10 DEF CloseWaiter
<1>11. CASE EndOperation(p)
      BY <1>11 DEF EndOperation
<1>12. CASE RemoveLock(p)
      BY <1>12 DEF RemoveLock
<1>13. CASE Crash(p)
      BY <1>13 DEF Crash
<1>14. CASE LeaseExpires(p)
      BY <1>14 DEF LeaseExpires
<1>15. CASE Heartbeat(p)
      BY <1>15 DEF Heartbeat
<1>16. CASE MissHeartbeats(p)
      BY <1>16 DEF MissHeartbeats, Undisturbed
<1> QED
      BY <1>1, <1>2, <1>3, <1>4, <1>5, <1>6, <1>7, <1>8, <1>9, <1>10, <1>11, <1>12, <1>13,
         <1>14, <1>15, <1>16
      DEF StepOf, Progress

LEMMA OnlyWinnersAreElected ==
    ASSUME TypeOK, TypeOK', Safe, Undisturbed', NEW p \in Requests, StepOf(p),
           NEW r \in Requests, Alive(r)', pc'[r] \in Elected, ~(r = p /\ OpenLock(p))
    PROVE  Alive(r) /\ pc[r] \in Elected
<1> USE DEF At, Goto, NoFile, Choosing, Listing, Numbered, TypeOK, Alive, Elected
<1>1. CASE CreateWaiter(p)
      BY <1>1 DEF CreateWaiter
<1>2. CASE ListWaiters(p)
      BY <1>2 DEF ListWaiters
<1>3. ASSUME NEW e \in unread[p], InspectWaiter(p, e)
      PROVE  Alive(r) /\ pc[r] \in Elected
      BY <1>3 DEF InspectWaiter
<1>4. CASE PublishTicket(p)
      BY <1>4 DEF PublishTicket, Forget, Inspected
<1>5. CASE LoseElection(p)
      BY <1>5 DEF LoseElection, Forget, Inspected
<1>6. CASE GiveUp(p)
      BY <1>6 DEF GiveUp
<1>7. CASE OpenLock(p)
      BY <1>7 DEF OpenLock, Forget, Inspected
<1>8. CASE ResolveCreateFailure(p)
      BY <1>8 DEF ResolveCreateFailure
<1>9. CASE ReclaimStaleLock(p)
      BY <1>9 DEF ReclaimStaleLock
<1>10. CASE CloseWaiter(p)
      BY <1>10 DEF CloseWaiter
<1>11. CASE EndOperation(p)
      BY <1>11 DEF EndOperation
<1>12. CASE RemoveLock(p)
      BY <1>12 DEF RemoveLock
<1>13. CASE Crash(p)
      BY <1>13 DEF Crash
<1>14. CASE LeaseExpires(p)
      BY <1>14 DEF LeaseExpires
<1>15. CASE Heartbeat(p)
      BY <1>15 DEF Heartbeat
<1>16. CASE MissHeartbeats(p)
      BY <1>16 DEF MissHeartbeats, Undisturbed
<1> QED
      BY <1>1, <1>2, <1>3, <1>4, <1>5, <1>6, <1>7, <1>8, <1>9, <1>10, <1>11, <1>12, <1>13,
         <1>14, <1>15, <1>16
      DEF StepOf, Progress

LEMMA ElectionsStayFair ==
    ASSUME TypeOK, TypeOK', Safe, Undisturbed', NEW p \in Requests, StepOf(p)
    PROVE  ElectionsAreFair'
<1> USE DEF At, Goto, NoFile, Choosing, Listing, Numbered
<1> SUFFICES ASSUME NEW r \in Requests, NEW q \in Requests, Alive(r)',
                    pc'[r] = "electing", q # r
             PROVE  Considered(q, r)' \/ Behind(q, r)'
    BY DEF ElectionsAreFair
<1>1. CASE ListWaiters(p)
  <2>1. CASE r # p
    <3>1. Alive(r) /\ pc[r] = "electing" /\ Seen(r)' = Seen(r)
          BY <1>1, <2>1 DEF ListWaiters, TypeOK, Alive, Seen
    <3> QED
          BY <3>1, BehindIsStable DEF Safe, ElectionsAreFair, Considered
  <2>2. CASE r = p /\ file[q] # NoFile
    <3>1. EntryOf(q) \in Names /\ EntryOf(q).owner = q
          BY <2>2 DEF Names, EntryOf
    <3>2. Names \subseteq Seen(p)'
          BY <1>1 DEF ListWaiters, TypeOK, Seen
    <3> QED
          BY <2>2, <3>1, <3>2 DEF Considered
  <2>3. CASE r = p /\ file[q] = NoFile
    <3>1. ~Alive(q) \/ pc[q] \in Elsewhere
          BY <2>3
             DEF Safe, FilesFit, FileFits, HasTicket, Elsewhere, TypeOK, Stages
    <3>2. pc'[q] = pc[q]
          BY <1>1, <2>3 DEF ListWaiters, TypeOK
    <3> QED
          BY <1>1, <3>1, <3>2 DEF ListWaiters, Behind, Alive
  <2> QED
        BY <2>1, <2>2, <2>3
<1>2. ASSUME NEW e \in unread[p], InspectWaiter(p, e)
      PROVE  Considered(q, r)' \/ Behind(q, r)'
  <2>1. Alive(r) /\ pc[r] = "electing" /\ pc' = pc /\ crashed' = crashed
        BY <1>2 DEF InspectWaiter, Alive
  <2>2. CASE Behind(q, r)
        BY <2>1, <2>2, <1>2, BehindIsStable DEF StepOf, Progress
  <2>3. CASE ~Behind(q, r)
    <3>1. PICK f \in Seen(r) : f.owner = q
          BY <2>1, <2>3 DEF Safe, ElectionsAreFair, Considered
    <3>2. CASE r = p /\ f = e
      <4>1. q \notin late
            BY <2>3 DEF Behind, Safe, OnlyTheDeadAreLate, Alive
      <4>2. CASE file[q] = f.ticket
            BY <1>2, <3>1, <3>2, <4>1, <4>2 DEF InspectWaiter, TypeOK, Considered, Seen
      <4>3. CASE file[q] # f.ticket
        <5>1. ~HasTicket(q)
              BY <1>2, <2>1, <3>1, <3>2, <4>3 DEF InspectWaiter, Undisturbed
        <5>2. EntryFits(r, f) /\ Alive(q) /\ FileFits(q) /\ f.ticket \in Nat
              BY <2>1, <2>3, <3>1
                 DEF Safe, EntriesFit, FilesFit, Behind, TypeOK, Seen, Entries
        <5>3. file[q] = NoFile
              BY <3>1, <4>3, <5>1, <5>2 DEF EntryFits, HasTicket, TypeOK
        <5>4. pc[q] \in Elsewhere
              BY <5>2, <5>3 DEF FileFits, HasTicket, Elsewhere, TypeOK, Stages
        <5> QED
              BY <2>3, <5>4 DEF Behind
      <4> QED
            BY <4>2, <4>3
    <3>3. CASE r # p \/ f # e
          BY <1>2, <3>1, <3>3 DEF InspectWaiter, TypeOK, Considered, Seen
    <3> QED
          BY <3>2, <3>3
  <2> QED
        BY <2>2, <2>3
<1>3. CASE ~ListWaiters(p) /\ ~\E e \in unread[p] : InspectWaiter(p, e)
  <2>1. Alive(r) /\ pc[r] = "electing" /\ Seen(r)' = Seen(r)
        BY <1>3, OnlyListingElects
  <2> QED
        BY <2>1, BehindIsStable DEF Safe, ElectionsAreFair, Considered
<1> QED
      BY <1>1, <1>2, <1>3

LEMMA ElectedStaysFirst ==
    ASSUME TypeOK, TypeOK', Safe, Undisturbed', NEW p \in Requests, StepOf(p)
    PROVE  ElectedIsFirst'
<1> SUFFICES ASSUME NEW r \in Requests, NEW q \in Requests, Alive(r)', pc'[r] \in Elected, q # r
             PROVE  Behind(q, r)'
    BY DEF ElectedIsFirst
<1>1. CASE r = p /\ OpenLock(p)
  <2>1. Alive(p) /\ pc[p] = "electing" /\ Inspected(p) /\ IsElected(p)
        BY <1>1 DEF OpenLock, At, Alive
  <2>2. Behind(q, r)
        BY <1>1, <2>1, WinnerIsBeforeAll
  <2> QED
        BY <1>1, <2>1, <2>2, BehindIsStable DEF Numbered, Elected
<1>2. CASE ~(r = p /\ OpenLock(p))
  <2>1. Alive(r) /\ pc[r] \in Elected
        BY <1>2, OnlyWinnersAreElected
  <2>2. Behind(q, r)
        BY <2>1 DEF Safe, ElectedIsFirst
  <2> QED
        BY <2>1, <2>2, BehindIsStable DEF Numbered, Elected
<1> QED
      BY <1>1, <1>2

LEMMA OwnersKeepTheLock ==
    ASSUME TypeOK, TypeOK', Safe, Undisturbed', NEW p \in Requests, StepOf(p)
    PROVE  OwnersHoldTheLock'
<1> USE DEF At, Goto, NoFile, Choosing, Listing, Numbered, TypeOK, Safe, OwnersHoldTheLock,
            ReclaimedIsDead, Owning, Alive
<1>1. CASE CreateWaiter(p)
      BY <1>1 DEF CreateWaiter
<1>2. CASE ListWaiters(p)
      BY <1>2 DEF ListWaiters
<1>3. ASSUME NEW e \in unread[p], InspectWaiter(p, e)
      PROVE  OwnersHoldTheLock'
      BY <1>3 DEF InspectWaiter
<1>4. CASE PublishTicket(p)
      BY <1>4 DEF PublishTicket, Forget, Inspected
<1>5. CASE LoseElection(p)
      BY <1>5 DEF LoseElection, Forget, Inspected
<1>6. CASE GiveUp(p)
      BY <1>6 DEF GiveUp
<1>7. CASE OpenLock(p)
      BY <1>7, RequestsAssumption
         DEF OpenLock, TypeOK, Safe, OwnersHoldTheLock, Owning, Alive
<1>8. CASE ResolveCreateFailure(p)
      BY <1>8 DEF ResolveCreateFailure
<1>9. CASE ReclaimStaleLock(p)
      BY <1>9 DEF ReclaimStaleLock
<1>10. CASE CloseWaiter(p)
      BY <1>10 DEF CloseWaiter
<1>11. CASE EndOperation(p)
      BY <1>11 DEF EndOperation
<1>12. CASE RemoveLock(p)
      BY <1>12 DEF RemoveLock
<1>13. CASE Crash(p)
      BY <1>13 DEF Crash
<1>14. CASE LeaseExpires(p)
      BY <1>14 DEF LeaseExpires
<1>15. CASE Heartbeat(p)
      BY <1>15 DEF Heartbeat
<1>16. CASE MissHeartbeats(p)
      BY <1>16 DEF MissHeartbeats, Undisturbed
<1> QED
      BY <1>1, <1>2, <1>3, <1>4, <1>5, <1>6, <1>7, <1>8, <1>9, <1>10, <1>11, <1>12, <1>13,
         <1>14, <1>15, <1>16
      DEF StepOf, Progress

LEMMA ReclaimedStaysDead ==
    ASSUME TypeOK, TypeOK', Safe, Undisturbed', NEW p \in Requests, StepOf(p)
    PROVE  ReclaimedIsDead'
<1> USE DEF At, Goto, NoFile, Choosing, Listing, Numbered, TypeOK, Safe, OwnersHoldTheLock,
            ReclaimedIsDead, Owning, OnlyTheDeadAreLate
<1>1. CASE CreateWaiter(p)
      BY <1>1 DEF CreateWaiter
<1>2. CASE ListWaiters(p)
      BY <1>2 DEF ListWaiters
<1>3. ASSUME NEW e \in unread[p], InspectWaiter(p, e)
      PROVE  ReclaimedIsDead'
      BY <1>3 DEF InspectWaiter
<1>4. CASE PublishTicket(p)
      BY <1>4 DEF PublishTicket, Forget, Inspected
<1>5. CASE LoseElection(p)
      BY <1>5 DEF LoseElection, Forget, Inspected
<1>6. CASE GiveUp(p)
      BY <1>6 DEF GiveUp
<1>7. CASE OpenLock(p)
  <2> SUFFICES ASSUME NEW r \in Requests, Alive(r)', At(r, "reclaiming")',
                      lock' \notin crashed' \cup {NoRequest}
               PROVE  FALSE
      BY DEF ReclaimedIsDead, Alive
  <2>1. At(r, "reclaiming") /\ r # p /\ Alive(r) /\ pc[r] \in Elected
        BY <1>7 DEF OpenLock, TypeOK, Elected, Alive
  <2> QED
        BY <1>7, <2>1, WinnerIsFirst DEF OpenLock, Alive
<1>8. CASE ResolveCreateFailure(p)
      BY <1>8 DEF ResolveCreateFailure
<1>9. CASE ReclaimStaleLock(p)
      BY <1>9 DEF ReclaimStaleLock
<1>10. CASE CloseWaiter(p)
      BY <1>10 DEF CloseWaiter
<1>11. CASE EndOperation(p)
      BY <1>11 DEF EndOperation
<1>12. CASE RemoveLock(p)
      BY <1>12 DEF RemoveLock
<1>13. CASE Crash(p)
      BY <1>13 DEF Crash
<1>14. CASE LeaseExpires(p)
      BY <1>14 DEF LeaseExpires
<1>15. CASE Heartbeat(p)
      BY <1>15 DEF Heartbeat
<1>16. CASE MissHeartbeats(p)
      BY <1>16 DEF MissHeartbeats, Undisturbed
<1> QED
      BY <1>1, <1>2, <1>3, <1>4, <1>5, <1>6, <1>7, <1>8, <1>9, <1>10, <1>11, <1>12, <1>13,
         <1>14, <1>15, <1>16
      DEF StepOf, Progress

LEMMA LatenessStaysDead ==
    ASSUME TypeOK, TypeOK', Safe, Undisturbed', NEW p \in Requests, StepOf(p)
    PROVE  OnlyTheDeadAreLate'
<1> USE DEF OnlyTheDeadAreLate, Safe
<1>1. CASE LeaseExpires(p)
      BY <1>1 DEF LeaseExpires
<1>2. CASE MissHeartbeats(p)
      BY <1>2 DEF MissHeartbeats, Undisturbed, TypeOK
<1>3. CASE Crash(p)
      BY <1>3 DEF Crash
<1>4. CASE Heartbeat(p)
      BY <1>4 DEF Heartbeat
<1>5. CASE CreateWaiter(p) \/ Progress(p) \/ GiveUp(p)
      BY <1>5
         DEF Progress, CreateWaiter, ListWaiters, InspectWaiter, PublishTicket, LoseElection,
             GiveUp, OpenLock, ResolveCreateFailure, ReclaimStaleLock, CloseWaiter,
             EndOperation, RemoveLock
<1> QED
      BY <1>1, <1>2, <1>3, <1>4, <1>5 DEF StepOf

LEMMA StepKeepsExclusion ==
    ASSUME TypeOK, TypeOK', Safe, Undisturbed', NEW p \in Requests, StepOf(p)
    PROVE  Safe'
<1>1. OnlyTheDeadAreLate'
      BY LatenessStaysDead
<1>2. FilesFit'
      BY LivingKeepTheirFiles DEF FilesFit
<1>3. EntriesFit'
      BY EntriesStayFit
<1>4. ElectedIsFirst'
      BY ElectedStaysFirst
<1>5. ElectionsAreFair'
      BY ElectionsStayFair
<1>6. OwnersHoldTheLock'
      BY OwnersKeepTheLock
<1>7. ReclaimedIsDead'
      BY ReclaimedStaysDead
<1> QED
      BY <1>1, <1>2, <1>3, <1>4, <1>5, <1>6, <1>7 DEF Safe

LEMMA InitExclusionInv == Init => ExclusionInv
<1> SUFFICES ASSUME Init PROVE Safe
    BY InitTypeOK DEF ExclusionInv
<1> USE DEF Init, NoFile, Choosing, Numbered, Elected, Owning
<1>1. OnlyTheDeadAreLate /\ FilesFit
      BY DEF OnlyTheDeadAreLate, FilesFit, FileFits, HasTicket
<1>2. EntriesFit
      BY DEF EntriesFit, Seen
<1>3. ElectedIsFirst /\ ElectionsAreFair /\ OwnersHoldTheLock /\ ReclaimedIsDead
      BY DEF ElectedIsFirst, ElectionsAreFair, OwnersHoldTheLock, ReclaimedIsDead, At
<1> QED
      BY <1>1, <1>2, <1>3 DEF Safe

\* What disturbs the lock once disturbs it for good.
LEMMA DisturbanceStays ==
    ASSUME TypeOK, Next, Undisturbed'
    PROVE  Undisturbed
<1> USE DEF Undisturbed
<1>1. PICK p \in Requests : StepOf(p)
      BY DEF Next, StepOf
<1>2. CASE MissHeartbeats(p)
      BY <1>2 DEF MissHeartbeats, TypeOK
<1>3. CASE \E e \in unread[p] : InspectWaiter(p, e)
      BY <1>3 DEF InspectWaiter
<1>4. CASE \/ CreateWaiter(p) \/ ListWaiters(p) \/ PublishTicket(p) \/ LoseElection(p)
           \/ GiveUp(p) \/ OpenLock(p) \/ ResolveCreateFailure(p) \/ ReclaimStaleLock(p)
           \/ CloseWaiter(p) \/ EndOperation(p) \/ RemoveLock(p)
           \/ Crash(p) \/ LeaseExpires(p) \/ Heartbeat(p)
      BY <1>4
         DEF CreateWaiter, ListWaiters, PublishTicket, LoseElection, GiveUp, OpenLock,
             ResolveCreateFailure, ReclaimStaleLock, CloseWaiter, EndOperation, RemoveLock,
             Crash, LeaseExpires, Heartbeat
<1> QED
      BY <1>1, <1>2, <1>3, <1>4 DEF StepOf, Progress

LEMMA NextExclusionInv ==
    ASSUME ExclusionInv, [Next]_vars
    PROVE  ExclusionInv'
<1>1. TypeOK /\ TypeOK'
      BY NextTypeOK DEF ExclusionInv
<1>2. CASE Next
  <2> SUFFICES ASSUME Undisturbed' PROVE Safe'
      BY <1>1 DEF ExclusionInv
  <2>1. Safe
        BY <1>1, <1>2, DisturbanceStays DEF ExclusionInv
  <2>2. PICK p \in Requests : StepOf(p)
        BY <1>2 DEF Next, StepOf
  <2> QED
        BY <1>1, <2>1, <2>2, StepKeepsExclusion
<1>3. CASE UNCHANGED vars
  <2>1. Undisturbed' = Undisturbed
        BY <1>3 DEF vars, Undisturbed
  <2>2. Safe' = Safe
        BY <1>3
           DEF vars, Safe, OnlyTheDeadAreLate, FilesFit, EntriesFit, ElectedIsFirst,
               ElectionsAreFair, OwnersHoldTheLock, ReclaimedIsDead, FileFits, EntryFits, Behind,
               Considered, Alive, Seen, EntryOf, HasTicket, At
  <2> QED
        BY <1>1, <2>1, <2>2 DEF ExclusionInv
<1> QED
      BY <1>2, <1>3

\* Two operations of the lock overlap only after a live request missed its heartbeats for
\* a lease or an election overlooked a waiter: of the elections, the creation of the lock
\* file and the reclaiming of stale ones, for any number of requests and crashes.
THEOREM LockExcludes == Spec => []ExclusiveUnlessOverlooked
<1>1. ExclusionInv => ExclusiveUnlessOverlooked
  <2> SUFFICES ASSUME ExclusionInv, Undisturbed, NEW r \in Holders, NEW q \in Holders
               PROVE  r = q
      BY DEF ExclusiveUnlessOverlooked, MutualExclusion, Undisturbed
  <2> QED
      BY DEF ExclusionInv, Safe, OwnersHoldTheLock, Holders, At, Alive, Owning
<1> QED
      BY <1>1, InitExclusionInv, NextExclusionInv, PTL DEF Spec

=============================================================================
