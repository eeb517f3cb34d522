----------------------------- MODULE ProxyChannel -----------------------------
(***************************************************************************)
(* One session's channel in the agent proxy.  Browsers hold websockets to  *)
(* the proxy, the proxy holds at most one connection to the service (the   *)
(* upstream) per channel.  The service commits the lifecycle events of the *)
(* session's turns and sends them over the connection a run command came   *)
(* from; the proxy keeps a window of them and broadcasts them to the       *)
(* subscribers of the channel, each until the browser's receipt.           *)
(*                                                                         *)
(* A browser that lost its socket opens another one and reconnects: it     *)
(* says which event it knows last, and is answered from the window, or     *)
(* from a snapshot of the service where the window does not tell.  What    *)
(* arrives while the snapshot is on its way is buffered for the socket.    *)
(*                                                                         *)
(* The proxy is single-threaded; a step is the code between two awaits.    *)
(* The service is what it does to the channel: events are numbered as they *)
(* are committed and sent in that order (SessionOutbox), a command is      *)
(* handled as it arrives, a snapshot is read some time before it arrives.  *)
(* A browser handles a frame as it is sent; its receipt takes time.        *)
(*                                                                         *)
(* Left out: events other than those of the turn lifecycle, interactions   *)
(* and channel states, stop and execution queries, several channels (a     *)
(* child session's), permissions, sockets that are slow, the limit of the  *)
(* journal, sessions that are deleted, and events the service sends again  *)
(* because their acknowledgement was lost.  An upstream that opens on a    *)
(* retained channel is closed at once unless it is a snapshot query; no    *)
(* run can meet that, because its command ends the retention and no event  *)
(* arrives before the connection is open.                                  *)
(***************************************************************************)
EXTENDS Naturals, Sequences, FiniteSets, FiniteSetsExt

CONSTANTS
    Sockets, NoSocket,  \* browser websockets, each opened once
    MaxAttempts,    \* sends of a lifecycle event before its socket is given up
    MaxWindow,      \* events in the window of a channel
    TerminalLimit,  \* ended turns in a snapshot
    MaxTurns, MaxEvents,    \* bounds: turns run, events committed
    MaxRequests,    \* bound: reconnects
    MaxCommands,    \* bound: run commands
    MaxFaults       \* bound: upstreams and runs lost

ASSUME SocketsAssumption == NoSocket \notin Sockets
ASSUME LimitsAssumption == {MaxAttempts, MaxWindow, TerminalLimit} \subseteq Nat \ {0}
ASSUME BoundsAssumption ==
    {MaxTurns, MaxEvents, MaxRequests, MaxCommands, MaxFaults} \subseteq Nat

VARIABLES
    log,            \* service: the committed events
    runner,         \* service: the turn that is run, 0 if none
    sent,           \* how many of the events the proxy has received
    chan,           \* the channel
    up,             \* its upstream transport
    sock,           \* the sockets
    seen,           \* browser of each socket: the last event of each turn it has
    flight,         \* the delivery of each turn that waits for a receipt
    txn,            \* the reconnect transaction of each socket, 0 if none
    req,            \* the reconnects
    commands, faults,
    frame,          \* history: the last event of each turn sent over each socket
    rewound,        \* history: sockets that got an event after a later one of its turn
    joined,         \* history: sockets that joined a run during their reconnect
    current         \* history: the turns the last completed reconnect of each socket
                    \* brought up to date

service == <<log, runner>>
counters == <<commands, faults>>
frames == <<frame, rewound, joined>>
vars == <<log, runner, sent, chan, up, sock, seen, flight, txn, req, commands, faults,
          frame, rewound, joined, current>>

Turns == 1..MaxTurns
Requests == 1..MaxRequests
Events == 1..MaxEvents

Record == [turn : Turns, kind : {"accepted", "processing", "ended"}]

\* The last event of a turn in a set of events.
Last(S, t) == Max({n \in S : log[n].turn = t} \cup {0})

\* The last of two numbers.
Later(a, b) == IF a > b THEN a ELSE b

(***************************************************************************)
(* The service.                                                            *)
(***************************************************************************)
OpenTurn == IF log = <<>> \/ log[Len(log)].kind = "ended" THEN 0 ELSE log[Len(log)].turn

\* A turn is open that nobody runs: its snapshot asks for recovery.
Orphaned == OpenTurn # 0 /\ runner = 0

Ended(t) == [turn |-> t, kind |-> "ended"]

\* A snapshot does not name an executor, so what is left open is failed.
Finalized == IF Orphaned THEN Append(log, Ended(OpenTurn)) ELSE log

NextTurn == IF log = <<>> THEN 1 ELSE log[Len(log)].turn + 1

\* Whether the bounds leave room for another run command.
MayCommand == /\ commands < MaxCommands
              /\ \/ runner # 0
                 \/ NextTurn \in Turns /\ Len(log) + 2 <= MaxEvents

\* A run command reaches the service over a connection, which gets the events of the
\* run from then on: of a new turn, or of the one that runs, unless the command is
\* for another turn and rejected.
RunArrives(connection) ==
    \/ /\ runner = 0 /\ NextTurn \in Turns /\ Len(log) + 2 <= MaxEvents
       /\ log' = Append(Finalized, [turn |-> NextTurn, kind |-> "accepted"])
       /\ runner' = NextTurn
       /\ up' = [connection EXCEPT !.bound = TRUE]
    \/ /\ runner # 0
       /\ \E again \in BOOLEAN : up' = [connection EXCEPT !.bound = @ \/ again]
       /\ UNCHANGED service

\* The run commits its next event.
Commit ==
    /\ runner # 0 /\ Len(log) < MaxEvents
    /\ \/ /\ log[Len(log)].kind = "accepted"
          /\ log' = Append(log, [turn |-> runner, kind |-> "processing"])
          /\ UNCHANGED runner
       \/ /\ log' = Append(log, Ended(runner))
          /\ runner' = 0
    /\ UNCHANGED <<sent, chan, up, sock, seen, flight, txn, req, counters, frames, current>>

\* The run is gone before its turn ended.
RunLost ==
    /\ runner # 0 /\ faults < MaxFaults
    /\ runner' = 0
    /\ faults' = faults + 1
    /\ UNCHANGED <<log, sent, chan, up, sock, seen, flight, txn, req, commands, frames,
                   current>>

(***************************************************************************)
(* The upstream transport.                                                 *)
(***************************************************************************)
Transport == [phase : {"idle", "connecting", "open"}, gen : Nat, bound : BOOLEAN,
              purpose : {"none", "run", "snapshot_query", "reconnect_session"}]

Closed(u) == [u EXCEPT !.phase = "idle", !.purpose = "none", !.bound = FALSE]

Connect(u, purpose) ==
    [phase |-> "connecting", gen |-> u.gen + 1, bound |-> FALSE, purpose |-> purpose]

\* mutant: whatever the connection is used for by now.
CloseCurrent(u, r) ==
    IF u.phase # "idle" /\ u.gen = req[r].query THEN Closed(u) ELSE u

\* Ends a reconnect's own query connection, if it is still one.
CloseOwned(u, r) ==
    IF u.phase # "idle" /\ u.gen = req[r].query /\ u.purpose = "snapshot_query"
    THEN Closed(u) ELSE u

UpstreamOpens ==
    /\ up.phase = "connecting"
    /\ IF up.purpose = "run" THEN RunArrives([up EXCEPT !.phase = "open"])
       ELSE up' = [up EXCEPT !.phase = "open"] /\ UNCHANGED service
    /\ UNCHANGED <<sent, chan, sock, seen, flight, txn, req, counters, frames, current>>

\* The connection fails, or its heartbeat is not answered; nobody is told.
UpstreamLost ==
    /\ up.phase # "idle" /\ faults < MaxFaults
    /\ up' = Closed(up)
    /\ faults' = faults + 1
    /\ UNCHANGED <<service, sent, chan, sock, seen, flight, txn, req, commands, frames,
                   current>>

(***************************************************************************)
(* Deliveries.                                                             *)
(***************************************************************************)
NoDelivery == [event |-> 0, attempts |-> 0]
NoDeliveries == [t \in Turns |-> NoDelivery]

\* The proxy may write to the socket: the browser is there, or the proxy does not
\* know that it is gone.
Writable(s) == sock[s] \in {"open", "gone"}

\* mutant: what is in flight of a turn is left there.
DeliveredBehind(s, S) ==
    [t \in Turns |->
        IF Writable(s) /\ Last(S, t) > 0 /\ flight[s][t].event = 0
        THEN [event |-> Last(S, t), attempts |-> 1] ELSE flight[s][t]]

\* Events are sent to a socket one by one, in their order.  An event is not sent when a
\* later one of its turn, or the same, is in flight; if it is, it supersedes what is in
\* flight.  What is left in flight, and was sent last, is the last event of each turn.
Delivered(s, S) ==
    [t \in Turns |->
        IF Writable(s) /\ Last(S, t) > flight[s][t].event
        THEN [event |-> Last(S, t), attempts |-> 1] ELSE flight[s][t]]

Framed(s, S) ==
    [t \in Turns |->
        IF Writable(s) /\ Last(S, t) > flight[s][t].event THEN Last(S, t) ELSE frame[s][t]]

\* One of the events that are sent is older than what was sent of its turn before.
Rewinds(s, S) ==
    Writable(s) /\ \E n \in S : /\ flight[s][log[n].turn].event < n
                               /\ n < frame[s][log[n].turn]

Seen(s, S) ==
    [t \in Turns |-> IF sock[s] = "open" THEN Later(seen[s][t], Last(S, t)) ELSE seen[s][t]]

SendTo(s, S) ==
    /\ flight' = [flight EXCEPT ![s] = Delivered(s, S)]
    /\ frame' = [frame EXCEPT ![s] = Framed(s, S)]
    /\ rewound' = IF Rewinds(s, S) THEN rewound \cup {s} ELSE rewound
    /\ seen' = [seen EXCEPT ![s] = Seen(s, S)]

Receipt(s, t) ==
    /\ sock[s] = "open" /\ flight[s][t].event # 0
    /\ flight' = [flight EXCEPT ![s][t] = NoDelivery]
    /\ UNCHANGED <<service, sent, chan, up, sock, seen, txn, req, counters, frames, current>>

\* mutant: the attempts of a delivery are not counted.
RetryUncounted(s, t) ==
    /\ Writable(s) /\ flight[s][t].event # 0
    /\ IF flight[s][t].attempts < MaxAttempts
       THEN /\ frame' = [frame EXCEPT ![s][t] = flight[s][t].event]
            /\ UNCHANGED <<flight, sock>>
       ELSE /\ flight' = [flight EXCEPT ![s] = NoDeliveries]
            /\ sock' = [sock EXCEPT ![s] = "closing"]
            /\ UNCHANGED frame
    /\ UNCHANGED <<service, sent, chan, up, seen, txn, req, counters, rewound, joined,
                   current>>

\* No receipt in time: the event is sent again, in the end the socket is closed.
Retry(s, t) ==
    /\ Writable(s) /\ flight[s][t].event # 0
    /\ IF flight[s][t].attempts < MaxAttempts
       THEN /\ flight' = [flight EXCEPT ![s][t].attempts = @ + 1]
            /\ frame' = [frame EXCEPT ![s][t] = flight[s][t].event]
            /\ UNCHANGED sock
       ELSE /\ flight' = [flight EXCEPT ![s] = NoDeliveries]
            /\ sock' = [sock EXCEPT ![s] = "closing"]
            /\ UNCHANGED frame
    /\ UNCHANGED <<service, sent, chan, up, seen, txn, req, counters, rewound, joined,
                   current>>

(***************************************************************************)
(* The channel.                                                            *)
(***************************************************************************)
Channel == [exists : BOOLEAN, running : BOOLEAN, retained : BOOLEAN,
            window : SUBSET Events,     \* the lifecycle window
            base : {0} \cup Events,     \* the journal has the events after this one
            subs : SUBSET Sockets]

NoChannel == [exists |-> FALSE, running |-> FALSE, retained |-> FALSE,
              window |-> {}, base |-> 0, subs |-> {}]

EnsureChannel == IF chan.exists THEN chan ELSE [NoChannel EXCEPT !.exists = TRUE, !.base = sent]

Recorded(S) == {n \in S : Cardinality({m \in S : m > n}) < MaxWindow}

\* What an event says of the channel: it runs, or it is done and kept for a while.
Projected(c, e) ==
    CASE log[e].kind = "accepted"   -> c
      [] log[e].kind = "processing" -> [c EXCEPT !.running = TRUE, !.retained = FALSE]
      [] log[e].kind = "ended"      -> [c EXCEPT !.running = FALSE, !.retained = TRUE]

\* An event arrives: it is recorded, and buffered or sent for every subscriber.
EventArrives ==
    /\ up.phase = "open" /\ up.bound /\ sent < Len(log)
    /\ sent' = sent + 1
    /\ LET e == sent + 1
           buffering == {s \in chan.subs : txn[s] # 0}
           sending == chan.subs \ buffering
       IN /\ chan' = Projected([chan EXCEPT !.window = Recorded(@ \cup {e})], e)
          /\ req' = [r \in Requests |->
                        IF \E s \in buffering : txn[s] = r
                        THEN [req[r] EXCEPT !.buffer = @ \cup {e}] ELSE req[r]]
          /\ flight' = [s \in Sockets |->
                        IF s \in sending THEN Delivered(s, {e}) ELSE flight[s]]
          /\ frame' = [s \in Sockets |->
                        IF s \in sending THEN Framed(s, {e}) ELSE frame[s]]
          /\ rewound' = rewound \cup {s \in sending : Rewinds(s, {e})}
          /\ seen' = [s \in Sockets |->
                        IF s \in sending THEN Seen(s, {e}) ELSE seen[s]]
    /\ UNCHANGED <<service, up, sock, txn, counters, joined, current>>

\* A send or resend: it joins a channel whose run goes on over an open upstream, else
\* it starts the run over a new one.
StartOrJoin(s) ==
    /\ sock[s] = "open" /\ MayCommand
    /\ commands' = commands + 1
    /\ \/ /\ chan.running /\ up.phase = "open"
          /\ \E last \in chan.base..sent :
                /\ s \notin chan.subs => last = chan.base
                /\ SendTo(s, (last + 1)..sent)
          /\ joined' = IF txn[s] = 0 THEN joined ELSE joined \cup {s}
          /\ chan' = [chan EXCEPT !.subs = @ \cup {s}]
          /\ UNCHANGED up
       \/ /\ ~(chan.running /\ up.phase = "open")
          /\ chan' = [EnsureChannel EXCEPT !.subs = @ \cup {s}, !.base = sent,
                                           !.running = FALSE, !.retained = FALSE]
          /\ up' = Connect(up, "run")
          /\ UNCHANGED <<flight, frames, seen>>
    /\ UNCHANGED <<service, sent, sock, txn, req, faults, current>>

\* A continue: forwarded if the upstream is open, which becomes the run's.  Without a
\* channel it is a StartOrJoin.
Continue(s) ==
    /\ sock[s] = "open" /\ MayCommand /\ chan.exists
    /\ commands' = commands + 1
    /\ \/ /\ up.phase = "open"
          /\ RunArrives([up EXCEPT !.purpose = "run"])
          /\ UNCHANGED chan
       \/ /\ up.phase # "open"
          /\ chan' = [chan EXCEPT !.running = FALSE, !.retained = FALSE]
          /\ up' = Connect(up, "run")
          /\ UNCHANGED service
    /\ UNCHANGED <<sent, sock, seen, flight, txn, req, faults, frames, current>>

(***************************************************************************)
(* Reconnects.                                                             *)
(***************************************************************************)
Request == [socket : Sockets \cup {NoSocket},
            stage : {"none", "provisioning", "waiting", "done", "failed", "silent", "lost"},
            known : {0} \cup Events,    \* the event the browser knows last
            replay : SUBSET Events,     \* events answered from the window
            buffer : SUBSET Events,     \* events that arrived meanwhile
            command : {"none", "snapshot", "finalize"},     \* the pending command, ...
            gen : Nat,                  \* ... the connection it was sent over, ...
            read : {0} \cup Events,     \* ... and the last event its answer covers
            flagged : BOOLEAN,          \* that answer asks for recovery
            query : Nat,                \* the connection opened for the query
            provisioned : BOOLEAN]

NoRequest == [socket |-> NoSocket, stage |-> "none", known |-> 0, replay |-> {},
              buffer |-> {}, command |-> "none", gen |-> 0, read |-> 0, flagged |-> FALSE,
              query |-> 0, provisioned |-> FALSE]

Ending(q, stage) == [q EXCEPT !.stage = stage, !.command = "none", !.buffer = {},
                              !.replay = {}, !.read = 0, !.flagged = FALSE, !.gen = 0,
                              !.query = 0]

Known(s) == Max({seen[s][t] : t \in Turns} \cup {0})

\* The window does not say what happened since the event the browser knows.  Events
\* arrive in their order, so the window itself has no gap.
HasGap(known) == IF chan.window = {} THEN known > 0 ELSE known + 1 < Min(chan.window)

Replay(known) == IF HasGap(known) THEN {} ELSE {n \in chan.window : n > known}

HasActiveTurn == chan.window # {} /\ log[Max(chan.window)].kind # "ended"

\* mutant: the channel has one transaction, whichever socket it is for.
CancelledNewest(s) ==
    LET newest == Max({txn[p] : p \in Sockets})
    IN IF newest = 0 THEN req ELSE [req EXCEPT ![newest] = Ending(@, "silent")]

\* Ends the transaction of a socket, without an answer.
Cancelled(s) == IF txn[s] = 0 THEN req
                ELSE [req EXCEPT ![txn[s]] = Ending(@, "silent")]

WithoutQuery(s) == IF txn[s] = 0 THEN up ELSE CloseOwned(up, txn[s])

\* mutant: the transaction is gone when its buffer is read.
BufferForgotten(r) == {}

\* What arrived during reconnect r is sent after its answer, if the channel is still there.
Buffered(r) == IF chan.exists THEN req[r].buffer ELSE {}

\* The turns a snapshot tells of: the open one, and those that ended last.
Covered(snapshot) ==
    {t \in Turns : Cardinality({n \in 1..snapshot : log[n].kind = "ended" /\ log[n].turn > t})
                      < TerminalLimit}

\* The answer: the snapshot, the window's events after it, and what was buffered, of which
\* the snapshot may tell already.
Publish(s, r) ==
    LET told == {n \in 1..req[r].read : log[n].turn \in Covered(req[r].read)}
                   \cup {n \in req[r].replay : n > req[r].read} \cup Buffered(r)
    IN /\ seen' = [seen EXCEPT ![s] = Seen(s, told)]
       /\ flight' = [flight EXCEPT ![s] = Delivered(s, Buffered(r))]
       /\ frame' = [frame EXCEPT ![s] = Framed(s, Buffered(r))]
       /\ rewound' = IF Rewinds(s, Buffered(r)) THEN rewound \cup {s} ELSE rewound
       /\ joined' = joined \ {s}
       /\ txn' = [txn EXCEPT ![s] = 0]
       /\ current' = [current EXCEPT ![s] = Covered(req[r].read)]

\* History: the turns of which the browser has what it says it knows.  It names the
\* largest event it has, which does not mean that it has the last event of every turn
\* before that one.
HasUpTo(s, known) == {t \in Turns : seen[s][t] >= Last(1..known, t)}

\* The rest of a reconnect once the channel is there: the socket subscribes, and is
\* answered from the window, or waits for a snapshot, asked for over the open upstream
\* or a connection of its own.  u, q and f are the upstream, the requests and the
\* deliveries as the step has left them so far.
Prepare(s, r, u, q, f) ==
    LET known == q[r].known
        waits == HasGap(known) \/ HasActiveTurn
        via == IF u.phase = "open" THEN u ELSE Connect(u, "snapshot_query")
    IN /\ chan' = [chan EXCEPT !.subs = @ \cup {s}]
       /\ \/ /\ ~waits
             /\ seen' = [seen EXCEPT ![s] = Seen(s, Replay(known))]
             /\ req' = [q EXCEPT ![r] = Ending(@, "done")]
             /\ txn' = [txn EXCEPT ![s] = 0]
             /\ current' = [current EXCEPT ![s] = HasUpTo(s, known)]
             /\ up' = u
          \/ /\ waits /\ u.phase # "connecting"
             /\ up' = via
             /\ req' = [q EXCEPT ![r].stage = "waiting", ![r].replay = Replay(known),
                                 ![r].command = "snapshot", ![r].gen = via.gen,
                                 ![r].query = IF u.phase = "open" THEN 0 ELSE via.gen]
             /\ txn' = [txn EXCEPT ![s] = r]
             /\ current' = [current EXCEPT ![s] = {}]
             /\ UNCHANGED seen
          \/ /\ waits /\ u.phase = "connecting"
             /\ req' = [q EXCEPT ![r] = Ending(@, "failed")]
             /\ txn' = [txn EXCEPT ![s] = 0]
             /\ current' = [current EXCEPT ![s] = {}]
             /\ up' = u
             /\ UNCHANGED seen
       /\ flight' = f
       /\ joined' = joined \ {s}
       /\ UNCHANGED <<frame, rewound>>

\* A browser reconnects.  What waited for its receipts and its earlier reconnect are
\* dropped; without a channel one is provisioned.
Reconnect(s, r) ==
    LET q == [Cancelled(s) EXCEPT ![r] = [NoRequest EXCEPT !.socket = s, !.known = Known(s)]]
        u == WithoutQuery(s)
        f == [flight EXCEPT ![s] = NoDeliveries]
    IN /\ sock[s] = "open"
       /\ req[r].stage = "none" /\ \A p \in 1..(r - 1) : req[p].stage # "none"
       /\ \/ chan.exists /\ Prepare(s, r, u, q, f)
          \/ /\ ~chan.exists
             /\ chan' = EnsureChannel
             /\ up' = Connect(u, "reconnect_session")
             /\ req' = [q EXCEPT ![r].stage = "provisioning", ![r].provisioned = TRUE]
             /\ flight' = f
             /\ txn' = [txn EXCEPT ![s] = 0]
             /\ UNCHANGED <<seen, frames, current>>
       /\ UNCHANGED <<service, sent, sock, counters>>

\* The provisioned channel is open, or that took too long; what became of the socket
\* and its other reconnects is not looked at.
Provisioned(r) ==
    /\ req[r].stage = "provisioning"
    /\ Prepare(req[r].socket, r, up, req, flight)
    /\ UNCHANGED <<service, sent, sock, counters>>

\* The service handles the pending command of a reconnect.  The snapshot of an orphaned
\* turn asks for recovery, unless the turn is in its grace period.  A finalize has the open
\* turn settled, and its events are sent over the connection.
Read(r) ==
    /\ req[r].stage = "waiting" /\ req[r].read = 0
    /\ up.phase = "open" /\ up.gen = req[r].gen
    /\ \/ /\ req[r].command = "snapshot"
          /\ \E asks \in {Orphaned, FALSE} :
                req' = [req EXCEPT ![r].read = Len(log), ![r].flagged = asks]
          /\ UNCHANGED <<service, up>>
       \/ /\ req[r].command = "finalize" /\ Len(Finalized) <= MaxEvents
          /\ log' = Finalized
          /\ req' = [req EXCEPT ![r].read = Len(Finalized)]
          /\ up' = [up EXCEPT !.bound = @ \/ Orphaned]
          /\ UNCHANGED runner
    /\ UNCHANGED <<sent, chan, sock, seen, flight, txn, counters, frames, current>>

\* The answer arrives.  One that asks for recovery is followed by a finalize; one for a
\* reconnect that another has replaced is dropped.
Answered(r) ==
    LET s == req[r].socket
    IN /\ req[r].stage = "waiting" /\ req[r].read # 0
       /\ up.phase = "open" /\ up.gen = req[r].gen
       /\ req[r].command = "finalize" /\ up.bound => sent >= req[r].read
       /\ \/ /\ req[r].flagged
             /\ req' = [req EXCEPT ![r].command = "finalize", ![r].read = 0,
                                   ![r].flagged = FALSE]
             /\ UNCHANGED <<up, seen, flight, txn, frames, current>>
          \/ /\ ~req[r].flagged /\ txn[s] = r
             /\ Publish(s, r)
             /\ up' = CloseOwned(up, r)
             /\ req' = [req EXCEPT ![r] = Ending(@, "done")]
          \/ /\ ~req[r].flagged /\ txn[s] # r
             /\ req' = [req EXCEPT ![r] = Ending(@, "silent")]
             /\ UNCHANGED <<up, seen, flight, txn, frames, current>>
    /\ UNCHANGED <<service, sent, chan, sock, counters>>

\* The service fails the command, or no answer came in time: the reconnect is rejected,
\* with what was buffered for it.
Rejected(r) ==
    LET s == req[r].socket
    IN /\ req[r].stage = "waiting"
       /\ \/ /\ txn[s] = r
             /\ up' = CloseOwned(up, r)
             /\ req' = [req EXCEPT ![r] = Ending(@, "failed")]
             /\ txn' = [txn EXCEPT ![s] = 0]
          \/ /\ txn[s] # r
             /\ req' = [req EXCEPT ![r] = Ending(@, "silent")]
             /\ UNCHANGED <<up, txn>>
    /\ UNCHANGED <<service, sent, chan, sock, seen, flight, counters, frames, current>>

(***************************************************************************)
(* Sockets and channels come and go.                                       *)
(***************************************************************************)
\* A browser opens a socket; it knows the events up to some point.
Open(s) ==
    /\ sock[s] = "unused"
    /\ \E known \in 0..Len(log) :
          seen' = [seen EXCEPT ![s] = [t \in Turns |-> Last(1..known, t)]]
    /\ sock' = [sock EXCEPT ![s] = "open"]
    /\ UNCHANGED <<service, sent, chan, up, flight, txn, req, counters, frames, current>>

\* The browser is gone and the proxy does not know yet.
Vanish(s) ==
    /\ sock[s] = "open"
    /\ sock' = [sock EXCEPT ![s] = "gone"]
    /\ UNCHANGED <<service, sent, chan, up, seen, flight, txn, req, counters, frames, current>>

\* mutant: a socket of a channel that is done stays with it.
DetachedFromLive(s) == IF chan.retained THEN chan ELSE [chan EXCEPT !.subs = @ \ {s}]

Detached(s) == [chan EXCEPT !.subs = @ \ {s}]

\* The proxy sees that a socket is closed, or closes one whose heartbeat is not answered.
\* Its transaction is cancelled and its other pending commands are forgotten.
ReleaseSocket(s) ==
    /\ sock[s] \in {"open", "gone", "closing"}
    /\ sock' = [sock EXCEPT ![s] = "closed"]
    /\ req' = [r \in Requests |->
                  IF req[r].stage = "waiting" /\ req[r].socket = s
                  THEN Ending(req[r], "silent") ELSE Cancelled(s)[r]]
    /\ up' = WithoutQuery(s)
    /\ txn' = [txn EXCEPT ![s] = 0]
    /\ flight' = [flight EXCEPT ![s] = NoDeliveries]
    /\ chan' = Detached(s)
    /\ current' = [current EXCEPT ![s] = {}]
    /\ UNCHANGED <<service, sent, seen, counters, frames>>

\* A channel is deleted when it was kept long enough: done, whoever subscribes to it, or
\* unused.  The pending commands of its reconnects are forgotten.  A channel is kept for
\* minutes and provisioned in seconds.
Cleanup ==
    /\ chan.exists /\ \A r \in Requests : req[r].stage # "provisioning"
    /\ \/ chan.retained
       \/ up.phase = "idle" /\ ~chan.running /\ chan.subs = {}
    /\ chan' = NoChannel
    /\ up' = Closed(up)
    /\ flight' = [s \in Sockets |-> IF s \in chan.subs THEN NoDeliveries ELSE flight[s]]
    /\ req' = [r \in Requests |->
                  IF req[r].stage = "waiting" THEN Ending(req[r], "lost") ELSE req[r]]
    /\ current' = [s \in Sockets |-> IF s \in chan.subs THEN {} ELSE current[s]]
    /\ UNCHANGED <<service, sent, sock, seen, txn, counters, frames>>

-----------------------------------------------------------------------------
Init ==
    /\ log = <<>> /\ runner = 0 /\ sent = 0
    /\ chan = NoChannel
    /\ up = [phase |-> "idle", gen |-> 0, bound |-> FALSE, purpose |-> "none"]
    /\ sock = [s \in Sockets |-> "unused"]
    /\ seen = [s \in Sockets |-> [t \in Turns |-> 0]]
    /\ flight = [s \in Sockets |-> NoDeliveries]
    /\ txn = [s \in Sockets |-> 0]
    /\ req = [r \in Requests |-> NoRequest]
    /\ commands = 0 /\ faults = 0
    /\ frame = [s \in Sockets |-> [t \in Turns |-> 0]]
    /\ rewound = {} /\ joined = {}
    /\ current = [s \in Sockets |-> {}]

Next ==
    \/ Commit \/ RunLost \/ UpstreamOpens \/ UpstreamLost \/ EventArrives \/ Cleanup
    \/ \E s \in Sockets :
          \/ Open(s) \/ Vanish(s) \/ ReleaseSocket(s) \/ StartOrJoin(s) \/ Continue(s)
          \/ \E t \in Turns : Receipt(s, t) \/ Retry(s, t)
          \/ \E r \in Requests : Reconnect(s, r)
    \/ \E r \in Requests : Provisioned(r) \/ Read(r) \/ Answered(r) \/ Rejected(r)

\* Timers: a provisioned channel and a pending command have a deadline, a delivery is
\* retried until its receipt, a closed socket is seen to be closed.
Fairness ==
    /\ \A r \in Requests : WF_vars(Provisioned(r)) /\ WF_vars(Rejected(r))
    /\ \A s \in Sockets, t \in Turns : WF_vars(Retry(s, t))
    /\ \A s \in Sockets : WF_vars(sock[s] = "closing" /\ ReleaseSocket(s))

Spec == Init /\ [][Next]_vars
FairSpec == Spec /\ Fairness

(***************************************************************************)
(* Properties.                                                             *)
(***************************************************************************)
TypeOK ==
    /\ log \in Seq(Record) /\ Len(log) <= MaxEvents
    /\ runner \in Turns \cup {0}
    /\ sent \in 0..Len(log)
    /\ chan \in Channel /\ up \in Transport
    /\ sock \in [Sockets -> {"unused", "open", "gone", "closing", "closed"}]
    /\ seen \in [Sockets -> [Turns -> Events \cup {0}]]
    /\ flight \in [Sockets -> [Turns -> [event : Events \cup {0}, attempts : 0..MaxAttempts]]]
    /\ txn \in [Sockets -> Requests \cup {0}]
    /\ req \in [Requests -> Request]
    /\ commands \in 0..MaxCommands /\ faults \in 0..MaxFaults
    /\ frame \in [Sockets -> [Turns -> Events \cup {0}]]
    /\ rewound \subseteq Sockets /\ joined \subseteq Sockets
    /\ current \in [Sockets -> SUBSET Turns]

\* A browser whose last reconnect was completed has the last event of a turn that the proxy
\* has in its window, whatever arrived while the snapshot was on its way, for as long as it
\* subscribes to the channel and has no other reconnect under way.  If the answer was a
\* snapshot, that holds of the turn that was open, of those that ended last, as many as a
\* snapshot has, and of later ones; the window's older events are not sent with it.  If it
\* was the window's, it holds of the turns of which the browser has what it said it knows.
\* A browser may not have that: a reconnect is rejected with its buffer, events of the next
\* turn are sent to it, and its next reconnect is answered from there.
CompletedMeansCurrent ==
    \A s \in chan.subs : \A t \in current[s] :
        sock[s] = "open" /\ txn[s] = 0 => seen[s][t] >= Last(chan.window, t)

Pending(r) == req[r].stage \in {"provisioning", "waiting"}

\* A reconnect ends without an answer only when its socket is closed, when another reconnect
\* of the same socket has taken its place (a later one, or one that came back from
\* provisioning the channel), or when the channel it waits on is deleted because its run
\* ended long ago: not as an unused one, and not because of another browser.
SilenceHasReason ==
    [][\A r \in Requests :
          Pending(r) /\ req'[r].stage \in {"silent", "lost"} =>
              \/ sock'[req[r].socket] = "closed"
              \/ \E p \in Requests : /\ p # r /\ req'[p].socket = req[r].socket
                                     /\ p > r \/ req'[p].provisioned
              \/ req'[r].stage = "lost" /\ chan.retained /\ ~chan'.exists]_vars

\* The variables have their types, and a closed socket stays a subscriber only by a
\* reconnect that provisioned the channel while the socket was closed.
SubscribersOK ==
    /\ TypeOK
    /\ \A s \in chan.subs :
          sock[s] = "closed" => \E r \in Requests : req[r].socket = s /\ req[r].provisioned

\* Of the events of a turn, a socket is never left with an older one as the last it was
\* sent: not by a retry, not by a join, which replays the channel's journal, not by what was
\* buffered, not by an event after the one that superseded it.  On the way there, events go
\* back in two cases only: in a join; and in the answer of a reconnect during which the same
\* socket joined, where the join replayed what is buffered as well, and what the browser has
\* confirmed since is sent again.
NoFrameGoesBack ==
    [][/\ \A s \in Sockets, t \in Turns : frame'[s][t] >= frame[s][t]
       /\ \A s \in rewound' \ rewound :
             \/ StartOrJoin(s)
             \/ s \in joined /\ \E r \in Requests : req[r].socket = s /\ Answered(r)]_vars

\* The end of a reconnect leaves the connection of a run open, also if it was opened for
\* the reconnect's own query and the run took it over later.
QueriesLeaveRunsAlone ==
    [][\A r \in Requests :
          Pending(r) /\ ~Pending(r)' /\ req'[r].stage # "lost" /\ up.purpose = "run"
             => up' = up]_vars

\* Nothing hangs.  Every reconnect comes to an end: answered, rejected, or dropped with
\* its socket, its channel or for another reconnect; neither a connection that does not
\* open nor a service that does not answer keeps it waiting.  And a browser that is gone
\* while an event waits for its receipt is noticed, unless the channel is deleted before.
NothingHangs ==
    /\ \A r \in Requests : Pending(r) ~> ~Pending(r)
    /\ \A s \in Sockets, t \in Turns :
          sock[s] = "gone" /\ flight[s][t].event # 0 ~> sock[s] = "closed" \/ s \notin chan.subs
=============================================================================
