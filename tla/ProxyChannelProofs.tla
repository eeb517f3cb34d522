------------------------- MODULE ProxyChannelProofs -------------------------
(***************************************************************************)
(* What a channel of the agent proxy guarantees for any browsers, turns,   *)
(* reconnects and faults, any window and any number of attempts.           *)
(***************************************************************************)
EXTENDS ProxyChannel, WellFoundedInduction, TLAPS

(***************************************************************************)
(* The types of all variables but rewound and joined, which no step reads. *)
(***************************************************************************)
Typed ==
    /\ log \in Seq(Record) /\ Len(log) <= MaxEvents
    /\ runner \in Turns \cup {0}
    /\ sent \in 0..Len(log)
    /\ chan \in Channel /\ up \in Transport
    /\ sock \in [Sockets -> {"unused", "open", "gone", "closing", "closed"}]
    /\ seen \in [Sockets -> [Turns -> Events \cup {0}]]
    /\ flight \in [Sockets -> [Turns -> [event : Events \cup {0}, attempts : 0..MaxAttempts]]]
    /\ txn \in [Sockets -> Requests \cup {0}]
    /\ req \in [Requests -> Request]
    /\ commands \in 0..MaxCommands /\ faults \in 0..MaxFaults
    /\ frame \in [Sockets -> [Turns -> Events \cup {0}]]
    /\ current \in [Sockets -> SUBSET Turns]

Histories == rewound \subseteq Sockets /\ joined \subseteq Sockets

(***************************************************************************)
(* The largest of bounded numbers.                                         *)
(***************************************************************************)
LEMMA Smallest ==
    ASSUME NEW T \in SUBSET Nat, T # {}
    PROVE  \E x \in T : \A y \in T : x <= y
<1> DEFINE R == OpToRel(<, Nat)
<1>1. IsWellFoundedOn(R, Nat) BY NatLessThanWellFounded
<1>2. \A x, y \in Nat : y < x => <<y, x>> \in R BY DEF OpToRel
<1> HIDE DEF R
<1>3. PICK x \in T : \A y \in T : <<y, x>> \notin R BY <1>1, WFMin
<1>4. ASSUME NEW y \in T PROVE x <= y
      <2>1. x \in Nat /\ y \in Nat OBVIOUS
      <2>2. ~(y < x) BY <1>2, <1>3, <2>1
      <2>3. QED BY <2>1, <2>2
<1>5. QED BY <1>4

LEMMA MaxFits ==
    ASSUME NEW S \in SUBSET Nat, S # {}, NEW b \in Nat, \A x \in S : x <= b
    PROVE  Max(S) \in S /\ \A x \in S : x <= Max(S)
<1> DEFINE T == {k \in Nat : \A x \in S : x <= k}
<1>1. PICK m \in T : \A k \in T : m <= k
      <2>1. b \in T OBVIOUS
      <2>2. T \in SUBSET Nat OBVIOUS
      <2> HIDE DEF T
      <2>3. QED BY <2>1, <2>2, Smallest
<1>2. m \in S
      <2> SUFFICES ASSUME m \notin S PROVE FALSE OBVIOUS
      <2>1. PICK x \in S : TRUE OBVIOUS
      <2>2. m \in Nat /\ x \in Nat OBVIOUS
      <2>3. \A y \in S : y < m OBVIOUS
      <2>4. m > 0 BY <2>2, <2>3
      <2>5. m - 1 \in T BY <2>3, <2>4
      <2> HIDE DEF T
      <2>6. m <= m - 1 BY <1>1, <2>5
      <2>7. QED BY <2>2, <2>6
<1>3. \A x \in S : m >= x OBVIOUS
<1> HIDE DEF T
<1>4. QED BY <1>2, <1>3 DEF Max

\* The last event of a turn in a set is one of them, or 0 if there is none.
LEMMA LastFits ==
    ASSUME NEW t, NEW b \in Nat, NEW S \in SUBSET (1..b)
    PROVE  /\ Last(S, t) \in 0..b
           /\ Last(S, t) # 0 => Last(S, t) \in S /\ log[Last(S, t)].turn = t
           /\ \A n \in S : log[n].turn = t => n <= Last(S, t)
<1> DEFINE T == {n \in S : log[n].turn = t} \cup {0}
<1>1. \A x \in T : x \in 0..b
      <2>1. \A n \in S : n \in 0..b OBVIOUS
      <2>2. QED BY <2>1
<1>2. Last(S, t) = Max(T) BY DEF Last
<1>3. Max(T) \in T /\ \A x \in T : x <= Max(T)
      <2>1. 0 \in T OBVIOUS
      <2> HIDE DEF T
      <2>2. T \in SUBSET Nat /\ \A x \in T : x <= b BY <1>1
      <2>3. QED BY <2>1, <2>2, MaxFits
<1>4. Max(T) \in 0..b BY <1>1, <1>3
<1>5. Max(T) # 0 => Max(T) \in S /\ log[Max(T)].turn = t BY <1>3
<1>6. \A n \in S : log[n].turn = t => n <= Max(T) BY <1>3
<1> HIDE DEF T
<1>7. QED BY <1>2, <1>4, <1>5, <1>6

\* What a browser has is the last event of its turns, each once and in order.
LEMMA SeenFits ==
    ASSUME Typed, NEW s \in Sockets, NEW S \in SUBSET Events
    PROVE  /\ Seen(s, S) \in [Turns -> Events \cup {0}]
           /\ \A t \in Turns : Seen(s, S)[t] >= seen[s][t]
           /\ sock[s] = "open" =>
                 \A t \in Turns, n \in S : log[n].turn = t => n <= Seen(s, S)[t]
<1>1. MaxEvents \in Nat BY BoundsAssumption
<1>2. \A t \in Turns : seen[s][t] \in Events \cup {0} BY DEF Typed
<1>3. \A t \in Turns : /\ Last(S, t) \in 0..MaxEvents
                       /\ \A n \in S : log[n].turn = t => n <= Last(S, t)
      BY <1>1, LastFits DEF Events
<1>4. \A t \in Turns : Seen(s, S)[t] = IF sock[s] = "open" THEN Later(seen[s][t], Last(S, t))
                                       ELSE seen[s][t]
      BY DEF Seen
<1>5. \A t \in Turns : /\ Seen(s, S)[t] \in Events \cup {0}
                       /\ Seen(s, S)[t] >= seen[s][t]
                       /\ sock[s] = "open" => Seen(s, S)[t] >= Last(S, t)
      BY <1>1, <1>2, <1>3, <1>4 DEF Later, Events
<1>6. Seen(s, S) \in [Turns -> Events \cup {0}] BY <1>5 DEF Seen
<1>7. ASSUME sock[s] = "open", NEW t \in Turns, NEW n \in S, log[n].turn = t
      PROVE  n <= Seen(s, S)[t]
      <2>1. n <= Last(S, t) /\ Last(S, t) <= Seen(s, S)[t] BY <1>3, <1>5, <1>7
      <2>2. n \in Nat /\ Last(S, t) \in Nat /\ Seen(s, S)[t] \in Nat
            BY <1>1, <1>3, <1>5 DEF Events
      <2>3. QED BY <2>1, <2>2
<1>8. QED BY <1>5, <1>6, <1>7

\* What is sent of a set is the last event of a turn, behind which nothing is in flight.
LEMMA SendsFit ==
    ASSUME Typed, NEW s \in Sockets, NEW S \in SUBSET Events
    PROVE  /\ Delivered(s, S) \in
                 [Turns -> [event : Events \cup {0}, attempts : 0..MaxAttempts]]
           /\ Framed(s, S) \in [Turns -> Events \cup {0}]
           /\ \A t \in Turns :
                 \/ /\ Delivered(s, S)[t] = flight[s][t]
                    /\ Framed(s, S)[t] = frame[s][t]
                 \/ /\ Framed(s, S)[t] \in S
                    /\ log[Framed(s, S)[t]].turn = t
                    /\ \A n \in S : log[n].turn = t => n <= Framed(s, S)[t]
                    /\ Framed(s, S)[t] > flight[s][t].event
                    /\ Delivered(s, S)[t].event = Framed(s, S)[t]
<1> DEFINE D == [event : Events \cup {0}, attempts : 0..MaxAttempts]
           Sends(t) == Writable(s) /\ Last(S, t) > flight[s][t].event
<1>1. MaxEvents \in Nat /\ MaxAttempts \in Nat /\ MaxAttempts > 0
      BY BoundsAssumption, LimitsAssumption
<1>2. \A t \in Turns : flight[s][t] \in D /\ frame[s][t] \in Events \cup {0}
      BY DEF Typed
<1>3. \A t \in Turns : /\ Last(S, t) \in 0..MaxEvents
                       /\ Last(S, t) # 0 => Last(S, t) \in S /\ log[Last(S, t)].turn = t
                       /\ \A n \in S : log[n].turn = t => n <= Last(S, t)
      BY <1>1, LastFits DEF Events
<1>4. ASSUME NEW t \in Turns PROVE flight[s][t].event \in Nat
      BY <1>1, <1>2 DEF Events
<1>5. ASSUME NEW t \in Turns, Sends(t)
      PROVE  /\ Delivered(s, S)[t] = [event |-> Last(S, t), attempts |-> 1]
             /\ Framed(s, S)[t] = Last(S, t)
             /\ Last(S, t) > flight[s][t].event
             /\ Last(S, t) # 0
             /\ Last(S, t) \in Events
      BY <1>1, <1>3, <1>4, <1>5 DEF Delivered, Framed, Events
<1>6. ASSUME NEW t \in Turns, ~Sends(t)
      PROVE  Delivered(s, S)[t] = flight[s][t] /\ Framed(s, S)[t] = frame[s][t]
      BY <1>6 DEF Delivered, Framed
<1> HIDE DEF Sends
<1>7. ASSUME NEW t \in Turns
      PROVE  Delivered(s, S)[t] \in D /\ Framed(s, S)[t] \in Events \cup {0}
      <2>1. CASE Sends(t)
            <3>1. Last(S, t) \in Events BY <1>5, <2>1
            <3>2. 1 \in 0..MaxAttempts BY <1>1
            <3>3. [event |-> Last(S, t), attempts |-> 1] \in D BY <3>1, <3>2
            <3> HIDE DEF D
            <3>4. QED BY <1>5, <2>1, <3>3
      <2>2. CASE ~Sends(t)
            BY <1>2, <1>6, <2>2
      <2>3. QED BY <2>1, <2>2
<1>8. Delivered(s, S) \in [Turns -> D] BY <1>7 DEF Delivered
<1>9. Framed(s, S) \in [Turns -> Events \cup {0}] BY <1>7 DEF Framed
<1> HIDE DEF D
<1>10. ASSUME NEW t \in Turns
       PROVE  \/ /\ Delivered(s, S)[t] = flight[s][t]
                 /\ Framed(s, S)[t] = frame[s][t]
              \/ /\ Framed(s, S)[t] \in S
                 /\ log[Framed(s, S)[t]].turn = t
                 /\ \A n \in S : log[n].turn = t => n <= Framed(s, S)[t]
                 /\ Framed(s, S)[t] > flight[s][t].event
                 /\ Delivered(s, S)[t].event = Framed(s, S)[t]
      <2>1. CASE Sends(t)
            <3>1. /\ Last(S, t) \in S /\ log[Last(S, t)].turn = t
                  /\ \A n \in S : log[n].turn = t => n <= Last(S, t)
                  BY <1>3, <1>5, <2>1
            <3>2. Framed(s, S)[t] = Last(S, t) /\ Delivered(s, S)[t].event = Last(S, t)
                  <4>1. Delivered(s, S)[t] = [event |-> Last(S, t), attempts |-> 1]
                        BY <1>5, <2>1
                  <4>2. Framed(s, S)[t] = Last(S, t) BY <1>5, <2>1
                  <4>3. [event |-> Last(S, t), attempts |-> 1].event = Last(S, t) OBVIOUS
                  <4>4. QED BY <4>1, <4>2, <4>3
            <3>3. QED BY <1>5, <2>1, <3>1, <3>2
      <2>2. CASE ~Sends(t)
            BY <1>6, <2>2
      <2>3. QED BY <2>1, <2>2
<1>11. QED BY <1>8, <1>9, <1>10 DEF D

(***************************************************************************)
(* The parts of a step keep their types.                                   *)
(***************************************************************************)
Deliveries == [Turns -> [event : Events \cup {0}, attempts : 0..MaxAttempts]]

\* The log only grows.
LogGrows ==
    /\ log' \in Seq(Record) /\ Len(log') <= MaxEvents
    /\ Len(log) <= Len(log')
    /\ \A n \in 1..Len(log) : log'[n] = log[n]

LEMMA LogStays ==
    ASSUME Typed, UNCHANGED log
    PROVE  LogGrows
BY DEF LogGrows, Typed

LEMMA LogAppends ==
    ASSUME Typed, Len(log) < MaxEvents, NEW e \in Record, log' = Append(log, e)
    PROVE  LogGrows
<1>1. MaxEvents \in Nat BY BoundsAssumption
<1>2. log \in Seq(Record) BY DEF Typed
<1>3. Append(log, e) \in Seq(Record) /\ Len(Append(log, e)) = Len(log) + 1 BY <1>2
<1>4. \A n \in 1..Len(log) : Append(log, e)[n] = log[n] BY <1>2
<1>5. QED BY <1>1, <1>2, <1>3, <1>4 DEF LogGrows

LEMMA FinalizedFits ==
    ASSUME Typed
    PROVE  /\ Finalized \in Seq(Record)
           /\ Len(log) <= Len(Finalized) /\ Len(Finalized) <= Len(log) + 1
           /\ \A n \in 1..Len(log) : Finalized[n] = log[n]
<1>1. log \in Seq(Record) BY DEF Typed
<1>2. CASE Orphaned
      <2>1. OpenTurn \in Turns
            <3>1. log # <<>> BY <1>2 DEF Orphaned, OpenTurn
            <3>2. log[Len(log)] \in Record BY <1>1, <3>1
            <3>3. OpenTurn = log[Len(log)].turn BY <1>2 DEF Orphaned, OpenTurn
            <3>4. QED BY <3>2, <3>3 DEF Record
      <2>2. Ended(OpenTurn) \in Record BY <2>1 DEF Ended, Record
      <2>3. Finalized = Append(log, Ended(OpenTurn)) BY <1>2 DEF Finalized
      <2>4. QED BY <1>1, <2>2, <2>3
<1>3. CASE ~Orphaned BY <1>1, <1>3 DEF Finalized
<1>4. QED BY <1>2, <1>3

\* A run command that arrives keeps the connection what it was.
LEMMA RunArrivesFits ==
    ASSUME Typed, NEW connection \in Transport, RunArrives(connection)
    PROVE  /\ LogGrows
           /\ runner' \in Turns \cup {0}
           /\ up' \in Transport
           /\ up'.phase = connection.phase /\ up'.purpose = connection.purpose
<1>1. MaxEvents \in Nat BY BoundsAssumption
<1>2. log \in Seq(Record) /\ runner \in Turns \cup {0} BY DEF Typed
<1>3. CASE runner = 0
      <2>1. /\ NextTurn \in Turns /\ Len(log) + 2 <= MaxEvents
            /\ log' = Append(Finalized, [turn |-> NextTurn, kind |-> "accepted"])
            /\ runner' = NextTurn
            /\ up' = [connection EXCEPT !.bound = TRUE]
            BY <1>3 DEF RunArrives
      <2>2. [turn |-> NextTurn, kind |-> "accepted"] \in Record BY <2>1 DEF Record
      <2>3. PICK f : f = Finalized OBVIOUS
      <2>4. /\ f \in Seq(Record)
            /\ Len(log) <= Len(f) /\ Len(f) <= Len(log) + 1
            /\ \A n \in 1..Len(log) : f[n] = log[n]
            BY <2>3, FinalizedFits
      <2>5. /\ log' \in Seq(Record) /\ Len(log') = Len(f) + 1
            /\ \A n \in 1..Len(f) : log'[n] = f[n]
            BY <2>1, <2>2, <2>3, <2>4
      <2>6. Len(log) \in Nat /\ Len(f) \in Nat BY <1>2, <2>4
      <2>7. LogGrows BY <1>1, <2>1, <2>4, <2>5, <2>6 DEF LogGrows
      <2>8. QED BY <2>1, <2>7 DEF Transport
<1>4. CASE runner # 0
      <2>1. UNCHANGED service BY <1>4 DEF RunArrives
      <2>2. LogGrows BY <2>1, LogStays DEF service
      <2>3. PICK again \in BOOLEAN : up' = [connection EXCEPT !.bound = @ \/ again]
            BY <1>4 DEF RunArrives
      <2>4. QED BY <1>2, <2>1, <2>2, <2>3 DEF Transport, service
<1>5. QED BY <1>3, <1>4

\* What becomes of a transport.
Purposes == {"none", "run", "snapshot_query", "reconnect_session"}

Connected(u) == u \in Transport /\ (u.phase = "idle" => u.purpose = "none")

LEMMA ConnectFits ==
    ASSUME NEW u \in Transport, NEW purpose \in Purposes
    PROVE  Connected(Connect(u, purpose)) /\ Connected(Closed(u))
<1>1. u.gen + 1 \in Nat BY DEF Transport
<1>2. Connect(u, purpose) \in Transport BY <1>1 DEF Connect, Transport, Purposes
<1>3. Connect(u, purpose).phase = "connecting" BY DEF Connect
<1>4. Closed(u) \in Transport BY DEF Closed, Transport
<1>5. Closed(u).purpose = "none" BY DEF Closed, Transport
<1>6. QED BY <1>2, <1>3, <1>4, <1>5 DEF Connected

LEMMA CloseOwnedFits ==
    ASSUME NEW u, Connected(u), NEW r
    PROVE  /\ Connected(CloseOwned(u, r))
           /\ u.purpose = "run" \/ u.phase = "idle" => CloseOwned(u, r) = u
<1>1. CASE CloseOwned(u, r) = u BY <1>1
<1>2. CASE /\ CloseOwned(u, r) = Closed(u)
           /\ u.purpose = "snapshot_query" /\ u.phase # "idle"
      <2>1. Connected(Closed(u)) BY ConnectFits DEF Connected, Purposes
      <2>2. QED BY <1>2, <2>1
<1>3. QED BY <1>1, <1>2 DEF CloseOwned

\* What becomes of a request that comes to an end.
Stages == {"none", "provisioning", "waiting", "done", "failed", "silent", "lost"}

LEMMA EndingFits ==
    ASSUME NEW q \in Request, NEW stage \in Stages
    PROVE  /\ Ending(q, stage) \in Request
           /\ Ending(q, stage).stage = stage
           /\ Ending(q, stage).socket = q.socket
           /\ Ending(q, stage).provisioned = q.provisioned
           /\ Ending(q, stage).buffer = {} /\ Ending(q, stage).read = 0
BY DEF Ending, Request, Stages

LEMMA CancelledFits ==
    ASSUME Typed, NEW s \in Sockets
    PROVE  /\ Cancelled(s) \in [Requests -> Request]
           /\ \A p \in Requests : Cancelled(s)[p] =
                 IF p = txn[s] THEN Ending(req[p], "silent") ELSE req[p]
<1>1. req \in [Requests -> Request] /\ txn[s] \in Requests \cup {0} BY DEF Typed
<1>2. 0 \notin Requests BY DEF Requests
<1>3. CASE txn[s] = 0 BY <1>1, <1>2, <1>3 DEF Cancelled
<1>4. CASE txn[s] # 0
      <2>1. Cancelled(s) = [req EXCEPT ![txn[s]] = Ending(req[txn[s]], "silent")]
            BY <1>4 DEF Cancelled
      <2>2. Ending(req[txn[s]], "silent") \in Request
            BY <1>1, <1>4, EndingFits DEF Stages
      <2>3. QED BY <1>1, <1>4, <2>1, <2>2
<1>5. QED BY <1>3, <1>4

LEMMA KnownFits ==
    ASSUME Typed, NEW s \in Sockets
    PROVE  Known(s) \in {0} \cup Events
<1> DEFINE S == {seen[s][t] : t \in Turns} \cup {0}
<1>1. MaxEvents \in Nat BY BoundsAssumption
<1>2. \A t \in Turns : seen[s][t] \in Events \cup {0} BY DEF Typed
<1>3. \A x \in S : x \in {0} \cup Events BY <1>2
<1>4. 0 \in S OBVIOUS
<1>5. Known(s) = Max(S) BY DEF Known
<1> HIDE DEF S
<1>6. S \in SUBSET Nat /\ \A x \in S : x <= MaxEvents BY <1>1, <1>3 DEF Events
<1>7. Max(S) \in S BY <1>1, <1>4, <1>6, MaxFits
<1>8. QED BY <1>3, <1>5, <1>7

(***************************************************************************)
(* The rest of a reconnect, for a transport u and requests q that fit.     *)
(***************************************************************************)
\* Reconnect r of a socket waits for a snapshot, or has failed, or was answered from the
\* window.
Prepared(s, r, known) ==
    \/ /\ req'[r].stage = "waiting" /\ txn' = [txn EXCEPT ![s] = r]
       /\ req'[r].buffer = {} /\ req'[r].read = 0
       /\ current' = [current EXCEPT ![s] = {}] /\ seen' = seen
    \/ /\ req'[r].stage = "failed" /\ txn' = [txn EXCEPT ![s] = 0]
       /\ current' = [current EXCEPT ![s] = {}] /\ seen' = seen
    \/ /\ req'[r].stage = "done" /\ txn' = [txn EXCEPT ![s] = 0]
       /\ seen' = [seen EXCEPT ![s] = Seen(s, Replay(known))]
       /\ ~HasGap(known)
       /\ current' = [current EXCEPT ![s] = HasUpTo(s, known)]

LEMMA PrepareFits ==
    ASSUME Typed,
           NEW s \in Sockets, NEW r \in Requests, NEW u, Connected(u),
           NEW q \in [Requests -> Request], q[r].buffer = {}, q[r].read = 0,
           NEW f, Prepare(s, r, u, q, f)
    PROVE  /\ chan' = [chan EXCEPT !.subs = @ \cup {s}]
           /\ Connected(up') /\ (u.purpose = "run" => up' = u)
           /\ req' \in [Requests -> Request]
           /\ \A p \in Requests : p # r => req'[p] = q[p]
           /\ req'[r].socket = q[r].socket /\ req'[r].provisioned = q[r].provisioned
           /\ Prepared(s, r, q[r].known)
           /\ flight' = f /\ frame' = frame
<1> DEFINE known == q[r].known
           waits == HasGap(known) \/ HasActiveTurn
           via == IF u.phase = "open" THEN u ELSE Connect(u, "snapshot_query")
<1>1. u \in Transport /\ q[r] \in Request BY DEF Connected
<1>2. Connected(via) BY ConnectFits DEF Purposes, Connected
<1>3. CASE ~waits
      <2>1. /\ seen' = [seen EXCEPT ![s] = Seen(s, Replay(known))]
            /\ req' = [q EXCEPT ![r] = Ending(q[r], "done")]
            /\ txn' = [txn EXCEPT ![s] = 0]
            /\ current' = [current EXCEPT ![s] = HasUpTo(s, known)]
            /\ up' = u
            BY <1>3 DEF Prepare
      <2>2. /\ chan' = [chan EXCEPT !.subs = @ \cup {s}]
            /\ flight' = f /\ frame' = frame
            BY DEF Prepare
      <2>3. /\ Ending(q[r], "done") \in Request /\ Ending(q[r], "done").stage = "done"
            /\ Ending(q[r], "done").socket = q[r].socket
            /\ Ending(q[r], "done").provisioned = q[r].provisioned
            BY <1>1, EndingFits DEF Stages
      <2>4. /\ req' \in [Requests -> Request] /\ req'[r] = Ending(q[r], "done")
            /\ \A p \in Requests : p # r => req'[p] = q[p]
            BY <2>1, <2>3
      <2>5. ~HasGap(known) BY <1>3
      <2>6. Prepared(s, r, known) BY <2>1, <2>3, <2>4, <2>5 DEF Prepared
      <2>7. QED BY <2>1, <2>2, <2>3, <2>4, <2>6
<1>4. CASE waits /\ u.phase # "connecting" /\ up' = via
      <2>1. /\ req' = [q EXCEPT ![r].stage = "waiting", ![r].replay = Replay(known),
                                ![r].command = "snapshot", ![r].gen = via.gen,
                                ![r].query = IF u.phase = "open" THEN 0 ELSE via.gen]
            /\ txn' = [txn EXCEPT ![s] = r]
            /\ current' = [current EXCEPT ![s] = {}]
            /\ UNCHANGED seen
            BY <1>4 DEF Prepare
      <2>2. /\ chan' = [chan EXCEPT !.subs = @ \cup {s}]
            /\ flight' = f /\ frame' = frame
            BY DEF Prepare
      <2>3. PICK g : g = via.gen OBVIOUS
      <2>4. PICK k : k = IF u.phase = "open" THEN 0 ELSE via.gen OBVIOUS
      <2>5. PICK m : m = Replay(known) OBVIOUS
      <2>6. g \in Nat /\ k \in Nat BY <1>2, <2>3, <2>4 DEF Connected, Transport
      <2>7. m \in SUBSET Events BY <2>5 DEF Replay, Typed, Channel
      <2>8. PICK w : w = [q[r] EXCEPT !.stage = "waiting", !.replay = m, !.command = "snapshot",
                                      !.gen = g, !.query = k]
            OBVIOUS
      <2>9. w \in Request BY <1>1, <2>6, <2>7, <2>8 DEF Request
      <2>10. /\ w.stage = "waiting" /\ w.socket = q[r].socket
             /\ w.provisioned = q[r].provisioned
             /\ w.buffer = q[r].buffer /\ w.read = q[r].read
             BY <1>1, <2>8 DEF Request
      <2>11. req' = [q EXCEPT ![r] = w] BY <2>1, <2>3, <2>4, <2>5, <2>8
      <2>12. /\ req' \in [Requests -> Request] /\ req'[r] = w
             /\ \A p \in Requests : p # r => req'[p] = q[p]
             BY <2>9, <2>11
      <2> HIDE DEF via, waits, known
      <2>13. Connected(up') /\ (u.purpose = "run" => up' = u)
             <3>1. u.phase = "open" => via = u BY DEF via
             <3>2. u.purpose = "run" => u.phase = "open"
                   BY <1>1, <1>4 DEF Connected, Transport
             <3>3. QED BY <1>2, <1>4, <3>1, <3>2
      <2>14. Prepared(s, r, q[r].known) BY <2>1, <2>10, <2>12 DEF Prepared
      <2>15. QED BY <2>2, <2>10, <2>12, <2>13, <2>14
<1>5. CASE waits /\ u.phase = "connecting" /\ up' = u
      <2>1. /\ req' = [q EXCEPT ![r] = Ending(q[r], "failed")]
            /\ txn' = [txn EXCEPT ![s] = 0]
            /\ current' = [current EXCEPT ![s] = {}]
            /\ UNCHANGED seen
            BY <1>5 DEF Prepare
      <2>2. /\ chan' = [chan EXCEPT !.subs = @ \cup {s}]
            /\ flight' = f /\ frame' = frame
            BY DEF Prepare
      <2>3. /\ Ending(q[r], "failed") \in Request /\ Ending(q[r], "failed").stage = "failed"
            /\ Ending(q[r], "failed").socket = q[r].socket
            /\ Ending(q[r], "failed").provisioned = q[r].provisioned
            BY <1>1, EndingFits DEF Stages
      <2>4. /\ req' \in [Requests -> Request] /\ req'[r] = Ending(q[r], "failed")
            /\ \A p \in Requests : p # r => req'[p] = q[p]
            BY <2>1, <2>3
      <2>5. Prepared(s, r, known) BY <2>1, <2>3, <2>4 DEF Prepared
      <2>6. QED BY <1>5, <2>2, <2>3, <2>4, <2>5
<1>6. \/ ~waits
      \/ waits /\ u.phase # "connecting" /\ up' = via
      \/ waits /\ u.phase = "connecting" /\ up' = u
      BY DEF Prepare
<1>7. QED BY <1>3, <1>4, <1>5, <1>6

\* A step of Reconnect: what it makes of the requests, and of the channel.
LEMMA ReconnectFits ==
    ASSUME Typed, Connected(up), NEW s \in Sockets, NEW r \in Requests, Reconnect(s, r),
           txn[s] # r
    PROVE  /\ req' \in [Requests -> Request] /\ Connected(up')
           /\ \A p \in Requests : p # r =>
                 req'[p] = IF p = txn[s] THEN Ending(req[p], "silent") ELSE req[p]
           /\ req'[r].socket = s
           /\ flight' = [flight EXCEPT ![s] = NoDeliveries] /\ frame' = frame
           /\ \/ /\ chan.exists /\ chan' = [chan EXCEPT !.subs = @ \cup {s}]
                 /\ req'[r].provisioned = FALSE /\ Prepared(s, r, Known(s))
                 /\ up.purpose = "run" => up' = up
              \/ /\ ~chan.exists /\ chan' = EnsureChannel
                 /\ req'[r].stage = "provisioning" /\ req'[r].provisioned
                 /\ req'[r].buffer = {} /\ req'[r].read = 0
                 /\ txn' = [txn EXCEPT ![s] = 0] /\ seen' = seen /\ current' = current
<1> DEFINE new == [NoRequest EXCEPT !.socket = s, !.known = Known(s)]
<1>1. PICK c : c = Cancelled(s) OBVIOUS
<1>2. PICK q : q = [c EXCEPT ![r] = new] OBVIOUS
<1>3. PICK u : u = WithoutQuery(s) OBVIOUS
<1>4. PICK f : f = [flight EXCEPT ![s] = NoDeliveries] OBVIOUS
<1>5. /\ new \in Request /\ new.socket = s /\ new.buffer = {} /\ new.read = 0
      /\ new.provisioned = FALSE /\ new.known = Known(s)
      <2>1. Known(s) \in {0} \cup Events BY KnownFits
      <2>2. PICK k : k = Known(s) OBVIOUS
      <2>3. [NoRequest EXCEPT !.socket = s, !.known = k] \in Request
            BY <2>1, <2>2 DEF NoRequest, Request
      <2>4. QED BY <2>2, <2>3 DEF NoRequest
<1> HIDE DEF new
<1>6. /\ c \in [Requests -> Request]
      /\ \A p \in Requests : c[p] = IF p = txn[s] THEN Ending(req[p], "silent") ELSE req[p]
      BY <1>1, CancelledFits
<1>7. /\ q \in [Requests -> Request] /\ q[r] = new
      /\ \A p \in Requests : p # r => q[p] = c[p]
      BY <1>2, <1>5, <1>6
<1>8. Connected(u) /\ (up.purpose = "run" => u = up)
      BY <1>3, CloseOwnedFits DEF WithoutQuery
<1>9. CASE chan.exists
      <2>1. Prepare(s, r, u, q, f)
            BY <1>1, <1>2, <1>3, <1>4, <1>9 DEF Reconnect, new
      <2>2. /\ chan' = [chan EXCEPT !.subs = @ \cup {s}]
            /\ Connected(up') /\ (u.purpose = "run" => up' = u)
            /\ req' \in [Requests -> Request]
            /\ \A p \in Requests : p # r => req'[p] = q[p]
            /\ req'[r].socket = q[r].socket /\ req'[r].provisioned = q[r].provisioned
            /\ Prepared(s, r, q[r].known)
            /\ flight' = f /\ frame' = frame
            BY <1>5, <1>7, <1>8, <2>1, PrepareFits
      <2>3. QED BY <1>4, <1>5, <1>6, <1>7, <1>8, <1>9, <2>2
<1>10. CASE ~chan.exists
      <2>1. /\ chan' = EnsureChannel
            /\ up' = Connect(u, "reconnect_session")
            /\ req' = [q EXCEPT ![r].stage = "provisioning", ![r].provisioned = TRUE]
            /\ flight' = f
            /\ txn' = [txn EXCEPT ![s] = 0]
            /\ UNCHANGED <<seen, frame, current>>
            BY <1>1, <1>2, <1>3, <1>4, <1>10 DEF Reconnect, frames, new
      <2>2. PICK w : w = [new EXCEPT !.stage = "provisioning", !.provisioned = TRUE] OBVIOUS
      <2>3. /\ w \in Request /\ w.stage = "provisioning" /\ w.provisioned
            /\ w.socket = s /\ w.buffer = {} /\ w.read = 0
            BY <1>5, <2>2 DEF Request
      <2>4. /\ req' \in [Requests -> Request] /\ req'[r] = w
            /\ \A p \in Requests : p # r => req'[p] = q[p]
            BY <1>7, <2>1, <2>2, <2>3
      <2>5. Connected(up') BY <1>8, <2>1, ConnectFits DEF Connected, Purposes
      <2>6. QED BY <1>4, <1>6, <1>7, <1>10, <2>1, <2>3, <2>4, <2>5
<1>11. QED BY <1>9, <1>10

(***************************************************************************)
(* The invariant, part by part.  First the channel: one that does not      *)
(* exist is empty and has no connection, its window has only events that   *)
(* arrived, and an idle connection has no purpose.                         *)
(***************************************************************************)
ChannelFits ==
    /\ Connected(up)
    /\ ~chan.exists => chan = NoChannel /\ up.phase = "idle"
    /\ chan.window \subseteq 1..sent
    /\ \A s \in chan.subs : sock[s] # "unused"

(***************************************************************************)
(* The reconnects: they are used in their order, each by a socket that was *)
(* opened; a channel is there as long as one is pending.                   *)
(***************************************************************************)
Started(r) == req[r].stage # "none"

RequestsFit ==
    \A r \in Requests :
        /\ ~Started(r) => req[r].socket = NoSocket
        /\ Started(r) => req[r].socket \in Sockets /\ sock[req[r].socket] # "unused"
        /\ Started(r) => \A p \in 1..(r - 1) : Started(p)
        /\ req[r].stage = "provisioning" =>
              req[r].provisioned /\ req[r].read = 0 /\ req[r].buffer = {}
        /\ Pending(r) => chan.exists

(***************************************************************************)
(* The transactions: that of a socket is a reconnect of this socket, which *)
(* waits or whose channel was deleted.  A reconnect that waits without the *)
(* transaction has lost it to one that came back from provisioning.        *)
(***************************************************************************)
Replaced(r) == \E p \in Requests : /\ p # r /\ req[p].socket = req[r].socket
                                   /\ req[p].provisioned

TransactionsFit ==
    /\ \A s \in Sockets :
          txn[s] # 0 => req[txn[s]].socket = s /\ req[txn[s]].stage \in {"waiting", "lost"}
    /\ \A r \in Requests :
          req[r].stage = "waiting" =>
              IF txn[req[r].socket] = r THEN req[r].socket \in chan.subs ELSE Replaced(r)

(***************************************************************************)
(* The frames: what is in flight of a turn is what was sent of it last, an *)
(* event that arrived.  A buffer is sent from its first event on.          *)
(***************************************************************************)
FramesFit ==
    /\ \A s \in Sockets, t \in Turns :
          /\ flight[s][t].event \in {0, frame[s][t]}
          /\ frame[s][t] # 0 => frame[s][t] <= sent /\ log[frame[s][t]].turn = t
    /\ \A r \in Requests :
          req[r].stage = "waiting" /\ txn[req[r].socket] = r =>
              \A n \in req[r].buffer : n <= sent /\ \A m \in n..sent : m \in req[r].buffer

(***************************************************************************)
(* What is buffered for a socket that has not joined meanwhile is later    *)
(* than what was sent to it.                                               *)
(***************************************************************************)
BuffersFit ==
    \A r \in Requests :
        req[r].stage = "waiting" /\ txn[req[r].socket] = r /\ req[r].socket \notin joined =>
            \A n \in req[r].buffer, t \in Turns : log[n].turn = t => n > frame[req[r].socket][t]

(***************************************************************************)
(* The answers: a browser is current only while it subscribes and has no   *)
(* transaction, and then it has what the window has.  What a snapshot does *)
(* not cover is in the buffer of its reconnect.                            *)
(***************************************************************************)
HasAll(s, t, S) == \A n \in S : log[n].turn = t => n <= seen[s][t]

AnswersFit ==
    /\ \A s \in Sockets : \A t \in current[s] :
          /\ s \in chan.subs /\ txn[s] = 0
          /\ sock[s] = "open" => HasAll(s, t, chan.window)
    /\ \A r \in Requests :
          req[r].stage = "waiting" /\ txn[req[r].socket] = r /\ req[r].read # 0 =>
              \A n \in chan.window : n <= req[r].read \/ n \in req[r].buffer

(***************************************************************************)
(* A reconnect that was dropped has lost its socket, or another one of the *)
(* socket has taken its place.                                             *)
(***************************************************************************)
SilentReplaced ==
    \A r \in Requests :
        req[r].stage = "silent" =>
            \/ sock[req[r].socket] = "closed"
            \/ \E p \in Requests : /\ p # r /\ req[p].socket = req[r].socket
                                   /\ p > r \/ req[p].provisioned

Subscribed ==
    /\ Typed
    /\ \A s \in chan.subs :
          sock[s] = "closed" => \E r \in Requests : req[r].socket = s /\ req[r].provisioned

IInv ==
    /\ Subscribed
    /\ Histories
    /\ ChannelFits
    /\ RequestsFit
    /\ TransactionsFit
    /\ FramesFit
    /\ BuffersFit
    /\ AnswersFit
    /\ SilentReplaced

(***************************************************************************)
(* The steps that leave the reconnects alone.                              *)
(***************************************************************************)
Quiet ==
    /\ req' = req /\ txn' = txn /\ current' = current /\ sent' = sent
    /\ chan'.window = chan.window
    /\ chan.exists => chan'.exists
    /\ ~chan'.exists => chan' = NoChannel /\ up'.phase = "idle"
    /\ chan.subs \subseteq chan'.subs
    /\ \A s \in chan'.subs : s \in chan.subs \/ sock[s] = "open"
    /\ \A s \in Sockets : \/ sock'[s] = sock[s]
                          \/ sock[s] = "unused" /\ sock'[s] = "open"
                          \/ sock[s] \in {"open", "gone"} /\ sock'[s] \in {"gone", "closing"}
    /\ \A s \in Sockets, t \in Turns :
          sock[s] = "unused" \/ seen'[s][t] >= seen[s][t]

QuietStep ==
    \/ UNCHANGED vars
    \/ Commit \/ RunLost \/ UpstreamOpens \/ UpstreamLost
    \/ \E s \in Sockets :
          \/ Open(s) \/ Vanish(s) \/ StartOrJoin(s) \/ Continue(s)
          \/ \E t \in Turns : Receipt(s, t) \/ Retry(s, t)

\* Numbers that stay numbers.
LEMMA SeenStays ==
    ASSUME Typed, NEW s \in Sockets, NEW t \in Turns
    PROVE  seen[s][t] \in Nat /\ seen[s][t] >= seen[s][t]
<1>1. seen[s][t] \in Events \cup {0} /\ MaxEvents \in Nat BY BoundsAssumption DEF Typed
<1>2. QED BY <1>1 DEF Events

LEMMA SentFits ==
    ASSUME Typed, LogGrows, sent' = sent
    PROVE  sent' \in 0..Len(log')
<1>1. Len(log) \in Nat /\ Len(log') \in Nat BY DEF Typed, LogGrows
<1>2. QED BY <1>1 DEF Typed, LogGrows

LEMMA QuietStepsFit ==
    ASSUME Typed, ChannelFits, QuietStep
    PROVE  Typed' /\ LogGrows /\ Connected(up') /\ Quiet
<1>1. CASE UNCHANGED vars
      <2>1. LogGrows BY <1>1, LogStays DEF vars, service
      <2>2. Connected(up') BY <1>1 DEF vars, ChannelFits
      <2>3. Quiet BY <1>1, SeenStays DEF vars, counters, service, Quiet, ChannelFits
      <2>4. Typed' BY <1>1 DEF vars, counters, service, Typed
      <2>5. QED BY <2>1, <2>2, <2>3, <2>4
<1>2. CASE Commit
      <2>1. UNCHANGED <<sent, chan, up, sock, seen, flight, txn, req, counters, frame, current>>
            BY <1>2 DEF Commit, frames
      <2>2. LogGrows /\ runner' \in Turns \cup {0}
            <3>1. runner \in Turns /\ Len(log) < MaxEvents BY <1>2 DEF Commit, Typed
            <3>2. /\ [turn |-> runner, kind |-> "processing"] \in Record
                  /\ Ended(runner) \in Record
                  BY <3>1 DEF Record, Ended
            <3>3. CASE log' = Append(log, [turn |-> runner, kind |-> "processing"])
                       /\ runner' = runner
                  BY <3>1, <3>2, <3>3, LogAppends
            <3>4. CASE log' = Append(log, Ended(runner)) /\ runner' = 0
                  BY <3>1, <3>2, <3>4, LogAppends
            <3>5. QED BY <1>2, <3>3, <3>4 DEF Commit
      <2>3. Connected(up') BY <2>1 DEF ChannelFits
      <2>4. Quiet BY <2>1, SeenStays DEF Quiet, ChannelFits
      <2>5. Typed' BY <2>1, <2>2, SentFits DEF Typed, LogGrows, counters
      <2>6. QED BY <2>2, <2>3, <2>4, <2>5
<1>3. CASE RunLost
      <2>1. /\ UNCHANGED <<log, sent, chan, up, sock, seen, flight, txn, req, commands, frame,
                           current>>
            /\ runner' = 0 /\ faults < MaxFaults /\ faults' = faults + 1
            BY <1>3 DEF RunLost, frames
      <2>2. LogGrows BY <2>1, LogStays
      <2>3. Connected(up') BY <2>1 DEF ChannelFits
      <2>4. Quiet BY <2>1, SeenStays DEF Quiet, ChannelFits
      <2>5. faults' \in 0..MaxFaults BY <2>1, BoundsAssumption DEF Typed
      <2>6. Typed' BY <2>1, <2>5 DEF Typed
      <2>7. QED BY <2>2, <2>3, <2>4, <2>6
<1>4. CASE UpstreamOpens
      <2>1. UNCHANGED <<sent, chan, sock, seen, flight, txn, req, counters, frame, current>>
            BY <1>4 DEF UpstreamOpens, frames
      <2>2. LogGrows /\ runner' \in Turns \cup {0} /\ Connected(up')
            <3>1. PICK v : v = [up EXCEPT !.phase = "open"] OBVIOUS
            <3>2. v \in Transport /\ v.phase = "open" BY <3>1 DEF Typed, Transport
            <3>3. CASE RunArrives(v)
                  BY <3>2, <3>3, RunArrivesFits DEF Connected
            <3>4. CASE up' = v /\ UNCHANGED service
                  <4>1. LogGrows BY <3>4, LogStays DEF service
                  <4>2. QED BY <3>2, <3>4, <4>1 DEF service, Connected, Typed
            <3>5. RunArrives(v) \/ (up' = v /\ UNCHANGED service)
                  BY <1>4, <3>1 DEF UpstreamOpens
            <3>6. QED BY <3>3, <3>4, <3>5
      <2>3. chan.exists BY <1>4 DEF UpstreamOpens, ChannelFits
      <2>4. Quiet BY <2>1, <2>3, SeenStays DEF Quiet
      <2>5. Typed' BY <2>1, <2>2, SentFits DEF Typed, LogGrows, counters, Connected
      <2>6. QED BY <2>2, <2>4, <2>5
<1>5. CASE UpstreamLost
      <2>1. /\ UNCHANGED <<service, sent, chan, sock, seen, flight, txn, req, commands, frame,
                           current>>
            /\ up' = Closed(up) /\ faults < MaxFaults /\ faults' = faults + 1
            BY <1>5 DEF UpstreamLost, frames
      <2>2. LogGrows BY <2>1, LogStays DEF service
      <2>3. Connected(up') BY <2>1, ConnectFits DEF ChannelFits, Connected, Purposes
      <2>4. chan.exists BY <1>5 DEF UpstreamLost, ChannelFits
      <2>5. Quiet BY <2>1, <2>4, SeenStays DEF Quiet
      <2>6. faults' \in 0..MaxFaults BY <2>1, BoundsAssumption DEF Typed
      <2>7. Typed' BY <2>1, <2>3, <2>6 DEF Typed, service, Connected
      <2>8. QED BY <2>2, <2>3, <2>5, <2>7
<1>6. ASSUME NEW s \in Sockets, Open(s) PROVE Typed' /\ LogGrows /\ Connected(up') /\ Quiet
      <2>1. /\ UNCHANGED <<service, sent, chan, up, flight, txn, req, counters, frame, current>>
            /\ sock[s] = "unused" /\ sock' = [sock EXCEPT ![s] = "open"]
            BY <1>6 DEF Open, frames
      <2>2. PICK known \in 0..Len(log) :
                seen' = [seen EXCEPT ![s] = [t \in Turns |-> Last(1..known, t)]]
            BY <1>6 DEF Open
      <2>3. LogGrows BY <2>1, LogStays DEF service
      <2>4. Connected(up') BY <2>1 DEF ChannelFits
      <2>5. \A t \in Turns : Last(1..known, t) \in Events \cup {0}
            <3>1. known \in Nat /\ known <= MaxEvents /\ MaxEvents \in Nat
                  BY BoundsAssumption DEF Typed
            <3>2. \A t \in Turns : Last(1..known, t) \in 0..known BY <3>1, LastFits
            <3>3. QED BY <3>1, <3>2 DEF Events
      <2>6. seen' \in [Sockets -> [Turns -> Events \cup {0}]]
            <3>1. [t \in Turns |-> Last(1..known, t)] \in [Turns -> Events \cup {0}] BY <2>5
            <3>2. QED BY <2>2, <3>1 DEF Typed
      <2>7. Quiet BY <2>1, <2>2, SeenStays DEF Quiet, ChannelFits, Typed
      <2>8. Typed' BY <2>1, <2>6 DEF Typed, service, counters
      <2>9. QED BY <2>3, <2>4, <2>7, <2>8
<1>7. ASSUME NEW s \in Sockets, Vanish(s) PROVE Typed' /\ LogGrows /\ Connected(up') /\ Quiet
      <2>1. /\ UNCHANGED <<service, sent, chan, up, seen, flight, txn, req, counters, frame,
                           current>>
            /\ sock[s] = "open" /\ sock' = [sock EXCEPT ![s] = "gone"]
            BY <1>7 DEF Vanish, frames
      <2>2. LogGrows BY <2>1, LogStays DEF service
      <2>3. Connected(up') BY <2>1 DEF ChannelFits
      <2>4. Quiet BY <2>1, SeenStays DEF Quiet, ChannelFits, Typed
      <2>5. Typed' BY <2>1 DEF Typed, service, counters
      <2>6. QED BY <2>2, <2>3, <2>4, <2>5
<1>8. ASSUME NEW s \in Sockets, StartOrJoin(s)
      PROVE  Typed' /\ LogGrows /\ Connected(up') /\ Quiet
      <2>1. /\ UNCHANGED <<service, sent, sock, txn, req, faults, current>>
            /\ sock[s] = "open" /\ commands < MaxCommands /\ commands' = commands + 1
            BY <1>8 DEF StartOrJoin, MayCommand
      <2>2. LogGrows BY <2>1, LogStays DEF service
      <2>3. commands' \in 0..MaxCommands BY <2>1, BoundsAssumption DEF Typed
      <2>4. CASE chan.running /\ up.phase = "open"
            <3>1. /\ chan' = [chan EXCEPT !.subs = @ \cup {s}] /\ up' = up
                  /\ \E last \in chan.base..sent : SendTo(s, (last + 1)..sent)
                  BY <1>8, <2>4 DEF StartOrJoin
            <3>2. PICK last \in chan.base..sent : SendTo(s, (last + 1)..sent) BY <3>1
            <3>3. PICK S : S = (last + 1)..sent OBVIOUS
            <3>4. S \in SUBSET Events
                  <4>1. chan.base \in Nat /\ sent \in Nat /\ sent <= MaxEvents /\ MaxEvents \in Nat
                        BY BoundsAssumption DEF Typed, Channel, Events
                  <4>2. QED BY <3>3, <4>1 DEF Events
            <3>5. /\ flight' = [flight EXCEPT ![s] = Delivered(s, S)]
                  /\ frame' = [frame EXCEPT ![s] = Framed(s, S)]
                  /\ seen' = [seen EXCEPT ![s] = Seen(s, S)]
                  BY <3>2, <3>3 DEF SendTo
            <3>6. /\ Delivered(s, S) \in Deliveries
                  /\ Framed(s, S) \in [Turns -> Events \cup {0}]
                  BY <3>4, SendsFit DEF Deliveries
            <3>7. /\ Seen(s, S) \in [Turns -> Events \cup {0}]
                  /\ \A t \in Turns : Seen(s, S)[t] >= seen[s][t]
                  BY <3>4, SeenFits
            <3>8. chan' \in Channel BY <3>1 DEF Typed, Channel
            <3>9. Typed' BY <2>1, <2>3, <3>1, <3>5, <3>6, <3>7, <3>8
                          DEF Typed, service, Deliveries
            <3>10. \A x \in Sockets, t \in Turns : seen'[x][t] >= seen[x][t]
                   BY <3>5, <3>7, SeenStays DEF Typed
            <3>11. /\ chan'.exists = chan.exists /\ chan'.window = chan.window
                   /\ chan'.subs = chan.subs \cup {s} /\ chan.exists
                   BY <2>4, <3>1 DEF Typed, Channel, ChannelFits, NoChannel
            <3>12. Quiet BY <2>1, <3>10, <3>11 DEF Quiet
            <3>13. QED BY <2>2, <3>1, <3>9, <3>12 DEF ChannelFits
      <2>5. CASE ~(chan.running /\ up.phase = "open")
            <3>1. /\ chan' = [EnsureChannel EXCEPT !.subs = @ \cup {s}, !.base = sent,
                                                   !.running = FALSE, !.retained = FALSE]
                  /\ up' = Connect(up, "run")
                  /\ UNCHANGED <<flight, frame, seen>>
                  BY <1>8, <2>5 DEF StartOrJoin, frames
            <3>2. sent \in {0} \cup Events
                  BY BoundsAssumption DEF Typed, Events
            <3>3. PICK c : c = EnsureChannel OBVIOUS
            <3>4. /\ c \in Channel /\ c.exists /\ c.window = chan.window /\ c.subs = chan.subs
                  <4>1. CASE chan.exists BY <3>3, <4>1 DEF EnsureChannel, Typed
                  <4>2. CASE ~chan.exists
                        <5>1. chan = NoChannel BY <4>2 DEF ChannelFits
                        <5>2. c = [NoChannel EXCEPT !.exists = TRUE, !.base = sent]
                              BY <3>3, <4>2 DEF EnsureChannel
                        <5>3. QED BY <3>2, <5>1, <5>2 DEF NoChannel, Channel
                  <4>3. QED BY <4>1, <4>2
            <3>5. /\ chan' \in Channel /\ chan'.exists /\ chan'.window = chan.window
                  /\ chan'.subs = chan.subs \cup {s}
                  BY <3>1, <3>2, <3>3, <3>4 DEF Channel
            <3>6. Connected(up') BY <3>1, ConnectFits DEF Typed, Purposes
            <3>7. Typed' BY <2>1, <2>3, <3>1, <3>5, <3>6 DEF Typed, service, Connected
            <3>8. Quiet BY <2>1, <3>1, <3>5, SeenStays DEF Quiet
            <3>9. QED BY <2>2, <3>6, <3>7, <3>8
      <2>6. QED BY <2>4, <2>5
<1>9. ASSUME NEW s \in Sockets, Continue(s)
      PROVE  Typed' /\ LogGrows /\ Connected(up') /\ Quiet
      <2>1. /\ UNCHANGED <<sent, sock, seen, flight, txn, req, faults, frame, current>>
            /\ commands < MaxCommands /\ commands' = commands + 1 /\ chan.exists
            BY <1>9 DEF Continue, MayCommand, frames
      <2>2. commands' \in 0..MaxCommands BY <2>1, BoundsAssumption DEF Typed
      <2>3. CASE up.phase = "open"
            <3>1. PICK v : v = [up EXCEPT !.purpose = "run"] OBVIOUS
            <3>2. v \in Transport /\ v.phase = "open" BY <2>3, <3>1 DEF Typed, Transport
            <3>3. RunArrives(v) /\ chan' = chan BY <1>9, <2>3, <3>1 DEF Continue
            <3>4. /\ LogGrows /\ runner' \in Turns \cup {0}
                  /\ up' \in Transport /\ up'.phase = "open"
                  BY <3>2, <3>3, RunArrivesFits
            <3>5. Connected(up') BY <3>4 DEF Connected
            <3>6. Quiet BY <2>1, <3>3, SeenStays DEF Quiet, ChannelFits
            <3>7. Typed' BY <2>1, <2>2, <3>3, <3>4, SentFits DEF Typed, LogGrows
            <3>8. QED BY <3>4, <3>5, <3>6, <3>7
      <2>4. CASE up.phase # "open"
            <3>1. /\ chan' = [chan EXCEPT !.running = FALSE, !.retained = FALSE]
                  /\ up' = Connect(up, "run")
                  /\ UNCHANGED service
                  BY <1>9, <2>4 DEF Continue
            <3>2. /\ chan' \in Channel /\ chan'.exists /\ chan'.window = chan.window
                  /\ chan'.subs = chan.subs
                  BY <2>1, <3>1 DEF Typed, Channel
            <3>3. LogGrows BY <3>1, LogStays DEF service
            <3>4. Connected(up') BY <3>1, ConnectFits DEF Typed, Purposes
            <3>5. Typed' BY <2>1, <2>2, <3>1, <3>2, <3>4 DEF Typed, service, Connected
            <3>6. Quiet BY <2>1, <3>2, SeenStays DEF Quiet
            <3>7. QED BY <3>3, <3>4, <3>5, <3>6
      <2>5. QED BY <2>3, <2>4
<1>10. ASSUME NEW s \in Sockets, NEW t \in Turns, Receipt(s, t)
       PROVE  Typed' /\ LogGrows /\ Connected(up') /\ Quiet
      <2>1. /\ UNCHANGED <<service, sent, chan, up, sock, seen, txn, req, counters, frame,
                           current>>
            /\ flight' = [flight EXCEPT ![s][t] = NoDelivery]
            BY <1>10 DEF Receipt, frames
      <2>2. LogGrows BY <2>1, LogStays DEF service
      <2>3. Connected(up') BY <2>1 DEF ChannelFits
      <2>4. Quiet BY <2>1, SeenStays DEF Quiet, ChannelFits
      <2>5. NoDelivery \in [event : Events \cup {0}, attempts : 0..MaxAttempts]
            BY LimitsAssumption DEF NoDelivery
      <2>6. flight' \in [Sockets -> Deliveries] BY <2>1, <2>5 DEF Typed, Deliveries
      <2>7. Typed' BY <2>1, <2>6 DEF Typed, service, counters, Deliveries
      <2>8. QED BY <2>2, <2>3, <2>4, <2>7
<1>11. ASSUME NEW s \in Sockets, NEW t \in Turns, Retry(s, t)
       PROVE  Typed' /\ LogGrows /\ Connected(up') /\ Quiet
      <2>1. /\ UNCHANGED <<service, sent, chan, up, seen, txn, req, counters, current>>
            /\ sock[s] \in {"open", "gone"}
            BY <1>11 DEF Retry, Writable
      <2>2. LogGrows BY <2>1, LogStays DEF service
      <2>3. Connected(up') BY <2>1 DEF ChannelFits
      <2>4. CASE flight[s][t].attempts < MaxAttempts
            <3>1. /\ flight' = [flight EXCEPT ![s][t].attempts = @ + 1]
                  /\ frame' = [frame EXCEPT ![s][t] = flight[s][t].event]
                  /\ sock' = sock
                  BY <1>11, <2>4 DEF Retry
            <3>2. PICK d : d = [flight[s][t] EXCEPT !.attempts = @ + 1] OBVIOUS
            <3>3. flight[s][t] \in [event : Events \cup {0}, attempts : 0..MaxAttempts]
                  BY DEF Typed
            <3>4. d \in [event : Events \cup {0}, attempts : 0..MaxAttempts]
                  BY <2>4, <3>2, <3>3, LimitsAssumption
            <3>5. flight' = [flight EXCEPT ![s][t] = d] BY <3>1, <3>2
            <3>6. flight' \in [Sockets -> Deliveries] BY <3>4, <3>5 DEF Typed, Deliveries
            <3>7. frame' \in [Sockets -> [Turns -> Events \cup {0}]]
                  <4>1. flight[s][t].event \in Events \cup {0} BY <3>3
                  <4>2. QED BY <3>1, <4>1 DEF Typed
            <3>8. Typed' BY <2>1, <3>1, <3>6, <3>7 DEF Typed, service, counters, Deliveries
            <3>9. Quiet BY <2>1, <3>1, SeenStays DEF Quiet, ChannelFits
            <3>10. QED BY <2>2, <2>3, <3>8, <3>9
      <2>5. CASE ~(flight[s][t].attempts < MaxAttempts)
            <3>1. /\ flight' = [flight EXCEPT ![s] = NoDeliveries]
                  /\ sock' = [sock EXCEPT ![s] = "closing"]
                  /\ frame' = frame
                  BY <1>11, <2>5 DEF Retry
            <3>2. NoDeliveries \in Deliveries
                  BY LimitsAssumption DEF NoDeliveries, NoDelivery, Deliveries
            <3>3. Typed' BY <2>1, <3>1, <3>2 DEF Typed, service, counters, Deliveries
            <3>4. Quiet BY <2>1, <3>1, SeenStays DEF Quiet, ChannelFits, Typed
            <3>5. QED BY <2>2, <2>3, <3>3, <3>4
      <2>6. QED BY <2>4, <2>5
<1>12. QED BY <1>1, <1>2, <1>3, <1>4, <1>5, <1>6, <1>7, <1>8, <1>9, <1>10, <1>11 DEF QuietStep

(***************************************************************************)
(* The steps of the reconnects: what each makes of them.                   *)
(***************************************************************************)
LEMMA NoDeliveriesFit == NoDeliveries \in Deliveries
BY LimitsAssumption DEF NoDeliveries, NoDelivery, Deliveries

\* An event arrives: it is buffered for a transaction, else it is sent.
LEMMA ArrivalFits ==
    ASSUME Typed, ChannelFits, EventArrives
    PROVE  /\ Typed' /\ LogGrows /\ log' = log
           /\ up' = up /\ sock' = sock /\ txn' = txn /\ current' = current
           /\ sent' = sent + 1 /\ sent' \in Events /\ chan.exists
           /\ chan'.exists = chan.exists /\ chan'.subs = chan.subs
           /\ chan'.window \subseteq chan.window \cup {sent'}
           /\ \A r \in Requests :
                 /\ req'[r].stage = req[r].stage /\ req'[r].socket = req[r].socket
                 /\ req'[r].provisioned = req[r].provisioned /\ req'[r].read = req[r].read
                 /\ req'[r].buffer = IF \E s \in chan.subs : txn[s] = r
                                     THEN req[r].buffer \cup {sent'} ELSE req[r].buffer
           /\ \A s \in Sockets :
                 IF s \in chan.subs /\ txn[s] = 0
                 THEN /\ flight'[s] = Delivered(s, {sent'}) /\ frame'[s] = Framed(s, {sent'})
                      /\ seen'[s] = Seen(s, {sent'})
                 ELSE UNCHANGED <<flight[s], frame[s], seen[s]>>
<1>1. PICK e : e = sent + 1 OBVIOUS
<1>2. MaxEvents \in Nat /\ sent \in Nat /\ Len(log) \in Nat /\ Len(log) <= MaxEvents
      BY BoundsAssumption DEF Typed
<1>3. e \in Events /\ e \in 1..Len(log) /\ sent' = e
      BY <1>1, <1>2 DEF EventArrives, Events
<1>4. LogGrows /\ UNCHANGED <<log, runner, up, sock, txn, commands, faults, current>>
      BY LogStays DEF EventArrives, service, counters
<1>5. up.phase = "open" /\ chan.exists
      BY DEF EventArrives, ChannelFits
<1>6. PICK W : W = Recorded(chan.window \cup {e}) OBVIOUS
<1>7. chan.window \in SUBSET Events BY DEF Typed, Channel
<1>8. W \subseteq chan.window \cup {e} /\ W \in SUBSET Events
      BY <1>3, <1>6, <1>7 DEF Recorded
<1>9. PICK c : c = [chan EXCEPT !.window = W] OBVIOUS
<1>10. /\ c \in Channel /\ c.exists = chan.exists /\ c.subs = chan.subs
       /\ c.window = W
       BY <1>8, <1>9 DEF Typed, Channel
<1>11. chan' = Projected(c, e) BY <1>1, <1>6, <1>9 DEF EventArrives
<1>12. chan' \in Channel /\ chan'.exists = chan.exists /\ chan'.subs = chan.subs /\ chan'.window = W
       <2>1. log[e].kind \in {"accepted", "processing", "ended"}
             <3>1. log[e] \in Record BY <1>3 DEF Typed
             <3>2. QED BY <3>1 DEF Record
       <2>2. CASE log[e].kind = "accepted" BY <1>10, <1>11, <2>2 DEF Projected
       <2>3. CASE log[e].kind = "processing"
             <3>1. chan' = [c EXCEPT !.running = TRUE, !.retained = FALSE]
                   BY <1>11, <2>3 DEF Projected
             <3>2. QED BY <1>10, <3>1 DEF Channel
       <2>4. CASE log[e].kind = "ended"
             <3>1. chan' = [c EXCEPT !.running = FALSE, !.retained = TRUE]
                   BY <1>11, <2>4 DEF Projected
             <3>2. QED BY <1>10, <3>1 DEF Channel
       <2>5. QED BY <2>1, <2>2, <2>3, <2>4
<1>13. req' = [r \in Requests |->
                  IF \E s \in {x \in chan.subs : txn[x] # 0} : txn[s] = r
                  THEN [req[r] EXCEPT !.buffer = @ \cup {e}] ELSE req[r]]
       BY <1>1 DEF EventArrives
<1>14. ASSUME NEW r \in Requests
       PROVE  /\ req'[r] \in Request
              /\ req'[r].stage = req[r].stage /\ req'[r].socket = req[r].socket
              /\ req'[r].provisioned = req[r].provisioned /\ req'[r].read = req[r].read
              /\ req'[r].buffer = IF \E s \in chan.subs : txn[s] = r
                                  THEN req[r].buffer \cup {e} ELSE req[r].buffer
       <2>1. req[r] \in Request /\ r # 0
             <3>1. r # 0 BY DEF Requests
             <3>2. QED BY <3>1 DEF Typed
       <2>2. CASE \E s \in chan.subs : txn[s] = r
             <3>1. req'[r] = [req[r] EXCEPT !.buffer = @ \cup {e}] BY <1>13, <2>1, <2>2
             <3>2. QED BY <1>3, <2>1, <2>2, <3>1 DEF Request
       <2>3. CASE ~\E s \in chan.subs : txn[s] = r
             <3>1. req'[r] = req[r] BY <1>13, <2>1, <2>3
             <3>2. QED BY <2>1, <2>3, <3>1
       <2>4. QED BY <2>2, <2>3
<1>15. req' \in [Requests -> Request] BY <1>13, <1>14
<1>16. ASSUME NEW s \in Sockets
       PROVE  IF s \in chan.subs /\ txn[s] = 0
              THEN /\ flight'[s] = Delivered(s, {e}) /\ frame'[s] = Framed(s, {e})
                   /\ seen'[s] = Seen(s, {e})
              ELSE UNCHANGED <<flight[s], frame[s], seen[s]>>
       BY <1>1 DEF EventArrives
<1>17. \A s \in Sockets : /\ Delivered(s, {e}) \in Deliveries
                          /\ Framed(s, {e}) \in [Turns -> Events \cup {0}]
                          /\ Seen(s, {e}) \in [Turns -> Events \cup {0}]
       BY <1>3, SendsFit, SeenFits DEF Deliveries
<1>18. /\ \A s \in Sockets : flight'[s] \in Deliveries
       /\ \A s \in Sockets : frame'[s] \in [Turns -> Events \cup {0}]
       /\ \A s \in Sockets : seen'[s] \in [Turns -> Events \cup {0}]
       BY <1>16, <1>17 DEF Typed, Deliveries
<1>19. flight' \in [Sockets -> Deliveries] BY <1>1, <1>18 DEF EventArrives
<1>20. frame' \in [Sockets -> [Turns -> Events \cup {0}]] BY <1>1, <1>18 DEF EventArrives
<1>21. seen' \in [Sockets -> [Turns -> Events \cup {0}]] BY <1>1, <1>18 DEF EventArrives
<1>22. sent' \in 0..Len(log') BY <1>2, <1>3, <1>4
<1>23. Typed' BY <1>4, <1>12, <1>15, <1>19, <1>20, <1>21, <1>22 DEF Typed, Deliveries
<1>24. QED BY <1>1, <1>3, <1>4, <1>5, <1>8, <1>12, <1>14, <1>16, <1>23

\* A reconnect of a socket that is open.
LEMMA ReconnectTypes ==
    ASSUME Typed, ChannelFits, NEW s \in Sockets, NEW r \in Requests, Reconnect(s, r),
           txn[s] # r
    PROVE  Typed' /\ LogGrows /\ log' = log /\ sent' = sent /\ sock' = sock
<1>1. UNCHANGED <<log, runner, sent, sock, commands, faults>>
      BY DEF Reconnect, service, counters
<1>2. LogGrows BY <1>1, LogStays
<1>3. /\ req' \in [Requests -> Request] /\ up' \in Transport
      /\ flight' = [flight EXCEPT ![s] = NoDeliveries] /\ frame' = frame
      BY ReconnectFits DEF ChannelFits, Connected
<1>4. flight' \in [Sockets -> Deliveries]
      BY <1>3, NoDeliveriesFit DEF Typed, Deliveries
<1>5. chan' \in Channel /\ txn' \in [Sockets -> Requests \cup {0}]
      /\ seen' \in [Sockets -> [Turns -> Events \cup {0}]] /\ current' \in [Sockets -> SUBSET Turns]
      <2>1. CASE chan.exists
            <3>1. chan' = [chan EXCEPT !.subs = @ \cup {s}] /\ Prepared(s, r, Known(s))
                  BY <2>1, ReconnectFits DEF ChannelFits
            <3>2. Replay(Known(s)) \in SUBSET Events BY DEF Replay, Typed, Channel
            <3>3. Seen(s, Replay(Known(s))) \in [Turns -> Events \cup {0}]
                  BY <3>2, SeenFits
            <3>4. chan' \in Channel BY <3>1 DEF Typed, Channel
            <3>5. txn' \in [Sockets -> Requests \cup {0}] /\ current' \in [Sockets -> SUBSET Turns]
                  BY <3>1 DEF Prepared, HasUpTo, Typed
            <3>6. seen' \in [Sockets -> [Turns -> Events \cup {0}]]
                  BY <3>1, <3>3 DEF Prepared, Typed
            <3>7. QED BY <3>4, <3>5, <3>6
      <2>2. CASE ~chan.exists
            <3>1. /\ chan' = EnsureChannel /\ txn' = [txn EXCEPT ![s] = 0]
                  /\ seen' = seen /\ current' = current
                  BY <2>2, ReconnectFits DEF ChannelFits
            <3>2. sent \in {0} \cup Events BY BoundsAssumption DEF Typed, Events
            <3>3. EnsureChannel \in Channel
                  BY <2>2, <3>2 DEF EnsureChannel, NoChannel, Channel
            <3>4. QED BY <3>1, <3>3 DEF Typed
      <2>3. QED BY <2>1, <2>2
<1>6. sent' \in 0..Len(log') BY <1>1 DEF Typed
<1>7. Typed' BY <1>1, <1>3, <1>4, <1>5, <1>6 DEF Typed, Deliveries
<1>8. QED BY <1>1, <1>2, <1>7

\* What a reconnect does to those before it.
LEMMA ReconnectRequests ==
    ASSUME Typed, ChannelFits, NEW s \in Sockets, NEW r \in Requests, Reconnect(s, r),
           txn[s] # r
    PROVE  \A p \in Requests : p # r =>
               req'[p] = IF p = txn[s] THEN Ending(req[p], "silent") ELSE req[p]
<1>1. Connected(up) BY DEF ChannelFits
<1>2. /\ req' \in [Requests -> Request] /\ Connected(up')
      /\ \A p \in Requests : p # r =>
            req'[p] = IF p = txn[s] THEN Ending(req[p], "silent") ELSE req[p]
      /\ req'[r].socket = s
      /\ flight' = [flight EXCEPT ![s] = NoDeliveries] /\ frame' = frame
      /\ \/ /\ chan.exists /\ chan' = [chan EXCEPT !.subs = @ \cup {s}]
            /\ req'[r].provisioned = FALSE /\ Prepared(s, r, Known(s))
            /\ up.purpose = "run" => up' = up
         \/ /\ ~chan.exists /\ chan' = EnsureChannel
            /\ req'[r].stage = "provisioning" /\ req'[r].provisioned
            /\ req'[r].buffer = {} /\ req'[r].read = 0
            /\ txn' = [txn EXCEPT ![s] = 0] /\ seen' = seen /\ current' = current
      BY <1>1, ReconnectFits
<1>3. QED BY <1>2

\* A reconnect that comes back from provisioning.
LEMMA ProvisionedFits ==
    ASSUME Typed, ChannelFits, RequestsFit, NEW r \in Requests, Provisioned(r),
           NEW s, s = req[r].socket
    PROVE  /\ Typed' /\ LogGrows /\ log' = log /\ sent' = sent /\ sock' = sock
           /\ s \in Sockets /\ req[r].stage = "provisioning"
           /\ Connected(up') /\ (up.purpose = "run" => up' = up)
           /\ chan' = [chan EXCEPT !.subs = @ \cup {s}]
           /\ \A p \in Requests : p # r => req'[p] = req[p]
           /\ req'[r].socket = s /\ req[r].provisioned /\ req'[r].provisioned
           /\ Prepared(s, r, req[r].known)
           /\ flight' = flight /\ frame' = frame
<1>1. /\ UNCHANGED <<log, runner, sent, sock, commands, faults>>
      /\ req[r].stage = "provisioning" /\ Prepare(s, r, up, req, flight)
      BY DEF Provisioned, service, counters
<1>2. LogGrows BY <1>1, LogStays
<1>3. /\ s \in Sockets /\ req[r].provisioned /\ req[r].buffer = {} /\ req[r].read = 0
      BY <1>1 DEF RequestsFit, Started
<1>4. req \in [Requests -> Request] /\ Connected(up) BY DEF Typed, ChannelFits
<1>5. /\ chan' = [chan EXCEPT !.subs = @ \cup {s}]
      /\ Connected(up') /\ (up.purpose = "run" => up' = up)
      /\ req' \in [Requests -> Request]
      /\ \A p \in Requests : p # r => req'[p] = req[p]
      /\ req'[r].socket = req[r].socket /\ req'[r].provisioned = req[r].provisioned
      /\ Prepared(s, r, req[r].known)
      /\ flight' = flight /\ frame' = frame
      <2>1. PICK q \in [Requests -> Request] : q = req BY <1>4
      <2>2. PICK u : u = up OBVIOUS
      <2>3. PICK f : f = flight OBVIOUS
      <2>4. Prepare(s, r, u, q, f) BY <1>1, <2>1, <2>2, <2>3
      <2>5. Connected(u) /\ q[r].buffer = {} /\ q[r].read = 0 BY <1>3, <1>4, <2>1, <2>2
      <2>6. /\ chan' = [chan EXCEPT !.subs = @ \cup {s}]
            /\ Connected(up') /\ (u.purpose = "run" => up' = u)
            /\ req' \in [Requests -> Request]
            /\ \A p \in Requests : p # r => req'[p] = q[p]
            /\ req'[r].socket = q[r].socket /\ req'[r].provisioned = q[r].provisioned
            /\ Prepared(s, r, q[r].known)
            /\ flight' = f /\ frame' = frame
            BY <1>3, <2>4, <2>5, PrepareFits
      <2>7. QED BY <2>1, <2>2, <2>3, <2>6
<1>6. Replay(req[r].known) \in SUBSET Events BY DEF Replay, Typed, Channel
<1>7. Seen(s, Replay(req[r].known)) \in [Turns -> Events \cup {0}] BY <1>3, <1>6, SeenFits
<1>8. chan' \in Channel BY <1>3, <1>5 DEF Typed, Channel
<1>9. Prepared(s, r, req[r].known) BY <1>5
<1>10. txn' \in [Sockets -> Requests \cup {0}] /\ current' \in [Sockets -> SUBSET Turns]
       <2>1. \/ txn' = [txn EXCEPT ![s] = r] \/ txn' = [txn EXCEPT ![s] = 0]
             BY <1>9 DEF Prepared
       <2>2. \E S \in SUBSET Turns : current' = [current EXCEPT ![s] = S]
             BY <1>9 DEF Prepared, HasUpTo
       <2>3. txn \in [Sockets -> Requests \cup {0}] /\ current \in [Sockets -> SUBSET Turns]
             BY DEF Typed
       <2>4. txn' \in [Sockets -> Requests \cup {0}] BY <2>1, <2>3
       <2>5. current' \in [Sockets -> SUBSET Turns] BY <1>3, <2>2, <2>3
       <2>6. QED BY <2>4, <2>5
<1>11. seen' \in [Sockets -> [Turns -> Events \cup {0}]]
       <2>1. seen' = seen \/ seen' = [seen EXCEPT ![s] = Seen(s, Replay(req[r].known))]
             BY <1>9 DEF Prepared
       <2>2. seen \in [Sockets -> [Turns -> Events \cup {0}]] BY DEF Typed
       <2>3. PICK f : f = Seen(s, Replay(req[r].known)) OBVIOUS
       <2>4. f \in [Turns -> Events \cup {0}] BY <1>7, <2>3
       <2>5. [seen EXCEPT ![s] = f] \in [Sockets -> [Turns -> Events \cup {0}]] BY <2>2, <2>4
       <2>6. QED BY <2>1, <2>2, <2>3, <2>5
<1>12. up' \in Transport BY <1>5 DEF Connected
<1>13. sent' \in 0..Len(log') BY <1>1 DEF Typed
<1>14. Typed' BY <1>1, <1>5, <1>8, <1>10, <1>11, <1>12, <1>13 DEF Typed
<1>15. QED BY <1>1, <1>2, <1>3, <1>5, <1>14

\* The service reads for a reconnect: its answer covers what has arrived.
LEMMA ReadFits ==
    ASSUME Typed, ChannelFits, NEW r \in Requests, Read(r)
    PROVE  /\ Typed' /\ LogGrows /\ sent' = sent /\ chan' = chan /\ sock' = sock
           /\ seen' = seen /\ flight' = flight /\ frame' = frame /\ txn' = txn
           /\ current' = current
           /\ Connected(up') /\ chan.exists
           /\ req[r].stage = "waiting" /\ req'[r].stage = "waiting"
           /\ \A p \in Requests : p # r => req'[p] = req[p]
           /\ req'[r].socket = req[r].socket /\ req'[r].provisioned = req[r].provisioned
           /\ req'[r].buffer = req[r].buffer /\ req'[r].read >= sent
<1>1. /\ UNCHANGED <<sent, chan, sock, seen, flight, txn, commands, faults, frame, current>>
      /\ req[r].stage = "waiting" /\ up.phase = "open"
      BY DEF Read, counters, frames
<1>2. chan.exists BY <1>1 DEF ChannelFits
<1>3. /\ MaxEvents \in Nat /\ Len(log) \in Nat /\ Len(log) <= MaxEvents /\ sent \in 0..Len(log)
      BY BoundsAssumption DEF Typed
<1>4. req[r] \in Request /\ req \in [Requests -> Request] /\ up \in Transport BY DEF Typed
<1>5. CASE req[r].command = "snapshot"
      <2>1. PICK b \in {Orphaned, FALSE} :
                  /\ req' = [req EXCEPT ![r].read = Len(log), ![r].flagged = b]
                  /\ UNCHANGED service /\ up' = up
            BY <1>5 DEF Read
      <2>2. LogGrows BY <2>1, LogStays DEF service
      <2>3. PICK n : n = Len(log) OBVIOUS
      <2>5. n \in {0} \cup Events BY <1>3, <2>3 DEF Events
      <2>6. b \in BOOLEAN BY DEF Orphaned
      <2>7. PICK w : w = [req[r] EXCEPT !.read = n, !.flagged = b] OBVIOUS
      <2>8. /\ w \in Request /\ w.stage = req[r].stage /\ w.socket = req[r].socket
            /\ w.provisioned = req[r].provisioned /\ w.buffer = req[r].buffer /\ w.read = n
            BY <1>4, <2>5, <2>6, <2>7 DEF Request
      <2>9. req' = [req EXCEPT ![r] = w] BY <2>1, <2>3, <2>7
      <2>10. /\ req' \in [Requests -> Request] /\ req'[r] = w
             /\ \A p \in Requests : p # r => req'[p] = req[p]
             BY <1>4, <2>8, <2>9
      <2>11. w.read >= sent BY <1>3, <2>3, <2>8
      <2>12. Typed' BY <1>1, <2>1, <2>10 DEF Typed, service
      <2>13. QED BY <1>1, <1>2, <2>1, <2>2, <2>8, <2>10, <2>11, <2>12 DEF ChannelFits
<1>6. CASE req[r].command = "finalize"
      <2>1. PICK f : f = Finalized OBVIOUS
      <2>2. /\ req' = [req EXCEPT ![r].read = Len(f)] /\ log' = f /\ runner' = runner
            /\ up' = [up EXCEPT !.bound = @ \/ Orphaned] /\ Len(f) <= MaxEvents
            BY <1>6, <2>1 DEF Read
      <2>3. /\ f \in Seq(Record) /\ Len(log) <= Len(f)
            /\ \A n \in 1..Len(log) : f[n] = log[n]
            BY <2>1, FinalizedFits
      <2>4. LogGrows BY <2>2, <2>3 DEF LogGrows
      <2>5. PICK n : n = Len(f) OBVIOUS
      <2>6. n \in Nat /\ n >= sent BY <1>3, <2>3, <2>5
      <2>7. n \in {0} \cup Events BY <1>3, <2>2, <2>5, <2>6 DEF Events
      <2>8. PICK w : w = [req[r] EXCEPT !.read = n] OBVIOUS
      <2>9. /\ w \in Request /\ w.stage = req[r].stage /\ w.socket = req[r].socket
            /\ w.provisioned = req[r].provisioned /\ w.buffer = req[r].buffer /\ w.read = n
            BY <1>4, <2>7, <2>8 DEF Request
      <2>10. req' = [req EXCEPT ![r] = w] BY <2>2, <2>5, <2>8
      <2>11. /\ req' \in [Requests -> Request] /\ req'[r] = w
             /\ \A p \in Requests : p # r => req'[p] = req[p]
             BY <1>4, <2>9, <2>10
      <2>12. Connected(up')
             <3>1. PICK b : b = (up.bound \/ Orphaned) OBVIOUS
             <3>2. b \in BOOLEAN BY <1>4, <3>1 DEF Transport
             <3>3. up' = [up EXCEPT !.bound = b] BY <2>2, <3>1
             <3>4. QED BY <1>1, <1>4, <3>2, <3>3 DEF Connected, Transport
      <2>13. Typed' BY <1>1, <2>2, <2>4, <2>11, <2>12, SentFits
                     DEF Typed, LogGrows, Connected
      <2>14. QED BY <1>1, <1>2, <2>4, <2>6, <2>9, <2>11, <2>12, <2>13
<1>7. QED BY <1>5, <1>6 DEF Read

\* The events a snapshot tells of.
Snapshot(read) == {n \in 1..read : log[n].turn \in Covered(read)}

\* An answer arrives: recovery follows, or it is published, or dropped.
LEMMA AnsweredFits ==
    ASSUME Typed, ChannelFits, RequestsFit, NEW r \in Requests, Answered(r),
           NEW s, s = req[r].socket
    PROVE  /\ Typed' /\ LogGrows /\ log' = log /\ sent' = sent /\ chan' = chan /\ sock' = sock
           /\ Connected(up') /\ (up.purpose = "run" => up' = up)
           /\ s \in Sockets /\ chan.exists
           /\ req[r].stage = "waiting" /\ req[r].read # 0
           /\ \A p \in Requests : p # r => req'[p] = req[p]
           /\ req'[r].socket = s /\ req'[r].provisioned = req[r].provisioned
           /\ \/ /\ req'[r].stage = "waiting" /\ req'[r].buffer = req[r].buffer
                 /\ req'[r].read = 0
                 /\ UNCHANGED <<up, seen, flight, txn, frame, current>>
              \/ /\ req'[r].stage = "silent" /\ txn[s] # r
                 /\ UNCHANGED <<up, seen, flight, txn, frame, current>>
              \/ /\ req'[r].stage = "done" /\ txn[s] = r
                 /\ txn' = [txn EXCEPT ![s] = 0]
                 /\ current' = [current EXCEPT ![s] = Covered(req[r].read)]
                 /\ flight' = [flight EXCEPT ![s] = Delivered(s, req[r].buffer)]
                 /\ frame' = [frame EXCEPT ![s] = Framed(s, req[r].buffer)]
                 /\ \E told \in SUBSET Events :
                       /\ seen' = [seen EXCEPT ![s] = Seen(s, told)]
                       /\ Snapshot(req[r].read) \subseteq told /\ req[r].buffer \subseteq told
<1>1. /\ UNCHANGED <<log, runner, sent, chan, sock, commands, faults>>
      /\ req[r].stage = "waiting" /\ req[r].read # 0 /\ up.phase = "open"
      BY DEF Answered, service, counters
<1>2. LogGrows /\ sent' \in 0..Len(log') BY <1>1, LogStays DEF Typed
<1>3. s \in Sockets /\ chan.exists BY <1>1 DEF RequestsFit, Started, Pending
<1>4. req[r] \in Request /\ req \in [Requests -> Request] /\ up \in Transport BY DEF Typed
<1>5. Connected(up) BY DEF ChannelFits
<1>6. CASE req[r].flagged
      <2>1. /\ req' = [req EXCEPT ![r].command = "finalize", ![r].read = 0,
                                  ![r].flagged = FALSE]
            /\ UNCHANGED <<up, seen, flight, txn, frame, current>>
            BY <1>6 DEF Answered, frames
      <2>2. PICK w : w = [req[r] EXCEPT !.command = "finalize", !.read = 0, !.flagged = FALSE]
            OBVIOUS
      <2>3. /\ w \in Request /\ w.stage = req[r].stage /\ w.socket = req[r].socket
            /\ w.provisioned = req[r].provisioned /\ w.buffer = req[r].buffer /\ w.read = 0
            BY <1>4, <2>2 DEF Request
      <2>4. req' = [req EXCEPT ![r] = w] BY <2>1, <2>2
      <2>5. /\ req' \in [Requests -> Request] /\ req'[r] = w
            /\ \A p \in Requests : p # r => req'[p] = req[p]
            BY <1>4, <2>3, <2>4
      <2>6. Typed' BY <1>1, <1>2, <2>1, <2>5 DEF Typed
      <2>7. QED BY <1>1, <1>2, <1>3, <1>5, <2>1, <2>3, <2>5, <2>6
<1>7. CASE ~req[r].flagged /\ txn[s] # r
      <2>1. /\ req' = [req EXCEPT ![r] = Ending(req[r], "silent")]
            /\ UNCHANGED <<up, seen, flight, txn, frame, current>>
            BY <1>7 DEF Answered, frames
      <2>2. PICK w : w = Ending(req[r], "silent") OBVIOUS
      <2>3. /\ w \in Request /\ w.stage = "silent" /\ w.socket = req[r].socket
            /\ w.provisioned = req[r].provisioned
            BY <1>4, <2>2, EndingFits DEF Stages
      <2>4. /\ req' \in [Requests -> Request] /\ req'[r] = w
            /\ \A p \in Requests : p # r => req'[p] = req[p]
            BY <1>4, <2>1, <2>2, <2>3
      <2>5. Typed' BY <1>1, <1>2, <2>1, <2>4 DEF Typed
      <2>6. QED BY <1>1, <1>2, <1>3, <1>5, <1>7, <2>1, <2>3, <2>4, <2>5
<1>8. CASE ~req[r].flagged /\ txn[s] = r
      <2>1. Publish(s, r) /\ up' = CloseOwned(up, r)
            /\ req' = [req EXCEPT ![r] = Ending(req[r], "done")]
            BY <1>8 DEF Answered
      <2>2. Buffered(r) = req[r].buffer BY <1>3 DEF Buffered
      <2>3. PICK told : told = Snapshot(req[r].read) \cup {n \in req[r].replay : n > req[r].read}
                               \cup req[r].buffer
            OBVIOUS
      <2>4. /\ seen' = [seen EXCEPT ![s] = Seen(s, told)]
            /\ flight' = [flight EXCEPT ![s] = Delivered(s, req[r].buffer)]
            /\ frame' = [frame EXCEPT ![s] = Framed(s, req[r].buffer)]
            /\ txn' = [txn EXCEPT ![s] = 0]
            /\ current' = [current EXCEPT ![s] = Covered(req[r].read)]
            BY <2>1, <2>2, <2>3 DEF Publish, Snapshot
      <2>5. /\ req[r].read \in {0} \cup Events /\ req[r].replay \in SUBSET Events
            /\ req[r].buffer \in SUBSET Events
            BY <1>4 DEF Request
      <2>6. Snapshot(req[r].read) \subseteq Events BY <2>5, BoundsAssumption DEF Snapshot, Events
      <2>7. /\ told \in SUBSET Events
            /\ Snapshot(req[r].read) \subseteq told /\ req[r].buffer \subseteq told
            BY <2>3, <2>5, <2>6
      <2>8. PICK w : w = Ending(req[r], "done") OBVIOUS
      <2>9. /\ w \in Request /\ w.stage = "done" /\ w.socket = req[r].socket
            /\ w.provisioned = req[r].provisioned
            BY <1>4, <2>8, EndingFits DEF Stages
      <2>10. /\ req' \in [Requests -> Request] /\ req'[r] = w
             /\ \A p \in Requests : p # r => req'[p] = req[p]
             BY <1>4, <2>1, <2>8, <2>9
      <2>11. Connected(up') /\ (up.purpose = "run" => up' = up)
             BY <1>5, <2>1, CloseOwnedFits
      <2>12. Delivered(s, req[r].buffer) \in Deliveries
             /\ Framed(s, req[r].buffer) \in [Turns -> Events \cup {0}]
             BY <1>3, <2>5, SendsFit DEF Deliveries
      <2>13. Seen(s, told) \in [Turns -> Events \cup {0}] BY <1>3, <2>7, SeenFits
      <2>14. /\ flight' \in [Sockets -> Deliveries]
             /\ frame' \in [Sockets -> [Turns -> Events \cup {0}]]
             /\ seen' \in [Sockets -> [Turns -> Events \cup {0}]]
             /\ txn' \in [Sockets -> Requests \cup {0}] /\ current' \in [Sockets -> SUBSET Turns]
             <3>1. /\ flight \in [Sockets -> Deliveries]
                   /\ frame \in [Sockets -> [Turns -> Events \cup {0}]]
                   /\ seen \in [Sockets -> [Turns -> Events \cup {0}]]
                   /\ txn \in [Sockets -> Requests \cup {0}]
                   /\ current \in [Sockets -> SUBSET Turns]
                   BY DEF Typed, Deliveries
             <3>2. flight' \in [Sockets -> Deliveries] BY <2>4, <2>12, <3>1
             <3>3. frame' \in [Sockets -> [Turns -> Events \cup {0}]] BY <2>4, <2>12, <3>1
             <3>4. seen' \in [Sockets -> [Turns -> Events \cup {0}]] BY <2>4, <2>13, <3>1
             <3>5. txn' \in [Sockets -> Requests \cup {0}] BY <2>4, <3>1
             <3>6. current' \in [Sockets -> SUBSET Turns] BY <1>3, <2>4, <3>1 DEF Covered
             <3>7. QED BY <3>2, <3>3, <3>4, <3>5, <3>6
      <2>15. Typed' BY <1>1, <1>2, <2>10, <2>11, <2>14 DEF Typed, Connected, Deliveries
      <2>16. QED BY <1>1, <1>2, <1>3, <1>8, <2>4, <2>7, <2>9, <2>10, <2>11, <2>15
<1>9. QED BY <1>6, <1>7, <1>8

\* A reconnect is rejected, or dropped if it has lost the transaction.
LEMMA RejectedFits ==
    ASSUME Typed, ChannelFits, RequestsFit, NEW r \in Requests, Rejected(r),
           NEW s, s = req[r].socket
    PROVE  /\ Typed' /\ LogGrows /\ log' = log /\ sent' = sent /\ chan' = chan /\ sock' = sock
           /\ seen' = seen /\ flight' = flight /\ frame' = frame /\ current' = current
           /\ Connected(up') /\ (up.purpose = "run" => up' = up)
           /\ s \in Sockets /\ chan.exists /\ req[r].stage = "waiting"
           /\ \A p \in Requests : p # r => req'[p] = req[p]
           /\ req'[r].socket = s /\ req'[r].provisioned = req[r].provisioned
           /\ \/ req'[r].stage = "silent" /\ txn[s] # r /\ txn' = txn
              \/ req'[r].stage = "failed" /\ txn[s] = r /\ txn' = [txn EXCEPT ![s] = 0]
<1>1. /\ UNCHANGED <<log, runner, sent, chan, sock, seen, flight, commands, faults, frame,
                     current>>
      /\ req[r].stage = "waiting"
      BY DEF Rejected, service, counters, frames
<1>2. LogGrows /\ sent' \in 0..Len(log') BY <1>1, LogStays DEF Typed
<1>3. s \in Sockets /\ chan.exists BY <1>1 DEF RequestsFit, Started, Pending
<1>4. /\ req[r] \in Request /\ req \in [Requests -> Request] /\ Connected(up)
      /\ txn \in [Sockets -> Requests \cup {0}]
      BY DEF Typed, ChannelFits
<1>5. PICK stage \in {"silent", "failed"} :
          /\ req' = [req EXCEPT ![r] = Ending(req[r], stage)]
          /\ \/ stage = "silent" /\ txn[s] # r /\ UNCHANGED <<up, txn>>
             \/ stage = "failed" /\ txn[s] = r /\ txn' = [txn EXCEPT ![s] = 0]
                                 /\ up' = CloseOwned(up, r)
      BY DEF Rejected
<1>6. PICK w : w = Ending(req[r], stage) OBVIOUS
<1>7. /\ w \in Request /\ w.stage = stage /\ w.socket = req[r].socket
      /\ w.provisioned = req[r].provisioned
      BY <1>4, <1>6, EndingFits DEF Stages
<1>8. /\ req' \in [Requests -> Request] /\ req'[r] = w
      /\ \A p \in Requests : p # r => req'[p] = req[p]
      BY <1>4, <1>5, <1>6, <1>7
<1>9. Connected(up') /\ (up.purpose = "run" => up' = up)
      BY <1>4, <1>5, CloseOwnedFits
<1>10. txn' \in [Sockets -> Requests \cup {0}] BY <1>4, <1>5
<1>11. Typed' BY <1>1, <1>2, <1>8, <1>9, <1>10 DEF Typed, Connected
<1>12. QED BY <1>1, <1>2, <1>3, <1>5, <1>7, <1>8, <1>9, <1>11

\* A socket is closed: its reconnects that wait are dropped.
LEMMA ReleaseFits ==
    ASSUME Typed, ChannelFits, NEW s \in Sockets, ReleaseSocket(s)
    PROVE  /\ Typed' /\ LogGrows /\ log' = log /\ sent' = sent /\ seen' = seen /\ frame' = frame
           /\ sock[s] # "unused" /\ sock' = [sock EXCEPT ![s] = "closed"]
           /\ Connected(up') /\ (up.purpose = "run" \/ up.phase = "idle" => up' = up)
           /\ chan' = [chan EXCEPT !.subs = @ \ {s}]
           /\ txn' = [txn EXCEPT ![s] = 0] /\ current' = [current EXCEPT ![s] = {}]
           /\ flight' = [flight EXCEPT ![s] = NoDeliveries]
           /\ \A r \in Requests :
                 IF r = txn[s] \/ (req[r].stage = "waiting" /\ req[r].socket = s)
                 THEN /\ req'[r].stage = "silent" /\ req'[r].socket = req[r].socket
                      /\ req'[r].provisioned = req[r].provisioned
                 ELSE req'[r] = req[r]
<1>1. /\ UNCHANGED <<log, runner, sent, seen, commands, faults, frame>>
      /\ sock[s] # "unused" /\ sock' = [sock EXCEPT ![s] = "closed"]
      /\ chan' = [chan EXCEPT !.subs = @ \ {s}]
      /\ txn' = [txn EXCEPT ![s] = 0] /\ current' = [current EXCEPT ![s] = {}]
      /\ flight' = [flight EXCEPT ![s] = NoDeliveries]
      /\ up' = WithoutQuery(s)
      BY DEF ReleaseSocket, Detached, service, counters, frames
<1>2. LogGrows /\ sent' \in 0..Len(log') BY <1>1, LogStays DEF Typed
<1>3. Connected(up') /\ (up.purpose = "run" \/ up.phase = "idle" => up' = up)
      <2>1. Connected(up) BY DEF ChannelFits
      <2>2. up' = up \/ up' = CloseOwned(up, txn[s]) BY <1>1 DEF WithoutQuery
      <2>3. QED BY <2>1, <2>2, CloseOwnedFits
<1>4. PICK c : c = Cancelled(s) OBVIOUS
<1>5. /\ c \in [Requests -> Request]
      /\ \A r \in Requests : c[r] = IF r = txn[s] THEN Ending(req[r], "silent") ELSE req[r]
      BY <1>4, CancelledFits
<1>6. req' = [r \in Requests |-> IF req[r].stage = "waiting" /\ req[r].socket = s
                                 THEN Ending(req[r], "silent") ELSE c[r]]
      BY <1>4 DEF ReleaseSocket
<1>7. ASSUME NEW r \in Requests
      PROVE  /\ req'[r] \in Request
             /\ IF r = txn[s] \/ (req[r].stage = "waiting" /\ req[r].socket = s)
                THEN /\ req'[r].stage = "silent" /\ req'[r].socket = req[r].socket
                     /\ req'[r].provisioned = req[r].provisioned
                ELSE req'[r] = req[r]
      <2>1. req[r] \in Request BY DEF Typed
      <2>2. CASE r = txn[s] \/ (req[r].stage = "waiting" /\ req[r].socket = s)
            <3>1. req'[r] = Ending(req[r], "silent") BY <1>5, <1>6, <2>2
            <3>2. QED BY <2>1, <2>2, <3>1, EndingFits DEF Stages
      <2>3. CASE ~(r = txn[s] \/ (req[r].stage = "waiting" /\ req[r].socket = s))
            BY <1>5, <1>6, <2>1, <2>3
      <2>4. QED BY <2>2, <2>3
<1>8. req' \in [Requests -> Request] BY <1>6, <1>7
<1>9. Typed'
      <2>1. chan' \in Channel BY <1>1 DEF Typed, Channel
      <2>2. flight' \in [Sockets -> Deliveries] BY <1>1, NoDeliveriesFit DEF Typed, Deliveries
      <2>3. /\ sock' \in [Sockets -> {"unused", "open", "gone", "closing", "closed"}]
            /\ txn' \in [Sockets -> Requests \cup {0}] /\ current' \in [Sockets -> SUBSET Turns]
            BY <1>1 DEF Typed
      <2>4. QED BY <1>1, <1>2, <1>3, <1>8, <2>1, <2>2, <2>3 DEF Typed, Connected, Deliveries
<1>10. QED BY <1>1, <1>2, <1>3, <1>7, <1>9

\* A channel is deleted, and what was pending with it.
LEMMA CleanupFits ==
    ASSUME Typed, ChannelFits, Cleanup
    PROVE  /\ Typed' /\ LogGrows /\ log' = log /\ sent' = sent /\ seen' = seen /\ frame' = frame
           /\ sock' = sock /\ txn' = txn /\ chan' = NoChannel /\ up' = Closed(up)
           /\ Connected(up')
           /\ current' = [s \in Sockets |-> IF s \in chan.subs THEN {} ELSE current[s]]
           /\ \A s \in Sockets : flight'[s] = NoDeliveries \/ flight'[s] = flight[s]
           /\ \A r \in Requests :
                 IF req[r].stage = "waiting"
                 THEN /\ req'[r].stage = "lost" /\ req'[r].socket = req[r].socket
                      /\ req'[r].provisioned = req[r].provisioned
                 ELSE req'[r] = req[r] /\ req[r].stage # "provisioning"
<1>1. /\ UNCHANGED <<log, runner, sent, sock, seen, txn, commands, faults, frame>>
      /\ \A r \in Requests : req[r].stage # "provisioning"
      /\ chan' = NoChannel /\ up' = Closed(up)
      /\ current' = [s \in Sockets |-> IF s \in chan.subs THEN {} ELSE current[s]]
      /\ flight' = [s \in Sockets |-> IF s \in chan.subs THEN NoDeliveries ELSE flight[s]]
      /\ req' = [r \in Requests |->
                    IF req[r].stage = "waiting" THEN Ending(req[r], "lost") ELSE req[r]]
      BY DEF Cleanup, service, counters, frames
<1>2. LogGrows /\ sent' \in 0..Len(log') BY <1>1, LogStays DEF Typed
<1>3. Connected(up') BY <1>1, ConnectFits DEF Typed, Purposes
<1>4. ASSUME NEW r \in Requests
      PROVE  /\ req'[r] \in Request
             /\ IF req[r].stage = "waiting"
                THEN /\ req'[r].stage = "lost" /\ req'[r].socket = req[r].socket
                     /\ req'[r].provisioned = req[r].provisioned
                ELSE req'[r] = req[r] /\ req[r].stage # "provisioning"
      <2>1. req[r] \in Request BY DEF Typed
      <2>2. CASE req[r].stage = "waiting"
            <3>1. req'[r] = Ending(req[r], "lost") BY <1>1, <2>2
            <3>2. QED BY <2>1, <2>2, <3>1, EndingFits DEF Stages
      <2>3. CASE req[r].stage # "waiting"
            <3>1. req'[r] = req[r] BY <1>1, <2>3
            <3>2. QED BY <1>1, <2>1, <2>3, <3>1
      <2>4. QED BY <2>2, <2>3
<1>5. Typed'
      <2>1. chan' \in Channel BY <1>1 DEF NoChannel, Channel
      <2>2. flight' \in [Sockets -> Deliveries] BY <1>1, NoDeliveriesFit DEF Typed, Deliveries
      <2>3. req' \in [Requests -> Request] BY <1>1, <1>4
      <2>4. current' \in [Sockets -> SUBSET Turns] BY <1>1 DEF Typed
      <2>5. QED BY <1>1, <1>2, <1>3, <2>1, <2>2, <2>3, <2>4 DEF Typed, Connected, Deliveries
<1>6. QED BY <1>1, <1>2, <1>3, <1>4, <1>5

(***************************************************************************)
(* The invariant, part by part.                                            *)
(***************************************************************************)
LoudStep ==
    \/ EventArrives \/ Cleanup
    \/ \E s \in Sockets : ReleaseSocket(s) \/ \E r \in Requests : Reconnect(s, r)
    \/ \E r \in Requests : Provisioned(r) \/ Read(r) \/ Answered(r) \/ Rejected(r)

LEMMA NextSteps ==
    ASSUME [Next]_vars
    PROVE  QuietStep \/ LoudStep
BY DEF Next, QuietStep, LoudStep

\* A reconnect is another than the transaction of its socket.
LEMMA NewRequest ==
    ASSUME TransactionsFit, NEW s \in Sockets, NEW r \in Requests, Reconnect(s, r)
    PROVE  txn[s] # r /\ req[r].stage = "none" /\ sock[s] = "open"
<1>1. req[r].stage = "none" /\ sock[s] = "open" BY DEF Reconnect
<1>2. r # 0 BY DEF Requests
<1>3. QED BY <1>1, <1>2 DEF TransactionsFit

LEMMA InitFits ==
    ASSUME Init
    PROVE  IInv
<1>1. Typed
      <2>1. log \in Seq(Record) /\ Len(log) = 0 /\ MaxEvents \in Nat
            BY BoundsAssumption DEF Init
      <2>2. chan \in Channel /\ up \in Transport
            BY DEF Init, NoChannel, Channel, Transport
      <2>3. req \in [Requests -> Request]
            BY DEF Init, NoRequest, Request
      <2>4. flight \in [Sockets -> Deliveries] BY NoDeliveriesFit DEF Init
      <2>5. commands \in 0..MaxCommands /\ faults \in 0..MaxFaults
            BY BoundsAssumption DEF Init
      <2>6. QED BY <2>1, <2>2, <2>3, <2>4, <2>5 DEF Init, Typed, Deliveries
<1>2. Subscribed BY <1>1 DEF Init, NoChannel, Subscribed
<1>3. ChannelFits BY <1>1 DEF Init, NoChannel, ChannelFits, Connected, Typed
<1>4. RequestsFit BY DEF Init, NoRequest, RequestsFit, Started, Pending
<1>5. TransactionsFit BY DEF Init, NoRequest, TransactionsFit
<1>6. FramesFit BY DEF Init, NoRequest, NoDeliveries, NoDelivery, FramesFit
<1>7. AnswersFit BY DEF Init, NoRequest, AnswersFit
<1>8. SilentReplaced BY DEF Init, NoRequest, SilentReplaced
<1>9. BuffersFit BY DEF Init, NoRequest, BuffersFit
<1>10. Histories BY DEF Init, Histories
<1>11. QED BY <1>2, <1>3, <1>4, <1>5, <1>6, <1>7, <1>8, <1>9, <1>10 DEF IInv

\* The types are kept, the log only grows.
LEMMA TypesKept ==
    ASSUME IInv, [Next]_vars
    PROVE  Typed' /\ LogGrows /\ Connected(up')
<1>1. Typed /\ ChannelFits /\ RequestsFit /\ TransactionsFit
      BY DEF IInv, Subscribed
<1>2. CASE QuietStep BY <1>1, <1>2, QuietStepsFit
<1>3. CASE EventArrives BY <1>1, <1>3, ArrivalFits DEF ChannelFits
<1>4. CASE Cleanup BY <1>1, <1>4, CleanupFits
<1>5. ASSUME NEW s \in Sockets, ReleaseSocket(s) PROVE Typed' /\ LogGrows /\ Connected(up')
      BY <1>1, <1>5, ReleaseFits
<1>6. ASSUME NEW s \in Sockets, NEW r \in Requests, Reconnect(s, r)
      PROVE  Typed' /\ LogGrows /\ Connected(up')
      <2>1. txn[s] # r BY <1>1, <1>6, NewRequest
      <2>2. Typed' /\ LogGrows BY <1>1, <1>6, <2>1, ReconnectTypes
      <2>3. Connected(up') BY <1>1, <1>6, <2>1, ReconnectFits DEF ChannelFits
      <2>4. QED BY <2>2, <2>3
<1>7. ASSUME NEW r \in Requests, Provisioned(r) PROVE Typed' /\ LogGrows /\ Connected(up')
      <2>1. PICK s : s = req[r].socket OBVIOUS
      <2>2. QED BY <1>1, <1>7, <2>1, ProvisionedFits
<1>8. ASSUME NEW r \in Requests, Read(r) PROVE Typed' /\ LogGrows /\ Connected(up')
      BY <1>1, <1>8, ReadFits
<1>9. ASSUME NEW r \in Requests, Answered(r) PROVE Typed' /\ LogGrows /\ Connected(up')
      <2>1. PICK s : s = req[r].socket OBVIOUS
      <2>2. QED BY <1>1, <1>9, <2>1, AnsweredFits
<1>10. ASSUME NEW r \in Requests, Rejected(r) PROVE Typed' /\ LogGrows /\ Connected(up')
      <2>1. PICK s : s = req[r].socket OBVIOUS
      <2>2. QED BY <1>1, <1>10, <2>1, RejectedFits
<1>11. QED BY <1>2, <1>3, <1>4, <1>5, <1>6, <1>7, <1>8, <1>9, <1>10, NextSteps DEF LoudStep

LEMMA ChannelKept ==
    ASSUME IInv, [Next]_vars
    PROVE  ChannelFits'
<1>1. Typed /\ ChannelFits /\ RequestsFit /\ TransactionsFit
      BY DEF IInv, Subscribed
<1>2. Connected(up') BY TypesKept
<1>3. /\ ~chan.exists => chan = NoChannel /\ up.phase = "idle"
      /\ chan.window \subseteq 1..sent
      /\ \A s \in chan.subs : sock[s] # "unused"
      /\ chan.subs \subseteq Sockets /\ sent \in Nat
      BY <1>1 DEF ChannelFits, Typed, Channel
<1>4. SUFFICES /\ ~chan'.exists => chan' = NoChannel /\ up'.phase = "idle"
               /\ chan'.window \subseteq 1..sent'
               /\ \A s \in chan'.subs : sock'[s] # "unused"
      BY <1>2 DEF ChannelFits
<1>5. CASE QuietStep
      <2>1. Quiet BY <1>1, <1>5, QuietStepsFit
      <2>2. ~chan'.exists => chan' = NoChannel /\ up'.phase = "idle" BY <2>1 DEF Quiet
      <2>3. chan'.window \subseteq 1..sent' BY <1>3, <2>1 DEF Quiet
      <2>4. chan'.subs \subseteq Sockets
            <3>1. Typed' BY TypesKept
            <3>2. QED BY <3>1 DEF Typed, Channel
      <2>5. ASSUME NEW s \in chan'.subs PROVE sock'[s] # "unused"
            <3>1. sock[s] # "unused" BY <1>3, <2>1 DEF Quiet
            <3>2. s \in Sockets BY <2>4
            <3>3. QED BY <2>1, <3>1, <3>2 DEF Quiet
      <2>6. QED BY <2>2, <2>3, <2>5
<1>6. CASE EventArrives
      <2>1. /\ sock' = sock /\ sent' = sent + 1 /\ chan.exists
            /\ chan'.exists = chan.exists /\ chan'.subs = chan.subs
            /\ chan'.window \subseteq chan.window \cup {sent'}
            BY <1>1, <1>6, ArrivalFits
      <2>2. QED BY <1>3, <2>1
<1>7. CASE Cleanup
      <2>1. chan' = NoChannel /\ up' = Closed(up) BY <1>1, <1>7, CleanupFits
      <2>2. up'.phase = "idle" BY <1>1, <2>1 DEF Closed, Typed, Transport
      <2>3. QED BY <2>1, <2>2 DEF NoChannel
<1>8. ASSUME NEW s \in Sockets, ReleaseSocket(s)
      PROVE  /\ ~chan'.exists => chan' = NoChannel /\ up'.phase = "idle"
             /\ chan'.window \subseteq 1..sent'
             /\ \A x \in chan'.subs : sock'[x] # "unused"
      <2>1. /\ sent' = sent /\ sock' = [sock EXCEPT ![s] = "closed"]
            /\ up.phase = "idle" => up' = up
            /\ chan' = [chan EXCEPT !.subs = @ \ {s}]
            BY <1>1, <1>8, ReleaseFits
      <2>2. /\ chan'.exists = chan.exists /\ chan'.window = chan.window
            /\ chan'.subs = chan.subs \ {s}
            BY <1>1, <2>1 DEF Typed, Channel
      <2>3. ~chan.exists => chan' = NoChannel
            <3>1. NoChannel.subs = {} BY DEF NoChannel
            <3>2. [NoChannel EXCEPT !.subs = @ \ {s}] = NoChannel BY DEF NoChannel
            <3>3. QED BY <1>3, <2>1, <3>2
      <2>4. \A x \in chan'.subs : sock'[x] # "unused" BY <1>1, <1>3, <2>1, <2>2 DEF Typed
      <2>5. QED BY <1>3, <2>1, <2>2, <2>3, <2>4
<1>9. ASSUME NEW s \in Sockets, NEW r \in Requests, Reconnect(s, r)
      PROVE  /\ ~chan'.exists => chan' = NoChannel /\ up'.phase = "idle"
             /\ chan'.window \subseteq 1..sent'
             /\ \A x \in chan'.subs : sock'[x] # "unused"
      <2>1. txn[s] # r /\ sock[s] = "open" BY <1>1, <1>9, NewRequest
      <2>2. sock' = sock /\ sent' = sent BY <1>1, <1>9, <2>1, ReconnectTypes
      <2>3. \/ chan.exists /\ chan' = [chan EXCEPT !.subs = @ \cup {s}]
            \/ ~chan.exists /\ chan' = EnsureChannel
            BY <1>1, <1>9, <2>1, ReconnectFits DEF ChannelFits
      <2>4. CASE chan.exists
            <3>1. /\ chan'.exists = chan.exists /\ chan'.window = chan.window
                  /\ chan'.subs = chan.subs \cup {s}
                  BY <1>1, <2>3, <2>4 DEF Typed, Channel
            <3>2. QED BY <1>3, <2>1, <2>2, <2>4, <3>1
      <2>5. CASE ~chan.exists
            BY <2>3, <2>5 DEF EnsureChannel, NoChannel
      <2>6. QED BY <2>4, <2>5
<1>10. ASSUME NEW r \in Requests, Provisioned(r)
       PROVE  /\ ~chan'.exists => chan' = NoChannel /\ up'.phase = "idle"
              /\ chan'.window \subseteq 1..sent'
              /\ \A x \in chan'.subs : sock'[x] # "unused"
      <2>1. PICK s : s = req[r].socket OBVIOUS
      <2>2. /\ sock' = sock /\ sent' = sent /\ req[r].stage = "provisioning"
            /\ chan' = [chan EXCEPT !.subs = @ \cup {s}]
            BY <1>1, <1>10, <2>1, ProvisionedFits
      <2>3. sock[s] # "unused" /\ chan.exists
            BY <1>1, <2>1, <2>2 DEF RequestsFit, Started, Pending
      <2>4. /\ chan'.exists = chan.exists /\ chan'.window = chan.window
            /\ chan'.subs = chan.subs \cup {s}
            BY <1>1, <2>2 DEF Typed, Channel
      <2>5. QED BY <1>3, <2>2, <2>3, <2>4
<1>11. ASSUME NEW r \in Requests, Read(r) \/ Answered(r) \/ Rejected(r)
       PROVE  /\ ~chan'.exists => chan' = NoChannel /\ up'.phase = "idle"
              /\ chan'.window \subseteq 1..sent'
              /\ \A x \in chan'.subs : sock'[x] # "unused"
      <2>1. PICK s : s = req[r].socket OBVIOUS
      <2>2. chan' = chan /\ sent' = sent /\ sock' = sock /\ chan.exists
            BY <1>1, <1>11, <2>1, ReadFits, AnsweredFits, RejectedFits
      <2>3. QED BY <1>3, <2>2
<1>12. QED BY <1>5, <1>6, <1>7, <1>8, <1>9, <1>10, <1>11, NextSteps DEF LoudStep

LEMMA RequestsKept ==
    ASSUME IInv, [Next]_vars
    PROVE  RequestsFit'
<1>1. Typed /\ ChannelFits /\ RequestsFit /\ TransactionsFit
      BY DEF IInv, Subscribed
<1> DEFINE Fits(r) ==
             /\ ~Started(r) => req[r].socket = NoSocket
             /\ Started(r) => req[r].socket \in Sockets /\ sock[req[r].socket] # "unused"
             /\ Started(r) => \A p \in 1..(r - 1) : Started(p)
             /\ req[r].stage = "provisioning" =>
                   req[r].provisioned /\ req[r].read = 0 /\ req[r].buffer = {}
             /\ Pending(r) => chan.exists
<1>2. \A r \in Requests : Fits(r) BY <1>1 DEF RequestsFit
<1>3. SUFFICES \A r \in Requests : Fits(r)' BY DEF RequestsFit
<1>4. \A r \in Requests : \A p \in 1..(r - 1) : p \in Requests
      BY BoundsAssumption DEF Requests
<1>5. CASE QuietStep
      <2>1. Quiet BY <1>1, <1>5, QuietStepsFit
      <2>2. /\ req' = req /\ (chan.exists => chan'.exists)
            /\ \A s \in Sockets : sock[s] # "unused" => sock'[s] # "unused"
            BY <2>1 DEF Quiet
      <2>3. QED BY <1>2, <2>2 DEF Started, Pending
<1>6. CASE EventArrives
      <2>1. /\ sock' = sock /\ chan.exists /\ chan'.exists = chan.exists
            /\ \A r \in Requests :
                  /\ req'[r].stage = req[r].stage /\ req'[r].socket = req[r].socket
                  /\ req'[r].provisioned = req[r].provisioned /\ req'[r].read = req[r].read
                  /\ req'[r].buffer = IF \E s \in chan.subs : txn[s] = r
                                      THEN req[r].buffer \cup {sent'} ELSE req[r].buffer
            BY <1>1, <1>6, ArrivalFits
      <2>2. ASSUME NEW r \in Requests, req[r].stage = "provisioning", NEW s \in chan.subs,
                   txn[s] = r
            PROVE  FALSE
            <3>1. s \in Sockets /\ txn[s] # 0 BY <1>1, <2>2 DEF Typed, Channel, Requests
            <3>2. QED BY <1>1, <2>2, <3>1 DEF TransactionsFit
      <2>3. \A r \in Requests : req[r].stage = "provisioning" => req'[r].buffer = req[r].buffer
            BY <2>1, <2>2
      <2>4. /\ sock' = sock /\ (chan.exists => chan'.exists)
            /\ \A r \in Requests :
                  /\ req'[r].stage = req[r].stage /\ req'[r].socket = req[r].socket
                  /\ req'[r].provisioned = req[r].provisioned /\ req'[r].read = req[r].read
            BY <2>1
      <2>5. ASSUME NEW r \in Requests PROVE Fits(r)'
            <3>1. Fits(r) BY <1>2
            <3>2. Started(r)' => \A p \in 1..(r - 1) : Started(p)'
                  BY <1>4, <2>4, <3>1 DEF Started
            <3>3. QED BY <2>3, <2>4, <3>1, <3>2 DEF Started, Pending
      <2>6. QED BY <2>5
<1>7. CASE Cleanup
      <2>1. /\ sock' = sock
            /\ \A r \in Requests :
                  IF req[r].stage = "waiting"
                  THEN /\ req'[r].stage = "lost" /\ req'[r].socket = req[r].socket
                       /\ req'[r].provisioned = req[r].provisioned
                  ELSE req'[r] = req[r] /\ req[r].stage # "provisioning"
            BY <1>1, <1>7, CleanupFits
      <2>2. QED BY <1>2, <1>4, <2>1 DEF Started, Pending
<1>8. ASSUME NEW s \in Sockets, ReleaseSocket(s) PROVE \A r \in Requests : Fits(r)'
      <2>1. /\ sock' = [sock EXCEPT ![s] = "closed"]
            /\ chan' = [chan EXCEPT !.subs = @ \ {s}]
            /\ \A r \in Requests :
                  IF r = txn[s] \/ (req[r].stage = "waiting" /\ req[r].socket = s)
                  THEN /\ req'[r].stage = "silent" /\ req'[r].socket = req[r].socket
                       /\ req'[r].provisioned = req[r].provisioned
                  ELSE req'[r] = req[r]
            BY <1>1, <1>8, ReleaseFits
      <2>2. chan'.exists = chan.exists BY <1>1, <2>1 DEF Typed, Channel
      <2>3. \A x \in Sockets : sock[x] # "unused" => sock'[x] # "unused"
            BY <1>1, <2>1 DEF Typed
      <2>4. \A r \in Requests : r = txn[s] => Started(r)
            <3>1. 0 \notin Requests BY DEF Requests
            <3>2. QED BY <1>1, <3>1 DEF TransactionsFit, Started
      <2>5. QED BY <1>2, <1>4, <2>1, <2>2, <2>3, <2>4 DEF Started, Pending
<1>9. ASSUME NEW s \in Sockets, NEW q \in Requests, Reconnect(s, q)
       PROVE  \A r \in Requests : Fits(r)'
      <2>1. txn[s] # q /\ req[q].stage = "none" /\ sock[s] = "open" BY <1>1, <1>9, NewRequest
      <2>2. sock' = sock BY <1>1, <1>9, <2>1, ReconnectTypes
      <2>3. \A p \in 1..(q - 1) : Started(p) BY <1>9 DEF Reconnect, Started
      <2>4. /\ \A p \in Requests : p # q =>
                  req'[p] = IF p = txn[s] THEN Ending(req[p], "silent") ELSE req[p]
            /\ req'[q].socket = s /\ chan'.exists
            /\ req'[q].stage # "none"
            /\ req'[q].stage = "provisioning" =>
                  req'[q].provisioned /\ req'[q].read = 0 /\ req'[q].buffer = {}
            <3>1. \A p \in Requests : p # q =>
                     req'[p] = IF p = txn[s] THEN Ending(req[p], "silent") ELSE req[p]
                  BY <1>1, <1>9, <2>1, ReconnectRequests
            <3>2. /\ req'[q].socket = s
                  /\ \/ /\ chan.exists /\ chan' = [chan EXCEPT !.subs = @ \cup {s}]
                        /\ Prepared(s, q, Known(s))
                     \/ /\ ~chan.exists /\ chan' = EnsureChannel
                        /\ req'[q].stage = "provisioning" /\ req'[q].provisioned
                        /\ req'[q].buffer = {} /\ req'[q].read = 0
                  <4>1. Connected(up) BY <1>1 DEF ChannelFits
                  <4>2. req'[q].socket = s BY <1>1, <1>9, <2>1, <4>1, ReconnectFits
                  <4>3. \/ /\ chan.exists /\ chan' = [chan EXCEPT !.subs = @ \cup {s}]
                           /\ req'[q].provisioned = FALSE /\ Prepared(s, q, Known(s))
                           /\ up.purpose = "run" => up' = up
                        \/ /\ ~chan.exists /\ chan' = EnsureChannel
                           /\ req'[q].stage = "provisioning" /\ req'[q].provisioned
                           /\ req'[q].buffer = {} /\ req'[q].read = 0
                           /\ txn' = [txn EXCEPT ![s] = 0] /\ seen' = seen /\ current' = current
                        BY <1>1, <1>9, <2>1, <4>1, ReconnectFits
                  <4>4. QED BY <4>2, <4>3
            <3>3. CASE chan.exists
                  <4>1. chan'.exists BY <1>1, <3>2, <3>3 DEF Typed, Channel
                  <4>2. req'[q].stage \in {"waiting", "failed", "done"}
                        BY <3>2, <3>3 DEF Prepared
                  <4>3. QED BY <3>1, <3>2, <4>1, <4>2
            <3>4. CASE ~chan.exists
                  <4>1. chan'.exists BY <3>2, <3>4 DEF EnsureChannel, NoChannel
                  <4>2. QED BY <3>1, <3>2, <3>4, <4>1
            <3>5. QED BY <3>3, <3>4
      <2>5. \A p \in Requests : p = txn[s] => Started(p)
            <3>1. 0 \notin Requests BY DEF Requests
            <3>2. QED BY <1>1, <3>1 DEF TransactionsFit, Started
      <2>6. \A p \in Requests : p # q =>
               /\ req'[p] = req[p] \/ (p = txn[s] /\ req'[p].stage = "silent")
               /\ req'[p].socket = req[p].socket
            <3>1. \A p \in Requests : /\ Ending(req[p], "silent").stage = "silent"
                                      /\ Ending(req[p], "silent").socket = req[p].socket
                  BY <1>1, EndingFits DEF Typed, Stages
            <3>2. QED BY <2>4, <3>1
      <2>7. \A p \in Requests : Started(p) => req'[p].stage # "none"
            BY <2>1, <2>6 DEF Started
      <2>8. ASSUME NEW r \in Requests PROVE Fits(r)'
            <3>1. CASE r = q
                  <4>1. \A p \in 1..(r - 1) : req'[p].stage # "none"
                        BY <1>4, <2>3, <2>7, <3>1
                  <4>2. QED BY <2>1, <2>2, <2>4, <3>1, <4>1 DEF Started, Pending
            <3>2. CASE r # q
                  <4>1. Started(r)' => Started(r) BY <2>5, <2>6, <3>2 DEF Started
                  <4>2. Started(r)' => \A p \in 1..(r - 1) : req'[p].stage # "none"
                        BY <1>2, <1>4, <2>7, <4>1
                  <4>3. ~Started(r)' => ~Started(r) BY <2>7 DEF Started
                  <4>4. Fits(r) /\ req'[r].socket = req[r].socket BY <1>2, <2>6, <3>2
                  <4>5. req'[r] = req[r] \/ req'[r].stage = "silent" BY <2>6, <3>2
                  <4>6. QED BY <2>2, <2>4, <4>1, <4>2, <4>3, <4>4, <4>5 DEF Started, Pending
            <3>3. QED BY <3>1, <3>2
      <2>9. QED BY <2>8
<1>10. ASSUME NEW q \in Requests, Provisioned(q) PROVE \A r \in Requests : Fits(r)'
      <2>1. PICK s : s = req[q].socket OBVIOUS
      <2>2. /\ sock' = sock /\ req[q].stage = "provisioning"
            /\ chan' = [chan EXCEPT !.subs = @ \cup {s}]
            /\ \A p \in Requests : p # q => req'[p] = req[p]
            /\ req'[q].socket = s /\ Prepared(s, q, req[q].known)
            BY <1>1, <1>10, <2>1, ProvisionedFits
      <2>3. req'[q].stage \in {"waiting", "failed", "done"} BY <2>2 DEF Prepared
      <2>4. chan'.exists = chan.exists BY <1>1, <2>2 DEF Typed, Channel
      <2>5. QED BY <1>2, <1>4, <2>1, <2>2, <2>3, <2>4 DEF Started, Pending
<1>11. ASSUME NEW q \in Requests, Read(q) \/ Answered(q) \/ Rejected(q)
       PROVE  \A r \in Requests : Fits(r)'
      <2>1. PICK s : s = req[q].socket OBVIOUS
      <2>2. /\ chan' = chan /\ sock' = sock /\ req[q].stage = "waiting"
            /\ \A p \in Requests : p # q => req'[p] = req[p]
            /\ req'[q].socket = req[q].socket
            /\ req'[q].stage \in {"waiting", "silent", "failed", "done"}
            BY <1>1, <1>11, <2>1, ReadFits, AnsweredFits, RejectedFits
      <2>3. QED BY <1>2, <1>4, <2>2 DEF Started, Pending
<1>12. QED BY <1>5, <1>6, <1>7, <1>8, <1>9, <1>10, <1>11, NextSteps DEF LoudStep

\* A reconnect that was used keeps its socket, and that it provisioned the channel.
LEMMA RequestsPersist ==
    ASSUME IInv, [Next]_vars, NEW p \in Requests, Started(p)
    PROVE  /\ Started(p)' /\ req'[p].socket = req[p].socket
           /\ req'[p].provisioned = req[p].provisioned
<1>1. Typed /\ ChannelFits /\ RequestsFit /\ TransactionsFit
      BY DEF IInv, Subscribed
<1>2. CASE QuietStep
      <2>1. req' = req BY <1>1, <1>2, QuietStepsFit DEF Quiet
      <2>2. QED BY <2>1 DEF Started
<1>3. CASE EventArrives BY <1>1, <1>3, ArrivalFits DEF Started
<1>4. CASE Cleanup
      <2>1. \/ req'[p] = req[p]
            \/ /\ req'[p].stage = "lost" /\ req'[p].socket = req[p].socket
               /\ req'[p].provisioned = req[p].provisioned
            BY <1>1, <1>4, CleanupFits
      <2>2. QED BY <2>1 DEF Started
<1>5. ASSUME NEW s \in Sockets, ReleaseSocket(s)
      PROVE  /\ Started(p)' /\ req'[p].socket = req[p].socket
             /\ req'[p].provisioned = req[p].provisioned
      <2>1. \/ req'[p] = req[p]
            \/ /\ req'[p].stage = "silent" /\ req'[p].socket = req[p].socket
               /\ req'[p].provisioned = req[p].provisioned
            BY <1>1, <1>5, ReleaseFits
      <2>2. QED BY <2>1 DEF Started
<1>6. ASSUME NEW s \in Sockets, NEW r \in Requests, Reconnect(s, r)
      PROVE  /\ Started(p)' /\ req'[p].socket = req[p].socket
             /\ req'[p].provisioned = req[p].provisioned
      <2>1. txn[s] # r /\ req[r].stage = "none" BY <1>1, <1>6, NewRequest
      <2>2. p # r BY <2>1 DEF Started
      <2>3. req'[p] = IF p = txn[s] THEN Ending(req[p], "silent") ELSE req[p]
            <3>1. \A q \in Requests : q # r =>
                     req'[q] = IF q = txn[s] THEN Ending(req[q], "silent") ELSE req[q]
                  BY <1>1, <1>6, <2>1, ReconnectRequests
            <3>2. QED BY <2>2, <3>1
      <2>4. /\ Ending(req[p], "silent").stage = "silent"
            /\ Ending(req[p], "silent").socket = req[p].socket
            /\ Ending(req[p], "silent").provisioned = req[p].provisioned
            BY <1>1, EndingFits DEF Typed, Stages
      <2>5. QED BY <2>3, <2>4 DEF Started
<1>7. ASSUME NEW r \in Requests, Provisioned(r)
      PROVE  /\ Started(p)' /\ req'[p].socket = req[p].socket
             /\ req'[p].provisioned = req[p].provisioned
      <2>1. PICK s : s = req[r].socket OBVIOUS
      <2>2. /\ \A q \in Requests : q # r => req'[q] = req[q]
            /\ req'[r].socket = s /\ req[r].provisioned /\ req'[r].provisioned
            /\ Prepared(s, r, req[r].known)
            BY <1>1, <1>7, <2>1, ProvisionedFits
      <2>3. req'[r].stage # "none" BY <2>2 DEF Prepared
      <2>4. req[r] \in Request /\ Typed' BY <1>1, TypesKept DEF Typed
      <2>5. req'[r].provisioned = req[r].provisioned
            <3>1. req'[r] \in Request BY <2>4 DEF Typed
            <3>2. req'[r].provisioned \in BOOLEAN /\ req[r].provisioned \in BOOLEAN
                  BY <2>4, <3>1 DEF Request
            <3>3. QED BY <2>2, <3>2
      <2>6. QED BY <2>1, <2>2, <2>3, <2>5 DEF Started
<1>8. ASSUME NEW r \in Requests, Read(r) \/ Answered(r) \/ Rejected(r)
      PROVE  /\ Started(p)' /\ req'[p].socket = req[p].socket
             /\ req'[p].provisioned = req[p].provisioned
      <2>1. PICK s : s = req[r].socket OBVIOUS
      <2>2. /\ \A q \in Requests : q # r => req'[q] = req[q]
            /\ req'[r].socket = req[r].socket /\ req'[r].provisioned = req[r].provisioned
            /\ req'[r].stage \in {"waiting", "silent", "failed", "done"}
            BY <1>1, <1>8, <2>1, ReadFits, AnsweredFits, RejectedFits
      <2>3. QED BY <2>2 DEF Started
<1>9. QED BY <1>2, <1>3, <1>4, <1>5, <1>6, <1>7, <1>8, NextSteps DEF LoudStep

\* The reconnects of a socket were used.
LEMMA OfSocket ==
    ASSUME IInv, NEW p \in Requests, req[p].socket \in Sockets
    PROVE  Started(p)
BY SocketsAssumption DEF IInv, RequestsFit

LEMMA ReplacedKept ==
    ASSUME IInv, [Next]_vars, NEW r \in Requests, Started(r), Replaced(r)
    PROVE  Replaced(r)'
<1>1. PICK p \in Requests : /\ p # r /\ req[p].socket = req[r].socket
                            /\ req[p].provisioned
      BY DEF Replaced
<1>2. req[r].socket \in Sockets BY DEF IInv, RequestsFit
<1>3. Started(p) BY <1>1, <1>2, OfSocket
<1>4. /\ req'[p].socket = req[p].socket /\ req'[p].provisioned = req[p].provisioned
      /\ req'[r].socket = req[r].socket
      BY <1>3, RequestsPersist
<1>5. QED BY <1>1, <1>4 DEF Replaced

LEMMA TransactionsKept ==
    ASSUME IInv, [Next]_vars
    PROVE  TransactionsFit'
<1> DEFINE Owned(s) == txn[s] # 0 => /\ req[txn[s]].socket = s
                                     /\ req[txn[s]].stage \in {"waiting", "lost"}
           Waits(r) == req[r].stage = "waiting" =>
                           IF txn[req[r].socket] = r THEN req[r].socket \in chan.subs
                           ELSE Replaced(r)
<1>1. Typed /\ ChannelFits /\ RequestsFit /\ TransactionsFit
      BY DEF IInv, Subscribed
<1>2. /\ \A s \in Sockets : Owned(s)
      /\ \A r \in Requests : Waits(r)
      BY <1>1 DEF TransactionsFit
<1>3. SUFFICES (\A s \in Sockets : Owned(s)') /\ (\A r \in Requests : Waits(r)')
      BY DEF TransactionsFit
<1>4. \A s \in Sockets : txn[s] # 0 => txn[s] \in Requests BY <1>1 DEF Typed
<1>5. \A r \in Requests : req[r].stage = "waiting" => req[r].socket \in Sockets /\ Started(r)
      BY <1>1 DEF RequestsFit, Started
<1>6. \A r \in Requests : req[r].stage = "waiting" /\ Replaced(r) => Replaced(r)'
      BY <1>5, ReplacedKept
<1> HIDE DEF Owned, Waits
\* A step that changes one reconnect of a socket.
<1>7. ASSUME NEW q \in Requests, NEW s \in Sockets, req'[q].socket = s,
             \A p \in Requests : p # q =>
                 req'[p] = req[p] \/ (p = txn[s] /\ req'[p].stage = "silent"),
             chan.subs \subseteq chan'.subs,
             ~\E x \in Sockets : x # s /\ txn[x] = q,
             \A r \in Requests :
                 r # q /\ req'[r].stage = "waiting" /\ req[r].socket = s /\ txn'[s] # r
                     => Replaced(r)',
             \/ txn' = txn /\ txn[s] # q
             \/ txn' = [txn EXCEPT ![s] = 0]
             \/ txn' = [txn EXCEPT ![s] = q] /\ req'[q].stage = "waiting",
             txn' = txn => \A p \in Requests : p # q => req'[p] = req[p],
             req'[q].stage = "waiting" =>
                IF txn'[s] = q THEN s \in chan'.subs ELSE Replaced(q)'
      PROVE  (\A x \in Sockets : Owned(x)') /\ (\A r \in Requests : Waits(r)')
      <2>1. /\ \A x \in Sockets : x # s => txn'[x] = txn[x]
            /\ txn'[s] \in {0, q} \/ (txn'[s] = txn[s] /\ txn' = txn)
            BY <1>1, <1>7 DEF Typed
      <2>2. ASSUME NEW x \in Sockets, x # s PROVE Owned(x)'
            <3>1. SUFFICES ASSUME txn[x] # 0
                           PROVE  /\ req'[txn[x]].socket = x
                                  /\ req'[txn[x]].stage \in {"waiting", "lost"}
                  BY <2>1, <2>2 DEF Owned
            <3>2. PICK p \in Requests : p = txn[x] BY <1>4, <3>1
            <3>3. req[p].socket = x /\ req[p].stage \in {"waiting", "lost"}
                  BY <1>2, <3>1, <3>2 DEF Owned
            <3>4. p # q BY <1>7, <2>2, <3>2
            <3>5. p # txn[s] BY <1>2, <1>4, <2>2, <3>1, <3>2, <3>3 DEF Owned
            <3>6. req'[p] = req[p] BY <1>7, <3>4, <3>5
            <3>7. QED BY <3>2, <3>3, <3>6
      <2>3. Owned(s)'
            <3>1. CASE txn'[s] = 0 BY <3>1 DEF Owned
            <3>2. CASE txn'[s] = q /\ req'[q].stage = "waiting" BY <1>7, <3>2 DEF Owned
            <3>3. CASE txn' = txn /\ txn[s] # q /\ txn[s] # 0
                  <4>1. PICK p \in Requests : p = txn[s] BY <1>4, <3>3
                  <4>2. req'[p] = req[p] BY <1>7, <3>3, <4>1
                  <4>3. req[p].socket = s /\ req[p].stage \in {"waiting", "lost"}
                        BY <1>2, <3>3, <4>1 DEF Owned
                  <4>4. QED BY <3>3, <4>1, <4>2, <4>3 DEF Owned
            <3>4. QED BY <1>1, <1>7, <3>1, <3>2, <3>3 DEF Typed
      <2>4. ASSUME NEW r \in Requests, r # q, req'[r].stage = "waiting" PROVE Waits(r)'
            <3>1. req'[r] = req[r] BY <1>7, <2>4
            <3>2. CASE req[r].socket = s
                  <4>1. txn'[s] = r => s \in chan'.subs
                        <5>1. SUFFICES ASSUME txn'[s] = r PROVE s \in chan'.subs OBVIOUS
                        <5>2. r # 0 BY DEF Requests
                        <5>3. txn[s] = r BY <2>1, <2>4, <5>1, <5>2
                        <5>4. QED BY <1>2, <1>7, <2>4, <3>1, <3>2, <5>3 DEF Waits
                  <4>2. txn'[s] # r => Replaced(r)' BY <1>7, <2>4, <3>2
                  <4>3. QED BY <3>1, <3>2, <4>1, <4>2 DEF Waits
            <3>3. CASE req[r].socket # s
                  <4>1. req[r].socket \in Sockets BY <1>5, <2>4, <3>1
                  <4>2. txn'[req[r].socket] = txn[req[r].socket] BY <2>1, <3>3, <4>1
                  <4>3. CASE txn[req[r].socket] = r
                        <5>1. req[r].socket \in chan'.subs
                              BY <1>2, <1>7, <2>4, <3>1, <4>3 DEF Waits
                        <5>2. QED BY <3>1, <4>2, <4>3, <5>1 DEF Waits
                  <4>4. CASE txn[req[r].socket] # r
                        <5>1. Replaced(r)' BY <1>2, <1>6, <2>4, <3>1, <4>4 DEF Waits
                        <5>2. QED BY <3>1, <4>2, <4>4, <5>1 DEF Waits
                  <4>5. QED BY <4>3, <4>4
            <3>4. QED BY <3>2, <3>3
      <2>5. Waits(q)' BY <1>7 DEF Waits
      <2>6. \A r \in Requests : Waits(r)' BY <2>4, <2>5 DEF Waits
      <2>7. QED BY <2>2, <2>3, <2>6
<1>8. CASE QuietStep
      <2>1. req' = req /\ txn' = txn /\ chan.subs \subseteq chan'.subs
            BY <1>1, <1>8, QuietStepsFit DEF Quiet
      <2>2. \A r \in Requests : Replaced(r)' = Replaced(r) BY <2>1 DEF Replaced
      <2>3. QED BY <1>2, <2>1, <2>2 DEF Owned, Waits
<1>9. CASE EventArrives
      <2>1. /\ txn' = txn /\ chan'.subs = chan.subs
            /\ \A r \in Requests : req'[r].stage = req[r].stage /\ req'[r].socket = req[r].socket
            BY <1>1, <1>9, ArrivalFits
      <2>2. \A r \in Requests : Waits(r)' BY <1>2, <1>6, <2>1 DEF Waits
      <2>3. \A s \in Sockets : Owned(s)' BY <1>2, <1>4, <2>1 DEF Owned
      <2>4. QED BY <2>2, <2>3
<1>10. CASE Cleanup
      <2>1. /\ txn' = txn
            /\ \A r \in Requests :
                 IF req[r].stage = "waiting"
                 THEN req'[r].stage = "lost" /\ req'[r].socket = req[r].socket
                 ELSE req'[r] = req[r]
            BY <1>1, <1>10, CleanupFits
      <2>2. \A r \in Requests : Waits(r)' BY <2>1 DEF Waits
      <2>3. \A s \in Sockets : Owned(s)' BY <1>2, <1>4, <2>1 DEF Owned
      <2>4. QED BY <2>2, <2>3
<1>11. ASSUME NEW s \in Sockets, ReleaseSocket(s)
       PROVE  (\A x \in Sockets : Owned(x)') /\ (\A r \in Requests : Waits(r)')
      <2>1. /\ txn' = [txn EXCEPT ![s] = 0] /\ chan' = [chan EXCEPT !.subs = @ \ {s}]
            /\ \A r \in Requests :
                  IF r = txn[s] \/ (req[r].stage = "waiting" /\ req[r].socket = s)
                  THEN req'[r].stage = "silent"
                  ELSE req'[r] = req[r]
            BY <1>1, <1>11, ReleaseFits
      <2>2. /\ \A x \in Sockets : x # s => txn'[x] = txn[x]
            /\ txn'[s] = 0 /\ chan'.subs = chan.subs \ {s}
            BY <1>1, <2>1 DEF Typed, Channel
      <2>3. ASSUME NEW x \in Sockets, x # s, txn[x] # 0 PROVE Owned(x)'
            <3>1. PICK p \in Requests : p = txn[x] BY <1>4, <2>3
            <3>2. req[p].socket = x /\ req[p].stage \in {"waiting", "lost"}
                  BY <1>2, <2>3, <3>1 DEF Owned
            <3>3. p # txn[s] BY <1>2, <1>4, <2>3, <3>1, <3>2 DEF Owned
            <3>4. req'[p] = req[p] BY <2>1, <2>3, <3>2, <3>3
            <3>5. QED BY <2>2, <2>3, <3>1, <3>2, <3>4 DEF Owned
      <2>4. ASSUME NEW r \in Requests, req'[r].stage = "waiting" PROVE Waits(r)'
            <3>1. req'[r] = req[r] /\ req[r].socket # s BY <2>1, <2>4
            <3>2. req[r].socket \in Sockets BY <1>5, <2>4, <3>1
            <3>3. txn'[req[r].socket] = txn[req[r].socket] BY <2>2, <3>1, <3>2
            <3>4. CASE txn[req[r].socket] = r
                  <4>1. req[r].socket \in chan'.subs BY <1>2, <2>2, <2>4, <3>1, <3>4 DEF Waits
                  <4>2. QED BY <3>1, <3>3, <3>4, <4>1 DEF Waits
            <3>5. CASE txn[req[r].socket] # r
                  <4>1. Replaced(r)' BY <1>2, <1>6, <2>4, <3>1, <3>5 DEF Waits
                  <4>2. QED BY <3>1, <3>3, <3>5, <4>1 DEF Waits
            <3>6. QED BY <3>4, <3>5
      <2>5. \A x \in Sockets : Owned(x)' BY <2>2, <2>3 DEF Owned
      <2>6. \A r \in Requests : Waits(r)' BY <2>4 DEF Waits
      <2>7. QED BY <2>5, <2>6
<1>12. ASSUME NEW s \in Sockets, NEW q \in Requests, Reconnect(s, q)
       PROVE  (\A x \in Sockets : Owned(x)') /\ (\A r \in Requests : Waits(r)')
      <2>1. txn[s] # q /\ req[q].stage = "none" BY <1>1, <1>12, NewRequest
      <2>2. /\ \A p \in Requests : p # q =>
                  req'[p] = IF p = txn[s] THEN Ending(req[p], "silent") ELSE req[p]
            /\ req'[q].socket = s
            BY <1>1, <1>12, <2>1, ReconnectFits DEF ChannelFits
      <2>3. \A p \in Requests : Ending(req[p], "silent").stage = "silent"
            BY <1>1, EndingFits DEF Typed, Stages
      <2>4. \A p \in Requests : p # q =>
               req'[p] = req[p] \/ (p = txn[s] /\ req'[p].stage = "silent")
            BY <2>2, <2>3
      <2>5. /\ chan.subs \subseteq chan'.subs
            /\ \/ txn' = [txn EXCEPT ![s] = 0] /\ req'[q].stage # "waiting"
               \/ txn' = [txn EXCEPT ![s] = q] /\ req'[q].stage = "waiting" /\ s \in chan'.subs
            <3>1. CASE chan.exists
                  <4>1. chan' = [chan EXCEPT !.subs = @ \cup {s}] /\ Prepared(s, q, Known(s))
                        BY <1>1, <1>12, <2>1, <3>1, ReconnectFits DEF ChannelFits
                  <4>2. chan'.subs = chan.subs \cup {s} BY <1>1, <4>1 DEF Typed, Channel
                  <4>3. QED BY <4>1, <4>2 DEF Prepared
            <3>2. CASE ~chan.exists
                  <4>1. chan = NoChannel BY <1>1, <3>2 DEF ChannelFits
                  <4>2. txn' = [txn EXCEPT ![s] = 0] /\ req'[q].stage = "provisioning"
                        BY <1>1, <1>12, <2>1, <3>2, ReconnectFits DEF ChannelFits
                  <4>3. QED BY <4>1, <4>2 DEF NoChannel
            <3>3. QED BY <3>1, <3>2
      <2>6. ~\E x \in Sockets : x # s /\ txn[x] = q
            <3>1. q # 0 BY DEF Requests
            <3>2. QED BY <1>2, <2>1, <3>1 DEF Owned
      <2>7. ASSUME NEW r \in Requests, r # q, req'[r].stage = "waiting", req[r].socket = s
            PROVE  Replaced(r)'
            <3>1. req'[r] = req[r] /\ r # txn[s] BY <2>2, <2>3, <2>7
            <3>2. QED BY <1>2, <1>6, <2>7, <3>1 DEF Waits
      <2>8. txn' # txn \/ txn[s] = 0 \/ ~\E p \in Requests : p = txn[s]
            BY <1>1, <2>1, <2>5 DEF Typed
      <2>9. txn' = txn => \A p \in Requests : p # q => req'[p] = req[p]
            <3>1. 0 \notin Requests BY DEF Requests
            <3>2. QED BY <2>2, <2>8, <3>1
      <2>10. txn'[s] \in {0, q} BY <1>1, <2>5 DEF Typed
      <2>11. req'[q].stage = "waiting" =>
                IF txn'[s] = q THEN s \in chan'.subs ELSE Replaced(q)'
             BY <1>1, <2>5 DEF Typed
      <2>12. \/ txn' = [txn EXCEPT ![s] = 0]
             \/ txn' = [txn EXCEPT ![s] = q] /\ req'[q].stage = "waiting"
             BY <2>5
      <2>13. chan.subs \subseteq chan'.subs BY <2>5
      <2>14. req'[q].socket = s BY <2>2
      <2>15. QED BY <1>7, <2>4, <2>6, <2>7, <2>9, <2>11, <2>12, <2>13, <2>14
<1>13. ASSUME NEW q \in Requests, Provisioned(q)
       PROVE  (\A x \in Sockets : Owned(x)') /\ (\A r \in Requests : Waits(r)')
      <2>1. PICK s : s = req[q].socket OBVIOUS
      <2>2. /\ s \in Sockets /\ req[q].stage = "provisioning"
            /\ chan' = [chan EXCEPT !.subs = @ \cup {s}]
            /\ \A p \in Requests : p # q => req'[p] = req[p]
            /\ req'[q].socket = s /\ req'[q].provisioned
            /\ Prepared(s, q, req[q].known)
            BY <1>1, <1>13, <2>1, ProvisionedFits
      <2>3. chan'.subs = chan.subs \cup {s} BY <1>1, <2>2 DEF Typed, Channel
      <2>4. \/ txn' = [txn EXCEPT ![s] = 0] /\ req'[q].stage # "waiting"
            \/ txn' = [txn EXCEPT ![s] = q] /\ req'[q].stage = "waiting"
            BY <2>2 DEF Prepared
      <2>5. ~\E x \in Sockets : x # s /\ txn[x] = q
            <3>1. q # 0 BY DEF Requests
            <3>2. QED BY <1>2, <2>2, <3>1 DEF Owned
      <2>6. ASSUME NEW r \in Requests, r # q, req[r].socket = s, req'[r].stage = "waiting"
            PROVE  Replaced(r)'
            <3>1. req'[r].socket = s BY <2>2, <2>6
            <3>2. QED BY <2>2, <2>6, <3>1 DEF Replaced
      <2>7. req'[q].stage = "waiting" =>
               IF txn'[s] = q THEN s \in chan'.subs ELSE Replaced(q)'
            BY <1>1, <2>2, <2>3, <2>4 DEF Typed
      <2>8. QED BY <1>7, <2>2, <2>3, <2>4, <2>5, <2>6, <2>7
<1>14. ASSUME NEW q \in Requests, Read(q) \/ Answered(q) \/ Rejected(q)
       PROVE  (\A x \in Sockets : Owned(x)') /\ (\A r \in Requests : Waits(r)')
      <2>1. PICK s : s = req[q].socket OBVIOUS
      <2>2. /\ chan' = chan /\ req[q].stage = "waiting"
            /\ \A p \in Requests : p # q => req'[p] = req[p]
            /\ req'[q].socket = s
            /\ \/ req'[q].stage = "waiting" /\ txn' = txn
               \/ req'[q].stage \in {"silent", "failed", "done"} /\ txn[s] # q /\ txn' = txn
               \/ /\ req'[q].stage \in {"silent", "failed", "done"} /\ txn[s] = q
                  /\ txn' = [txn EXCEPT ![s] = 0]
            BY <1>1, <1>14, <2>1, ReadFits, AnsweredFits, RejectedFits
      <2>3. s \in Sockets BY <1>5, <2>1, <2>2
      <2>4. ~\E x \in Sockets : x # s /\ txn[x] = q
            <3>1. q # 0 BY DEF Requests
            <3>2. QED BY <1>2, <2>1, <3>1 DEF Owned
      <2>5. ASSUME NEW r \in Requests, r # q, req'[r].stage = "waiting", req[r].socket = s,
                   txn'[s] # r
            PROVE  Replaced(r)'
            <3>1. txn[s] # r BY <1>1, <2>2, <2>3, <2>5 DEF Typed
            <3>2. req[r].stage = "waiting" BY <2>2, <2>5
            <3>3. QED BY <1>2, <1>6, <2>5, <3>1, <3>2 DEF Waits
      <2>6. CASE req'[q].stage = "waiting" /\ txn' = txn
            <3>1. \A x \in Sockets : Owned(x)'
                  BY <1>2, <1>4, <2>1, <2>2, <2>6 DEF Owned
            <3>2. \A r \in Requests : req'[r].stage = "waiting" =>
                     req[r].stage = "waiting" /\ req'[r].socket = req[r].socket
                  BY <2>1, <2>2, <2>6
            <3>3. \A r \in Requests : Waits(r)' BY <1>2, <1>6, <2>2, <2>6, <3>2 DEF Waits
            <3>4. QED BY <3>1, <3>3
      <2>7. CASE req'[q].stage # "waiting"
            <3>1. \/ txn' = txn /\ txn[s] # q
                  \/ txn' = [txn EXCEPT ![s] = 0]
                  BY <2>2, <2>7
            <3>2. chan.subs \subseteq chan'.subs BY <2>2
            <3>3. QED BY <1>7, <2>2, <2>3, <2>4, <2>5, <2>7, <3>1, <3>2
      <2>8. QED BY <2>2, <2>6, <2>7
<1>15. QED BY <1>8, <1>9, <1>10, <1>11, <1>12, <1>13, <1>14, NextSteps DEF LoudStep

\* A reconnect that is dropped now, is so with its socket or for another one.
LEMMA SilentKept ==
    ASSUME IInv, [Next]_vars
    PROVE  SilentReplaced'
<1> DEFINE Excused(r) == \/ sock[req[r].socket] = "closed"
                         \/ \E p \in Requests : /\ p # r /\ req[p].socket = req[r].socket
                                                /\ p > r \/ req[p].provisioned
<1>1. Typed /\ ChannelFits /\ RequestsFit /\ TransactionsFit /\ SilentReplaced
      BY DEF IInv, Subscribed
<1>2. \A r \in Requests : req[r].stage = "silent" => Excused(r)
      BY <1>1 DEF SilentReplaced
<1>3. SUFFICES ASSUME NEW r \in Requests, req'[r].stage = "silent" PROVE Excused(r)'
      BY DEF SilentReplaced
<1>4. \A s \in Sockets : sock[s] = "closed" => sock'[s] = "closed"
      <2>1. CASE QuietStep BY <1>1, <2>1, QuietStepsFit DEF Quiet
      <2>2. CASE EventArrives BY <1>1, <2>2, ArrivalFits
      <2>3. CASE Cleanup BY <1>1, <2>3, CleanupFits
      <2>4. ASSUME NEW s \in Sockets, ReleaseSocket(s)
            PROVE  \A x \in Sockets : sock[x] = "closed" => sock'[x] = "closed"
            <3>1. sock' = [sock EXCEPT ![s] = "closed"] BY <1>1, <2>4, ReleaseFits
            <3>2. QED BY <1>1, <3>1 DEF Typed
      <2>5. ASSUME NEW s \in Sockets, NEW q \in Requests, Reconnect(s, q) PROVE sock' = sock
            <3>1. txn[s] # q BY <1>1, <2>5, NewRequest
            <3>2. QED BY <1>1, <2>5, <3>1, ReconnectTypes
      <2>6. ASSUME NEW q \in Requests, Provisioned(q) \/ Read(q) \/ Answered(q) \/ Rejected(q)
            PROVE  sock' = sock
            <3>1. PICK s : s = req[q].socket OBVIOUS
            <3>2. QED BY <1>1, <2>6, <3>1, ProvisionedFits, ReadFits, AnsweredFits, RejectedFits
      <2>7. QED BY <2>1, <2>2, <2>3, <2>4, <2>5, <2>6, NextSteps DEF LoudStep
\* What excuses a reconnect is kept.
<1>5. ASSUME Started(r), Excused(r) PROVE Excused(r)'
      <2>1. req[r].socket \in Sockets BY <1>1, <1>5 DEF RequestsFit
      <2>2. req'[r].socket = req[r].socket BY <1>5, RequestsPersist
      <2>3. CASE sock[req[r].socket] = "closed" BY <1>4, <2>1, <2>2, <2>3
      <2>4. ASSUME NEW p \in Requests, p # r, req[p].socket = req[r].socket,
                   p > r \/ req[p].provisioned
            PROVE  Excused(r)'
            <3>1. Started(p) BY <2>1, <2>4, OfSocket
            <3>2. req'[p].socket = req[p].socket /\ req'[p].provisioned = req[p].provisioned
                  BY <3>1, RequestsPersist
            <3>3. QED BY <2>2, <2>4, <3>2
      <2>5. QED BY <1>5, <2>3, <2>4
<1>6. req[r].stage = "silent" => Started(r) /\ Excused(r) BY <1>2 DEF Started
<1>7. Started(r) /\ Replaced(r) => Excused(r)' BY <1>5 DEF Replaced
<1>8. req'[r] = req[r] => Excused(r)'
      <2>1. req'[r] = req[r] => req[r].stage = "silent" BY <1>3
      <2>2. QED BY <1>5, <1>6, <2>1
<1>9. CASE QuietStep
      <2>1. req' = req BY <1>1, <1>9, QuietStepsFit DEF Quiet
      <2>2. QED BY <1>8, <2>1
<1>10. CASE EventArrives
      <2>1. req'[r].stage = req[r].stage BY <1>1, <1>10, ArrivalFits
      <2>2. QED BY <1>3, <1>5, <1>6, <2>1
<1>11. CASE Cleanup
      <2>1. req'[r].stage = "lost" \/ req'[r] = req[r] BY <1>1, <1>11, CleanupFits
      <2>2. QED BY <1>3, <1>8, <2>1
<1>12. ASSUME NEW s \in Sockets, ReleaseSocket(s) PROVE Excused(r)'
      <2>1. /\ sock' = [sock EXCEPT ![s] = "closed"]
            /\ \/ req'[r] = req[r]
               \/ r = txn[s] \/ (req[r].stage = "waiting" /\ req[r].socket = s)
            BY <1>1, <1>12, ReleaseFits
      <2>2. r = txn[s] => req[r].socket = s /\ Started(r)
            <3>1. r # 0 BY DEF Requests
            <3>2. QED BY <1>1, <3>1 DEF TransactionsFit, Started
      <2>3. CASE req[r].socket = s /\ Started(r)
            <3>1. req'[r].socket = s BY <2>3, RequestsPersist
            <3>2. sock'[s] = "closed" BY <1>1, <2>1 DEF Typed
            <3>3. QED BY <3>1, <3>2
      <2>4. QED BY <1>8, <2>1, <2>2, <2>3 DEF Started
<1>13. ASSUME NEW s \in Sockets, NEW q \in Requests, Reconnect(s, q) PROVE Excused(r)'
      <2>1. txn[s] # q /\ req[q].stage = "none" BY <1>1, <1>13, NewRequest
      <2>2. /\ \A p \in Requests : p # q =>
                  req'[p] = IF p = txn[s] THEN Ending(req[p], "silent") ELSE req[p]
            /\ req'[q].socket = s
            /\ \/ Prepared(s, q, Known(s))
               \/ req'[q].stage = "provisioning"
            BY <1>1, <1>13, <2>1, ReconnectFits DEF ChannelFits
      <2>3. req'[q].stage # "silent" BY <2>2 DEF Prepared
      <2>4. r # q BY <1>3, <2>3
      <2>5. req'[r] = req[r] \/ r = txn[s] BY <2>2, <2>4
      <2>6. CASE r = txn[s]
            <3>1. r # 0 BY DEF Requests
            <3>2. req[r].socket = s /\ Started(r)
                  BY <1>1, <2>6, <3>1 DEF TransactionsFit, Started
            <3>3. req'[r].socket = s BY <3>2, RequestsPersist
            <3>4. \A p \in 1..(r - 1) : Started(p) BY <1>1, <3>2 DEF RequestsFit
            <3>5. q \notin 1..(r - 1) BY <2>1, <3>4 DEF Started
            <3>6. q > r BY <2>4, <3>5, BoundsAssumption DEF Requests
            <3>7. QED BY <2>2, <2>4, <3>3, <3>6
      <2>7. QED BY <1>8, <2>5, <2>6
<1>14. ASSUME NEW q \in Requests, Provisioned(q) PROVE Excused(r)'
      <2>1. PICK s : s = req[q].socket OBVIOUS
      <2>2. /\ \A p \in Requests : p # q => req'[p] = req[p]
            /\ Prepared(s, q, req[q].known)
            BY <1>1, <1>14, <2>1, ProvisionedFits
      <2>3. req'[q].stage # "silent" BY <2>2 DEF Prepared
      <2>4. QED BY <1>3, <1>8, <2>2, <2>3
<1>15. ASSUME NEW q \in Requests, Read(q) \/ Answered(q) \/ Rejected(q) PROVE Excused(r)'
      <2>1. PICK s : s = req[q].socket OBVIOUS
      <2>2. /\ req[q].stage = "waiting"
            /\ \A p \in Requests : p # q => req'[p] = req[p]
            /\ req'[q].stage = "silent" => txn[s] # q
            BY <1>1, <1>15, <2>1, ReadFits, AnsweredFits, RejectedFits
      <2>3. CASE r = q
            <3>1. Replaced(r) BY <1>1, <1>3, <2>1, <2>2, <2>3 DEF TransactionsFit
            <3>2. Started(r) BY <2>2, <2>3 DEF Started
            <3>3. QED BY <1>7, <3>1, <3>2
      <2>4. QED BY <1>8, <2>2, <2>3
<1>16. QED BY <1>9, <1>10, <1>11, <1>12, <1>13, <1>14, <1>15, NextSteps DEF LoudStep

LEMMA SubscribersKept ==
    ASSUME IInv, [Next]_vars
    PROVE  Subscribed'
<1> DEFINE Provider(s) == \E r \in Requests : req[r].socket = s /\ req[r].provisioned
<1>1. Typed /\ ChannelFits /\ RequestsFit /\ TransactionsFit
      BY DEF IInv, Subscribed
<1>2. Typed' BY TypesKept
<1>3. \A s \in chan.subs : sock[s] = "closed" => Provider(s) BY DEF IInv, Subscribed
<1>4. chan'.subs \subseteq Sockets BY <1>2 DEF Typed, Channel
<1>5. SUFFICES ASSUME NEW s \in chan'.subs, sock'[s] = "closed" PROVE Provider(s)'
      BY <1>2 DEF Subscribed
<1>6. s \in Sockets BY <1>4
<1>7. ASSUME Provider(s) PROVE Provider(s)'
      <2>1. PICK r \in Requests : req[r].socket = s /\ req[r].provisioned BY <1>7
      <2>2. Started(r) BY <1>6, <2>1, OfSocket
      <2>3. req'[r].socket = s /\ req'[r].provisioned BY <2>1, <2>2, RequestsPersist
      <2>4. QED BY <2>3
<1>8. s \in chan.subs /\ sock[s] = "closed" => Provider(s)' BY <1>3, <1>7
<1> HIDE DEF Provider
<1>9. CASE QuietStep
      <2>1. Quiet BY <1>1, <1>9, QuietStepsFit
      <2>2. sock[s] = "closed" BY <1>5, <1>6, <2>1 DEF Quiet
      <2>3. s \in chan.subs BY <2>1, <2>2 DEF Quiet
      <2>4. QED BY <1>8, <2>2, <2>3
<1>10. CASE EventArrives
      <2>1. chan'.subs = chan.subs /\ sock' = sock BY <1>1, <1>10, ArrivalFits
      <2>2. QED BY <1>5, <1>8, <2>1
<1>11. CASE Cleanup
      <2>1. chan' = NoChannel BY <1>1, <1>11, CleanupFits
      <2>2. QED BY <2>1 DEF NoChannel
<1>12. ASSUME NEW x \in Sockets, ReleaseSocket(x) PROVE Provider(s)'
      <2>1. sock' = [sock EXCEPT ![x] = "closed"] /\ chan' = [chan EXCEPT !.subs = @ \ {x}]
            BY <1>1, <1>12, ReleaseFits
      <2>2. chan'.subs = chan.subs \ {x} BY <1>1, <2>1 DEF Typed, Channel
      <2>3. sock[s] = "closed" BY <1>1, <1>5, <1>6, <2>1, <2>2 DEF Typed
      <2>4. QED BY <1>8, <2>2, <2>3
<1>13. ASSUME NEW x \in Sockets, NEW q \in Requests, Reconnect(x, q) PROVE Provider(s)'
      <2>1. txn[x] # q /\ sock[x] = "open" BY <1>1, <1>13, NewRequest
      <2>2. sock' = sock BY <1>1, <1>13, <2>1, ReconnectTypes
      <2>3. \/ chan' = [chan EXCEPT !.subs = @ \cup {x}]
            \/ ~chan.exists /\ chan' = EnsureChannel
            BY <1>1, <1>13, <2>1, ReconnectFits DEF ChannelFits
      <2>4. CASE ~chan.exists /\ chan' = EnsureChannel
            BY <2>4 DEF EnsureChannel, NoChannel
      <2>5. CASE chan' = [chan EXCEPT !.subs = @ \cup {x}]
            <3>1. s \in chan.subs \cup {x} BY <1>1, <2>5 DEF Typed, Channel
            <3>2. QED BY <1>5, <1>8, <2>1, <2>2, <3>1
      <2>6. QED BY <2>3, <2>4, <2>5
<1>14. ASSUME NEW q \in Requests, Provisioned(q) PROVE Provider(s)'
      <2>1. PICK x : x = req[q].socket OBVIOUS
      <2>2. /\ sock' = sock /\ chan' = [chan EXCEPT !.subs = @ \cup {x}]
            /\ req'[q].socket = x /\ req'[q].provisioned
            BY <1>1, <1>14, <2>1, ProvisionedFits
      <2>3. s \in chan.subs \cup {x} BY <1>1, <2>2 DEF Typed, Channel
      <2>4. CASE s = x BY <2>2, <2>4 DEF Provider
      <2>5. QED BY <1>5, <1>8, <2>2, <2>3, <2>4
<1>15. ASSUME NEW q \in Requests, Read(q) \/ Answered(q) \/ Rejected(q) PROVE Provider(s)'
      <2>1. PICK x : x = req[q].socket OBVIOUS
      <2>2. chan' = chan /\ sock' = sock
            BY <1>1, <1>15, <2>1, ReadFits, AnsweredFits, RejectedFits
      <2>3. QED BY <1>5, <1>8, <2>2
<1>16. QED BY <1>9, <1>10, <1>11, <1>12, <1>13, <1>14, <1>15, NextSteps DEF LoudStep

(***************************************************************************)
(* What a step may do to the last frame of a turn: leave it, or send an    *)
(* event that is not older.                                                *)
(***************************************************************************)
FrameMoves(s, t) ==
    \/ frame'[s][t] = frame[s][t] /\ flight'[s][t].event \in {0, flight[s][t].event}
    \/ /\ frame'[s][t] \in 1..sent' /\ log'[frame'[s][t]].turn = t
       /\ flight'[s][t].event = frame'[s][t]
       /\ frame'[s][t] >= frame[s][t]

\* A set of events that goes on up to the last one has an event that is not older than what
\* was sent of the turn.
LEMMA ReachesFrame ==
    ASSUME NEW S \in SUBSET Nat, NEW f \in Nat, NEW last \in Nat, NEW t,
           f # 0 => f <= last /\ log[f].turn = t,
           \A n \in S : n <= last /\ \A m \in n..last : m \in S
    PROVE  \A n \in S : log[n].turn = t => \E m \in S : log[m].turn = t /\ m >= f
<1>1. ASSUME NEW n \in S, log[n].turn = t, n < f PROVE f \in S
      <2>1. f \in n..last BY <1>1
      <2>2. QED BY <2>1
<1>2. ASSUME NEW n \in S, log[n].turn = t PROVE \E m \in S : log[m].turn = t /\ m >= f
      <2>1. n \in Nat OBVIOUS
      <2>2. CASE n < f
            <3>1. f \in S /\ log[f].turn = t BY <1>1, <1>2, <2>1, <2>2
            <3>2. QED BY <3>1
      <2>3. CASE ~(n < f) BY <1>2, <2>1, <2>3
      <2>4. QED BY <2>2, <2>3
<1>3. QED BY <1>2

LEMMA SendMoves ==
    ASSUME Typed, NEW s \in Sockets, NEW t \in Turns, NEW S \in SUBSET Events,
           S \subseteq 1..sent', log' = log,
           flight'[s] = Delivered(s, S), frame'[s] = Framed(s, S),
           \A n \in S : log[n].turn = t => \E m \in S : log[m].turn = t /\ m >= frame[s][t]
    PROVE  FrameMoves(s, t)
<1>1. PICK g : g = Framed(s, S)[t] OBVIOUS
<1>2. \/ Delivered(s, S)[t] = flight[s][t] /\ g = frame[s][t]
      \/ /\ g \in S /\ log[g].turn = t
         /\ \A n \in S : log[n].turn = t => n <= g
         /\ Delivered(s, S)[t].event = g
      BY <1>1, SendsFit
<1>3. CASE Delivered(s, S)[t] = flight[s][t] /\ g = frame[s][t]
      BY <1>1, <1>3 DEF FrameMoves
<1>4. CASE /\ g \in S /\ log[g].turn = t
           /\ \A n \in S : log[n].turn = t => n <= g
           /\ Delivered(s, S)[t].event = g
      <2>1. g >= frame[s][t]
            <3>1. PICK m \in S : log[m].turn = t /\ m >= frame[s][t] BY <1>4
            <3>2. m <= g BY <1>4, <3>1
            <3>3. m \in Nat /\ g \in Nat /\ frame[s][t] \in Nat
                  <4>1. frame[s][t] \in Events \cup {0} /\ MaxEvents \in Nat
                        BY BoundsAssumption DEF Typed
                  <4>2. QED BY <1>4, <4>1 DEF Events
            <3>4. QED BY <3>1, <3>2, <3>3
      <2>2. g \in 1..sent' BY <1>4
      <2>3. QED BY <1>1, <1>4, <2>1, <2>2 DEF FrameMoves
<1>5. QED BY <1>2, <1>3, <1>4

LEMMA FramesMove ==
    ASSUME IInv, [Next]_vars, NEW s \in Sockets, NEW t \in Turns
    PROVE  FrameMoves(s, t)
<1>1. Typed /\ ChannelFits /\ RequestsFit /\ TransactionsFit /\ FramesFit
      BY DEF IInv, Subscribed
<1>2. /\ flight \in [Sockets -> Deliveries] /\ frame[s][t] \in Nat
      /\ sent \in Nat /\ sent <= MaxEvents /\ MaxEvents \in Nat
      <2>1. frame[s][t] \in Events \cup {0} /\ MaxEvents \in Nat
            BY <1>1, BoundsAssumption DEF Typed
      <2>2. QED BY <1>1, <2>1 DEF Typed, Deliveries, Events
<1>3. frame[s][t] # 0 => frame[s][t] <= sent /\ log[frame[s][t]].turn = t
      BY <1>1 DEF FramesFit
<1>4. CASE UNCHANGED <<flight, frame>> BY <1>4 DEF FrameMoves
<1>5. ASSUME NEW x \in Sockets, frame' = frame, flight' = [flight EXCEPT ![x] = NoDeliveries]
      PROVE  FrameMoves(s, t)
      <2>1. flight'[s] = flight[s] \/ flight'[s] = NoDeliveries BY <1>2, <1>5
      <2>2. NoDeliveries[t].event = 0 BY DEF NoDeliveries, NoDelivery
      <2>3. QED BY <1>5, <2>1, <2>2 DEF FrameMoves
<1>6. CASE QuietStep
      <2>1. CASE \/ UNCHANGED vars \/ Commit \/ RunLost \/ UpstreamOpens \/ UpstreamLost
                 \/ \E x \in Sockets : Open(x) \/ Vanish(x) \/ Continue(x)
            <3>1. UNCHANGED <<flight, frame>>
                  BY <2>1 DEF vars, frames, Commit, RunLost, UpstreamOpens, UpstreamLost, Open,
                              Vanish, Continue
            <3>2. QED BY <1>4, <3>1
      <2>2. ASSUME NEW x \in Sockets, StartOrJoin(x) PROVE FrameMoves(s, t)
            <3>1. log' = log /\ sent' = sent BY <2>2 DEF StartOrJoin, service
            <3>2. CASE UNCHANGED <<flight, frame>> BY <1>4, <3>2
            <3>3. ASSUME NEW last \in chan.base..sent, SendTo(x, (last + 1)..sent)
                  PROVE  FrameMoves(s, t)
                  <4>1. PICK S : S = (last + 1)..sent OBVIOUS
                  <4>2. chan.base \in Nat
                        <5>1. chan.base \in {0} \cup Events BY <1>1 DEF Typed, Channel
                        <5>2. QED BY <1>2, <5>1 DEF Events
                  <4>3. S \in SUBSET Events /\ S \subseteq 1..sent'
                        BY <1>2, <3>1, <4>1, <4>2 DEF Events
                  <4>4. /\ flight' = [flight EXCEPT ![x] = Delivered(x, S)]
                        /\ frame' = [frame EXCEPT ![x] = Framed(x, S)]
                        BY <3>3, <4>1 DEF SendTo
                  <4>5. CASE s = x
                        <5>1. flight'[s] = Delivered(s, S) /\ frame'[s] = Framed(s, S)
                              BY <1>1, <4>4, <4>5 DEF Typed
                        <5>2. /\ S \in SUBSET Nat
                              /\ \A n \in S : n <= sent /\ \A m \in n..sent : m \in S
                              BY <1>2, <4>1, <4>2
                        <5>3. \A n \in S : log[n].turn = t =>
                                 \E m \in S : log[m].turn = t /\ m >= frame[s][t]
                              BY <1>2, <1>3, <5>2, ReachesFrame
                        <5>4. QED BY <1>1, <3>1, <4>3, <5>1, <5>3, SendMoves
                  <4>6. CASE s # x
                        <5>1. flight'[s] = flight[s] /\ frame'[s] = frame[s]
                              BY <1>1, <4>4, <4>6 DEF Typed
                        <5>2. QED BY <5>1 DEF FrameMoves
                  <4>7. QED BY <4>5, <4>6
            <3>4. QED BY <2>2, <3>2, <3>3 DEF StartOrJoin, frames
      <2>3. ASSUME NEW x \in Sockets, NEW y \in Turns, Receipt(x, y) PROVE FrameMoves(s, t)
            <3>1. frame' = frame /\ flight' = [flight EXCEPT ![x][y] = NoDelivery]
                  BY <2>3 DEF Receipt, frames
            <3>2. flight'[s][t] = flight[s][t] \/ flight'[s][t] = NoDelivery
                  BY <1>2, <3>1 DEF Deliveries
            <3>3. NoDelivery.event = 0 BY DEF NoDelivery
            <3>4. QED BY <3>1, <3>2, <3>3 DEF FrameMoves
      <2>4. ASSUME NEW x \in Sockets, NEW y \in Turns, Retry(x, y) PROVE FrameMoves(s, t)
            <3>1. CASE frame' = frame /\ flight' = [flight EXCEPT ![x] = NoDeliveries]
                  BY <1>5, <3>1
            <3>2. CASE /\ flight' = [flight EXCEPT ![x][y].attempts = @ + 1]
                       /\ frame' = [frame EXCEPT ![x][y] = flight[x][y].event]
                  <4>1. PICK d : d = [flight[x][y] EXCEPT !.attempts = @ + 1] OBVIOUS
                  <4>2. d.event = flight[x][y].event
                        <5>1. flight[x][y] \in [event : Events \cup {0}, attempts : 0..MaxAttempts]
                              BY <1>2 DEF Deliveries
                        <5>2. QED BY <4>1, <5>1
                  <4>3. flight' = [flight EXCEPT ![x][y] = d] BY <3>2, <4>1
                  <4>4. flight[x][y].event = frame[x][y]
                        BY <1>1, <2>4 DEF Retry, FramesFit
                  <4>5. flight'[s][t].event = flight[s][t].event
                        BY <1>2, <4>2, <4>3 DEF Deliveries
                  <4>6. frame'[s][t] = frame[s][t] BY <1>1, <3>2, <4>4 DEF Typed
                  <4>7. QED BY <4>5, <4>6 DEF FrameMoves
            <3>3. QED BY <2>4, <3>1, <3>2 DEF Retry
      <2>5. QED BY <1>6, <2>1, <2>2, <2>3, <2>4 DEF QuietStep
<1>7. CASE EventArrives
      <2>1. /\ log' = log /\ sent' = sent + 1 /\ sent' \in Events
            /\ IF s \in chan.subs /\ txn[s] = 0
               THEN flight'[s] = Delivered(s, {sent'}) /\ frame'[s] = Framed(s, {sent'})
               ELSE UNCHANGED <<flight[s], frame[s]>>
            BY <1>1, <1>7, ArrivalFits
      <2>2. PICK S : S = {sent'} OBVIOUS
      <2>3. S \in SUBSET Events /\ S \subseteq 1..sent' BY <1>2, <2>1, <2>2
      <2>4. \A n \in S : n >= frame[s][t] BY <1>2, <1>3, <2>1, <2>2
      <2>5. CASE s \in chan.subs /\ txn[s] = 0
            <3>1. flight'[s] = Delivered(s, S) /\ frame'[s] = Framed(s, S) BY <2>1, <2>2, <2>5
            <3>2. \A n \in S : log[n].turn = t => \E m \in S : log[m].turn = t /\ m >= frame[s][t]
                  BY <2>4
            <3>3. QED BY <1>1, <2>1, <2>3, <3>1, <3>2, SendMoves
      <2>6. CASE ~(s \in chan.subs /\ txn[s] = 0) BY <2>1, <2>6 DEF FrameMoves
      <2>7. QED BY <2>5, <2>6
<1>8. CASE Cleanup
      <2>1. frame' = frame /\ (flight'[s] = NoDeliveries \/ flight'[s] = flight[s])
            BY <1>1, <1>8, CleanupFits
      <2>2. NoDeliveries[t].event = 0 BY DEF NoDeliveries, NoDelivery
      <2>3. QED BY <2>1, <2>2 DEF FrameMoves
<1>9. ASSUME NEW x \in Sockets, ReleaseSocket(x) PROVE FrameMoves(s, t)
      <2>1. frame' = frame /\ flight' = [flight EXCEPT ![x] = NoDeliveries]
            BY <1>1, <1>9, ReleaseFits
      <2>2. QED BY <1>5, <2>1
<1>10. ASSUME NEW x \in Sockets, NEW q \in Requests, Reconnect(x, q) PROVE FrameMoves(s, t)
      <2>1. txn[x] # q BY <1>1, <1>10, NewRequest
      <2>2. frame' = frame /\ flight' = [flight EXCEPT ![x] = NoDeliveries]
            BY <1>1, <1>10, <2>1, ReconnectFits DEF ChannelFits
      <2>3. QED BY <1>5, <2>2
<1>11. ASSUME NEW q \in Requests, Provisioned(q) \/ Read(q) \/ Rejected(q)
       PROVE  FrameMoves(s, t)
      <2>1. PICK x : x = req[q].socket OBVIOUS
      <2>2. UNCHANGED <<flight, frame>>
            BY <1>1, <1>11, <2>1, ProvisionedFits, ReadFits, RejectedFits
      <2>3. QED BY <1>4, <2>2
<1>12. ASSUME NEW q \in Requests, Answered(q) PROVE FrameMoves(s, t)
      <2>1. PICK x : x = req[q].socket OBVIOUS
      <2>2. /\ log' = log /\ sent' = sent /\ x \in Sockets /\ req[q].stage = "waiting"
            /\ \/ UNCHANGED <<flight, frame>>
               \/ /\ txn[x] = q
                  /\ flight' = [flight EXCEPT ![x] = Delivered(x, req[q].buffer)]
                  /\ frame' = [frame EXCEPT ![x] = Framed(x, req[q].buffer)]
            BY <1>1, <1>12, <2>1, AnsweredFits
      <2>3. CASE /\ txn[x] = q
                 /\ flight' = [flight EXCEPT ![x] = Delivered(x, req[q].buffer)]
                 /\ frame' = [frame EXCEPT ![x] = Framed(x, req[q].buffer)]
            <3>1. PICK S : S = req[q].buffer OBVIOUS
            <3>2. S \in SUBSET Events
                  <4>1. req[q] \in Request BY <1>1 DEF Typed
                  <4>2. QED BY <3>1, <4>1 DEF Request
            <3>3. \A n \in S : n <= sent /\ \A m \in n..sent : m \in S
                  BY <1>1, <2>1, <2>2, <2>3, <3>1 DEF FramesFit
            <3>4. S \subseteq 1..sent' BY <1>2, <2>2, <3>2, <3>3 DEF Events
            <3>5. CASE s = x
                  <4>1. flight'[s] = Delivered(s, S) /\ frame'[s] = Framed(s, S)
                        BY <1>1, <2>3, <3>1, <3>5 DEF Typed
                  <4>2. \A n \in S : log[n].turn = t =>
                           \E m \in S : log[m].turn = t /\ m >= frame[s][t]
                        <5>1. S \in SUBSET Nat BY <1>2, <3>2 DEF Events
                        <5>2. QED BY <1>2, <1>3, <3>3, <5>1, ReachesFrame
                  <4>3. QED BY <1>1, <2>2, <3>2, <3>4, <4>1, <4>2, SendMoves
            <3>6. CASE s # x
                  <4>1. flight'[s] = flight[s] /\ frame'[s] = frame[s]
                        BY <1>1, <2>3, <3>6 DEF Typed
                  <4>2. QED BY <4>1 DEF FrameMoves
            <3>7. QED BY <3>5, <3>6
      <2>4. QED BY <1>4, <2>2, <2>3
<1>13. QED BY <1>6, <1>7, <1>8, <1>9, <1>10, <1>11, <1>12, NextSteps DEF LoudStep

\* What a transaction that is open has collected, and what its answer covers.
LEMMA OpenTransactions ==
    ASSUME IInv, [Next]_vars, NEW r \in Requests,
           req'[r].stage = "waiting", txn'[req'[r].socket] = r
    PROVE  \/ req'[r].buffer = {} /\ req'[r].read = 0
           \/ /\ req[r].stage = "waiting" /\ txn[req[r].socket] = r
              /\ req'[r].buffer = req[r].buffer \cup {sent'} /\ req'[r].read = req[r].read
              /\ sent' = sent + 1 /\ chan'.window \subseteq chan.window \cup {sent'}
           \/ /\ req[r].stage = "waiting" /\ txn[req[r].socket] = r
              /\ req'[r].buffer = req[r].buffer /\ sent' = sent /\ chan'.window = chan.window
              /\ req'[r].read = req[r].read \/ req'[r].read = 0 \/ req'[r].read >= sent
<1> DEFINE Kept == /\ req[r].stage = "waiting" /\ txn[req[r].socket] = r
                   /\ req'[r].buffer = req[r].buffer /\ sent' = sent
                   /\ chan'.window = chan.window
                   /\ \/ req'[r].read = req[r].read \/ req'[r].read = 0
                      \/ req'[r].read >= sent
<1>1. Typed /\ ChannelFits /\ RequestsFit /\ TransactionsFit
      BY DEF IInv, Subscribed
<1>2. r # 0 BY DEF Requests
<1>3. req[r].stage = "waiting" => req[r].socket \in Sockets
      BY <1>1 DEF RequestsFit, Started
\* A step that leaves r alone and opens no transaction but that of another reconnect.
<1>4. ASSUME NEW s \in Sockets, NEW k, k # r, req'[r] = req[r], sent' = sent,
             chan'.window = chan.window, txn' = [txn EXCEPT ![s] = k]
      PROVE  Kept
      <2>1. req[r].stage = "waiting" /\ req[r].socket \in Sockets BY <1>3, <1>4
      <2>2. txn'[req[r].socket] = txn[req[r].socket] BY <1>1, <1>4, <2>1 DEF Typed
      <2>3. QED BY <1>4, <2>1, <2>2
<1>5. CASE QuietStep
      <2>1. req' = req /\ txn' = txn /\ sent' = sent /\ chan'.window = chan.window
            BY <1>1, <1>5, QuietStepsFit DEF Quiet
      <2>2. QED BY <2>1
<1>6. CASE EventArrives
      <2>1. /\ sent' = sent + 1 /\ chan'.window \subseteq chan.window \cup {sent'} /\ txn' = txn
            /\ req'[r].stage = req[r].stage /\ req'[r].socket = req[r].socket
            /\ req'[r].read = req[r].read
            /\ req'[r].buffer = IF \E s \in chan.subs : txn[s] = r
                                THEN req[r].buffer \cup {sent'} ELSE req[r].buffer
            BY <1>1, <1>6, ArrivalFits
      <2>2. req[r].stage = "waiting" /\ txn[req[r].socket] = r BY <2>1
      <2>3. req[r].socket \in chan.subs BY <1>1, <2>2 DEF TransactionsFit
      <2>4. req'[r].buffer = req[r].buffer \cup {sent'} BY <2>1, <2>2, <2>3
      <2>5. QED BY <2>1, <2>2, <2>4
<1>7. CASE Cleanup
      <2>1. IF req[r].stage = "waiting" THEN req'[r].stage = "lost" ELSE req'[r] = req[r]
            BY <1>1, <1>7, CleanupFits
      <2>2. QED BY <2>1
<1>8. ASSUME NEW s \in Sockets, ReleaseSocket(s) PROVE Kept
      <2>1. /\ req'[r] = req[r] \/ req'[r].stage = "silent"
            /\ txn' = [txn EXCEPT ![s] = 0] /\ sent' = sent
            /\ chan' = [chan EXCEPT !.subs = @ \ {s}]
            BY <1>1, <1>8, ReleaseFits
      <2>2. chan'.window = chan.window BY <1>1, <2>1 DEF Typed, Channel
      <2>3. req'[r] = req[r] BY <2>1
      <2>4. QED BY <1>2, <1>4, <2>1, <2>2, <2>3
<1>9. ASSUME NEW s \in Sockets, NEW q \in Requests, Reconnect(s, q)
      PROVE  (req'[r].buffer = {} /\ req'[r].read = 0) \/ Kept
      <2>1. txn[s] # q BY <1>1, <1>9, NewRequest
      <2>2. sent' = sent BY <1>1, <1>9, <2>1, ReconnectTypes
      <2>3. \A p \in Requests : p # q =>
               req'[p] = IF p = txn[s] THEN Ending(req[p], "silent") ELSE req[p]
            BY <1>1, <1>9, <2>1, ReconnectRequests
      <2>4. \/ /\ chan' = [chan EXCEPT !.subs = @ \cup {s}] /\ Prepared(s, q, Known(s))
            \/ /\ ~chan.exists /\ req'[q].stage = "provisioning"
            BY <1>1, <1>9, <2>1, ReconnectFits DEF ChannelFits
      <2>5. CASE r = q BY <2>4, <2>5 DEF Prepared
      <2>6. CASE r # q
            <3>1. Ending(req[r], "silent").stage = "silent"
                  BY <1>1, EndingFits DEF Typed, Stages
            <3>2. req'[r] = req[r] BY <2>3, <2>6, <3>1
            <3>3. chan.exists BY <1>1, <3>2 DEF RequestsFit, Pending
            <3>4. chan' = [chan EXCEPT !.subs = @ \cup {s}] /\ Prepared(s, q, Known(s))
                  BY <2>4, <3>3
            <3>5. chan'.window = chan.window BY <1>1, <3>4 DEF Typed, Channel
            <3>6. PICK k \in {0, q} : txn' = [txn EXCEPT ![s] = k] BY <3>4 DEF Prepared
            <3>7. k # r BY <1>2, <2>6
            <3>8. QED BY <1>4, <2>2, <3>2, <3>5, <3>6, <3>7
      <2>7. QED BY <2>5, <2>6
<1>10. ASSUME NEW q \in Requests, Provisioned(q)
       PROVE  (req'[r].buffer = {} /\ req'[r].read = 0) \/ Kept
      <2>1. PICK s : s = req[q].socket OBVIOUS
      <2>2. /\ sent' = sent /\ s \in Sockets /\ chan' = [chan EXCEPT !.subs = @ \cup {s}]
            /\ \A p \in Requests : p # q => req'[p] = req[p]
            /\ Prepared(s, q, req[q].known)
            BY <1>1, <1>10, <2>1, ProvisionedFits
      <2>3. CASE r = q BY <2>2, <2>3 DEF Prepared
      <2>4. CASE r # q
            <3>1. chan'.window = chan.window BY <1>1, <2>2 DEF Typed, Channel
            <3>2. PICK k \in {0, q} : txn' = [txn EXCEPT ![s] = k] BY <2>2 DEF Prepared
            <3>3. k # r /\ req'[r] = req[r] BY <1>2, <2>2, <2>4
            <3>4. QED BY <1>4, <2>2, <3>1, <3>2, <3>3
      <2>5. QED BY <2>3, <2>4
<1>11. ASSUME NEW q \in Requests, Read(q) \/ Answered(q) \/ Rejected(q)
       PROVE  Kept
      <2>1. PICK s : s = req[q].socket OBVIOUS
      <2>2. /\ sent' = sent /\ chan' = chan /\ req[q].stage = "waiting"
            /\ \A p \in Requests : p # q => req'[p] = req[p]
            /\ req'[q].socket = req[q].socket
            /\ txn' = txn \/ txn' = [txn EXCEPT ![s] = 0]
            /\ req'[q].stage = "waiting" =>
                  /\ req'[q].buffer = req[q].buffer
                  /\ req'[q].read = 0 \/ req'[q].read >= sent
            BY <1>1, <1>11, <2>1, ReadFits, AnsweredFits, RejectedFits
      <2>3. /\ req[r].stage = "waiting" /\ req'[r].socket = req[r].socket
            /\ req'[r].buffer = req[r].buffer
            /\ req'[r].read = req[r].read \/ req'[r].read = 0 \/ req'[r].read >= sent
            BY <2>2
      <2>4. s \in Sockets /\ req[r].socket \in Sockets
            BY <1>1, <2>1, <2>2, <2>3 DEF RequestsFit, Started
      <2>5. txn[req[r].socket] = r
            <3>1. txn'[req[r].socket] = r BY <2>3
            <3>2. QED BY <1>1, <1>2, <2>2, <2>4, <3>1 DEF Typed
      <2>6. QED BY <2>2, <2>3, <2>5
<1>12. QED BY <1>5, <1>6, <1>7, <1>8, <1>9, <1>10, <1>11, NextSteps DEF LoudStep

LEMMA SentGrows ==
    ASSUME IInv, [Next]_vars
    PROVE  sent \in Nat /\ sent' \in Nat /\ sent <= sent' /\ sent <= Len(log) /\ Len(log) \in Nat
<1>1. Typed /\ ChannelFits /\ RequestsFit /\ TransactionsFit
      BY DEF IInv, Subscribed
<1>2. sent \in Nat /\ Len(log) \in Nat /\ sent <= Len(log) BY <1>1 DEF Typed
<1>3. sent' = sent \/ sent' = sent + 1
      <2>1. CASE QuietStep BY <1>1, <2>1, QuietStepsFit DEF Quiet
      <2>2. CASE LoudStep
            BY <2>2 DEF LoudStep, EventArrives, Cleanup, ReleaseSocket, Reconnect, Provisioned,
                        Read, Answered, Rejected
      <2>3. QED BY <2>1, <2>2, NextSteps
<1>4. QED BY <1>2, <1>3

LEMMA FramesKept ==
    ASSUME IInv, [Next]_vars
    PROVE  FramesFit'
<1>1. Typed /\ FramesFit BY DEF IInv, Subscribed
<1>2. LogGrows BY TypesKept
<1>3. sent \in Nat /\ sent' \in Nat /\ sent <= sent' /\ sent <= Len(log) /\ Len(log) \in Nat
      BY SentGrows
<1>4. ASSUME NEW s \in Sockets, NEW t \in Turns
      PROVE  /\ flight'[s][t].event \in {0, frame'[s][t]}
             /\ frame'[s][t] # 0 => frame'[s][t] <= sent' /\ log'[frame'[s][t]].turn = t
      <2>1. CASE frame'[s][t] = frame[s][t] /\ flight'[s][t].event \in {0, flight[s][t].event}
            <3>1. PICK g : g = frame[s][t] OBVIOUS
            <3>2. g \in Nat
                  <4>1. g \in Events \cup {0} /\ MaxEvents \in Nat
                        BY <1>1, <3>1, BoundsAssumption DEF Typed
                  <4>2. QED BY <4>1 DEF Events
            <3>3. /\ flight[s][t].event \in {0, g}
                  /\ g # 0 => g <= sent /\ log[g].turn = t
                  BY <1>1, <3>1 DEF FramesFit
            <3>4. g # 0 => g <= sent' /\ g \in 1..Len(log) BY <1>3, <3>2, <3>3
            <3>5. g # 0 => log'[g] = log[g] BY <1>2, <3>4 DEF LogGrows
            <3>6. QED BY <2>1, <3>1, <3>3, <3>4, <3>5
      <2>2. CASE /\ frame'[s][t] \in 1..sent' /\ log'[frame'[s][t]].turn = t
                 /\ flight'[s][t].event = frame'[s][t]
            BY <1>3, <2>2
      <2>3. QED BY <2>1, <2>2, FramesMove DEF FrameMoves
<1>5. ASSUME NEW r \in Requests, req'[r].stage = "waiting", txn'[req'[r].socket] = r,
             NEW n \in req'[r].buffer
      PROVE  n <= sent' /\ \A m \in n..sent' : m \in req'[r].buffer
      <2>1. req[r].stage = "waiting" /\ txn[req[r].socket] = r =>
               \A k \in req[r].buffer : k <= sent /\ \A m \in k..sent : m \in req[r].buffer
            BY <1>1 DEF FramesFit
      <2>2. n \in Nat
            <3>1. Typed' BY TypesKept
            <3>2. req'[r] \in Request BY <3>1 DEF Typed
            <3>3. req'[r].buffer \in SUBSET Events BY <3>2 DEF Request
            <3>4. QED BY <1>5, <3>3, BoundsAssumption DEF Events
      <2>3. CASE /\ req[r].stage = "waiting" /\ txn[req[r].socket] = r
                 /\ req'[r].buffer = req[r].buffer \cup {sent'} /\ sent' = sent + 1
            <3>1. CASE n = sent' BY <1>3, <2>3, <3>1
            <3>2. CASE n \in req[r].buffer
                  <4>1. n <= sent /\ \A m \in n..sent : m \in req[r].buffer BY <2>1, <2>3, <3>2
                  <4>2. \A m \in n..sent' : m \in n..sent \/ m = sent' BY <1>3, <2>2, <2>3
                  <4>3. QED BY <1>3, <2>2, <2>3, <4>1, <4>2
            <3>3. QED BY <1>5, <2>3, <3>1, <3>2
      <2>4. CASE /\ req[r].stage = "waiting" /\ txn[req[r].socket] = r
                 /\ req'[r].buffer = req[r].buffer /\ sent' = sent
            BY <1>5, <2>1, <2>4
      <2>5. CASE req'[r].buffer = {} BY <1>5, <2>5
      <2>6. QED BY <1>5, <2>3, <2>4, <2>5, OpenTransactions
<1>6. QED BY <1>4, <1>5 DEF FramesFit

\* A browser that has the events of a turn in a set still has them.
LEMMA HeldStays ==
    ASSUME IInv, [Next]_vars, NEW s \in Sockets, NEW t \in Turns, NEW S,
           S \subseteq chan.window, HasAll(s, t, S), seen'[s][t] >= seen[s][t]
    PROVE  \A n \in S : log'[n].turn = t => n <= seen'[s][t]
<1>1. Typed /\ ChannelFits BY DEF IInv, Subscribed
<1>2. LogGrows /\ Typed' BY TypesKept
<1>3. sent \in Nat /\ sent <= Len(log) /\ Len(log) \in Nat BY SentGrows
<1>4. ASSUME NEW n \in S, log'[n].turn = t PROVE n <= seen'[s][t]
      <2>1. n \in 1..sent BY <1>1 DEF ChannelFits
      <2>2. n \in 1..Len(log) /\ n \in Nat BY <1>3, <2>1
      <2>3. log'[n] = log[n] BY <1>2, <2>2 DEF LogGrows
      <2>4. n <= seen[s][t] BY <1>4, <2>3 DEF HasAll
      <2>5. seen[s][t] \in Events \cup {0} /\ seen'[s][t] \in Events \cup {0}
            BY <1>1, <1>2 DEF Typed
      <2>6. seen[s][t] \in Nat /\ seen'[s][t] \in Nat BY <2>5, BoundsAssumption DEF Events
      <2>7. QED BY <2>2, <2>4, <2>6
<1>5. QED BY <1>4

\* What a browser has, after a step, of a turn that it was brought up to date with.
Current(s, t) ==
    /\ s \in chan'.subs /\ txn'[s] = 0
    /\ sock'[s] = "open" => \A n \in chan'.window : log'[n].turn = t => n <= seen'[s][t]

\* A browser that was current stays so in a step that leaves the window alone.
LEMMA CurrentStays ==
    ASSUME IInv, [Next]_vars, NEW s \in Sockets, NEW t \in current[s],
           s \in chan'.subs, txn'[s] = 0, chan'.window = chan.window,
           sock'[s] = "open" => sock[s] = "open",
           seen'[s][t] >= seen[s][t]
    PROVE  Current(s, t)
<1>1. t \in Turns BY DEF IInv, Subscribed, Typed
<1>2. sock'[s] = "open" => HasAll(s, t, chan.window) BY DEF IInv, AnswersFit
<1>3. sock'[s] = "open" => \A n \in chan.window : log'[n].turn = t => n <= seen'[s][t]
      BY <1>1, <1>2, HeldStays
<1>4. QED BY <1>3 DEF Current

\* A reconnect of socket x was answered from the window, or waits, or has failed.
LEMMA PreparedKept ==
    ASSUME IInv, [Next]_vars, NEW x \in Sockets, NEW q \in Requests,
           NEW known \in {0} \cup Events, Prepared(x, q, known),
           chan' = [chan EXCEPT !.subs = @ \cup {x}], log' = log, sock' = sock,
           NEW s \in Sockets, NEW t \in current'[s]
    PROVE  Current(s, t)
<1>1. Typed /\ AnswersFit BY DEF IInv, Subscribed
<1>2. chan'.subs = chan.subs \cup {x} /\ chan'.window = chan.window
      BY <1>1 DEF Typed, Channel
<1>3. /\ txn \in [Sockets -> Requests \cup {0}] /\ current \in [Sockets -> SUBSET Turns]
      /\ seen \in [Sockets -> [Turns -> Events \cup {0}]]
      BY <1>1 DEF Typed
<1>4. CASE s # x
      <2>1. t \in current[s] /\ t \in Turns
            <3>1. \E S : current' = [current EXCEPT ![x] = S] BY DEF Prepared
            <3>2. QED BY <1>3, <1>4, <3>1
      <2>2. s \in chan.subs /\ txn[s] = 0 BY <1>1, <2>1 DEF AnswersFit
      <2>3. \/ seen' = seen \/ seen' = [seen EXCEPT ![x] = Seen(x, Replay(known))]
            BY DEF Prepared
      <2>4. seen'[s] = seen[s] BY <1>3, <1>4, <2>1, <2>3
      <2>5. \E k : txn' = [txn EXCEPT ![x] = k] BY DEF Prepared
      <2>6. txn'[s] = 0 BY <1>3, <1>4, <2>1, <2>2, <2>5
      <2>7. seen'[s][t] >= seen[s][t] BY <1>1, <2>1, <2>4, SeenStays
      <2>8. QED BY <1>2, <2>1, <2>2, <2>6, <2>7, CurrentStays
<1>5. CASE s = x
      <2>1. /\ txn' = [txn EXCEPT ![x] = 0] /\ ~HasGap(known)
            /\ seen' = [seen EXCEPT ![x] = Seen(x, Replay(known))]
            /\ t \in HasUpTo(x, known)
            BY <1>3, <1>5 DEF Prepared
      <2>2. PICK S : S = Replay(known) OBVIOUS
      <2>3. S = {n \in chan.window : n > known} BY <2>1, <2>2 DEF Replay
      <2>4. chan.window \in SUBSET Events BY <1>1 DEF Typed, Channel
      <2>5. S \in SUBSET Events BY <2>3, <2>4
      <2>6. txn'[x] = 0 /\ seen'[x] = Seen(x, S) BY <1>3, <2>1, <2>2
      <2>7. /\ Seen(x, S) \in [Turns -> Events \cup {0}]
            /\ t \in Turns /\ Seen(x, S)[t] >= seen[x][t]
            /\ sock[x] = "open" => \A n \in S : log[n].turn = t => n <= Seen(x, S)[t]
            BY <1>1, <2>1, <2>5, SeenFits DEF HasUpTo
      <2>8. MaxEvents \in Nat /\ known \in Nat BY BoundsAssumption DEF Events
      <2>9. ASSUME sock[x] = "open", NEW n \in chan.window, log[n].turn = t
            PROVE  n <= Seen(x, S)[t]
            <3>1. n \in Nat /\ n >= 1 BY <2>4, <2>8 DEF Events
            <3>2. CASE n > known
                  <4>1. n \in S BY <2>3, <3>2
                  <4>2. QED BY <2>7, <2>9, <4>1
            <3>3. CASE ~(n > known)
                  <4>1. n \in 1..known BY <2>8, <3>1, <3>3
                  <4>2. PICK K : K = 1..known OBVIOUS
                  <4>3. /\ Last(K, t) \in 0..known
                        /\ \A m \in K : log[m].turn = t => m <= Last(K, t)
                        BY <2>8, <4>2, LastFits
                  <4>4. n <= Last(K, t) BY <2>9, <4>1, <4>2, <4>3
                  <4>5. seen[x][t] >= Last(K, t) BY <2>1, <4>2 DEF HasUpTo
                  <4>6. Seen(x, S)[t] >= seen[x][t] BY <2>7
                  <4>7. Seen(x, S)[t] \in Events \cup {0} /\ seen[x][t] \in Events \cup {0}
                        BY <1>3, <2>7
                  <4>8. Seen(x, S)[t] \in Nat /\ seen[x][t] \in Nat /\ Last(K, t) \in Nat
                        BY <2>8, <4>3, <4>7 DEF Events
                  <4>9. QED BY <3>1, <4>4, <4>5, <4>6, <4>8
            <3>4. QED BY <3>2, <3>3
      <2>10. QED BY <1>2, <1>5, <2>6, <2>9 DEF Current
<1>6. QED BY <1>4, <1>5

LEMMA AnswersKept ==
    ASSUME IInv, [Next]_vars
    PROVE  AnswersFit'
<1>1. Typed /\ ChannelFits /\ RequestsFit /\ TransactionsFit /\ AnswersFit
      BY DEF IInv, Subscribed
<1>2. /\ txn \in [Sockets -> Requests \cup {0}] /\ current \in [Sockets -> SUBSET Turns]
      /\ seen \in [Sockets -> [Turns -> Events \cup {0}]]
      BY <1>1 DEF Typed
<1>3. \A s \in Sockets : \A t \in current[s] :
          /\ t \in Turns /\ s \in chan.subs /\ txn[s] = 0 /\ sock[s] # "unused"
          /\ seen[s][t] >= seen[s][t]
      BY <1>1, <1>2, SeenStays DEF AnswersFit, ChannelFits
<1>4. ASSUME NEW s \in Sockets, NEW t \in current'[s] PROVE Current(s, t)
      <2>1. CASE QuietStep
            <3>1. Quiet BY <1>1, <2>1, QuietStepsFit
            <3>2. t \in current[s] BY <3>1 DEF Quiet
            <3>3. s \in chan'.subs /\ txn'[s] = 0 /\ chan'.window = chan.window
                  BY <1>3, <3>1, <3>2 DEF Quiet
            <3>4. sock'[s] = "open" => sock[s] = "open" BY <1>3, <3>1, <3>2 DEF Quiet
            <3>5. seen'[s][t] >= seen[s][t] BY <1>3, <3>1, <3>2 DEF Quiet
            <3>6. QED BY <3>2, <3>3, <3>4, <3>5, CurrentStays
      <2>2. CASE EventArrives
            <3>1. PICK e : e = sent' OBVIOUS
            <3>2. /\ log' = log /\ sock' = sock /\ txn' = txn /\ current' = current
                  /\ e \in Events /\ chan'.subs = chan.subs
                  /\ chan'.window \subseteq chan.window \cup {e}
                  /\ s \in chan.subs /\ txn[s] = 0 => seen'[s] = Seen(s, {e})
                  BY <1>1, <1>2, <2>2, <3>1, ArrivalFits
            <3>3. /\ t \in current[s] /\ t \in Turns /\ s \in chan'.subs /\ txn'[s] = 0
                  /\ seen'[s] = Seen(s, {e})
                  BY <1>3, <3>2
            <3>4. PICK S : S = {e} OBVIOUS
            <3>5. /\ Seen(s, S)[t] >= seen[s][t]
                  /\ sock[s] = "open" => \A n \in S : log[n].turn = t => n <= Seen(s, S)[t]
                  BY <1>1, <3>2, <3>3, <3>4, SeenFits
            <3>6. sock[s] = "open" => HasAll(s, t, chan.window)
                  BY <1>1, <3>3 DEF AnswersFit
            <3>7. sock[s] = "open" =>
                     \A n \in chan.window : log'[n].turn = t => n <= seen'[s][t]
                  BY <3>3, <3>4, <3>5, <3>6, HeldStays
            <3>8. QED BY <3>2, <3>3, <3>4, <3>5, <3>7 DEF Current
      <2>3. CASE Cleanup
            <3>1. current' = [x \in Sockets |-> IF x \in chan.subs THEN {} ELSE current[x]]
                  BY <1>1, <2>3, CleanupFits
            <3>2. QED BY <1>3, <3>1
      <2>4. ASSUME NEW x \in Sockets, ReleaseSocket(x) PROVE Current(s, t)
            <3>1. /\ seen' = seen /\ sock' = [sock EXCEPT ![x] = "closed"]
                  /\ chan' = [chan EXCEPT !.subs = @ \ {x}]
                  /\ txn' = [txn EXCEPT ![x] = 0] /\ current' = [current EXCEPT ![x] = {}]
                  BY <1>1, <2>4, ReleaseFits
            <3>2. t \in current[s] /\ s # x BY <1>2, <3>1
            <3>3. chan'.subs = chan.subs \ {x} /\ chan'.window = chan.window
                  BY <1>1, <3>1 DEF Typed, Channel
            <3>4. txn'[s] = 0 /\ sock'[s] = sock[s] BY <1>1, <1>3, <3>1, <3>2 DEF Typed
            <3>5. QED BY <1>3, <3>1, <3>2, <3>3, <3>4, CurrentStays
      <2>5. ASSUME NEW x \in Sockets, NEW q \in Requests, Reconnect(x, q) PROVE Current(s, t)
            <3>1. txn[x] # q BY <1>1, <2>5, NewRequest
            <3>2. log' = log /\ sock' = sock BY <1>1, <2>5, <3>1, ReconnectTypes
            <3>3. \/ chan' = [chan EXCEPT !.subs = @ \cup {x}] /\ Prepared(x, q, Known(x))
                  \/ ~chan.exists /\ current' = current
                  BY <1>1, <2>5, <3>1, ReconnectFits DEF ChannelFits
            <3>4. CASE ~chan.exists /\ current' = current
                  <4>1. chan.subs = {} BY <1>1, <3>4 DEF ChannelFits, NoChannel
                  <4>2. QED BY <1>3, <3>4, <4>1
            <3>5. CASE chan' = [chan EXCEPT !.subs = @ \cup {x}] /\ Prepared(x, q, Known(x))
                  <4>1. PICK k : k = Known(x) OBVIOUS
                  <4>2. k \in {0} \cup Events BY <1>1, <4>1, KnownFits
                  <4>3. QED BY <3>2, <3>5, <4>1, <4>2, PreparedKept
            <3>6. QED BY <3>3, <3>4, <3>5
      <2>6. ASSUME NEW q \in Requests, Provisioned(q) PROVE Current(s, t)
            <3>1. PICK x : x = req[q].socket OBVIOUS
            <3>2. PICK k : k = req[q].known OBVIOUS
            <3>3. /\ log' = log /\ sock' = sock /\ x \in Sockets
                  /\ chan' = [chan EXCEPT !.subs = @ \cup {x}] /\ Prepared(x, q, k)
                  BY <1>1, <2>6, <3>1, <3>2, ProvisionedFits
            <3>4. k \in {0} \cup Events
                  <4>1. req[q] \in Request BY <1>1 DEF Typed
                  <4>2. QED BY <3>2, <4>1 DEF Request
            <3>5. QED BY <3>3, <3>4, PreparedKept
      <2>7. ASSUME NEW q \in Requests, Read(q) \/ Rejected(q) PROVE Current(s, t)
            <3>1. PICK x : x = req[q].socket OBVIOUS
            <3>2. /\ chan' = chan /\ sock' = sock /\ seen' = seen /\ current' = current
                  /\ txn' = txn \/ txn' = [txn EXCEPT ![x] = 0]
                  BY <1>1, <2>7, <3>1, ReadFits, RejectedFits
            <3>3. t \in current[s] /\ txn'[s] = 0 BY <1>2, <1>3, <3>2
            <3>4. QED BY <1>3, <3>2, <3>3, CurrentStays
      <2>8. ASSUME NEW q \in Requests, Answered(q) PROVE Current(s, t)
            <3>1. PICK x : x = req[q].socket OBVIOUS
            <3>2. /\ log' = log /\ chan' = chan /\ sock' = sock /\ x \in Sockets
                  /\ req[q].stage = "waiting" /\ req[q].read # 0
                  /\ \/ UNCHANGED <<seen, txn, current>>
                     \/ /\ txn[x] = q
                        /\ txn' = [txn EXCEPT ![x] = 0]
                        /\ current' = [current EXCEPT ![x] = Covered(req[q].read)]
                        /\ \E told \in SUBSET Events :
                              /\ seen' = [seen EXCEPT ![x] = Seen(x, told)]
                              /\ Snapshot(req[q].read) \subseteq told
                              /\ req[q].buffer \subseteq told
                  <4>1. /\ log' = log /\ chan' = chan /\ sock' = sock
                        /\ x \in Sockets /\ req[q].stage = "waiting" /\ req[q].read # 0
                        BY <1>1, <2>8, <3>1, AnsweredFits
                  <4>2. \/ /\ req'[q].stage = "waiting" /\ req'[q].buffer = req[q].buffer
                           /\ req'[q].read = 0
                           /\ UNCHANGED <<up, seen, flight, txn, frame, current>>
                        \/ /\ req'[q].stage = "silent" /\ txn[x] # q
                           /\ UNCHANGED <<up, seen, flight, txn, frame, current>>
                        \/ /\ req'[q].stage = "done" /\ txn[x] = q
                           /\ txn' = [txn EXCEPT ![x] = 0]
                           /\ current' = [current EXCEPT ![x] = Covered(req[q].read)]
                           /\ flight' = [flight EXCEPT ![x] = Delivered(x, req[q].buffer)]
                           /\ frame' = [frame EXCEPT ![x] = Framed(x, req[q].buffer)]
                           /\ \E told \in SUBSET Events :
                                 /\ seen' = [seen EXCEPT ![x] = Seen(x, told)]
                                 /\ Snapshot(req[q].read) \subseteq told /\ req[q].buffer \subseteq told
                        BY <1>1, <2>8, <3>1, AnsweredFits, SMTT(60)
                  <4>3. QED BY <4>1, <4>2
            <3>3. CASE UNCHANGED <<seen, txn, current>>
                  BY <1>3, <3>2, <3>3, CurrentStays
            <3>4. CASE /\ txn[x] = q
                       /\ txn' = [txn EXCEPT ![x] = 0]
                       /\ current' = [current EXCEPT ![x] = Covered(req[q].read)]
                       /\ \E told \in SUBSET Events :
                             /\ seen' = [seen EXCEPT ![x] = Seen(x, told)]
                             /\ Snapshot(req[q].read) \subseteq told
                             /\ req[q].buffer \subseteq told
                  <4>1. PICK told \in SUBSET Events :
                              /\ seen' = [seen EXCEPT ![x] = Seen(x, told)]
                              /\ Snapshot(req[q].read) \subseteq told
                              /\ req[q].buffer \subseteq told
                        BY <3>4
                  <4>2. CASE s # x
                        <5>1. t \in current[s] BY <1>2, <3>4, <4>2
                        <5>2. seen'[s] = seen[s] /\ txn'[s] = 0
                              BY <1>2, <1>3, <3>4, <4>1, <4>2, <5>1
                        <5>3. QED BY <1>3, <3>2, <5>1, <5>2, CurrentStays
                  <4>3. CASE s = x
                        <5>1. s \in chan.subs BY <1>1, <3>1, <3>2, <3>4, <4>3 DEF TransactionsFit
                        <5>2. txn'[s] = 0 /\ seen'[s] = Seen(s, told)
                              BY <1>2, <3>2, <3>4, <4>1, <4>3
                        <5>3. \A n \in chan.window : n <= req[q].read \/ n \in req[q].buffer
                              BY <1>1, <3>1, <3>2, <3>4 DEF AnswersFit
                        <5>4. chan.window \in SUBSET Events /\ req[q].read \in {0} \cup Events
                              <6>1. req[q] \in Request BY <1>1 DEF Typed
                              <6>2. QED BY <1>1, <6>1 DEF Typed, Channel, Request
                        <5>5. \A n \in chan.window : log[n].turn = t => n \in told
                              <6>1. \A n \in chan.window : n \in Nat /\ n >= 1
                                    BY <5>4, BoundsAssumption DEF Events
                              <6>2. req[q].read \in Nat BY <5>4, BoundsAssumption DEF Events
                              <6>3. \A n \in chan.window : n <= req[q].read => n \in 1..req[q].read
                                    BY <6>1, <6>2
                              <6>4. t \in Covered(req[q].read) BY <1>2, <3>2, <3>4, <4>3
                              <6>5. QED BY <4>1, <5>3, <6>3, <6>4 DEF Snapshot
                        <5>6. sock[s] = "open" =>
                                 \A n \in told : log[n].turn = t => n <= Seen(s, told)[t]
                              <6>1. t \in Turns BY <1>2, <3>2, <3>4, <4>3 DEF Covered
                              <6>2. QED BY <1>1, <3>2, <4>3, <6>1, SeenFits
                        <5>7. QED BY <3>2, <5>1, <5>2, <5>5, <5>6 DEF Current
                  <4>4. QED BY <4>2, <4>3
            <3>5. QED BY <3>2, <3>3, <3>4
      <2>9. QED BY <2>1, <2>2, <2>3, <2>4, <2>5, <2>6, <2>7, <2>8, NextSteps DEF LoudStep
<1>5. ASSUME NEW r \in Requests, req'[r].stage = "waiting", txn'[req'[r].socket] = r,
             req'[r].read # 0, NEW n \in chan'.window
      PROVE  n <= req'[r].read \/ n \in req'[r].buffer
      <2>1. req[r].stage = "waiting" /\ txn[req[r].socket] = r /\ req[r].read # 0 =>
               \A m \in chan.window : m <= req[r].read \/ m \in req[r].buffer
            BY <1>1 DEF AnswersFit
      <2>2. CASE /\ req[r].stage = "waiting" /\ txn[req[r].socket] = r
                 /\ req'[r].buffer = req[r].buffer \cup {sent'} /\ req'[r].read = req[r].read
                 /\ chan'.window \subseteq chan.window \cup {sent'}
            BY <1>5, <2>1, <2>2
      <2>3. CASE /\ req[r].stage = "waiting" /\ txn[req[r].socket] = r
                 /\ req'[r].buffer = req[r].buffer /\ chan'.window = chan.window
                 /\ req'[r].read = req[r].read \/ req'[r].read = 0 \/ req'[r].read >= sent
            <3>1. CASE req'[r].read = req[r].read BY <1>5, <2>1, <2>3, <3>1
            <3>2. CASE req'[r].read >= sent
                  <4>1. n \in 1..sent BY <1>1, <1>5, <2>3 DEF ChannelFits
                  <4>2. sent \in Nat BY SentGrows
                  <4>3. req'[r].read \in Nat
                        <5>1. Typed' BY TypesKept
                        <5>2. req'[r] \in Request BY <5>1 DEF Typed
                        <5>3. req'[r].read \in {0} \cup Events BY <5>2 DEF Request
                        <5>4. QED BY <5>3, BoundsAssumption DEF Events
                  <4>4. QED BY <3>2, <4>1, <4>2, <4>3
            <3>3. QED BY <1>5, <2>3, <3>1, <3>2
      <2>4. QED BY <1>5, <2>2, <2>3, OpenTransactions
<1>6. QED BY <1>4, <1>5 DEF AnswersFit, HasAll, Current

(***************************************************************************)
(* The histories of the frames.                                            *)
(***************************************************************************)
LEMMA HistoriesKept ==
    ASSUME IInv, [Next]_vars
    PROVE  Histories'
<1>1. Typed /\ Histories /\ RequestsFit BY DEF IInv, Subscribed
<1>2. rewound \subseteq Sockets /\ joined \subseteq Sockets /\ chan.subs \subseteq Sockets
      BY <1>1 DEF Typed, Channel, Histories
<1>3. ASSUME UNCHANGED <<rewound, joined>> PROVE Histories' BY <1>2, <1>3 DEF Histories
<1>4. CASE \/ UNCHANGED vars \/ Commit \/ RunLost \/ UpstreamOpens \/ UpstreamLost \/ Cleanup
           \/ \E s \in Sockets : Open(s) \/ Vanish(s) \/ ReleaseSocket(s) \/ Continue(s)
           \/ \E s \in Sockets, t \in Turns : Receipt(s, t) \/ Retry(s, t)
           \/ \E r \in Requests : Read(r) \/ Rejected(r)
      <2>1. UNCHANGED <<rewound, joined>>
            BY <1>4 DEF vars, frames, Commit, RunLost, UpstreamOpens, UpstreamLost, Cleanup,
                        Open, Vanish, ReleaseSocket, Continue, Receipt, Retry, Read, Rejected
      <2>2. QED BY <1>3, <2>1
<1>5. CASE EventArrives
      <2>1. joined' = joined /\ rewound' \subseteq rewound \cup chan.subs
            BY <1>5 DEF EventArrives
      <2>2. QED BY <1>2, <2>1 DEF Histories
<1>6. ASSUME NEW s \in Sockets, StartOrJoin(s) PROVE Histories'
      <2>1. /\ joined' = joined \/ joined' = joined \cup {s}
            /\ rewound' = rewound \/ rewound' = rewound \cup {s}
            BY <1>6 DEF StartOrJoin, SendTo, frames
      <2>2. QED BY <1>2, <2>1 DEF Histories
<1>7. ASSUME NEW s \in Sockets, NEW r \in Requests, Reconnect(s, r) PROVE Histories'
      <2>1. rewound' = rewound /\ (joined' = joined \/ joined' = joined \ {s})
            BY <1>7 DEF Reconnect, Prepare, frames
      <2>2. QED BY <1>2, <2>1 DEF Histories
<1>8. ASSUME NEW r \in Requests, Provisioned(r) PROVE Histories'
      <2>1. rewound' = rewound /\ joined' = joined \ {req[r].socket}
            BY <1>8 DEF Provisioned, Prepare
      <2>2. QED BY <1>2, <2>1 DEF Histories
<1>9. ASSUME NEW r \in Requests, Answered(r) PROVE Histories'
      <2>1. \/ UNCHANGED <<rewound, joined>>
            \/ /\ joined' = joined \ {req[r].socket}
               /\ rewound' = rewound \/ rewound' = rewound \cup {req[r].socket}
            BY <1>9 DEF Answered, Publish, frames
      <2>2. req[r].socket \in Sockets BY <1>1, <1>9 DEF RequestsFit, Started, Answered
      <2>3. QED BY <1>2, <2>1, <2>2 DEF Histories
<1>10. QED BY <1>4, <1>5, <1>6, <1>7, <1>8, <1>9 DEF Next

\* A socket whose transaction goes on is sent nothing, unless it joins.
LEMMA HeldBack ==
    ASSUME IInv, [Next]_vars, NEW s \in Sockets, txn[s] # 0, txn'[s] = txn[s], s \notin joined'
    PROVE  s \notin joined /\ frame'[s] = frame[s]
<1>1. Typed /\ ChannelFits /\ RequestsFit /\ TransactionsFit /\ FramesFit
      BY DEF IInv, Subscribed
<1>2. frame \in [Sockets -> [Turns -> Events \cup {0}]] /\ txn \in [Sockets -> Requests \cup {0}]
      BY <1>1 DEF Typed
<1>3. CASE \/ UNCHANGED vars \/ Commit \/ RunLost \/ UpstreamOpens \/ UpstreamLost \/ Cleanup
           \/ \E x \in Sockets : Open(x) \/ Vanish(x) \/ ReleaseSocket(x) \/ Continue(x)
           \/ \E x \in Sockets, t \in Turns : Receipt(x, t)
           \/ \E r \in Requests : Read(r) \/ Rejected(r)
      BY <1>3 DEF vars, frames, Commit, RunLost, UpstreamOpens, UpstreamLost, Cleanup, Open,
                  Vanish, ReleaseSocket, Continue, Receipt, Read, Rejected
<1>4. ASSUME NEW x \in Sockets, NEW t \in Turns, Retry(x, t)
      PROVE  s \notin joined /\ frame'[s] = frame[s]
      <2>1. /\ joined' = joined
            /\ frame' = frame \/ frame' = [frame EXCEPT ![x][t] = flight[x][t].event]
            BY <1>4 DEF Retry
      <2>2. flight[x][t].event = frame[x][t] BY <1>1, <1>4 DEF Retry, FramesFit
      <2>3. [frame EXCEPT ![x][t] = frame[x][t]] = frame BY <1>2
      <2>4. QED BY <2>1, <2>2, <2>3
<1>5. CASE EventArrives
      <2>1. joined' = joined BY <1>5 DEF EventArrives
      <2>2. frame'[s] = frame[s] BY <1>1, <1>5, ArrivalFits
      <2>3. QED BY <2>1, <2>2
<1>6. ASSUME NEW x \in Sockets, StartOrJoin(x)
      PROVE  s \notin joined /\ frame'[s] = frame[s]
      <2>1. CASE UNCHANGED frames BY <2>1 DEF frames
      <2>2. CASE /\ joined' = IF txn[x] = 0 THEN joined ELSE joined \cup {x}
                 /\ \E S : frame' = [frame EXCEPT ![x] = Framed(x, S)]
            BY <1>2, <2>2
      <2>3. QED BY <1>6, <2>1, <2>2 DEF StartOrJoin, SendTo
<1>7. ASSUME NEW x \in Sockets, NEW r \in Requests, Reconnect(x, r)
      PROVE  s \notin joined /\ frame'[s] = frame[s]
      <2>1. txn[x] # r BY <1>1, <1>7, NewRequest
      <2>2. frame' = frame BY <1>1, <1>7, <2>1, ReconnectFits DEF ChannelFits
      <2>3. txn' = [txn EXCEPT ![x] = r] \/ txn' = [txn EXCEPT ![x] = 0]
            BY <1>7 DEF Reconnect, Prepare
      <2>4. s # x BY <1>2, <2>1, <2>3 DEF Requests
      <2>5. joined \ {x} \subseteq joined' BY <1>7 DEF Reconnect, Prepare, frames
      <2>6. QED BY <2>2, <2>4, <2>5
<1>8. ASSUME NEW r \in Requests, Provisioned(r)
      PROVE  s \notin joined /\ frame'[s] = frame[s]
      <2>1. PICK x : x = req[r].socket OBVIOUS
      <2>2. /\ x \in Sockets /\ req[r].stage = "provisioning" /\ frame' = frame
            /\ Prepared(x, r, req[r].known)
            BY <1>1, <1>8, <2>1, ProvisionedFits
      <2>3. txn' = [txn EXCEPT ![x] = r] \/ txn' = [txn EXCEPT ![x] = 0]
            BY <2>2 DEF Prepared
      <2>4. txn[x] # r
            <3>1. r # 0 BY DEF Requests
            <3>2. QED BY <1>1, <2>2, <3>1 DEF TransactionsFit
      <2>5. s # x BY <1>2, <2>2, <2>3, <2>4
      <2>6. joined' = joined \ {x} BY <1>8, <2>1 DEF Provisioned, Prepare
      <2>7. QED BY <2>2, <2>5, <2>6
<1>9. ASSUME NEW r \in Requests, Answered(r)
      PROVE  s \notin joined /\ frame'[s] = frame[s]
      <2>1. PICK x : x = req[r].socket OBVIOUS
      <2>2. \/ UNCHANGED frames
            \/ /\ joined' = joined \ {x} /\ txn' = [txn EXCEPT ![x] = 0]
               /\ \E f : frame' = [frame EXCEPT ![x] = f]
            BY <1>9, <2>1 DEF Answered, Publish
      <2>3. CASE UNCHANGED frames BY <2>3 DEF frames
      <2>4. CASE /\ joined' = joined \ {x} /\ txn' = [txn EXCEPT ![x] = 0]
                 /\ \E f : frame' = [frame EXCEPT ![x] = f]
            <3>1. s # x BY <1>2, <2>4
            <3>2. QED BY <1>2, <2>4, <3>1
      <2>5. QED BY <2>2, <2>3, <2>4
<1>10. QED BY <1>3, <1>4, <1>5, <1>6, <1>7, <1>8, <1>9 DEF Next

LEMMA BuffersKept ==
    ASSUME IInv, [Next]_vars
    PROVE  BuffersFit'
<1>1. Typed /\ Typed' /\ ChannelFits /\ RequestsFit /\ TransactionsFit /\ FramesFit /\ BuffersFit
      BY TypesKept DEF IInv, Subscribed
<1>2. LogGrows BY TypesKept
<1>3. sent \in Nat /\ sent' \in Nat /\ sent <= sent' /\ sent <= Len(log) /\ Len(log) \in Nat
      BY SentGrows
<1>4. SUFFICES ASSUME NEW r \in Requests, req'[r].stage = "waiting",
                      txn'[req'[r].socket] = r, req'[r].socket \notin joined',
                      NEW n \in req'[r].buffer, NEW t \in Turns, log'[n].turn = t
               PROVE  n > frame'[req'[r].socket][t]
      BY DEF BuffersFit
<1>5. CASE req'[r].buffer = {} BY <1>4, <1>5
<1>6. CASE req[r].stage = "waiting" /\ txn[req[r].socket] = r
      <2>1. PICK s \in Sockets : s = req[r].socket BY <1>1, <1>6 DEF RequestsFit, Started
      <2>2. req'[r].socket = s
            <3>1. Started(r) BY <1>6 DEF Started
            <3>2. QED BY <2>1, <3>1, RequestsPersist
      <2>3. s \notin joined /\ frame'[s] = frame[s]
            <3>1. r # 0 BY DEF Requests
            <3>2. QED BY <1>4, <1>6, <2>1, <2>2, <3>1, HeldBack
      <2>4. frame[s][t] \in Nat /\ (frame[s][t] # 0 => frame[s][t] <= sent)
            <3>1. frame[s][t] \in Events \cup {0} /\ MaxEvents \in Nat
                  BY <1>1, BoundsAssumption DEF Typed
            <3>2. frame[s][t] # 0 => frame[s][t] <= sent BY <1>1 DEF FramesFit
            <3>3. QED BY <3>1, <3>2 DEF Events
      <2>5. CASE n = sent' /\ sent' = sent + 1 BY <1>3, <2>2, <2>3, <2>4, <2>5
      <2>6. CASE n \in req[r].buffer
            <3>1. n <= sent BY <1>1, <1>6, <2>6 DEF FramesFit
            <3>2. n \in Nat /\ n >= 1
                  <4>1. req[r] \in Request BY <1>1 DEF Typed
                  <4>2. n \in Events BY <2>6, <4>1 DEF Request
                  <4>3. QED BY <4>2, BoundsAssumption DEF Events
            <3>3. log'[n] = log[n] BY <1>2, <1>3, <3>1, <3>2 DEF LogGrows
            <3>4. n > frame[s][t] BY <1>1, <1>4, <1>6, <2>1, <2>3, <2>6, <3>3 DEF BuffersFit
            <3>5. QED BY <2>2, <2>3, <3>4
      <2>7. QED BY <1>4, <1>5, <2>5, <2>6, OpenTransactions
<1>7. QED BY <1>4, <1>5, <1>6, OpenTransactions

\* An event goes back in a join, or in the answer of a reconnect during which the socket
\* joined.
LEMMA Rewinding ==
    ASSUME IInv, [Next]_vars, NEW s \in rewound' \ rewound
    PROVE  \/ StartOrJoin(s)
           \/ s \in joined /\ \E r \in Requests : req[r].socket = s /\ Answered(r)
<1>1. Typed /\ ChannelFits /\ RequestsFit /\ TransactionsFit /\ FramesFit /\ BuffersFit
      BY DEF IInv, Subscribed
<1>2. log \in Seq(Record) /\ sent \in Nat /\ sent <= Len(log) /\ Len(log) \in Nat
      BY <1>1, SentGrows DEF Typed
<1>3. CASE \/ UNCHANGED vars \/ Commit \/ RunLost \/ UpstreamOpens \/ UpstreamLost \/ Cleanup
           \/ \E x \in Sockets : Open(x) \/ Vanish(x) \/ ReleaseSocket(x) \/ Continue(x)
           \/ \E x \in Sockets, t \in Turns : Receipt(x, t) \/ Retry(x, t)
           \/ \E x \in Sockets, r \in Requests : Reconnect(x, r)
           \/ \E r \in Requests : Provisioned(r) \/ Read(r) \/ Rejected(r)
      <2>1. ASSUME \/ UNCHANGED vars \/ Commit \/ RunLost \/ UpstreamOpens \/ UpstreamLost
                   \/ Cleanup
                   \/ \E x \in Sockets : \/ Open(x) \/ Vanish(x) \/ ReleaseSocket(x)
                                        \/ Continue(x)
            PROVE  rewound' = rewound
            BY <2>1 DEF vars, frames, Commit, RunLost, UpstreamOpens, UpstreamLost, Cleanup,
                        Open, Vanish, ReleaseSocket, Continue
      <2>2. ASSUME NEW x \in Sockets, NEW t \in Turns, Receipt(x, t) \/ Retry(x, t)
            PROVE  rewound' = rewound
            BY <2>2 DEF frames, Receipt, Retry
      <2>3. ASSUME NEW x \in Sockets, NEW r \in Requests, Reconnect(x, r)
            PROVE  rewound' = rewound
            BY <2>3 DEF frames, Reconnect, Prepare
      <2>4. ASSUME NEW r \in Requests, Provisioned(r) \/ Read(r) \/ Rejected(r)
            PROVE  rewound' = rewound
            <3>1. CASE Provisioned(r) BY <3>1 DEF Provisioned, Prepare
            <3>2. CASE Read(r) BY <3>2 DEF Read, frames
            <3>3. CASE Rejected(r) BY <3>3 DEF Rejected, frames
            <3>4. QED BY <2>4, <3>1, <3>2, <3>3
      <2>5. rewound' = rewound BY <1>3, <2>1, <2>2, <2>3, <2>4
      <2>6. QED BY <2>5
<1>4. CASE EventArrives
      <2>1. PICK e : e = sent + 1 OBVIOUS
      <2>2. s \in chan.subs /\ Rewinds(s, {e}) BY <1>4, <2>1 DEF EventArrives
      <2>3. e \in 1..Len(log) /\ s \in Sockets
            BY <1>1, <1>2, <1>4, <2>1, <2>2 DEF EventArrives, Typed, Channel
      <2>4. PICK t \in Turns : t = log[e].turn
            <3>1. log[e] \in Record BY <1>2, <2>3
            <3>2. QED BY <3>1 DEF Record
      <2>5. e < frame[s][t] BY <2>2, <2>4 DEF Rewinds
      <2>6. frame[s][t] \in Nat
            <3>1. frame[s][t] \in Events \cup {0} BY <1>1, <2>3 DEF Typed
            <3>2. QED BY <3>1, BoundsAssumption DEF Events
      <2>7. frame[s][t] # 0 => frame[s][t] <= sent BY <1>1, <2>3 DEF FramesFit
      <2>8. QED BY <1>2, <2>1, <2>5, <2>6, <2>7
<1>5. ASSUME NEW x \in Sockets, StartOrJoin(x) PROVE StartOrJoin(s)
      <2>1. rewound' = rewound \/ rewound' = rewound \cup {x}
            BY <1>5 DEF StartOrJoin, SendTo, frames
      <2>2. QED BY <1>5, <2>1
<1>6. ASSUME NEW r \in Requests, Answered(r) PROVE req[r].socket = s /\ s \in joined
      <2>1. PICK x : x = req[r].socket OBVIOUS
      <2>2. /\ req[r].stage = "waiting" /\ txn[x] = r
            /\ s = x /\ Rewinds(x, Buffered(r))
            BY <1>6, <2>1 DEF Answered, Publish, frames
      <2>3. chan.exists /\ x \in Sockets
            BY <1>1, <2>1, <2>2 DEF RequestsFit, Started, Pending
      <2>4. PICK n \in req[r].buffer : n < frame[x][log[n].turn]
            BY <2>2, <2>3 DEF Rewinds, Buffered
      <2>5. n \in 1..Len(log)
            <3>1. req[r] \in Request BY <1>1 DEF Typed
            <3>2. n \in Nat /\ n >= 1
                  <4>1. n \in Events BY <3>1 DEF Request
                  <4>2. QED BY <4>1, BoundsAssumption DEF Events
            <3>3. n <= sent BY <1>1, <2>1, <2>2 DEF FramesFit
            <3>4. QED BY <1>2, <3>2, <3>3
      <2>6. PICK t \in Turns : t = log[n].turn
            <3>1. log[n] \in Record BY <1>2, <2>5
            <3>2. QED BY <3>1 DEF Record
      <2>7. frame[x][t] \in Nat
            <3>1. frame[x][t] \in Events \cup {0} BY <1>1, <2>3 DEF Typed
            <3>2. QED BY <3>1, BoundsAssumption DEF Events
      <2>8. n \in Nat /\ ~(n > frame[x][t]) BY <2>4, <2>5, <2>6, <2>7
      <2>9. x \in joined BY <1>1, <2>1, <2>2, <2>6, <2>8 DEF BuffersFit
      <2>10. QED BY <2>1, <2>2, <2>9
<1>7. QED BY <1>3, <1>4, <1>5, <1>6 DEF Next

(***************************************************************************)
(* The theorems.                                                           *)
(***************************************************************************)
LEMMA InvariantKept ==
    ASSUME IInv, [Next]_vars
    PROVE  IInv'
<1>1. Subscribed' BY SubscribersKept
<1>2. ChannelFits' BY ChannelKept
<1>3. RequestsFit' BY RequestsKept
<1>4. TransactionsFit' BY TransactionsKept
<1>5. FramesFit' BY FramesKept
<1>6. AnswersFit' BY AnswersKept
<1>7. SilentReplaced' BY SilentKept
<1>8. Histories' /\ BuffersFit' BY HistoriesKept, BuffersKept
<1>9. QED BY <1>1, <1>2, <1>3, <1>4, <1>5, <1>6, <1>7, <1>8 DEF IInv

\* The parts of the channel fit together in every reachable state: the connection with the
\* channel, the transactions with the reconnects, what is in flight with what was sent,
\* and what is buffered with what was sent and with what a snapshot covers.
THEOREM ChannelInvariant == Spec => []IInv
<1>1. Init => IInv BY InitFits
<1>2. IInv /\ [Next]_vars => IInv' BY InvariantKept
<1>3. QED BY <1>1, <1>2, PTL DEF Spec

\* The variables have their types, and the proxy keeps a closed socket as a subscriber only
\* if a reconnect of it was provisioning the channel when it was closed.
THEOREM SubscribersAreThere == Spec => []SubscribersOK
<1>1. IInv => SubscribersOK BY DEF IInv, Subscribed, Histories, Typed, SubscribersOK, TypeOK
<1>2. QED BY <1>1, ChannelInvariant, PTL

\* A reconnect ends without an answer only with its socket, for another reconnect of the
\* socket, or with a channel whose run has ended: as long as a reconnect waits, its channel
\* is not taken for an unused one.
THEOREM SilenceIsExplained == Spec => SilenceHasReason
<1> DEFINE Reason(r) ==
        \/ sock'[req[r].socket] = "closed"
        \/ \E p \in Requests : /\ p # r /\ req'[p].socket = req[r].socket
                               /\ p > r \/ req'[p].provisioned
        \/ req'[r].stage = "lost" /\ chan.retained /\ ~chan'.exists
<1>1. ASSUME IInv, [Next]_vars
      PROVE  [\A r \in Requests :
                 Pending(r) /\ req'[r].stage \in {"silent", "lost"} => Reason(r)]_vars
      <2> SUFFICES ASSUME NEW r \in Requests, Pending(r), req'[r].stage \in {"silent", "lost"}
                   PROVE  Reason(r)
          OBVIOUS
      <2>1. Typed /\ ChannelFits /\ RequestsFit /\ TransactionsFit
            BY <1>1 DEF IInv, Subscribed
      <2>2. Started(r) BY DEF Pending, Started
      <2>3. req'[r].socket = req[r].socket BY <1>1, <2>2, RequestsPersist
      <2>4. CASE req'[r].stage = "silent"
            <3>1. SilentReplaced' BY <1>1, InvariantKept DEF IInv
            <3>2. QED BY <2>3, <2>4, <3>1 DEF SilentReplaced
      <2>5. CASE req'[r].stage = "lost"
            <3>1. CASE QuietStep
                  <4>1. req' = req BY <2>1, <3>1, QuietStepsFit DEF Quiet
                  <4>2. QED BY <2>5, <4>1 DEF Pending
            <3>2. CASE EventArrives
                  <4>1. req'[r].stage = req[r].stage BY <2>1, <3>2, ArrivalFits
                  <4>2. QED BY <2>5, <4>1 DEF Pending
            <3>3. CASE Cleanup
                  <4>1. ~chan'.exists /\ req[r].stage = "waiting"
                        <5>1. chan' = NoChannel BY <2>1, <3>3, CleanupFits
                        <5>2. req[r].stage # "provisioning" BY <3>3 DEF Cleanup
                        <5>3. QED BY <5>1, <5>2 DEF NoChannel, Pending
                  <4>2. CASE chan.retained BY <2>5, <4>1, <4>2
                  <4>3. CASE chan.subs = {}
                        <5>1. Replaced(r) BY <2>1, <4>1, <4>3 DEF TransactionsFit
                        <5>2. PICK p \in Requests : /\ p # r /\ req[p].socket = req[r].socket
                                                    /\ req[p].provisioned
                              BY <5>1 DEF Replaced
                        <5>3. req[r].socket \in Sockets BY <2>1, <2>2 DEF RequestsFit
                        <5>4. Started(p) BY <1>1, <5>2, <5>3, OfSocket
                        <5>5. req'[p].socket = req[r].socket /\ req'[p].provisioned
                              BY <1>1, <5>2, <5>4, RequestsPersist
                        <5>6. QED BY <5>2, <5>5
                  <4>4. QED BY <3>3, <4>2, <4>3 DEF Cleanup
            <3>4. ASSUME NEW s \in Sockets, ReleaseSocket(s) PROVE FALSE
                  <4>1. req'[r] = req[r] \/ req'[r].stage = "silent"
                        BY <2>1, <3>4, ReleaseFits
                  <4>2. QED BY <2>5, <4>1 DEF Pending
            <3>5. ASSUME NEW s \in Sockets, NEW q \in Requests, Reconnect(s, q) PROVE FALSE
                  <4>1. txn[s] # q /\ req[q].stage = "none" BY <2>1, <3>5, NewRequest
                  <4>2. q # r BY <4>1 DEF Pending
                  <4>3. req'[r] = IF r = txn[s] THEN Ending(req[r], "silent") ELSE req[r]
                        <5>1. \A p \in Requests : p # q =>
                                 req'[p] = IF p = txn[s] THEN Ending(req[p], "silent") ELSE req[p]
                              BY <2>1, <3>5, <4>1, ReconnectRequests
                        <5>2. QED BY <4>2, <5>1
                  <4>4. Ending(req[r], "silent").stage = "silent"
                        BY <2>1, EndingFits DEF Typed, Stages
                  <4>5. QED BY <2>5, <4>3, <4>4 DEF Pending
            <3>6. ASSUME NEW q \in Requests, Provisioned(q) PROVE FALSE
                  <4>1. PICK s : s = req[q].socket OBVIOUS
                  <4>2. /\ \A p \in Requests : p # q => req'[p] = req[p]
                        /\ Prepared(s, q, req[q].known)
                        BY <2>1, <3>6, <4>1, ProvisionedFits
                  <4>3. req'[q].stage # "lost" BY <4>2 DEF Prepared
                  <4>4. QED BY <2>5, <4>2, <4>3 DEF Pending
            <3>7. ASSUME NEW q \in Requests, Read(q) \/ Answered(q) \/ Rejected(q) PROVE FALSE
                  <4>1. PICK s : s = req[q].socket OBVIOUS
                  <4>2. /\ \A p \in Requests : p # q => req'[p] = req[p]
                        /\ req'[q].stage \in {"waiting", "silent", "failed", "done"}
                        BY <2>1, <3>7, <4>1, ReadFits, AnsweredFits, RejectedFits
                  <4>3. QED BY <2>5, <4>2 DEF Pending
            <3>8. QED BY <1>1, <3>1, <3>2, <3>3, <3>4, <3>5, <3>6, <3>7, NextSteps DEF LoudStep
      <2>6. QED BY <2>4, <2>5
<1>2. QED BY <1>1, ChannelInvariant, PTL DEF Spec, SilenceHasReason

\* A browser whose reconnect was completed has the last event in the window of each turn the
\* answer covered: of a snapshot, those it tells of, however many that may be, and later
\* ones; of the window, those of which the browser has what it said it knows.  What arrived
\* while its snapshot was on its way was buffered for it, and reached it.
THEOREM CompletedIsCurrent == Spec => []CompletedMeansCurrent
<1>1. IInv => CompletedMeansCurrent
      <2> SUFFICES ASSUME IInv, NEW s \in chan.subs, NEW t \in current[s], sock[s] = "open"
                   PROVE  seen[s][t] >= Last(chan.window, t)
          BY DEF CompletedMeansCurrent
      <2>1. Typed /\ s \in Sockets BY DEF IInv, Subscribed, Typed, Channel
      <2>2. HasAll(s, t, chan.window) /\ t \in Turns BY <2>1 DEF IInv, AnswersFit, Typed
      <2>3. PICK S : S = chan.window OBVIOUS
      <2>4. MaxEvents \in Nat /\ S \in SUBSET (1..MaxEvents)
            BY <2>1, <2>3, BoundsAssumption DEF Typed, Channel, Events
      <2>5. /\ Last(S, t) \in 0..MaxEvents
            /\ Last(S, t) # 0 => Last(S, t) \in S /\ log[Last(S, t)].turn = t
            BY <2>4, LastFits
      <2>6. seen[s][t] \in Nat BY <2>1, <2>2, SeenStays
      <2>7. CASE Last(S, t) = 0 BY <2>3, <2>6, <2>7
      <2>8. CASE Last(S, t) # 0
            <3>1. Last(S, t) <= seen[s][t] BY <2>2, <2>3, <2>5, <2>8 DEF HasAll
            <3>2. QED BY <2>3, <2>4, <2>5, <2>6, <3>1
      <2>9. QED BY <2>7, <2>8
<1>2. QED BY <1>1, ChannelInvariant, PTL

\* No step leaves a socket with an older event of a turn as the last it was sent.  An event
\* goes back on the way only in a join, and in the answer of a reconnect during which the
\* socket joined: what is buffered for a socket that has not joined is later than all it was
\* sent.
THEOREM FramesOnlyAdvance == Spec => NoFrameGoesBack
<1> DEFINE Ahead == \A s \in Sockets, t \in Turns : frame'[s][t] >= frame[s][t]
           Back(s) == \/ StartOrJoin(s)
                      \/ s \in joined /\ \E r \in Requests : req[r].socket = s /\ Answered(r)
<1>1. ASSUME IInv, [Next]_vars
      PROVE  [Ahead /\ \A s \in rewound' \ rewound : Back(s)]_vars
      <2>1. ASSUME NEW s \in Sockets, NEW t \in Turns PROVE frame'[s][t] >= frame[s][t]
            <3>1. FrameMoves(s, t) BY <1>1, FramesMove
            <3>2. Typed BY <1>1 DEF IInv, Subscribed
            <3>3. frame[s][t] \in Events \cup {0} BY <3>2 DEF Typed
            <3>4. frame[s][t] \in Nat BY <3>3, BoundsAssumption DEF Events
            <3>5. QED BY <3>1, <3>4 DEF FrameMoves
      <2>2. \A s \in rewound' \ rewound : Back(s) BY <1>1, Rewinding
      <2>3. QED BY <2>1, <2>2
<1>2. QED BY <1>1, ChannelInvariant, PTL DEF Spec, NoFrameGoesBack

\* No end of a reconnect, be it an answer, a rejection, a replacement or the loss of its
\* socket, closes or changes the connection a run has.
THEOREM RunsAreLeftAlone == Spec => QueriesLeaveRunsAlone
<1>1. ASSUME IInv, [Next]_vars
      PROVE  [\A r \in Requests :
                 Pending(r) /\ ~Pending(r)' /\ req'[r].stage # "lost" /\ up.purpose = "run"
                    => up' = up]_vars
      <2> SUFFICES ASSUME NEW r \in Requests, Pending(r), ~Pending(r)',
                          req'[r].stage # "lost", up.purpose = "run"
                   PROVE  up' = up
          OBVIOUS
      <2>1. Typed /\ ChannelFits /\ RequestsFit /\ TransactionsFit
            BY <1>1 DEF IInv, Subscribed
      <2>2. chan.exists BY <2>1 DEF RequestsFit
      <2>3. CASE QuietStep
            <3>1. req' = req BY <2>1, <2>3, QuietStepsFit DEF Quiet
            <3>2. QED BY <3>1 DEF Pending
      <2>4. CASE EventArrives
            <3>1. req'[r].stage = req[r].stage BY <2>1, <2>4, ArrivalFits
            <3>2. QED BY <3>1 DEF Pending
      <2>5. CASE Cleanup
            <3>1. IF req[r].stage = "waiting" THEN req'[r].stage = "lost"
                  ELSE req[r].stage # "provisioning"
                  BY <2>1, <2>5, CleanupFits
            <3>2. QED BY <3>1 DEF Pending
      <2>6. ASSUME NEW x \in Sockets, ReleaseSocket(x) PROVE up' = up
            BY <2>1, <2>6, ReleaseFits
      <2>7. ASSUME NEW x \in Sockets, NEW q \in Requests, Reconnect(x, q) PROVE up' = up
            <3>1. txn[x] # q BY <2>1, <2>7, NewRequest
            <3>2. (up.purpose = "run" => up' = up) \/ ~chan.exists
                  BY <2>1, <2>7, <3>1, ReconnectFits DEF ChannelFits
            <3>3. QED BY <2>2, <3>2
      <2>8. ASSUME NEW q \in Requests, Provisioned(q) \/ Answered(q) \/ Rejected(q)
            PROVE  up' = up
            <3>1. PICK x : x = req[q].socket OBVIOUS
            <3>2. QED BY <2>1, <2>8, <3>1, ProvisionedFits, AnsweredFits, RejectedFits
      <2>9. ASSUME NEW q \in Requests, Read(q) PROVE FALSE
            <3>1. /\ req[q].stage = "waiting" /\ req'[q].stage = "waiting"
                  /\ \A p \in Requests : p # q => req'[p] = req[p]
                  BY <2>1, <2>9, ReadFits
            <3>2. req'[r].stage = req[r].stage BY <3>1
            <3>3. QED BY <3>2 DEF Pending
      <2>10. QED BY <1>1, <2>3, <2>4, <2>5, <2>6, <2>7, <2>8, <2>9, NextSteps DEF LoudStep
<1>2. QED BY <1>1, ChannelInvariant, PTL DEF Spec, QueriesLeaveRunsAlone
=============================================================================
