------------------------- MODULE SessionOutboxProofs -------------------------
(***************************************************************************)
(* What the outbox guarantees for any turns, consumers and dispatchers,    *)
(* any number of events and faults, and any limits.                        *)
(***************************************************************************)
EXTENDS SessionOutbox, FiniteSetTheorems, TLAPS

\* The events of a sequence are in the order of their commits.
Ordered(s) ==
    \A i, j \in DOMAIN s :
        i < j /\ s[i] # SessionReceipt /\ s[j] # SessionReceipt => s[i] < s[j]

(***************************************************************************)
(* The invariant, part by part.  First the commits: the events of the      *)
(* session's own scope are numbered by the manifest, those of a message    *)
(* scope belong to the turn of that name.                                  *)
(***************************************************************************)
CommitsFit ==
    /\ \A e \in Events : IF committed[e].scope = SessionScope
                         THEN committed[e].sequence <= manifest.sequence
                         ELSE committed[e].turn = committed[e].scope
    /\ \A t \in Turns : manifest.turns[t] = "live" => \E e \in Events : committed[e].turn = t
    /\ floors[SessionScope] <= manifest.sequence
    /\ SequencesIncrease

(***************************************************************************)
(* The receipts of the manifest are of turns it has, and the one that may  *)
(* be missing in the journal is that of the very last commit.              *)
(***************************************************************************)
Unpublished == Elements(manifest.receipts) \cap Missing

ReceiptsFit ==
    /\ Ordered(manifest.receipts)
    /\ \A e \in Elements(manifest.receipts) \cap Events :
          committed[e].scope = SessionScope /\ ~Removed(e)
    /\ \A e \in Unpublished : \A f \in Events : f <= e

(***************************************************************************)
(* A command adds to a turn that is not removed, or removes turns; before  *)
(* it replaces the manifest, no receipt is missing in the journal.         *)
(***************************************************************************)
CommandFits ==
    command.phase # "idle" =>
        /\ command.phase = "materialized" => Unpublished = {}
        /\ command.removes = {} => command.turn \in Turns
        /\ command.removes = {} => manifest.turns[command.turn] # "removed"
        /\ command.phase = "saved" => \A t \in command.removes : manifest.turns[t] = "removed"

(***************************************************************************)
(* What has left the journal was removed with its turn or lies below the   *)
(* floor of its scope, as does what a compaction is about to reclaim.      *)
(***************************************************************************)
JournalFits ==
    /\ Ordered(journal)
    /\ tombstones \subseteq gone
    /\ \A e \in tombstones : Removed(e)
    /\ compacting \subseteq Elements(journal)
    /\ gone \cap Elements(journal) = {}
    /\ Events = gone \cup Elements(journal) \cup Unpublished
    /\ \A e \in gone \cup compacting :
          Removed(e) \/ committed[e].sequence <= floors[committed[e].scope]

(***************************************************************************)
(* Nothing is acknowledged that was not sent.  A batch is in order, sent   *)
(* up to where its dispatcher is, and whatever of its scopes is not in it  *)
(* before an event was sent or has left the outbox.                        *)
(***************************************************************************)
Precede(b, k, out) ==
    \A f \in Events :
        f < b[k] /\ committed[f].scope = committed[b[k]].scope =>
            f \in out \/ \E j \in DOMAIN b : j < k /\ b[j] = f

DispatchFits ==
    /\ \A c \in Consumers : aged[c] \subseteq delivered[c] /\ delivered[c] \subseteq sent[c]
    /\ \A d \in Dispatchers :
          LET b == dispatch[d].batch
          IN  /\ \A k \in DOMAIN b : k <= dispatch[d].sends => b[k] \in sent[ConsumerOf[d]]
              /\ \A k \in DOMAIN b : Precede(b, k, sent[ConsumerOf[d]] \cup gone)
    /\ SentInOrder

AttemptsFit ==
    /\ \A c \in Consumers : attempted[c] \cap compacting \subseteq delivered[c]
    /\ AttemptsAreKept

(***************************************************************************)
(* Before the first fault, an event of a removed turn is in the journal    *)
(* only while the command that removed the turn goes on.                   *)
(***************************************************************************)
Silent ==
    faults = 0 =>
        /\ up
        /\ \A e \in Elements(journal) :
              committed[e].scope = SessionScope /\ Removed(e) =>
                  command.phase = "saved" /\ committed[e].turn \in command.removes

IInv ==
    /\ TypeOK /\ CommitsFit /\ ReceiptsFit /\ CommandFits /\ JournalFits
    /\ DispatchFits /\ AttemptsFit /\ Silent

-----------------------------------------------------------------------------
(***************************************************************************)
(* Filtered sequences.  The numbers of a finite set are told apart by how  *)
(* many of them are smaller, and by the pigeonhole principle each number   *)
(* of smaller ones occurs.                                                 *)
(***************************************************************************)
LEMMA AscendingFits ==
    ASSUME NEW I \in SUBSET Nat, IsFiniteSet(I)
    PROVE  /\ Cardinality(I) \in Nat
           /\ Ascending(I) \in [1..Cardinality(I) -> I]
           /\ \A j, k \in 1..Cardinality(I) : j < k => Ascending(I)[j] < Ascending(I)[k]
           /\ \A i \in I : \E k \in 1..Cardinality(I) : Ascending(I)[k] = i
<1> DEFINE Below(i) == {j \in I : j < i}
           N == Cardinality(I)
           rank == [i \in I |-> Cardinality(Below(i))]
<1>1. N \in Nat BY FS_CardinalityType
<1>2. ASSUME NEW i \in I
      PROVE  IsFiniteSet(Below(i)) /\ rank[i] \in 0..(N - 1)
      <2>1. IsFiniteSet(I \ {i}) /\ Cardinality(I \ {i}) = N - 1 BY FS_RemoveElement
      <2>2. Below(i) \in SUBSET (I \ {i}) OBVIOUS
      <2>3. IsFiniteSet(Below(i)) /\ Cardinality(Below(i)) <= N - 1 BY <2>1, <2>2, FS_Subset
      <2>4. Cardinality(Below(i)) \in Nat BY <2>3, FS_CardinalityType
      <2>5. QED BY <1>1, <2>3, <2>4
<1>3. ASSUME NEW i \in I, NEW j \in I, i < j
      PROVE  rank[i] < rank[j]
      <2>1. IsFiniteSet(Below(i) \cup {i}) /\ Cardinality(Below(i) \cup {i}) = rank[i] + 1
            BY <1>2, FS_AddElement
      <2>2. Below(i) \cup {i} \in SUBSET Below(j)
            <3>1. i \in Nat /\ j \in Nat OBVIOUS
            <3>2. i \in Below(j) BY <1>3
            <3>3. \A x \in Nat : x < i => x < j BY <1>3, <3>1
            <3>4. \A x \in Below(i) : x \in Below(j) BY <3>3
            <3>5. QED BY <3>2, <3>4
      <2>3. Cardinality(Below(i) \cup {i}) <= Cardinality(Below(j)) BY <1>2, <2>2, FS_Subset
      <2>4. rank[i] \in Nat /\ rank[j] \in Nat BY <1>1, <1>2
      <2>5. QED BY <2>1, <2>3, <2>4
<1>4. \A i, j \in I : rank[i] = rank[j] => i = j
      <2> SUFFICES ASSUME NEW i \in I, NEW j \in I, rank[i] = rank[j], i # j PROVE FALSE
          OBVIOUS
      <2>1. rank[i] \in Nat /\ i \in Nat /\ j \in Nat BY <1>1, <1>2
      <2>2. i < j \/ j < i BY <2>1
      <2> HIDE DEF rank
      <2>3. QED BY <1>3, <2>1, <2>2
<1>5. ASSUME NEW k \in 1..N
      PROVE  \E i \in I : rank[i] = k - 1
      <2> SUFFICES ASSUME \A i \in I : rank[i] # k - 1 PROVE FALSE
          OBVIOUS
      <2> DEFINE T == (0..(N - 1)) \ {k - 1}
      <2>1. IsFiniteSet(0..(N - 1)) /\ Cardinality(0..(N - 1)) = N
            BY <1>1, FS_Interval, 0 \in Int, N - 1 \in Int
      <2>2. k - 1 \in 0..(N - 1) BY <1>1
      <2>3. IsFiniteSet(T) /\ Cardinality(T) = N - 1
            <3> DEFINE R == 0..(N - 1)
            <3>1. IsFiniteSet(R) /\ Cardinality(R) = N /\ k - 1 \in R BY <2>1, <2>2
            <3> HIDE DEF R
            <3>2. IsFiniteSet(R \ {k - 1}) /\ Cardinality(R \ {k - 1}) = N - 1
                  BY <3>1, FS_RemoveElement
            <3>3. QED BY <3>2 DEF R
      <2>4. rank \in [I -> T] BY <1>2
      <2> HIDE DEF rank, T
      <2>5. N - 1 < N BY <1>1
      <2>6. Cardinality(T) < Cardinality(I) BY <2>3, <2>5
      <2>7. \E x, y \in I : x # y /\ rank[x] = rank[y] BY <2>3, <2>4, <2>6, FS_PigeonHole
      <2>8. QED BY <1>4, <2>7
<1>6. ASSUME NEW k \in 1..N
      PROVE  Ascending(I)[k] \in I /\ rank[Ascending(I)[k]] = k - 1
      <2>1. Ascending(I)[k] = CHOOSE i \in I : Cardinality(Below(i)) = k - 1 BY DEF Ascending
      <2>2. \E i \in I : Cardinality(Below(i)) = k - 1 BY <1>5
      <2> DEFINE P(i) == i \in I /\ Cardinality(Below(i)) = k - 1
      <2>3. Ascending(I)[k] \in I /\ Cardinality(Below(Ascending(I)[k])) = k - 1
            BY <2>1, <2>2
      <2>4. QED BY <2>3
<1>7. Ascending(I) \in [1..N -> I] BY <1>6 DEF Ascending
<1>7a. \A i \in I : rank[i] \in Nat /\ rank[i] < N /\ rank[i] + 1 \in 1..N
       BY <1>1, <1>2
<1> HIDE DEF rank, N
<1>8. ASSUME NEW j \in 1..N, NEW k \in 1..N, j < k
      PROVE  Ascending(I)[j] < Ascending(I)[k]
      <2>1. rank[Ascending(I)[j]] < rank[Ascending(I)[k]] BY <1>1, <1>6, <1>8
      <2>2. /\ Ascending(I)[j] \in I /\ Ascending(I)[j] \in Nat
            /\ Ascending(I)[k] \in I /\ Ascending(I)[k] \in Nat
            BY <1>6
      <2>3. /\ rank[Ascending(I)[j]] \in Nat /\ rank[Ascending(I)[k]] \in Nat
            BY <1>7a, <2>2
      <2>4. QED BY <1>3, <2>1, <2>2, <2>3
<1>9. ASSUME NEW i \in I
      PROVE  \E k \in 1..N : Ascending(I)[k] = i
      <2>1. rank[i] + 1 \in 1..N /\ rank[i] = (rank[i] + 1) - 1 BY <1>7a
      <2>2. QED BY <1>4, <1>6, <2>1
<1>10. QED BY <1>1, <1>7, <1>8, <1>9 DEF N

LEMMA FilterFits ==
    ASSUME NEW X, NEW s \in Seq(X), NEW S
    PROVE  /\ Filter(s, S) \in Seq(X)
           /\ Elements(Filter(s, S)) = Elements(s) \cap S
           /\ Ordered(s) => Ordered(Filter(s, S))
<1> DEFINE I == {i \in DOMAIN s : s[i] \in S}
           at == Ascending(I)
           N == Cardinality(I)
<1>1. Len(s) \in Nat /\ DOMAIN s = 1..Len(s) OBVIOUS
<1>2. I \in SUBSET Nat /\ IsFiniteSet(I)
      <2>1. IsFiniteSet(1..Len(s)) BY <1>1, FS_Interval, 1 \in Int
      <2>2. I \in SUBSET (1..Len(s)) BY <1>1
      <2>3. QED BY <1>1, <2>1, <2>2, FS_Subset
<1>3. /\ N \in Nat
      /\ at \in [1..N -> I]
      /\ \A j, k \in 1..N : j < k => at[j] < at[k]
      /\ \A i \in I : \E k \in 1..N : at[k] = i
      BY <1>2, AscendingFits
<1>4. /\ DOMAIN Filter(s, S) = 1..N
      /\ \A k \in 1..N : Filter(s, S)[k] = s[at[k]]
      /\ Filter(s, S) = [k \in 1..N |-> s[at[k]]]
      BY <1>3 DEF Filter
<1>5. \A k \in 1..N : at[k] \in DOMAIN s /\ s[at[k]] \in S /\ s[at[k]] \in X
      BY <1>1, <1>3
<1> HIDE DEF N, at
<1>6. Filter(s, S) \in Seq(X) BY <1>3, <1>4, <1>5
<1>7. Elements(Filter(s, S)) = Elements(s) \cap S
      <2>1. ASSUME NEW x \in Elements(Filter(s, S)) PROVE x \in Elements(s) \cap S
            BY <1>4, <1>5 DEF Elements
      <2>2. ASSUME NEW x \in Elements(s) \cap S PROVE x \in Elements(Filter(s, S))
            <3>1. PICK i \in I : x = s[i] BY DEF Elements
            <3>2. PICK k \in 1..N : at[k] = i BY <1>3, <3>1
            <3>3. QED BY <1>4, <3>1, <3>2 DEF Elements
      <2>3. QED BY <2>1, <2>2
<1>8. ASSUME Ordered(s) PROVE Ordered(Filter(s, S))
      BY <1>3, <1>4, <1>5, <1>8 DEF Ordered
<1>9. QED BY <1>6, <1>7, <1>8

(***************************************************************************)
(* The least and the largest of finitely many numbers.                     *)
(***************************************************************************)
LEMMA LargestFits ==
    ASSUME NEW S \in SUBSET Nat, IsFiniteSet(S), S # {}
    PROVE  /\ \E y \in S : \A x \in S : y <= x
           /\ Largest(S) \in S /\ \A x \in S : x <= Largest(S)
<1> DEFINE N == Cardinality(S)
           at == Ascending(S)
<1>1. /\ N \in Nat
      /\ at \in [1..N -> S]
      /\ \A j, k \in 1..N : j < k => at[j] < at[k]
      /\ \A x \in S : \E k \in 1..N : at[k] = x
      BY AscendingFits
<1>2. \A k \in 1..N : at[k] \in Nat BY <1>1
<1> HIDE DEF N, at
<1>3. 1 \in 1..N /\ N \in 1..N
      <2>1. PICK x \in S : TRUE OBVIOUS
      <2>2. \E k \in 1..N : at[k] = x BY <1>1
      <2>3. QED BY <1>1, <2>2
<1>4. \A x \in S : at[1] <= x /\ x <= at[N]
      <2> SUFFICES ASSUME NEW x \in S PROVE at[1] <= x /\ x <= at[N]
          OBVIOUS
      <2>1. PICK k \in 1..N : at[k] = x BY <1>1
      <2>2. CASE k = 1 BY <1>1, <1>2, <1>3, <2>1, <2>2
      <2>3. CASE k # 1 BY <1>1, <1>2, <1>3, <2>1, <2>3
      <2>4. QED BY <2>2, <2>3
<1>5. at[1] \in S /\ at[N] \in S BY <1>1, <1>3
<1>6. Largest(S) = CHOOSE x \in S : \A y \in S : y <= x BY DEF Largest
<1>7. QED BY <1>4, <1>5, <1>6

LEMMA SeqGrows ==
    ASSUME NEW S, NEW T, S \subseteq T, NEW s \in Seq(S)
    PROVE  s \in Seq(T)
OBVIOUS

LEMMA SeqNarrows ==
    ASSUME NEW S, NEW T, NEW s \in Seq(S), Elements(s) \subseteq T
    PROVE  s \in Seq(T)
<1>1. \A i \in 1..Len(s) : s[i] \in T BY DEF Elements
<1>2. QED BY <1>1

LEMMA ElementsOf ==
    ASSUME NEW S, NEW s \in Seq(S)
    PROVE  /\ Elements(s) \subseteq S
           /\ IsFiniteSet(Elements(s))
           /\ s = <<>> <=> Elements(s) = {}
<1>1. DOMAIN s = 1..Len(s) /\ Len(s) \in Nat OBVIOUS
<1>2. Elements(s) \subseteq S BY <1>1 DEF Elements
<1>3. IsFiniteSet(Elements(s))
      <2>1. IsFiniteSet(1..Len(s)) BY <1>1, FS_Interval, 1 \in Int
      <2> DEFINE f == [i \in 1..Len(s) |-> s[i]]
      <2>2. f \in Surjection(1..Len(s), Elements(s)) BY <1>1 DEF Elements, Surjection
      <2>3. QED BY <2>1, <2>2, FS_Surjection
<1>4. s = <<>> => Elements(s) = {} BY DEF Elements
<1>5. ASSUME Elements(s) = {} PROVE s = <<>>
      <2>1. \A i \in 1..Len(s) : s[i] \in Elements(s) BY <1>1 DEF Elements
      <2>2. ~(1 \in 1..Len(s)) BY <1>5, <2>1
      <2>3. Len(s) = 0 BY <1>1, <2>2
      <2>4. QED BY <2>3
<1>6. QED BY <1>2, <1>3, <1>4, <1>5

LEMMA ElementsOfConcat ==
    ASSUME NEW S, NEW s \in Seq(S), NEW r \in Seq(S)
    PROVE  Elements(s \o r) = Elements(s) \cup Elements(r)
<1>1. /\ DOMAIN s = 1..Len(s) /\ DOMAIN r = 1..Len(r)
      /\ DOMAIN (s \o r) = 1..(Len(s) + Len(r))
      /\ Len(s) \in Nat /\ Len(r) \in Nat
      /\ \A i \in 1..Len(s) : (s \o r)[i] = s[i]
      /\ \A i \in 1..Len(r) : (s \o r)[Len(s) + i] = r[i]
      OBVIOUS
<1>2. ASSUME NEW x \in Elements(s) PROVE x \in Elements(s \o r)
      <2>1. PICK i \in 1..Len(s) : x = s[i] BY <1>1 DEF Elements
      <2>2. i \in 1..(Len(s) + Len(r)) /\ (s \o r)[i] = x BY <1>1, <2>1
      <2>3. QED BY <1>1, <2>2 DEF Elements
<1>3. ASSUME NEW x \in Elements(r) PROVE x \in Elements(s \o r)
      <2>1. PICK i \in 1..Len(r) : x = r[i] BY <1>1 DEF Elements
      <2>2. Len(s) + i \in 1..(Len(s) + Len(r)) /\ (s \o r)[Len(s) + i] = x BY <1>1, <2>1
      <2>3. QED BY <1>1, <2>2 DEF Elements
<1>4. ASSUME NEW x \in Elements(s \o r) PROVE x \in Elements(s) \cup Elements(r)
      <2>1. PICK i \in 1..(Len(s) + Len(r)) : x = (s \o r)[i] BY <1>1 DEF Elements
      <2>2. CASE i <= Len(s)
            <3>1. i \in 1..Len(s) BY <1>1, <2>2
            <3>2. x = s[i] BY <1>1, <2>1, <3>1
            <3>3. QED BY <1>1, <3>1, <3>2 DEF Elements
      <2>3. CASE i > Len(s)
            <3>1. i - Len(s) \in 1..Len(r) /\ i = Len(s) + (i - Len(s)) BY <1>1, <2>3
            <3>2. x = r[i - Len(s)] BY <1>1, <2>1, <3>1
            <3>3. QED BY <1>1, <3>1, <3>2 DEF Elements
      <2>4. QED BY <1>1, <2>2, <2>3
<1>5. QED BY <1>2, <1>3, <1>4

\* Numbers that are larger than those of an ordered sequence may be added to it.
LEMMA OrderedConcat ==
    ASSUME NEW s \in Seq(Nat), NEW r \in Seq(Nat), Ordered(s), Ordered(r),
           \A x \in Elements(s), y \in Elements(r) : x # 0 /\ y # 0 => x < y
    PROVE  Ordered(s \o r)
<1>1. /\ DOMAIN (s \o r) = 1..(Len(s) + Len(r))
      /\ Len(s) \in Nat /\ Len(r) \in Nat
      /\ \A i \in 1..Len(s) : (s \o r)[i] = s[i] /\ s[i] \in Elements(s)
      /\ \A i \in 1..Len(r) : (s \o r)[Len(s) + i] = r[i] /\ r[i] \in Elements(r)
      BY DEF Elements
<1> SUFFICES ASSUME NEW i \in 1..(Len(s) + Len(r)), NEW j \in 1..(Len(s) + Len(r)), i < j,
                    (s \o r)[i] # 0, (s \o r)[j] # 0
             PROVE  (s \o r)[i] < (s \o r)[j]
    BY <1>1 DEF Ordered, SessionReceipt
<1>2. CASE j <= Len(s)
      <2>1. i \in 1..Len(s) /\ j \in 1..Len(s) BY <1>1, <1>2
      <2>2. QED BY <1>1, <2>1 DEF Ordered, SessionReceipt
<1>3. CASE i > Len(s)
      <2>1. /\ i - Len(s) \in 1..Len(r) /\ i = Len(s) + (i - Len(s))
            /\ j - Len(s) \in 1..Len(r) /\ j = Len(s) + (j - Len(s))
            /\ i - Len(s) < j - Len(s)
            BY <1>1, <1>3
      <2>2. (s \o r)[i] = r[i - Len(s)] /\ (s \o r)[j] = r[j - Len(s)] BY <1>1, <2>1
      <2>3. QED BY <2>1, <2>2 DEF Ordered, SessionReceipt
<1>4. CASE i <= Len(s) /\ j > Len(s)
      <2>1. /\ i \in 1..Len(s)
            /\ j - Len(s) \in 1..Len(r) /\ j = Len(s) + (j - Len(s))
            BY <1>1, <1>4
      <2>2. (s \o r)[i] \in Elements(s) /\ (s \o r)[j] \in Elements(r) BY <1>1, <2>1
      <2>3. QED BY <2>2
<1>5. QED BY <1>1, <1>2, <1>3, <1>4

LEMMA FirstFits ==
    ASSUME NEW S, NEW s \in Seq(S), NEW n \in Nat
    PROVE  /\ First(s, n) \in Seq(S)
           /\ Len(First(s, n)) = IF n < Len(s) THEN n ELSE Len(s)
           /\ \A i \in 1..Len(First(s, n)) : First(s, n)[i] = s[i]
           /\ Elements(First(s, n)) = {s[i] : i \in {k \in 1..Len(s) : k <= n}}
           /\ Elements(First(s, n)) \subseteq Elements(s)
<1> DEFINE m == IF n < Len(s) THEN n ELSE Len(s)
<1>1. m \in Nat /\ m <= Len(s) /\ Len(s) \in Nat OBVIOUS
<1>2. First(s, n) = SubSeq(s, 1, m) BY DEF First
<1>3. 1..m = {k \in 1..Len(s) : k <= n} BY <1>1
<1> HIDE DEF m
<1>4. /\ First(s, n) \in Seq(S) /\ Len(First(s, n)) = m /\ DOMAIN First(s, n) = 1..m
      /\ \A i \in 1..m : First(s, n)[i] = s[i]
      BY <1>1, <1>2
<1>5. Elements(First(s, n)) = {s[i] : i \in {k \in 1..Len(s) : k <= n}}
      BY <1>3, <1>4 DEF Elements
<1>6. Elements(First(s, n)) \subseteq Elements(s) BY <1>5 DEF Elements
<1>7. QED BY <1>4, <1>5, <1>6 DEF m

-----------------------------------------------------------------------------
(***************************************************************************)
(* What the types say of the events, and what a reader of the outbox sees. *)
(***************************************************************************)
LEMMA EventTypes ==
    ASSUME TypeOK
    PROVE  /\ Len(committed) \in Nat /\ Events = 1..Len(committed)
           /\ Events \subseteq Nat /\ SessionReceipt \notin Events
           /\ \A e \in Events : /\ committed[e].turn \in Turns
                                /\ committed[e].scope \in Scopes
                                /\ committed[e].sequence \in Nat \ {0}
           /\ manifest.sequence \in Nat
           /\ manifest.receipts \in Seq(Events \cup {SessionReceipt})
           /\ manifest.receipts \in Seq(Nat)
           /\ journal \in Seq(Events) /\ journal \in Seq(Nat)
           /\ \A scope \in Scopes : floors[scope] \in Nat
           /\ SessionScope \in Scopes
<1>1. committed \in Seq(Event) /\ Len(committed) \in Nat /\ Events = 1..Len(committed)
      BY DEF TypeOK, Events
<1>2. \A e \in Events : committed[e] \in Event BY <1>1
<1>3. \A e \in Events : /\ committed[e].turn \in Turns
                        /\ committed[e].scope \in Scopes
                        /\ committed[e].sequence \in Nat \ {0}
      BY <1>2 DEF Event
<1>4. Events \subseteq Nat /\ SessionReceipt \notin Events BY <1>1 DEF SessionReceipt
<1>5. manifest.sequence \in Nat /\ manifest.receipts \in Seq(Events \cup {SessionReceipt})
      BY DEF TypeOK
<1>6. manifest.receipts \in Seq(Nat)
      <2>1. Events \cup {SessionReceipt} \subseteq Nat BY <1>4 DEF SessionReceipt
      <2>2. QED BY <1>5, <2>1, SeqGrows
<1>7. journal \in Seq(Events) BY DEF TypeOK
<1>8. journal \in Seq(Nat) BY <1>4, <1>7, SeqGrows
<1>9. \A scope \in Scopes : floors[scope] \in Nat BY DEF TypeOK
<1>10. QED BY <1>1, <1>3, <1>4, <1>5, <1>6, <1>7, <1>8, <1>9 DEF Scopes

LEMMA AdditionsFit ==
    ASSUME TypeOK, Ordered(manifest.receipts)
    PROVE  /\ Additions \in Seq(Events) /\ Additions \in Seq(Nat)
           /\ Elements(Additions) = Unpublished
           /\ Ordered(Additions)
<1>1. /\ Additions \in Seq(Events \cup {SessionReceipt})
      /\ Elements(Additions) = Unpublished
      /\ Ordered(Additions)
      BY EventTypes, FilterFits DEF Additions, Unpublished
<1>2. Unpublished \subseteq Events BY DEF Unpublished, Missing
<1>3. Additions \in Seq(Events) BY <1>1, <1>2, SeqNarrows
<1>4. Additions \in Seq(Nat) BY <1>3, EventTypes, SeqGrows
<1>5. QED BY <1>1, <1>3, <1>4

LEMMA ProjectedFits ==
    ASSUME IInv
    PROVE  /\ Projected \in Seq(Events)
           /\ Elements(Projected) = Elements(journal) \cup Unpublished
           /\ Events = gone \cup Elements(Projected)
           /\ gone \cap Elements(Projected) = {}
           /\ Ordered(Projected)
<1>1. /\ TypeOK /\ Ordered(manifest.receipts) /\ Ordered(journal)
      /\ \A e \in Unpublished : \A f \in Events : f <= e
      /\ \A e \in Elements(manifest.receipts) \cap Events :
            committed[e].scope = SessionScope /\ ~Removed(e)
      /\ gone \cap Elements(journal) = {}
      /\ Events = gone \cup Elements(journal) \cup Unpublished
      /\ \A e \in gone : Removed(e) \/ committed[e].sequence <= floors[committed[e].scope]
      BY DEF IInv, ReceiptsFit, JournalFits
<1>2. /\ Additions \in Seq(Events) /\ Additions \in Seq(Nat)
      /\ Elements(Additions) = Unpublished /\ Ordered(Additions)
      BY <1>1, AdditionsFit
<1>3. Projected \in Seq(Events) BY <1>1, <1>2, EventTypes DEF Projected
<1>4. Elements(Projected) = Elements(journal) \cup Unpublished
      BY <1>1, <1>2, EventTypes, ElementsOfConcat DEF Projected
<1>5. gone \cap Unpublished = {}
      <2> SUFFICES ASSUME NEW e \in gone, e \in Unpublished PROVE FALSE
          OBVIOUS
      <2>1. /\ e \in Events /\ e \in Elements(manifest.receipts)
            /\ committed[e].sequence > floors[SessionScope]
            BY DEF Unpublished, Missing
      <2>2. committed[e].scope = SessionScope /\ ~Removed(e) BY <1>1, <2>1
      <2>3. committed[e].sequence <= floors[SessionScope] BY <1>1, <2>2
      <2>4. QED BY <1>1, <2>1, <2>3, EventTypes
<1>6. Ordered(Projected)
      <2>1. ASSUME NEW x \in Elements(journal), NEW y \in Elements(Additions)
            PROVE  x < y
            <3>1. x \in Events /\ y \in Events /\ x <= y
                  BY <1>1, <1>2, EventTypes, ElementsOf
            <3>2. y \notin Elements(journal) BY <1>2 DEF Unpublished, Missing
            <3>3. QED BY <1>1, <3>1, <3>2, EventTypes
      <2>2. QED BY <1>1, <1>2, <2>1, EventTypes, OrderedConcat DEF Projected
<1>7. QED BY <1>1, <1>3, <1>4, <1>5, <1>6

-----------------------------------------------------------------------------
(***************************************************************************)
(* The steps, by what they do to the commits, the manifest and the outbox. *)
(* Most of them read the outbox at most.                                   *)
(***************************************************************************)
Reads ==
    /\ journal' \in {journal, Projected}
    /\ compacting' \in {compacting, {}}
    /\ UNCHANGED <<committed, manifest, tombstones, floors, gone>>

Commits(t) ==
    /\ compacting = {}
    /\ manifest.turns[t] # "new"
    /\ committed' = Append(committed, [turn |-> t, scope |-> t, sequence |-> NextSequence(t)])
    /\ journal' = Append(Projected, Len(committed) + 1)
    /\ UNCHANGED <<manifest, tombstones, floors, compacting, gone>>

LEMMA ReadShapes ==
    /\ CommandFails \/ CompactionFails \/ Crash \/ Restart \/ TimePasses => Reads
    /\ MaterializePrevious \/ PublishTurnEvent => Reads
    /\ \A t \in Turns : BeginTurnEvent(t) \/ BeginRemoval(t) => Reads
    /\ \A d \in Dispatchers : DispatchStep(d) => Reads
<1>1. CommandFails \/ CompactionFails \/ Crash \/ Restart \/ TimePasses => Reads
      BY DEF CommandFails, CompactionFails, Crash, Restart, TimePasses, Reads, disk
<1>2. MaterializePrevious \/ PublishTurnEvent => Reads
      BY DEF MaterializePrevious, PublishTurnEvent, Materialize, Reads, disk
<1>3. \A t \in Turns : BeginTurnEvent(t) \/ BeginRemoval(t) => Reads
      BY DEF BeginTurnEvent, BeginRemoval, Materialize, Reads, disk
<1>4. ASSUME NEW d \in Dispatchers, DispatchStep(d) PROVE Reads
      <2>1. CASE ReadPending(d) BY <2>1 DEF ReadPending, Materialize, Reads, disk
      <2>2. CASE SendEvent(d) \/ FailSend(d) BY <2>2 DEF SendEvent, FailSend, Reads, disk
      <2>3. CASE \E kept \in 0..MaxEvents : RecordAttempts(d, kept) \/ Acknowledge(d, kept)
            BY <2>3 DEF RecordAttempts, Acknowledge, Reads, disk
      <2>4. QED BY <1>4, <2>1, <2>2, <2>3 DEF DispatchStep
<1>5. QED BY <1>1, <1>2, <1>3, <1>4

LEMMA CommitShapes ==
    ASSUME NEW t \in Turns, NEW kept \in 0..1, CommitMessage(t, kept)
    PROVE  Reads \/ Commits(t)
<1>1. CASE kept = 1 BY <1>1 DEF CommitMessage, CanRead, Commits, disk
<1>2. CASE kept # 1 BY <1>2 DEF CommitMessage, Reads, disk
<1>3. QED BY <1>1, <1>2

LEMMA ReadKeeps ==
    ASSUME IInv, Reads
    PROVE  /\ CommitsFit' /\ ReceiptsFit' /\ JournalFits'
           /\ Unpublished' \subseteq Unpublished
           /\ journal' = Projected => Unpublished' = {}
<1>1. /\ committed' = committed /\ manifest' = manifest /\ floors' = floors
      /\ tombstones' = tombstones /\ gone' = gone
      BY DEF Reads
<1>2. /\ Projected \in Seq(Events)
      /\ Elements(Projected) = Elements(journal) \cup Unpublished
      /\ gone \cap Elements(Projected) = {}
      /\ Ordered(Projected)
      BY ProjectedFits
<1>3. CommitsFit'
      BY <1>1 DEF IInv, CommitsFit, Events, SequencesIncrease, Removed
<1>4. Events' = Events /\ \A e : Removed(e)' = Removed(e) BY <1>1 DEF Events, Removed
<1>5. Missing' = {e \in Events \ (Elements(journal') \cup tombstones) :
                     committed[e].sequence > floors[SessionScope]}
      BY <1>1, <1>4 DEF Missing
<1>6. CASE journal' = journal
      <2>1. Unpublished' = Unpublished BY <1>1, <1>4, <1>5, <1>6 DEF Unpublished, Missing
      <2>2. ReceiptsFit' BY <1>1, <1>4, <2>1 DEF IInv, ReceiptsFit
      <2>3. JournalFits'
            BY <1>1, <1>4, <1>6, <2>1 DEF IInv, JournalFits, Reads
      <2>4. journal' = Projected => Unpublished' = {}
            BY <1>2, <1>6, <2>1 DEF Unpublished, Missing
      <2>5. QED BY <1>3, <2>1, <2>2, <2>3, <2>4
<1>7. CASE journal' = Projected
      <2>1. Unpublished' = {} BY <1>1, <1>2, <1>5, <1>7 DEF Unpublished, Missing
      <2>2. ReceiptsFit' BY <1>1, <1>4, <2>1 DEF IInv, ReceiptsFit
      <2>3. JournalFits' BY <1>1, <1>2, <1>4, <1>7, <2>1 DEF IInv, JournalFits, Reads
      <2>4. QED BY <1>3, <2>1, <2>2, <2>3
<1>8. QED BY <1>6, <1>7 DEF Reads

LEMMA RemovalKeeps ==
    ASSUME IInv, NEW kept \in 0..MaxEvents, RemoveScopes(kept)
    PROVE  /\ CommitsFit' /\ ReceiptsFit' /\ JournalFits' /\ Unpublished' = {}
<1> DEFINE doomed == Filter(Projected, {e \in Events : committed[e].turn \in command.removes})
           removed == Elements(First(doomed, kept))
<1>1. /\ command.phase = "saved"
      /\ compacting = {} /\ compacting' = compacting
      /\ committed' = committed /\ manifest' = manifest /\ floors' = floors
      /\ journal' = Filter(Projected, Events \ removed)
      /\ tombstones' = tombstones \cup removed
      /\ gone' = gone \cup removed
      BY DEF RemoveScopes, CanRead, disk
<1>2. /\ Projected \in Seq(Events)
      /\ Elements(Projected) = Elements(journal) \cup Unpublished
      /\ Events = gone \cup Elements(Projected)
      /\ gone \cap Elements(Projected) = {}
      /\ Ordered(Projected)
      BY ProjectedFits
<1>3. doomed \in Seq(Events) /\ Elements(doomed) \subseteq Elements(Projected)
      /\ \A e \in Elements(doomed) : committed[e].turn \in command.removes
      BY <1>2, FilterFits
<1>4. removed \subseteq Elements(doomed)
      <2>1. kept \in Nat BY BoundsAssumption
      <2>2. QED BY <1>3, <2>1, FirstFits
<1> HIDE DEF doomed
<1>5. \A e \in removed : e \in Elements(Projected) /\ Removed(e)
      BY <1>1, <1>3, <1>4 DEF IInv, CommandFits, Removed
<1> HIDE DEF removed
<1>6. /\ Elements(journal') = Elements(Projected) \ removed
      /\ Ordered(journal')
      BY <1>1, <1>2, ElementsOf, FilterFits
<1>7. CommitsFit' BY <1>1 DEF IInv, CommitsFit, Events, SequencesIncrease, Removed
<1>8. Events' = Events /\ \A e : Removed(e)' = Removed(e) BY <1>1 DEF Events, Removed
<1>9. Unpublished' = {}
      <2>1. Elements(Projected) \subseteq Elements(journal') \cup tombstones'
            BY <1>1, <1>6
      <2>2. QED BY <1>1, <1>2, <1>8, <2>1 DEF Unpublished, Missing
<1>10. ReceiptsFit' BY <1>1, <1>8, <1>9 DEF IInv, ReceiptsFit
<1>11. JournalFits'
       BY <1>1, <1>2, <1>5, <1>6, <1>8, <1>9 DEF IInv, JournalFits
<1>12. QED BY <1>7, <1>9, <1>10, <1>11

-----------------------------------------------------------------------------
(***************************************************************************)
(* Commits, by whoever makes them.                                         *)
(***************************************************************************)
LEMMA OrderedAppend ==
    ASSUME NEW s \in Seq(Nat), NEW n \in Nat, Ordered(s),
           \A x \in Elements(s) : x # 0 /\ n # 0 => x < n
    PROVE  Ordered(Append(s, n))
<1>1. /\ DOMAIN Append(s, n) = 1..(Len(s) + 1) /\ Len(s) \in Nat
      /\ \A i \in 1..Len(s) : Append(s, n)[i] = s[i] /\ s[i] \in Elements(s)
      /\ Append(s, n)[Len(s) + 1] = n
      BY DEF Elements
<1> SUFFICES ASSUME NEW i \in 1..(Len(s) + 1), NEW j \in 1..(Len(s) + 1), i < j,
                    Append(s, n)[i] # 0, Append(s, n)[j] # 0
             PROVE  Append(s, n)[i] < Append(s, n)[j]
    BY <1>1 DEF Ordered, SessionReceipt
<1>2. i \in 1..Len(s) BY <1>1
<1>3. CASE j = Len(s) + 1 BY <1>1, <1>2, <1>3
<1>4. CASE j # Len(s) + 1
      <2>1. j \in 1..Len(s) BY <1>1, <1>4
      <2>2. QED BY <1>1, <1>2, <2>1 DEF Ordered, SessionReceipt
<1>5. QED BY <1>3, <1>4

LEMMA ElementsOfAppend ==
    ASSUME NEW S, NEW s \in Seq(S), NEW n \in S
    PROVE  Elements(Append(s, n)) = Elements(s) \cup {n}
<1>1. /\ DOMAIN Append(s, n) = 1..(Len(s) + 1) /\ Len(s) \in Nat /\ DOMAIN s = 1..Len(s)
      /\ \A i \in 1..Len(s) : Append(s, n)[i] = s[i]
      /\ Append(s, n)[Len(s) + 1] = n
      OBVIOUS
<1>2. n \in Elements(Append(s, n)) BY <1>1 DEF Elements
<1>3. ASSUME NEW x \in Elements(s) PROVE x \in Elements(Append(s, n))
      BY <1>1 DEF Elements
<1>4. ASSUME NEW x \in Elements(Append(s, n)) PROVE x \in Elements(s) \cup {n}
      BY <1>1 DEF Elements
<1>5. QED BY <1>2, <1>3, <1>4

LEMMA WithReceiptFits ==
    ASSUME NEW S, NEW s \in Seq(S), NEW n \in S
    PROVE  /\ WithReceipt(s, n) \in Seq(S)
           /\ Elements(WithReceipt(s, n)) \subseteq Elements(s) \cup {n}
           /\ n \in Elements(WithReceipt(s, n))
           /\ Ordered(Append(s, n)) => Ordered(WithReceipt(s, n))
<1> DEFINE all == Append(s, n)
           m == IF Len(all) > ReceiptLimit THEN Len(all) - ReceiptLimit + 1 ELSE 1
           r == SubSeq(all, m, Len(all))
<1>1. all \in Seq(S) /\ Len(all) \in Nat /\ Len(all) >= 1 /\ all[Len(all)] = n OBVIOUS
<1>2. m \in 1..Len(all) BY <1>1, LimitsAssumption
<1>3. r = WithReceipt(s, n) BY DEF WithReceipt
<1>4. Elements(all) = Elements(s) \cup {n} BY ElementsOfAppend
<1> HIDE DEF m, all
<1>5. /\ r \in Seq(S) /\ Len(r) = Len(all) - m + 1 /\ DOMAIN r = 1..Len(r)
      /\ \A i \in 1..Len(r) : r[i] = all[m + i - 1]
      /\ \A i \in 1..Len(r) : m + i - 1 \in 1..Len(all)
      BY <1>1, <1>2
<1> HIDE DEF r
<1>6. Elements(r) \subseteq Elements(all) BY <1>1, <1>5 DEF Elements
<1>7. Len(r) \in 1..Len(r) /\ r[Len(r)] = n BY <1>1, <1>2, <1>5
<1>8. n \in Elements(r) BY <1>5, <1>7 DEF Elements
<1>9. ASSUME Ordered(all) PROVE Ordered(r)
      <2> SUFFICES ASSUME NEW i \in 1..Len(r), NEW j \in 1..Len(r), i < j,
                          r[i] # 0, r[j] # 0
                   PROVE  r[i] < r[j]
          BY <1>5 DEF Ordered, SessionReceipt
      <2> DEFINE x == m + i - 1
                 y == m + j - 1
      <2>1. x < y /\ x \in 1..Len(all) /\ y \in 1..Len(all) BY <1>1, <1>2, <1>5
      <2>2. r[i] = all[x] /\ r[j] = all[y] /\ DOMAIN all = 1..Len(all) BY <1>1, <1>5
      <2> HIDE DEF x, y
      <2>3. QED BY <1>9, <2>1, <2>2 DEF Ordered, SessionReceipt
<1>10. QED BY <1>3, <1>4, <1>5, <1>6, <1>8, <1>9 DEF all

LEMMA NewEvent ==
    ASSUME TypeOK, NEW event \in Event, committed' = Append(committed, event)
    PROVE  /\ Events' = Events \cup {Len(committed) + 1}
           /\ Len(committed) + 1 \notin Events
           /\ \A e \in Events : committed'[e] = committed[e] /\ e < Len(committed) + 1
           /\ committed'[Len(committed) + 1] = event
           /\ committed' \in Seq(Event)
           /\ Len(committed) + 1 \in Nat \ {0}
<1>1. committed \in Seq(Event) /\ Len(committed) \in Nat /\ Events = 1..Len(committed)
      BY EventTypes DEF TypeOK
<1>2. Events' = 1..(Len(committed) + 1) BY <1>1 DEF Events
<1>3. QED BY <1>1, <1>2

LEMMA SequencesFinite ==
    ASSUME TypeOK, NEW scope \in Scopes, NEW es, es \subseteq Events, IsFiniteSet(es)
    PROVE  LET S == {floors[scope]} \cup SequencesOf(scope, es)
           IN  /\ \A x \in S : x <= Largest(S)
               /\ Largest(S) \in S /\ Largest(S) \in Nat
<1> DEFINE of == {x \in es : committed[x].scope = scope}
           f == [e \in of |-> committed[e].sequence]
           T == SequencesOf(scope, es)
           S == {floors[scope]} \cup T
<1>1. IsFiniteSet(of) BY FS_Subset
<1>2. f \in Surjection(of, T) BY DEF SequencesOf, Surjection
<1>3. IsFiniteSet(T) BY <1>1, <1>2, FS_Surjection
<1>4. T \subseteq Nat /\ floors[scope] \in Nat BY EventTypes DEF SequencesOf
<1> HIDE DEF T
<1>5. IsFiniteSet(T \cup {floors[scope]}) BY <1>3, FS_AddElement
<1>6. S = T \cup {floors[scope]} /\ S # {} /\ S \in SUBSET Nat BY <1>4
<1> HIDE DEF S
<1>7. (\A x \in S : x <= Largest(S)) /\ Largest(S) \in S BY <1>5, <1>6, LargestFits
<1>8. QED BY <1>6, <1>7 DEF S, T

LEMMA CommitKeeps ==
    ASSUME IInv, NEW t \in Turns, Commits(t)
    PROVE  /\ CommitsFit' /\ ReceiptsFit' /\ JournalFits' /\ Unpublished' = {}
           /\ NextSequence(t) \in Nat \ {0}
<1>0. PICK n \in Nat : n = Len(committed) + 1
      <2>1. Len(committed) \in Nat BY EventTypes DEF IInv
      <2>2. QED BY <2>1
<1> DEFINE event == [turn |-> t, scope |-> t, sequence |-> NextSequence(t)]
           S == {floors[t]} \cup SequencesOf(t, Elements(Projected))
<1>1. /\ committed' = Append(committed, event)
      /\ journal' = Append(Projected, n)
      /\ manifest' = manifest /\ floors' = floors /\ tombstones' = tombstones
      /\ gone' = gone /\ compacting = {} /\ compacting' = {}
      BY <1>0 DEF Commits
<1>2. /\ Projected \in Seq(Events)
      /\ Elements(Projected) = Elements(journal) \cup Unpublished
      /\ Events = gone \cup Elements(Projected)
      /\ gone \cap Elements(Projected) = {}
      /\ Ordered(Projected)
      BY ProjectedFits
<1>3. TypeOK /\ t \in Scopes /\ t # SessionScope BY TurnsAssumption DEF IInv, Scopes
<1>4. /\ \A x \in S : x <= Largest(S)
      /\ Largest(S) \in Nat
      <2>1. Elements(Projected) \subseteq Events /\ IsFiniteSet(Elements(Projected))
            BY <1>2, ElementsOf
      <2>2. QED BY <1>3, <2>1, SequencesFinite
<1>5. NextSequence(t) = 1 + Largest(S) BY DEF NextSequence
<1> HIDE DEF S
<1>6. NextSequence(t) \in Nat \ {0} BY <1>4, <1>5
<1>7. event \in Event BY <1>3, <1>6 DEF Event
<1>8. /\ Events' = Events \cup {n} /\ n \notin Events /\ n \in Nat \ {0}
      /\ \A e \in Events : committed'[e] = committed[e] /\ e < n
      /\ committed'[n] = event
      BY <1>0, <1>1, <1>3, <1>7, NewEvent
<1>9. \A e \in Events : Removed(e)' = Removed(e) BY <1>1, <1>8 DEF Removed
<1>10. event.turn = t /\ event.scope = t /\ event.sequence = NextSequence(t)
       OBVIOUS
<1> HIDE DEF event
<1>10a. Removed(n)' <=> manifest.turns[t] = "removed"
        <2>1. Removed(n)' <=> manifest'.turns[committed'[n].turn] = "removed" BY DEF Removed
        <2>2. QED BY <1>1, <1>8, <1>10, <2>1
<1>11. ASSUME NEW f \in Events, committed[f].scope = t
       PROVE  committed[f].sequence < NextSequence(t) \/ Removed(n)'
       <2>1. committed[f].sequence \in Nat BY <1>3, EventTypes
       <2>2. CASE f \in Elements(Projected)
             <3>1. committed[f].sequence \in S BY <1>11, <2>2 DEF S, SequencesOf
             <3>2. QED BY <1>4, <1>5, <2>1, <3>1
       <2>3. CASE f \in gone /\ Removed(f)
             BY <1>3, <1>10a, <1>11, <2>3 DEF IInv, CommitsFit, Removed
       <2>4. CASE f \in gone /\ committed[f].sequence <= floors[t]
             <3>1. floors[t] <= Largest(S) BY <1>4 DEF S
             <3>2. floors[t] \in Nat BY <1>3, EventTypes
             <3>3. QED BY <1>4, <1>5, <2>1, <2>4, <3>1, <3>2
       <2>5. QED BY <1>2, <1>11, <2>2, <2>3, <2>4 DEF IInv, JournalFits
<1>12. SequencesIncrease'
       <2> SUFFICES ASSUME NEW e \in Events', NEW f \in Events', f < e,
                           committed'[f].scope = committed'[e].scope
                    PROVE  \/ committed'[f].sequence < committed'[e].sequence
                           \/ committed'[e].scope # SessionScope /\ Removed(e)'
           BY DEF SequencesIncrease
       <2>1. CASE e \in Events
             <3>1. f \in Events BY <1>3, <1>8, <2>1, EventTypes
             <3>2. QED BY <1>8, <1>9, <2>1, <3>1 DEF IInv, CommitsFit, SequencesIncrease
       <2>2. CASE e = n
             <3>1. f \in Events BY <1>8, <2>2
             <3>2. committed'[e] = event /\ committed'[f] = committed[f] BY <1>8, <2>2, <3>1
             <3>3. committed[f].scope = t BY <1>10, <3>2
             <3>4. committed[f].sequence < NextSequence(t) \/ Removed(n)' BY <1>11, <3>1, <3>3
             <3>5. QED BY <1>3, <1>10, <2>2, <3>2, <3>4
       <2>3. QED BY <1>8, <2>1, <2>2
<1>13. CommitsFit'
       <2>1. committed'[n].turn = t /\ committed'[n].scope = t BY <1>8, <1>10
       <2>2. \A e \in Events' : IF committed'[e].scope = SessionScope
                                THEN committed'[e].sequence <= manifest.sequence
                                ELSE committed'[e].turn = committed'[e].scope
             BY <1>3, <1>8, <2>1 DEF IInv, CommitsFit
       <2>3. ASSUME NEW u \in Turns, manifest.turns[u] = "live"
             PROVE  \E e \in Events' : committed'[e].turn = u
             BY <1>8, <2>3 DEF IInv, CommitsFit
       <2>4. QED BY <1>1, <1>12, <2>2, <2>3 DEF IInv, CommitsFit
<1>14. Elements(journal') = Elements(Projected) \cup {n} /\ Ordered(journal')
       <2>1. Projected \in Seq(Nat) /\ Elements(Projected) \subseteq Events
             BY <1>2, <1>3, EventTypes, SeqGrows, ElementsOf
       <2>2. Ordered(journal') BY <1>1, <1>2, <1>8, <2>1, OrderedAppend
       <2>3. Elements(journal') = Elements(Projected) \cup {n}
             BY <1>1, <1>8, <2>1, ElementsOfAppend
       <2>4. QED BY <2>2, <2>3
<1>15. Unpublished' = {}
       <2>1. Elements(manifest.receipts) \subseteq Events \cup {SessionReceipt} /\ n # SessionReceipt
             BY <1>3, <1>8, EventTypes, ElementsOf DEF SessionReceipt
       <2> SUFFICES ASSUME NEW e \in Unpublished' PROVE FALSE
           OBVIOUS
       <2>2. /\ e \in Events /\ e \in Elements(manifest.receipts)
             /\ e \notin Elements(Projected) \cup tombstones
             /\ committed[e].sequence > floors[SessionScope]
             BY <1>1, <1>8, <1>14, <2>1 DEF Unpublished, Missing
       <2>3. QED BY <1>2, <2>2 DEF Unpublished, Missing
<1>16. ReceiptsFit'
       <2>1. \A e \in Elements(manifest.receipts) \cap Events' : e \in Events
             <3>1. Elements(manifest.receipts) \subseteq Events \cup {SessionReceipt} /\ n # SessionReceipt
                   BY <1>3, <1>8, EventTypes, ElementsOf DEF SessionReceipt
             <3>2. QED BY <1>8, <3>1
       <2>2. QED BY <1>1, <1>8, <1>9, <1>15, <2>1 DEF IInv, ReceiptsFit
<1>17. JournalFits'
       <2>1. gone \subseteq Events /\ tombstones \subseteq Events BY <1>3 DEF TypeOK
       <2>2. QED BY <1>1, <1>2, <1>8, <1>9, <1>14, <1>15, <2>1 DEF IInv, JournalFits
<1>18. QED BY <1>6, <1>13, <1>15, <1>16, <1>17

-----------------------------------------------------------------------------
(***************************************************************************)
(* The write of the manifest, when no receipt is missing: either a new     *)
(* event under the next sequence number, whose receipt is missing from now *)
(* on, or the removal of turns with their receipts.                        *)
(***************************************************************************)
WriteEvent == WriteManifest /\ command.removes = {}

WriteRemoval == WriteManifest /\ command.removes # {}

LEMMA EventKeeps ==
    ASSUME IInv, WriteEvent
    PROVE  /\ CommitsFit' /\ ReceiptsFit' /\ JournalFits'
           /\ manifest' \in [sequence : Nat, receipts : Seq(Events' \cup {SessionReceipt}),
                             turns : [Turns -> {"new", "live", "removed"}]]
           /\ \A e \in Events : Removed(e)' <=> Removed(e)
<1>0. PICK n \in Nat : n = Len(committed) + 1
      <2>1. Len(committed) \in Nat BY EventTypes DEF IInv
      <2>2. QED BY <2>1
<1> DEFINE t == command.turn
           event == [turn |-> t, scope |-> SessionScope, sequence |-> manifest.sequence + 1]
<1>1. /\ committed' = Append(committed, event)
      /\ manifest' = [sequence |-> manifest.sequence + 1,
                      receipts |-> WithReceipt(manifest.receipts, n),
                      turns |-> [manifest.turns EXCEPT ![t] = "live"]]
      /\ journal' = journal /\ floors' = floors /\ tombstones' = tombstones
      /\ gone' = gone /\ compacting' = compacting
      BY <1>0 DEF WriteEvent, WriteManifest, SavedTurnEvent
<1>2. TypeOK /\ t \in Turns /\ manifest.turns[t] # "removed" /\ Unpublished = {}
      BY DEF IInv, WriteEvent, WriteManifest, CommandFits
<1>3. manifest.sequence \in Nat /\ manifest.turns \in [Turns -> {"new", "live", "removed"}]
      BY <1>2 DEF TypeOK
<1>4. event \in Event BY <1>2, <1>3 DEF Event, Scopes
<1>5. event.turn = t /\ event.scope = SessionScope /\ event.sequence = manifest.sequence + 1
      OBVIOUS
<1>6. /\ Events' = Events \cup {n} /\ n \notin Events /\ n \in Nat \ {0}
      /\ \A e \in Events : committed'[e] = committed[e] /\ e < n
      /\ committed'[n] = event
      BY <1>0, <1>1, <1>2, <1>4, NewEvent
<1> HIDE DEF event, t
<1>7. /\ manifest'.sequence = manifest.sequence + 1
      /\ manifest'.receipts = WithReceipt(manifest.receipts, n)
      /\ manifest'.turns \in [Turns -> {"new", "live", "removed"}]
      /\ manifest'.turns[t] = "live"
      /\ \A u \in Turns : u # t => manifest'.turns[u] = manifest.turns[u]
      BY <1>1, <1>2, <1>3
<1>8. /\ manifest.receipts \in Seq(Events' \cup {SessionReceipt})
      /\ manifest.receipts \in Seq(Nat)
      /\ Elements(manifest.receipts) \subseteq Events \cup {SessionReceipt}
      <2>1. Events \cup {SessionReceipt} \subseteq Events' \cup {SessionReceipt} BY <1>6
      <2>2. QED BY <1>2, <2>1, EventTypes, SeqGrows, ElementsOf
<1>9. /\ manifest'.receipts \in Seq(Events' \cup {SessionReceipt})
      /\ Elements(manifest'.receipts) \subseteq Elements(manifest.receipts) \cup {n}
      /\ n \in Elements(manifest'.receipts)
      /\ Ordered(manifest'.receipts)
      <2>1. n \in Events' \cup {SessionReceipt} BY <1>6
      <2>2. Ordered(Append(manifest.receipts, n))
            <3>1. Ordered(manifest.receipts) BY DEF IInv, ReceiptsFit
            <3>2. \A x \in Elements(manifest.receipts) : x # 0 /\ n # 0 => x < n
                  BY <1>6, <1>8 DEF SessionReceipt
            <3>3. n \in Nat BY <1>6
            <3>4. QED BY <1>8, <3>1, <3>2, <3>3, OrderedAppend
      <2>3. QED BY <1>7, <1>8, <2>1, <2>2, WithReceiptFits
<1>10. \A e \in Events : Removed(e)' <=> Removed(e)
       BY <1>2, <1>6, <1>7, EventTypes DEF Removed
<1>11. ~Removed(n)'
       <2>1. Removed(n)' <=> manifest'.turns[committed'[n].turn] = "removed" BY DEF Removed
       <2>2. QED BY <1>5, <1>6, <1>7, <2>1
<1>12. CommitsFit'
       <2>1. \A e \in Events : committed[e].sequence \in Nat BY <1>2, EventTypes
       <2>2. \A e \in Events' : IF committed'[e].scope = SessionScope
                                THEN committed'[e].sequence <= manifest'.sequence
                                ELSE committed'[e].turn = committed'[e].scope
             BY <1>3, <1>5, <1>6, <1>7, <2>1 DEF IInv, CommitsFit
       <2>3. ASSUME NEW u \in Turns, manifest'.turns[u] = "live"
             PROVE  \E e \in Events' : committed'[e].turn = u
             <3>1. CASE u = t BY <1>5, <1>6, <3>1
             <3>2. CASE u # t BY <1>6, <1>7, <2>3, <3>2 DEF IInv, CommitsFit
             <3>3. QED BY <3>1, <3>2
       <2>4. floors'[SessionScope] <= manifest'.sequence
             BY <1>1, <1>2, <1>3, <1>7, EventTypes DEF IInv, CommitsFit
       <2>5. SequencesIncrease'
             <3> SUFFICES ASSUME NEW e \in Events', NEW f \in Events', f < e,
                                 committed'[f].scope = committed'[e].scope
                          PROVE  \/ committed'[f].sequence < committed'[e].sequence
                                 \/ committed'[e].scope # SessionScope /\ Removed(e)'
                 BY DEF SequencesIncrease
             <3>1. CASE e \in Events
                   <4>1. f \in Events BY <1>2, <1>6, <3>1, EventTypes
                   <4>2. QED BY <1>6, <1>10, <3>1, <4>1 DEF IInv, CommitsFit, SequencesIncrease
             <3>2. CASE e = n
                   <4>1. f \in Events BY <1>6, <3>2
                   <4>2. committed'[e] = event /\ committed'[f] = committed[f] BY <1>6, <3>2, <4>1
                   <4>3. committed[f].sequence <= manifest.sequence
                         BY <1>5, <4>1, <4>2 DEF IInv, CommitsFit
                   <4>4. QED BY <1>3, <1>5, <2>1, <4>1, <4>2, <4>3
             <3>3. QED BY <1>6, <3>1, <3>2
       <2>6. QED BY <2>2, <2>3, <2>4, <2>5 DEF CommitsFit
<1>13. Unpublished' = {n}
       <2>1. n \notin Elements(journal) \cup tombstones
             BY <1>2, <1>6, EventTypes, ElementsOf DEF TypeOK
       <2>2. manifest.sequence + 1 > floors[SessionScope]
             BY <1>2, <1>3, EventTypes DEF IInv, CommitsFit
       <2>3. n \in Missing' BY <1>1, <1>5, <1>6, <2>1, <2>2 DEF Missing
       <2>4. \A e \in Events : e \in Missing' => e \in Missing BY <1>1, <1>6 DEF Missing
       <2>5. Unpublished' \subseteq {n}
             <3>1. \A e \in Elements(manifest'.receipts) : e # n => e \in Elements(manifest.receipts)
                   BY <1>9
             <3>2. Missing' \subseteq Events \cup {n} BY <1>6 DEF Missing
             <3>3. QED BY <1>2, <2>4, <3>1, <3>2 DEF Unpublished
       <2>6. QED BY <1>9, <2>3, <2>5 DEF Unpublished
<1>14. ReceiptsFit'
       <2>1. \A e \in Elements(manifest'.receipts) \cap Events' :
                committed'[e].scope = SessionScope /\ ~Removed(e)'
             <3> SUFFICES ASSUME NEW e \in Elements(manifest'.receipts), e \in Events'
                          PROVE  committed'[e].scope = SessionScope /\ ~Removed(e)'
                 OBVIOUS
             <3>1. CASE e = n BY <1>5, <1>6, <1>11, <3>1
             <3>2. CASE e # n
                   <4>1. e \in Events /\ e \in Elements(manifest.receipts) BY <1>6, <1>9, <3>2
                   <4>2. QED BY <1>6, <1>10, <4>1 DEF IInv, ReceiptsFit
             <3>3. QED BY <3>1, <3>2
       <2>2. \A e \in Unpublished' : \A f \in Events' : f <= e BY <1>6, <1>13, <1>2, EventTypes
       <2>3. QED BY <1>9, <2>1, <2>2 DEF ReceiptsFit
<1>15. JournalFits'
       <2>1. gone \subseteq Events /\ tombstones \subseteq Events /\ compacting \subseteq Events
             BY <1>2 DEF TypeOK
       <2>2. QED BY <1>1, <1>2, <1>6, <1>10, <1>13, <2>1 DEF IInv, JournalFits
<1>16. manifest' \in [sequence : Nat, receipts : Seq(Events' \cup {SessionReceipt}),
                      turns : [Turns -> {"new", "live", "removed"}]]
       BY <1>1, <1>3, <1>7, <1>9
<1>17. QED BY <1>10, <1>12, <1>14, <1>15, <1>16

LEMMA RemovalSaved ==
    ASSUME IInv, WriteRemoval
    PROVE  /\ CommitsFit' /\ ReceiptsFit' /\ JournalFits' /\ Events' = Events
           /\ manifest' \in [sequence : Nat, receipts : Seq(Events \cup {SessionReceipt}),
                             turns : [Turns -> {"new", "live", "removed"}]]
           /\ \A e \in Events : Removed(e)' <=> Removed(e) \/ committed[e].turn \in command.removes
<1> DEFINE kept == Filter(manifest.receipts, KeptReceipts)
<1>1. /\ committed' = committed
      /\ manifest' = [sequence |-> manifest.sequence + 1,
                      receipts |-> WithReceipt(kept, SessionReceipt),
                      turns |-> [t \in Turns |-> IF t \in command.removes
                                                 THEN "removed" ELSE manifest.turns[t]]]
      /\ journal' = journal /\ floors' = floors /\ tombstones' = tombstones
      /\ gone' = gone /\ compacting' = compacting
      BY DEF WriteRemoval, WriteManifest, SavedRemoval
<1>2. TypeOK /\ Unpublished = {} /\ Ordered(manifest.receipts)
      BY DEF IInv, WriteRemoval, WriteManifest, CommandFits, ReceiptsFit
<1>3. manifest.sequence \in Nat /\ manifest.turns \in [Turns -> {"new", "live", "removed"}]
      BY <1>2 DEF TypeOK
<1>4. /\ manifest.receipts \in Seq(Events \cup {SessionReceipt})
      /\ manifest.receipts \in Seq(Nat)
      BY <1>2, EventTypes
<1>5. /\ kept \in Seq(Events \cup {SessionReceipt}) /\ kept \in Seq(Nat)
      /\ Elements(kept) = Elements(manifest.receipts) \cap KeptReceipts
      /\ Ordered(kept)
      BY <1>2, <1>4, FilterFits
<1> HIDE DEF kept
<1>6. /\ manifest'.sequence = manifest.sequence + 1
      /\ manifest'.receipts = WithReceipt(kept, SessionReceipt)
      /\ manifest'.turns \in [Turns -> {"new", "live", "removed"}]
      /\ \A t \in Turns : manifest'.turns[t] = IF t \in command.removes
                                               THEN "removed" ELSE manifest.turns[t]
      BY <1>1, <1>3
<1>7. /\ manifest'.receipts \in Seq(Events \cup {SessionReceipt})
      /\ Elements(manifest'.receipts) \subseteq Elements(kept) \cup {SessionReceipt}
      /\ Ordered(manifest'.receipts)
      <2>1. Ordered(Append(kept, SessionReceipt))
            BY <1>5, OrderedAppend DEF SessionReceipt
      <2>2. SessionReceipt \in Events \cup {SessionReceipt} OBVIOUS
      <2>3. QED BY <1>5, <1>6, <2>1, <2>2, WithReceiptFits
<1>8. Events' = Events BY <1>1 DEF Events
<1>9. \A e \in Events : Removed(e)' <=> Removed(e) \/ committed[e].turn \in command.removes
      BY <1>1, <1>2, <1>6, EventTypes DEF Removed
<1>10. \A e \in Elements(manifest'.receipts) \cap Events :
          e \in Elements(manifest.receipts) /\ committed[e].turn \notin command.removes
       BY <1>2, <1>5, <1>7, EventTypes DEF KeptReceipts
<1>11. Missing' = Missing BY <1>1, <1>8 DEF Missing
<1>12. Unpublished' = {}
       <2>1. Missing \subseteq Events BY DEF Missing
       <2>2. QED BY <1>2, <1>10, <1>11, <2>1 DEF Unpublished
<1>13. CommitsFit'
       <2>1. \A e \in Events : committed[e].sequence \in Nat BY <1>2, EventTypes
       <2>2. \A e \in Events : IF committed[e].scope = SessionScope
                               THEN committed[e].sequence <= manifest'.sequence
                               ELSE committed[e].turn = committed[e].scope
             BY <1>3, <1>6, <2>1 DEF IInv, CommitsFit
       <2>3. ASSUME NEW u \in Turns, manifest'.turns[u] = "live"
             PROVE  \E e \in Events : committed[e].turn = u
             BY <1>6, <2>3 DEF IInv, CommitsFit
       <2>4. floors[SessionScope] <= manifest'.sequence
             BY <1>2, <1>3, <1>6, EventTypes DEF IInv, CommitsFit
       <2>5. SequencesIncrease'
             BY <1>1, <1>8, <1>9 DEF IInv, CommitsFit, SequencesIncrease
       <2>6. QED BY <1>1, <1>8, <2>2, <2>3, <2>4, <2>5 DEF CommitsFit
<1>14. ReceiptsFit'
       <2>1. \A e \in Elements(manifest'.receipts) \cap Events :
                committed[e].scope = SessionScope /\ ~Removed(e)'
             BY <1>9, <1>10 DEF IInv, ReceiptsFit
       <2>2. QED BY <1>1, <1>7, <1>8, <1>12, <2>1 DEF ReceiptsFit
<1>15. JournalFits'
       <2>1. gone \subseteq Events /\ tombstones \subseteq Events /\ compacting \subseteq Events
             BY <1>2 DEF TypeOK
       <2>2. QED BY <1>1, <1>2, <1>8, <1>9, <1>12, <2>1 DEF IInv, JournalFits
<1>16. QED BY <1>1, <1>3, <1>6, <1>7, <1>8, <1>9, <1>13, <1>14, <1>15

-----------------------------------------------------------------------------
(***************************************************************************)
(* Compaction.                                                             *)
(***************************************************************************)
LEMMA CheckpointKeeps ==
    ASSUME IInv, WriteCheckpoint
    PROVE  /\ CommitsFit' /\ ReceiptsFit' /\ JournalFits' /\ Unpublished' = {}
           /\ floors' \in [Scopes -> Nat]
<1>1. /\ committed' = committed /\ manifest' = manifest
      /\ journal' = Projected /\ floors' = AdvancedFloors
      /\ tombstones' = tombstones /\ gone' = gone
      /\ compacting' \subseteq Elements(Projected)
      BY DEF WriteCheckpoint, Materialize
<1>2. /\ Projected \in Seq(Events)
      /\ Elements(Projected) = Elements(journal) \cup Unpublished
      /\ Events = gone \cup Elements(Projected)
      /\ gone \cap Elements(Projected) = {}
      /\ Ordered(Projected)
      BY ProjectedFits
<1>3. TypeOK BY DEF IInv
<1>4. Elements(Projected) \subseteq Events /\ IsFiniteSet(Elements(Projected)) BY <1>2, ElementsOf
<1>5. ASSUME NEW scope \in Scopes
      PROVE  /\ floors'[scope] \in Nat /\ floors[scope] <= floors'[scope]
             /\ floors'[scope] \in {floors[scope]} \cup SequencesOf(scope, Elements(Projected))
             /\ \A e \in Elements(Projected) :
                   committed[e].scope = scope => committed[e].sequence <= floors'[scope]
      <2> DEFINE S == {floors[scope]} \cup SequencesOf(scope, Elements(Projected))
      <2>1. floors'[scope] = Largest(S) BY <1>1 DEF AdvancedFloors
      <2>2. /\ \A x \in S : x <= Largest(S)
            /\ Largest(S) \in S /\ Largest(S) \in Nat
            BY <1>3, <1>4, SequencesFinite
      <2>3. floors[scope] \in S OBVIOUS
      <2>4. \A e \in Elements(Projected) : committed[e].scope = scope => committed[e].sequence \in S
            BY DEF SequencesOf
      <2>5. QED BY <2>1, <2>2, <2>3, <2>4
<1>6. floors' \in [Scopes -> Nat]
      BY <1>1, <1>5 DEF AdvancedFloors
<1>7. Events' = Events /\ \A e : Removed(e)' = Removed(e) BY <1>1 DEF Events, Removed
<1>8. Unpublished' = {}
      <2> SUFFICES ASSUME NEW e \in Unpublished' PROVE FALSE
          OBVIOUS
      <2>1. /\ e \in Elements(manifest.receipts) /\ e \in Events
            /\ e \notin Elements(Projected) \cup tombstones
            /\ committed[e].sequence > floors'[SessionScope]
            BY <1>1, <1>7 DEF Unpublished, Missing
      <2>2. committed[e].sequence > floors[SessionScope]
            BY <1>3, <1>5, <2>1, EventTypes
      <2>3. QED BY <1>2, <2>1, <2>2 DEF Unpublished, Missing
<1>9. CommitsFit'
      <2>1. floors'[SessionScope] <= manifest.sequence
            <3>1. CASE floors'[SessionScope] = floors[SessionScope]
                  BY <3>1 DEF IInv, CommitsFit
            <3>2. CASE floors'[SessionScope] \in SequencesOf(SessionScope, Elements(Projected))
                  <4>1. PICK e \in Events : /\ committed[e].scope = SessionScope
                                            /\ committed[e].sequence = floors'[SessionScope]
                        BY <1>4, <3>2 DEF SequencesOf
                  <4>2. QED BY <4>1 DEF IInv, CommitsFit
            <3>3. QED BY <1>3, <1>5, <3>1, <3>2, EventTypes
      <2>2. SequencesIncrease' BY <1>1, <1>7 DEF IInv, CommitsFit, SequencesIncrease
      <2>3. QED BY <1>1, <1>7, <2>1, <2>2 DEF IInv, CommitsFit
<1>10. ReceiptsFit' BY <1>1, <1>7, <1>8 DEF IInv, ReceiptsFit
<1>11. JournalFits'
       <2>1. \A e \in gone \cup compacting' :
                Removed(e) \/ committed[e].sequence <= floors'[committed[e].scope]
             <3> SUFFICES ASSUME NEW e \in gone \cup compacting', ~Removed(e)
                          PROVE  committed[e].sequence <= floors'[committed[e].scope]
                 OBVIOUS
             <3>1. e \in Events /\ committed[e].scope \in Scopes /\ committed[e].sequence \in Nat
                   BY <1>1, <1>2, <1>3, EventTypes
             <3>2. CASE e \in gone
                   <4>1. committed[e].sequence <= floors[committed[e].scope]
                         BY <3>2 DEF IInv, JournalFits
                   <4>2. QED BY <1>3, <1>5, <3>1, <4>1, EventTypes
             <3>3. CASE e \in compacting' BY <1>1, <1>5, <3>1, <3>3
             <3>4. QED BY <3>2, <3>3
       <2>2. QED BY <1>1, <1>2, <1>7, <1>8, <2>1 DEF IInv, JournalFits
<1>12. QED BY <1>6, <1>8, <1>9, <1>10, <1>11

LEMMA CompactKeeps ==
    ASSUME IInv, CompactJournal
    PROVE  /\ CommitsFit' /\ ReceiptsFit' /\ JournalFits' /\ Unpublished' = Unpublished
           /\ journal' \in Seq(Events)
<1>1. /\ committed' = committed /\ manifest' = manifest /\ floors' = floors
      /\ journal' = Filter(journal, Events \ compacting)
      /\ tombstones' = {} /\ compacting' = {}
      /\ gone' = gone \cup compacting
      BY DEF CompactJournal, disk
<1>2. /\ TypeOK /\ Ordered(journal) /\ compacting \subseteq Elements(journal)
      /\ gone \cap Elements(journal) = {}
      /\ Events = gone \cup Elements(journal) \cup Unpublished
      /\ \A e \in gone \cup compacting :
            Removed(e) \/ committed[e].sequence <= floors[committed[e].scope]
      /\ \A e \in tombstones : Removed(e)
      /\ \A e \in Elements(manifest.receipts) \cap Events :
            committed[e].scope = SessionScope /\ ~Removed(e)
      BY DEF IInv, JournalFits, ReceiptsFit
<1>3. /\ journal' \in Seq(Events)
      /\ Elements(journal') = Elements(journal) \ compacting
      /\ Ordered(journal')
      BY <1>1, <1>2, EventTypes, FilterFits, ElementsOf
<1>4. Events' = Events /\ \A e : Removed(e)' = Removed(e) BY <1>1 DEF Events, Removed
<1>5. Unpublished' = Unpublished
      <2>1. ASSUME NEW e \in Unpublished' PROVE e \in Unpublished
            <3>1. /\ e \in Elements(manifest.receipts) /\ e \in Events
                  /\ e \notin Elements(journal')
                  /\ committed[e].sequence > floors[SessionScope]
                  BY <1>1, <1>4 DEF Unpublished, Missing
            <3>2. committed[e].scope = SessionScope /\ ~Removed(e) BY <1>2, <3>1
            <3>3. e \notin tombstones BY <1>2, <3>2
            <3>4. e \notin compacting
                  <4>1. e \in compacting => committed[e].sequence <= floors[SessionScope]
                        BY <1>2, <3>2
                  <4>2. committed[e].sequence \in Nat /\ floors[SessionScope] \in Nat
                        BY <1>2, <3>1, EventTypes
                  <4>3. QED BY <3>1, <4>1, <4>2
            <3>5. QED BY <1>3, <3>1, <3>3, <3>4 DEF Unpublished, Missing
      <2>2. ASSUME NEW e \in Unpublished PROVE e \in Unpublished'
            BY <1>1, <1>3, <1>4, <2>2 DEF Unpublished, Missing
      <2>3. QED BY <2>1, <2>2
<1>6. CommitsFit' BY <1>1, <1>4 DEF IInv, CommitsFit, SequencesIncrease
<1>7. ReceiptsFit' BY <1>1, <1>4, <1>5 DEF IInv, ReceiptsFit
<1>8. JournalFits' BY <1>1, <1>2, <1>3, <1>4, <1>5 DEF JournalFits
<1>9. QED BY <1>3, <1>5, <1>6, <1>7, <1>8

-----------------------------------------------------------------------------
(***************************************************************************)
(* The types.  A step that commits nothing leaves the set of events alone. *)
(***************************************************************************)
LEMMA AppendsFit ==
    ASSUME TypeOK, NEW n, NEW kept, Appends(n, kept)
    PROVE  /\ tail' \in {"clean", "open", "torn"}
           /\ up' \in BOOLEAN /\ faults' \in 0..MaxFaults
           /\ faults' = 0 => up' = up /\ kept = n /\ faults = 0
<1>1. /\ faults \in Nat /\ faults <= MaxFaults /\ MaxFaults \in Nat
      /\ up \in BOOLEAN /\ tail \in {"clean", "open", "torn"}
      BY BoundsAssumption DEF TypeOK
<1>2. CASE kept = n /\ tail' = (IF ProjectedTail = "open" THEN "torn" ELSE "clean")
           /\ UNCHANGED service
      <2>1. tail' \in {"clean", "open", "torn"} BY <1>2
      <2>2. up' = up /\ faults' = faults BY <1>2 DEF service
      <2>3. QED BY <1>1, <1>2, <2>1, <2>2
<1>3. CASE /\ faults < MaxFaults /\ faults' = faults + 1 /\ up' = FALSE
           /\ \/ kept < n /\ tail' = "torn"
              \/ kept < n /\ ProjectedTail = "clean" /\ tail' = "clean"
              \/ kept > 0 /\ ProjectedTail = "clean" /\ tail' = "open"
      <2>1. tail' \in {"clean", "open", "torn"} BY <1>3
      <2>2. faults' \in 0..MaxFaults /\ faults' # 0 BY <1>1, <1>3
      <2>3. QED BY <1>3, <2>1, <2>2
<1>4. QED BY <1>2, <1>3 DEF Appends

\* Whoever removes turns removes at least one.
LEMMA RemovedWithFits ==
    ASSUME IInv, NEW t \in Turns, manifest.turns[t] = "live"
    PROVE  RemovedWith(t) \subseteq Turns /\ t \in RemovedWith(t)
<1> DEFINE S == {e \in Events : committed[e].turn = t}
<1>1. S \in SUBSET Nat /\ IsFiniteSet(S) /\ S # {}
      <2>1. Events \subseteq Nat /\ Events = 1..Len(committed) /\ Len(committed) \in Nat
            BY EventTypes DEF IInv
      <2>2. IsFiniteSet(Events) BY <2>1, FS_Interval, 1 \in Int
      <2>3. IsFiniteSet(S) BY <2>2, FS_Subset
      <2>4. S # {} BY DEF IInv, CommitsFit
      <2>5. QED BY <2>1, <2>3, <2>4
<1>2. \E e \in S : \A f \in S : e <= f BY <1>1, LargestFits
<1>3. \E e \in Events : /\ committed[e].turn = t
                        /\ \A f \in Events : committed[f].turn = t => e <= f
      BY <1>2
<1>4. FirstEvent(t) \in Events BY <1>3 DEF FirstEvent
<1>5. FirstEvent(t) >= FirstEvent(t)
      <2>1. FirstEvent(t) \in Nat BY <1>4, EventTypes DEF IInv
      <2>2. QED BY <2>1
<1>6. QED BY <1>5 DEF RemovedWith

LEMMA PendingFits ==
    ASSUME IInv, NEW c \in Consumers
    PROVE  /\ Pending(c) \in Seq(Events)
           /\ \A k \in DOMAIN Pending(c), f \in Elements(Projected) \ delivered[c] :
                 f < Pending(c)[k] => \E j \in DOMAIN Pending(c) : j < k /\ Pending(c)[j] = f
<1> DEFINE s == Filter(Projected, Events \ delivered[c])
<1>1. /\ Projected \in Seq(Events) /\ Elements(Projected) \subseteq Events
      /\ Ordered(Projected)
      BY ProjectedFits, ElementsOf
<1>2. /\ s \in Seq(Events) /\ Ordered(s)
      /\ Elements(s) = Elements(Projected) \cap (Events \ delivered[c])
      BY <1>1, FilterFits
<1>3. Events \subseteq Nat /\ SessionReceipt \notin Events BY EventTypes DEF IInv
<1>4. BatchSize \in Nat BY LimitsAssumption
<1>5. Pending(c) = First(s, BatchSize) BY DEF Pending
<1> HIDE DEF s
<1>6. /\ Pending(c) \in Seq(Events) /\ DOMAIN Pending(c) = 1..Len(Pending(c))
      /\ Len(Pending(c)) \in Nat /\ Len(Pending(c)) <= Len(s) /\ Len(s) \in Nat
      /\ \A i \in 1..Len(Pending(c)) : Pending(c)[i] = s[i]
      BY <1>2, <1>4, <1>5, FirstFits
<1>7. DOMAIN s = 1..Len(s) /\ \A i \in 1..Len(s) : s[i] \in Events BY <1>2
<1> SUFFICES ASSUME NEW k \in DOMAIN Pending(c), NEW f \in Elements(Projected) \ delivered[c],
                    f < Pending(c)[k]
             PROVE  \E j \in DOMAIN Pending(c) : j < k /\ Pending(c)[j] = f
    BY <1>6
<1>8. PICK j \in 1..Len(s) : s[j] = f BY <1>1, <1>2, <1>7 DEF Elements
<1>9. k \in 1..Len(s) /\ Pending(c)[k] = s[k] BY <1>6
<1>10. j < k
       <2> SUFFICES ASSUME k <= j PROVE FALSE
           BY <1>6, <1>8
       <2>1. s[k] \in Nat /\ s[j] \in Nat /\ s[k] # SessionReceipt /\ s[j] # SessionReceipt
             BY <1>3, <1>7, <1>8, <1>9
       <2>2. s[j] < s[k] BY <1>8, <1>9
       <2>3. k < j BY <1>8, <1>9, <2>1, <2>2
       <2>4. s[k] < s[j] BY <1>2, <1>7, <1>8, <1>9, <2>1, <2>3 DEF Ordered
       <2>5. QED BY <2>1, <2>2, <2>4
<1>11. QED BY <1>6, <1>8, <1>10

\* The types of a step that commits nothing, by what is left to show of it.
LEMMA TypesOf ==
    ASSUME TypeOK, UNCHANGED committed,
           manifest' \in [sequence : Nat, receipts : Seq(Events \cup {SessionReceipt}),
                          turns : [Turns -> {"new", "live", "removed"}]],
           command' \in [phase : {"idle", "begun", "materialized", "saved"},
                         turn : Turns \cup {NoTurn}, removes : SUBSET Turns],
           journal' \in Seq(Events),
           tombstones' \subseteq Events, compacting' \subseteq Events, gone' \subseteq Events,
           tail' \in {"clean", "open", "torn"},
           floors' \in [Scopes -> Nat],
           \A f \in {attempted', delivered', aged', sent'} : f \in [Consumers -> SUBSET Events],
           dispatch' \in [Dispatchers -> Batch],
           up' \in BOOLEAN,
           faults' \in 0..MaxFaults
    PROVE  TypeOK'
<1>1. Events' = Events /\ Batch' = Batch BY DEF Events, Batch
<1>2. committed' \in Seq(Event) BY DEF TypeOK
<1>3. QED BY <1>1, <1>2 DEF TypeOK

\* The types of a step that commits an event.
LEMMA TypesGrow ==
    ASSUME TypeOK, committed' \in Seq(Event), Events \subseteq Events',
           manifest' \in [sequence : Nat, receipts : Seq(Events' \cup {SessionReceipt}),
                          turns : [Turns -> {"new", "live", "removed"}]],
           command' \in [phase : {"idle", "begun", "materialized", "saved"},
                         turn : Turns \cup {NoTurn}, removes : SUBSET Turns],
           journal' \in Seq(Events'),
           tail' \in {"clean", "open", "torn"},
           up' \in BOOLEAN, faults' \in 0..MaxFaults,
           UNCHANGED <<tombstones, floors, compacting, deliveries, dispatch, sent, gone>>
    PROVE  TypeOK'
<1>1. tombstones' \subseteq Events' /\ compacting' \subseteq Events' /\ gone' \subseteq Events'
      BY DEF TypeOK
<1>2. \A f \in {attempted', delivered', aged', sent'} : f \in [Consumers -> SUBSET Events']
      <2>1. \A f \in {attempted, delivered, aged, sent} : f \in [Consumers -> SUBSET Events]
            BY DEF TypeOK
      <2>2. \A f \in [Consumers -> SUBSET Events] : f \in [Consumers -> SUBSET Events']
            OBVIOUS
      <2>3. QED BY <2>1, <2>2 DEF deliveries
<1>3. dispatch' \in [Dispatchers -> Batch']
      <2>1. dispatch \in [Dispatchers -> Batch] BY DEF TypeOK
      <2>2. ASSUME NEW b \in Batch PROVE b \in Batch'
            <3>1. b.batch \in Seq(Events') BY SeqGrows DEF Batch
            <3>2. b = [phase |-> b.phase, batch |-> b.batch, sends |-> b.sends] BY DEF Batch
            <3>3. b.phase \in {"idle", "read", "sending"} /\ b.sends \in Nat BY DEF Batch
            <3>4. QED BY <3>1, <3>2, <3>3 DEF Batch
      <2>3. \A d \in Dispatchers : dispatch[d] \in Batch' BY <2>1, <2>2
      <2>4. QED BY <2>1, <2>3
<1>4. floors' \in [Scopes -> Nat] BY DEF TypeOK
<1>5. QED BY <1>1, <1>2, <1>3, <1>4 DEF TypeOK

LEMMA CommandTypes ==
    ASSUME IInv, CommandStep
    PROVE  TypeOK'
<1>1. /\ TypeOK /\ Projected \in Seq(Events)
      /\ ProjectedTail \in {"clean", "open", "torn"}
      BY ProjectedFits DEF IInv, TypeOK, ProjectedTail
<1>2. /\ command.phase \in {"idle", "begun", "materialized", "saved"}
      /\ command.turn \in Turns \cup {NoTurn} /\ command.removes \in SUBSET Turns
      /\ command = [phase |-> command.phase, turn |-> command.turn, removes |-> command.removes]
      BY <1>1 DEF TypeOK
<1>3. IdleCommand \in [phase : {"idle", "begun", "materialized", "saved"},
                       turn : Turns \cup {NoTurn}, removes : SUBSET Turns]
      BY DEF IdleCommand
<1>4. ASSUME NEW t \in Turns, BeginTurnEvent(t) PROVE TypeOK'
      BY <1>1, <1>4, TypesOf
      DEF BeginTurnEvent, Materialize, TypeOK, disk, deliveries, service
<1>5. ASSUME NEW t \in Turns, BeginRemoval(t) PROVE TypeOK'
      <2>1. RemovedWith(t) \in SUBSET Turns BY DEF RemovedWith
      <2>2. QED BY <1>1, <1>5, <2>1, TypesOf DEF BeginRemoval, TypeOK, disk, deliveries, service
<1>6. CASE MaterializePrevious
      <2>1. command' = [command EXCEPT !.phase = "materialized"] BY <1>6 DEF MaterializePrevious
      <2>2. command' \in [phase : {"idle", "begun", "materialized", "saved"},
                          turn : Turns \cup {NoTurn}, removes : SUBSET Turns]
            BY <1>2, <2>1
      <2>3. QED BY <1>1, <1>6, <2>2, TypesOf
                DEF MaterializePrevious, Materialize, TypeOK, disk, deliveries, service
<1>7. CASE PublishTurnEvent
      BY <1>1, <1>3, <1>7, TypesOf
      DEF PublishTurnEvent, Materialize, TypeOK, disk, deliveries, service
<1>8. CASE WriteManifest
      <2>1. command' = [command EXCEPT !.phase = "saved"] BY <1>8 DEF WriteManifest
      <2>2. command' \in [phase : {"idle", "begun", "materialized", "saved"},
                          turn : Turns \cup {NoTurn}, removes : SUBSET Turns]
            BY <1>2, <2>1
      <2>3. CASE WriteRemoval
            <3>1. UNCHANGED committed BY <2>3 DEF WriteRemoval, WriteManifest
            <3>2. manifest' \in [sequence : Nat, receipts : Seq(Events \cup {SessionReceipt}),
                                 turns : [Turns -> {"new", "live", "removed"}]]
                  BY <2>3, RemovalSaved
            <3>3. QED BY <1>1, <1>8, <2>2, <3>1, <3>2, TypesOf
                      DEF WriteManifest, TypeOK, deliveries, service
      <2>4. CASE WriteEvent
            <3>1. /\ manifest' \in [sequence : Nat, receipts : Seq(Events' \cup {SessionReceipt}),
                                    turns : [Turns -> {"new", "live", "removed"}]]
                  BY <2>4, EventKeeps
            <3>2. command.turn \in Turns /\ manifest.sequence \in Nat
                  BY <1>1, <2>4 DEF WriteEvent, WriteManifest, IInv, CommandFits, TypeOK
            <3>3. committed' = Append(committed, [turn |-> command.turn, scope |-> SessionScope,
                                                  sequence |-> manifest.sequence + 1])
                  BY <2>4 DEF WriteEvent, WriteManifest
            <3>4. [turn |-> command.turn, scope |-> SessionScope,
                   sequence |-> manifest.sequence + 1] \in Event
                  BY <3>2 DEF Event, Scopes
            <3>5. committed' \in Seq(Event) /\ Events \subseteq Events'
                  BY <1>1, <3>3, <3>4, NewEvent
            <3>6. journal' \in Seq(Events') BY <1>1, <1>8, <3>5, EventTypes, SeqGrows DEF WriteManifest
            <3>7. /\ tail' \in {"clean", "open", "torn"}
                  /\ up' \in BOOLEAN /\ faults' \in 0..MaxFaults
                  BY <1>1, <1>8 DEF WriteManifest, TypeOK, service
            <3>8. UNCHANGED <<tombstones, floors, compacting, deliveries, dispatch, sent, gone>>
                  BY <1>8 DEF WriteManifest
            <3>9. QED BY <1>1, <2>2, <3>1, <3>5, <3>6, <3>7, <3>8, TypesGrow
      <2>5. QED BY <1>8, <2>3, <2>4 DEF WriteRemoval, WriteEvent
<1>9. ASSUME NEW kept \in 0..MaxEvents, RemoveScopes(kept) PROVE TypeOK'
      <2> DEFINE doomed == Filter(Projected, {e \in Events : committed[e].turn \in command.removes})
                 removed == Elements(First(doomed, kept))
      <2>1. kept \in Nat BY BoundsAssumption
      <2>2. removed \subseteq Events
            BY <1>1, <2>1, FilterFits, FirstFits, ElementsOf
      <2>3. journal' = Filter(Projected, Events \ removed)
            BY <1>9 DEF RemoveScopes
      <2>4. tombstones' = tombstones \cup removed /\ gone' = gone \cup removed
            BY <1>9 DEF RemoveScopes
      <2>5. tail' \in {"clean", "open", "torn"} /\ up' \in BOOLEAN /\ faults' \in 0..MaxFaults
            <3>1. CASE tail' = ProjectedTail /\ UNCHANGED service
                  BY <1>1, <3>1 DEF TypeOK, service
            <3>2. CASE Appends(Len(doomed), kept) BY <1>1, <3>2, AppendsFit
            <3>3. QED BY <1>9, <3>1, <3>2 DEF RemoveScopes
      <2> HIDE DEF removed, doomed
      <2>6. journal' \in Seq(Events) BY <1>1, <2>3, FilterFits
      <2>7. tombstones' \subseteq Events /\ gone' \subseteq Events BY <1>1, <2>2, <2>4 DEF TypeOK
      <2>8. QED BY <1>1, <1>3, <1>9, <2>5, <2>6, <2>7, TypesOf
                DEF RemoveScopes, TypeOK, disk, deliveries
<1>10. ASSUME NEW t \in Turns, NEW kept \in 0..1, CommitMessage(t, kept) PROVE TypeOK'
       <2>1. tail' \in {"clean", "open", "torn"} /\ up' \in BOOLEAN /\ faults' \in 0..MaxFaults
             BY <1>1, <1>10, AppendsFit DEF CommitMessage
       <2>2. CASE kept # 1
             BY <1>1, <1>10, <2>1, <2>2, TypesOf DEF CommitMessage, TypeOK, disk, deliveries
       <2>3. CASE kept = 1
             <3>1. Commits(t) BY <1>10, <2>3 DEF CommitMessage, CanRead, Commits, disk
             <3>2. NextSequence(t) \in Nat \ {0} BY <3>1, CommitKeeps
             <3>3. [turn |-> t, scope |-> t, sequence |-> NextSequence(t)] \in Event
                   BY <3>2 DEF Event, Scopes
             <3>4. /\ committed' = Append(committed, [turn |-> t, scope |-> t,
                                                      sequence |-> NextSequence(t)])
                   /\ journal' = Append(Projected, Len(committed) + 1)
                   BY <3>1 DEF Commits
             <3>5. /\ committed' \in Seq(Event) /\ Events \subseteq Events'
                   /\ Len(committed) + 1 \in Events'
                   BY <1>1, <3>3, <3>4, NewEvent
             <3>6. Projected \in Seq(Events') BY <1>1, <3>5, SeqGrows
             <3>7. journal' \in Seq(Events') BY <3>4, <3>5, <3>6
             <3>8. manifest' \in [sequence : Nat, receipts : Seq(Events' \cup {SessionReceipt}),
                                  turns : [Turns -> {"new", "live", "removed"}]]
                   <4>1. manifest' = manifest BY <3>1 DEF Commits
                   <4>2. manifest.receipts \in Seq(Events' \cup {SessionReceipt})
                         BY <1>1, <3>5, EventTypes, SeqGrows
                   <4>3. QED BY <1>1, <4>1, <4>2 DEF TypeOK
             <3>9. command' = command /\ command \in [phase : {"idle", "begun", "materialized", "saved"},
                                turn : Turns \cup {NoTurn}, removes : SUBSET Turns]
                   BY <1>1, <1>10 DEF CommitMessage, TypeOK
             <3>10. UNCHANGED <<tombstones, floors, compacting, deliveries, dispatch, sent, gone>>
                   BY <1>10 DEF CommitMessage, disk
             <3>11. QED BY <1>1, <2>1, <3>5, <3>7, <3>8, <3>9, <3>10, TypesGrow
       <2>4. QED BY <2>2, <2>3
<1>11. QED BY <1>4, <1>5, <1>6, <1>7, <1>8, <1>9, <1>10 DEF CommandStep

LEMMA BatchTypes ==
    ASSUME TypeOK, NEW d \in Dispatchers
    PROVE  /\ ConsumerOf[d] \in Consumers
           /\ dispatch[d] = [phase |-> dispatch[d].phase, batch |-> dispatch[d].batch,
                             sends |-> dispatch[d].sends]
           /\ dispatch[d].phase \in {"idle", "read", "sending"}
           /\ dispatch[d].batch \in Seq(Events) /\ dispatch[d].sends \in Nat
           /\ IdleDispatch \in Batch
<1>1. dispatch[d] \in Batch BY DEF TypeOK
<1>2. IdleDispatch \in Batch BY DEF IdleDispatch, Batch
<1>3. QED BY <1>1, <1>2, ConsumerAssumption DEF Batch

LEMMA DispatchTypes ==
    ASSUME IInv, NEW d \in Dispatchers, DispatchStep(d)
    PROVE  TypeOK'
<1>1. /\ TypeOK /\ Projected \in Seq(Events)
      /\ ProjectedTail \in {"clean", "open", "torn"}
      BY ProjectedFits DEF IInv, TypeOK, ProjectedTail
<1> DEFINE c == ConsumerOf[d]
           b == dispatch[d].batch
           n == dispatch[d].sends
<1>2. /\ c \in Consumers /\ b \in Seq(Events) /\ n \in Nat /\ IdleDispatch \in Batch
      /\ dispatch \in [Dispatchers -> Batch]
      /\ dispatch[d] = [phase |-> dispatch[d].phase, batch |-> b, sends |-> n]
      /\ dispatch[d].phase \in {"idle", "read", "sending"}
      BY <1>1, BatchTypes DEF TypeOK
<1>3. ASSUME NEW x \in Batch, dispatch' = [dispatch EXCEPT ![d] = x]
      PROVE  dispatch' \in [Dispatchers -> Batch]
      BY <1>2, <1>3
<1>4. CASE ReadPending(d)
      <2>1. Pending(c) \in Seq(Events) BY <1>2, PendingFits
      <2>2. [phase |-> "read", batch |-> Pending(c), sends |-> 0] \in Batch BY <2>1 DEF Batch
      <2>3. \E x \in Batch : dispatch' = [dispatch EXCEPT ![d] = x]
            BY <1>2, <1>4, <2>2 DEF ReadPending
      <2>4. dispatch' \in [Dispatchers -> Batch] BY <1>3, <2>3
      <2>5. QED BY <1>1, <1>4, <2>4, TypesOf
                DEF ReadPending, Materialize, TypeOK, disk, deliveries, service
<1>5. CASE SendEvent(d)
      <2>1. dispatch[d] \in Batch BY <1>2
      <2>2. [dispatch[d] EXCEPT !.sends = @ + 1] \in Batch
            <3>1. [dispatch[d] EXCEPT !.sends = @ + 1] =
                     [phase |-> dispatch[d].phase, batch |-> b, sends |-> n + 1]
                  BY <2>1 DEF Batch
            <3>2. QED BY <1>2, <3>1 DEF Batch
      <2>3. dispatch' \in [Dispatchers -> Batch] BY <1>2, <1>5, <2>2 DEF SendEvent
      <2>4. n + 1 \in 1..Len(b) BY <1>2, <1>5 DEF SendEvent
      <2>5. b[n + 1] \in Events BY <1>2, <2>4
      <2>6. sent' = [sent EXCEPT ![c] = @ \cup {b[n + 1]}] BY <1>5 DEF SendEvent
      <2>7. sent' \in [Consumers -> SUBSET Events] BY <1>1, <1>2, <2>5, <2>6 DEF TypeOK
      <2>8. QED BY <1>1, <1>5, <2>3, <2>7, TypesOf
                DEF SendEvent, TypeOK, disk, deliveries, service
<1>6. CASE FailSend(d)
      <2>1. dispatch' \in [Dispatchers -> Batch] BY <1>2, <1>3, <1>6 DEF FailSend
      <2>2. QED BY <1>1, <1>6, <2>1, TypesOf DEF FailSend, TypeOK, disk, deliveries, service
<1>7. ASSUME NEW kept \in 0..MaxEvents, RecordAttempts(d, kept) PROVE TypeOK'
      <2>1. kept \in Nat BY BoundsAssumption
      <2>2. Elements(First(b, kept)) \subseteq Events BY <1>2, <2>1, FirstFits, ElementsOf
      <2>3. CASE Found(Elements(b))
            <3>1. /\ attempted' = [attempted EXCEPT ![c] =
                         @ \cup (Elements(First(b, kept)) \ delivered[c])]
                  /\ dispatch' = [dispatch EXCEPT ![d].phase = "sending"]
                  /\ Appends(Len(b), kept)
                  BY <1>7, <2>3 DEF RecordAttempts
            <3>2. attempted' \in [Consumers -> SUBSET Events] BY <1>1, <1>2, <2>2, <3>1 DEF TypeOK
            <3>3. dispatch[d] \in Batch BY <1>2
            <3>4. [dispatch[d] EXCEPT !.phase = "sending"] \in Batch BY <3>3 DEF Batch
            <3>5. dispatch' \in [Dispatchers -> Batch] BY <1>2, <3>1, <3>4
            <3>6. tail' \in {"clean", "open", "torn"} /\ up' \in BOOLEAN /\ faults' \in 0..MaxFaults
                  BY <1>1, <3>1, AppendsFit
            <3>7. QED BY <1>1, <1>7, <3>2, <3>5, <3>6, TypesOf DEF RecordAttempts, TypeOK, disk
      <2>4. CASE ~Found(Elements(b))
            <3>1. dispatch' \in [Dispatchers -> Batch]
                  BY <1>2, <1>3, <1>7, <2>4 DEF RecordAttempts
            <3>2. QED BY <1>1, <1>7, <2>4, <3>1, TypesOf DEF RecordAttempts, TypeOK, disk, service
      <2>5. QED BY <2>3, <2>4
<1>8. ASSUME NEW kept \in 0..MaxEvents, Acknowledge(d, kept) PROVE TypeOK'
      <2> DEFINE new == Filter(Sent(d), Events \ delivered[c])
      <2>1. kept \in Nat BY BoundsAssumption
      <2>2. Elements(First(new, kept)) \subseteq Events
            BY <1>2, <2>1, FirstFits, FilterFits, ElementsOf DEF Sent
      <2>3. dispatch' \in [Dispatchers -> Batch] BY <1>2, <1>3, <1>8 DEF Acknowledge
      <2>4. CASE Found(Elements(Sent(d))) /\ new # <<>>
            <3>1. /\ delivered' = [delivered EXCEPT ![c] = @ \cup Elements(First(new, kept))]
                  /\ Appends(Len(new), kept)
                  BY <1>8, <2>4 DEF Acknowledge
            <3>2. delivered' \in [Consumers -> SUBSET Events] BY <1>1, <1>2, <2>2, <3>1 DEF TypeOK
            <3>3. tail' \in {"clean", "open", "torn"} /\ up' \in BOOLEAN /\ faults' \in 0..MaxFaults
                  BY <1>1, <3>1, AppendsFit
            <3>4. QED BY <1>1, <1>8, <2>3, <3>2, <3>3, TypesOf DEF Acknowledge, TypeOK, disk
      <2>5. CASE ~(Found(Elements(Sent(d))) /\ new # <<>>)
            <3>1. tail' = ProjectedTail /\ UNCHANGED <<delivered, service>>
                  BY <1>8, <2>5 DEF Acknowledge
            <3>2. QED BY <1>1, <1>8, <2>3, <3>1, TypesOf DEF Acknowledge, TypeOK, disk, service
      <2>6. QED BY <2>4, <2>5
<1>9. QED BY <1>4, <1>5, <1>6, <1>7, <1>8 DEF DispatchStep

LEMMA OtherTypes ==
    ASSUME IInv, \/ WriteCheckpoint \/ CompactJournal \/ TimePasses
                 \/ CommandFails \/ CompactionFails \/ Crash \/ Restart
    PROVE  TypeOK'
<1>1. /\ TypeOK /\ Projected \in Seq(Events) /\ Elements(Projected) \subseteq Events
      /\ ProjectedTail \in {"clean", "open", "torn"}
      BY ProjectedFits, ElementsOf DEF IInv, TypeOK, ProjectedTail
<1>2. IdleCommand \in [phase : {"idle", "begun", "materialized", "saved"},
                       turn : Turns \cup {NoTurn}, removes : SUBSET Turns]
      BY DEF IdleCommand
<1>3. Fault => faults' \in 0..MaxFaults BY <1>1, BoundsAssumption DEF Fault, TypeOK
<1>4. CASE WriteCheckpoint
      <2>1. floors' \in [Scopes -> Nat] BY <1>4, CheckpointKeeps
      <2>2. compacting' \subseteq Events BY <1>1, <1>4 DEF WriteCheckpoint
      <2>3. QED BY <1>1, <1>4, <2>1, <2>2, TypesOf
                DEF WriteCheckpoint, Materialize, TypeOK, deliveries, service
<1>5. CASE CompactJournal
      <2>1. journal' \in Seq(Events) BY <1>5, CompactKeeps
      <2>2. gone' \subseteq Events BY <1>1, <1>5 DEF CompactJournal, TypeOK
      <2>3. QED BY <1>1, <1>5, <2>1, <2>2, TypesOf
                DEF CompactJournal, TypeOK, disk, deliveries, service
<1>6. CASE TimePasses BY <1>1, <1>6, TypesOf DEF TimePasses, TypeOK, disk, service
<1>7. CASE CommandFails
      BY <1>1, <1>2, <1>3, <1>7, TypesOf DEF CommandFails, TypeOK, disk, deliveries
<1>8. CASE CompactionFails
      BY <1>1, <1>3, <1>8, TypesOf DEF CompactionFails, TypeOK, disk, deliveries
<1>9. CASE Crash BY <1>1, <1>3, <1>9, TypesOf DEF Crash, TypeOK, disk, deliveries
<1>10. CASE Restart
       <2>1. dispatch' \in [Dispatchers -> Batch] BY <1>10 DEF Restart, IdleDispatch, Batch
       <2>2. QED BY <1>1, <1>2, <1>10, <2>1, TypesOf DEF Restart, TypeOK, disk, deliveries
<1>11. QED BY <1>4, <1>5, <1>6, <1>7, <1>8, <1>9, <1>10

-----------------------------------------------------------------------------
(***************************************************************************)
(* The command that holds the lifecycle lock.                              *)
(***************************************************************************)
LEMMA CommandSame ==
    ASSUME IInv, UNCHANGED <<command, manifest>>, Unpublished' \subseteq Unpublished
    PROVE  CommandFits'
BY DEF IInv, CommandFits

LEMMA CommandEnds ==
    ASSUME command' = IdleCommand
    PROVE  CommandFits'
BY DEF CommandFits, IdleCommand

LEMMA CommandKept ==
    ASSUME IInv, Next
    PROVE  CommandFits'
<1>1. ASSUME NEW t \in Turns, BeginTurnEvent(t) PROVE CommandFits'
      BY <1>1 DEF BeginTurnEvent, CommandFits, disk
<1>2. ASSUME NEW t \in Turns, BeginRemoval(t) PROVE CommandFits'
      <2>1. RemovedWith(t) # {} BY <1>2, RemovedWithFits DEF BeginRemoval
      <2>2. QED BY <1>2, <2>1 DEF BeginRemoval, CommandFits
<1>3. CASE MaterializePrevious
      <2>1. /\ command.phase = "begun" /\ manifest' = manifest /\ journal' = Projected
            /\ command' = [command EXCEPT !.phase = "materialized"]
            BY <1>3 DEF MaterializePrevious, Materialize, disk
      <2>2. Unpublished' = {} BY <1>3, <2>1, ReadShapes, ReadKeeps
      <2>3. /\ command'.phase = "materialized" /\ command'.turn = command.turn
            /\ command'.removes = command.removes
            BY <2>1 DEF IInv, TypeOK
      <2>4. QED BY <2>1, <2>2, <2>3 DEF IInv, CommandFits
<1>4. CASE WriteManifest
      <2>1. /\ command.phase = "materialized"
            /\ command' = [command EXCEPT !.phase = "saved"]
            BY <1>4 DEF WriteManifest
      <2>2. /\ command'.phase = "saved" /\ command'.turn = command.turn
            /\ command'.removes = command.removes
            BY <2>1 DEF IInv, TypeOK
      <2>3. CASE command.removes = {}
            <3>1. command.turn \in Turns BY <2>1, <2>3 DEF IInv, CommandFits
            <3>2. manifest' = SavedTurnEvent BY <1>4, <2>3 DEF WriteManifest
            <3>3. manifest'.turns[command.turn] = "live"
                  BY <3>1, <3>2 DEF SavedTurnEvent, IInv, TypeOK
            <3>4. QED BY <2>2, <2>3, <3>1, <3>3 DEF CommandFits
      <2>4. CASE command.removes # {}
            <3>1. manifest' = SavedRemoval BY <1>4, <2>4 DEF WriteManifest
            <3>2. command.removes \subseteq Turns BY DEF IInv, TypeOK
            <3>3. \A t \in command.removes : manifest'.turns[t] = "removed"
                  BY <3>1, <3>2 DEF SavedRemoval
            <3>4. QED BY <2>2, <2>4, <3>3 DEF CommandFits
      <2>5. QED BY <2>3, <2>4
<1>5. CASE PublishTurnEvent BY <1>5, CommandEnds DEF PublishTurnEvent
<1>6. ASSUME NEW kept \in 0..MaxEvents, RemoveScopes(kept) PROVE CommandFits'
      BY <1>6, CommandEnds DEF RemoveScopes
<1>7. ASSUME NEW t \in Turns, NEW kept \in 0..1, CommitMessage(t, kept) PROVE CommandFits'
      BY <1>7 DEF CommitMessage, CommandFits
<1>8. ASSUME NEW d \in Dispatchers, DispatchStep(d) PROVE CommandFits'
      <2>1. Unpublished' \subseteq Unpublished BY <1>8, ReadShapes, ReadKeeps
      <2>2. UNCHANGED <<command, manifest>>
            BY <1>8 DEF DispatchStep, ReadPending, SendEvent, FailSend, RecordAttempts,
                        Acknowledge, disk
      <2>3. QED BY <2>1, <2>2, CommandSame
<1>9. CASE WriteCheckpoint BY <1>9, CheckpointKeeps, CommandSame DEF WriteCheckpoint
<1>10. CASE CompactJournal BY <1>10, CompactKeeps, CommandSame DEF CompactJournal, disk
<1>11. CASE CommandFails \/ Restart BY <1>11, CommandEnds DEF CommandFails, Restart
<1>12. CASE TimePasses \/ CompactionFails \/ Crash
       <2>1. Unpublished' \subseteq Unpublished BY <1>12, ReadShapes, ReadKeeps
       <2>2. UNCHANGED <<command, manifest>> BY <1>12 DEF TimePasses, CompactionFails, Crash, disk
       <2>3. QED BY <2>1, <2>2, CommandSame
<1>13. QED BY <1>1, <1>2, <1>3, <1>4, <1>5, <1>6, <1>7, <1>8, <1>9, <1>10, <1>11, <1>12
           DEF Next, CommandStep

-----------------------------------------------------------------------------
(***************************************************************************)
(* The dispatchers.  A step of anybody else leaves their work alone; what  *)
(* it commits comes behind every event of a batch.                         *)
(***************************************************************************)
LEMMA DispatchSame ==
    ASSUME IInv,
           UNCHANGED <<dispatch, sent, delivered>>, aged' \in {aged, delivered},
           gone \subseteq gone', Events \subseteq Events', Events' \subseteq Nat,
           \A e \in Events : committed'[e] = committed[e] /\ \A f \in Events' \ Events : e < f
    PROVE  DispatchFits'
<1>1. /\ TypeOK /\ DispatchFits /\ Events \subseteq Nat
      BY EventTypes DEF IInv
<1>2. \A c \in Consumers : sent[c] \subseteq Events BY <1>1 DEF TypeOK
<1>3. ASSUME NEW e \in Events, NEW f \in Events', f < e
      PROVE  f \in Events
      <2>1. e \in Nat /\ f \in Nat BY <1>1
      <2>2. f \notin Events => e < f OBVIOUS
      <2>3. QED BY <1>3, <2>1, <2>2
<1>5. \A c \in Consumers : aged'[c] \subseteq delivered'[c] /\ delivered'[c] \subseteq sent'[c]
      BY <1>1 DEF DispatchFits
<1>6. ASSUME NEW d \in Dispatchers
      PROVE  /\ \A k \in DOMAIN dispatch[d].batch :
                   k <= dispatch[d].sends => dispatch[d].batch[k] \in sent[ConsumerOf[d]]
             /\ \A k \in DOMAIN dispatch[d].batch :
                   Precede(dispatch[d].batch, k, sent[ConsumerOf[d]] \cup gone)'
      <2> DEFINE b == dispatch[d].batch
                 c == ConsumerOf[d]
      <2>1. b \in Seq(Events) BY <1>1, BatchTypes
      <2>2. ASSUME NEW k \in DOMAIN b, NEW f \in Events', f < b[k],
                   committed'[f].scope = committed'[b[k]].scope
            PROVE  f \in sent[c] \cup gone' \/ \E j \in DOMAIN b : j < k /\ b[j] = f
            <3>1. b[k] \in Events BY <2>1
            <3>2. f \in Events /\ committed[f].scope = committed[b[k]].scope BY <1>3, <2>2, <3>1
            <3>3. Precede(b, k, sent[c] \cup gone) BY <1>1 DEF DispatchFits
            <3>4. QED BY <2>2, <3>2, <3>3 DEF Precede
      <2>3. \A k \in DOMAIN b : Precede(b, k, sent[c] \cup gone)' BY <2>2 DEF Precede
      <2>4. QED BY <1>1, <2>3 DEF DispatchFits
<1>7. SentInOrder'
      <2> SUFFICES ASSUME NEW c \in Consumers, NEW e \in sent[c], NEW f \in Events', f < e,
                          committed'[f].scope = committed'[e].scope
                   PROVE  f \in sent[c] \cup gone'
          BY DEF SentInOrder
      <2>1. e \in Events BY <1>2
      <2>2. f \in Events /\ committed[f].scope = committed[e].scope BY <1>3, <2>1
      <2>3. QED BY <1>1, <2>2 DEF DispatchFits, SentInOrder
<1>8. QED BY <1>5, <1>6, <1>7 DEF DispatchFits

LEMMA DispatchChanges ==
    ASSUME IInv, NEW d \in Dispatchers, NEW x \in Batch,
           dispatch' = [dispatch EXCEPT ![d] = x],
           UNCHANGED <<committed, gone>>,
           \A c \in Consumers : /\ sent[c] \subseteq sent'[c]
                                /\ aged'[c] \subseteq delivered'[c]
                                /\ delivered'[c] \subseteq sent'[c],
           \A k \in DOMAIN x.batch : k <= x.sends => x.batch[k] \in sent'[ConsumerOf[d]],
           \A k \in DOMAIN x.batch : Precede(x.batch, k, sent'[ConsumerOf[d]] \cup gone),
           SentInOrder'
    PROVE  DispatchFits'
<1>1. TypeOK /\ DispatchFits /\ dispatch \in [Dispatchers -> Batch] BY DEF IInv, TypeOK
<1>2. ASSUME NEW e \in Dispatchers, NEW y, y = dispatch'[e]
      PROVE  /\ \A k \in DOMAIN y.batch : k <= y.sends => y.batch[k] \in sent'[ConsumerOf[e]]
             /\ \A k \in DOMAIN y.batch : Precede(y.batch, k, sent'[ConsumerOf[e]] \cup gone)
      <2>1. CASE e = d
            <3>1. y = x BY <1>1, <1>2, <2>1
            <3>2. QED BY <2>1, <3>1
      <2>2. CASE e # d
            <3> DEFINE c == ConsumerOf[e]
            <3>1. y = dispatch[e] BY <1>1, <1>2, <2>2
            <3>2. c \in Consumers BY <1>1, BatchTypes
            <3>3. \A k \in DOMAIN y.batch : Precede(y.batch, k, sent[c] \cup gone)
                  BY <1>1, <3>1 DEF DispatchFits
            <3>4. sent[c] \subseteq sent'[c] BY <3>2
            <3>5. \A k \in DOMAIN y.batch : Precede(y.batch, k, sent'[c] \cup gone)
                  BY <3>3, <3>4 DEF Precede
            <3>6. \A k \in DOMAIN y.batch : k <= y.sends => y.batch[k] \in sent'[c]
                  BY <1>1, <3>1, <3>4 DEF DispatchFits
            <3>7. QED BY <3>5, <3>6
      <2>3. QED BY <2>1, <2>2
<1>3. Events' = Events BY DEF Events
<1>4. ASSUME NEW e \in Dispatchers
      PROVE  LET y == dispatch'[e].batch
             IN  /\ \A k \in DOMAIN y : k <= dispatch'[e].sends => y[k] \in sent'[ConsumerOf[e]]
                 /\ \A k \in DOMAIN y, f \in Events :
                       f < y[k] /\ committed[f].scope = committed[y[k]].scope =>
                          \/ f \in sent'[ConsumerOf[e]] \cup gone
                          \/ \E j \in DOMAIN y : j < k /\ y[j] = f
      BY <1>2 DEF Precede
<1>5. gone' = gone /\ committed' = committed OBVIOUS
<1>6. \A e \in Dispatchers :
         LET y == dispatch'[e].batch
         IN  \A k \in DOMAIN y : Precede(dispatch[e].batch, k, sent[ConsumerOf[e]] \cup gone)'
      BY <1>3, <1>4, <1>5 DEF Precede
<1>7. \A c \in Consumers : aged'[c] \subseteq delivered'[c] /\ delivered'[c] \subseteq sent'[c]
      OBVIOUS
<1>8. QED BY <1>4, <1>6, <1>7 DEF DispatchFits

LEMMA IdleBatch == IdleDispatch \in Batch /\ DOMAIN IdleDispatch.batch = {}
<1>1. IdleDispatch.batch = <<>> BY DEF IdleDispatch
<1>2. QED BY <1>1 DEF IdleDispatch, Batch

LEMMA DispatcherKeeps ==
    ASSUME IInv, NEW d \in Dispatchers, DispatchStep(d)
    PROVE  DispatchFits'
<1>0. PICK b, n : b = dispatch[d].batch /\ n = dispatch[d].sends OBVIOUS
<1> DEFINE c == ConsumerOf[d]
<1>1. /\ TypeOK /\ DispatchFits /\ SentInOrder
      /\ Projected \in Seq(Events)
      /\ Events = gone \cup Elements(Projected)
      BY ProjectedFits DEF IInv, DispatchFits
<1>2. /\ c \in Consumers /\ b \in Seq(Events) /\ n \in Nat
      /\ dispatch \in [Dispatchers -> Batch] /\ dispatch[d] \in Batch
      /\ DOMAIN b = 1..Len(b) /\ Len(b) \in Nat
      BY <1>0, <1>1, BatchTypes DEF TypeOK
<1>3. \A o \in Consumers : aged[o] \subseteq delivered[o] /\ delivered[o] \subseteq sent[o]
      BY <1>1 DEF DispatchFits
<1>4. /\ \A k \in DOMAIN b : k <= n => b[k] \in sent[c]
      /\ \A k \in DOMAIN b : Precede(b, k, sent[c] \cup gone)
      BY <1>0, <1>1 DEF DispatchFits
<1>5. ASSUME UNCHANGED <<committed, gone, sent>>
      PROVE  SentInOrder'
      <2>1. Events' = Events BY <1>5 DEF Events
      <2>2. QED BY <1>1, <1>5, <2>1 DEF SentInOrder
<1>6. CASE ReadPending(d)
      <2>0. PICK p : p = Pending(c) OBVIOUS
      <2> DEFINE r == [phase |-> "read", batch |-> p, sends |-> 0]
      <2>1. /\ UNCHANGED <<committed, gone, sent, delivered, aged>>
            /\ dispatch' = [dispatch EXCEPT ![d] = IF p = <<>> THEN IdleDispatch ELSE r]
            BY <1>6, <2>0 DEF ReadPending, deliveries
      <2>2. /\ p \in Seq(Events)
            /\ \A k \in DOMAIN p, f \in Elements(Projected) \ delivered[c] :
                  f < p[k] => \E j \in DOMAIN p : j < k /\ p[j] = f
            BY <1>2, <2>0, PendingFits
      <2>3. r \in Batch /\ r.batch = p /\ r.sends = 0 BY <2>2 DEF Batch
      <2>4. \A k \in DOMAIN p : Precede(p, k, sent[c] \cup gone)
            <3>1. ASSUME NEW k \in DOMAIN p, NEW f \in Events, f < p[k]
                  PROVE  f \in sent[c] \cup gone \/ \E j \in DOMAIN p : j < k /\ p[j] = f
                  <4>1. f \in gone \/ f \in delivered[c] \/ f \in Elements(Projected) \ delivered[c]
                        BY <1>1
                  <4>2. QED BY <1>2, <1>3, <2>2, <3>1, <4>1
            <3>2. QED BY <3>1 DEF Precede
      <2>5. CASE p = <<>>
            <3>1. dispatch' = [dispatch EXCEPT ![d] = IdleDispatch] BY <2>1, <2>5
            <3>2. QED BY <1>3, <1>5, <2>1, <3>1, IdleBatch, DispatchChanges
      <2>6. CASE p # <<>>
            <3>1. dispatch' = [dispatch EXCEPT ![d] = r] BY <2>1, <2>6
            <3>2. \A k \in DOMAIN p : ~(k <= 0)
                  <4>1. DOMAIN p = 1..Len(p) BY <2>2
                  <4>2. QED BY <4>1
            <3> HIDE DEF r
            <3>3. QED BY <1>3, <1>5, <2>1, <2>3, <2>4, <3>1, <3>2, DispatchChanges
      <2>7. QED BY <2>5, <2>6
<1>7. CASE SendEvent(d)
      <2>1. /\ UNCHANGED <<committed, gone, delivered, aged>>
            /\ dispatch' = [dispatch EXCEPT ![d].sends = @ + 1]
            /\ sent' = [sent EXCEPT ![c] = @ \cup {b[n + 1]}]
            /\ n < Len(b)
            BY <1>0, <1>7 DEF SendEvent, deliveries
      <2>2. PICK x \in Batch : x.batch = b /\ x.sends = n + 1 /\ x.phase = dispatch[d].phase
                               /\ dispatch' = [dispatch EXCEPT ![d] = x]
            <3> DEFINE r == [dispatch[d] EXCEPT !.sends = @ + 1]
            <3>1. r = [phase |-> dispatch[d].phase, batch |-> b, sends |-> n + 1]
                  BY <1>0, <1>2 DEF Batch
            <3>2. r \in Batch BY <1>1, <1>2, <3>1, BatchTypes DEF Batch
            <3>3. QED BY <2>1, <3>1, <3>2
      <2>3. n + 1 \in DOMAIN b /\ b[n + 1] \in Events BY <1>2, <2>1
      <2>4. /\ sent'[c] = sent[c] \cup {b[n + 1]}
            /\ \A o \in Consumers : sent[o] \subseteq sent'[o] /\ (o # c => sent'[o] = sent[o])
            BY <1>1, <1>2, <2>1 DEF TypeOK
      <2>5. Events' = Events BY <2>1 DEF Events
      <2>6. \A k \in DOMAIN b : k <= n + 1 => b[k] \in sent'[c]
            <3> SUFFICES ASSUME NEW k \in 1..Len(b), k <= n + 1 PROVE b[k] \in sent'[c]
                BY <1>2
            <3>1. k <= n \/ k = n + 1 BY <1>2
            <3>2. QED BY <1>2, <1>4, <2>4, <3>1
      <2>7. \A k \in DOMAIN b : Precede(b, k, sent'[c] \cup gone)
            BY <1>4, <2>4 DEF Precede
      <2>8. SentInOrder'
            <3> SUFFICES ASSUME NEW o \in Consumers, NEW e \in sent'[o], NEW f \in Events, f < e,
                                committed[f].scope = committed[e].scope
                         PROVE  f \in sent'[o] \cup gone
                BY <2>1, <2>5 DEF SentInOrder
            <3>1. CASE e \in sent[o] BY <1>1, <2>4, <3>1 DEF SentInOrder
            <3>2. CASE o = c /\ e = b[n + 1]
                  <4>1. f \in sent[c] \cup gone \/ \E j \in DOMAIN b : j < n + 1 /\ b[j] = f
                        BY <1>4, <2>3, <3>2 DEF Precede
                  <4>2. \A j \in DOMAIN b : j < n + 1 => j <= n BY <1>2
                  <4>3. QED BY <1>4, <2>4, <3>2, <4>1, <4>2
            <3>3. QED BY <2>4, <3>1, <3>2
      <2>9. \A o \in Consumers : aged'[o] \subseteq delivered'[o] /\ delivered'[o] \subseteq sent'[o]
            BY <1>3, <2>1, <2>4
      <2>10. /\ \A k \in DOMAIN x.batch : k <= x.sends => x.batch[k] \in sent'[c]
             /\ \A k \in DOMAIN x.batch : Precede(x.batch, k, sent'[c] \cup gone)
             BY <2>2, <2>6, <2>7
      <2>11. \A o \in Consumers : /\ sent[o] \subseteq sent'[o]
                                  /\ aged'[o] \subseteq delivered'[o]
                                  /\ delivered'[o] \subseteq sent'[o]
             BY <2>4, <2>9
      <2>12. UNCHANGED <<committed, gone>> /\ dispatch' = [dispatch EXCEPT ![d] = x]
             BY <2>1, <2>2
      <2>13. QED BY <2>8, <2>10, <2>11, <2>12, DispatchChanges
<1>8. CASE FailSend(d)
      <2>1. /\ UNCHANGED <<committed, gone, sent, delivered, aged>>
            /\ dispatch' = [dispatch EXCEPT ![d] = IdleDispatch]
            BY <1>8 DEF FailSend, deliveries
      <2>2. QED BY <1>3, <1>5, <2>1, IdleBatch, DispatchChanges
<1>9. ASSUME NEW kept \in 0..MaxEvents, RecordAttempts(d, kept) PROVE DispatchFits'
      <2>1. UNCHANGED <<committed, gone, sent, delivered, aged>>
            BY <1>9 DEF RecordAttempts
      <2>2. CASE Found(Elements(b))
            <3>1. dispatch' = [dispatch EXCEPT ![d].phase = "sending"]
                  BY <1>0, <1>9, <2>2 DEF RecordAttempts
            <3>2. PICK x \in Batch : x.batch = b /\ x.sends = n
                                     /\ dispatch' = [dispatch EXCEPT ![d] = x]
                  <4>1. [dispatch[d] EXCEPT !.phase = "sending"] \in Batch BY <1>2 DEF Batch
                  <4>2. /\ [dispatch[d] EXCEPT !.phase = "sending"].batch = b
                        /\ [dispatch[d] EXCEPT !.phase = "sending"].sends = n
                        BY <1>0, <1>2 DEF Batch
                  <4>3. QED BY <3>1, <4>1, <4>2
            <3>3. QED BY <1>3, <1>4, <1>5, <2>1, <3>2, DispatchChanges
      <2>3. CASE ~Found(Elements(b))
            <3>1. dispatch' = [dispatch EXCEPT ![d] = IdleDispatch]
                  BY <1>0, <1>9, <2>3 DEF RecordAttempts
            <3>2. QED BY <1>3, <1>5, <2>1, <3>1, IdleBatch, DispatchChanges
      <2>4. QED BY <2>2, <2>3
<1>10. ASSUME NEW kept \in 0..MaxEvents, Acknowledge(d, kept) PROVE DispatchFits'
       <2> DEFINE new == Filter(Sent(d), Events \ delivered[c])
       <2>1. /\ UNCHANGED <<committed, gone, sent, aged>>
             /\ dispatch' = [dispatch EXCEPT ![d] = IdleDispatch]
             /\ \/ delivered' = delivered
                \/ delivered' = [delivered EXCEPT ![c] = @ \cup Elements(First(new, kept))]
             BY <1>10 DEF Acknowledge
       <2>2. Elements(First(new, kept)) \subseteq sent[c]
             <3>1. kept \in Nat BY BoundsAssumption
             <3>2. Sent(d) \in Seq(Events) /\ Elements(Sent(d)) \subseteq sent[c]
                   <4>1. Sent(d) = First(b, n) BY <1>0 DEF Sent
                   <4>2. /\ First(b, n) \in Seq(Events)
                         /\ Elements(First(b, n)) = {b[i] : i \in {k \in 1..Len(b) : k <= n}}
                         BY <1>2, FirstFits
                   <4>3. \A k \in 1..Len(b) : k <= n => b[k] \in sent[c] BY <1>2, <1>4
                   <4>4. QED BY <4>1, <4>2, <4>3
             <3>3. QED BY <3>1, <3>2, FilterFits, FirstFits
       <2>3. \A o \in Consumers : delivered[o] \subseteq delivered'[o] /\ delivered'[o] \subseteq sent[o]
             <3>1. delivered \in [Consumers -> SUBSET Events] BY <1>1 DEF TypeOK
             <3> HIDE DEF new
             <3>2. QED BY <1>2, <1>3, <2>1, <2>2, <3>1
       <2>4. QED BY <1>3, <1>5, <2>1, <2>3, IdleBatch, DispatchChanges
<1>11. QED BY <1>6, <1>7, <1>8, <1>9, <1>10 DEF DispatchStep

LEMMA DispatchKept ==
    ASSUME IInv, Next
    PROVE  DispatchFits'
<1>1. TypeOK /\ Events = 1..Len(committed) /\ Len(committed) \in Nat BY EventTypes DEF IInv
<1>2. ASSUME UNCHANGED <<committed, dispatch, sent, delivered>>, aged' \in {aged, delivered},
             gone \subseteq gone'
      PROVE  DispatchFits'
      <2>1. Events' = Events /\ Events \subseteq Nat BY <1>1, <1>2 DEF Events
      <2>2. QED BY <1>2, <2>1, DispatchSame
<1>3. ASSUME NEW event \in Event, committed' = Append(committed, event),
             UNCHANGED <<dispatch, sent, deliveries, gone>>
      PROVE  DispatchFits'
      <2>1. /\ Events' = Events \cup {Len(committed) + 1}
            /\ \A e \in Events : committed'[e] = committed[e] /\ e < Len(committed) + 1
            BY <1>1, <1>3, NewEvent
      <2>2. Events' \subseteq Nat BY <1>1, <2>1
      <2>3. QED BY <1>3, <2>1, <2>2, DispatchSame DEF deliveries
<1>4. ASSUME NEW t \in Turns, BeginTurnEvent(t) \/ BeginRemoval(t) PROVE DispatchFits'
      BY <1>2, <1>4 DEF BeginTurnEvent, BeginRemoval, deliveries
<1>5. CASE MaterializePrevious \/ PublishTurnEvent
      BY <1>2, <1>5 DEF MaterializePrevious, PublishTurnEvent, deliveries
<1>6. CASE WriteManifest
      <2>1. UNCHANGED <<dispatch, sent, deliveries, gone>> BY <1>6 DEF WriteManifest
      <2>2. CASE command.removes # {}
            BY <1>2, <1>6, <2>1, <2>2 DEF WriteManifest, deliveries
      <2>3. CASE command.removes = {}
            <3> DEFINE event == [turn |-> command.turn, scope |-> SessionScope,
                                 sequence |-> manifest.sequence + 1]
            <3>1. committed' = Append(committed, event) BY <1>6, <2>3 DEF WriteManifest
            <3>2. command.turn \in Turns /\ manifest.sequence \in Nat
                  BY <1>1, <1>6, <2>3 DEF WriteManifest, IInv, CommandFits, TypeOK
            <3>3. event \in Event BY <3>2 DEF Event, Scopes
            <3>4. QED BY <1>3, <2>1, <3>1, <3>3
      <2>4. QED BY <2>2, <2>3
<1>7. ASSUME NEW kept \in 0..MaxEvents, RemoveScopes(kept) PROVE DispatchFits'
      BY <1>2, <1>7 DEF RemoveScopes, deliveries
<1>8. ASSUME NEW t \in Turns, NEW kept \in 0..1, CommitMessage(t, kept) PROVE DispatchFits'
      <2>1. UNCHANGED <<dispatch, sent, deliveries, gone>> BY <1>8 DEF CommitMessage
      <2>2. CASE kept # 1 BY <1>2, <1>8, <2>1, <2>2 DEF CommitMessage, deliveries
      <2>3. CASE kept = 1
            <3>1. Commits(t) BY <1>8, <2>3 DEF CommitMessage, CanRead, Commits, disk
            <3>2. NextSequence(t) \in Nat \ {0} BY <3>1, CommitKeeps
            <3>3. [turn |-> t, scope |-> t, sequence |-> NextSequence(t)] \in Event
                  BY <3>2 DEF Event, Scopes
            <3>4. QED BY <1>3, <2>1, <3>1, <3>3 DEF Commits
      <2>4. QED BY <2>2, <2>3
<1>9. ASSUME NEW d \in Dispatchers, DispatchStep(d) PROVE DispatchFits'
      BY <1>9, DispatcherKeeps
<1>10. CASE WriteCheckpoint \/ CompactJournal \/ TimePasses
       BY <1>2, <1>10 DEF WriteCheckpoint, CompactJournal, TimePasses, deliveries
<1>11. CASE CommandFails \/ CompactionFails \/ Crash
       BY <1>2, <1>11 DEF CommandFails, CompactionFails, Crash, deliveries
<1>12. CASE Restart
       <2>1. /\ UNCHANGED <<committed, sent, delivered, aged, gone>>
             /\ \A d \in Dispatchers : dispatch'[d] = IdleDispatch
             BY <1>12 DEF Restart, deliveries
       <2>2. Events' = Events BY <2>1 DEF Events
       <2>3. \A d \in Dispatchers : DOMAIN dispatch'[d].batch = {} BY <2>1, IdleBatch
       <2>4. SentInOrder' BY <2>1, <2>2 DEF IInv, DispatchFits, SentInOrder
       <2>5. QED BY <2>1, <2>3, <2>4 DEF IInv, DispatchFits
<1>13. QED BY <1>4, <1>5, <1>6, <1>7, <1>8, <1>9, <1>10, <1>11, <1>12 DEF Next, CommandStep

-----------------------------------------------------------------------------
(***************************************************************************)
(* Attempts.  Most steps record none, and let nothing go that is not       *)
(* removed.                                                                *)
(***************************************************************************)
LEMMA AttemptsSame ==
    ASSUME IInv, UNCHANGED attempted,
           \A c \in Consumers : delivered[c] \subseteq delivered'[c] /\ sent[c] \subseteq sent'[c],
           compacting' \subseteq compacting,
           \A e \in gone' : e \in gone \/ Removed(e)',
           \A e \in gone : Removed(e) => Removed(e)'
    PROVE  AttemptsFit'
BY DEF IInv, AttemptsFit, AttemptsAreKept

LEMMA AttemptsKept ==
    ASSUME IInv, Next
    PROVE  AttemptsFit'
<1>1. /\ TypeOK /\ DispatchFits /\ AttemptsFit /\ gone \subseteq Events /\ tombstones \subseteq Events
      /\ \A c \in Consumers : aged[c] \subseteq delivered[c] /\ delivered[c] \subseteq sent[c]
      BY DEF IInv, TypeOK, DispatchFits
<1>2. ASSUME UNCHANGED <<committed, manifest, attempted, delivered, gone, sent>>,
             compacting' \subseteq compacting
      PROVE  AttemptsFit'
      BY <1>2, AttemptsSame DEF Removed
<1>3. ASSUME NEW t \in Turns, BeginTurnEvent(t) \/ BeginRemoval(t) PROVE AttemptsFit'
      BY <1>2, <1>3 DEF BeginTurnEvent, BeginRemoval, disk, deliveries
<1>4. CASE MaterializePrevious \/ PublishTurnEvent
      BY <1>2, <1>4 DEF MaterializePrevious, PublishTurnEvent, disk, deliveries
<1>5. CASE WriteManifest
      <2>1. UNCHANGED <<attempted, delivered, gone, sent, compacting>>
            BY <1>5 DEF WriteManifest, deliveries
      <2>2. \A e \in Events : Removed(e) => Removed(e)'
            BY <1>5, EventKeeps, RemovalSaved DEF WriteEvent, WriteRemoval
      <2>3. QED BY <1>1, <2>1, <2>2, AttemptsSame
<1>6. ASSUME NEW kept \in 0..MaxEvents, RemoveScopes(kept) PROVE AttemptsFit'
      <2>1. UNCHANGED <<committed, manifest, attempted, delivered, sent, compacting>>
            BY <1>6 DEF RemoveScopes, disk, deliveries
      <2>2. \A e \in gone' : e \in gone \/ e \in tombstones' BY <1>6 DEF RemoveScopes
      <2>3. \A e \in gone' : e \in gone \/ Removed(e)' BY <1>6, <2>2, RemovalKeeps DEF JournalFits
      <2>4. \A e \in gone : Removed(e) => Removed(e)' BY <2>1 DEF Removed
      <2>5. QED BY <2>1, <2>3, <2>4, AttemptsSame
<1>7. ASSUME NEW t \in Turns, NEW kept \in 0..1, CommitMessage(t, kept) PROVE AttemptsFit'
      <2>1. UNCHANGED <<manifest, attempted, delivered, sent, gone, compacting>>
            BY <1>7 DEF CommitMessage, disk, deliveries
      <2>2. \A e \in Events : committed'[e] = committed[e]
            <3>1. CASE kept # 1 BY <1>7, <3>1 DEF CommitMessage
            <3>2. CASE kept = 1
                  <4>1. committed' = Append(committed, [turn |-> t, scope |-> t,
                                                        sequence |-> NextSequence(t)])
                        BY <1>7, <3>2 DEF CommitMessage
                  <4>2. committed \in Seq(Event) BY <1>1 DEF TypeOK
                  <4>3. QED BY <4>1, <4>2 DEF Events
            <3>3. QED BY <3>1, <3>2
      <2>3. \A e \in gone : Removed(e) => Removed(e)' BY <1>1, <2>1, <2>2 DEF Removed
      <2>4. QED BY <2>1, <2>3, AttemptsSame
<1>8. ASSUME NEW d \in Dispatchers, DispatchStep(d) PROVE AttemptsFit'
      <2> DEFINE c == ConsumerOf[d]
      <2>1. UNCHANGED <<committed, manifest, gone, compacting>>
            BY <1>8 DEF DispatchStep, ReadPending, SendEvent, FailSend, RecordAttempts,
                        Acknowledge, disk
      <2>2. c \in Consumers BY ConsumerAssumption
      <2>3. \A e \in gone : Removed(e) => Removed(e)' BY <2>1 DEF Removed
      <2>4. CASE ReadPending(d) \/ FailSend(d)
            BY <1>2, <2>1, <2>4 DEF ReadPending, FailSend, deliveries
      <2>5. CASE SendEvent(d)
            <3>1. UNCHANGED <<attempted, delivered>> BY <2>5 DEF SendEvent, deliveries
            <3>2. \A o \in Consumers : sent[o] \subseteq sent'[o]
                  BY <1>1, <2>2, <2>5 DEF SendEvent, TypeOK
            <3>3. QED BY <2>1, <2>3, <3>1, <3>2, AttemptsSame
      <2>6. ASSUME NEW kept \in 0..MaxEvents, Acknowledge(d, kept) PROVE AttemptsFit'
            <3>1. UNCHANGED <<attempted, sent>> BY <2>6 DEF Acknowledge
            <3> DEFINE new == Filter(Sent(d), Events \ delivered[c])
            <3>2. \/ delivered' = delivered
                  \/ delivered' = [delivered EXCEPT ![c] = @ \cup Elements(First(new, kept))]
                  BY <2>6 DEF Acknowledge
            <3> HIDE DEF new
            <3>3. delivered \in [Consumers -> SUBSET Events] BY <1>1 DEF TypeOK
            <3>4. \A o \in Consumers : delivered[o] \subseteq delivered'[o]
                  BY <2>2, <3>2, <3>3
            <3>5. QED BY <2>1, <2>3, <3>1, <3>4, AttemptsSame
      <2>7. ASSUME NEW kept \in 0..MaxEvents, RecordAttempts(d, kept) PROVE AttemptsFit'
            <3>1. compacting = {} /\ UNCHANGED <<delivered, sent>>
                  BY <2>7 DEF RecordAttempts, CanRead
            <3>2. CASE ~Found(Elements(dispatch[d].batch))
                  BY <1>2, <2>1, <2>7, <3>1, <3>2 DEF RecordAttempts
            <3>3. CASE Found(Elements(dispatch[d].batch))
                  <4> DEFINE tried == Elements(First(dispatch[d].batch, kept))
                  <4>1. attempted' = [attempted EXCEPT ![c] = @ \cup (tried \ delivered[c])]
                        BY <2>7, <3>3 DEF RecordAttempts
                  <4>2. tried \subseteq Elements(dispatch[d].batch)
                        <5>1. kept \in Nat BY BoundsAssumption
                        <5>2. dispatch[d].batch \in Seq(Events) BY <1>1, BatchTypes
                        <5>3. QED BY <5>1, <5>2, FirstFits
                  <4>3. tried \cap gone = {} BY <3>3, <4>2, ProjectedFits DEF Found
                  <4> HIDE DEF tried
                  <4>4. attempted \in [Consumers -> SUBSET Events] BY <1>1 DEF TypeOK
                  <4>5. \A o \in Consumers : attempted'[o] \cap gone \subseteq attempted[o]
                        BY <2>2, <4>1, <4>3, <4>4
                  <4>6. AttemptsAreKept'
                        BY <1>1, <2>1, <3>1, <4>5 DEF AttemptsFit, AttemptsAreKept, Removed
                  <4>7. QED BY <2>1, <3>1, <4>6 DEF AttemptsFit
            <3>4. QED BY <3>2, <3>3
      <2>8. QED BY <1>8, <2>4, <2>5, <2>6, <2>7 DEF DispatchStep
<1>9. CASE WriteCheckpoint
      <2>1. /\ UNCHANGED <<committed, manifest, attempted, delivered, sent, gone>>
            /\ \A e \in compacting' : Reclaimable(e)
            BY <1>9 DEF WriteCheckpoint, deliveries
      <2>2. \A c \in Consumers : attempted[c] \cap compacting' \subseteq delivered[c]
            BY <1>1, <2>1 DEF Reclaimable
      <2>3. AttemptsAreKept' BY <1>1, <2>1 DEF AttemptsFit, AttemptsAreKept, Removed
      <2>4. QED BY <2>1, <2>2, <2>3 DEF AttemptsFit
<1>10. CASE CompactJournal
       <2>1. /\ UNCHANGED <<committed, manifest, attempted, delivered, sent>>
             /\ gone' = gone \cup compacting /\ compacting' = {}
             BY <1>10 DEF CompactJournal, disk, deliveries
       <2>2. AttemptsAreKept' BY <1>1, <2>1 DEF AttemptsFit, AttemptsAreKept, Removed
       <2>3. QED BY <2>1, <2>2 DEF AttemptsFit
<1>11. CASE CommandFails \/ CompactionFails \/ Crash \/ Restart \/ TimePasses
       BY <1>2, <1>11
       DEF CommandFails, CompactionFails, Crash, Restart, TimePasses, disk, deliveries
<1>12. QED BY <1>3, <1>4, <1>5, <1>6, <1>7, <1>8, <1>9, <1>10, <1>11 DEF Next, CommandStep

-----------------------------------------------------------------------------
(***************************************************************************)
(* The events of removed turns, as long as nothing has failed.             *)
(***************************************************************************)
LEMMA SilentSame ==
    ASSUME IInv, UNCHANGED <<committed, manifest>>,
           Elements(journal') \subseteq Elements(Projected),
           faults' = 0 => faults = 0 /\ up' = up,
           command.phase = "saved" => command' = command \/ command.removes = {}
    PROVE  Silent'
<1>1. /\ Elements(Projected) = Elements(journal) \cup Unpublished
      /\ \A e \in Unpublished : ~Removed(e)
      BY ProjectedFits DEF IInv, ReceiptsFit, Unpublished, Missing
<1>2. Silent BY DEF IInv
<1> SUFFICES ASSUME faults' = 0
             PROVE  /\ up'
                    /\ \A e \in Elements(journal') :
                          committed[e].scope = SessionScope /\ Removed(e) =>
                             command'.phase = "saved" /\ committed[e].turn \in command'.removes
    BY DEF Silent, Removed
<1>3. faults = 0 /\ up' BY <1>2 DEF Silent
<1>4. ASSUME NEW e \in Elements(journal'), committed[e].scope = SessionScope, Removed(e)
      PROVE  command'.phase = "saved" /\ committed[e].turn \in command'.removes
      <2>1. e \in Elements(journal) BY <1>1, <1>4
      <2>2. command.phase = "saved" /\ committed[e].turn \in command.removes
            BY <1>2, <1>3, <1>4, <2>1 DEF Silent
      <2>3. QED BY <2>2
<1>5. QED BY <1>3, <1>4

LEMMA SilentKept ==
    ASSUME IInv, Next
    PROVE  Silent'
<1>1. /\ TypeOK /\ Silent /\ faults \in Nat
      /\ Projected \in Seq(Events)
      /\ Elements(Projected) = Elements(journal) \cup Unpublished
      /\ \A e \in Unpublished : ~Removed(e)
      BY ProjectedFits DEF IInv, TypeOK, ReceiptsFit, Unpublished, Missing
<1>2. Reads => Elements(journal') \subseteq Elements(Projected) BY <1>1 DEF Reads
<1>3. Fault => faults' # 0 BY <1>1 DEF Fault
<1>4. ASSUME NEW t \in Turns, BeginTurnEvent(t) \/ BeginRemoval(t) PROVE Silent'
      <2>1. Elements(journal') \subseteq Elements(Projected) BY <1>2, <1>4, ReadShapes
      <2>2. UNCHANGED <<committed, manifest, up, faults>> /\ command.phase = "idle"
            BY <1>4 DEF BeginTurnEvent, BeginRemoval, disk, service
      <2>3. QED BY <2>1, <2>2, SilentSame
<1>5. CASE MaterializePrevious \/ PublishTurnEvent
      <2>1. Elements(journal') \subseteq Elements(Projected) BY <1>2, <1>5, ReadShapes
      <2>2. /\ UNCHANGED <<committed, manifest, up, faults>>
            /\ command.phase = "begun" \/ command.removes = {}
            BY <1>5 DEF MaterializePrevious, PublishTurnEvent, disk, service
      <2>3. QED BY <2>1, <2>2, SilentSame
<1>6. CASE WriteManifest
      <2>1. /\ UNCHANGED <<journal, up, faults>> /\ command.phase = "materialized"
            /\ command' = [command EXCEPT !.phase = "saved"]
            BY <1>6 DEF WriteManifest, service
      <2>2. command'.phase = "saved" /\ command'.removes = command.removes
            BY <1>1, <2>1 DEF TypeOK
      <2>3. \A e \in Events : Removed(e)' => Removed(e) \/ committed[e].turn \in command.removes
            BY <1>6, EventKeeps, RemovalSaved DEF WriteEvent, WriteRemoval
      <2>4. Elements(journal) \subseteq Events BY <1>1, ElementsOf, EventTypes
      <2>5. \A e \in Events : committed'[e] = committed[e]
            <3>1. committed \in Seq(Event) BY <1>1 DEF TypeOK
            <3>2. \/ committed' = committed
                  \/ committed' = Append(committed, [turn |-> command.turn, scope |-> SessionScope,
                                                     sequence |-> manifest.sequence + 1])
                  BY <1>6 DEF WriteManifest
            <3>3. QED BY <3>1, <3>2 DEF Events
      <2>6. faults = 0 => \A e \in Elements(journal) : committed[e].scope = SessionScope => ~Removed(e)
            BY <1>1, <2>1 DEF Silent
      <2>7. QED BY <1>1, <2>1, <2>2, <2>3, <2>4, <2>5, <2>6 DEF Silent
<1>7. ASSUME NEW kept \in 0..MaxEvents, RemoveScopes(kept) PROVE Silent'
      <2> DEFINE S == {e \in Events : committed[e].turn \in command.removes}
                 doomed == Filter(Projected, S)
                 removed == Elements(First(doomed, kept))
      <2>1. /\ UNCHANGED <<committed, manifest>>
            /\ journal' = Filter(Projected, Events \ removed)
            /\ kept \in 0..Len(doomed)
            /\ \/ doomed = <<>> /\ UNCHANGED service
               \/ doomed # <<>> /\ Appends(Len(doomed), kept)
            BY <1>7 DEF RemoveScopes, disk
      <2>2. doomed \in Seq(Events) /\ Elements(doomed) = Elements(Projected) \cap S
            BY <1>1, FilterFits
      <2>3. kept \in Nat BY BoundsAssumption
      <2>4. faults' = 0 => faults = 0 /\ up' = up /\ kept = Len(doomed)
            <3>1. CASE doomed = <<>> /\ UNCHANGED service BY <2>1, <3>1 DEF service
            <3>2. CASE Appends(Len(doomed), kept) BY <1>1, <3>2, AppendsFit
            <3>3. QED BY <2>1, <3>1, <3>2
      <2> HIDE DEF doomed, S
      <2>5. kept = Len(doomed) => removed = Elements(doomed)
            <3> SUFFICES ASSUME kept = Len(doomed) PROVE removed = Elements(doomed)
                OBVIOUS
            <3>1. {k \in 1..Len(doomed) : k <= kept} = 1..Len(doomed) BY <2>2, <2>3
            <3>2. removed = {doomed[i] : i \in {k \in 1..Len(doomed) : k <= kept}}
                  BY <2>2, <2>3, FirstFits
            <3>3. DOMAIN doomed = 1..Len(doomed) BY <2>2
            <3>4. QED BY <3>1, <3>2, <3>3 DEF Elements
      <2> HIDE DEF removed
      <2>6. Elements(journal') = Elements(Projected) \cap (Events \ removed) BY <1>1, <2>1, FilterFits
      <2>7. ASSUME faults' = 0
            PROVE  /\ up'
                   /\ \A e \in Elements(journal') : ~(committed[e].scope = SessionScope /\ Removed(e))
            <3>1. /\ faults = 0 /\ up' /\ removed = Elements(Projected) \cap S
                  BY <1>1, <2>2, <2>4, <2>5, <2>7 DEF Silent
            <3>2. ASSUME NEW e \in Elements(journal'), committed[e].scope = SessionScope, Removed(e)
                  PROVE  FALSE
                  <4>1. e \in Elements(Projected) /\ e \in Events /\ e \notin S BY <2>6, <3>1
                  <4>2. e \in Elements(journal) BY <1>1, <3>2, <4>1
                  <4>3. committed[e].turn \in command.removes BY <1>1, <3>1, <3>2, <4>2 DEF Silent
                  <4>4. QED BY <4>1, <4>3 DEF S
            <3>3. QED BY <3>1, <3>2
      <2>8. QED BY <2>1, <2>7 DEF Silent, Removed
<1>8. ASSUME NEW t \in Turns, NEW kept \in 0..1, CommitMessage(t, kept) PROVE Silent'
      <2>1. faults' = 0 => faults = 0 /\ up' = up BY <1>1, <1>8, AppendsFit DEF CommitMessage
      <2>2. command' = command /\ command.phase = "idle" /\ manifest' = manifest
            BY <1>8 DEF CommitMessage, disk
      <2>3. CASE kept # 1
            <3>1. journal' = Projected /\ UNCHANGED committed BY <1>8, <2>3 DEF CommitMessage
            <3>2. QED BY <2>1, <2>2, <3>1, SilentSame
      <2>4. CASE kept = 1
            <3> DEFINE event == [turn |-> t, scope |-> t, sequence |-> NextSequence(t)]
            <3>1. Commits(t) BY <1>8, <2>4 DEF CommitMessage, CanRead, Commits, disk
            <3>2. PICK n : n = Len(committed) + 1 OBVIOUS
            <3>3. committed' = Append(committed, event) /\ journal' = Append(Projected, n)
                  BY <3>1, <3>2 DEF Commits
            <3>4. NextSequence(t) \in Nat \ {0} BY <3>1, CommitKeeps
            <3>5. event \in Event BY <3>4 DEF Event, Scopes
            <3>6. /\ Events' = Events \cup {n} /\ committed'[n] = event
                  /\ \A e \in Events : committed'[e] = committed[e]
                  BY <1>1, <3>2, <3>3, <3>5, NewEvent
            <3>7. event.scope # SessionScope BY TurnsAssumption
            <3> HIDE DEF event
            <3>8. Projected \in Seq(Events') BY <1>1, <3>6, SeqGrows
            <3>9. /\ Elements(journal') = Elements(Projected) \cup {n}
                  /\ Elements(Projected) \subseteq Events
                  BY <1>1, <3>3, <3>6, <3>8, ElementsOfAppend, ElementsOf
            <3>10. ASSUME faults' = 0, NEW e \in Elements(journal'),
                          committed'[e].scope = SessionScope, Removed(e)'
                   PROVE  FALSE
                   <4>1. e \in Elements(Projected) /\ committed'[e] = committed[e]
                         BY <3>6, <3>7, <3>9, <3>10
                   <4>2. Removed(e) /\ committed[e].scope = SessionScope
                         BY <2>2, <3>10, <4>1 DEF Removed
                   <4>3. QED BY <1>1, <2>1, <2>2, <3>10, <4>1, <4>2 DEF Silent
            <3>11. faults' = 0 => up' BY <1>1, <2>1 DEF Silent
            <3>12. QED BY <3>10, <3>11 DEF Silent
      <2>5. QED BY <2>3, <2>4
<1>9. ASSUME NEW d \in Dispatchers, DispatchStep(d) PROVE Silent'
      <2>1. Elements(journal') \subseteq Elements(Projected) BY <1>2, <1>9, ReadShapes
      <2>2. UNCHANGED <<committed, manifest, command>>
            BY <1>9 DEF DispatchStep, ReadPending, SendEvent, FailSend, RecordAttempts,
                        Acknowledge, disk
      <2>3. UNCHANGED service \/ \E n, kept : Appends(n, kept)
            BY <1>9 DEF DispatchStep, ReadPending, SendEvent, FailSend, RecordAttempts, Acknowledge
      <2>4. faults' = 0 => faults = 0 /\ up' = up BY <1>1, <2>3, AppendsFit DEF service
      <2>5. QED BY <2>1, <2>2, <2>4, SilentSame
<1>10. CASE WriteCheckpoint
       BY <1>10, SilentSame DEF WriteCheckpoint, Materialize, service
<1>11. CASE CompactJournal
       <2>1. Elements(journal') \subseteq Elements(Projected)
             BY <1>1, <1>11, FilterFits, EventTypes DEF CompactJournal
       <2>2. UNCHANGED <<committed, manifest, command, up, faults>>
             BY <1>11 DEF CompactJournal, disk, service
       <2>3. QED BY <2>1, <2>2, SilentSame
<1>12. CASE TimePasses
       BY <1>1, <1>12, SilentSame DEF TimePasses, disk, service
<1>13. CASE CommandFails \/ CompactionFails \/ Crash
       BY <1>3, <1>13 DEF CommandFails, CompactionFails, Crash, Silent
<1>14. CASE Restart
       <2>1. ~up /\ faults' = faults BY <1>14 DEF Restart
       <2>2. QED BY <1>1, <2>1 DEF Silent
<1>15. QED BY <1>4, <1>5, <1>6, <1>7, <1>8, <1>9, <1>10, <1>11, <1>12, <1>13, <1>14
           DEF Next, CommandStep

-----------------------------------------------------------------------------
(***************************************************************************)
(* The invariant holds in every reachable state.                           *)
(***************************************************************************)
LEMMA InitInv == Init => IInv
<1> SUFFICES ASSUME Init PROVE IInv
    OBVIOUS
<1> USE DEF Init
<1>1. Events = {} /\ committed \in Seq(Event) BY DEF Events
<1>2. /\ Elements(journal) = {} /\ Elements(manifest.receipts) = {}
      /\ Unpublished = {} /\ Ordered(journal) /\ Ordered(manifest.receipts)
      BY DEF Elements, Unpublished, Ordered
<1>3. TypeOK
      <2>1. manifest \in [sequence : Nat, receipts : Seq(Events \cup {SessionReceipt}),
                          turns : [Turns -> {"new", "live", "removed"}]]
            OBVIOUS
      <2>2. command \in [phase : {"idle", "begun", "materialized", "saved"},
                         turn : Turns \cup {NoTurn}, removes : SUBSET Turns]
            BY DEF IdleCommand
      <2>3. dispatch \in [Dispatchers -> Batch] BY IdleBatch
      <2>4. faults \in 0..MaxFaults BY BoundsAssumption
      <2>5. \A f \in {attempted, delivered, aged, sent} : f \in [Consumers -> SUBSET Events]
            OBVIOUS
      <2>6. QED BY <1>1, <2>1, <2>2, <2>3, <2>4, <2>5 DEF TypeOK
<1>4. CommitsFit BY <1>1 DEF CommitsFit, SequencesIncrease, Scopes
<1>5. ReceiptsFit BY <1>2 DEF ReceiptsFit
<1>6. CommandFits BY DEF CommandFits, IdleCommand
<1>7. JournalFits BY <1>1, <1>2 DEF JournalFits
<1>8. DispatchFits
      <2>1. \A d \in Dispatchers : DOMAIN dispatch[d].batch = {} BY IdleBatch
      <2>2. QED BY <2>1 DEF DispatchFits, SentInOrder
<1>9. AttemptsFit BY DEF AttemptsFit, AttemptsAreKept
<1>10. Silent BY <1>2 DEF Silent
<1>11. QED BY <1>3, <1>4, <1>5, <1>6, <1>7, <1>8, <1>9, <1>10 DEF IInv

LEMMA TypesKept ==
    ASSUME IInv, Next
    PROVE  TypeOK'
BY CommandTypes, DispatchTypes, OtherTypes DEF Next

LEMMA OutboxKept ==
    ASSUME IInv, Next
    PROVE  CommitsFit' /\ ReceiptsFit' /\ JournalFits'
<1>1. CASE Reads BY <1>1, ReadKeeps
<1>2. CASE WriteManifest BY <1>2, EventKeeps, RemovalSaved DEF WriteEvent, WriteRemoval
<1>3. ASSUME NEW kept \in 0..MaxEvents, RemoveScopes(kept)
      PROVE  CommitsFit' /\ ReceiptsFit' /\ JournalFits'
      BY <1>3, RemovalKeeps
<1>4. ASSUME NEW t \in Turns, NEW kept \in 0..1, CommitMessage(t, kept)
      PROVE  CommitsFit' /\ ReceiptsFit' /\ JournalFits'
      BY <1>1, <1>4, CommitShapes, CommitKeeps
<1>5. CASE WriteCheckpoint BY <1>5, CheckpointKeeps
<1>6. CASE CompactJournal BY <1>6, CompactKeeps
<1>7. QED BY <1>1, <1>2, <1>3, <1>4, <1>5, <1>6, ReadShapes DEF Next, CommandStep

LEMMA NextInv == IInv /\ [Next]_vars => IInv'
<1>1. ASSUME IInv, Next PROVE IInv'
      <2>1. TypeOK' BY <1>1, TypesKept
      <2>2. CommitsFit' /\ ReceiptsFit' /\ JournalFits' BY <1>1, OutboxKept
      <2>3. CommandFits' BY <1>1, CommandKept
      <2>4. DispatchFits' BY <1>1, DispatchKept
      <2>5. AttemptsFit' BY <1>1, AttemptsKept
      <2>6. Silent' BY <1>1, SilentKept
      <2>7. QED BY <2>1, <2>2, <2>3, <2>4, <2>5, <2>6 DEF IInv
<1>2. ASSUME IInv, UNCHANGED vars PROVE IInv'
      <2>1. Events' = Events /\ Batch' = Batch BY <1>2 DEF vars, Events, Batch
      <2>2. Missing' = Missing BY <1>2, <2>1 DEF vars, Missing
      <2>3. Unpublished' = Unpublished BY <1>2, <2>2 DEF vars, Unpublished
      <2>4. TypeOK' BY <1>2, <2>1 DEF IInv, vars, TypeOK
      <2>5. Reads BY <1>2 DEF Reads, vars
      <2>6. CommitsFit' /\ ReceiptsFit' /\ JournalFits' BY <1>2, <2>5, ReadKeeps
      <2>7. CommandFits' BY <1>2, <2>3, CommandSame DEF vars
      <2>8. DispatchFits'
            <3>1. Events \subseteq Nat BY <1>2, EventTypes DEF IInv
            <3>2. QED BY <1>2, <2>1, <3>1, DispatchSame DEF vars
      <2>9. AttemptsFit' BY <1>2, AttemptsSame DEF vars, Removed
      <2>10. Silent' BY <1>2 DEF IInv, Silent, Removed, vars
      <2>11. QED BY <2>4, <2>6, <2>7, <2>8, <2>9, <2>10 DEF IInv
<1>3. QED BY <1>1, <1>2

THEOREM OutboxInvariant == Spec => []IInv
BY InitInv, NextInv, PTL DEF Spec

(***************************************************************************)
(* The journal holds the events in the order of their commits, none twice. *)
(***************************************************************************)
THEOREM JournalIsInOrder == Spec => []JournalOK
<1>1. IInv => JournalOK
      <2> SUFFICES ASSUME IInv PROVE JournalOK
          OBVIOUS
      <2>1. TypeOK /\ Ordered(journal) BY DEF IInv, JournalFits
      <2>2. \A i \in DOMAIN journal : journal[i] # SessionReceipt
            <3>1. journal \in Seq(Events) /\ SessionReceipt \notin Events BY <2>1, EventTypes
            <3>2. QED BY <3>1
      <2>3. QED BY <2>1, <2>2 DEF JournalOK, Ordered
<1>2. QED BY <1>1, OutboxInvariant, PTL

(***************************************************************************)
(* Whatever was committed is in the outbox, or the next read puts it       *)
(* there, unless it has left the outbox, and then it does not come back.   *)
(***************************************************************************)
THEOREM NoEventIsLostOrReturns == Spec => []NothingIsLostOrReturns
<1>1. IInv => NothingIsLostOrReturns BY ProjectedFits DEF NothingIsLostOrReturns
<1>2. QED BY <1>1, OutboxInvariant, PTL

(***************************************************************************)
(* The sequence numbers of an ordering scope increase with the commits.    *)
(***************************************************************************)
THEOREM SequencesAlwaysIncrease == Spec => []SequencesIncrease
<1>1. IInv => SequencesIncrease BY DEF IInv, CommitsFit
<1>2. QED BY <1>1, OutboxInvariant, PTL

(***************************************************************************)
(* A consumer gets the events of an ordering scope in their order, however *)
(* many connections deliver for it and whatever fails.                     *)
(***************************************************************************)
THEOREM DeliveryIsInOrder == Spec => []SentInOrder
<1>1. IInv => SentInOrder BY DEF IInv, DispatchFits
<1>2. QED BY <1>1, OutboxInvariant, PTL

(***************************************************************************)
(* An attempted event leaves the outbox acknowledged or with its turn.     *)
(***************************************************************************)
THEOREM NoAttemptIsDropped == Spec => []AttemptsAreKept
<1>1. IInv => AttemptsAreKept BY DEF IInv, AttemptsFit
<1>2. QED BY <1>1, OutboxInvariant, PTL

(***************************************************************************)
(* As long as nothing has failed, no lifecycle event of a removed turn is  *)
(* offered once the removal has ended.                                     *)
(***************************************************************************)
THEOREM RemovalSilencesTurns == Spec => [](faults = 0 => RemovedTurnsAreSilent)
<1>1. IInv => (faults = 0 => RemovedTurnsAreSilent)
      <2> SUFFICES ASSUME IInv, faults = 0, command.phase = "idle",
                          NEW e \in Elements(Projected), committed[e].scope = SessionScope,
                          Removed(e)
                   PROVE  FALSE
          BY DEF RemovedTurnsAreSilent
      <2>1. e \in Elements(journal)
            BY ProjectedFits DEF IInv, ReceiptsFit, Unpublished, Missing
      <2>2. QED BY <2>1 DEF IInv, Silent
<1>2. QED BY <1>1, OutboxInvariant, PTL
=============================================================================
