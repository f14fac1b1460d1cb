-------------------------- MODULE AdmissionProofs --------------------------
(***************************************************************************)
(* Proofs about Admission, for any requests, sizes, budgets and limits.    *)
(*                                                                         *)
(* All but the simplest handlers end in promote_queued, so most of the     *)
(* work is one lemma about it: it takes a queue in order with the channels *)
(* of its entries open, and leaves one, with the slots it gave counted and *)
(* either no entry or no free slot left.                                   *)
(***************************************************************************)
EXTENDS Admission, Sums

\* No request is twice in a queue.
Distinct(q) == \A i, j \in 1..Len(q) : q[i] = q[j] => i = j

\* x is ahead of y.
Ahead(q, x, y) == \E i, j \in 1..Len(q) : i < j /\ q[i] = x /\ q[j] = y

-----------------------------------------------------------------------------
(* Queues.                                                                 *)

\* The first k entries, and the others.
LEMMA Cut ==
    ASSUME NEW q \in Seq(Requests), Distinct(q), NEW k \in 0..Len(q)
    PROVE  LET first == ToSet(SubSeq(q, 1, k))
               rest == SubSeq(q, k + 1, Len(q))
           IN  /\ first \in SUBSET ToSet(q) /\ ToSet(q) \in SUBSET Requests
               /\ rest \in Seq(Requests) /\ Len(rest) = Len(q) - k /\ Distinct(rest)
               /\ ToSet(rest) = ToSet(q) \ first
               /\ \A x, y : Ahead(q, x, y) /\ y \in first => x \in first
  <1> DEFINE s == SubSeq(q, 1, k)
             rest == SubSeq(q, k + 1, Len(q))
  <1>1. s \in Seq(Requests) /\ Len(s) = k /\ \A i \in 1..k : s[i] = q[i]
    OBVIOUS
  <1>2. rest \in Seq(Requests) /\ Len(rest) = Len(q) - k
        /\ \A i \in 1..(Len(q) - k) : rest[i] = q[k + i]
    OBVIOUS
  <1> HIDE DEF s, rest
  <1>3. ToSet(s) = {q[i] : i \in 1..k}
    BY <1>1 DEF ToSet
  <1>4. ToSet(rest) = {q[k + i] : i \in 1..(Len(q) - k)}
    <2>1. DOMAIN rest = 1..(Len(q) - k)
      BY <1>2
    <2>2. \A i \in DOMAIN rest : rest[i] = q[k + i]
      BY <1>2, <2>1
    <2> QED  BY <2>1, <2>2, Zenon DEF ToSet
  <1>5. ToSet(q) = {q[i] : i \in 1..Len(q)}
    BY DEF ToSet
  <1>6. Distinct(rest)
    <2> SUFFICES ASSUME NEW i \in 1..Len(rest), NEW j \in 1..Len(rest), rest[i] = rest[j]
                 PROVE  i = j
      BY DEF Distinct
    <2>1. k + i \in 1..Len(q) /\ k + j \in 1..Len(q) /\ q[k + i] = q[k + j]
      BY <1>2
    <2>2. k + i = k + j
      BY <2>1 DEF Distinct
    <2> QED  BY <1>2, <2>2
  <1>7. ToSet(rest) = ToSet(q) \ ToSet(s)
    <2>1. ASSUME NEW i \in 1..(Len(q) - k) PROVE q[k + i] \in ToSet(q) \ ToSet(s)
      BY <1>3, <1>5 DEF Distinct
    <2>2. ASSUME NEW j \in 1..Len(q), q[j] \notin ToSet(s) PROVE q[j] \in ToSet(rest)
      <3>1. j - k \in 1..(Len(q) - k) /\ k + (j - k) = j
        BY <1>3, <2>2
      <3> QED  BY <1>4, <3>1
    <2> QED  BY <1>4, <1>5, <2>1, <2>2
  <1>8. ToSet(s) \in SUBSET ToSet(q) /\ ToSet(q) \in SUBSET Requests
    BY <1>3, <1>5
  <1>9. \A x, y : Ahead(q, x, y) /\ y \in ToSet(s) => x \in ToSet(s)
    BY <1>3 DEF Ahead, Distinct
  <1> QED  BY <1>2, <1>6, <1>7, <1>8, <1>9 DEF s, rest

\* Two queues one after the other.
LEMMA Joined ==
    ASSUME NEW S, NEW a \in Seq(S), NEW b \in Seq(S)
    PROVE  a \o b \in Seq(S) /\ Len(a \o b) = Len(a) + Len(b)
           /\ \A j \in 1..(Len(a) + Len(b)) : (a \o b)[j] = IF j <= Len(a) THEN a[j] ELSE b[j - Len(a)]
  OBVIOUS

\* The queue without one of its entries: the others keep their order.
LEMMA RemoveFirstIs ==
    ASSUME NEW q \in Seq(Requests), Distinct(q), NEW r \in ToSet(q)
    PROVE  LET p == RemoveFirst(q, r)
           IN  /\ p \in Seq(Requests) /\ Distinct(p) /\ Len(p) = Len(q) - 1
               /\ ToSet(p) = ToSet(q) \ {r}
               /\ \A x, y : Ahead(q, x, y) /\ x # r /\ y # r => Ahead(p, x, y)
  <1> DEFINE p == RemoveFirst(q, r)
             I == {j \in 1..Len(q) : q[j] = r}
  <1>1. I # {} /\ I \in SUBSET Nat
    BY DEF ToSet
  <1>2. PICK i \in I : \A j \in I : i <= j
    <2> HIDE DEF I
    <2> QED  BY <1>1, LeastNumber
  <1>3. Min(I) \in I
    BY <1>2 DEF Min
  <1>4. PICK m \in 1..Len(q) : q[m] = r /\ p = RemoveAt(q, m)
    <2>1. p = RemoveAt(q, Min(I))
      BY <1>1 DEF RemoveFirst, SelectInSeq
    <2> QED  BY <1>3, <2>1
  <1>5. p = SubSeq(q, 1, m - 1) \o SubSeq(q, m + 1, Len(q))
    BY <1>4 DEF RemoveAt
  <1>6. p \in Seq(Requests) /\ Len(p) = Len(q) - 1
        /\ \A j \in 1..(Len(q) - 1) : p[j] = IF j < m THEN q[j] ELSE q[j + 1]
    <2> DEFINE a == SubSeq(q, 1, m - 1)
               b == SubSeq(q, m + 1, Len(q))
    <2>1. a \in Seq(Requests) /\ Len(a) = m - 1 /\ \A j \in 1..(m - 1) : a[j] = q[j]
      OBVIOUS
    <2>2. b \in Seq(Requests) /\ Len(b) = Len(q) - m /\ \A j \in 1..(Len(q) - m) : b[j] = q[m + j]
      OBVIOUS
    <2> HIDE DEF a, b
    <2>3. a \o b \in Seq(Requests) /\ Len(a \o b) = Len(q) - 1
          /\ \A j \in 1..(Len(q) - 1) : (a \o b)[j] = IF j < m THEN a[j] ELSE b[j - (m - 1)]
      <3>1. a \o b \in Seq(Requests) /\ Len(a \o b) = Len(a) + Len(b)
            /\ \A j \in 1..(Len(a) + Len(b)) : (a \o b)[j] = IF j <= Len(a) THEN a[j] ELSE b[j - Len(a)]
        BY <2>1, <2>2, Joined
      <3>2. Len(a) + Len(b) = Len(q) - 1 /\ \A j \in 1..(Len(q) - 1) : j <= Len(a) <=> j < m
        BY <2>1, <2>2
      <3> QED  BY <2>1, <3>1, <3>2
    <2>4. ASSUME NEW j \in 1..(Len(q) - 1), ~(j < m) PROVE b[j - (m - 1)] = q[j + 1]
      <3>1. j - (m - 1) \in 1..(Len(q) - m) /\ m + (j - (m - 1)) = j + 1
        BY <2>4
      <3> QED  BY <2>2, <3>1
    <2>5. \A j \in 1..(Len(q) - 1) : j < m => a[j] = q[j]
      BY <2>1
    <2> QED  BY <1>5, <2>3, <2>4, <2>5 DEF a, b
  <1> HIDE DEF p, I
  <1>7. Distinct(p)
    BY <1>6 DEF Distinct
  <1>8. \A j \in 1..Len(q) : j # m => q[j] # r
    BY <1>4 DEF Distinct
  <1>9. \A j \in 1..Len(q) : j # m =>
          LET n == IF j < m THEN j ELSE j - 1 IN n \in 1..Len(p) /\ p[n] = q[j]
    BY <1>6
  <1>10. ToSet(p) = ToSet(q) \ {r}
    <2>1. ToSet(p) = {p[j] : j \in 1..Len(p)} /\ ToSet(q) = {q[j] : j \in 1..Len(q)}
      BY <1>6 DEF ToSet
    <2>2. ASSUME NEW j \in 1..Len(p) PROVE p[j] \in ToSet(q) \ {r}
      <3>1. CASE j < m
        BY <1>6, <1>8, <2>1, <3>1
      <3>2. CASE ~(j < m)
        BY <1>6, <1>8, <2>1, <3>2
      <3> QED  BY <3>1, <3>2
    <2>3. ASSUME NEW j \in 1..Len(q), q[j] # r PROVE q[j] \in ToSet(p)
      <3>1. j # m
        BY <1>4, <2>3
      <3> QED  BY <1>9, <2>1, <3>1
    <2> QED  BY <2>1, <2>2, <2>3
  <1>11. ASSUME NEW x, NEW y, Ahead(q, x, y), x # r, y # r PROVE Ahead(p, x, y)
    <2>1. PICK k, l \in 1..Len(q) : k < l /\ q[k] = x /\ q[l] = y
      BY <1>11 DEF Ahead
    <2>2. k # m /\ l # m
      BY <1>4, <1>11, <2>1
    <2> DEFINE kk == IF k < m THEN k ELSE k - 1
               ll == IF l < m THEN l ELSE l - 1
    <2>3. kk \in 1..Len(p) /\ ll \in 1..Len(p) /\ p[kk] = x /\ p[ll] = y
      BY <1>9, <2>1, <2>2
    <2>4. kk < ll
      BY <2>1, <2>2
    <2> QED  BY <2>3, <2>4 DEF Ahead
  <1> QED  BY <1>6, <1>7, <1>10, <1>11 DEF p

\* The last entry of a queue is new.
LEMMA AppendIs ==
    ASSUME NEW q \in Seq(Requests), Distinct(q), NEW r \in Requests, r \notin ToSet(q)
    PROVE  LET p == Append(q, r)
           IN  /\ p \in Seq(Requests) /\ Distinct(p) /\ Len(p) = Len(q) + 1
               /\ ToSet(p) = ToSet(q) \cup {r}
  <1> DEFINE p == Append(q, r)
  <1>1. p \in Seq(Requests) /\ Len(p) = Len(q) + 1 /\ p[Len(p)] = r
        /\ \A j \in 1..Len(q) : p[j] = q[j]
    OBVIOUS
  <1> HIDE DEF p
  <1>2. ToSet(q) = {q[j] : j \in 1..Len(q)} /\ ToSet(p) = {p[j] : j \in 1..Len(p)}
    BY <1>1 DEF ToSet
  <1>3. \A j \in 1..Len(p) : j \in 1..Len(q) \/ j = Len(p)
    BY <1>1
  <1>4. Distinct(p)
    BY <1>1, <1>2, <1>3 DEF Distinct
  <1>5. ToSet(p) = ToSet(q) \cup {r}
    <2>1. \A j \in 1..Len(p) : p[j] \in ToSet(q) \cup {r}
      BY <1>1, <1>2, <1>3
    <2>2. \A j \in 1..Len(q) : q[j] \in ToSet(p)
      BY <1>1, <1>2
    <2>3. r \in ToSet(p)
      BY <1>1, <1>2
    <2> QED  BY <1>2, <2>1, <2>2, <2>3
  <1> QED  BY <1>1, <1>4, <1>5 DEF p

-----------------------------------------------------------------------------
(* Bytes.                                                                  *)

LEMMA TotalIsSum == ASSUME NEW S PROVE TotalBytes(S) = SumOf(Bytes, S)
  BY DEF TotalBytes, SumOf

LEMMA RequestsFinite ==
    ASSUME NEW S \in SUBSET Requests PROVE IsFiniteSet(S) /\ Cardinality(S) \in Nat
  BY RequestsAssumption, FS_Subset, FS_CardinalityType

LEMMA TotalNat == ASSUME NEW S \in SUBSET Requests PROVE TotalBytes(S) \in Nat
  <1>1. IsFiniteSet(S) /\ \A r \in S : Bytes[r] \in Nat
    BY RequestsFinite, BytesAssumption
  <1> QED  BY <1>1, SumNat, TotalIsSum

\* What leaves a queue takes its bytes along.
LEMMA TotalSplit ==
    ASSUME NEW S \in SUBSET Requests, NEW T \in SUBSET S
    PROVE  TotalBytes(S \ T) = TotalBytes(S) - TotalBytes(T) /\ TotalBytes(S \ T) <= TotalBytes(S)
  <1>1. IsFiniteSet(S) /\ \A r \in S : Bytes[r] \in Int
    BY RequestsFinite, BytesAssumption
  <1>2. TotalBytes(S) = TotalBytes(T) + TotalBytes(S \ T)
    BY <1>1, SumSplit, TotalIsSum
  <1>3. TotalBytes(S) \in Nat /\ TotalBytes(T) \in Nat /\ TotalBytes(S \ T) \in Nat
    BY TotalNat
  <1> QED  BY <1>2, <1>3

LEMMA TotalRemove ==
    ASSUME NEW S \in SUBSET Requests, NEW r \in S
    PROVE  TotalBytes(S \ {r}) = TotalBytes(S) - Bytes[r] /\ TotalBytes(S \ {r}) <= TotalBytes(S)
  <1>1. IsFiniteSet(S) /\ \A x \in S : Bytes[x] \in Int
    BY RequestsFinite, BytesAssumption
  <1>2. TotalBytes(S) = Bytes[r] + TotalBytes(S \ {r})
    BY <1>1, SumRemove, TotalIsSum
  <1>3. TotalBytes(S) \in Nat /\ Bytes[r] \in Nat /\ TotalBytes(S \ {r}) \in Nat
    BY TotalNat, BytesAssumption
  <1> QED  BY <1>2, <1>3

LEMMA TotalAdd ==
    ASSUME NEW S \in SUBSET Requests, NEW r \in Requests, r \notin S
    PROVE  TotalBytes(S \cup {r}) = TotalBytes(S) + Bytes[r]
  <1>1. IsFiniteSet(S) /\ (\A x \in S : Bytes[x] \in Int) /\ Bytes[r] \in Int
    BY RequestsFinite, BytesAssumption
  <1> QED  BY <1>1, SumAdd, TotalIsSum

LEMMA TotalNone == TotalBytes({}) = 0
  <1>1. IsFiniteSet({}) /\ \A x \in {} : Bytes[x] \in Int
    BY FS_EmptySet
  <1>2. SumOf(Bytes, {}) = 0
    BY <1>1, SumRound
  <1> QED  BY <1>2, TotalIsSum

-----------------------------------------------------------------------------
(* promote_queued.                                                         *)

\* The entries popped are found: the first number that leaves no slot free, or all.
LEMMA PoppedIs ==
    ASSUME NEW q \in Seq(Requests), NEW free
    PROVE  /\ Popped(q, free) \in 0..Len(q)
           /\ Cardinality(Accepting(q, Popped(q, free))) = free \/ Popped(q, free) = Len(q)
  <1> DEFINE Stops == {k \in 0..Len(q) : Cardinality(Accepting(q, k)) = free \/ k = Len(q)}
  <1>1. Len(q) \in Stops /\ Stops \in SUBSET Nat
    OBVIOUS
  <1>2. PICK k \in Stops : \A j \in Stops : k <= j
    <2> HIDE DEF Stops
    <2> QED  BY <1>1, LeastNumber
  <1>3. ASSUME NEW j \in 0..(k - 1) PROVE Cardinality(Accepting(q, j)) # free
    <2>1. j \in 0..Len(q) /\ ~(k <= j)
      OBVIOUS
    <2> QED  BY <1>2, <2>1
  <1>4. \E i \in 0..Len(q) : /\ Cardinality(Accepting(q, i)) = free \/ i = Len(q)
                             /\ \A j \in 0..(i - 1) : Cardinality(Accepting(q, j)) # free
    BY <1>3
  <1> QED  BY <1>4 DEF Popped

\* Whoever is in a queue waits or has stopped to, with an open channel.
InOrder(q, chans, place) ==
    /\ q \in Seq(Requests) /\ Distinct(q)
    /\ \A r \in ToSet(q) : place[r] \in {"waiting", "leaving"} /\ chans[r] = "open"

\* What promote_queued makes of a queue: T leaves it, A of T get a slot.
Promoted(a, l, q, chans, T, A) ==
    /\ T \in SUBSET ToSet(q) /\ A = {r \in T : pc[r] = "waiting"}
    /\ queue' \in Seq(Requests) /\ Distinct(queue') /\ Len(queue') <= Len(q)
    /\ ToSet(queue') = ToSet(q) \ T
    /\ queuedBytes' = TotalBytes(ToSet(queue')) /\ queuedBytes' <= TotalBytes(ToSet(q))
    /\ active' = a + Cardinality(A) /\ Cardinality(A) \in Nat
    /\ ready' = [r \in Requests |-> IF r \in A THEN "sent"
                                    ELSE IF r \in T THEN "closed" ELSE chans[r]]
    /\ queue' # <<>> => active' >= l
    /\ \A x, y : Ahead(q, x, y) /\ y \in T => x \in T

LEMMA PromoteIs ==
    ASSUME NEW a \in Nat, NEW l \in Nat, NEW q \in Seq(Requests), NEW qb, NEW chans,
           Distinct(q), qb = TotalBytes(ToSet(q)), Promote(a, l, q, qb, chans)
    PROVE  \E T, A : Promoted(a, l, q, chans, T, A)
  <1> DEFINE k == Popped(q, Free(a, l))
             T == ToSet(SubSeq(q, 1, k))
             A == Accepting(q, k)
  <1>1. k \in 0..Len(q) /\ (Cardinality(A) = Free(a, l) \/ k = Len(q))
    BY PoppedIs
  <1>2. /\ active' = a + Cardinality(A)
        /\ queue' = SubSeq(q, k + 1, Len(q))
        /\ queuedBytes' = qb - TotalBytes(T)
        /\ ready' = [r \in Requests |-> IF r \in A THEN "sent"
                                        ELSE IF r \in T THEN "closed" ELSE chans[r]]
    BY DEF Promote
  <1>3. A = {r \in T : pc[r] = "waiting"}
    BY DEF Accepting, ReceiverAlive
  <1> HIDE DEF k, A
  <1>4. /\ T \in SUBSET ToSet(q) /\ ToSet(q) \in SUBSET Requests
        /\ queue' \in Seq(Requests) /\ Len(queue') = Len(q) - k /\ Distinct(queue')
        /\ ToSet(queue') = ToSet(q) \ T
        /\ \A x, y : Ahead(q, x, y) /\ y \in T => x \in T
    BY <1>1, <1>2, Cut
  <1> HIDE DEF T
  <1>5. queuedBytes' = TotalBytes(ToSet(queue')) /\ queuedBytes' <= TotalBytes(ToSet(q))
    <2>1. TotalBytes(ToSet(q) \ T) = TotalBytes(ToSet(q)) - TotalBytes(T)
          /\ TotalBytes(ToSet(q) \ T) <= TotalBytes(ToSet(q))
      BY <1>4, TotalSplit
    <2>2. TotalBytes(ToSet(queue')) = TotalBytes(ToSet(q) \ T)
      BY <1>4
    <2> QED  BY <1>2, <2>1, <2>2
  <1>6. Cardinality(A) \in Nat
    <2>1. A \in SUBSET Requests
      BY <1>3, <1>4
    <2> QED  BY <2>1, RequestsFinite
  <1>7. queue' # <<>> => active' >= l
    <2>1. queue' # <<>> => k # Len(q)
      BY <1>1, <1>4
    <2> QED  BY <1>1, <1>2, <1>6, <2>1 DEF Free
  <1>8. Len(queue') <= Len(q)
    BY <1>1, <1>4
  <1>9. Promoted(a, l, q, chans, T, A)
    BY <1>2, <1>3, <1>4, <1>5, <1>6, <1>7, <1>8 DEF Promoted
  <1> QED  BY <1>9

-----------------------------------------------------------------------------
(* The inductive invariant.                                                *)

\* A waiting request is in the queue, or promoted, or cancelled.
TurnKept(q, chans, place, ctl) ==
    \A r \in Requests : place[r] = "waiting" =>
        /\ chans[r] = "open" => r \in ToSet(q)
        /\ chans[r] = "closed" => r \notin ToSet(q) /\ ctl[r] = "cancelled"
        /\ chans[r] = "sent" => r \notin ToSet(q)

HoldersOf(chans, place) ==
    {r \in Requests : place[r] = "active"
                       \/ (place[r] \in {"waiting", "leaving"} /\ chans[r] = "sent")}

\* A request is known while it waits or executes; before that it runs, its channel
\* is open, and a cancellation of it is remembered.
Lives ==
    \A r \in Requests :
        /\ r \in controls <=> pc[r] \in {"waiting", "leaving", "refused", "active"}
        /\ pc[r] = "new" => control[r] = "running" /\ ready[r] = "open"
        /\ pc[r] = "waiting" => control[r] \in {"running", "cancelled"}
        /\ r \in pendingCancelled => pc[r] \in {"new", "gone"}

Inv ==
    /\ TypeOK
    /\ InOrder(queue, ready, pc)
    /\ TurnKept(queue, ready, pc, control)
    /\ SlotsAccounted
    /\ QueuedBytesExact
    /\ WorkConserving
    /\ Lives

\* The step changes nobody's waiting.
SameWaiters == \A r \in Requests : pc[r] = "waiting" <=> pc'[r] = "waiting"

\* promote_queued keeps the invariant of whatever queue, channels and count it is
\* called with.
LEMMA PromoteInv ==
    ASSUME TypeOK, NEW a \in Nat, NEW l \in Nat, NEW q, NEW qb,
           NEW chans \in [Requests -> {"open", "sent", "closed"}],
           Promote(a, l, q, qb, chans), limit' = l,
           pc' \in [Requests -> Places], SameWaiters,
           phantom' \in Nat,
           InOrder(q, chans, pc'), TurnKept(q, chans, pc', control'),
           qb = TotalBytes(ToSet(q)), qb <= QueueBytes, Len(q) <= QueueCount,
           a <= Cardinality(HoldersOf(chans, pc')),
           Cardinality(HoldersOf(chans, pc')) <= a + phantom'
    PROVE  /\ InOrder(queue', ready', pc')
           /\ TurnKept(queue', ready', pc', control')
           /\ SlotsAccounted' /\ QueuedBytesExact' /\ WorkConserving'
           /\ active' \in Nat /\ queue' \in Seq(Requests) /\ queuedBytes' \in Int
           /\ ready' \in [Requests -> {"open", "sent", "closed"}]
           /\ \A r \in Requests : r \notin ToSet(q) => ready'[r] = chans[r]
  <1>0. q \in Seq(Requests) /\ Distinct(q)
        /\ \A r \in ToSet(q) : pc'[r] \in {"waiting", "leaving"} /\ chans[r] = "open"
    BY DEF InOrder
  <1>1. PICK T, A : Promoted(a, l, q, chans, T, A)
    BY <1>0, PromoteIs
  <1>2. ToSet(q) \in SUBSET Requests
    BY <1>0 DEF ToSet
  <1>3. A \in SUBSET T /\ T \in SUBSET ToSet(q) /\ A \in SUBSET Requests
        /\ \A r \in T : r \in A <=> pc'[r] = "waiting"
    BY <1>1, <1>2 DEF Promoted, SameWaiters
  <1>4. ready' \in [Requests -> {"open", "sent", "closed"}]
        /\ \A r \in Requests : ready'[r] = IF r \in A THEN "sent"
                                             ELSE IF r \in T THEN "closed" ELSE chans[r]
    BY <1>1 DEF Promoted
  <1>5. ToSet(queue') = ToSet(q) \ T
    BY <1>1 DEF Promoted
  <1>6. InOrder(queue', ready', pc')
    BY <1>0, <1>1, <1>2, <1>3, <1>4, <1>5 DEF InOrder, Promoted
  <1>7. TurnKept(queue', ready', pc', control')
    BY <1>0, <1>2, <1>3, <1>4, <1>5 DEF TurnKept
  <1>8. SlotsAccounted'
    <2> DEFINE H == HoldersOf(chans, pc')
    <2>1. Holders' = H \cup A
      BY <1>0, <1>2, <1>3, <1>4 DEF Holders, HoldersOf
    <2>2. H \cap A = {}
      BY <1>0, <1>3 DEF HoldersOf
    <2>3. IsFiniteSet(H) /\ IsFiniteSet(A) /\ Cardinality(H) \in Nat /\ Cardinality(A) \in Nat
      BY <1>3, RequestsFinite DEF HoldersOf
    <2>4. Cardinality(H \cup A) = Cardinality(H) + Cardinality(A)
      <3>1. Cardinality(H \cup A) = Cardinality(H) + Cardinality(A) - Cardinality(H \cap A)
        BY <2>3, FS_Union
      <3>2. Cardinality(H \cap A) = 0
        BY <2>2, FS_EmptySet
      <3> QED  BY <2>3, <3>1, <3>2
    <2>5. Cardinality(Holders') = Cardinality(H) + Cardinality(A)
      BY <2>1, <2>4
    <2>6. active' = a + Cardinality(A)
      BY <1>1 DEF Promoted
    <2> HIDE DEF H
    <2>7. a <= Cardinality(H) /\ Cardinality(H) <= a + phantom'
      BY DEF H
    <2> QED  BY <2>3, <2>5, <2>6, <2>7 DEF SlotsAccounted
  <1>9. QueuedBytesExact' /\ queuedBytes' \in Int
    <2>1. TotalBytes(ToSet(q)) \in Nat /\ TotalBytes(ToSet(queue')) \in Nat
      BY <1>2, <1>5, TotalNat
    <2>2. queuedBytes' = TotalBytes(ToSet(queue')) /\ queuedBytes' <= qb /\ Len(queue') <= Len(q)
          /\ Len(queue') \in Nat /\ Len(q) \in Nat
      BY <1>0, <1>1 DEF Promoted
    <2> QED  BY <2>1, <2>2, SizesAssumption DEF QueuedBytesExact
  <1>10. WorkConserving'
    BY <1>1 DEF Promoted, WorkConserving
  <1>11. active' \in Nat /\ queue' \in Seq(Requests)
    BY <1>1 DEF Promoted
  <1>12. \A r \in Requests : r \notin ToSet(q) => ready'[r] = chans[r]
    BY <1>3, <1>4
  <1> QED  BY <1>4, <1>6, <1>7, <1>8, <1>9, <1>10, <1>11, <1>12

-----------------------------------------------------------------------------
(* The steps.                                                              *)

LEMMA InitInv == ASSUME Init PROVE Inv
  <1>1. <<>> \in Seq(Requests) /\ Len(<<>>) = 0 /\ ToSet(<<>>) = {}
    BY DEF ToSet
  <1>2. TypeOK
    <2>1. queue \in Seq(Requests)
      BY <1>1, Zenon DEF Init
    <2>2. limit \in Nat
      BY LimitsAssumption DEF Init
    <2>3. /\ active \in Nat /\ queuedBytes \in Int /\ phantom \in Nat
          /\ controls \subseteq Requests /\ pendingCancelled \subseteq Requests
      BY DEF Init
    <2>5. shuttingDown \in BOOLEAN
      BY Zenon DEF Init
    <2>4. /\ control \in [Requests -> {"running", "cancelled", "deadline", "complete"}]
          /\ ready \in [Requests -> {"open", "sent", "closed"}]
          /\ pc \in [Requests -> Places]
      BY DEF Init, Places
    <2> QED  BY <2>1, <2>2, <2>3, <2>4, <2>5, Zenon DEF TypeOK
  <1>3. InOrder(queue, ready, pc) /\ TurnKept(queue, ready, pc, control)
    BY <1>1 DEF Init, InOrder, TurnKept, Distinct
  <1>4. SlotsAccounted
    <2>1. Holders = {}
      BY DEF Holders, Init
    <2> QED  BY <2>1, FS_EmptySet DEF Init, SlotsAccounted
  <1>5. QueuedBytesExact
    BY <1>1, TotalNone, SizesAssumption DEF Init, QueuedBytesExact
  <1>6. WorkConserving /\ Lives
    BY DEF Init, WorkConserving, Lives
  <1> QED  BY <1>2, <1>3, <1>4, <1>5, <1>6 DEF Inv

\* The numbers of the gate stay when nobody gains or loses a slot or an entry.
LEMMA NumbersStay ==
    ASSUME Inv, UNCHANGED <<active, limit, queue, queuedBytes, phantom>>, Holders' = Holders
    PROVE  SlotsAccounted' /\ QueuedBytesExact' /\ WorkConserving'
  <1>1. SlotsAccounted'
    <2>1. Cardinality(Holders') = Cardinality(Holders)
      OBVIOUS
    <2> QED  BY <2>1 DEF Inv, SlotsAccounted
  <1> QED  BY <1>1 DEF Inv, QueuedBytesExact, WorkConserving

\* A request that comes and is turned away.
LEMMA TurnedAwayInv ==
    ASSUME Inv, NEW r \in Requests, pc[r] = "new", Refuse(r) \/ Reject(r) PROVE Inv'
  <1>1. /\ pc' = [pc EXCEPT ![r] = "gone"] /\ pendingCancelled' \subseteq pendingCancelled
        /\ UNCHANGED <<active, limit, queue, queuedBytes, shuttingDown, controls, control,
                       ready, phantom>>
    BY DEF Refuse, Reject, shared
  <1>2. TypeOK'
    BY <1>1 DEF Inv, TypeOK, Places
  <1>3. r \notin ToSet(queue)
    BY DEF Inv, InOrder
  <1>4. InOrder(queue', ready', pc') /\ TurnKept(queue', ready', pc', control')
    BY <1>1, <1>3 DEF Inv, InOrder, TurnKept, TypeOK, ToSet
  <1>5. Holders' = Holders
    BY <1>1 DEF Holders, Inv, TypeOK
  <1>6. SlotsAccounted' /\ QueuedBytesExact' /\ WorkConserving'
    BY <1>1, <1>5, NumbersStay
  <1>7. Lives'
    BY <1>1 DEF Inv, Lives, TypeOK
  <1> QED  BY <1>2, <1>4, <1>6, <1>7 DEF Inv

LEMMA AdmitInv == ASSUME Inv, NEW r \in Requests, pc[r] = "new", Admit(r) PROVE Inv'
  <1>1. /\ queue = <<>> /\ active' = active + 1 /\ controls' = controls \cup {r}
        /\ pc' = [pc EXCEPT ![r] = "active"] /\ r \notin pendingCancelled
        /\ UNCHANGED <<limit, queue, queuedBytes, shuttingDown, pendingCancelled,
                       control, ready, phantom>>
    BY DEF Admit
  <1>2. TypeOK'
    BY <1>1 DEF Inv, TypeOK, Places
  <1>3. InOrder(queue', ready', pc') /\ TurnKept(queue', ready', pc', control')
    BY <1>1 DEF Inv, InOrder, TurnKept, TypeOK, ToSet
  <1>4. SlotsAccounted'
    <2>1. Holders \in SUBSET Requests /\ Holders' \in SUBSET Requests /\ Holders \ {r} = Holders' \ {r}
          /\ r \notin Holders /\ r \in Holders'
      BY <1>1 DEF Holders, Inv, TypeOK
    <2>2. Cardinality(Holders') = Cardinality(Holders) + 1 /\ Cardinality(Holders) \in Nat
      BY <2>1, CountChange, RequestsAssumption
    <2>3. active \in Nat /\ phantom \in Nat
      BY DEF Inv, TypeOK
    <2> QED  BY <1>1, <2>2, <2>3 DEF Inv, SlotsAccounted
  <1>5. QueuedBytesExact' /\ WorkConserving'
    BY <1>1 DEF Inv, QueuedBytesExact, WorkConserving
  <1>6. Lives'
    BY <1>1 DEF Inv, Lives, TypeOK
  <1> QED  BY <1>2, <1>3, <1>4, <1>5, <1>6 DEF Inv

LEMMA EnqueueInv == ASSUME Inv, NEW r \in Requests, pc[r] = "new", Enqueue(r) PROVE Inv'
  <1>1. /\ ~(active < limit /\ queue = <<>>) /\ CanQueue(r) /\ r \notin pendingCancelled
        /\ controls' = controls \cup {r} /\ queue' = Append(queue, r)
        /\ queuedBytes' = queuedBytes + Bytes[r] /\ pc' = [pc EXCEPT ![r] = "waiting"]
        /\ UNCHANGED <<active, limit, shuttingDown, pendingCancelled, control, ready, phantom>>
    BY DEF Enqueue
  <1>2. queue \in Seq(Requests) /\ Distinct(queue) /\ r \notin ToSet(queue) /\ queuedBytes \in Int
        /\ Bytes[r] \in Nat /\ active \in Nat /\ limit \in Nat /\ ready[r] = "open"
    BY BytesAssumption DEF Inv, InOrder, TypeOK, Lives
  <1>3. queue' \in Seq(Requests) /\ Distinct(queue') /\ Len(queue') = Len(queue) + 1
        /\ ToSet(queue') = ToSet(queue) \cup {r}
    BY <1>1, <1>2, AppendIs
  <1>4. TypeOK'
    BY <1>1, <1>2, <1>3 DEF Inv, TypeOK, Places
  <1>5. InOrder(queue', ready', pc') /\ TurnKept(queue', ready', pc', control')
    <2>1. \A x \in ToSet(queue) : x # r /\ pc[x] \in {"waiting", "leaving"} /\ ready[x] = "open"
      BY <1>2 DEF Inv, InOrder
    <2>2. ToSet(queue) \subseteq Requests
      BY <1>2 DEF ToSet
    <2>3. InOrder(queue', ready', pc')
      BY <1>1, <1>2, <1>3, <2>1, <2>2 DEF InOrder, Inv, TypeOK
    <2>4. TurnKept(queue', ready', pc', control')
      BY <1>1, <1>2, <1>3 DEF Inv, TurnKept, TypeOK
    <2> QED  BY <2>3, <2>4
  <1>6. SlotsAccounted'
    <2>1. Holders' = Holders
      BY <1>1, <1>2 DEF Holders, Inv, TypeOK
    <2>2. Cardinality(Holders') = Cardinality(Holders)
      BY <2>1
    <2> QED  BY <1>1, <2>2 DEF Inv, SlotsAccounted
  <1>7. QueuedBytesExact'
    <2>1. ToSet(queue) \in SUBSET Requests
      BY <1>2 DEF ToSet
    <2>2. TotalBytes(ToSet(queue) \cup {r}) = TotalBytes(ToSet(queue)) + Bytes[r]
      BY <1>2, <2>1, TotalAdd
    <2>3. queuedBytes' = TotalBytes(ToSet(queue'))
      BY <1>1, <1>3, <2>2 DEF Inv, QueuedBytesExact
    <2>4. queuedBytes' <= QueueBytes /\ Len(queue') <= QueueCount
      BY <1>1, <1>2, <1>3, SizesAssumption DEF CanQueue
    <2> QED  BY <2>3, <2>4 DEF QueuedBytesExact
  <1>8. WorkConserving'
    BY <1>1, <1>2 DEF Inv, WorkConserving
  <1>9. Lives'
    BY <1>1 DEF Inv, Lives, TypeOK
  <1> QED  BY <1>4, <1>5, <1>6, <1>7, <1>8, <1>9 DEF Inv

\* A waiting task goes on: with the slot it was sent, or without the entry that is
\* no longer there, or by dropping its receiver.
LEMMA StopWaitingInv ==
    ASSUME Inv, NEW r \in Requests, Poll(r) \/ Timeout(r) \/ Disconnect(r) PROVE Inv'
  <1>1. /\ pc[r] = "waiting" /\ UNCHANGED <<shared, ready, phantom>>
        /\ control' \in [Requests -> {"running", "cancelled", "deadline", "complete"}]
        /\ \A x \in Requests \ {r} : control'[x] = control[x]
    BY DEF Poll, Timeout, Disconnect, SetControl, Inv, TypeOK
  <1>2. PICK p \in Places : /\ pc' = [pc EXCEPT ![r] = p]
                            /\ p \in {"active", "refused", "leaving"}
                            /\ p = "refused" => ready[r] = "closed"
                            /\ p = "active" => ready[r] = "sent"
    <2>1. ready[r] \in {"open", "sent", "closed"}
      BY DEF Inv, TypeOK
    <2> QED  BY <2>1 DEF Poll, Timeout, Disconnect, Places
  <1> USE DEF shared
  <1>3. TypeOK'
    BY <1>1, <1>2 DEF Inv, TypeOK
  <1>4. r \in ToSet(queue) => ready[r] = "open"
    BY DEF Inv, InOrder
  <1>5. \A x \in Requests : pc'[x] = IF x = r THEN p ELSE pc[x]
    BY <1>2 DEF Inv, TypeOK
  <1>6. InOrder(queue', ready', pc')
    <2>1. ToSet(queue) \subseteq Requests
      BY DEF Inv, TypeOK, ToSet
    <2> QED  BY <1>1, <1>2, <1>4, <1>5, <2>1 DEF Inv, InOrder
  <1>7. TurnKept(queue', ready', pc', control')
    BY <1>1, <1>2, <1>5 DEF Inv, TurnKept
  <1>8. Holders' = Holders
    BY <1>1, <1>2, <1>5 DEF Holders
  <1>9. SlotsAccounted' /\ QueuedBytesExact' /\ WorkConserving'
    BY <1>1, <1>8, NumbersStay
  <1>10. Lives'
    BY <1>1, <1>2, <1>5 DEF Inv, Lives
  <1> QED  BY <1>3, <1>6, <1>7, <1>9, <1>10 DEF Inv

\* The queue without an entry that gives up or is cancelled.
LEMMA RemovedQueue ==
    ASSUME Inv, NEW r \in ToSet(queue)
    PROVE  LET q == RemoveFirst(queue, r)
           IN  /\ q \in Seq(Requests) /\ Distinct(q) /\ Len(q) <= QueueCount
               /\ ToSet(q) = ToSet(queue) \ {r}
               /\ queuedBytes - Bytes[r] = TotalBytes(ToSet(q)) /\ queuedBytes - Bytes[r] <= QueueBytes
               /\ \A x, y : Ahead(queue, x, y) /\ x # r /\ y # r => Ahead(q, x, y)
  <1> DEFINE q == RemoveFirst(queue, r)
  <1>1. /\ queuedBytes = TotalBytes(ToSet(queue)) /\ queuedBytes <= QueueBytes
        /\ Len(queue) <= QueueCount /\ Len(queue) \in Nat /\ ToSet(queue) \in SUBSET Requests
        /\ queue \in Seq(Requests) /\ Distinct(queue) /\ QueueCount \in Nat /\ QueueBytes \in Nat
    BY SizesAssumption DEF Inv, TypeOK, QueuedBytesExact, InOrder, ToSet
  <1>2. q \in Seq(Requests) /\ Distinct(q) /\ Len(q) = Len(queue) - 1
        /\ ToSet(q) = ToSet(queue) \ {r}
        /\ \A x, y : Ahead(queue, x, y) /\ x # r /\ y # r => Ahead(q, x, y)
    BY <1>1, RemoveFirstIs
  <1> HIDE DEF q
  <1>3. TotalBytes(ToSet(queue) \ {r}) = TotalBytes(ToSet(queue)) - Bytes[r]
        /\ TotalBytes(ToSet(queue) \ {r}) <= TotalBytes(ToSet(queue))
        /\ TotalBytes(ToSet(queue) \ {r}) \in Nat /\ TotalBytes(ToSet(queue)) \in Nat
    BY <1>1, TotalRemove, TotalNat
  <1>4. TotalBytes(ToSet(q)) = TotalBytes(ToSet(queue) \ {r})
    BY <1>2
  <1>5. queuedBytes - Bytes[r] = TotalBytes(ToSet(q)) /\ queuedBytes - Bytes[r] <= QueueBytes
    BY <1>1, <1>3, <1>4
  <1>6. Len(q) <= QueueCount
    BY <1>1, <1>2
  <1> QED  BY <1>2, <1>5, <1>6 DEF q

\* A guard gives back the entry or the slot its task has by then; a ticket whose
\* entry is gone without a slot gives back one that nobody held, and phantom counts it.
LEMMA DropGuardInv == ASSUME Inv, NEW r \in Requests, DropGuard(r) PROVE Inv'
  <1>1. /\ pc[r] \in {"leaving", "refused", "active"} /\ controls' = controls \ {r}
        /\ pc' = [pc EXCEPT ![r] = "gone"] /\ SetControl(r, "complete")
        /\ UNCHANGED <<limit, shuttingDown, pendingCancelled>>
    BY DEF DropGuard
  <1>2. pc' \in [Requests -> Places] /\ \A x \in Requests : pc'[x] = IF x = r THEN "gone" ELSE pc[x]
    BY <1>1 DEF Inv, TypeOK, Places
  <1>3. /\ control' \in [Requests -> {"running", "cancelled", "deadline", "complete"}]
        /\ \A x \in Requests \ {r} : control'[x] = control[x]
    BY <1>1 DEF SetControl, Inv, TypeOK
  <1>4. /\ TypeOK /\ InOrder(queue, ready, pc) /\ TurnKept(queue, ready, pc, control)
        /\ queuedBytes = TotalBytes(ToSet(queue)) /\ queuedBytes <= QueueBytes
        /\ Len(queue) <= QueueCount /\ Len(queue) \in Nat /\ active \in Nat /\ limit \in Nat
        /\ phantom \in Nat /\ ToSet(queue) \in SUBSET Requests /\ QueueCount \in Nat
        /\ queue \in Seq(Requests) /\ Distinct(queue)
        /\ ready \in [Requests -> {"open", "sent", "closed"}] /\ QueueBytes \in Nat
    BY SizesAssumption DEF Inv, TypeOK, QueuedBytesExact, InOrder, ToSet
  <1>5. SameWaiters
    BY <1>1, <1>2 DEF SameWaiters
  <1> DEFINE before == HoldersOf(ready, pc)
             after == HoldersOf(ready, pc')
  <1>6. /\ Cardinality(before) \in Nat /\ Cardinality(after) \in Nat
        /\ Cardinality(after) = Cardinality(before) - (IF r \in before THEN 1 ELSE 0)
        /\ r \in before => Cardinality(before) # 0
        /\ active <= Cardinality(before) /\ Cardinality(before) <= active + phantom
    <2>1. before \in SUBSET Requests /\ after \in SUBSET Requests /\ before \ {r} = after \ {r}
          /\ r \notin after
      BY <1>2 DEF HoldersOf
    <2>2. before = Holders
      BY DEF HoldersOf, Holders
    <2> HIDE DEF before, after
    <2>3. active <= Cardinality(before) /\ Cardinality(before) <= active + phantom
      BY <2>2 DEF Inv, SlotsAccounted
    <2> QED  BY <2>1, <2>3, CountChange, RequestsAssumption
  <1>7. r \in before <=> pc[r] = "active" \/ (pc[r] = "leaving" /\ ready[r] = "sent")
    BY <1>1 DEF HoldersOf
  <1>8. /\ InOrder(queue', ready', pc') /\ TurnKept(queue', ready', pc', control')
        /\ SlotsAccounted' /\ QueuedBytesExact' /\ WorkConserving'
        /\ active' \in Nat /\ queue' \in Seq(Requests) /\ queuedBytes' \in Int
        /\ ready' \in [Requests -> {"open", "sent", "closed"}] /\ phantom' \in Nat
        /\ \A x \in Requests : x \notin ToSet(queue) => ready'[x] = ready[x]
    <2>1. CASE pc[r] = "leaving" /\ r \in ToSet(queue)
      <3> DEFINE q == RemoveFirst(queue, r)
      <3>1. Promote(active, limit, q, queuedBytes - Bytes[r], ready) /\ phantom' = phantom
        BY <2>1 DEF DropGuard
      <3>2. q \in Seq(Requests) /\ Distinct(q) /\ ToSet(q) = ToSet(queue) \ {r}
        BY <2>1, RemovedQueue
      <3>3. queuedBytes - Bytes[r] = TotalBytes(ToSet(q)) /\ queuedBytes - Bytes[r] <= QueueBytes
            /\ Len(q) <= QueueCount
        BY <2>1, RemovedQueue
      <3> HIDE DEF q
      <3>4. InOrder(q, ready, pc')
        BY <1>2, <1>4, <3>2 DEF InOrder
      <3>5. TurnKept(q, ready, pc', control')
        BY <1>1, <1>2, <1>3, <1>4, <3>2 DEF TurnKept
      <3>6. r \notin before
        BY <1>4, <1>7, <2>1 DEF InOrder
      <3>7. active <= Cardinality(after) /\ Cardinality(after) <= active + phantom'
        BY <1>6, <3>1, <3>6
      <3> HIDE DEF after
      <3>8. /\ InOrder(queue', ready', pc') /\ TurnKept(queue', ready', pc', control')
             /\ SlotsAccounted' /\ QueuedBytesExact' /\ WorkConserving'
             /\ active' \in Nat /\ queue' \in Seq(Requests) /\ queuedBytes' \in Int
             /\ ready' \in [Requests -> {"open", "sent", "closed"}]
             /\ \A x \in Requests : x \notin ToSet(q) => ready'[x] = ready[x]
        <4>1. /\ TypeOK /\ active \in Nat /\ limit \in Nat /\ limit' = limit /\ phantom' \in Nat
              /\ pc' \in [Requests -> Places] /\ ready \in [Requests -> {"open", "sent", "closed"}]
          BY <1>1, <1>2, <1>4, <3>1
        <4>2. /\ active <= Cardinality(HoldersOf(ready, pc'))
              /\ Cardinality(HoldersOf(ready, pc')) <= active + phantom'
          BY <3>7 DEF after
        <4>3. Promote(active, limit, q, queuedBytes - Bytes[r], ready)
          BY <3>1
        <4> QED  BY <1>5, <3>3, <3>4, <3>5, <4>1, <4>2, <4>3, PromoteInv
      <3> QED  BY <1>4, <3>1, <3>2, <3>8
    <2>2. CASE ~(pc[r] = "leaving" /\ r \in ToSet(queue))
      <3> DEFINE a == IF pc[r] = "refused" THEN active ELSE Release(active)
      <3>1. /\ Promote(a, limit, queue, queuedBytes, ready)
            /\ phantom' = IF pc[r] = "leaving" /\ ready[r] # "sent" THEN phantom + 1 ELSE phantom
        BY <2>2 DEF DropGuard
      <3>2. r \notin ToSet(queue)
        BY <1>1, <1>4, <2>2 DEF InOrder
      <3>3. a \in Nat /\ phantom' \in Nat
        BY <1>4, <3>1 DEF Release
      <3>4. a <= Cardinality(after) /\ Cardinality(after) <= a + phantom'
        <4> HIDE DEF before, after
        <4>1. CASE pc[r] = "refused"
          BY <1>4, <1>6, <1>7, <3>1, <4>1
        <4>2. CASE pc[r] # "refused" /\ r \in before
          BY <1>4, <1>6, <1>7, <3>1, <4>2 DEF Release
        <4>3. CASE pc[r] # "refused" /\ r \notin before
          BY <1>1, <1>4, <1>6, <1>7, <3>1, <4>3 DEF Release
        <4> QED  BY <4>1, <4>2, <4>3
      <3> HIDE DEF a
      <3>5. InOrder(queue, ready, pc')
        BY <1>2, <1>4, <3>2 DEF InOrder
      <3>6. TurnKept(queue, ready, pc', control')
        BY <1>1, <1>2, <1>3, <1>4 DEF TurnKept
      <3>7. /\ TypeOK /\ limit \in Nat /\ limit' = limit
            /\ pc' \in [Requests -> Places] /\ ready \in [Requests -> {"open", "sent", "closed"}]
            /\ queuedBytes = TotalBytes(ToSet(queue)) /\ queuedBytes <= QueueBytes
            /\ Len(queue) <= QueueCount
        BY <1>1, <1>2, <1>4
      <3>8. /\ a <= Cardinality(HoldersOf(ready, pc'))
            /\ Cardinality(HoldersOf(ready, pc')) <= a + phantom'
        BY <3>4
      <3>9. Promote(a, limit, queue, queuedBytes, ready)
        BY <3>1
      <3> QED  BY <1>5, <3>3, <3>5, <3>6, <3>7, <3>8, <3>9, PromoteInv
    <2> QED  BY <2>1, <2>2
  <1>9. TypeOK'
    BY <1>1, <1>2, <1>3, <1>8 DEF Inv, TypeOK
  <1>10. Lives'
    <2>1. \A x \in Requests : pc[x] = "new" => x \notin ToSet(queue)
      BY <1>4 DEF InOrder
    <2> QED  BY <1>1, <1>2, <1>3, <1>8, <2>1 DEF Inv, Lives
  <1> QED  BY <1>8, <1>9, <1>10 DEF Inv

LEMMA CancelInv == ASSUME Inv, NEW r \in Requests, Cancel(r) PROVE Inv'
  <1>1. /\ pc[r] # "gone" /\ UNCHANGED <<limit, shuttingDown, controls, pc, phantom>>
        /\ IF r \in controls
           THEN SetControl(r, "cancelled") /\ UNCHANGED pendingCancelled
           ELSE pendingCancelled' = pendingCancelled \cup {r} /\ UNCHANGED control
    BY DEF Cancel
  <1>2. /\ control' \in [Requests -> {"running", "cancelled", "deadline", "complete"}]
        /\ \A x \in Requests \ {r} : control'[x] = control[x]
        /\ r \in controls => control'[r] = IF control[r] = "running" THEN "cancelled" ELSE control[r]
        /\ r \notin controls => control'[r] = control[r]
    BY <1>1 DEF SetControl, Inv, TypeOK
  <1>3. /\ TypeOK /\ InOrder(queue, ready, pc) /\ TurnKept(queue, ready, pc, control)
        /\ queuedBytes = TotalBytes(ToSet(queue)) /\ queuedBytes <= QueueBytes
        /\ Len(queue) <= QueueCount /\ Len(queue) \in Nat /\ active \in Nat /\ limit \in Nat
        /\ phantom \in Nat /\ ToSet(queue) \in SUBSET Requests /\ QueueCount \in Nat
        /\ queue \in Seq(Requests) /\ Distinct(queue)
        /\ ready \in [Requests -> {"open", "sent", "closed"}] /\ QueueBytes \in Nat
        /\ pc \in [Requests -> Places]
    BY SizesAssumption DEF Inv, TypeOK, QueuedBytesExact, InOrder, ToSet
  <1>4. active <= Cardinality(HoldersOf(ready, pc)) /\ Cardinality(HoldersOf(ready, pc)) <= active + phantom
    BY DEF HoldersOf, Holders, Inv, SlotsAccounted
  <1>5. pc[r] = "waiting" => r \in controls /\ control'[r] = "cancelled"
    BY <1>2 DEF Inv, Lives
  <1>6. /\ InOrder(queue', ready', pc') /\ TurnKept(queue', ready', pc', control')
        /\ SlotsAccounted' /\ QueuedBytesExact' /\ WorkConserving'
        /\ active' \in Nat /\ queue' \in Seq(Requests) /\ queuedBytes' \in Int
        /\ ready' \in [Requests -> {"open", "sent", "closed"}]
        /\ \A x \in Requests : x \notin ToSet(queue) => ready'[x] = ready[x]
    <2>1. CASE r \in ToSet(queue)
      <3> DEFINE q == RemoveFirst(queue, r)
                 chans == [ready EXCEPT ![r] = "closed"]
      <3>1. Promote(active, limit, q, queuedBytes - Bytes[r], chans)
        BY <2>1 DEF Cancel
      <3>2. q \in Seq(Requests) /\ Distinct(q) /\ ToSet(q) = ToSet(queue) \ {r}
        BY <2>1, RemovedQueue
      <3>3. queuedBytes - Bytes[r] = TotalBytes(ToSet(q)) /\ queuedBytes - Bytes[r] <= QueueBytes
             /\ Len(q) <= QueueCount
        BY <2>1, RemovedQueue
      <3>4. chans \in [Requests -> {"open", "sent", "closed"}]
            /\ \A x \in Requests : chans[x] = IF x = r THEN "closed" ELSE ready[x]
        BY <1>3
      <3>5. ready[r] = "open"
        BY <1>3, <2>1 DEF InOrder
      <3> HIDE DEF q, chans
      <3>6. InOrder(q, chans, pc')
        BY <1>1, <1>3, <3>2, <3>4 DEF InOrder
      <3>7. TurnKept(q, chans, pc', control')
        BY <1>1, <1>2, <1>3, <1>5, <3>2, <3>4 DEF TurnKept
      <3>8. HoldersOf(chans, pc') = HoldersOf(ready, pc)
        BY <1>1, <3>4, <3>5 DEF HoldersOf
      <3>9. active <= Cardinality(HoldersOf(chans, pc'))
             /\ Cardinality(HoldersOf(chans, pc')) <= active + phantom'
        BY <1>1, <1>4, <3>8
      <3>10. /\ InOrder(queue', ready', pc') /\ TurnKept(queue', ready', pc', control')
             /\ SlotsAccounted' /\ QueuedBytesExact' /\ WorkConserving'
             /\ active' \in Nat /\ queue' \in Seq(Requests) /\ queuedBytes' \in Int
             /\ ready' \in [Requests -> {"open", "sent", "closed"}]
             /\ \A x \in Requests : x \notin ToSet(q) => ready'[x] = chans[x]
        BY <1>1, <1>3, <3>1, <3>4, <3>6, <3>7, <3>9, <3>3, PromoteInv DEF SameWaiters
      <3> QED  BY <2>1, <3>2, <3>4, <3>10
    <2>2. CASE r \notin ToSet(queue)
      <3>1. Promote(active, limit, queue, queuedBytes, ready)
        BY <2>2 DEF Cancel
      <3>2. TurnKept(queue, ready, pc', control') /\ InOrder(queue, ready, pc')
        BY <1>1, <1>2, <1>3, <1>5 DEF TurnKept
      <3> QED  BY <1>1, <1>3, <1>4, <3>1, <3>2, PromoteInv DEF SameWaiters
    <2> QED  BY <2>1, <2>2
  <1>7. TypeOK'
    BY <1>1, <1>2, <1>6 DEF Inv, TypeOK
  <1>8. Lives'
    <2>1. \A x \in Requests : pc[x] = "new" => x \notin ToSet(queue)
      BY <1>3 DEF InOrder
    <2>2. r \notin controls => pc[r] = "new"
      BY <1>1 DEF Inv, Lives, TypeOK, Places
    <2> QED  BY <1>1, <1>2, <1>6, <2>1, <2>2 DEF Inv, Lives
  <1> QED  BY <1>6, <1>7, <1>8 DEF Inv

LEMMA SetAdmissionLimitInv == ASSUME Inv, NEW l \in Limits, SetAdmissionLimit(l) PROVE Inv'
  <1>1. /\ limit' = l /\ Promote(active, l, queue, queuedBytes, ready)
        /\ UNCHANGED <<shuttingDown, controls, pendingCancelled, control, pc, phantom>>
    BY DEF SetAdmissionLimit
  <1>2. /\ TypeOK /\ active \in Nat /\ l \in Nat /\ phantom' \in Nat /\ pc' \in [Requests -> Places]
        /\ ready \in [Requests -> {"open", "sent", "closed"}]
        /\ queuedBytes = TotalBytes(ToSet(queue)) /\ queuedBytes <= QueueBytes
        /\ Len(queue) <= QueueCount
    BY <1>1, LimitsAssumption DEF Inv, TypeOK, QueuedBytesExact
  <1>3. SameWaiters /\ InOrder(queue, ready, pc') /\ TurnKept(queue, ready, pc', control')
    BY <1>1 DEF Inv, SameWaiters
  <1>4. /\ active <= Cardinality(HoldersOf(ready, pc'))
        /\ Cardinality(HoldersOf(ready, pc')) <= active + phantom'
    BY <1>1 DEF HoldersOf, Holders, Inv, SlotsAccounted
  <1>5. /\ InOrder(queue', ready', pc') /\ TurnKept(queue', ready', pc', control')
        /\ SlotsAccounted' /\ QueuedBytesExact' /\ WorkConserving'
        /\ active' \in Nat /\ queue' \in Seq(Requests) /\ queuedBytes' \in Int
        /\ ready' \in [Requests -> {"open", "sent", "closed"}]
        /\ \A x \in Requests : x \notin ToSet(queue) => ready'[x] = ready[x]
    BY <1>1, <1>2, <1>3, <1>4, PromoteInv
  <1>6. TypeOK'
    BY <1>1, <1>2, <1>5 DEF TypeOK
  <1>7. Lives'
    <2>1. \A x \in Requests : pc[x] = "new" => x \notin ToSet(queue)
      BY DEF Inv, InOrder
    <2> QED  BY <1>1, <1>5, <2>1 DEF Inv, Lives
  <1> QED  BY <1>5, <1>6, <1>7 DEF Inv

LEMMA BeginShutdownInv == ASSUME Inv, BeginShutdown PROVE Inv'
  <1>1. shuttingDown' \in BOOLEAN
    BY Zenon DEF BeginShutdown
  <1>2. UNCHANGED <<active, limit, queue, queuedBytes, controls, pendingCancelled,
                    control, ready, pc, phantom>>
    BY DEF BeginShutdown
  <1>3. TypeOK'
    BY <1>1, <1>2 DEF Inv, TypeOK
  <1>4. SlotsAccounted' /\ QueuedBytesExact' /\ WorkConserving' /\ Lives'
    BY <1>2 DEF Inv, SlotsAccounted, Holders, QueuedBytesExact, WorkConserving, Lives
  <1> QED  BY <1>2, <1>3, <1>4 DEF Inv

\* cancel_remaining empties the queue: it cancels everyone it leaves without a turn.
LEMMA CancelRemainingInv == ASSUME Inv, CancelRemaining PROVE Inv'
  <1>1. /\ control' = [r \in Requests |-> IF r \in controls /\ control[r] = "running"
                                          THEN "cancelled" ELSE control[r]]
        /\ ready' = [r \in Requests |-> IF r \in ToSet(queue) THEN "closed" ELSE ready[r]]
        /\ queue' = <<>> /\ queuedBytes' = 0
        /\ UNCHANGED <<active, limit, shuttingDown, controls, pendingCancelled, pc, phantom>>
    BY DEF CancelRemaining
  <1>2. <<>> \in Seq(Requests) /\ Len(<<>>) = 0 /\ ToSet(<<>>) = {} /\ Distinct(<<>>)
    BY DEF ToSet, Distinct
  <1>3. queue' \in Seq(Requests) /\ Len(queue') = 0 /\ ToSet(queue') = {} /\ Distinct(queue')
    BY <1>1, <1>2, Zenon
  <1>4. TypeOK'
    <2>1. control' \in [Requests -> {"running", "cancelled", "deadline", "complete"}]
          /\ ready' \in [Requests -> {"open", "sent", "closed"}]
      BY <1>1 DEF Inv, TypeOK
    <2> QED  BY <1>1, <1>3, <2>1 DEF Inv, TypeOK
  <1>5. InOrder(queue', ready', pc')
    BY <1>3 DEF InOrder
  <1>6. TurnKept(queue', ready', pc', control')
    BY <1>1, <1>3 DEF Inv, TurnKept, Lives
  <1>7. Holders' = Holders
    BY <1>1 DEF Holders, Inv, InOrder
  <1>8. SlotsAccounted'
    <2>1. Cardinality(Holders') = Cardinality(Holders)
      BY <1>7
    <2> QED  BY <1>1, <2>1 DEF Inv, SlotsAccounted
  <1>9. QueuedBytesExact'
    <2>1. TotalBytes(ToSet(queue')) = 0
      BY <1>3, TotalNone
    <2> QED  BY <1>1, <1>3, <2>1, SizesAssumption DEF QueuedBytesExact
  <1>10. WorkConserving'
    BY <1>1 DEF WorkConserving
  <1>11. Lives'
    BY <1>1 DEF Inv, Lives, InOrder
  <1> QED  BY <1>4, <1>5, <1>6, <1>8, <1>9, <1>10, <1>11 DEF Inv

LEMMA NextInv == ASSUME Inv, [Next]_vars PROVE Inv'
  <1>1. ASSUME NEW r \in Requests, Arrive(r) PROVE Inv'
    BY <1>1, TurnedAwayInv, AdmitInv, EnqueueInv DEF Arrive
  <1>2. ASSUME NEW r \in Requests, Poll(r) \/ Timeout(r) \/ Disconnect(r) PROVE Inv'
    BY <1>2, StopWaitingInv
  <1>3. ASSUME NEW r \in Requests, DropGuard(r) PROVE Inv'
    BY <1>3, DropGuardInv
  <1>4. ASSUME NEW r \in Requests, Cancel(r) PROVE Inv'
    BY <1>4, CancelInv
  <1>5. ASSUME NEW l \in Limits, SetAdmissionLimit(l) PROVE Inv'
    BY <1>5, SetAdmissionLimitInv
  <1>6. CASE BeginShutdown
    BY <1>6, BeginShutdownInv
  <1>7. CASE CancelRemaining
    BY <1>7, CancelRemainingInv
  <1>8. CASE UNCHANGED vars
    <2>1. TypeOK' /\ InOrder(queue', ready', pc') /\ TurnKept(queue', ready', pc', control')
      BY <1>8 DEF vars, shared, Inv, TypeOK
    <2>2. SlotsAccounted' /\ QueuedBytesExact' /\ WorkConserving' /\ Lives'
      BY <1>8 DEF vars, shared, Inv, SlotsAccounted, Holders, QueuedBytesExact, WorkConserving, Lives
    <2> QED  BY <2>1, <2>2 DEF Inv
  <1> QED  BY <1>1, <1>2, <1>3, <1>4, <1>5, <1>6, <1>7, <1>8 DEF Next, Task

-----------------------------------------------------------------------------
(* The theorems.                                                           *)

\* The inductive invariant: the queue is in order, a waiting request keeps its turn,
\* the numbers are exact, and a request is known exactly while it has something.
THEOREM Invariant == Spec => []Inv
  <1>1. Init => Inv
    BY InitInv
  <1>2. Inv /\ [Next]_vars => Inv'
    BY NextInv
  <1> QED  BY <1>1, <1>2, PTL DEF Spec

\* active, queued_bytes and the queue agree with who holds a slot and who waits,
\* whatever arrives, is promoted, times out, disconnects, is cancelled or
\* reconfigured, up to the releases of a slot that nobody held.
THEOREM AccountsAlwaysExact == Spec => []AccountsExact
  <1>1. Inv => AccountsExact
    BY DEF Inv, AccountsExact
  <1> QED  BY <1>1, Invariant, PTL

\* No request waits while a slot is free, and none that waits has lost its entry
\* without a slot or a cancellation.
THEOREM TurnsAreAlwaysKept == Spec => []TurnsAreKept
  <1>1. Inv => TurnsAreKept
    <2>1. Inv => NoLostWaiter
      BY DEF Inv, TurnKept, NoLostWaiter, TypeOK
    <2> QED  BY <2>1 DEF Inv, TurnsAreKept
  <1> QED  BY <1>1, Invariant, PTL

\* promote_queued takes turns in order: whoever is ahead of a request that is sent
\* its slot has left the queue.
LEMMA PromoteFifo ==
    ASSUME NEW a \in Nat, NEW l \in Nat, NEW q \in Seq(Requests), NEW qb, NEW chans,
           Distinct(q), qb = TotalBytes(ToSet(q)), Promote(a, l, q, qb, chans),
           NEW x, NEW y \in Requests, chans[y] # "sent", ready'[y] = "sent",
           y \in ToSet(q) => x \notin ToSet(q) \/ Ahead(q, x, y)
    PROVE  x \notin ToSet(queue')
  <1>1. PICK T, A : Promoted(a, l, q, chans, T, A)
    BY PromoteIs
  <1>2. y \in T /\ y \in ToSet(q)
    BY <1>1 DEF Promoted
  <1> QED  BY <1>1, <1>2 DEF Promoted

Fifo ==
    \A k, l \in 1..Len(queue) :
        k < l /\ ready[queue[l]] = "open" /\ ready'[queue[l]] = "sent" => queue[k] \notin ToSet(queue')

LEMMA NextFifo == ASSUME Inv, [Next]_vars PROVE Fifo
  <1>0. /\ queue \in Seq(Requests) /\ Distinct(queue) /\ ToSet(queue) \in SUBSET Requests
        /\ queuedBytes = TotalBytes(ToSet(queue)) /\ active \in Nat /\ limit \in Nat
        /\ ready \in [Requests -> {"open", "sent", "closed"}]
    BY DEF Inv, TypeOK, QueuedBytesExact, InOrder, ToSet
  <1>1. CASE UNCHANGED ready
    BY <1>1 DEF Fifo
  <1> SUFFICES ASSUME NEW k \in 1..Len(queue), NEW l \in 1..Len(queue), k < l,
                      ready[queue[l]] = "open", ready'[queue[l]] = "sent"
               PROVE  queue[k] \notin ToSet(queue')
    BY DEF Fifo
  <1> DEFINE x == queue[k]
             y == queue[l]
  <1>2. x \in Requests /\ y \in Requests /\ x # y /\ Ahead(queue, x, y)
    BY <1>0 DEF Distinct, Ahead
  <1> HIDE DEF x, y
  <1>3. ready[y] = "open" /\ ready'[y] = "sent"
    BY DEF y
  <1>4. ASSUME NEW a \in Nat, NEW m \in Nat, Promote(a, m, queue, queuedBytes, ready)
        PROVE  x \notin ToSet(queue')
    BY <1>0, <1>2, <1>3, <1>4, PromoteFifo
  <1>5. ASSUME NEW r \in ToSet(queue), NEW chans,
               chans = ready \/ chans = [ready EXCEPT ![r] = "closed"],
               Promote(active, limit, RemoveFirst(queue, r), queuedBytes - Bytes[r], chans)
        PROVE  x \notin ToSet(queue')
    <2> DEFINE q == RemoveFirst(queue, r)
    <2>1. q \in Seq(Requests) /\ Distinct(q) /\ queuedBytes - Bytes[r] = TotalBytes(ToSet(q))
      BY RemovedQueue
    <2>2. ToSet(q) = ToSet(queue) \ {r}
          /\ (Ahead(queue, x, y) /\ x # r /\ y # r => Ahead(q, x, y))
      BY RemovedQueue
    <2>3. Promote(active, limit, q, queuedBytes - Bytes[r], chans)
      BY <1>5
    <2>4. chans[y] # "sent"
      BY <1>0, <1>2, <1>3, <1>5
    <2> HIDE DEF q
    <2>5. y \in ToSet(q) => x \notin ToSet(q) \/ Ahead(q, x, y)
      BY <1>2, <2>2
    <2>6. active \in Nat /\ limit \in Nat /\ y \in Requests /\ ready'[y] = "sent"
      BY <1>0, <1>2, <1>3
    <2>7. PICK qb : qb = queuedBytes - Bytes[r]
      OBVIOUS
    <2>8. qb = TotalBytes(ToSet(q)) /\ Promote(active, limit, q, qb, chans)
      BY <2>1, <2>3, <2>7, Zenon
    <2> QED  BY <2>1, <2>4, <2>5, <2>6, <2>8, PromoteFifo
  <1>6. ASSUME NEW r \in Requests, DropGuard(r) PROVE x \notin ToSet(queue')
    <2>1. CASE pc[r] = "leaving" /\ r \in ToSet(queue)
      BY <1>5, <1>6, <2>1 DEF DropGuard
    <2>2. CASE ~(pc[r] = "leaving" /\ r \in ToSet(queue))
      <3>1. Promote(IF pc[r] = "refused" THEN active ELSE Release(active), limit, queue,
                    queuedBytes, ready)
        BY <1>6, <2>2 DEF DropGuard
      <3>2. (IF pc[r] = "refused" THEN active ELSE Release(active)) \in Nat
        BY <1>0 DEF Release
      <3> QED  BY <1>0, <1>4, <3>1, <3>2
    <2> QED  BY <2>1, <2>2
  <1>7. ASSUME NEW r \in Requests, Cancel(r) PROVE x \notin ToSet(queue')
    <2>1. CASE r \in ToSet(queue)
      BY <1>5, <1>7, <2>1 DEF Cancel
    <2>2. CASE r \notin ToSet(queue)
      BY <1>0, <1>4, <1>7, <2>2 DEF Cancel
    <2> QED  BY <2>1, <2>2
  <1>8. ASSUME NEW m \in Limits, SetAdmissionLimit(m) PROVE x \notin ToSet(queue')
    BY <1>0, <1>4, <1>8, LimitsAssumption DEF SetAdmissionLimit
  <1>9. CASE CancelRemaining
    BY <1>9 DEF CancelRemaining, ToSet
  <1>10. ASSUME NEW r \in Requests, Arrive(r) \/ Poll(r) \/ Timeout(r) \/ Disconnect(r)
         PROVE  UNCHANGED ready
    BY <1>10 DEF Arrive, Refuse, Admit, Enqueue, Reject, Poll, Timeout, Disconnect
  <1>11. ready' # ready
    BY <1>0, <1>2, <1>3
  <1>12. x \notin ToSet(queue')
    <2>1. ASSUME NEW r \in Requests, Task(r) \/ Cancel(r) PROVE x \notin ToSet(queue')
      BY <1>6, <1>7, <1>10, <1>11, <2>1 DEF Task
    <2>2. ~BeginShutdown /\ ~UNCHANGED vars
      BY <1>11 DEF BeginShutdown, vars
    <2>3. \/ \E r \in Requests : Task(r) \/ Cancel(r)
          \/ \E m \in Limits : SetAdmissionLimit(m)
          \/ CancelRemaining
      BY <2>2 DEF Next
    <2> QED  BY <1>8, <1>9, <2>1, <2>3 DEF x
  <1> QED  BY <1>12 DEF x

\* Turns are taken in order of arrival, whoever calls
\* promote_queued gives them.
THEOREM PromotionIsAlwaysFifo == Spec => PromotionIsFifo
  <1>1. Inv /\ [Next]_vars =>
          [\A k, l \in 1..Len(queue) :
             k < l /\ ready[queue[l]] = "open" /\ ready'[queue[l]] = "sent"
                => queue[k] \notin ToSet(queue')]_vars
    BY NextFifo DEF Fifo
  <1> QED  BY <1>1, Invariant, PTL DEF Spec, PromotionIsFifo

LEMMA NextCancelled ==
    ASSUME Inv, [Next]_vars, NEW r \in Requests, pc[r] # "active",
           r \in pendingCancelled \/ control[r] = "cancelled"
    PROVE  pc'[r] # "active"
  <1>1. pc \in [Requests -> Places]
    BY DEF Inv, TypeOK
  <1>2. pc[r] = "new" => control[r] = "running"
    BY DEF Inv, Lives
  <1>3. r \in pendingCancelled => pc[r] \in {"new", "gone"}
    BY DEF Inv, Lives
  <1>4. ASSUME NEW x \in Requests, Arrive(x) PROVE pc'[r] # "active"
    BY <1>1, <1>2, <1>4 DEF Arrive, Refuse, Admit, Enqueue, Reject
  <1>5. ASSUME NEW x \in Requests, Poll(x) \/ Timeout(x) \/ Disconnect(x) PROVE pc'[r] # "active"
    BY <1>1, <1>3, <1>5 DEF Poll, Timeout, Disconnect
  <1>6. ASSUME NEW x \in Requests, DropGuard(x) \/ Cancel(x) PROVE pc'[r] # "active"
    BY <1>1, <1>6 DEF DropGuard, Cancel
  <1>7. ASSUME NEW l \in Limits, SetAdmissionLimit(l) PROVE pc'[r] # "active"
    BY <1>7 DEF SetAdmissionLimit
  <1> QED  BY <1>4, <1>5, <1>6, <1>7 DEF Next, Task, BeginShutdown, CancelRemaining, vars

\* A request that is cancelled before it executes never does: neither waiting, nor
\* promoted and not yet polled, nor not yet arrived.
THEOREM CancelledNeverStart == Spec => CancelledNeverStarts
  <1>1. Inv /\ [Next]_vars =>
          [\A r \in Requests :
             /\ pc[r] # "active"
             /\ r \in pendingCancelled \/ control[r] = "cancelled"
             => pc'[r] # "active"]_vars
    BY NextCancelled
  <1> QED  BY <1>1, Invariant, PTL DEF Spec, CancelledNeverStarts

=============================================================================
