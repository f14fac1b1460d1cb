-------------------------- MODULE OperationsProofs --------------------------
(***************************************************************************)
(* Theorems about what an operator relies on, for every value of the       *)
(* constants: the accounts of the diagnostics, the file a pull returns,    *)
(* the models a daemon serves, and the budgets and counts of resident      *)
(* models.                                                                 *)
(***************************************************************************)
EXTENDS MCOperations, Sums

-----------------------------------------------------------------------------
(* Diagnostics.                                                            *)

RecordsTypeOK ==
    /\ channel \in Seq(Nat) /\ sent \in Seq(Nat) /\ written \in Seq(Nat)
    /\ emitted \in Nat /\ delivered \in Nat /\ lost \in Nat /\ pending \in Nat
    /\ worker \in [pc : {"recv", "sink", "count"}, record : Nat]
    /\ flush \in [pc : {"none", "waits", "flushed", "timed_out"}, target : Nat, owed : Nat]

\* The counters follow what was sent and what was written, but for the step that is
\* between the two; so a flush waits for exactly the records that are owed to it.
SentCounted == emitted = Records!Emitted
WrittenCounted == Len(written) = delivered + IF worker.pc = "count" THEN 1 ELSE 0
FlushInv == flush.owed = flush.target /\ Records!FlushDelivers

RecordsInv == RecordsTypeOK /\ Records!LossesReported /\ SentCounted /\ WrittenCounted /\ FlushInv

\* What a sequence with one more element sums to.
LEMMA SumAppend ==
    ASSUME NEW s \in Seq(Nat), NEW e \in Nat
    PROVE  /\ SumOf(s, DOMAIN s) \in Nat
           /\ SumOf(Append(s, e), DOMAIN Append(s, e)) = SumOf(s, DOMAIN s) + e
  <1> DEFINE t == Append(s, e)
             n == Len(s)
  <1>1. n \in Nat /\ DOMAIN s = 1..n /\ DOMAIN t = 1..(n + 1) /\ t[n + 1] = e
        /\ \A i \in 1..n : s[i] \in Nat /\ t[i] = s[i]
    OBVIOUS
  <1>2. IsFiniteSet(1..n)
    BY <1>1, FS_Interval
  <1>3. 1..(n + 1) = (1..n) \cup {n + 1} /\ n + 1 \notin 1..n
    BY <1>1
  <1> HIDE DEF t, n
  <1>4. SumOf(t, (1..n) \cup {n + 1}) = SumOf(t, 1..n) + t[n + 1]
    <2>1. PICK S, x : S = 1..n /\ x = n + 1
      OBVIOUS
    <2>2. IsFiniteSet(S) /\ x \notin S
      BY <1>2, <1>3, <2>1
    <2>3. (\A i \in S : t[i] \in Int) /\ t[x] \in Int
      BY <1>1, <2>1
    <2>4. SumOf(t, S \cup {x}) = SumOf(t, S) + t[x]
      BY <2>2, <2>3, SumAdd
    <2> QED  BY <2>1, <2>4, Zenon
  <1>5. SumOf(s, 1..n) = SumOf(t, 1..n)
    <2>1. \A i \in 1..n : s[i] \in Int /\ s[i] = t[i]
      BY <1>1
    <2> QED  BY <1>2, <2>1, SumSame
  <1>6. SumOf(s, 1..n) \in Nat
    BY <1>1, <1>2, SumNat
  <1>7. SumOf(t, 1..(n + 1)) = SumOf(s, 1..n) + e
    BY <1>1, <1>3, <1>4, <1>5
  <1> QED  BY <1>1, <1>6, <1>7 DEF t

\* What the summaries that were sent have reported
Reported == SumOf(sent, DOMAIN sent)

LEMMA ReportedIs ==
    Records!LossesReported
      <=> lost = Reported + IF emitter \in {"count_summary", "clear"} THEN 0 ELSE pending
  BY DEF Records!LossesReported, Reported, SumOf, MapThenSumSet, MapThenFoldSet,
         Records!MapThenSumSet, Records!MapThenFoldSet

LEMMA RecordsInit == ASSUME Records!Init PROVE RecordsInv
  <1>1. Reported = 0
    <2>1. sent = <<>> /\ DOMAIN sent = {}
      BY DEF Records!Init
    <2>2. IsFiniteSet({})
      BY FS_EmptySet
    <2>3. SumOf(sent, {}) = 0
      BY <2>2, SumRound
    <2> QED  BY <2>1, <2>3 DEF Reported
  <1>2. Records!LossesReported
    BY <1>1, ReportedIs DEF Records!Init
  <1> QED  BY <1>2 DEF Records!Init, RecordsInv, RecordsTypeOK, SentCounted, WrittenCounted, FlushInv,
                  Records!Emitted, Records!FlushDelivers

LEMMA RecordsNext == ASSUME RecordsInv, [Records!Next]_(Records!vars) PROVE RecordsInv'
  <1>1. RecordsTypeOK /\ SentCounted /\ WrittenCounted /\ FlushInv /\ Reported \in Nat
    BY SumAppend DEF RecordsInv, RecordsTypeOK, Reported
  <1>2. lost = Reported + IF emitter \in {"count_summary", "clear"} THEN 0 ELSE pending
    BY ReportedIs DEF RecordsInv
  <1>3. Records!LossesReported'
           <=> lost' = Reported' + IF emitter' \in {"count_summary", "clear"} THEN 0 ELSE pending'
    BY DEF Records!LossesReported, Reported, SumOf, MapThenSumSet, MapThenFoldSet,
           Records!MapThenSumSet, Records!MapThenFoldSet
  <1>4. sent' = sent => Reported' = Reported
    BY DEF Reported
  <1>5. \A e \in Nat : sent' = Append(sent, e) => Reported' = Reported + e
    BY <1>1, SumAppend DEF Reported, RecordsTypeOK
  <1> USE DEF Records!Sends, Records!Room
  <1>6. CASE Records!Emit
    <2>1. RecordsTypeOK'
      BY <1>6, <1>1 DEF Records!Emit, RecordsTypeOK
    <2>2. Records!LossesReported'
      BY <1>6, <1>1, <1>2, <1>3, <1>4, <1>5 DEF Records!Emit, RecordsTypeOK
    <2>3. SentCounted'
      BY <1>6, <1>1 DEF Records!Emit, RecordsTypeOK, SentCounted, Records!Emitted
    <2>4. WrittenCounted'
      BY <1>6, <1>1 DEF Records!Emit, RecordsTypeOK, WrittenCounted
    <2>5. FlushInv'
      BY <1>6, <1>1 DEF Records!Emit, RecordsTypeOK, FlushInv, Records!FlushDelivers, WrittenCounted
    <2> QED  BY <2>1, <2>2, <2>3, <2>4, <2>5 DEF RecordsInv
  <1>7. CASE Records!SendSummary
    <2>0. \A e \in Nat : Append(channel, e) \in Seq(Nat) /\ Append(sent, e) \in Seq(Nat)
      BY <1>1 DEF RecordsTypeOK
    <2>a. channel' \in Seq(Nat) /\ sent' \in Seq(Nat)
      BY <1>7, <1>1, <2>0 DEF Records!SendSummary, RecordsTypeOK
    <2>1. RecordsTypeOK'
      BY <1>7, <1>1, <2>a DEF Records!SendSummary, RecordsTypeOK
    <2>2. Records!LossesReported'
      <3>1. pending \in Nat /\ lost \in Nat /\ 0 \in Nat
        BY <1>1 DEF RecordsTypeOK
      <3> QED  BY <1>7, <1>1, <1>2, <1>3, <1>4, <1>5, <3>1 DEF Records!SendSummary
    <2>3. SentCounted'
      BY <1>7, <1>1 DEF Records!SendSummary, RecordsTypeOK, SentCounted, Records!Emitted
    <2>4. WrittenCounted'
      BY <1>7, <1>1 DEF Records!SendSummary, RecordsTypeOK, WrittenCounted
    <2>5. FlushInv'
      BY <1>7, <1>1 DEF Records!SendSummary, RecordsTypeOK, FlushInv, Records!FlushDelivers, WrittenCounted
    <2> QED  BY <2>1, <2>2, <2>3, <2>4, <2>5 DEF RecordsInv
  <1>8. CASE Records!CountSummary
    <2>1. RecordsTypeOK'
      BY <1>8, <1>1 DEF Records!CountSummary, RecordsTypeOK
    <2>2. Records!LossesReported'
      BY <1>8, <1>1, <1>2, <1>3, <1>4, <1>5 DEF Records!CountSummary, RecordsTypeOK
    <2>3. SentCounted'
      BY <1>8, <1>1 DEF Records!CountSummary, RecordsTypeOK, SentCounted, Records!Emitted
    <2>4. WrittenCounted'
      BY <1>8, <1>1 DEF Records!CountSummary, RecordsTypeOK, WrittenCounted
    <2>5. FlushInv'
      BY <1>8, <1>1 DEF Records!CountSummary, RecordsTypeOK, FlushInv, Records!FlushDelivers, WrittenCounted
    <2> QED  BY <2>1, <2>2, <2>3, <2>4, <2>5 DEF RecordsInv
  <1>9. CASE Records!ClearLosses
    <2>1. RecordsTypeOK'
      BY <1>9, <1>1 DEF Records!ClearLosses, RecordsTypeOK
    <2>2. Records!LossesReported'
      BY <1>9, <1>1, <1>2, <1>3, <1>4, <1>5 DEF Records!ClearLosses, RecordsTypeOK
    <2>3. SentCounted'
      BY <1>9, <1>1 DEF Records!ClearLosses, RecordsTypeOK, SentCounted, Records!Emitted
    <2>4. WrittenCounted'
      BY <1>9, <1>1 DEF Records!ClearLosses, RecordsTypeOK, WrittenCounted
    <2>5. FlushInv'
      BY <1>9, <1>1 DEF Records!ClearLosses, RecordsTypeOK, FlushInv, Records!FlushDelivers, WrittenCounted
    <2> QED  BY <2>1, <2>2, <2>3, <2>4, <2>5 DEF RecordsInv
  <1>10. CASE Records!Send
    <2>0. \A e \in Nat : Append(channel, e) \in Seq(Nat) /\ Append(sent, e) \in Seq(Nat)
      BY <1>1 DEF RecordsTypeOK
    <2>a. channel' \in Seq(Nat) /\ sent' \in Seq(Nat)
      BY <1>10, <1>1, <2>0 DEF Records!Send, RecordsTypeOK
    <2>b. lost' \in Nat /\ pending' \in Nat
      BY <1>10, <1>1 DEF Records!Send, RecordsTypeOK
    <2>c. UNCHANGED <<emitted, delivered, worker, written, flush>>
      BY <1>10 DEF Records!Send
    <2>1. RecordsTypeOK'
      BY <1>1, <2>a, <2>b, <2>c DEF RecordsTypeOK
    <2>2. Records!LossesReported'
      <3>1. pending \in Nat /\ lost \in Nat /\ 0 \in Nat
        BY <1>1 DEF RecordsTypeOK
      <3> QED  BY <1>10, <1>1, <1>2, <1>3, <1>4, <1>5, <3>1 DEF Records!Send
    <2>3. SentCounted'
      BY <1>10, <1>1 DEF Records!Send, RecordsTypeOK, SentCounted, Records!Emitted
    <2>4. WrittenCounted'
      BY <1>10, <1>1 DEF Records!Send, RecordsTypeOK, WrittenCounted
    <2>5. FlushInv'
      BY <1>10, <1>1 DEF Records!Send, RecordsTypeOK, FlushInv, Records!FlushDelivers, WrittenCounted
    <2> QED  BY <2>1, <2>2, <2>3, <2>4, <2>5 DEF RecordsInv
  <1>11. CASE Records!Count
    <2>1. RecordsTypeOK'
      BY <1>11, <1>1 DEF Records!Count, RecordsTypeOK
    <2>2. Records!LossesReported'
      BY <1>11, <1>1, <1>2, <1>3, <1>4, <1>5 DEF Records!Count, RecordsTypeOK
    <2>3. SentCounted'
      BY <1>11, <1>1 DEF Records!Count, RecordsTypeOK, SentCounted, Records!Emitted
    <2>4. WrittenCounted'
      BY <1>11, <1>1 DEF Records!Count, RecordsTypeOK, WrittenCounted
    <2>5. FlushInv'
      BY <1>11, <1>1 DEF Records!Count, RecordsTypeOK, FlushInv, Records!FlushDelivers, WrittenCounted
    <2> QED  BY <2>1, <2>2, <2>3, <2>4, <2>5 DEF RecordsInv
  <1>12. CASE Records!Receive
    <2>1. RecordsTypeOK'
      BY <1>12, <1>1 DEF Records!Receive, RecordsTypeOK
    <2>2. Records!LossesReported'
      BY <1>12, <1>1, <1>2, <1>3, <1>4, <1>5 DEF Records!Receive, RecordsTypeOK
    <2>3. SentCounted'
      BY <1>12, <1>1 DEF Records!Receive, RecordsTypeOK, SentCounted, Records!Emitted
    <2>4. WrittenCounted'
      BY <1>12, <1>1 DEF Records!Receive, RecordsTypeOK, WrittenCounted
    <2>5. FlushInv'
      BY <1>12, <1>1 DEF Records!Receive, RecordsTypeOK, FlushInv, Records!FlushDelivers, WrittenCounted
    <2> QED  BY <2>1, <2>2, <2>3, <2>4, <2>5 DEF RecordsInv
  <1>13. CASE Records!Sink
    <2>a. worker.record \in Nat /\ worker \in [pc : {"recv", "sink", "count"}, record : Nat]
          /\ written \in Seq(Nat)
      BY <1>1 DEF RecordsTypeOK
    <2>b. written' \in Seq(Nat)
      BY <1>13, <2>a DEF Records!Sink
    <2>c. worker' \in [pc : {"recv", "sink", "count"}, record : Nat]
      BY <1>13, <2>a DEF Records!Sink
    <2>0. worker' \in [pc : {"recv", "sink", "count"}, record : Nat] /\ written' \in Seq(Nat)
      BY <2>b, <2>c
    <2>1. RecordsTypeOK'
      BY <1>13, <1>1, <2>0 DEF Records!Sink, RecordsTypeOK
    <2>2. Records!LossesReported'
      BY <1>13, <1>1, <1>2, <1>3, <1>4, <1>5 DEF Records!Sink, RecordsTypeOK
    <2>3. SentCounted'
      BY <1>13, <1>1 DEF Records!Sink, RecordsTypeOK, SentCounted, Records!Emitted
    <2>4. WrittenCounted'
      BY <1>13, <1>1 DEF Records!Sink, RecordsTypeOK, WrittenCounted
    <2>5. FlushInv'
      BY <1>13, <1>1 DEF Records!Sink, RecordsTypeOK, FlushInv, Records!FlushDelivers, WrittenCounted
    <2> QED  BY <2>1, <2>2, <2>3, <2>4, <2>5 DEF RecordsInv
  <1>14. CASE Records!CountDelivered
    <2>0. worker' \in [pc : {"recv", "sink", "count"}, record : Nat] /\ written' \in Seq(Nat)
      BY <1>14, <1>1 DEF Records!CountDelivered, RecordsTypeOK
    <2>1. RecordsTypeOK'
      BY <1>14, <1>1, <2>0 DEF Records!CountDelivered, RecordsTypeOK
    <2>2. Records!LossesReported'
      BY <1>14, <1>1, <1>2, <1>3, <1>4, <1>5 DEF Records!CountDelivered, RecordsTypeOK
    <2>3. SentCounted'
      BY <1>14, <1>1 DEF Records!CountDelivered, RecordsTypeOK, SentCounted, Records!Emitted
    <2>4. WrittenCounted'
      BY <1>14, <1>1 DEF Records!CountDelivered, RecordsTypeOK, WrittenCounted
    <2>5. FlushInv'
      BY <1>14, <1>1 DEF Records!CountDelivered, RecordsTypeOK, FlushInv, Records!FlushDelivers, WrittenCounted
    <2> QED  BY <2>1, <2>2, <2>3, <2>4, <2>5 DEF RecordsInv
  <1>15. CASE Records!FlushBegin
    <2>1. RecordsTypeOK'
      BY <1>15, <1>1 DEF Records!FlushBegin, RecordsTypeOK, SentCounted, Records!Emitted
    <2>2. Records!LossesReported'
      BY <1>15, <1>1, <1>2, <1>3, <1>4, <1>5 DEF Records!FlushBegin, RecordsTypeOK
    <2>3. SentCounted'
      BY <1>15, <1>1 DEF Records!FlushBegin, RecordsTypeOK, SentCounted, Records!Emitted
    <2>4. WrittenCounted'
      BY <1>15, <1>1 DEF Records!FlushBegin, RecordsTypeOK, WrittenCounted
    <2>5. FlushInv'
      BY <1>15, <1>1 DEF Records!FlushBegin, RecordsTypeOK, FlushInv, Records!FlushDelivers, WrittenCounted, SentCounted
    <2> QED  BY <2>1, <2>2, <2>3, <2>4, <2>5 DEF RecordsInv
  <1>16. CASE Records!FlushEnds
    <2>0. flush' \in [pc : {"none", "waits", "flushed", "timed_out"}, target : Nat, owed : Nat]
      BY <1>16, <1>1 DEF Records!FlushEnds, RecordsTypeOK
    <2>1. RecordsTypeOK'
      BY <1>16, <1>1, <2>0 DEF Records!FlushEnds, RecordsTypeOK
    <2>2. Records!LossesReported'
      BY <1>16, <1>1, <1>2, <1>3, <1>4, <1>5 DEF Records!FlushEnds, RecordsTypeOK
    <2>3. SentCounted'
      BY <1>16, <1>1 DEF Records!FlushEnds, RecordsTypeOK, SentCounted, Records!Emitted
    <2>4. WrittenCounted'
      BY <1>16, <1>1 DEF Records!FlushEnds, RecordsTypeOK, WrittenCounted
    <2>5. FlushInv'
      <3>1. written' = written /\ flush'.owed = flush.owed /\ flush'.target = flush.target
            /\ (flush'.pc = "flushed" => delivered >= flush.target)
        BY <1>16, <1>1 DEF Records!FlushEnds, RecordsTypeOK
      <3>2. Len(written) >= delivered /\ flush.owed = flush.target
        BY <1>1 DEF RecordsTypeOK, WrittenCounted, FlushInv
      <3>3. delivered \in Nat /\ flush.target \in Nat /\ Len(written) \in Nat
        BY <1>1 DEF RecordsTypeOK
      <3> QED  BY <3>1, <3>2, <3>3 DEF FlushInv, Records!FlushDelivers
    <2> QED  BY <2>1, <2>2, <2>3, <2>4, <2>5 DEF RecordsInv
  <1>17. CASE UNCHANGED Records!vars
    <2>1. Records!LossesReported'
      BY <1>17, <1>2, <1>3, <1>4 DEF Records!vars
    <2> QED  BY <1>17, <1>1, <2>1 DEF Records!vars, RecordsInv, RecordsTypeOK, SentCounted, WrittenCounted,
                                     FlushInv, Records!Emitted, Records!FlushDelivers
  <1> QED  BY <1>6, <1>7, <1>8, <1>9, <1>10, <1>11, <1>12, <1>13, <1>14, <1>15, <1>16, <1>17
           DEF Records!Next

\* The inductive invariant of the diagnostics.
THEOREM RecordsInvariant == OperationsSpec => []RecordsInv
  <1>1. OperationsInit => RecordsInv
    BY RecordsInit DEF OperationsInit
  <1>2. RecordsInv /\ [OperationsNext]_operationsVars => RecordsInv'
    <2> SUFFICES ASSUME RecordsInv, [OperationsNext]_operationsVars PROVE RecordsInv'
      OBVIOUS
    <2>1. [Records!Next]_(Records!vars)
      BY DEF OperationsNext, CacheStep, DaemonStep, ResidencyStep, RecordsStep, operationsVars,
             recordsVars, Records!vars
    <2> QED  BY <2>1, RecordsNext
  <1> QED  BY <1>1, <1>2, PTL DEF OperationsSpec

\* Every record the full channel refused is reported by a summary once, and a flush
\* that says so has seen every record written whose emit had returned when it began
\* (SchedulerDiagnostics, flush_diagnostics).
THEOREM RecordsAlwaysAccounted == OperationsSpec => []RecordsAreAccounted
  <1>1. RecordsInv => RecordsAreAccounted
    BY DEF RecordsInv, FlushInv, RecordsAreAccounted
  <1> QED  BY <1>1, RecordsInvariant, PTL

-----------------------------------------------------------------------------
(* The file a pull returns: the inductive invariant.                       *)

Prefix(v, n) == [k \in 1..n |-> <<v, k>>]

FetchRecord ==
    [pc : {"idle", "resolve", "look", "ask", "open", "load", "verify", "stamp", "done", "failed", "range"},
     uri : Versions \cup {Main}, expected : Expectable \cup {None}, rev : Versions \cup {None},
     offset : Nat, append : BOOLEAN, file : Inodes \cup {None}, next : Nat,
     sha : {Cache!Content(v) : v \in Versions} \cup {None}]

\* Names refer to files, and no two partial files or a partial and a complete one are
\* the same.
NamesOK ==
    /\ hub \in Versions /\ ref \in Versions \cup {None}
    /\ DOMAIN content = Inodes
    /\ partial \in [Versions -> Inodes \cup {None}] /\ dest \in [Versions -> Inodes \cup {None}]
    /\ \A v, w \in Versions : partial[v] # None => /\ partial[v] # dest[w]
                                                   /\ partial[v] = partial[w] => v = w

\* A partial file is a beginning of its revision, a complete one is the revision,
\* and a stamp has its digest.
PartialsOK == \A v \in Versions : partial[v] # None =>
                 \E n \in 0..Blocks : content[partial[v]] = Prefix(v, n)
DestsOK == \A v \in Versions : dest[v] # None => content[dest[v]] = Prefix(v, Blocks)
StampsOK ==
    /\ DOMAIN stamp = Versions
    /\ \A v \in Versions : stamp[v] = None \/ stamp[v] \in [sha : {Prefix(v, Blocks)}, same : BOOLEAN]

\* What the pull knows: the length of its partial file when it opens it, that it
\* writes the end of it, and the digest it has verified.
PullOK ==
    /\ DOMAIN fetch = {f} /\ fetch[f] \in FetchRecord
    /\ fetch[f].pc \in {"look", "ask", "open", "load", "verify", "stamp", "done"} => fetch[f].rev \in Versions
    /\ fetch[f].pc # "load" => fetch[f].file = None
    /\ fetch[f].pc = "open" =>
          IF partial[fetch[f].rev] = None THEN fetch[f].offset = 0
          ELSE content[partial[fetch[f].rev]] = Prefix(fetch[f].rev, fetch[f].offset)
    /\ fetch[f].pc = "load" =>
          /\ partial[fetch[f].rev] # None /\ fetch[f].file = partial[fetch[f].rev]
          /\ fetch[f].next \in 1..(Blocks + 1)
          /\ content[fetch[f].file] = Prefix(fetch[f].rev, fetch[f].next - 1)
    /\ fetch[f].pc \in {"stamp", "done"} =>
          /\ fetch[f].sha = Prefix(fetch[f].rev, Blocks)
          /\ fetch[f].expected \in {None, fetch[f].sha}

CacheInv == NamesOK /\ PartialsOK /\ DestsOK /\ StampsOK /\ PullOK

LEMMA PullSet ==
    ASSUME DOMAIN fetch = {f}, NEW r, fetch' = [fetch EXCEPT ![f] = r]
    PROVE  DOMAIN fetch' = {f} /\ fetch'[f] = r
  OBVIOUS

LEMMA CacheIdle == /\ Cache!Idle \in FetchRecord /\ Cache!Idle.file = None
                   /\ Cache!Idle.pc = "idle"
  BY DEF Cache!Idle, FetchRecord

\* A pull that ends in any other way than with a record.
LEMMA PullEnds ==
    ASSUME CacheInv, NEW why \in {"failed", "range"}, Cache!Fail(f, why),
           UNCHANGED <<hub, ref, content, partial, dest, stamp>>
    PROVE  CacheInv'
  <1>1. PICK r : r = [Cache!Idle EXCEPT !.pc = why]
    OBVIOUS
  <1>2. r \in FetchRecord /\ r.pc = why /\ r.file = None
    BY <1>1 DEF Cache!Idle, FetchRecord
  <1>3. DOMAIN fetch' = {f} /\ fetch'[f] = r
    BY <1>1, PullSet DEF Cache!Fail, Cache!Become, CacheInv, PullOK
  <1>4. PullOK'
    BY <1>2, <1>3 DEF PullOK
  <1> QED  BY <1>4 DEF CacheInv, NamesOK, PartialsOK, DestsOK, StampsOK

LEMMA PrefixIs ==
    ASSUME NEW v, NEW n \in Nat
    PROVE  /\ Prefix(v, 0) = <<>> /\ Len(Prefix(v, n)) = n
           /\ Append(Prefix(v, n), <<v, n + 1>>) = Prefix(v, n + 1)
           /\ Cache!WrittenAt(Prefix(v, n), n + 1, <<v, n + 1>>) = Prefix(v, n + 1)
           /\ Cache!Content(v) = Prefix(v, Blocks)
  <1>1. Prefix(v, n) \in Seq({<<v, k>> : k \in Nat}) /\ Len(Prefix(v, n)) = n
    BY DEF Prefix
  <1>2. Prefix(v, 0) = <<>>
    <2>1. Prefix(v, 0) \in Seq({<<v, k>> : k \in Nat}) /\ Len(Prefix(v, 0)) = 0
      BY DEF Prefix
    <2> QED  BY <2>1
  <1>3. Append(Prefix(v, n), <<v, n + 1>>) = Prefix(v, n + 1)
    BY DEF Prefix
  <1>4. Cache!WrittenAt(Prefix(v, n), n + 1, <<v, n + 1>>) = Prefix(v, n + 1)
    BY <1>1 DEF Prefix, Cache!WrittenAt
  <1>5. Cache!Content(v) = Prefix(v, Blocks)
    BY DEF Cache!Content, Prefix
  <1> QED  BY <1>1, <1>2, <1>3, <1>4, <1>5

\* There are inodes enough: some are not in use.
LEMMA UnusedIs ==
    ASSUME Cache!FetchAssumption, NamesOK, DOMAIN fetch = {f}, fetch[f].file = None
    PROVE  /\ Cache!Unused \in Inodes /\ Cache!Unused # None
           /\ \A v \in Versions : Cache!Unused # partial[v] /\ Cache!Unused # dest[v]
  <1>1. /\ IsFiniteSet(Inodes) /\ IsFiniteSet(Versions) /\ None \notin Inodes
        /\ Cardinality(Inodes) >= 2 * Cardinality(Versions) + Cardinality({f})
    BY DEF Cache!FetchAssumption, Cache!Cardinality, Cardinality, Cache!IsFiniteSet, IsFiniteSet
  <1> DEFINE P == {partial[v] : v \in Versions}
             D == {dest[v] : v \in Versions}
  <1>2. IsFiniteSet(P) /\ Cardinality(P) <= Cardinality(Versions)
    <2>1. partial \in Surjection(Versions, P)
      BY DEF NamesOK, Surjection
    <2> QED  BY <1>1, <2>1, FS_Surjection
  <1>3. IsFiniteSet(D) /\ Cardinality(D) <= Cardinality(Versions)
    <2>1. dest \in Surjection(Versions, D)
      BY DEF NamesOK, Surjection
    <2> QED  BY <1>1, <2>1, FS_Surjection
  <1>4. /\ IsFiniteSet(P \cup D) /\ Cardinality(P \cup D) <= Cardinality(P) + Cardinality(D)
    <2>1. /\ IsFiniteSet(P \cup D) /\ IsFiniteSet(P \cap D)
          /\ Cardinality(P \cup D) = Cardinality(P) + Cardinality(D) - Cardinality(P \cap D)
      BY <1>2, <1>3, FS_Union, FS_Intersection
    <2>2. /\ Cardinality(P) \in Nat /\ Cardinality(D) \in Nat /\ Cardinality(P \cap D) \in Nat
      BY <1>2, <1>3, <2>1, FS_CardinalityType
    <2> QED  BY <2>1, <2>2
  <1>5. Cardinality({f}) = 1 /\ Cardinality(P) \in Nat /\ Cardinality(D) \in Nat
        /\ Cardinality(P \cup D) \in Nat /\ Cardinality(Versions) \in Nat /\ Cardinality(Inodes) \in Nat
    BY <1>1, <1>2, <1>3, <1>4, FS_Singleton, FS_CardinalityType
  <1>6. ~(Inodes \subseteq P \cup D)
    <2> SUFFICES ASSUME Inodes \in SUBSET (P \cup D) PROVE FALSE
      OBVIOUS
    <2>1. Cardinality(Inodes) <= Cardinality(P \cup D)
      BY <1>4, FS_Subset
    <2> HIDE DEF P, D
    <2> QED  BY <1>1, <1>2, <1>3, <1>4, <1>5, <2>1
  <1>7. PICK i \in Inodes : /\ \A v \in Versions : i \notin {partial[v], dest[v]}
                            /\ \A g \in {f} : fetch[g].file # i
    BY <1>1, <1>6
  <1>8. /\ Cache!Unused \in Inodes
        /\ \A v \in Versions : Cache!Unused \notin {partial[v], dest[v]}
    BY <1>7 DEF Cache!Unused
  <1> QED  BY <1>1, <1>8

\* A step of the pull that leaves the files alone.
LEMMA PullStep ==
    ASSUME CacheInv, NEW r \in FetchRecord, fetch' = [fetch EXCEPT ![f] = r],
           hub' \in Versions, ref' \in Versions \cup {None}, UNCHANGED <<content, partial, dest, stamp>>,
           r.pc \in {"look", "ask", "open", "load", "verify", "stamp", "done"} => r.rev \in Versions,
           r.pc # "load", r.file = None,
           r.pc = "open" => IF partial[r.rev] = None THEN r.offset = 0
                            ELSE content[partial[r.rev]] = Prefix(r.rev, r.offset),
           r.pc \in {"stamp", "done"} => r.sha = Prefix(r.rev, Blocks) /\ r.expected \in {None, r.sha}
    PROVE  CacheInv'
  <1>1. DOMAIN fetch' = {f} /\ fetch'[f] = r
    BY PullSet DEF CacheInv, PullOK
  <1>2. PullOK'
    BY <1>1 DEF PullOK
  <1>3. NamesOK' /\ PartialsOK' /\ DestsOK' /\ StampsOK'
    BY DEF CacheInv, NamesOK, PartialsOK, DestsOK, StampsOK
  <1> QED  BY <1>2, <1>3 DEF CacheInv

LEMMA FetchInv ==
    ASSUME CacheInv, NEW uri \in Versions \cup {Main}, NEW expected \in Expectable,
           Cache!Fetch(f, uri, expected)
    PROVE  CacheInv'
  <1>1. PICK r : r = [Cache!Idle EXCEPT !.pc = "resolve", !.uri = uri, !.expected = expected]
    OBVIOUS
  <1>2. r \in FetchRecord /\ r.pc = "resolve" /\ r.file = None
    BY <1>1 DEF Cache!Idle, FetchRecord
  <1>3. fetch' = [fetch EXCEPT ![f] = r] /\ UNCHANGED <<hub, ref, content, partial, dest, stamp>>
    BY <1>1 DEF Cache!Fetch, Cache!Become
  <1>4. hub' \in Versions /\ ref' \in Versions \cup {None}
    BY <1>3 DEF CacheInv, NamesOK
  <1> QED  BY <1>2, <1>3, <1>4, PullStep

LEMMA ResolveInv == ASSUME CacheInv, Cache!ResolveRevision(f) PROVE CacheInv'
  <1>1. fetch[f] \in FetchRecord /\ fetch[f].file = None /\ hub \in Versions /\ ref \in Versions \cup {None}
    BY DEF CacheInv, PullOK, NamesOK, Cache!ResolveRevision, Cache!At
  <1>2. PICK rev : rev = IF fetch[f].uri # Main THEN fetch[f].uri ELSE IF ref # None THEN ref ELSE hub
    OBVIOUS
  <1>3. rev \in Versions
    <2>1. fetch[f].uri \in Versions \cup {Main}
      BY <1>1 DEF FetchRecord
    <2> QED  BY <1>1, <1>2, <2>1
  <1>4. PICK r : r = [fetch[f] EXCEPT !.rev = rev, !.pc = "look"]
    OBVIOUS
  <1>5. r \in FetchRecord /\ r.pc = "look" /\ r.rev = rev /\ r.file = None
    BY <1>1, <1>3, <1>4 DEF FetchRecord
  <1>6. /\ fetch' = [fetch EXCEPT ![f].rev = rev, ![f].pc = "look"]
        /\ ref' = IF fetch[f].uri = Main THEN rev ELSE ref
        /\ UNCHANGED <<hub, content, partial, dest, stamp>>
    BY <1>2 DEF Cache!ResolveRevision
  <1>7. fetch' = [fetch EXCEPT ![f] = r]
    BY <1>4, <1>6 DEF CacheInv, PullOK
  <1>8. hub' \in Versions /\ ref' \in Versions \cup {None}
    BY <1>1, <1>3, <1>6
  <1> QED  BY <1>3, <1>5, <1>6, <1>7, <1>8, PullStep

\* What a step to another point of the pull makes of it.
LEMMA PullGoes ==
    ASSUME CacheInv, NEW pc \in {"ask", "verify", "done"}, NEW r, r = [fetch[f] EXCEPT !.pc = pc]
    PROVE  /\ r \in FetchRecord /\ r.pc = pc /\ r.rev = fetch[f].rev /\ r.file = fetch[f].file
           /\ r.sha = fetch[f].sha /\ r.expected = fetch[f].expected
           /\ Cache!Goto(f, pc) => fetch' = [fetch EXCEPT ![f] = r]
  <1>1. fetch[f] \in FetchRecord /\ DOMAIN fetch = {f}
    BY DEF CacheInv, PullOK
  <1>2. /\ r \in FetchRecord /\ r.pc = pc /\ r.rev = fetch[f].rev /\ r.file = fetch[f].file
        /\ r.sha = fetch[f].sha /\ r.expected = fetch[f].expected
    BY <1>1 DEF FetchRecord
  <1>3. Cache!Goto(f, pc) => fetch' = [fetch EXCEPT ![f] = r]
    BY <1>1 DEF Cache!Goto
  <1> QED  BY <1>2, <1>3

LEMMA LookInv == ASSUME CacheInv, Cache!Look(f) PROVE CacheInv'
  <1>1. fetch[f].pc = "look" /\ fetch[f].file = None /\ fetch[f].rev \in Versions /\ DOMAIN fetch = {f}
    BY DEF CacheInv, PullOK, Cache!Look, Cache!At
  <1>2. PICK pc \in {"verify", "ask"} : Cache!Goto(f, pc)
    BY DEF Cache!Look
  <1>3. /\ dest' = [dest EXCEPT ![fetch[f].rev] = None] \/ dest' = dest
        /\ UNCHANGED <<hub, ref, content, partial, stamp>>
    <2>1. dest = [dest EXCEPT ![fetch[f].rev] = @]
      BY <1>1 DEF CacheInv, NamesOK
    <2> QED  BY <2>1 DEF Cache!Look
  <1>4. PICK r : r = [fetch[f] EXCEPT !.pc = pc]
    OBVIOUS
  <1>5. r \in FetchRecord /\ r.pc = pc /\ r.rev = fetch[f].rev /\ r.file = None /\ fetch' = [fetch EXCEPT ![f] = r]
    BY <1>1, <1>2, <1>4, PullGoes
  <1>6. DOMAIN fetch' = {f} /\ fetch'[f] = r
    BY <1>1, <1>5, PullSet
  <1>7. PullOK'
    BY <1>1, <1>5, <1>6 DEF PullOK
  <1>8. /\ dest' \in [Versions -> Inodes \cup {None}]
        /\ \A v \in Versions : dest'[v] = None \/ dest'[v] = dest[v]
    BY <1>1, <1>3 DEF CacheInv, NamesOK
  <1>9. NamesOK' /\ PartialsOK' /\ DestsOK' /\ StampsOK'
    <2>1. NamesOK'
      BY <1>3, <1>8 DEF CacheInv, NamesOK
    <2>2. PartialsOK' /\ DestsOK' /\ StampsOK'
      BY <1>3, <1>8 DEF CacheInv, PartialsOK, DestsOK, StampsOK
    <2> QED  BY <2>1, <2>2
  <1> QED  BY <1>7, <1>9 DEF CacheInv

LEMMA AskInv == ASSUME Cache!FetchAssumption, CacheInv, Cache!Ask(f) PROVE CacheInv'
  <1>1. /\ fetch[f].file = None /\ fetch[f].rev \in Versions
        /\ DOMAIN fetch = {f} /\ fetch[f] \in FetchRecord /\ Blocks \in Nat
        /\ hub \in Versions /\ ref \in Versions \cup {None}
    BY DEF CacheInv, PullOK, NamesOK, Cache!Ask, Cache!At, Cache!FetchAssumption
  <1>2. PICK i : i = partial[fetch[f].rev]
    OBVIOUS
  <1>3. PICK n : n = IF i = None THEN 0 ELSE Len(content[i])
    OBVIOUS
  <1>4. n \in Nat /\ (IF i = None THEN n = 0 ELSE content[i] = Prefix(fetch[f].rev, n))
    <2>1. CASE i = None
      BY <1>3, <2>1
    <2>2. CASE i # None
      <3>1. PICK m \in 0..Blocks : content[i] = Prefix(fetch[f].rev, m)
        BY <1>1, <1>2, <2>2 DEF CacheInv, PartialsOK
      <3>2. m \in Nat
        BY <1>1
      <3>3. Len(Prefix(fetch[f].rev, m)) = m
        BY <3>2, PrefixIs
      <3> QED  BY <1>3, <2>2, <3>1, <3>2, <3>3
    <2> QED  BY <2>1, <2>2
  <1>5. PICK r : r = [fetch[f] EXCEPT !.offset = n, !.pc = "open"]
    OBVIOUS
  <1>6. r \in FetchRecord /\ r.pc = "open" /\ r.offset = n /\ r.rev = fetch[f].rev /\ r.file = None
    BY <1>1, <1>4, <1>5 DEF FetchRecord
  <1>7. fetch' = [fetch EXCEPT ![f] = r] /\ UNCHANGED <<hub, ref, content, partial, dest, stamp>>
    <2>1. /\ fetch' = [fetch EXCEPT ![f].offset = n, ![f].pc = "open"]
          /\ UNCHANGED <<hub, ref, content, partial, dest, stamp>>
      BY <1>2, <1>3 DEF Cache!Ask
    <2> QED  BY <1>1, <1>5, <2>1
  <1> QED  BY <1>1, <1>2, <1>4, <1>6, <1>7, PullStep

LEMMA VerifyInv == ASSUME CacheInv, Cache!Verify(f) PROVE CacheInv'
  <1>1. /\ fetch[f].pc = "verify" /\ fetch[f].file = None /\ fetch[f].rev \in Versions
        /\ DOMAIN fetch = {f} /\ fetch[f] \in FetchRecord
        /\ hub' \in Versions /\ ref' \in Versions \cup {None}
        /\ UNCHANGED <<hub, ref, content, partial, dest, stamp>>
    BY DEF CacheInv, PullOK, NamesOK, Cache!Verify, Cache!At
  <1>2. PICK v \in Versions : v = fetch[f].rev
    BY <1>1
  <1>3. PICK pc, sha : /\ pc \in {"done", "stamp"} /\ sha = Prefix(v, Blocks)
                       /\ fetch' = [fetch EXCEPT ![f].pc = pc, ![f].sha = sha]
                       /\ fetch[f].expected \in {None, sha}
    <2>1. CASE /\ Cache!Cached(v, fetch[f].expected)
               /\ fetch' = [fetch EXCEPT ![f].pc = "done", ![f].sha = stamp[v].sha]
      <3>1. stamp[v].sha = Prefix(v, Blocks) /\ fetch[f].expected \in {None, stamp[v].sha}
        BY <2>1 DEF Cache!Cached, CacheInv, StampsOK
      <3> QED  BY <2>1, <3>1
    <2>2. CASE /\ Cache!Registrable(v, fetch[f].expected)
               /\ fetch' = [fetch EXCEPT ![f].pc = "stamp", ![f].sha = content[dest[v]]]
      <3>1. content[dest[v]] = Prefix(v, Blocks) /\ fetch[f].expected \in {None, content[dest[v]]}
        BY <2>2 DEF Cache!Registrable, CacheInv, DestsOK
      <3> QED  BY <2>2, <3>1
    <2> QED  BY <1>2, <2>1, <2>2 DEF Cache!Verify
  <1>4. PICK r : r = [fetch[f] EXCEPT !.pc = pc, !.sha = sha]
    OBVIOUS
  <1>5. /\ r \in FetchRecord /\ r.pc = pc /\ r.sha = sha /\ r.rev = v /\ r.file = None
        /\ r.expected = fetch[f].expected
    <2>1. sha \in {Cache!Content(w) : w \in Versions} \cup {None}
      <3>1. sha = Cache!Content(v)
        BY <1>3 DEF Prefix, Cache!Content
      <3> QED  BY <3>1
    <2>2. pc \in {"done", "stamp"}
      BY <1>3
    <2> QED  BY <1>1, <1>2, <1>4, <2>1, <2>2 DEF FetchRecord
  <1>6. fetch' = [fetch EXCEPT ![f] = r]
    BY <1>1, <1>3, <1>4
  <1> QED  BY <1>1, <1>2, <1>3, <1>5, <1>6, PullStep

LEMMA FetchFailsInv == ASSUME CacheInv, Cache!FetchFails(f) \/ Cache!RangeRefused(f) PROVE CacheInv'
  BY PullEnds DEF Cache!FetchFails, Cache!RangeRefused

\* A step that writes an inode no complete file has: what a partial file loses or
\* gains is that of revision v.
LEMMA WriteStep ==
    ASSUME CacheInv, NEW v \in Versions, NEW i \in Inodes, i # None, NEW n \in 0..Blocks,
           partial' = [partial EXCEPT ![v] = i],
           \A w \in Versions : dest[w] # i /\ (w # v => partial[w] # i),
           Cache!Write(i, Prefix(v, n)), UNCHANGED <<hub, ref, dest>>
    PROVE  /\ NamesOK' /\ PartialsOK' /\ DestsOK' /\ StampsOK'
           /\ partial'[v] = i /\ content'[i] = Prefix(v, n)
  <1>1. content' = [content EXCEPT ![i] = Prefix(v, n)]
    BY DEF Cache!Write
  <1>2. DOMAIN content = Inodes
    BY DEF CacheInv, NamesOK
  <1>3. /\ DOMAIN content' = Inodes /\ content'[i] = Prefix(v, n)
        /\ \A j \in Inodes : j # i => content'[j] = content[j]
    BY <1>1, <1>2
  <1>4. /\ partial' \in [Versions -> Inodes \cup {None}] /\ partial'[v] = i
        /\ \A w \in Versions : w # v => partial'[w] = partial[w]
    BY DEF CacheInv, NamesOK
  <1>5. NamesOK'
    BY <1>3, <1>4 DEF CacheInv, NamesOK
  <1>6. PartialsOK'
    <2> SUFFICES ASSUME NEW w \in Versions, partial'[w] # None
                 PROVE  \E m \in 0..Blocks : content'[partial'[w]] = Prefix(w, m)
      BY DEF PartialsOK
    <2>1. CASE w = v
      BY <1>3, <1>4, <2>1
    <2>2. CASE w # v
      <3>1. partial'[w] = partial[w] /\ partial[w] \in Inodes /\ partial[w] # i
        BY <1>4, <2>2 DEF CacheInv, NamesOK
      <3>2. content'[partial'[w]] = content[partial[w]]
        BY <1>3, <3>1
      <3> QED  BY <3>1, <3>2 DEF CacheInv, PartialsOK
    <2> QED  BY <2>1, <2>2
  <1>7. DestsOK'
    BY <1>3 DEF CacheInv, NamesOK, DestsOK
  <1>8. StampsOK'
    <2>1. stamp' = [w \in Versions |-> IF stamp[w] # None /\ dest[w] = i
                                       THEN [stamp[w] EXCEPT !.same = FALSE] ELSE stamp[w]]
      BY DEF Cache!Write
    <2>2. \A w \in Versions : stamp'[w] = stamp[w]
      BY <2>1
    <2> QED  BY <2>1, <2>2 DEF CacheInv, StampsOK
  <1> QED  BY <1>3, <1>4, <1>5, <1>6, <1>7, <1>8

LEMMA OpenInv ==
    ASSUME Cache!FetchAssumption, CacheInv, NEW ranged \in BOOLEAN, Cache!Open(f, ranged)
    PROVE  CacheInv'
  <1>1. /\ fetch[f].pc = "open" /\ fetch[f].file = None /\ fetch[f].rev \in Versions
        /\ DOMAIN fetch = {f} /\ fetch[f] \in FetchRecord /\ Blocks \in Nat \ {0} /\ None \notin Inodes
        /\ partial \in [Versions -> Inodes \cup {None}]
    BY DEF CacheInv, PullOK, NamesOK, Cache!Open, Cache!At, Cache!FetchAssumption
  <1>2. PICK v \in Versions : v = fetch[f].rev
    BY <1>1
  <1>3. PICK i : i = IF partial[v] = None THEN Cache!Unused ELSE partial[v]
    OBVIOUS
  <1>4. PICK offset \in Nat : offset = fetch[f].offset
    BY <1>1 DEF FetchRecord
  <1>5. PICK append \in BOOLEAN : append = (ranged /\ offset > 0)
    OBVIOUS
  <1>6. PICK next : next = IF ranged THEN offset + 1 ELSE 1
    OBVIOUS
  <1>7. /\ ~(ranged /\ offset >= Blocks)
        /\ fetch' = [fetch EXCEPT ![f].pc = "load", ![f].file = i, ![f].append = append, ![f].next = next]
        /\ \/ append /\ partial[v] # None /\ UNCHANGED <<content, partial, stamp>>
           \/ ~append /\ partial' = [partial EXCEPT ![v] = i] /\ Cache!Write(i, <<>>)
        /\ UNCHANGED <<hub, ref, dest>>
    BY <1>2, <1>3, <1>4, <1>5, <1>6 DEF Cache!Open, Cache!PartialOf, Cache!Resumes, Cache!AnswerFrom
  <1>8. /\ i \in Inodes /\ i # None
        /\ \A w \in Versions : dest[w] # i /\ (w # v => partial[w] # i)
    <2>1. CASE partial[v] = None
      <3>1. NamesOK
        BY DEF CacheInv
      <3>2. /\ Cache!Unused \in Inodes /\ Cache!Unused # None
            /\ \A w \in Versions : Cache!Unused # partial[w] /\ Cache!Unused # dest[w]
        BY <1>1, <3>1, UnusedIs
      <3> QED  BY <1>3, <2>1, <3>2
    <2>2. CASE partial[v] # None
      BY <1>1, <1>3, <2>2 DEF CacheInv, NamesOK
    <2> QED  BY <2>1, <2>2
  <1>9. IF partial[v] = None THEN offset = 0 ELSE content[partial[v]] = Prefix(v, offset)
    BY <1>1, <1>2, <1>4 DEF CacheInv, PullOK
  <1>10. next \in 1..Blocks /\ next - 1 \in 0..Blocks
    BY <1>1, <1>4, <1>6, <1>7
  <1>11. PICK r : r = [fetch[f] EXCEPT !.pc = "load", !.file = i, !.append = append, !.next = next]
    OBVIOUS
  <1>12. r \in FetchRecord /\ r.pc = "load" /\ r.file = i /\ r.rev = v /\ r.next = next
    <2>1. next \in Nat
      BY <1>10
    <2> QED  BY <1>1, <1>2, <1>8, <1>11, <2>1 DEF FetchRecord
  <1>13. fetch' = [fetch EXCEPT ![f] = r]
    BY <1>1, <1>7, <1>11
  <1>14. DOMAIN fetch' = {f} /\ fetch'[f] = r
    BY <1>1, <1>13, PullSet
  <1>15. NamesOK' /\ PartialsOK' /\ DestsOK' /\ StampsOK' /\ partial'[v] = i
         /\ content'[i] = Prefix(v, next - 1)
    <2>1. CASE append
      <3>1. partial[v] # None /\ UNCHANGED <<content, partial, stamp>> /\ next - 1 = offset
        BY <1>4, <1>5, <1>6, <1>7, <2>1
      <3>2. NamesOK' /\ PartialsOK' /\ DestsOK' /\ StampsOK'
        BY <1>7, <3>1 DEF CacheInv, NamesOK, PartialsOK, DestsOK, StampsOK
      <3> QED  BY <1>3, <1>9, <3>1, <3>2
    <2>2. CASE ~append
      <3>1. next = 1 /\ next - 1 = 0
        BY <1>4, <1>5, <1>6, <2>2
      <3>2. PICK n \in 0..Blocks : n = 0
        BY <1>1
      <3>3. Prefix(v, n) = <<>>
        BY <3>2, PrefixIs
      <3>4. Cache!Write(i, Prefix(v, n)) /\ partial' = [partial EXCEPT ![v] = i]
        BY <1>7, <2>2, <3>3
      <3>5. /\ NamesOK' /\ PartialsOK' /\ DestsOK' /\ StampsOK'
            /\ partial'[v] = i /\ content'[i] = Prefix(v, n)
        BY <1>7, <1>8, <3>4, WriteStep
      <3> QED  BY <3>1, <3>2, <3>5
    <2> QED  BY <2>1, <2>2
  <1>16. PullOK'
    BY <1>1, <1>8, <1>10, <1>12, <1>14, <1>15 DEF PullOK
  <1> QED  BY <1>15, <1>16 DEF CacheInv

LEMMA LoadInv == ASSUME Cache!FetchAssumption, CacheInv, Cache!Load(f) PROVE CacheInv'
  <1>1. /\ fetch[f].pc = "load" /\ fetch[f].rev \in Versions /\ None \notin Inodes
        /\ DOMAIN fetch = {f} /\ fetch[f] \in FetchRecord /\ Blocks \in Nat \ {0}
        /\ partial[fetch[f].rev] # None /\ fetch[f].file = partial[fetch[f].rev]
        /\ fetch[f].next \in 1..(Blocks + 1) /\ fetch[f].next <= Blocks
        /\ content[fetch[f].file] = Prefix(fetch[f].rev, fetch[f].next - 1)
    BY DEF CacheInv, PullOK, Cache!Load, Cache!At, Cache!FetchAssumption
  <1>2. PICK v \in Versions : v = fetch[f].rev
    BY <1>1
  <1>3. PICK i : i = fetch[f].file
    OBVIOUS
  <1>4. PICK n \in 0..(Blocks - 1) : n = fetch[f].next - 1
    BY <1>1
  <1>5. n + 1 \in 0..Blocks /\ n \in Nat /\ fetch[f].next = n + 1 /\ n + 2 \in 1..(Blocks + 1)
    BY <1>1, <1>4
  <1>6. /\ Cache!Write(i, IF fetch[f].append THEN Append(content[i], <<v, n + 1>>)
                          ELSE Cache!WrittenAt(content[i], n + 1, <<v, n + 1>>))
        /\ fetch' = [fetch EXCEPT ![f].next = (n + 1) + 1]
        /\ UNCHANGED <<hub, ref, partial, dest>>
    BY <1>2, <1>3, <1>5 DEF Cache!Load
  <1>7. content[i] = Prefix(v, n)
    BY <1>1, <1>2, <1>3, <1>4
  <1>8. Cache!Write(i, Prefix(v, n + 1))
    <2>1. /\ Append(Prefix(v, n), <<v, n + 1>>) = Prefix(v, n + 1)
          /\ Cache!WrittenAt(Prefix(v, n), n + 1, <<v, n + 1>>) = Prefix(v, n + 1)
      BY <1>5, PrefixIs
    <2> QED  BY <1>6, <1>7, <2>1
  <1>9. /\ i \in Inodes /\ i # None /\ partial[v] = i
        /\ \A w \in Versions : dest[w] # i /\ (w # v => partial[w] # i)
    BY <1>1, <1>2, <1>3 DEF CacheInv, NamesOK
  <1>10. partial' = [partial EXCEPT ![v] = i]
    BY <1>6, <1>9 DEF CacheInv, NamesOK
  <1>11. /\ NamesOK' /\ PartialsOK' /\ DestsOK' /\ StampsOK'
         /\ partial'[v] = i /\ content'[i] = Prefix(v, n + 1)
    <2>1. PICK m \in 0..Blocks : m = n + 1
      BY <1>5
    <2>2. Cache!Write(i, Prefix(v, m)) /\ UNCHANGED <<hub, ref, dest>>
      BY <1>6, <1>8, <2>1
    <2>3. /\ NamesOK' /\ PartialsOK' /\ DestsOK' /\ StampsOK'
          /\ partial'[v] = i /\ content'[i] = Prefix(v, m)
      BY <1>9, <1>10, <2>2, WriteStep
    <2> QED  BY <2>1, <2>3
  <1>12. PICK r : r = [fetch[f] EXCEPT !.next = n + 2]
    OBVIOUS
  <1>13. r \in FetchRecord /\ r.pc = "load" /\ r.file = i /\ r.rev = v /\ r.next = n + 2
    <2>1. n + 2 \in Nat
      BY <1>5
    <2> QED  BY <1>1, <1>2, <1>3, <1>12, <2>1 DEF FetchRecord
  <1>14. fetch' = [fetch EXCEPT ![f] = r]
    <2>1. (n + 1) + 1 = n + 2
      BY <1>5
    <2> QED  BY <1>1, <1>6, <1>12, <2>1
  <1>15. DOMAIN fetch' = {f} /\ fetch'[f] = r
    BY <1>1, <1>14, PullSet
  <1>16. PullOK'
    <2>1. (n + 2) - 1 = n + 1
      BY <1>5
    <2> QED  BY <1>5, <1>9, <1>11, <1>13, <1>15, <2>1 DEF PullOK
  <1> QED  BY <1>11, <1>16 DEF CacheInv

LEMMA RenameInv == ASSUME Cache!FetchAssumption, CacheInv, Cache!Rename(f) PROVE CacheInv'
  <1>1. /\ fetch[f].pc = "load" /\ fetch[f].rev \in Versions /\ None \notin Inodes
        /\ DOMAIN fetch = {f} /\ fetch[f] \in FetchRecord /\ Blocks \in Nat \ {0}
        /\ partial[fetch[f].rev] # None /\ fetch[f].file = partial[fetch[f].rev]
        /\ fetch[f].next \in 1..(Blocks + 1) /\ fetch[f].next > Blocks
        /\ content[fetch[f].file] = Prefix(fetch[f].rev, fetch[f].next - 1)
    BY DEF CacheInv, PullOK, Cache!Rename, Cache!At, Cache!FetchAssumption
  <1>2. PICK v \in Versions : v = fetch[f].rev
    BY <1>1
  <1>3. content[partial[v]] = Prefix(v, Blocks)
    <2>1. fetch[f].next - 1 = Blocks
      BY <1>1
    <2> QED  BY <1>1, <1>2, <2>1
  <1>4. /\ dest' = [dest EXCEPT ![v] = partial[v]]
        /\ partial' = [partial EXCEPT ![v] = None]
        /\ stamp' = [stamp EXCEPT ![v] = IF @ = None THEN None ELSE [@ EXCEPT !.same = FALSE]]
        /\ fetch' = [fetch EXCEPT ![f].pc = "verify", ![f].file = None]
        /\ UNCHANGED <<hub, ref, content>>
    BY <1>2 DEF Cache!Rename, Cache!PartialOf
  <1>5. NamesOK' /\ PartialsOK' /\ DestsOK'
    <2>1. NamesOK'
      BY <1>1, <1>2, <1>4 DEF CacheInv, NamesOK
    <2>2. PartialsOK' /\ DestsOK'
      BY <1>3, <1>4 DEF CacheInv, NamesOK, PartialsOK, DestsOK
    <2> QED  BY <2>1, <2>2
  <1>6. StampsOK'
    <2>1. DOMAIN stamp' = Versions /\ \A w \in Versions : w # v => stamp'[w] = stamp[w]
      BY <1>4 DEF CacheInv, StampsOK
    <2>2. stamp'[v] = IF stamp[v] = None THEN None ELSE [stamp[v] EXCEPT !.same = FALSE]
      BY <1>4 DEF CacheInv, StampsOK
    <2>3. stamp'[v] = None \/ stamp'[v] \in [sha : {Prefix(v, Blocks)}, same : BOOLEAN]
      BY <2>2 DEF CacheInv, StampsOK
    <2> QED  BY <2>1, <2>3 DEF CacheInv, StampsOK
  <1>7. PICK r : r = [fetch[f] EXCEPT !.pc = "verify", !.file = None]
    OBVIOUS
  <1>8. r \in FetchRecord /\ r.pc = "verify" /\ r.file = None /\ r.rev = v
    BY <1>1, <1>2, <1>7 DEF FetchRecord
  <1>9. fetch' = [fetch EXCEPT ![f] = r]
    BY <1>1, <1>4, <1>7
  <1>10. DOMAIN fetch' = {f} /\ fetch'[f] = r
    BY <1>1, <1>9, PullSet
  <1>11. PullOK'
    BY <1>8, <1>10 DEF PullOK
  <1> QED  BY <1>5, <1>6, <1>11 DEF CacheInv

LEMMA StampInv == ASSUME CacheInv, Cache!Stamp(f) PROVE CacheInv'
  <1>1. /\ fetch[f].pc = "stamp" /\ fetch[f].rev \in Versions /\ fetch[f].file = None
        /\ DOMAIN fetch = {f} /\ fetch[f].sha = Prefix(fetch[f].rev, Blocks)
        /\ fetch[f].expected \in {None, fetch[f].sha}
    BY DEF CacheInv, PullOK, Cache!Stamp, Cache!At
  <1>2. PICK v \in Versions : v = fetch[f].rev
    BY <1>1
  <1>3. PICK s : s = [sha |-> fetch[f].sha, same |-> Len(fetch[f].sha) = Len(content[dest[v]])]
    OBVIOUS
  <1>4. stamp' = [stamp EXCEPT ![v] = s] /\ Cache!Goto(f, "done")
        /\ UNCHANGED <<hub, ref, content, partial, dest>>
    BY <1>2, <1>3 DEF Cache!Stamp
  <1>5. s \in [sha : {Prefix(v, Blocks)}, same : BOOLEAN]
    BY <1>1, <1>2, <1>3
  <1>6. StampsOK'
    BY <1>4, <1>5 DEF CacheInv, StampsOK
  <1>7. NamesOK' /\ PartialsOK' /\ DestsOK'
    BY <1>4 DEF CacheInv, NamesOK, PartialsOK, DestsOK
  <1>8. PICK r : r = [fetch[f] EXCEPT !.pc = "done"]
    OBVIOUS
  <1>9. /\ r \in FetchRecord /\ r.pc = "done" /\ r.rev = v /\ r.file = None /\ r.sha = fetch[f].sha
        /\ r.expected = fetch[f].expected /\ fetch' = [fetch EXCEPT ![f] = r]
    BY <1>1, <1>2, <1>4, <1>8, PullGoes
  <1>10. DOMAIN fetch' = {f} /\ fetch'[f] = r
    BY <1>1, <1>9, PullSet
  <1>11. PullOK'
    BY <1>1, <1>2, <1>9, <1>10 DEF PullOK
  <1> QED  BY <1>6, <1>7, <1>11 DEF CacheInv

LEMMA CacheInit == ASSUME Cache!Init PROVE CacheInv
  <1>1. DOMAIN fetch = {f} /\ fetch[f] = Cache!Idle /\ fetch[f].pc = "idle"
    BY CacheIdle DEF Cache!Init
  <1>2. PullOK
    BY <1>1, CacheIdle DEF PullOK
  <1> QED  BY <1>2 DEF Cache!Init, CacheInv, NamesOK, PartialsOK, DestsOK, StampsOK

LEMMA CacheNext ==
    ASSUME Cache!FetchAssumption, CacheInv, [Cache!Next]_(Cache!vars)
    PROVE  CacheInv'
  <1>1. CASE UNCHANGED Cache!vars
    BY <1>1 DEF Cache!vars, CacheInv, NamesOK, PartialsOK, DestsOK, StampsOK, PullOK
  <1>2. ASSUME NEW uri \in Versions \cup {Main}, NEW expected \in Expectable, Cache!Fetch(f, uri, expected)
        PROVE  CacheInv'
    BY <1>2, FetchInv
  <1>3. CASE Cache!ResolveRevision(f) \/ Cache!Look(f) \/ Cache!Ask(f)
    BY <1>3, ResolveInv, LookInv, AskInv
  <1>4. ASSUME NEW ranged \in BOOLEAN, Cache!Open(f, ranged)  PROVE CacheInv'
    BY <1>4, OpenInv
  <1>5. CASE Cache!RangeRefused(f) \/ Cache!FetchFails(f)
    BY <1>5, FetchFailsInv
  <1>6. CASE Cache!Load(f) \/ Cache!Rename(f)
    BY <1>6, LoadInv, RenameInv
  <1>7. CASE Cache!Verify(f) \/ Cache!Stamp(f)
    BY <1>7, VerifyInv, StampInv
  <1>8. ASSUME NEW v \in Versions, Cache!HubMoves(v)  PROVE CacheInv'
    BY <1>8 DEF Cache!HubMoves, CacheInv, NamesOK, PartialsOK, DestsOK, StampsOK, PullOK
  <1>9. CASE Cache!Crash
    <2>1. /\ DOMAIN fetch' = {f} /\ fetch'[f] = Cache!Idle
          /\ UNCHANGED <<hub, ref, content, partial, dest, stamp>>
      BY <1>9 DEF Cache!Crash
    <2>2. PullOK'
      BY <2>1, CacheIdle DEF PullOK
    <2> QED  BY <2>1, <2>2 DEF CacheInv, NamesOK, PartialsOK, DestsOK, StampsOK
  <1> QED  BY <1>1, <1>2, <1>3, <1>4, <1>5, <1>6, <1>7, <1>8, <1>9 DEF Cache!Next, Cache!Work

\* The inductive invariant of the download cache.
THEOREM CacheInvariant == OperationsSpec => []CacheInv
  <1> USE OperationsAssumption DEF OperationsAssumption
  <1>1. OperationsInit => CacheInv
    BY CacheInit DEF OperationsInit
  <1>2. CacheInv /\ [OperationsNext]_operationsVars => CacheInv'
    <2> SUFFICES ASSUME CacheInv, [OperationsNext]_operationsVars PROVE CacheInv'
      OBVIOUS
    <2>1. [Cache!Next]_(Cache!vars)
      BY DEF OperationsNext, CacheStep, DaemonStep, ResidencyStep, RecordsStep, operationsVars,
             cacheVars, Cache!vars
    <2> QED  BY <2>1, CacheNext
  <1> QED  BY <1>1, <1>2, PTL DEF OperationsSpec

\* Whatever connections break, ranges are ignored and processes end, what a pull returns
\* is the whole file of its revision and what the caller expected, and what it resumes
\* from is a beginning of it (fetch_hf_with_progress): for one pull at a time.
THEOREM FetchedAlwaysWhole == OperationsSpec => []FetchedIsWhole
  <1> USE OperationsAssumption DEF OperationsAssumption
  <1>1. CacheInv => FetchedIsWhole
    <2> SUFFICES ASSUME CacheInv PROVE FetchedIsWhole
      OBVIOUS
    <2>1. Blocks \in Nat
      BY DEF Cache!FetchAssumption
    <2>2. Cache!FetchedIsWhole
      <3>1. fetch[f].pc = "done" => /\ fetch[f].sha = Prefix(fetch[f].rev, Blocks)
                                    /\ fetch[f].expected \in {None, fetch[f].sha}
        BY DEF CacheInv, PullOK
      <3>2. Cache!Content(fetch[f].rev) = Prefix(fetch[f].rev, Blocks)
        BY <2>1, PrefixIs
      <3> QED  BY <3>1, <3>2 DEF Cache!FetchedIsWhole, Cache!At
    <2>3. Cache!PartialIsPrefix
      <3> SUFFICES ASSUME NEW v \in Versions, partial[v] # None
                   PROVE  content[partial[v]] = SubSeq(Cache!Content(v), 1, Len(content[partial[v]]))
        BY DEF Cache!PartialIsPrefix
      <3>1. PICK n \in 0..Blocks : content[partial[v]] = Prefix(v, n)
        BY DEF CacheInv, PartialsOK
      <3>2. n \in Nat
        BY <2>1
      <3>3. Len(Prefix(v, n)) = n /\ Cache!Content(v) = Prefix(v, Blocks)
        BY <2>1, <3>2, PrefixIs
      <3>4. SubSeq(Prefix(v, Blocks), 1, n) = Prefix(v, n)
        BY <2>1, <3>2 DEF Prefix
      <3> QED  BY <3>1, <3>3, <3>4
    <2> QED  BY <2>2, <2>3 DEF FetchedIsWhole
  <1> QED  BY <1>1, CacheInvariant, PTL

-----------------------------------------------------------------------------
(* The models a daemon serves: the inductive invariant.                    *)

TaskRecord == Daemon!RegisterTask \cup Daemon!AliasTask \cup Daemon!RemoveTask

DaemonTypeOK ==
    /\ catalog \in [Daemon!IdSet -> Daemon!Record \cup {None}]
    /\ served \in [Daemon!IdSet -> Daemon!Record \cup {None}]
    /\ operations \in [Pulls -> {"none", "running", "complete", "failed"}]
    /\ pull \in [Pulls -> {"none", "fetching", "registering", "registered", "failing", "failed",
                           "unrecorded", "success", "gone"}]
    /\ next_epoch \in Nat /\ phase \in {"down", "starting", "serving"}
    /\ task \in TaskRecord \cup {None}
    /\ todo \in [catalog : SUBSET Daemon!IdSet, declared : Nat]

\* Where the operation under the lock is.
Working(id, at) == task # None /\ task.id = id /\ task.at \in at

\* An operation needs a process that has registered its catalog, and an alias or a
\* removal a model that is served.
LockOK ==
    /\ task # None => phase # "down"
    /\ task # None \/ phase = "serving" => todo.catalog = {}
    /\ \A id \in Daemon!IdSet : Working(id, {"alias", "remove"}) => served[id] # None

\* No epoch is given twice: served ones are below the next, and the catalog, from
\* which the next start takes them, has each once.
EpochsOK ==
    /\ \A id \in Daemon!IdSet : served[id] # None => served[id].epoch < next_epoch
    /\ \A i, j \in Daemon!IdSet : i # j /\ catalog[i] # None /\ catalog[j] # None
                                  => catalog[i].epoch # catalog[j].epoch
    /\ Daemon!EpochsDistinct

AliasesOK == \A i, j \in Daemon!IdSet : \A alias \in Aliases :
    served[i] # None /\ served[j] # None /\ alias \in served[i].aliases /\ alias \in served[j].aliases
    => i = j

\* The catalog has the identity of what is served, but for what the start has still to
\* register and what the operation under the lock has written first.
Agree(id) ==
    /\ (catalog[id] = None) = (served[id] = None)
    /\ served[id] # None => /\ catalog[id].revision = served[id].revision
                            /\ catalog[id].epoch = served[id].epoch

CatalogOK == phase # "down" => \A id \in Daemon!IdSet :
    IF id \in todo.catalog THEN catalog[id] # None /\ served[id] = None
    ELSE IF Working(id, {"insert"})
         THEN catalog[id] # None /\ catalog[id].revision = task.revision /\ catalog[id].epoch = next_epoch
         ELSE IF Working(id, {"remove"}) THEN catalog[id] = None ELSE Agree(id)

\* The engine has prepared what is served, and what is about to be.
ServedEpochs == {<<id, served[id].epoch>> : id \in {i \in Daemon!IdSet : served[i] # None}}

EngineOK == phase # "down" =>
    prepared = ServedEpochs \cup {<<id, next_epoch>> : id \in {i \in Daemon!IdSet : Working(i, {"publish", "insert"})}}

\* A pull is what its operation says, as long as the process lives.
PullsOK ==
    /\ Daemon!OperationsFollow
    /\ \A p \in Pulls : pull[p] \in {"fetching", "failing"} => operations[p] = "running"
    /\ phase # "serving" => \A p \in Pulls : pull[p] \in {"none", "gone"}
    /\ task # None /\ task.pull # None =>
          /\ pull[task.pull] = "registering"
          /\ operations[task.pull] = IF task.at = "insert" THEN "complete" ELSE "running"

DaemonInv == DaemonTypeOK /\ LockOK /\ EpochsOK /\ AliasesOK /\ CatalogOK /\ EngineOK /\ PullsOK

LEMMA TaskIs ==
    ASSUME DaemonInv, task # None
    PROVE  /\ task \in TaskRecord /\ task.id \in Daemon!IdSet
           /\ task.at \in {"register", "publish", "insert", "alias", "remove"}
           /\ task.pull \in Pulls \cup {None}
           /\ task.at \in {"register", "publish", "insert"} =>
                task \in Daemon!RegisterTask /\ task.revision \in Revisions /\ task.aliases \in SUBSET Aliases
           /\ task.at \in {"alias", "remove"} => task.pull = None
           /\ task.at = "alias" => task.alias \in Aliases
           /\ phase # "down" /\ todo.catalog = {}
  <1>1. task \in TaskRecord /\ phase # "down" /\ todo.catalog = {}
    BY DEF DaemonInv, DaemonTypeOK, LockOK
  <1>2. CASE task \in Daemon!RegisterTask
    BY <1>1, <1>2 DEF Daemon!RegisterTask
  <1>3. CASE task \in Daemon!AliasTask
    BY <1>1, <1>3 DEF Daemon!AliasTask
  <1>4. CASE task \in Daemon!RemoveTask
    BY <1>1, <1>4 DEF Daemon!RemoveTask
  <1> QED  BY <1>1, <1>2, <1>3, <1>4 DEF TaskRecord

\* A record is none of None, and has an epoch and aliases.
LEMMA RecordIs ==
    ASSUME Daemon!LifecycleAssumption, DaemonInv
    PROVE  /\ None \notin Daemon!Record /\ None \notin TaskRecord
           /\ \A id \in Daemon!IdSet :
                /\ served[id] # None => /\ served[id] \in Daemon!Record /\ served[id].epoch \in Nat
                                        /\ served[id].aliases \in SUBSET Aliases
                                        /\ served[id].revision \in Revisions
                /\ catalog[id] # None => /\ catalog[id] \in Daemon!Record /\ catalog[id].epoch \in Nat
  <1>1. None \notin Daemon!Record /\ None \notin TaskRecord
    BY DEF Daemon!LifecycleAssumption, TaskRecord
  <1>2. \A r \in Daemon!Record : r.epoch \in Nat /\ r.aliases \in SUBSET Aliases /\ r.revision \in Revisions
    BY DEF Daemon!Record
  <1> QED  BY <1>1, <1>2 DEF DaemonInv, DaemonTypeOK

\* While an operation has not written or prepared anything, and between operations,
\* all agree.
LEMMA AllAgree ==
    ASSUME DaemonInv, phase # "down", todo.catalog = {}, task = None \/ task.at \in {"register", "alias"}
    PROVE  (\A id \in Daemon!IdSet : Agree(id)) /\ prepared = ServedEpochs
  <1>1. \A id \in Daemon!IdSet : Agree(id)
    BY DEF DaemonInv, CatalogOK, Working
  <1>2. prepared = ServedEpochs
    BY DEF DaemonInv, EngineOK, Working
  <1> QED  BY <1>1, <1>2

\* The end of an operation, and of what the start or a pull makes of it.
LEMMA DoneStep ==
    ASSUME Daemon!LifecycleAssumption, DaemonInv, task # None, NEW ok \in BOOLEAN, Daemon!Done(ok),
           operations' = operations, ok \/ task.at \in {"register", "publish"},
           catalog' \in [Daemon!IdSet -> Daemon!Record \cup {None}],
           served' \in [Daemon!IdSet -> Daemon!Record \cup {None}],
           next_epoch' \in Nat, EpochsOK', AliasesOK', \A id \in Daemon!IdSet : Agree(id)',
           prepared' = ServedEpochs'
    PROVE  DaemonInv'
  <1>1. /\ task' = None
        /\ pull' = IF task.pull = None THEN pull
                   ELSE [pull EXCEPT ![task.pull] = IF ok THEN "registered" ELSE "failing"]
        /\ phase' = IF phase = "serving" \/ ok THEN phase ELSE "down"
        /\ todo' = IF phase = "serving" THEN todo ELSE [todo EXCEPT !.declared = @ + 1]
    BY DEF Daemon!Done, Daemon!Serving
  <1>2. todo.catalog = {} /\ phase # "down" /\ task.pull \in Pulls \cup {None}
    BY TaskIs
  <1>3. todo' \in [catalog : SUBSET Daemon!IdSet, declared : Nat] /\ todo'.catalog = {}
    BY <1>1, <1>2 DEF DaemonInv, DaemonTypeOK
  <1>4. DaemonTypeOK'
    BY <1>1, <1>3 DEF DaemonInv, DaemonTypeOK
  <1>5. LockOK' /\ CatalogOK'
    BY <1>1, <1>3 DEF LockOK, CatalogOK, Working
  <1>6. EngineOK'
    BY <1>1 DEF EngineOK, Working
  <1>7. PullsOK'
    <2>1. CASE task.pull = None
      BY <1>1, <2>1 DEF DaemonInv, PullsOK, Daemon!OperationsFollow
    <2>2. CASE task.pull # None
      <3>1. task.pull \in Pulls /\ pull[task.pull] = "registering"
            /\ operations[task.pull] = IF task.at = "insert" THEN "complete" ELSE "running"
        BY <1>2, <2>2 DEF DaemonInv, PullsOK
      <3>2. phase = "serving"
        BY <3>1 DEF DaemonInv, PullsOK
      <3>3. pull' = [pull EXCEPT ![task.pull] = IF ok THEN "registered" ELSE "failing"]
        BY <1>1, <2>2
      <3>4. Daemon!OperationsFollow'
        BY <3>1, <3>3 DEF DaemonInv, DaemonTypeOK, PullsOK, Daemon!OperationsFollow
      <3>5. \A p \in Pulls : pull'[p] \in {"fetching", "failing"} => operations'[p] = "running"
        BY <3>1, <3>3 DEF DaemonInv, DaemonTypeOK, PullsOK
      <3> QED  BY <1>1, <3>2, <3>4, <3>5 DEF PullsOK
    <2> QED  BY <2>1, <2>2
  <1> QED  BY <1>4, <1>5, <1>6, <1>7 DEF DaemonInv

\* A record is entered, and takes its aliases from all others.
LEMMA EnteredIs ==
    ASSUME NEW table \in [Daemon!IdSet -> Daemon!Record \cup {None}], None \notin Daemon!Record,
           NEW id \in Daemon!IdSet, NEW r \in Daemon!Record, NEW new, new = Daemon!Entered(table, id, r)
    PROVE  /\ new \in [Daemon!IdSet -> Daemon!Record \cup {None}] /\ new[id] = r
           /\ \A j \in Daemon!IdSet : j # id =>
                /\ new[j] = None <=> table[j] = None
                /\ table[j] # None => /\ new[j].revision = table[j].revision /\ new[j].epoch = table[j].epoch
                                      /\ new[j].aliases = table[j].aliases \ r.aliases
  <1>1. /\ new = [[j \in Daemon!IdSet |-> IF table[j] = None THEN None
                                         ELSE [table[j] EXCEPT !.aliases = @ \ r.aliases]] EXCEPT ![id] = r]
    BY DEF Daemon!Entered, Daemon!WithoutAliases
  <1>2. ASSUME NEW j \in Daemon!IdSet, j # id
        PROVE  /\ new[j] \in Daemon!Record \cup {None}
               /\ new[j] = None <=> table[j] = None
               /\ table[j] # None => /\ new[j].revision = table[j].revision /\ new[j].epoch = table[j].epoch
                                     /\ new[j].aliases = table[j].aliases \ r.aliases
    <2>1. CASE table[j] = None
      BY <1>1, <1>2, <2>1
    <2>2. CASE table[j] # None
      <3>1. table[j] \in Daemon!Record
        BY <2>2
      <3>2. PICK q : q = [table[j] EXCEPT !.aliases = @ \ r.aliases]
        OBVIOUS
      <3>3. q \in Daemon!Record /\ q.revision = table[j].revision /\ q.epoch = table[j].epoch
            /\ q.aliases = table[j].aliases \ r.aliases
        BY <3>1, <3>2 DEF Daemon!Record
      <3>4. new[j] = q
        BY <1>1, <1>2, <2>2, <3>2
      <3> QED  BY <2>2, <3>3, <3>4
    <2> QED  BY <2>1, <2>2
  <1>3. new[id] = r /\ DOMAIN new = Daemon!IdSet
    BY <1>1
  <1>4. new \in [Daemon!IdSet -> Daemon!Record \cup {None}]
    BY <1>1, <1>2, <1>3
  <1> QED  BY <1>2, <1>3, <1>4

\* What the names, the epochs and the engine are after that.
LEMMA EnteredOK ==
    ASSUME Daemon!LifecycleAssumption, DaemonInv, NEW id \in Daemon!IdSet, NEW r \in Daemon!Record,
           served' = Daemon!Entered(served, id, r),
           next_epoch' \in Nat, next_epoch' >= next_epoch, r.epoch < next_epoch',
           \A j \in Daemon!IdSet : j # id /\ served[j] # None => served[j].epoch # r.epoch
    PROVE  /\ served' \in [Daemon!IdSet -> Daemon!Record \cup {None}] /\ served'[id] = r
           /\ AliasesOK' /\ Daemon!EpochsDistinct'
           /\ \A j \in Daemon!IdSet : served'[j] # None => served'[j].epoch < next_epoch'
           /\ \A j \in Daemon!IdSet : j # id =>
                /\ served'[j] = None <=> served[j] = None
                /\ served[j] # None => /\ served'[j].revision = served[j].revision
                                       /\ served'[j].epoch = served[j].epoch
  <1>1. served \in [Daemon!IdSet -> Daemon!Record \cup {None}] /\ None \notin Daemon!Record
    BY RecordIs DEF DaemonInv, DaemonTypeOK
  <1>2. PICK new : new = served'
    OBVIOUS
  <1>3. /\ new \in [Daemon!IdSet -> Daemon!Record \cup {None}] /\ new[id] = r
        /\ \A j \in Daemon!IdSet : j # id =>
             /\ new[j] = None <=> served[j] = None
             /\ served[j] # None => /\ new[j].revision = served[j].revision /\ new[j].epoch = served[j].epoch
                                    /\ new[j].aliases = served[j].aliases \ r.aliases
    BY <1>1, <1>2, EnteredIs
  <1>4. AliasesOK'
    BY <1>1, <1>2, <1>3 DEF DaemonInv, AliasesOK
  <1>5. Daemon!EpochsDistinct'
    BY <1>1, <1>2, <1>3 DEF DaemonInv, EpochsOK, Daemon!EpochsDistinct
  <1>6. \A j \in Daemon!IdSet : served'[j] # None => served'[j].epoch < next_epoch'
    <2> SUFFICES ASSUME NEW j \in Daemon!IdSet, served'[j] # None PROVE served'[j].epoch < next_epoch'
      OBVIOUS
    <2>1. CASE j = id
      BY <1>2, <1>3, <2>1
    <2>2. CASE j # id
      <3>1. served[j] # None /\ served'[j].epoch = served[j].epoch
        BY <1>2, <1>3, <2>2
      <3>2. served[j].epoch \in Nat /\ served[j].epoch < next_epoch /\ next_epoch \in Nat
        BY <3>1, RecordIs DEF DaemonInv, EpochsOK, DaemonTypeOK
      <3> QED  BY <3>1, <3>2
    <2> QED  BY <2>1, <2>2
  <1> QED  BY <1>2, <1>3, <1>4, <1>5, <1>6

\* The engine commits to a model: of its id, only that epoch stays.
LEMMA CommittedIs ==
    ASSUME NEW id \in Daemon!IdSet, NEW extra, prepared = ServedEpochs \cup extra,
           \A p \in extra : p[1] = id, served'[id] # None,
           \A j \in Daemon!IdSet : j # id => /\ served'[j] = None <=> served[j] = None
                                             /\ served[j] # None => served'[j].epoch = served[j].epoch
    PROVE  Daemon!Committed(id, served'[id].epoch) = ServedEpochs'
  <1>1. PICK e : e = served'[id].epoch
    OBVIOUS
  <1>2. Daemon!Committed(id, e) = {p \in ServedEpochs : p[1] # id} \cup {<<id, e>>}
    BY DEF Daemon!Committed
  <1>3. ASSUME NEW p \in ServedEpochs'  PROVE p \in {q \in ServedEpochs : q[1] # id} \cup {<<id, e>>}
    <2>1. PICK j \in Daemon!IdSet : served'[j] # None /\ p = <<j, served'[j].epoch>>
      BY <1>3 DEF ServedEpochs
    <2>2. CASE j = id
      BY <1>1, <2>1, <2>2
    <2>3. CASE j # id
      BY <2>1, <2>3 DEF ServedEpochs
    <2> QED  BY <2>2, <2>3
  <1>4. ASSUME NEW p \in ServedEpochs, p[1] # id  PROVE p \in ServedEpochs'
    <2>1. PICK j \in Daemon!IdSet : served[j] # None /\ p = <<j, served[j].epoch>>
      BY <1>4 DEF ServedEpochs
    <2>2. j # id
      BY <1>4, <2>1
    <2> QED  BY <2>1, <2>2 DEF ServedEpochs
  <1>5. <<id, e>> \in ServedEpochs'
    BY <1>1 DEF ServedEpochs
  <1>6. Daemon!Committed(id, e) = ServedEpochs'
    BY <1>2, <1>3, <1>4, <1>5
  <1> QED  BY <1>1, <1>6

\* An operation that ends and leaves the tables as they were.
LEMMA SameTables ==
    ASSUME DaemonInv, catalog' = catalog, served' = served, next_epoch' = next_epoch
    PROVE  /\ catalog' \in [Daemon!IdSet -> Daemon!Record \cup {None}]
           /\ served' \in [Daemon!IdSet -> Daemon!Record \cup {None}]
           /\ next_epoch' \in Nat /\ EpochsOK' /\ AliasesOK' /\ ServedEpochs' = ServedEpochs
           /\ \A id \in Daemon!IdSet : Agree(id)' = Agree(id)
  <1>1. EpochsOK' /\ AliasesOK'
    BY DEF DaemonInv, EpochsOK, AliasesOK, Daemon!EpochsDistinct
  <1>2. ServedEpochs' = ServedEpochs /\ \A id \in Daemon!IdSet : Agree(id)' = Agree(id)
    BY DEF ServedEpochs, Agree
  <1> QED  BY <1>1, <1>2 DEF DaemonInv, DaemonTypeOK

LEMMA RegisterSameKeeps ==
    ASSUME Daemon!LifecycleAssumption, DaemonInv, Daemon!RegisterSame
    PROVE  DaemonInv'
  <1>1. /\ task # None /\ task.at = "register" /\ served[task.id] # None
        /\ prepared' = prepared \cup {<<task.id, served[task.id].epoch>>}
        /\ Daemon!Done(TRUE) /\ operations' = operations
        /\ catalog' = catalog /\ served' = served /\ next_epoch' = next_epoch
    BY DEF Daemon!RegisterSame, Daemon!Existing
  <1>2. (\A id \in Daemon!IdSet : Agree(id)) /\ prepared = ServedEpochs /\ task.id \in Daemon!IdSet
    BY <1>1, AllAgree, TaskIs
  <1>3. prepared' = ServedEpochs
    BY <1>1, <1>2 DEF ServedEpochs
  <1> QED  BY <1>1, <1>2, <1>3, SameTables, DoneStep

LEMMA RegisterFailsKeeps ==
    ASSUME Daemon!LifecycleAssumption, DaemonInv, Daemon!RegisterFails
    PROVE  DaemonInv'
  <1>1. /\ task # None /\ task.at = "register" /\ Daemon!Done(FALSE) /\ operations' = operations
        /\ catalog' = catalog /\ served' = served /\ next_epoch' = next_epoch /\ prepared' = prepared
    BY DEF Daemon!RegisterFails
  <1>2. (\A id \in Daemon!IdSet : Agree(id)) /\ prepared = ServedEpochs
    BY <1>1, AllAgree, TaskIs
  <1> QED  BY <1>1, <1>2, SameTables, DoneStep

\* What is prepared and not served has the next epoch, and served ones are below it.
LEMMA RegisterPublishFailsKeeps ==
    ASSUME Daemon!LifecycleAssumption, DaemonInv, Daemon!RegisterPublishFails
    PROVE  DaemonInv'
  <1>1. /\ task # None /\ task.at = "publish" /\ Daemon!Done(FALSE) /\ operations' = operations
        /\ catalog' = catalog /\ served' = served /\ next_epoch' = next_epoch
        /\ prepared' = prepared \ {<<task.id, next_epoch>>}
    BY DEF Daemon!RegisterPublishFails
  <1>2. task.id \in Daemon!IdSet /\ phase # "down" /\ todo.catalog = {}
    BY <1>1, TaskIs
  <1>3. \A id \in Daemon!IdSet : Agree(id)
    BY <1>1, <1>2 DEF DaemonInv, CatalogOK, Working
  <1>4. {i \in Daemon!IdSet : Working(i, {"publish", "insert"})} = {task.id}
    BY <1>1, <1>2 DEF Working
  <1>5. prepared = ServedEpochs \cup {<<task.id, next_epoch>>}
    BY <1>2, <1>4 DEF DaemonInv, EngineOK
  <1>6. <<task.id, next_epoch>> \notin ServedEpochs
    <2>1. served[task.id] # None => /\ served[task.id].epoch \in Nat /\ next_epoch \in Nat
                                    /\ served[task.id].epoch < next_epoch
      BY <1>2, RecordIs DEF DaemonInv, EpochsOK, DaemonTypeOK
    <2> QED  BY <1>2, <2>1 DEF ServedEpochs
  <1>7. prepared' = ServedEpochs
    BY <1>1, <1>5, <1>6
  <1> QED  BY <1>1, <1>3, <1>7, SameTables, DoneStep

LEMMA RegisterInsertKeeps ==
    ASSUME Daemon!LifecycleAssumption, DaemonInv, Daemon!RegisterInsert
    PROVE  DaemonInv'
  <1>1. /\ task # None /\ task.at = "insert" /\ Daemon!Done(TRUE) /\ operations' = operations
        /\ catalog' = catalog /\ next_epoch' = next_epoch + 1
        /\ served' = Daemon!Entered(served, task.id, Daemon!NewRecord)
        /\ prepared' = Daemon!Committed(task.id, next_epoch)
    BY DEF Daemon!RegisterInsert
  <1>2. /\ task.id \in Daemon!IdSet /\ phase # "down" /\ todo.catalog = {}
        /\ task.revision \in Revisions /\ task.aliases \in SUBSET Aliases /\ next_epoch \in Nat
    BY <1>1, TaskIs DEF DaemonInv, DaemonTypeOK
  <1>3. PICK r : r = Daemon!NewRecord
    OBVIOUS
  <1>4. r \in Daemon!Record /\ r.epoch = next_epoch /\ r.revision = task.revision
    BY <1>2, <1>3 DEF Daemon!NewRecord, Daemon!Record
  <1>5. PICK id : id = task.id
    OBVIOUS
  <1>6. id \in Daemon!IdSet /\ served' = Daemon!Entered(served, id, r)
    BY <1>1, <1>2, <1>3, <1>5
  <1>7. \A j \in Daemon!IdSet : j # id /\ served[j] # None => served[j].epoch # r.epoch
    BY <1>2, <1>4, RecordIs DEF DaemonInv, EpochsOK
  <1>8. /\ served' \in [Daemon!IdSet -> Daemon!Record \cup {None}] /\ served'[id] = r
        /\ AliasesOK' /\ Daemon!EpochsDistinct'
        /\ \A j \in Daemon!IdSet : served'[j] # None => served'[j].epoch < next_epoch'
        /\ \A j \in Daemon!IdSet : j # id =>
             /\ served'[j] = None <=> served[j] = None
             /\ served[j] # None => /\ served'[j].revision = served[j].revision
                                    /\ served'[j].epoch = served[j].epoch
    <2>1. next_epoch' \in Nat /\ next_epoch' >= next_epoch /\ r.epoch < next_epoch'
      BY <1>1, <1>2, <1>4
    <2> QED  BY <1>4, <1>6, <1>7, <2>1, EnteredOK
  <1>9. served'[id] # None /\ served'[id].epoch = next_epoch
    BY <1>4, <1>8, RecordIs
  <1>10. prepared' = ServedEpochs'
    <2>1. {i \in Daemon!IdSet : Working(i, {"publish", "insert"})} = {id}
      BY <1>1, <1>5, <1>6 DEF Working
    <2>2. PICK extra : extra = {<<id, next_epoch>>}
      OBVIOUS
    <2>3. prepared = ServedEpochs \cup extra /\ \A p \in extra : p[1] = id
      BY <1>2, <2>1, <2>2 DEF DaemonInv, EngineOK
    <2>4. Daemon!Committed(id, served'[id].epoch) = ServedEpochs'
      BY <1>6, <1>8, <1>9, <2>3, CommittedIs
    <2> QED  BY <1>1, <1>5, <1>9, <2>4
  <1>11. EpochsOK'
    BY <1>1, <1>8 DEF DaemonInv, EpochsOK
  <1>12. ASSUME NEW j \in Daemon!IdSet  PROVE Agree(j)'
    <2>1. CASE j = id
      BY <1>1, <1>2, <1>4, <1>5, <1>8, <1>9, <2>1 DEF DaemonInv, CatalogOK, Working, Agree
    <2>2. CASE j # id
      <3>1. Agree(j)
        BY <1>2, <1>5, <2>2 DEF DaemonInv, CatalogOK, Working
      <3> QED  BY <1>1, <1>8, <2>2, <3>1 DEF Agree
    <2> QED  BY <2>1, <2>2
  <1>13. catalog' \in [Daemon!IdSet -> Daemon!Record \cup {None}] /\ next_epoch' \in Nat
    BY <1>1, <1>2 DEF DaemonInv, DaemonTypeOK
  <1> QED  BY <1>1, <1>8, <1>10, <1>11, <1>12, <1>13, DoneStep

LEMMA AliasSwapKeeps ==
    ASSUME Daemon!LifecycleAssumption, DaemonInv, Daemon!AliasSwap
    PROVE  DaemonInv'
  <1>1. /\ task # None /\ task.at = "alias" /\ Daemon!Done(TRUE) /\ operations' = operations
        /\ catalog' = catalog /\ next_epoch' = next_epoch /\ prepared' = prepared
        /\ served' = Daemon!Entered(served, task.id,
                                    [served[task.id] EXCEPT !.aliases = @ \cup {task.alias}])
    BY DEF Daemon!AliasSwap
  <1>2. /\ task.id \in Daemon!IdSet /\ phase # "down" /\ todo.catalog = {}
        /\ task.alias \in Aliases /\ next_epoch \in Nat
    BY <1>1, TaskIs DEF DaemonInv, DaemonTypeOK
  <1>3. PICK id : id = task.id
    OBVIOUS
  <1>4. PICK r : r = [served[id] EXCEPT !.aliases = @ \cup {task.alias}]
    OBVIOUS
  <1>5. id \in Daemon!IdSet /\ served' = Daemon!Entered(served, id, r)
    BY <1>1, <1>2, <1>3, <1>4
  <1>6. served[id] # None
    BY <1>1, <1>3, <1>5 DEF DaemonInv, LockOK, Working
  <1>7. served[id] \in Daemon!Record
    BY <1>5, <1>6, RecordIs
  <1>8. r \in Daemon!Record /\ r.epoch = served[id].epoch /\ r.revision = served[id].revision
    BY <1>2, <1>4, <1>7 DEF Daemon!Record
  <1>9. r.epoch < next_epoch' /\ next_epoch' \in Nat /\ next_epoch' >= next_epoch
    BY <1>1, <1>2, <1>5, <1>6, <1>8 DEF DaemonInv, EpochsOK
  <1>10. \A j \in Daemon!IdSet : j # id /\ served[j] # None => served[j].epoch # r.epoch
    BY <1>5, <1>6, <1>8 DEF DaemonInv, EpochsOK, Daemon!EpochsDistinct
  <1>11. /\ served' \in [Daemon!IdSet -> Daemon!Record \cup {None}] /\ served'[id] = r
         /\ AliasesOK' /\ Daemon!EpochsDistinct'
         /\ \A j \in Daemon!IdSet : served'[j] # None => served'[j].epoch < next_epoch'
         /\ \A j \in Daemon!IdSet : j # id =>
              /\ served'[j] = None <=> served[j] = None
              /\ served[j] # None => /\ served'[j].revision = served[j].revision
                                     /\ served'[j].epoch = served[j].epoch
    BY <1>5, <1>8, <1>9, <1>10, EnteredOK
  <1>12. \A j \in Daemon!IdSet : /\ served'[j] = None <=> served[j] = None
                                 /\ served[j] # None => /\ served'[j].revision = served[j].revision
                                                        /\ served'[j].epoch = served[j].epoch
    BY <1>6, <1>8, <1>11, RecordIs
  <1>13. (\A j \in Daemon!IdSet : Agree(j)) /\ prepared = ServedEpochs
    BY <1>1, <1>2, AllAgree
  <1>14. \A j \in Daemon!IdSet : Agree(j)'
    BY <1>1, <1>12, <1>13 DEF Agree
  <1>15. prepared' = ServedEpochs'
    <2>1. ASSUME NEW p \in ServedEpochs  PROVE p \in ServedEpochs'
      BY <1>12 DEF ServedEpochs
    <2>2. ASSUME NEW p \in ServedEpochs'  PROVE p \in ServedEpochs
      BY <1>12 DEF ServedEpochs
    <2> QED  BY <1>1, <1>13, <2>1, <2>2
  <1>16. EpochsOK' /\ catalog' \in [Daemon!IdSet -> Daemon!Record \cup {None}] /\ next_epoch' \in Nat
    BY <1>1, <1>2, <1>11 DEF DaemonInv, EpochsOK, DaemonTypeOK
  <1> QED  BY <1>1, <1>11, <1>14, <1>15, <1>16, DoneStep

LEMMA RemoveRetireKeeps ==
    ASSUME Daemon!LifecycleAssumption, DaemonInv, Daemon!RemoveRetire
    PROVE  DaemonInv'
  <1>1. /\ task # None /\ task.at = "remove" /\ Daemon!Done(TRUE) /\ operations' = operations
        /\ catalog' = catalog /\ next_epoch' = next_epoch
        /\ served' = [served EXCEPT ![task.id] = None]
        /\ prepared' = prepared \ {<<task.id, served[task.id].epoch>>}
    BY DEF Daemon!RemoveRetire
  <1>2. PICK id : id = task.id
    OBVIOUS
  <1>3. id \in Daemon!IdSet /\ phase # "down" /\ todo.catalog = {}
    BY <1>1, <1>2, TaskIs
  <1>4. served' \in [Daemon!IdSet -> Daemon!Record \cup {None}] /\ served'[id] = None
        /\ \A j \in Daemon!IdSet : j # id => served'[j] = served[j]
    BY <1>1, <1>2, <1>3 DEF DaemonInv, DaemonTypeOK
  <1>5. served[id] # None /\ catalog[id] = None
    BY <1>1, <1>2, <1>3 DEF DaemonInv, LockOK, CatalogOK, Working
  <1>6. prepared = ServedEpochs
    BY <1>1, <1>3 DEF DaemonInv, EngineOK, Working
  <1>7. prepared' = ServedEpochs'
    <2>1. ASSUME NEW p \in ServedEpochs'  PROVE p \in ServedEpochs /\ p[1] # id
      BY <1>4 DEF ServedEpochs
    <2>2. ASSUME NEW p \in ServedEpochs, p # <<id, served[id].epoch>>  PROVE p \in ServedEpochs'
      <3>1. PICK j \in Daemon!IdSet : served[j] # None /\ p = <<j, served[j].epoch>>
        BY <2>2 DEF ServedEpochs
      <3> QED  BY <1>4, <2>2, <3>1 DEF ServedEpochs
    <2> QED  BY <1>1, <1>2, <1>6, <2>1, <2>2
  <1>8. \A j \in Daemon!IdSet : Agree(j)'
    <2>1. \A j \in Daemon!IdSet : j # id => Agree(j)
      BY <1>2, <1>3 DEF DaemonInv, CatalogOK, Working
    <2> QED  BY <1>1, <1>4, <1>5, <2>1 DEF Agree
  <1>9. EpochsOK' /\ AliasesOK'
    BY <1>1, <1>4 DEF DaemonInv, EpochsOK, AliasesOK, Daemon!EpochsDistinct
  <1>10. catalog' \in [Daemon!IdSet -> Daemon!Record \cup {None}] /\ next_epoch' \in Nat
    BY <1>1 DEF DaemonInv, DaemonTypeOK
  <1> QED  BY <1>1, <1>4, <1>7, <1>8, <1>9, <1>10, DoneStep

\* A registration that has gone on to its next point.
LEMMA MovedOn ==
    ASSUME Daemon!LifecycleAssumption, DaemonInv, NEW to \in {"publish", "insert"}, task # None,
           task \in Daemon!RegisterTask, task' = [task EXCEPT !.at = to]
    PROVE  /\ task' \in Daemon!RegisterTask /\ task' # None /\ task'.at = to
           /\ task'.id = task.id /\ task'.pull = task.pull /\ task'.revision = task.revision
           /\ \A i \in Daemon!IdSet : \A at : Working(i, at)' <=> i = task.id /\ to \in at
  <1>1. PICK new : new = [task EXCEPT !.at = to]
    OBVIOUS
  <1>2. /\ new \in Daemon!RegisterTask /\ new.at = to
        /\ new.id = task.id /\ new.pull = task.pull /\ new.revision = task.revision
    BY <1>1 DEF Daemon!RegisterTask
  <1>3. task' \in Daemon!RegisterTask /\ task' # None /\ task'.at = to
        /\ task'.id = task.id /\ task'.pull = task.pull /\ task'.revision = task.revision
    BY <1>1, <1>2 DEF Daemon!LifecycleAssumption
  <1> QED  BY <1>3 DEF Working

LEMMA RegisterPrepareKeeps ==
    ASSUME Daemon!LifecycleAssumption, DaemonInv, Daemon!RegisterPrepare
    PROVE  DaemonInv'
  <1>1. /\ task # None /\ task.at = "register" /\ task' = [task EXCEPT !.at = "publish"]
        /\ prepared' = prepared \cup {<<task.id, next_epoch>>}
        /\ catalog' = catalog /\ operations' = operations /\ served' = served
        /\ next_epoch' = next_epoch /\ pull' = pull /\ phase' = phase /\ todo' = todo
    BY DEF Daemon!RegisterPrepare
  <1>2. task \in Daemon!RegisterTask /\ task.id \in Daemon!IdSet /\ phase # "down" /\ todo.catalog = {}
    BY <1>1, TaskIs
  <1>3. /\ task' \in Daemon!RegisterTask /\ task' # None /\ task'.at = "publish"
        /\ task'.id = task.id /\ task'.pull = task.pull
        /\ \A i \in Daemon!IdSet : \A at : Working(i, at)' <=> i = task.id /\ "publish" \in at
    BY <1>1, <1>2, MovedOn
  <1>4. (\A id \in Daemon!IdSet : Agree(id)) /\ prepared = ServedEpochs
    BY <1>1, <1>2, AllAgree
  <1>5. /\ EpochsOK' /\ AliasesOK' /\ ServedEpochs' = ServedEpochs
        /\ \A id \in Daemon!IdSet : Agree(id)' = Agree(id)
    BY <1>1, SameTables
  <1>6. DaemonTypeOK'
    BY <1>1, <1>3 DEF DaemonInv, DaemonTypeOK, TaskRecord
  <1>7. LockOK'
    BY <1>1, <1>2, <1>3 DEF LockOK
  <1>8. CatalogOK'
    BY <1>1, <1>2, <1>3, <1>4, <1>5 DEF CatalogOK
  <1>9. EngineOK'
    <2>1. {i \in Daemon!IdSet : Working(i, {"publish", "insert"})'} = {task.id}
      BY <1>2, <1>3
    <2> QED  BY <1>1, <1>4, <1>5, <2>1 DEF EngineOK
  <1>10. PullsOK'
    BY <1>1, <1>3 DEF DaemonInv, PullsOK, Daemon!OperationsFollow
  <1> QED  BY <1>5, <1>6, <1>7, <1>8, <1>9, <1>10 DEF DaemonInv

LEMMA RegisterPublishKeeps ==
    ASSUME Daemon!LifecycleAssumption, DaemonInv, Daemon!RegisterPublish
    PROVE  DaemonInv'
  <1>1. /\ task # None /\ task.at = "publish" /\ task' = [task EXCEPT !.at = "insert"]
        /\ catalog' = [catalog EXCEPT ![task.id] = Daemon!NewRecord]
        /\ operations' = IF task.pull = None THEN operations
                         ELSE [operations EXCEPT ![task.pull] = "complete"]
        /\ served' = served /\ prepared' = prepared
        /\ next_epoch' = next_epoch /\ pull' = pull /\ phase' = phase /\ todo' = todo
    BY DEF Daemon!RegisterPublish
  <1>2. /\ task \in Daemon!RegisterTask /\ task.id \in Daemon!IdSet /\ phase # "down" /\ todo.catalog = {}
        /\ task.revision \in Revisions /\ task.aliases \in SUBSET Aliases /\ next_epoch \in Nat
        /\ task.pull \in Pulls \cup {None}
    BY <1>1, TaskIs DEF DaemonInv, DaemonTypeOK
  <1>3. /\ task' \in Daemon!RegisterTask /\ task' # None /\ task'.at = "insert"
        /\ task'.id = task.id /\ task'.pull = task.pull /\ task'.revision = task.revision
        /\ \A i \in Daemon!IdSet : \A at : Working(i, at)' <=> i = task.id /\ "insert" \in at
    BY <1>1, <1>2, MovedOn
  <1>4. PICK r : r = Daemon!NewRecord
    OBVIOUS
  <1>5. r \in Daemon!Record /\ r # None /\ r.epoch = next_epoch /\ r.revision = task.revision
    BY <1>2, <1>4 DEF Daemon!NewRecord, Daemon!Record, Daemon!LifecycleAssumption
  <1>6. /\ catalog' \in [Daemon!IdSet -> Daemon!Record \cup {None}] /\ catalog'[task.id] = r
        /\ \A j \in Daemon!IdSet : j # task.id => catalog'[j] = catalog[j]
    BY <1>1, <1>2, <1>4, <1>5 DEF DaemonInv, DaemonTypeOK
  <1>7. \A j \in Daemon!IdSet : Agree(j)
    BY <1>1, <1>2 DEF DaemonInv, CatalogOK, Working
  <1>8. operations' \in [Pulls -> {"none", "running", "complete", "failed"}]
    BY <1>1, <1>2 DEF DaemonInv, DaemonTypeOK
  <1>9. DaemonTypeOK'
    BY <1>1, <1>3, <1>6, <1>8 DEF DaemonInv, DaemonTypeOK, TaskRecord
  <1>10. LockOK'
    BY <1>1, <1>2, <1>3 DEF LockOK
  <1>11. CatalogOK'
    <2> SUFFICES ASSUME NEW j \in Daemon!IdSet
                 PROVE  IF j = task.id
                        THEN catalog'[j] # None /\ catalog'[j].revision = task'.revision
                             /\ catalog'[j].epoch = next_epoch'
                        ELSE Agree(j)'
      BY <1>1, <1>2, <1>3 DEF CatalogOK
    <2> QED  BY <1>1, <1>3, <1>5, <1>6, <1>7 DEF Agree
  <1>12. \A j \in Daemon!IdSet : j # task.id /\ catalog[j] # None => catalog[j].epoch # next_epoch
    BY <1>2, <1>7, RecordIs DEF Agree, DaemonInv, EpochsOK
  <1>13. EpochsOK' /\ AliasesOK'
    <2>1. \A i, j \in Daemon!IdSet : i # j /\ catalog'[i] # None /\ catalog'[j] # None
                                     => catalog'[i].epoch # catalog'[j].epoch
      BY <1>5, <1>6, <1>12 DEF DaemonInv, EpochsOK
    <2> QED  BY <1>1, <2>1 DEF DaemonInv, EpochsOK, AliasesOK, Daemon!EpochsDistinct
  <1>14. EngineOK'
    <2>1. {i \in Daemon!IdSet : Working(i, {"publish", "insert"})'} = {task.id}
      BY <1>2, <1>3
    <2>2. {i \in Daemon!IdSet : Working(i, {"publish", "insert"})} = {task.id}
      BY <1>1, <1>2 DEF Working
    <2>3. prepared = ServedEpochs \cup {<<task.id, next_epoch>>} /\ ServedEpochs' = ServedEpochs
      BY <1>1, <1>2, <2>2 DEF DaemonInv, EngineOK, ServedEpochs
    <2> QED  BY <1>1, <2>1, <2>3 DEF EngineOK
  <1>15. PullsOK'
    <2>1. CASE task.pull = None
      BY <1>1, <1>3, <2>1 DEF DaemonInv, PullsOK, Daemon!OperationsFollow
    <2>2. CASE task.pull # None
      <3>1. task.pull \in Pulls /\ pull[task.pull] = "registering" /\ phase = "serving"
        BY <1>1, <1>2, <2>2 DEF DaemonInv, PullsOK
      <3>2. operations' = [operations EXCEPT ![task.pull] = "complete"]
        BY <1>1, <2>2
      <3>3. Daemon!OperationsFollow'
        BY <1>1, <3>1, <3>2 DEF DaemonInv, DaemonTypeOK, PullsOK, Daemon!OperationsFollow
      <3>4. \A p \in Pulls : pull'[p] \in {"fetching", "failing"} => operations'[p] = "running"
        BY <1>1, <3>1, <3>2 DEF DaemonInv, DaemonTypeOK, PullsOK
      <3>5. operations'[task.pull] = "complete"
        BY <3>1, <3>2 DEF DaemonInv, DaemonTypeOK
      <3> QED  BY <1>1, <1>3, <3>1, <3>3, <3>4, <3>5 DEF PullsOK
    <2> QED  BY <2>1, <2>2
  <1> QED  BY <1>9, <1>10, <1>11, <1>13, <1>14, <1>15 DEF DaemonInv

\* A registration that takes the lock.
LEMMA TakesLock ==
    ASSUME Daemon!LifecycleAssumption, DaemonInv, task = None, phase # "down", todo.catalog = {},
           task' \in Daemon!RegisterTask, task'.at = "register",
           catalog' = catalog, served' = served, next_epoch' = next_epoch, prepared' = prepared,
           phase' = phase, todo' = todo
    PROVE  LockOK' /\ EpochsOK' /\ AliasesOK' /\ CatalogOK' /\ EngineOK'
  <1>1. (\A id \in Daemon!IdSet : Agree(id)) /\ prepared = ServedEpochs
    BY AllAgree
  <1>2. /\ EpochsOK' /\ AliasesOK' /\ ServedEpochs' = ServedEpochs
        /\ \A id \in Daemon!IdSet : Agree(id)' = Agree(id)
    BY SameTables
  <1>3. LockOK'
    BY DEF LockOK, Working
  <1>4. CatalogOK' /\ EngineOK'
    BY <1>1, <1>2 DEF CatalogOK, EngineOK, Working
  <1> QED  BY <1>2, <1>3, <1>4

LEMMA RegisterDeclaredKeeps ==
    ASSUME Daemon!LifecycleAssumption, DaemonInv, Daemon!RegisterDeclared
    PROVE  DaemonInv'
  <1>1. /\ phase = "starting" /\ task = None /\ todo.catalog = {} /\ todo.declared < Len(Declared)
        /\ catalog' = catalog /\ operations' = operations /\ served' = served
        /\ next_epoch' = next_epoch /\ prepared' = prepared /\ pull' = pull
        /\ phase' = phase /\ todo' = todo
    BY DEF Daemon!RegisterDeclared
  <1>2. PICK d : d = Declared[todo.declared + 1]
    OBVIOUS
  <1>3. d \in Daemon!IdSet \X Revisions \X SUBSET Aliases
    <2>1. todo.declared \in Nat
      BY DEF DaemonInv, DaemonTypeOK
    <2> QED  BY <1>1, <1>2, <2>1 DEF Daemon!LifecycleAssumption
  <1>4. task' = [id |-> d[1], revision |-> d[2], aliases |-> d[3], pull |-> None, at |-> "register"]
    BY <1>2 DEF Daemon!RegisterDeclared
  <1>5. task' \in Daemon!RegisterTask /\ task'.at = "register" /\ task'.pull = None
    BY <1>3, <1>4 DEF Daemon!RegisterTask
  <1>6. LockOK' /\ EpochsOK' /\ AliasesOK' /\ CatalogOK' /\ EngineOK'
    BY <1>1, <1>5, TakesLock
  <1>7. DaemonTypeOK'
    BY <1>1, <1>5 DEF DaemonInv, DaemonTypeOK, TaskRecord
  <1>8. PullsOK'
    BY <1>1, <1>5 DEF DaemonInv, PullsOK, Daemon!OperationsFollow
  <1> QED  BY <1>6, <1>7, <1>8 DEF DaemonInv

LEMMA PullRegisterKeeps ==
    ASSUME Daemon!LifecycleAssumption, DaemonInv, NEW p \in Pulls, NEW id \in Daemon!IdSet,
           NEW revision \in Revisions, Daemon!PullRegister(p, id, revision)
    PROVE  DaemonInv'
  <1>1. /\ pull[p] = "fetching" /\ task = None
        /\ task' = [id |-> id, revision |-> revision, aliases |-> {}, pull |-> p, at |-> "register"]
        /\ pull' = [pull EXCEPT ![p] = "registering"]
        /\ catalog' = catalog /\ operations' = operations /\ served' = served
        /\ next_epoch' = next_epoch /\ prepared' = prepared /\ phase' = phase /\ todo' = todo
    BY DEF Daemon!PullRegister
  <1>2. phase = "serving" /\ todo.catalog = {} /\ operations[p] = "running"
    BY <1>1 DEF DaemonInv, PullsOK, LockOK
  <1>3. task' \in Daemon!RegisterTask /\ task'.at = "register" /\ task'.pull = p
    BY <1>1 DEF Daemon!RegisterTask
  <1>4. LockOK' /\ EpochsOK' /\ AliasesOK' /\ CatalogOK' /\ EngineOK'
    BY <1>1, <1>2, <1>3, TakesLock
  <1>5. DaemonTypeOK'
    BY <1>1, <1>3 DEF DaemonInv, DaemonTypeOK, TaskRecord
  <1>6. Daemon!OperationsFollow'
    BY <1>1, <1>2 DEF DaemonInv, DaemonTypeOK, PullsOK, Daemon!OperationsFollow
  <1>7. (\A q \in Pulls : pull'[q] \in {"fetching", "failing"} => operations'[q] = "running")
        /\ pull'[p] = "registering"
    BY <1>1 DEF DaemonInv, DaemonTypeOK, PullsOK
  <1>8. PullsOK'
    BY <1>1, <1>2, <1>3, <1>6, <1>7 DEF PullsOK
  <1> QED  BY <1>4, <1>5, <1>8 DEF DaemonInv

LEMMA AliasKeeps ==
    ASSUME Daemon!LifecycleAssumption, DaemonInv, NEW id \in Daemon!IdSet, NEW alias \in Aliases,
           Daemon!Alias(id, alias)
    PROVE  DaemonInv'
  <1>1. /\ phase = "serving" /\ task = None /\ served[id] # None
        /\ catalog' = [catalog EXCEPT ![id] = [served[id] EXCEPT !.aliases = @ \cup {alias}]]
        /\ task' = [id |-> id, alias |-> alias, pull |-> None, at |-> "alias"]
        /\ operations' = operations /\ served' = served
        /\ next_epoch' = next_epoch /\ prepared' = prepared /\ pull' = pull
        /\ phase' = phase /\ todo' = todo
    BY DEF Daemon!Alias, Daemon!AtRest, Daemon!Serving
  <1>2. todo.catalog = {}
    BY <1>1 DEF DaemonInv, LockOK
  <1>3. (\A j \in Daemon!IdSet : Agree(j)) /\ prepared = ServedEpochs
    BY <1>1, <1>2, AllAgree
  <1>4. PICK r : r = [served[id] EXCEPT !.aliases = @ \cup {alias}]
    OBVIOUS
  <1>5. served[id] \in Daemon!Record /\ None \notin Daemon!Record
    BY <1>1, RecordIs
  <1>6. r \in Daemon!Record /\ r # None /\ r.epoch = served[id].epoch /\ r.revision = served[id].revision
    BY <1>4, <1>5 DEF Daemon!Record
  <1>7. /\ catalog' \in [Daemon!IdSet -> Daemon!Record \cup {None}] /\ catalog'[id] = r
        /\ \A j \in Daemon!IdSet : j # id => catalog'[j] = catalog[j]
    BY <1>1, <1>4, <1>6 DEF DaemonInv, DaemonTypeOK
  <1>8. /\ task' \in Daemon!AliasTask /\ task'.id = id /\ task'.at = "alias" /\ task'.pull = None
    BY <1>1 DEF Daemon!AliasTask
  <1>9. DaemonTypeOK'
    BY <1>1, <1>7, <1>8 DEF DaemonInv, DaemonTypeOK, TaskRecord
  <1>10. LockOK'
    BY <1>1, <1>2, <1>8 DEF LockOK, Working
  <1>11. \A j \in Daemon!IdSet : Agree(j)'
    BY <1>1, <1>3, <1>6, <1>7 DEF Agree
  <1>12. CatalogOK' /\ EngineOK'
    BY <1>1, <1>2, <1>3, <1>8, <1>11 DEF CatalogOK, EngineOK, Working, ServedEpochs
  <1>13. EpochsOK' /\ AliasesOK'
    <2>1. \A j \in Daemon!IdSet : catalog'[j] # None => catalog[j] # None /\ catalog'[j].epoch = catalog[j].epoch
      BY <1>1, <1>3, <1>6, <1>7 DEF Agree
    <2>2. \A i, j \in Daemon!IdSet : i # j /\ catalog'[i] # None /\ catalog'[j] # None
                                     => catalog'[i].epoch # catalog'[j].epoch
      BY <2>1 DEF DaemonInv, EpochsOK
    <2> QED  BY <1>1, <2>2 DEF DaemonInv, EpochsOK, AliasesOK, Daemon!EpochsDistinct
  <1>14. PullsOK'
    BY <1>1, <1>8 DEF DaemonInv, PullsOK, Daemon!OperationsFollow
  <1> QED  BY <1>9, <1>10, <1>12, <1>13, <1>14 DEF DaemonInv

LEMMA RemoveModelKeeps ==
    ASSUME Daemon!LifecycleAssumption, DaemonInv, NEW id \in Daemon!IdSet, Daemon!RemoveModel(id)
    PROVE  DaemonInv'
  <1>1. /\ phase = "serving" /\ task = None /\ served[id] # None
        /\ catalog' = [catalog EXCEPT ![id] = None]
        /\ task' = [id |-> id, pull |-> None, at |-> "remove"]
        /\ operations' = operations /\ served' = served
        /\ next_epoch' = next_epoch /\ prepared' = prepared /\ pull' = pull
        /\ phase' = phase /\ todo' = todo
    BY DEF Daemon!RemoveModel, Daemon!AtRest, Daemon!Serving
  <1>2. todo.catalog = {}
    BY <1>1 DEF DaemonInv, LockOK
  <1>3. (\A j \in Daemon!IdSet : Agree(j)) /\ prepared = ServedEpochs
    BY <1>1, <1>2, AllAgree
  <1>4. /\ catalog' \in [Daemon!IdSet -> Daemon!Record \cup {None}] /\ catalog'[id] = None
        /\ \A j \in Daemon!IdSet : j # id => catalog'[j] = catalog[j]
    BY <1>1 DEF DaemonInv, DaemonTypeOK
  <1>5. task' \in Daemon!RemoveTask /\ task'.id = id /\ task'.at = "remove" /\ task'.pull = None
    BY <1>1 DEF Daemon!RemoveTask
  <1>6. task' # None
    BY <1>5 DEF Daemon!LifecycleAssumption
  <1>7. DaemonTypeOK'
    BY <1>1, <1>4, <1>5 DEF DaemonInv, DaemonTypeOK, TaskRecord
  <1>8. LockOK'
    BY <1>1, <1>2, <1>5 DEF LockOK, Working
  <1>9. CatalogOK'
    <2> SUFFICES ASSUME NEW j \in Daemon!IdSet
                 PROVE  IF j = id THEN catalog'[j] = None ELSE Agree(j)'
      BY <1>1, <1>2, <1>5, <1>6 DEF CatalogOK, Working
    <2> QED  BY <1>1, <1>3, <1>4 DEF Agree
  <1>10. EngineOK'
    BY <1>1, <1>3, <1>5 DEF EngineOK, Working, ServedEpochs
  <1>11. EpochsOK' /\ AliasesOK'
    BY <1>1, <1>4 DEF DaemonInv, EpochsOK, AliasesOK, Daemon!EpochsDistinct
  <1>12. PullsOK'
    BY <1>1, <1>5 DEF DaemonInv, PullsOK, Daemon!OperationsFollow
  <1> QED  BY <1>7, <1>8, <1>9, <1>10, <1>11, <1>12 DEF DaemonInv

\* The start registers what the catalog has: no other model has its epoch.
LEMMA RegisterFromCatalogKeeps ==
    ASSUME Daemon!LifecycleAssumption, DaemonInv, Daemon!RegisterFromCatalog
    PROVE  DaemonInv'
  <1>1. PICK id \in todo.catalog :
          /\ served' = Daemon!Entered(served, id, catalog[id])
          /\ next_epoch' = Daemon!EpochAfter(catalog[id].epoch)
          /\ prepared' = Daemon!Committed(id, catalog[id].epoch)
          /\ todo' = [todo EXCEPT !.catalog = @ \ {id}]
    BY DEF Daemon!RegisterFromCatalog
  <1>2. /\ phase = "starting" /\ task = None
        /\ catalog' = catalog /\ operations' = operations /\ task' = task /\ pull' = pull
        /\ phase' = phase
    BY DEF Daemon!RegisterFromCatalog
  <1>3. id \in Daemon!IdSet /\ next_epoch \in Nat
    BY DEF DaemonInv, DaemonTypeOK
  <1>4. catalog[id] # None /\ served[id] = None
    BY <1>2, <1>3 DEF DaemonInv, CatalogOK
  <1>5. PICK r : r = catalog[id]
    OBVIOUS
  <1>6. r \in Daemon!Record /\ r # None /\ r.epoch \in Nat
    BY <1>3, <1>4, <1>5, RecordIs
  <1>7. next_epoch' \in Nat /\ next_epoch' >= next_epoch /\ r.epoch < next_epoch'
    BY <1>1, <1>3, <1>5, <1>6 DEF Daemon!EpochAfter
  <1>8. ASSUME NEW j \in Daemon!IdSet, j \notin todo.catalog  PROVE Agree(j)
    BY <1>2, <1>8 DEF DaemonInv, CatalogOK, Working
  <1>9. \A j \in todo.catalog : j \in Daemon!IdSet /\ catalog[j] # None /\ served[j] = None
    BY <1>2 DEF DaemonInv, DaemonTypeOK, CatalogOK
  <1>10. \A j \in Daemon!IdSet : j # id /\ served[j] # None => served[j].epoch # r.epoch
    BY <1>3, <1>4, <1>5, <1>8, <1>9 DEF DaemonInv, EpochsOK, Agree
  <1>11. /\ served' \in [Daemon!IdSet -> Daemon!Record \cup {None}] /\ served'[id] = r
         /\ AliasesOK' /\ Daemon!EpochsDistinct'
         /\ \A j \in Daemon!IdSet : served'[j] # None => served'[j].epoch < next_epoch'
         /\ \A j \in Daemon!IdSet : j # id =>
              /\ served'[j] = None <=> served[j] = None
              /\ served[j] # None => /\ served'[j].revision = served[j].revision
                                     /\ served'[j].epoch = served[j].epoch
    BY <1>1, <1>3, <1>5, <1>6, <1>7, <1>10, EnteredOK
  <1>12. prepared' = ServedEpochs'
    <2>1. PICK extra : extra = {}
      OBVIOUS
    <2>2. prepared = ServedEpochs \cup extra /\ \A p \in extra : p[1] = id
      BY <1>2, <2>1 DEF DaemonInv, EngineOK, Working
    <2>3. served'[id] # None /\ served'[id] = catalog[id]
      BY <1>5, <1>6, <1>11
    <2>4. Daemon!Committed(id, served'[id].epoch) = ServedEpochs'
      BY <1>3, <1>11, <2>2, <2>3, CommittedIs
    <2> QED  BY <1>1, <2>3, <2>4
  <1>13. todo' \in [catalog : SUBSET Daemon!IdSet, declared : Nat] /\ todo'.catalog = todo.catalog \ {id}
    BY <1>1 DEF DaemonInv, DaemonTypeOK
  <1>14. DaemonTypeOK'
    BY <1>2, <1>7, <1>11, <1>13 DEF DaemonInv, DaemonTypeOK
  <1>15. LockOK' /\ PullsOK'
    BY <1>2 DEF DaemonInv, LockOK, Working, PullsOK, Daemon!OperationsFollow
  <1>16. EpochsOK'
    BY <1>2, <1>11 DEF DaemonInv, EpochsOK
  <1>17. CatalogOK'
    <2> SUFFICES ASSUME NEW j \in Daemon!IdSet
                 PROVE  IF j \in todo'.catalog THEN catalog'[j] # None /\ served'[j] = None
                        ELSE Agree(j)'
      BY <1>2 DEF CatalogOK, Working
    <2>1. CASE j \in todo'.catalog
      BY <1>2, <1>9, <1>11, <1>13, <2>1
    <2>2. CASE j = id
      BY <1>2, <1>5, <1>6, <1>11, <1>13, <2>2 DEF Agree
    <2>3. CASE j # id /\ j \notin todo'.catalog
      <3>1. Agree(j)
        BY <1>8, <1>13, <2>3
      <3> QED  BY <1>2, <1>11, <2>3, <3>1 DEF Agree
    <2> QED  BY <1>13, <2>1, <2>2, <2>3
  <1>18. EngineOK'
    BY <1>2, <1>12 DEF EngineOK, Working
  <1> QED  BY <1>11, <1>14, <1>15, <1>16, <1>17, <1>18 DEF DaemonInv

LEMMA StartKeeps ==
    ASSUME Daemon!LifecycleAssumption, DaemonInv, Daemon!Start
    PROVE  DaemonInv'
  <1>1. /\ phase = "down" /\ phase' = "starting"
        /\ operations' = [p \in Pulls |-> IF operations[p] = "running" THEN "failed" ELSE operations[p]]
        /\ served' = [id \in Daemon!IdSet |-> None] /\ next_epoch' = 1 /\ prepared' = {}
        /\ todo' = [catalog |-> {id \in Daemon!IdSet : catalog[id] # None}, declared |-> 0]
        /\ catalog' = catalog /\ task' = task /\ pull' = pull
    BY DEF Daemon!Start
  <1>2. task = None
    BY <1>1 DEF DaemonInv, LockOK
  <1>3. DaemonTypeOK'
    BY <1>1 DEF DaemonInv, DaemonTypeOK
  <1>4. LockOK' /\ AliasesOK'
    BY <1>1, <1>2 DEF LockOK, AliasesOK, Working
  <1>5. EpochsOK'
    BY <1>1 DEF DaemonInv, EpochsOK, Daemon!EpochsDistinct
  <1>6. CatalogOK'
    BY <1>1, <1>2 DEF CatalogOK, Working, Agree
  <1>7. EngineOK'
    BY <1>1, <1>2 DEF EngineOK, Working, ServedEpochs
  <1>8. PullsOK'
    <2>1. \A p \in Pulls : pull'[p] = pull[p] /\ pull[p] \in {"none", "gone"}
                           /\ (operations'[p] = "complete" => operations[p] = "complete")
      BY <1>1 DEF DaemonInv, DaemonTypeOK, PullsOK
    <2> QED  BY <1>1, <1>2, <2>1 DEF DaemonInv, PullsOK, Daemon!OperationsFollow
  <1> QED  BY <1>3, <1>4, <1>5, <1>6, <1>7, <1>8 DEF DaemonInv

\* The process ends: what it had in memory says nothing until the next start.
LEMMA EndKeeps ==
    ASSUME Daemon!LifecycleAssumption, DaemonInv, Daemon!StartFails \/ Daemon!Crash
    PROVE  DaemonInv'
  <1>1. /\ phase' = "down" /\ todo' = Daemon!NothingToDo /\ task' = None
        /\ catalog' = catalog /\ operations' = operations /\ served' = served
        /\ next_epoch' = next_epoch /\ prepared' = prepared
    BY DEF Daemon!StartFails, Daemon!Crash
  <1>2. \A p \in Pulls : pull'[p] = IF pull[p] = "none" THEN "none" ELSE "gone"
    <2>1. CASE Daemon!StartFails
      BY <2>1 DEF Daemon!StartFails, DaemonInv, PullsOK
    <2>2. CASE Daemon!Crash
      BY <2>2 DEF Daemon!Crash
    <2> QED  BY <2>1, <2>2
  <1>3. pull' \in [Pulls -> {"none", "gone"}]
    <2>1. CASE Daemon!StartFails
      BY <2>1 DEF Daemon!StartFails, DaemonInv, DaemonTypeOK, PullsOK
    <2>2. CASE Daemon!Crash
      BY <2>2 DEF Daemon!Crash
    <2> QED  BY <2>1, <2>2
  <1>4. Daemon!NothingToDo \in [catalog : SUBSET Daemon!IdSet, declared : Nat]
    <2>1. Len(Declared) \in Nat
      BY DEF Daemon!LifecycleAssumption
    <2> QED  BY <2>1 DEF Daemon!NothingToDo
  <1>5. DaemonTypeOK'
    BY <1>1, <1>3, <1>4 DEF DaemonInv, DaemonTypeOK
  <1>6. LockOK' /\ CatalogOK' /\ EngineOK'
    BY <1>1 DEF LockOK, CatalogOK, EngineOK, Working
  <1>7. EpochsOK' /\ AliasesOK'
    BY <1>1, SameTables
  <1>8. PullsOK'
    BY <1>1, <1>2, <1>3 DEF DaemonInv, PullsOK, Daemon!OperationsFollow
  <1> QED  BY <1>5, <1>6, <1>7, <1>8 DEF DaemonInv

LEMMA ServeKeeps ==
    ASSUME Daemon!LifecycleAssumption, DaemonInv, Daemon!Serve
    PROVE  DaemonInv'
  <1>1. /\ phase = "starting" /\ phase' = "serving" /\ todo.catalog = {} /\ task = None
        /\ catalog' = catalog /\ operations' = operations /\ served' = served
        /\ next_epoch' = next_epoch /\ prepared' = prepared /\ task' = task /\ pull' = pull
        /\ todo' = todo
    BY DEF Daemon!Serve, Daemon!NothingToDo
  <1>2. (\A id \in Daemon!IdSet : Agree(id)) /\ prepared = ServedEpochs
    BY <1>1, AllAgree
  <1>3. /\ EpochsOK' /\ AliasesOK' /\ ServedEpochs' = ServedEpochs
        /\ \A id \in Daemon!IdSet : Agree(id)' = Agree(id)
    BY <1>1, SameTables
  <1>4. DaemonTypeOK' /\ LockOK' /\ PullsOK'
    BY <1>1 DEF DaemonInv, DaemonTypeOK, LockOK, Working, PullsOK, Daemon!OperationsFollow
  <1>5. CatalogOK' /\ EngineOK'
    BY <1>1, <1>2, <1>3 DEF CatalogOK, EngineOK, Working
  <1> QED  BY <1>3, <1>4, <1>5 DEF DaemonInv

\* Pulls outside of the lock.
LEMMA PullsKeep ==
    ASSUME Daemon!LifecycleAssumption, DaemonInv, NEW p \in Pulls,
           \/ Daemon!PullBegin(p) \/ Daemon!PullFetchFails(p) \/ Daemon!PullFailed(p)
           \/ Daemon!PullUnrecorded(p) \/ Daemon!PullSucceeds(p)
    PROVE  DaemonInv'
  <1>1. /\ catalog' = catalog /\ served' = served /\ next_epoch' = next_epoch
        /\ prepared' = prepared /\ task' = task /\ phase' = phase /\ todo' = todo
    BY DEF Daemon!PullBegin, Daemon!PullFetchFails, Daemon!PullFailed, Daemon!PullUnrecorded,
           Daemon!PullSucceeds
  <1>2. LockOK' /\ CatalogOK' /\ EngineOK'
    BY <1>1 DEF DaemonInv, LockOK, CatalogOK, EngineOK, Working, Agree, ServedEpochs
  <1>3. EpochsOK' /\ AliasesOK'
    BY <1>1, SameTables
  <1>4. DaemonTypeOK' /\ PullsOK'
    <2>1. CASE Daemon!PullBegin(p)
      <3>1. /\ phase = "serving" /\ pull[p] = "none" /\ operations' = [operations EXCEPT ![p] = "running"]
            /\ pull' = [pull EXCEPT ![p] = "fetching"]
        BY <2>1 DEF Daemon!PullBegin, Daemon!Serving
      <3> QED  BY <1>1, <3>1 DEF DaemonInv, DaemonTypeOK, PullsOK, Daemon!OperationsFollow
    <2>2. CASE Daemon!PullFetchFails(p)
      <3>1. /\ pull[p] = "fetching" /\ operations' = operations
            /\ pull' = [pull EXCEPT ![p] = "failing"]
        BY <2>2 DEF Daemon!PullFetchFails
      <3> QED  BY <1>1, <3>1 DEF DaemonInv, DaemonTypeOK, PullsOK, Daemon!OperationsFollow
    <2>3. CASE Daemon!PullFailed(p)
      <3>1. /\ pull[p] = "failing" /\ pull' = [pull EXCEPT ![p] = "failed"]
            /\ operations' = [operations EXCEPT ![p] = IF @ = "running" THEN "failed" ELSE @]
        BY <2>3 DEF Daemon!PullFailed
      <3>2. operations[p] = "running"
        BY <3>1 DEF DaemonInv, PullsOK
      <3>3. operations' = [operations EXCEPT ![p] = "failed"]
        BY <3>1, <3>2
      <3> QED  BY <1>1, <3>1, <3>3 DEF DaemonInv, DaemonTypeOK, PullsOK, Daemon!OperationsFollow
    <2>4. CASE Daemon!PullSucceeds(p)
      <3>1. /\ pull[p] = "registered" /\ operations' = operations
            /\ pull' = [pull EXCEPT ![p] = "success"]
        BY <2>4 DEF Daemon!PullSucceeds
      <3> QED  BY <1>1, <3>1 DEF DaemonInv, DaemonTypeOK, PullsOK, Daemon!OperationsFollow
    <2>5. CASE Daemon!PullUnrecorded(p)
      <3>1. /\ pull[p] = "failing" /\ operations' = operations
            /\ pull' = [pull EXCEPT ![p] = "unrecorded"]
        BY <2>5 DEF Daemon!PullUnrecorded
      <3> QED  BY <1>1, <3>1 DEF DaemonInv, DaemonTypeOK, PullsOK, Daemon!OperationsFollow
    <2> QED  BY <2>1, <2>2, <2>3, <2>4, <2>5
  <1> QED  BY <1>2, <1>3, <1>4 DEF DaemonInv

LEMMA DaemonInit == ASSUME Daemon!LifecycleAssumption, Daemon!Init PROVE DaemonInv
  <1>1. Len(Declared) \in Nat
    BY DEF Daemon!LifecycleAssumption
  <1>2. DaemonTypeOK
    BY <1>1 DEF Daemon!Init, Daemon!NothingToDo, DaemonTypeOK
  <1>3. LockOK /\ CatalogOK /\ EngineOK
    BY DEF Daemon!Init, LockOK, CatalogOK, EngineOK, Working
  <1>4. EpochsOK /\ AliasesOK
    BY DEF Daemon!Init, EpochsOK, AliasesOK, Daemon!EpochsDistinct
  <1>5. PullsOK
    BY DEF Daemon!Init, PullsOK, Daemon!OperationsFollow
  <1> QED  BY <1>2, <1>3, <1>4, <1>5 DEF DaemonInv

LEMMA DaemonNext ==
    ASSUME Daemon!LifecycleAssumption, DaemonInv, [Daemon!Next]_(Daemon!vars)
    PROVE  DaemonInv'
  <1>1. CASE UNCHANGED Daemon!vars
    BY <1>1 DEF Daemon!vars, DaemonInv, DaemonTypeOK, LockOK, EpochsOK, AliasesOK, CatalogOK, EngineOK,
                PullsOK, Working, Agree, ServedEpochs, Daemon!EpochsDistinct, Daemon!OperationsFollow
  <1>2. CASE Daemon!Start \/ Daemon!RegisterFromCatalog \/ Daemon!RegisterDeclared
             \/ Daemon!StartFails \/ Daemon!Serve \/ Daemon!Crash
    BY <1>2, StartKeeps, RegisterFromCatalogKeeps, RegisterDeclaredKeeps, EndKeeps, ServeKeeps
  <1>3. CASE Daemon!RegisterSame \/ Daemon!RegisterPrepare \/ Daemon!RegisterFails
             \/ Daemon!RegisterPublish \/ Daemon!RegisterPublishFails \/ Daemon!RegisterInsert
    BY <1>3, RegisterSameKeeps, RegisterPrepareKeeps, RegisterFailsKeeps, RegisterPublishKeeps,
       RegisterPublishFailsKeeps, RegisterInsertKeeps
  <1>4. ASSUME NEW p \in Pulls,
               \/ Daemon!PullBegin(p) \/ Daemon!PullFetchFails(p) \/ Daemon!PullFailed(p)
               \/ Daemon!PullUnrecorded(p) \/ Daemon!PullSucceeds(p)
        PROVE  DaemonInv'
    BY <1>4, PullsKeep
  <1>5. ASSUME NEW p \in Pulls, NEW id \in Daemon!IdSet, NEW revision \in Revisions,
               Daemon!PullRegister(p, id, revision)
        PROVE  DaemonInv'
    BY <1>5, PullRegisterKeeps
  <1>6. ASSUME NEW id \in Daemon!IdSet, NEW alias \in Aliases, Daemon!Alias(id, alias)
        PROVE  DaemonInv'
    BY <1>6, AliasKeeps
  <1>7. ASSUME NEW id \in Daemon!IdSet, Daemon!RemoveModel(id)  PROVE DaemonInv'
    BY <1>7, RemoveModelKeeps
  <1>8. CASE Daemon!AliasSwap \/ Daemon!RemoveRetire
    BY <1>8, AliasSwapKeeps, RemoveRetireKeeps
  <1> QED  BY <1>1, <1>2, <1>3, <1>4, <1>5, <1>6, <1>7, <1>8 DEF Daemon!Next

\* The inductive invariant of the models a daemon serves.
THEOREM DaemonInvariant == OperationsSpec => []DaemonInv
  <1> USE OperationsAssumption DEF OperationsAssumption
  <1>1. OperationsInit => DaemonInv
    BY DaemonInit DEF OperationsInit
  <1>2. DaemonInv /\ [OperationsNext]_operationsVars => DaemonInv'
    <2> SUFFICES ASSUME DaemonInv, [OperationsNext]_operationsVars PROVE DaemonInv'
      OBVIOUS
    <2>1. [Daemon!Next]_(Daemon!vars)
      BY DEF OperationsNext, CacheStep, DaemonStep, ResidencyStep, RecordsStep, operationsVars,
             daemonVars, Daemon!vars
    <2> QED  BY <2>1, DaemonNext
  <1> QED  BY <1>1, <1>2, PTL DEF OperationsSpec

\* However registrations, alias copies, failures and restarts follow each other, a name
\* means one model and an epoch one loaded revision; between operations the engine, the
\* catalog and what is served agree; and a pull's operation ends as the pull does.
THEOREM DaemonAlwaysConsistent == OperationsSpec => []DaemonIsConsistent
  <1> USE OperationsAssumption DEF OperationsAssumption
  <1>1. DaemonInv => DaemonIsConsistent
    <2> SUFFICES ASSUME DaemonInv PROVE DaemonIsConsistent
      OBVIOUS
    <2>1. Daemon!NamesAreUnique
      <3> SUFFICES ASSUME NEW alias \in Aliases
                   PROVE  Daemon!Cardinality({id \in Daemon!IdSet : served[id] # None
                                                                    /\ alias \in served[id].aliases}) <= 1
        BY DEF Daemon!NamesAreUnique
      <3>1. PICK S : S = {id \in Daemon!IdSet : served[id] # None /\ alias \in served[id].aliases}
        OBVIOUS
      <3>2. S = {} \/ \E i : S = {i}
        <4>1. \A i, j \in S : i = j
          BY <3>1 DEF DaemonInv, AliasesOK
        <4>2. ASSUME NEW i \in S  PROVE S = {i}
          BY <4>1
        <4> QED  BY <4>2
      <3>3. Cardinality(S) = 0 \/ Cardinality(S) = 1
        BY <3>2, FS_EmptySet, FS_Singleton
      <3>4. Daemon!Cardinality(S) = Cardinality(S)
        BY DEF Daemon!Cardinality, Cardinality
      <3>5. Daemon!Cardinality(S) <= 1
        BY <3>3, <3>4
      <3> QED  BY <3>1, <3>5
    <2>2. Daemon!EpochsDistinct /\ Daemon!OperationsFollow
      BY DEF DaemonInv, EpochsOK, PullsOK
    <2>3. Daemon!EngineFollows /\ Daemon!CatalogFollows
      <3> SUFFICES ASSUME phase = "serving", task = None
                   PROVE  /\ prepared = ServedEpochs
                          /\ \A id \in Daemon!IdSet : Agree(id)
        BY DEF Daemon!EngineFollows, Daemon!CatalogFollows, Daemon!AtRest, Daemon!Serving,
               ServedEpochs, Agree
      <3>1. todo.catalog = {} /\ phase # "down"
        BY DEF DaemonInv, LockOK
      <3> QED  BY <3>1, AllAgree
    <2> QED  BY <2>1, <2>2, <2>3 DEF DaemonIsConsistent
  <1> QED  BY <1>1, DaemonInvariant, PTL

-----------------------------------------------------------------------------
(* Residency: the inductive invariant.                                     *)

ModelRecord == [key : Keys, bytes : Nat, active : Int, sessions : Int, retiring : BOOLEAN,
                context_resident : BOOLEAN]

\* Where a thread refers to the model it has loaded
Holding == {"acquire", "begin", "quantum", "release", "release_failed", "released", "suspended",
            "drop", "dropped"}

ThreadRecord == [pc : Holding \cup {"idle", "look", "plan", "load"}, job : {"none", "start", "prepare"},
                 key : Keys \cup {<<>>}, target : Nat, victims : SUBSET Nat, bytes : Nat]

\* No model is smaller than the context it would free.
ModelsOK ==
    /\ models \in Seq(ModelRecord)
    /\ \A i \in DOMAIN models : models[i].bytes >= Context

\* An entry is the last model that was loaded for its key.
EntriesOK ==
    /\ entries \in [Keys -> Nat]
    /\ \A k \in Keys : entries[k] # 0 =>
          /\ entries[k] \in DOMAIN models
          /\ models[entries[k]].key = k
          /\ \A j \in DOMAIN models : models[j].key = k => j <= entries[k]

ProfileOK ==
    /\ profile \in [DOMAIN Weight -> Nat]
    /\ \A id \in DOMAIN Weight : profile[id] = 0 \/ profile[id] >= Context

\* What a thread knows is of its key.
ThreadOK(t) ==
    /\ thread[t].pc # "idle" => thread[t].key \in Keys
    /\ thread[t].pc \in {"plan", "load"} => thread[t].bytes >= Context
    /\ thread[t].pc = "load" => thread[t].victims \subseteq DOMAIN models
    /\ thread[t].pc \in Holding => /\ thread[t].target \in DOMAIN models
                                   /\ models[thread[t].target].key = thread[t].key

ThreadsOK ==
    /\ thread \in [Threads -> ThreadRecord]
    /\ \A t \in Threads : ThreadOK(t)

ResidencyTypeOK == ModelsOK /\ EntriesOK /\ ProfileOK /\ ThreadsOK /\ stray \in BOOLEAN

ResidencyInv == ResidencyTypeOK /\ RetiredIsDrained /\ BudgetsHold

-----------------------------------------------------------------------------
(* Residency: counts.                                                      *)

Users(i) == {t \in Threads : thread[t].target = i /\ InQuantum(t)}
Owners(i) == {t \in Threads : thread[t].target = i /\ HasSession(t)}

\* Only thread t moves.
Elsewhere(t) == \A u \in Threads : u # t => thread'[u] = thread[u]

\* The counters of the models follow what t leaves and what it enters.
Follows(t) ==
    \A i \in DOMAIN models :
        /\ models'[i].active = models[i].active
             - (IF thread[t].target = i /\ InQuantum(t) THEN 1 ELSE 0)
             + (IF thread'[t].target = i /\ InQuantum(t)' THEN 1 ELSE 0)
        /\ models'[i].sessions = models[i].sessions
             - (IF thread[t].target = i /\ HasSession(t) THEN 1 ELSE 0)
             + (IF thread'[t].target = i /\ HasSession(t)' THEN 1 ELSE 0)

LEMMA CountsAre ==
    CountsExact <=> \A i \in DOMAIN models : /\ models[i].active = Cardinality(Users(i))
                                             /\ models[i].sessions = Cardinality(Owners(i))
  BY DEF CountsExact, Users, Owners

LEMMA CountMoves ==
    ASSUME ResidencyAssumption, NEW t \in Threads, Elsewhere(t), NEW i
    PROVE  /\ Cardinality(Users(i)') = Cardinality(Users(i))
                - (IF thread[t].target = i /\ InQuantum(t) THEN 1 ELSE 0)
                + (IF thread'[t].target = i /\ InQuantum(t)' THEN 1 ELSE 0)
           /\ Cardinality(Owners(i)') = Cardinality(Owners(i))
                - (IF thread[t].target = i /\ HasSession(t) THEN 1 ELSE 0)
                + (IF thread'[t].target = i /\ HasSession(t)' THEN 1 ELSE 0)
  <1>1. IsFiniteSet(Threads)
    BY DEF ResidencyAssumption
  <1>2. /\ Users(i) \in SUBSET Threads /\ Users(i)' \in SUBSET Threads
        /\ Users(i) \ {t} = Users(i)' \ {t}
        /\ t \in Users(i) <=> thread[t].target = i /\ InQuantum(t)
        /\ t \in Users(i)' <=> thread'[t].target = i /\ InQuantum(t)'
    BY DEF Users, Elsewhere, InQuantum
  <1>3. /\ Owners(i) \in SUBSET Threads /\ Owners(i)' \in SUBSET Threads
        /\ Owners(i) \ {t} = Owners(i)' \ {t}
        /\ t \in Owners(i) <=> thread[t].target = i /\ HasSession(t)
        /\ t \in Owners(i)' <=> thread'[t].target = i /\ HasSession(t)'
    BY DEF Owners, Elsewhere, HasSession
  <1>4. Cardinality(Users(i)') = Cardinality(Users(i))
                - (IF t \in Users(i) THEN 1 ELSE 0) + (IF t \in Users(i)' THEN 1 ELSE 0)
    BY <1>1, <1>2, CountChange
  <1>5. Cardinality(Owners(i)') = Cardinality(Owners(i))
                - (IF t \in Owners(i) THEN 1 ELSE 0) + (IF t \in Owners(i)' THEN 1 ELSE 0)
    BY <1>1, <1>3, CountChange
  <1> QED  BY <1>2, <1>3, <1>4, <1>5

LEMMA CountsFollow ==
    ASSUME ResidencyAssumption, CountsExact, NEW t \in Threads, Elsewhere(t), Follows(t),
           DOMAIN models' = DOMAIN models
    PROVE  CountsExact'
  <1> SUFFICES ASSUME NEW i \in DOMAIN models
               PROVE  /\ models'[i].active = Cardinality(Users(i)')
                      /\ models'[i].sessions = Cardinality(Owners(i)')
    BY DEF CountsExact, Users, Owners
  <1>1. models[i].active = Cardinality(Users(i)) /\ models[i].sessions = Cardinality(Owners(i))
    BY CountsAre
  <1> QED  BY <1>1, CountMoves DEF Follows

\* A thread in a quantum, or with a session, is counted.
LEMMA Counted ==
    ASSUME ResidencyAssumption, CountsExact, NEW t \in Threads, thread[t].target \in DOMAIN models
    PROVE  /\ InQuantum(t) => models[thread[t].target].active # 0
           /\ HasSession(t) => models[thread[t].target].sessions # 0
           /\ models[thread[t].target].active \in Nat /\ models[thread[t].target].sessions \in Nat
  <1> DEFINE i == thread[t].target
  <1>1. models[i].active = Cardinality(Users(i)) /\ models[i].sessions = Cardinality(Owners(i))
    BY CountsAre
  <1>2. IsFiniteSet(Threads) /\ Users(i) \in SUBSET Threads /\ Owners(i) \in SUBSET Threads
    BY DEF ResidencyAssumption, Users, Owners
  <1>3. /\ Cardinality(Users(i)) \in Nat /\ Cardinality(Owners(i)) \in Nat
        /\ t \in Users(i) => Cardinality(Users(i)) # 0
        /\ t \in Owners(i) => Cardinality(Owners(i)) # 0
    BY <1>2, CountChange
  <1>4. /\ InQuantum(t) => t \in Users(i)
        /\ HasSession(t) => t \in Owners(i)
    BY DEF Users, Owners
  <1> HIDE DEF i
  <1>5. i = thread[t].target
    BY DEF i
  <1> QED  BY <1>1, <1>3, <1>4, <1>5

\* A model with a count has a thread that is counted.
LEMMA CountedBy ==
    ASSUME ResidencyAssumption, CountsExact, NEW i \in DOMAIN models, models[i].active # 0
    PROVE  \E t \in Threads : thread[t].target = i /\ InQuantum(t)
  <1>1. models[i].active = Cardinality(Users(i))
    BY CountsAre
  <1>2. Users(i) # {}
    BY <1>1, FS_EmptySet
  <1> QED  BY <1>2 DEF Users

-----------------------------------------------------------------------------
(* Residency: budgets.                                                     *)

MemorySum == SumOf(Memory({}), Resident)
WeightSum == SumOf(Weights, Resident)

LEMMA BudgetsAre == WithinBudgets <=> stray \/ (MemorySum <= Capacity /\ WeightSum <= Storage)
  BY DEF WithinBudgets, MemorySum, WeightSum, SumOf

\* The models that are resident are models, and finitely many.
LEMMA ResidentIs ==
    ASSUME ResidencyAssumption, EntriesOK
    PROVE  Resident \subseteq DOMAIN models /\ IsFiniteSet(Resident)
  <1>1. Resident \subseteq DOMAIN models
    BY DEF EntriesOK, Resident
  <1>2. IsFiniteSet({entries[k] : k \in Keys})
    <2>1. entries \in Surjection(Keys, {entries[k] : k \in Keys})
      BY DEF EntriesOK, Surjection
    <2> QED  BY <2>1, FS_Surjection DEF ResidencyAssumption
  <1> QED  BY <1>1, <1>2, FS_Subset DEF Resident

\* What a model takes is a natural number, spilled or not.
LEMMA TakesNat ==
    ASSUME ResidencyAssumption, ModelsOK, NEW spilled
    PROVE  \A i \in DOMAIN models :
              /\ Memory(spilled)[i] \in Nat /\ Weights[i] \in Nat /\ Stored(spilled)[i] \in Nat
              /\ Weights[i] <= Stored(spilled)[i]
  <1> SUFFICES ASSUME NEW i \in DOMAIN models
               PROVE  /\ Memory(spilled)[i] \in Nat /\ Weights[i] \in Nat /\ Stored(spilled)[i] \in Nat
                      /\ Weights[i] <= Stored(spilled)[i]
    OBVIOUS
  <1>1. models[i] \in ModelRecord /\ models[i].bytes >= Context
    BY DEF ModelsOK
  <1>2. models[i].bytes \in Nat /\ models[i].key \in Keys /\ Context \in Nat
    BY <1>1 DEF ModelRecord, ResidencyAssumption
  <1>3. Weight[models[i].key[1]] \in Nat
    BY <1>2 DEF ResidencyAssumption
  <1>4. Weights[i] = Weight[models[i].key[1]]
    BY DEF Weights
  <1>5. Memory(spilled)[i] \in {models[i].bytes, models[i].bytes - Context}
    BY <1>2 DEF Memory
  <1>6. Stored(spilled)[i] \in {Weights[i], Weights[i] + Context}
    BY <1>2, <1>3, <1>4 DEF Stored
  <1> QED  BY <1>1, <1>2, <1>3, <1>4, <1>5, <1>6

\* A step that unloads or spills keeps the budgets.
LEMMA BudgetsStay ==
    ASSUME ResidencyAssumption, ModelsOK, EntriesOK, ModelsOK', EntriesOK', WithinBudgets,
           stray => stray', Resident' \subseteq Resident,
           \A i \in DOMAIN models : /\ i \in DOMAIN models' /\ models'[i].key = models[i].key
                                    /\ models'[i].bytes = models[i].bytes
                                    /\ models'[i].context_resident => models[i].context_resident
    PROVE  WithinBudgets'
  <1>1. Resident \subseteq DOMAIN models /\ IsFiniteSet(Resident) /\ IsFiniteSet(Resident')
        /\ Resident' \in SUBSET Resident
    BY ResidentIs, FS_Subset
  <1>2. \A i \in DOMAIN models : Memory({})[i] \in Nat /\ Weights[i] \in Nat
    BY TakesNat
  <1>3. \A i \in DOMAIN models :
          /\ Memory({})'[i] \in Nat /\ Memory({})'[i] <= Memory({})[i]
          /\ Weights'[i] = Weights[i]
    <2> SUFFICES ASSUME NEW i \in DOMAIN models
                 PROVE  /\ Memory({})'[i] \in Nat /\ Memory({})'[i] <= Memory({})[i]
                        /\ Weights'[i] = Weights[i]
      OBVIOUS
    <2>1. i \in DOMAIN models' /\ models'[i].key = models[i].key /\ models'[i].bytes = models[i].bytes
          /\ (models'[i].context_resident => models[i].context_resident)
      OBVIOUS
    <2>2. models[i].bytes \in Nat /\ models[i].bytes >= Context /\ Context \in Nat
      <3>1. models[i] \in ModelRecord /\ models[i].bytes >= Context
        BY DEF ModelsOK
      <3> QED  BY <3>1 DEF ModelRecord, ResidencyAssumption
    <2>3. Weights'[i] = Weights[i]
      BY <2>1 DEF Weights
    <2>4. /\ Memory({})[i] = models[i].bytes - (IF models[i].context_resident THEN 0 ELSE Context)
          /\ Memory({})'[i] = models[i].bytes - (IF models'[i].context_resident THEN 0 ELSE Context)
      BY <2>1 DEF Memory
    <2> QED  BY <2>1, <2>2, <2>3, <2>4
  <1>4. SumOf(Memory({})', Resident') <= SumOf(Memory({}), Resident')
    <2>1. \A i \in Resident' : Memory({})'[i] \in Int /\ Memory({})[i] \in Int
                               /\ Memory({})'[i] <= Memory({})[i]
      BY <1>1, <1>2, <1>3
    <2> QED  BY <1>1, <2>1, SumOrdered
  <1>5. SumOf(Memory({}), Resident') <= SumOf(Memory({}), Resident)
    <2>1. \A i \in Resident : Memory({})[i] \in Nat
      BY <1>1, <1>2
    <2> QED  BY <1>1, <2>1, SumMonotone
  <1>6. SumOf(Weights', Resident') = SumOf(Weights, Resident')
    <2>1. \A i \in Resident' : Weights'[i] \in Int /\ Weights'[i] = Weights[i]
      BY <1>1, <1>2, <1>3
    <2> QED  BY <1>1, <2>1, SumSame
  <1>7. SumOf(Weights, Resident') <= SumOf(Weights, Resident)
    <2>1. \A i \in Resident : Weights[i] \in Nat
      BY <1>1, <1>2
    <2> QED  BY <1>1, <2>1, SumMonotone
  <1>8. /\ SumOf(Memory({})', Resident') \in Int /\ SumOf(Memory({}), Resident') \in Int
        /\ SumOf(Memory({}), Resident) \in Int
        /\ SumOf(Weights, Resident') \in Int /\ SumOf(Weights, Resident) \in Int
    <2>1. /\ \A i \in Resident : Memory({})[i] \in Int /\ Weights[i] \in Int
          /\ \A i \in Resident' : Memory({})[i] \in Int /\ Weights[i] \in Int /\ Memory({})'[i] \in Int
      BY <1>1, <1>2, <1>3
    <2> QED  BY <1>1, <2>1, SumRound
  <1>9. Capacity \in Nat /\ Storage \in Nat
    BY DEF ResidencyAssumption
  <1>10. MemorySum <= Capacity /\ WeightSum <= Storage => MemorySum' <= Capacity /\ WeightSum' <= Storage
    BY <1>4, <1>5, <1>6, <1>7, <1>8, <1>9 DEF MemorySum, WeightSum
  <1>11. stray' \/ (MemorySum' <= Capacity /\ WeightSum' <= Storage)
    BY <1>10, BudgetsAre
  <1> QED  BY <1>11 DEF WithinBudgets, MemorySum, WeightSum, SumOf, MapThenSumSet, MapThenFoldSet

-----------------------------------------------------------------------------
(* Residency: a step of one thread that unloads nothing.                   *)

\* Nothing that identifies a model changes.
ModelsStay ==
    /\ DOMAIN models' = DOMAIN models
    /\ \A i \in DOMAIN models : /\ models'[i].key = models[i].key
                                /\ models'[i].bytes = models[i].bytes
                                /\ models'[i].retiring = models[i].retiring

LEMMA ThreadStep ==
    ASSUME ResidencyAssumption, ResidencyInv, NEW t \in Threads,
           thread' \in [Threads -> ThreadRecord], Elsewhere(t), ThreadOK(t)', ProfileOK',
           models' \in Seq(ModelRecord), ModelsStay, Follows(t), UNCHANGED <<entries, stray>>,
           thread[t].pc # "dropped",
           \A i \in DOMAIN models : IsIdle(i)' /\ ~IsIdle(i) =>
               thread'[t].target = i /\ thread'[t].pc = "dropped",
           InQuantum(t)' => \/ entries[thread'[t].key] = thread'[t].target
                            \/ /\ InQuantum(t)
                               /\ thread'[t].key = thread[t].key /\ thread'[t].target = thread[t].target,
           WithinBudgets'
    PROVE  ResidencyInv'
  <1>0. /\ ModelsOK /\ EntriesOK /\ ThreadsOK /\ stray \in BOOLEAN /\ CountsExact
        /\ QuantumIsResident
        /\ \A i \in Resident : models[i].retiring /\ IsIdle(i) =>
              \E u \in Threads : thread[u].target = i /\ thread[u].pc = "dropped"
    BY DEF ResidencyInv, ResidencyTypeOK, RetiredIsDrained, BudgetsHold
  <1>1. ModelsOK'
    BY <1>0 DEF ModelsOK, ModelsStay
  <1>2. EntriesOK'
    BY <1>0 DEF EntriesOK, ModelsStay
  <1>3. ThreadsOK'
    <2> SUFFICES ASSUME NEW u \in Threads, u # t PROVE ThreadOK(u)'
      BY DEF ThreadsOK
    <2>1. ThreadOK(u) /\ thread'[u] = thread[u]
      BY <1>0 DEF ThreadsOK, Elsewhere
    <2> QED  BY <2>1 DEF ThreadOK, ModelsStay
  <1>4. CountsExact'
    BY <1>0, CountsFollow DEF ModelsStay
  <1>5. Resident' = Resident /\ Resident \subseteq DOMAIN models
    BY <1>0 DEF Resident, EntriesOK
  <1>6. ASSUME NEW i \in Resident', models'[i].retiring, IsIdle(i)'
        PROVE  \E u \in Threads : thread'[u].target = i /\ thread'[u].pc = "dropped"
    <2>1. i \in Resident /\ i \in DOMAIN models /\ models[i].retiring
      BY <1>5, <1>6 DEF ModelsStay
    <2>2. CASE IsIdle(i)
      <3>1. PICK u \in Threads : thread[u].target = i /\ thread[u].pc = "dropped"
        BY <1>0, <2>1, <2>2
      <3>2. thread'[u] = thread[u]
        BY <3>1 DEF Elsewhere
      <3> QED  BY <3>1, <3>2
    <2>3. CASE ~IsIdle(i)
      BY <1>6, <2>1, <2>3
    <2> QED  BY <2>2, <2>3
  <1>7. QuantumIsResident'
    <2> SUFFICES ASSUME NEW u \in Threads, InQuantum(u)'
                 PROVE  \/ entries[thread'[u].key] = thread'[u].target
                        \/ stray /\ \E j \in 1..(thread'[u].target - 1) : models'[j].key = thread'[u].key
      BY DEF QuantumIsResident
    <2>1. \/ entries[thread'[u].key] = thread'[u].target
          \/ /\ InQuantum(u)
             /\ thread'[u].key = thread[u].key /\ thread'[u].target = thread[u].target
      BY DEF Elsewhere, InQuantum
    <2>2. CASE InQuantum(u) /\ thread'[u].key = thread[u].key /\ thread'[u].target = thread[u].target
      <3>1. \/ entries[thread[u].key] = thread[u].target
            \/ stray /\ \E j \in 1..(thread[u].target - 1) : models[j].key = thread[u].key
        BY <1>0, <2>2 DEF QuantumIsResident
      <3>2. thread[u].target \in DOMAIN models
        BY <1>0, <2>2 DEF ThreadsOK, ThreadOK, InQuantum, Holding
      <3>3. \A j \in 1..(thread[u].target - 1) : j \in DOMAIN models
        BY <1>0, <3>2 DEF ModelsOK
      <3> QED  BY <2>2, <3>1, <3>3 DEF ModelsStay
    <2> QED  BY <2>1, <2>2
  <1> QED  BY <1>0, <1>1, <1>2, <1>3, <1>4, <1>6, <1>7
           DEF ResidencyInv, ResidencyTypeOK, RetiredIsDrained, BudgetsHold

\* The same for a step that leaves the models alone.
LEMMA QuietStep ==
    ASSUME ResidencyAssumption, ResidencyInv, NEW t \in Threads,
           thread' \in [Threads -> ThreadRecord], Elsewhere(t), ThreadOK(t)',
           UNCHANGED <<entries, models, profile, stray>>,
           thread[t].pc # "dropped",
           InQuantum(t)' <=> InQuantum(t), HasSession(t)' <=> HasSession(t),
           InQuantum(t) \/ HasSession(t) =>
               thread'[t].key = thread[t].key /\ thread'[t].target = thread[t].target
    PROVE  ResidencyInv'
  <1>0. ModelsOK /\ EntriesOK /\ ProfileOK /\ WithinBudgets
    BY DEF ResidencyInv, ResidencyTypeOK, BudgetsHold
  <1>1. ModelsStay /\ models' \in Seq(ModelRecord) /\ ProfileOK' /\ ModelsOK' /\ EntriesOK'
    BY <1>0 DEF ModelsStay, ModelsOK, ProfileOK, EntriesOK
  <1>2. Follows(t)
    <2> SUFFICES ASSUME NEW i \in DOMAIN models
                 PROVE  /\ models'[i].active = models[i].active
                             - (IF thread[t].target = i /\ InQuantum(t) THEN 1 ELSE 0)
                             + (IF thread'[t].target = i /\ InQuantum(t)' THEN 1 ELSE 0)
                        /\ models'[i].sessions = models[i].sessions
                             - (IF thread[t].target = i /\ HasSession(t) THEN 1 ELSE 0)
                             + (IF thread'[t].target = i /\ HasSession(t)' THEN 1 ELSE 0)
      BY DEF Follows
    <2>1. models[i] \in ModelRecord /\ models'[i] = models[i]
      BY <1>0 DEF ModelsOK
    <2>2. models[i].active \in Int /\ models[i].sessions \in Int
      BY <2>1 DEF ModelRecord
    <2> QED  BY <2>1, <2>2
  <1>3. WithinBudgets'
    <2>1. Resident' \subseteq Resident
      BY DEF Resident
    <2> QED  BY <1>0, <1>1, <2>1, BudgetsStay
  <1>4. \A i \in DOMAIN models : ~(IsIdle(i)' /\ ~IsIdle(i))
    BY DEF IsIdle
  <1> QED  BY <1>1, <1>2, <1>3, <1>4, ThreadStep

-----------------------------------------------------------------------------
(* Residency: where a step takes its thread.                               *)

Typed == thread \in [Threads -> ThreadRecord]

LEMMA ThreadSet ==
    ASSUME Typed, NEW t \in Threads, NEW r \in ThreadRecord, thread' = [thread EXCEPT ![t] = r]
    PROVE  Typed' /\ thread'[t] = r /\ Elsewhere(t)
  BY DEF Typed, Elsewhere

LEMMA GotoIs ==
    ASSUME Typed, NEW t \in Threads, NEW pc \in Holding \cup {"idle", "look", "plan", "load"}, Goto(t, pc)
    PROVE  /\ Typed' /\ Elsewhere(t) /\ thread'[t].pc = pc
           /\ thread'[t].key = thread[t].key /\ thread'[t].target = thread[t].target
           /\ thread'[t].bytes = thread[t].bytes /\ thread'[t].victims = thread[t].victims
  <1>1. thread[t] \in ThreadRecord
    BY DEF Typed
  <1>2. PICK r : r = [thread[t] EXCEPT !.pc = pc]
    OBVIOUS
  <1>3. /\ r \in ThreadRecord /\ r.pc = pc /\ r.key = thread[t].key /\ r.target = thread[t].target
        /\ r.bytes = thread[t].bytes /\ r.victims = thread[t].victims
    BY <1>1, <1>2 DEF ThreadRecord
  <1>4. thread' = [thread EXCEPT ![t] = r]
    BY <1>2 DEF Goto, Typed
  <1> QED  BY <1>3, <1>4, ThreadSet

LEMMA IdleIs == Idle \in ThreadRecord /\ Idle.pc = "idle"
  BY DEF Idle, ThreadRecord

LEMMA LoadedIs ==
    ASSUME Typed, NEW t \in Threads, thread[t].key \in Keys, NEW i \in Nat, Loaded(t, i)
    PROVE  /\ Typed' /\ Elsewhere(t)
           /\ \/ thread'[t].pc = "idle"
              \/ thread'[t].pc = "acquire" /\ thread'[t].key = thread[t].key /\ thread'[t].target = i
  <1>1. PICK r : r = IF thread[t].job = "prepare" THEN Idle
                     ELSE [Idle EXCEPT !.pc = "acquire", !.job = "start", !.key = thread[t].key,
                                       !.target = i]
    OBVIOUS
  <1>2. /\ r \in ThreadRecord
        /\ \/ r.pc = "idle"
           \/ r.pc = "acquire" /\ r.key = thread[t].key /\ r.target = i
    BY <1>1 DEF Idle, ThreadRecord, Holding
  <1>3. thread' = [thread EXCEPT ![t] = r]
    BY <1>1 DEF Loaded, Typed
  <1> QED  BY <1>2, <1>3, ThreadSet

-----------------------------------------------------------------------------
(* Residency: the steps of a thread that leave the models alone.           *)

LEMMA RequestInv ==
    ASSUME ResidencyAssumption, ResidencyInv, NEW t \in Threads, NEW key \in Keys,
           NEW job \in {"start", "prepare"}, Request(t, key, job)
    PROVE  ResidencyInv'
  <1>1. Typed
    BY DEF ResidencyInv, ResidencyTypeOK, ThreadsOK, Typed
  <1>2. PICK r : r = [Idle EXCEPT !.pc = "look", !.job = job, !.key = key]
    OBVIOUS
  <1>3. r \in ThreadRecord /\ r.pc = "look" /\ r.key = key
    BY <1>2 DEF Idle, ThreadRecord
  <1>4. thread[t].pc = "idle" /\ thread' = [thread EXCEPT ![t] = r]
        /\ UNCHANGED <<entries, models, profile, stray>>
    BY <1>2 DEF Request
  <1>5. Typed' /\ thread'[t] = r /\ Elsewhere(t)
    BY <1>1, <1>3, <1>4, ThreadSet
  <1>6. ThreadOK(t)'
    BY <1>3, <1>5 DEF ThreadOK, Holding
  <1>7. ~InQuantum(t) /\ ~InQuantum(t)' /\ ~HasSession(t) /\ ~HasSession(t)'
    BY <1>3, <1>4, <1>5 DEF InQuantum, HasSession
  <1> QED  BY <1>4, <1>5, <1>6, <1>7, QuietStep DEF Typed

LEMMA LoadHitInv ==
    ASSUME ResidencyAssumption, ResidencyInv, NEW t \in Threads,
           LoadHit(t) \/ InsertHit(t)
    PROVE  ResidencyInv'
  <1>1. Typed /\ EntriesOK /\ ThreadOK(t)
    BY DEF ResidencyInv, ResidencyTypeOK, ThreadsOK, Typed
  <1>2. thread[t].pc \in {"look", "load"} /\ entries[thread[t].key] # 0
        /\ Loaded(t, entries[thread[t].key]) /\ UNCHANGED <<entries, models, profile, stray>>
    BY DEF LoadHit, InsertHit
  <1>3. thread[t].key \in Keys
    BY <1>1, <1>2 DEF ThreadOK
  <1>4. PICK i : i = entries[thread[t].key]
    OBVIOUS
  <1>5. i \in Nat /\ i \in DOMAIN models /\ models[i].key = thread[t].key
    BY <1>1, <1>2, <1>3, <1>4 DEF EntriesOK
  <1>6. /\ Typed' /\ Elsewhere(t)
        /\ \/ thread'[t].pc = "idle"
           \/ thread'[t].pc = "acquire" /\ thread'[t].key = thread[t].key /\ thread'[t].target = i
    BY <1>1, <1>2, <1>3, <1>4, <1>5, LoadedIs
  <1>7. ThreadOK(t)'
    BY <1>2, <1>3, <1>5, <1>6 DEF ThreadOK, Holding
  <1>8. ~InQuantum(t) /\ ~InQuantum(t)' /\ ~HasSession(t) /\ ~HasSession(t)' /\ thread[t].pc # "dropped"
    BY <1>2, <1>6 DEF InQuantum, HasSession
  <1> QED  BY <1>2, <1>6, <1>7, <1>8, QuietStep DEF Typed

LEMMA LoadMissInv ==
    ASSUME ResidencyAssumption, ResidencyInv, NEW t \in Threads, LoadMiss(t)
    PROVE  ResidencyInv'
  <1>1. Typed /\ ProfileOK /\ ThreadOK(t)
    BY DEF ResidencyInv, ResidencyTypeOK, ThreadsOK, Typed
  <1>2. PICK b : b = Estimate(thread[t].key)
    OBVIOUS
  <1>3. thread[t].pc = "look" /\ UNCHANGED <<entries, models, profile, stray>>
    BY DEF LoadMiss
  <1>4. thread[t].key \in Keys /\ thread[t].key[1] \in DOMAIN Weight /\ Context \in Nat
        /\ Weight[thread[t].key[1]] \in Nat
    BY <1>1, <1>3 DEF ThreadOK, ResidencyAssumption
  <1>5. b \in Nat /\ b >= Context
    <2>1. CASE profile[thread[t].key[1]] > 0
      BY <1>1, <1>2, <1>4, <2>1 DEF Estimate, ProfileOK
    <2>2. CASE ~(profile[thread[t].key[1]] > 0)
      BY <1>2, <1>4, <2>2 DEF Estimate
    <2> QED  BY <2>1, <2>2
  <1>6. PICK r : r = [thread[t] EXCEPT !.pc = "plan", !.bytes = b]
    OBVIOUS
  <1>7. r \in ThreadRecord /\ r.pc = "plan" /\ r.bytes = b /\ r.key = thread[t].key
    <2>1. thread[t] \in ThreadRecord
      BY <1>1 DEF Typed
    <2> QED  BY <1>5, <1>6, <2>1 DEF ThreadRecord
  <1>8. thread' = [thread EXCEPT ![t] = r]
    BY <1>1, <1>2, <1>6 DEF LoadMiss, Typed
  <1>9. Typed' /\ thread'[t] = r /\ Elsewhere(t)
    BY <1>1, <1>7, <1>8, ThreadSet
  <1>10. ThreadOK(t)'
    BY <1>4, <1>5, <1>7, <1>9 DEF ThreadOK, Holding
  <1>11. ~InQuantum(t) /\ ~InQuantum(t)' /\ ~HasSession(t) /\ ~HasSession(t)' /\ thread[t].pc # "dropped"
    BY <1>3, <1>7, <1>9 DEF InQuantum, HasSession
  <1> QED  BY <1>3, <1>9, <1>10, <1>11, QuietStep DEF Typed

LEMMA LoadFailsInv ==
    ASSUME ResidencyAssumption, ResidencyInv, NEW t \in Threads, LoadFails(t)
    PROVE  ResidencyInv'
  <1>1. Typed
    BY DEF ResidencyInv, ResidencyTypeOK, ThreadsOK, Typed
  <1>2. thread[t].pc \in {"look", "load"} /\ UNCHANGED <<entries, models, profile, stray>>
        /\ thread' = [thread EXCEPT ![t] = Idle]
    BY DEF LoadFails
  <1>3. Typed' /\ thread'[t].pc = "idle" /\ Elsewhere(t)
    BY <1>1, <1>2, IdleIs, ThreadSet
  <1>4. ThreadOK(t)'
    BY <1>3 DEF ThreadOK, Holding
  <1>5. ~InQuantum(t) /\ ~InQuantum(t)' /\ ~HasSession(t) /\ ~HasSession(t)' /\ thread[t].pc # "dropped"
    BY <1>2, <1>3 DEF InQuantum, HasSession
  <1> QED  BY <1>2, <1>3, <1>4, <1>5, QuietStep DEF Typed

LEMMA AcquireGoneInv ==
    ASSUME ResidencyAssumption, ResidencyInv, NEW t \in Threads, AcquireGone(t)
    PROVE  ResidencyInv'
  <1>1. Typed /\ ThreadOK(t)
    BY DEF ResidencyInv, ResidencyTypeOK, ThreadsOK, Typed
  <1>2. PICK pc \in {"look", "drop"} : pc = IF thread[t].pc = "acquire" THEN "look" ELSE "drop"
    OBVIOUS
  <1>3. thread[t].pc \in {"acquire", "suspended"} /\ UNCHANGED <<entries, models, profile, stray>>
        /\ Goto(t, pc)
    BY <1>2 DEF AcquireGone
  <1>4. /\ Typed' /\ Elsewhere(t) /\ thread'[t].pc = pc
        /\ thread'[t].key = thread[t].key /\ thread'[t].target = thread[t].target
    BY <1>1, <1>2, <1>3, GotoIs DEF Holding
  <1>5. ThreadOK(t)'
    BY <1>1, <1>2, <1>3, <1>4 DEF ThreadOK, Holding
  <1>6. ~InQuantum(t) /\ ~InQuantum(t)' /\ (HasSession(t)' <=> HasSession(t)) /\ thread[t].pc # "dropped"
    BY <1>2, <1>3, <1>4 DEF InQuantum, HasSession
  <1> QED  BY <1>3, <1>4, <1>5, <1>6, QuietStep DEF Typed

LEMMA QuantumInv ==
    ASSUME ResidencyAssumption, ResidencyInv, NEW t \in Threads, Quantum(t)
    PROVE  ResidencyInv'
  <1>1. Typed /\ ThreadOK(t)
    BY DEF ResidencyInv, ResidencyTypeOK, ThreadsOK, Typed
  <1>2. thread[t].pc = "quantum" /\ UNCHANGED <<entries, models, profile, stray>> /\ Goto(t, "release")
    BY DEF Quantum
  <1>3. /\ Typed' /\ Elsewhere(t) /\ thread'[t].pc = "release"
        /\ thread'[t].key = thread[t].key /\ thread'[t].target = thread[t].target
    BY <1>1, <1>2, GotoIs DEF Holding
  <1>4. ThreadOK(t)'
    BY <1>1, <1>2, <1>3 DEF ThreadOK, Holding
  <1>5. InQuantum(t) /\ InQuantum(t)' /\ HasSession(t)' /\ HasSession(t) /\ thread[t].pc # "dropped"
    BY <1>2, <1>3 DEF InQuantum, HasSession
  <1> QED  BY <1>2, <1>3, <1>4, <1>5, QuietStep DEF Typed

-----------------------------------------------------------------------------
(* Residency: the steps of a thread that spill contexts or count.          *)

\* What is known of a model.
LEMMA ModelsAre ==
    ASSUME ModelsOK
    PROVE  /\ models \in Seq(ModelRecord) /\ DOMAIN models = 1..Len(models) /\ Len(models) \in Nat
           /\ \A j \in DOMAIN models : /\ models[j] \in ModelRecord
                                       /\ models[j].active \in Int /\ models[j].sessions \in Int
                                       /\ models[j].key \in Keys /\ models[j].bytes \in Nat
                                       /\ models[j].context_resident \in BOOLEAN
  <1>1. models \in Seq(ModelRecord) /\ DOMAIN models = 1..Len(models) /\ Len(models) \in Nat
    BY DEF ModelsOK
  <1>2. \A j \in DOMAIN models : models[j] \in ModelRecord
    BY <1>1
  <1>3. \A r \in ModelRecord : r.active \in Int /\ r.sessions \in Int /\ r.key \in Keys
                                /\ r.bytes \in Nat /\ r.context_resident \in BOOLEAN
    BY DEF ModelRecord
  <1> QED  BY <1>1, <1>2, <1>3

\* One of a sequence of models changes.
LEMMA ModelSet ==
    ASSUME NEW m \in Seq(ModelRecord), NEW i \in DOMAIN m, NEW r \in ModelRecord
    PROVE  LET n == [m EXCEPT ![i] = r]
           IN  /\ n \in Seq(ModelRecord) /\ DOMAIN n = DOMAIN m /\ n[i] = r
               /\ \A j \in DOMAIN m : j # i => n[j] = m[j]
  <1>1. DOMAIN m = 1..Len(m) /\ Len(m) \in Nat /\ \A j \in DOMAIN m : m[j] \in ModelRecord
    OBVIOUS
  <1>2. PICK n : n = [m EXCEPT ![i] = r]
    OBVIOUS
  <1>3. DOMAIN n = DOMAIN m /\ n[i] = r /\ \A j \in DOMAIN m : j # i => n[j] = m[j]
    BY <1>2
  <1>4. \A j \in 1..Len(m) : n[j] \in ModelRecord
    BY <1>1, <1>3
  <1>5. n = [j \in 1..Len(m) |-> n[j]]
    BY <1>1, <1>2
  <1>6. n \in Seq(ModelRecord)
    BY <1>1, <1>4, <1>5
  <1> QED  BY <1>2, <1>3, <1>6

\* A count of a model changes.
LEMMA CountSet ==
    ASSUME NEW m \in ModelRecord, NEW n \in Int, NEW r,
           r = [m EXCEPT !.active = n] \/ r = [m EXCEPT !.sessions = n]
    PROVE  /\ r \in ModelRecord /\ r.key = m.key /\ r.bytes = m.bytes /\ r.retiring = m.retiring
           /\ r.context_resident = m.context_resident
           /\ r = [m EXCEPT !.active = n] => r.active = n /\ r.sessions = m.sessions
           /\ r = [m EXCEPT !.sessions = n] => r.active = m.active /\ r.sessions = n
  <1>1. CASE r = [m EXCEPT !.active = n]
    BY <1>1 DEF ModelRecord
  <1>2. CASE r = [m EXCEPT !.sessions = n]
    BY <1>2 DEF ModelRecord
  <1> QED  BY <1>1, <1>2

\* The models may change in their counts and lose their contexts.
LEMMA SpilledIs ==
    ASSUME ModelsOK, NEW set
    PROVE  /\ Spilled(set) \in Seq(ModelRecord) /\ DOMAIN Spilled(set) = DOMAIN models
           /\ \A i \in DOMAIN models :
                /\ Spilled(set)[i].key = models[i].key /\ Spilled(set)[i].bytes = models[i].bytes
                /\ Spilled(set)[i].retiring = models[i].retiring
                /\ Spilled(set)[i].active = models[i].active
                /\ Spilled(set)[i].sessions = models[i].sessions
                /\ Spilled(set)[i].context_resident <=> models[i].context_resident /\ i \notin set
  <1>1. models \in Seq(ModelRecord) /\ DOMAIN models = 1..Len(models) /\ Len(models) \in Nat
    BY DEF ModelsOK
  <1>2. ASSUME NEW i \in DOMAIN models
        PROVE  /\ Spilled(set)[i] \in ModelRecord
               /\ Spilled(set)[i].key = models[i].key /\ Spilled(set)[i].bytes = models[i].bytes
               /\ Spilled(set)[i].retiring = models[i].retiring
               /\ Spilled(set)[i].active = models[i].active
               /\ Spilled(set)[i].sessions = models[i].sessions
               /\ Spilled(set)[i].context_resident <=> models[i].context_resident /\ i \notin set
    <2>1. Spilled(set)[i] = [models[i] EXCEPT !.context_resident = @ /\ i \notin set]
      BY DEF Spilled
    <2>2. models[i] \in ModelRecord
      BY <1>1
    <2> QED  BY <2>1, <2>2 DEF ModelRecord
  <1>3. DOMAIN Spilled(set) = 1..Len(models) /\ Spilled(set) = [i \in 1..Len(models) |-> Spilled(set)[i]]
    BY <1>1 DEF Spilled
  <1>4. Spilled(set) \in Seq(ModelRecord)
    BY <1>1, <1>2, <1>3
  <1> QED  BY <1>1, <1>2, <1>3, <1>4

\* A step that spills, of a thread whose quantum and session stay what they are.
LEMMA SpillStep ==
    ASSUME ResidencyAssumption, ResidencyInv, NEW t \in Threads, NEW set,
           Typed', Elsewhere(t), ThreadOK(t)', models' = Spilled(set),
           UNCHANGED <<entries, profile, stray>>,
           thread[t].pc # "dropped", ~InQuantum(t), ~InQuantum(t)', HasSession(t)' <=> HasSession(t),
           HasSession(t) => thread'[t].target = thread[t].target
    PROVE  ResidencyInv'
  <1>0. ModelsOK /\ EntriesOK /\ ProfileOK /\ WithinBudgets
    BY DEF ResidencyInv, ResidencyTypeOK, BudgetsHold
  <1>1. /\ models' \in Seq(ModelRecord) /\ DOMAIN models' = DOMAIN models
        /\ \A i \in DOMAIN models :
                /\ models'[i].key = models[i].key /\ models'[i].bytes = models[i].bytes
                /\ models'[i].retiring = models[i].retiring
                /\ models'[i].active = models[i].active
                /\ models'[i].sessions = models[i].sessions
                /\ models'[i].context_resident => models[i].context_resident
    BY <1>0, SpilledIs
  <1>2. ModelsStay
    BY <1>1 DEF ModelsStay
  <1>3. ModelsOK' /\ EntriesOK' /\ ProfileOK'
    BY <1>0, <1>1 DEF ModelsOK, EntriesOK, ProfileOK
  <1>4. Follows(t)
    <2> SUFFICES ASSUME NEW i \in DOMAIN models
                 PROVE  /\ models'[i].active = models[i].active
                             - (IF thread[t].target = i /\ InQuantum(t) THEN 1 ELSE 0)
                             + (IF thread'[t].target = i /\ InQuantum(t)' THEN 1 ELSE 0)
                        /\ models'[i].sessions = models[i].sessions
                             - (IF thread[t].target = i /\ HasSession(t) THEN 1 ELSE 0)
                             + (IF thread'[t].target = i /\ HasSession(t)' THEN 1 ELSE 0)
      BY DEF Follows
    <2>1. models[i] \in ModelRecord
      BY <1>0 DEF ModelsOK
    <2>2. models[i].active \in Int /\ models[i].sessions \in Int
      BY <2>1 DEF ModelRecord
    <2> QED  BY <1>1, <2>2
  <1>5. WithinBudgets'
    <2>1. Resident' \subseteq Resident
      BY DEF Resident
    <2> QED  BY <1>0, <1>1, <1>3, <2>1, BudgetsStay
  <1>6. \A i \in DOMAIN models : ~(IsIdle(i)' /\ ~IsIdle(i))
    BY <1>1 DEF IsIdle
  <1> QED  BY <1>1, <1>2, <1>3, <1>4, <1>5, <1>6, ThreadStep DEF Typed

LEMMA LoadPlanInv ==
    ASSUME ResidencyAssumption, ResidencyInv, NEW t \in Threads, NEW spills, LoadPlan(t, spills)
    PROVE  ResidencyInv'
  <1>1. Typed /\ ThreadOK(t) /\ EntriesOK /\ ModelsOK
    BY DEF ResidencyInv, ResidencyTypeOK, ThreadsOK, Typed
  <1>2. PICK set : set = Oldest(WithContext(IdleOthers(thread[t].key[1])), spills)
    OBVIOUS
  <1>3. thread[t].pc = "plan" /\ models' = Spilled(set) /\ UNCHANGED <<entries, profile, stray>>
    BY <1>2 DEF LoadPlan
  <1>4. DOMAIN models' = DOMAIN models /\ DOMAIN models \subseteq Nat
    BY <1>1, <1>3, SpilledIs DEF ModelsOK
  <1>5. Typed' /\ Elsewhere(t) /\ ThreadOK(t)' /\ thread'[t].pc \in {"idle", "load"}
    <2>1. CASE thread' = [thread EXCEPT ![t] = Idle]
      <3>1. Typed' /\ thread'[t].pc = "idle" /\ Elsewhere(t)
        BY <1>1, <2>1, IdleIs, ThreadSet
      <3> QED  BY <3>1 DEF ThreadOK, Holding
    <2>2. ASSUME NEW n, thread' = [thread EXCEPT ![t] = [@ EXCEPT !.pc = "load",
                                     !.victims = Oldest(IdleOthers(thread[t].key[1]), n)]]
          PROVE  Typed' /\ Elsewhere(t) /\ ThreadOK(t)' /\ thread'[t].pc \in {"idle", "load"}
      <3>1. PICK v : v = Oldest(IdleOthers(thread[t].key[1]), n)
        OBVIOUS
      <3>2. v \subseteq DOMAIN models
        <4>1. Resident \subseteq DOMAIN models
          BY <1>1, ResidentIs
        <4> QED  BY <3>1, <4>1 DEF Oldest, IdleOthers, IdleAmong
      <3>3. PICK r : r = [thread[t] EXCEPT !.pc = "load", !.victims = v]
        OBVIOUS
      <3>4. thread[t] \in ThreadRecord
        BY <1>1 DEF Typed
      <3>5. r \in ThreadRecord /\ r.pc = "load" /\ r.victims = v /\ r.key = thread[t].key
            /\ r.bytes = thread[t].bytes
        BY <1>4, <3>2, <3>3, <3>4 DEF ThreadRecord
      <3>6. thread' = [thread EXCEPT ![t] = r]
        BY <1>1, <2>2, <3>1, <3>3 DEF Typed
      <3>7. Typed' /\ thread'[t] = r /\ Elsewhere(t)
        BY <1>1, <3>5, <3>6, ThreadSet
      <3> QED  BY <1>1, <1>3, <1>4, <3>2, <3>5, <3>7 DEF ThreadOK, Holding
    <2> QED  BY <2>1, <2>2 DEF LoadPlan
  <1>6. ~InQuantum(t) /\ ~InQuantum(t)' /\ ~HasSession(t) /\ ~HasSession(t)' /\ thread[t].pc # "dropped"
    BY <1>3, <1>5 DEF InQuantum, HasSession
  <1> QED  BY <1>3, <1>5, <1>6, SpillStep

\* A step that counts: the model of the thread changes in `active` or `sessions`.
LEMMA BeginInv ==
    ASSUME ResidencyAssumption, ResidencyInv, NEW t \in Threads, Begin(t)
    PROVE  ResidencyInv'
  <1>1. Typed /\ ThreadOK(t) /\ EntriesOK /\ ModelsOK /\ WithinBudgets /\ ProfileOK
    BY DEF ResidencyInv, ResidencyTypeOK, ThreadsOK, Typed, BudgetsHold
  <1>2. PICK i : i = thread[t].target
    OBVIOUS
  <1>3. thread[t].pc = "begin" /\ UNCHANGED <<entries, profile, stray>>
        /\ \/ models' = [models EXCEPT ![i].sessions = @ + 1] /\ Goto(t, "release")
           \/ models' = models /\ Goto(t, "release_failed")
    BY <1>2 DEF Begin
  <1>4. PICK pc \in {"release", "release_failed"} : Goto(t, pc)
                         /\ models' = IF pc = "release" THEN [models EXCEPT ![i].sessions = @ + 1] ELSE models
    BY <1>3
  <1>5. /\ Typed' /\ Elsewhere(t) /\ thread'[t].pc = pc
        /\ thread'[t].key = thread[t].key /\ thread'[t].target = thread[t].target
    BY <1>1, <1>4, GotoIs DEF Holding
  <1>6. i \in DOMAIN models /\ models[i].key = thread[t].key
    BY <1>1, <1>2, <1>3 DEF ThreadOK, Holding
  <1>7. /\ models' \in Seq(ModelRecord) /\ DOMAIN models' = DOMAIN models
        /\ \A j \in DOMAIN models :
                /\ models'[j].key = models[j].key /\ models'[j].bytes = models[j].bytes
                /\ models'[j].retiring = models[j].retiring
                /\ models'[j].active = models[j].active
                /\ models'[j].sessions = models[j].sessions + (IF j = i /\ pc = "release" THEN 1 ELSE 0)
                /\ models'[j].context_resident = models[j].context_resident
    <2>1. models \in Seq(ModelRecord) /\ models[i] \in ModelRecord
          /\ \A j \in DOMAIN models : models[j].active \in Int /\ models[j].sessions \in Int
      BY <1>1, <1>6, ModelsAre
    <2>a. CASE pc = "release"
      <3>2. PICK r : r = [models[i] EXCEPT !.sessions = @ + 1]
        OBVIOUS
      <3>3. r \in ModelRecord /\ models' = [models EXCEPT ![i] = r]
            /\ r.key = models[i].key /\ r.bytes = models[i].bytes /\ r.retiring = models[i].retiring
            /\ r.active = models[i].active /\ r.sessions = models[i].sessions + 1
            /\ r.context_resident = models[i].context_resident
        <4>1. models' = [models EXCEPT ![i] = r]
          BY <1>4, <2>a, <3>2
        <4>2. PICK n \in Int : n = models[i].sessions + 1
          BY <1>6, <2>1
        <4>3. PICK m \in ModelRecord : m = models[i]
          BY <2>1
        <4>4. r = [m EXCEPT !.sessions = n]
          BY <3>2, <4>2, <4>3
        <4>5. /\ r \in ModelRecord /\ r.key = m.key /\ r.bytes = m.bytes /\ r.retiring = m.retiring
             /\ r.context_resident = m.context_resident /\ r.active = m.active /\ r.sessions = n
          BY <4>4, CountSet
        <4> QED BY <4>1, <4>2, <4>3, <4>5
      <3>4. /\ models' \in Seq(ModelRecord) /\ DOMAIN models' = DOMAIN models /\ models'[i] = r
            /\ \A j \in DOMAIN models : j # i => models'[j] = models[j]
        BY <1>6, <2>1, <3>3, ModelSet
      <3> QED  BY <2>1, <2>a, <3>3, <3>4
    <2>b. CASE pc = "release_failed"
      <3>1. models' = models
        BY <1>4, <2>b
      <3> QED  BY <2>1, <2>b, <3>1
    <2> QED  BY <2>a, <2>b
  <1>8. ThreadOK(t)'
    BY <1>1, <1>3, <1>5, <1>7 DEF ThreadOK, Holding
  <1>9. ModelsStay /\ ModelsOK' /\ EntriesOK' /\ ProfileOK'
    BY <1>1, <1>3, <1>7 DEF ModelsStay, ModelsOK, EntriesOK, ProfileOK
  <1>10. InQuantum(t) /\ InQuantum(t)' /\ ~HasSession(t) /\ (HasSession(t)' <=> pc = "release")
    BY <1>3, <1>4, <1>5 DEF InQuantum, HasSession
  <1>11. Follows(t)
    <2>1. \A j \in DOMAIN models : models[j].active \in Int /\ models[j].sessions \in Int
      BY <1>1, ModelsAre
    <2> QED  BY <1>2, <1>5, <1>7, <1>10, <2>1 DEF Follows
  <1>12. WithinBudgets'
    <2>1. Resident' \subseteq Resident
      BY <1>3 DEF Resident
    <2> QED  BY <1>1, <1>3, <1>7, <1>9, <2>1, BudgetsStay
  <1>13. \A j \in DOMAIN models : ~(IsIdle(j)' /\ ~IsIdle(j))
    <2>1. CountsExact
      BY DEF ResidencyInv, RetiredIsDrained
    <2>2. models[i].active # 0
      BY <1>2, <1>6, <1>10, <2>1, Counted
    <2>3. \A j \in DOMAIN models : models[j].sessions \in Int
      BY <1>1, ModelsAre
    <2> QED  BY <1>7, <2>2, <2>3 DEF IsIdle
  <1> QED  BY <1>3, <1>5, <1>7, <1>8, <1>9, <1>10, <1>11, <1>12, <1>13, ThreadStep DEF Typed

LEMMA ReleaseInv ==
    ASSUME ResidencyAssumption, ResidencyInv, NEW t \in Threads, Release(t)
    PROVE  ResidencyInv'
  <1>1. Typed /\ ThreadOK(t) /\ EntriesOK /\ ModelsOK /\ WithinBudgets /\ ProfileOK /\ CountsExact
    BY DEF ResidencyInv, ResidencyTypeOK, ThreadsOK, Typed, BudgetsHold, RetiredIsDrained
  <1>2. PICK i : i = thread[t].target
    OBVIOUS
  <1>3. PICK pc \in {"released", "dropped"} : pc = IF thread[t].pc = "release" THEN "released" ELSE "dropped"
    OBVIOUS
  <1>4. thread[t].pc \in {"release", "release_failed"} /\ UNCHANGED <<entries, profile, stray>>
        /\ models' = [models EXCEPT ![i].active = @ - 1] /\ Goto(t, pc)
    BY <1>2, <1>3 DEF Release
  <1>5. /\ Typed' /\ Elsewhere(t) /\ thread'[t].pc = pc
        /\ thread'[t].key = thread[t].key /\ thread'[t].target = thread[t].target
    BY <1>1, <1>3, <1>4, GotoIs DEF Holding
  <1>6. i \in DOMAIN models /\ models[i].key = thread[t].key
    BY <1>1, <1>2, <1>4 DEF ThreadOK, Holding
  <1>7. /\ models' \in Seq(ModelRecord) /\ DOMAIN models' = DOMAIN models
        /\ \A j \in DOMAIN models :
                /\ models'[j].key = models[j].key /\ models'[j].bytes = models[j].bytes
                /\ models'[j].retiring = models[j].retiring
                /\ models'[j].active = models[j].active - (IF j = i THEN 1 ELSE 0)
                /\ models'[j].sessions = models[j].sessions
                /\ models'[j].context_resident = models[j].context_resident
    <2>1. models \in Seq(ModelRecord) /\ models[i] \in ModelRecord
          /\ \A j \in DOMAIN models : models[j].active \in Int /\ models[j].sessions \in Int
      BY <1>1, <1>6, ModelsAre
    <2>2. PICK r : r = [models[i] EXCEPT !.active = @ - 1]
      OBVIOUS
    <2>3. r \in ModelRecord /\ models' = [models EXCEPT ![i] = r]
          /\ r.key = models[i].key /\ r.bytes = models[i].bytes /\ r.retiring = models[i].retiring
          /\ r.active = models[i].active - 1 /\ r.sessions = models[i].sessions
          /\ r.context_resident = models[i].context_resident
      <3>1. models' = [models EXCEPT ![i] = r]
        BY <1>4, <2>2
      <3>2. PICK n \in Int : n = models[i].active - 1
        BY <1>6, <2>1
      <3>3. PICK m \in ModelRecord : m = models[i]
        BY <2>1
      <3>4. r = [m EXCEPT !.active = n]
        BY <2>2, <3>2, <3>3
      <3>5. /\ r \in ModelRecord /\ r.key = m.key /\ r.bytes = m.bytes /\ r.retiring = m.retiring
           /\ r.context_resident = m.context_resident /\ r.sessions = m.sessions /\ r.active = n
        BY <3>4, CountSet
      <3> QED BY <3>1, <3>2, <3>3, <3>5
    <2>4. /\ models' \in Seq(ModelRecord) /\ DOMAIN models' = DOMAIN models /\ models'[i] = r
          /\ \A j \in DOMAIN models : j # i => models'[j] = models[j]
      BY <1>6, <2>1, <2>3, ModelSet
    <2> QED  BY <2>1, <2>3, <2>4
  <1>8. ThreadOK(t)'
    BY <1>1, <1>3, <1>4, <1>5, <1>7 DEF ThreadOK, Holding
  <1>9. ModelsStay /\ ModelsOK' /\ EntriesOK' /\ ProfileOK'
    BY <1>1, <1>4, <1>7 DEF ModelsStay, ModelsOK, EntriesOK, ProfileOK
  <1>10. InQuantum(t) /\ ~InQuantum(t)' /\ (HasSession(t)' <=> pc = "released")
         /\ (HasSession(t) <=> pc = "released")
    BY <1>3, <1>4, <1>5 DEF InQuantum, HasSession
  <1>11. Follows(t)
    <2>1. \A j \in DOMAIN models : models[j].active \in Int /\ models[j].sessions \in Int
      BY <1>1, ModelsAre
    <2> QED  BY <1>2, <1>5, <1>7, <1>10, <2>1 DEF Follows
  <1>12. WithinBudgets'
    <2>1. Resident' \subseteq Resident
      BY <1>4 DEF Resident
    <2> QED  BY <1>1, <1>4, <1>7, <1>9, <2>1, BudgetsStay
  <1>13. ASSUME NEW j \in DOMAIN models, IsIdle(j)', ~IsIdle(j)
         PROVE  thread'[t].target = j /\ thread'[t].pc = "dropped"
    <2>1. j = i
      <3>1. models[j].active \in Int
        BY <1>1, ModelsAre
      <3> QED  BY <1>7, <1>13, <3>1 DEF IsIdle
    <2>2. pc = "released" => models[i].sessions # 0
      BY <1>1, <1>2, <1>6, <1>10, Counted
    <2>3. models[i].sessions = 0
      BY <1>7, <1>13, <2>1 DEF IsIdle
    <2> QED  BY <1>2, <1>3, <1>5, <2>1, <2>2, <2>3
  <1> QED  BY <1>4, <1>5, <1>7, <1>8, <1>9, <1>10, <1>11, <1>12, <1>13, ThreadStep DEF Typed

LEMMA DropSessionInv ==
    ASSUME ResidencyAssumption, ResidencyInv, NEW t \in Threads, DropSession(t)
    PROVE  ResidencyInv'
  <1>1. Typed /\ ThreadOK(t) /\ EntriesOK /\ ModelsOK /\ WithinBudgets /\ ProfileOK
    BY DEF ResidencyInv, ResidencyTypeOK, ThreadsOK, Typed, BudgetsHold
  <1>2. PICK i : i = thread[t].target
    OBVIOUS
  <1>4. thread[t].pc \in {"suspended", "drop"} /\ UNCHANGED <<entries, profile, stray>>
        /\ models' = [models EXCEPT ![i].sessions = @ - 1] /\ Goto(t, "dropped")
    BY <1>2 DEF DropSession
  <1>5. /\ Typed' /\ Elsewhere(t) /\ thread'[t].pc = "dropped"
        /\ thread'[t].key = thread[t].key /\ thread'[t].target = thread[t].target
    BY <1>1, <1>4, GotoIs DEF Holding
  <1>6. i \in DOMAIN models /\ models[i].key = thread[t].key
    BY <1>1, <1>2, <1>4 DEF ThreadOK, Holding
  <1>7. /\ models' \in Seq(ModelRecord) /\ DOMAIN models' = DOMAIN models
        /\ \A j \in DOMAIN models :
                /\ models'[j].key = models[j].key /\ models'[j].bytes = models[j].bytes
                /\ models'[j].retiring = models[j].retiring
                /\ models'[j].active = models[j].active
                /\ models'[j].sessions = models[j].sessions - (IF j = i THEN 1 ELSE 0)
                /\ models'[j].context_resident = models[j].context_resident
    <2>1. models \in Seq(ModelRecord) /\ models[i] \in ModelRecord
          /\ \A j \in DOMAIN models : models[j].active \in Int /\ models[j].sessions \in Int
      BY <1>1, <1>6, ModelsAre
    <2>2. PICK r : r = [models[i] EXCEPT !.sessions = @ - 1]
      OBVIOUS
    <2>3. r \in ModelRecord /\ models' = [models EXCEPT ![i] = r]
          /\ r.key = models[i].key /\ r.bytes = models[i].bytes /\ r.retiring = models[i].retiring
          /\ r.active = models[i].active /\ r.sessions = models[i].sessions - 1
          /\ r.context_resident = models[i].context_resident
      <3>1. models' = [models EXCEPT ![i] = r]
        BY <1>4, <2>2
      <3>2. PICK n \in Int : n = models[i].sessions - 1
        BY <1>6, <2>1
      <3>3. PICK m \in ModelRecord : m = models[i]
        BY <2>1
      <3>4. r = [m EXCEPT !.sessions = n]
        BY <2>2, <3>2, <3>3
      <3>5. /\ r \in ModelRecord /\ r.key = m.key /\ r.bytes = m.bytes /\ r.retiring = m.retiring
           /\ r.context_resident = m.context_resident /\ r.active = m.active /\ r.sessions = n
        BY <3>4, CountSet
      <3> QED BY <3>1, <3>2, <3>3, <3>5
    <2>4. /\ models' \in Seq(ModelRecord) /\ DOMAIN models' = DOMAIN models /\ models'[i] = r
          /\ \A j \in DOMAIN models : j # i => models'[j] = models[j]
      BY <1>6, <2>1, <2>3, ModelSet
    <2> QED  BY <2>1, <2>3, <2>4
  <1>8. ThreadOK(t)'
    BY <1>1, <1>4, <1>5, <1>7 DEF ThreadOK, Holding
  <1>9. ModelsStay /\ ModelsOK' /\ EntriesOK' /\ ProfileOK'
    BY <1>1, <1>4, <1>7 DEF ModelsStay, ModelsOK, EntriesOK, ProfileOK
  <1>10. ~InQuantum(t) /\ ~InQuantum(t)' /\ ~HasSession(t)' /\ HasSession(t)
    BY <1>4, <1>5 DEF InQuantum, HasSession
  <1>11. Follows(t)
    <2>1. \A j \in DOMAIN models : models[j].active \in Int /\ models[j].sessions \in Int
      BY <1>1, ModelsAre
    <2> QED  BY <1>2, <1>5, <1>7, <1>10, <2>1 DEF Follows
  <1>12. WithinBudgets'
    <2>1. Resident' \subseteq Resident
      BY <1>4 DEF Resident
    <2> QED  BY <1>1, <1>4, <1>7, <1>9, <2>1, BudgetsStay
  <1>13. ASSUME NEW j \in DOMAIN models, IsIdle(j)', ~IsIdle(j)
         PROVE  thread'[t].target = j /\ thread'[t].pc = "dropped"
    <2>1. j = i
      <3>1. models[j].sessions \in Int
        BY <1>1, ModelsAre
      <3> QED  BY <1>7, <1>13, <3>1 DEF IsIdle
    <2> QED  BY <1>2, <1>5, <2>1
  <1> QED  BY <1>4, <1>5, <1>7, <1>8, <1>9, <1>10, <1>11, <1>12, <1>13, ThreadStep DEF Typed

\* The room a load or a reload asked for is room enough: `i` takes its place beside
\* models that are all among those it was counted with.
LEMMA BudgetsGrow ==
    ASSUME ResidencyAssumption, ModelsOK, NEW key \in Keys, NEW bytes \in Nat, NEW kept, NEW spilled,
           Fits(key, bytes, kept, spilled), IsFiniteSet(kept), kept \subseteq DOMAIN models,
           NEW i, i \notin kept, Resident' \subseteq kept \cup {i},
           \A j \in kept : Memory({})'[j] = Memory(spilled)[j] /\ Weights'[j] = Weights[j],
           Memory({})'[i] = bytes, Weights'[i] = Weight[key[1]]
    PROVE  WithinBudgets'
  <1> DEFINE all == kept \cup {i}
  <1>1. Weight[key[1]] \in Nat /\ Capacity \in Nat /\ Storage \in Nat
    BY DEF ResidencyAssumption
  <1>2. \A j \in kept : /\ Memory({})'[j] \in Nat /\ Weights'[j] \in Nat /\ Stored(spilled)[j] \in Nat
                        /\ Weights'[j] <= Stored(spilled)[j]
    BY TakesNat
  <1>3. IsFiniteSet(all) /\ Resident' \in SUBSET all /\ IsFiniteSet(Resident')
    BY FS_AddElement, FS_Subset
  <1>4. \A j \in all : Memory({})'[j] \in Nat /\ Weights'[j] \in Nat
    BY <1>1, <1>2
  <1>5. /\ SumOf(Memory({})', Resident') <= SumOf(Memory({})', all)
        /\ SumOf(Weights', Resident') <= SumOf(Weights', all)
    BY <1>3, <1>4, SumMonotone
  <1>6. /\ SumOf(Memory({})', all) = SumOf(Memory({})', kept) + bytes
        /\ SumOf(Weights', all) = SumOf(Weights', kept) + Weight[key[1]]
    <2>1. \A j \in kept : Memory({})'[j] \in Int /\ Weights'[j] \in Int
      BY <1>2
    <2> QED  BY <1>1, <2>1, SumAdd
  <1>7. SumOf(Memory({})', kept) = SumOf(Memory(spilled), kept)
    <2>1. \A j \in kept : Memory({})'[j] \in Int /\ Memory({})'[j] = Memory(spilled)[j]
      BY <1>2
    <2> QED  BY <2>1, SumSame
  <1>8. SumOf(Weights', kept) <= SumOf(Stored(spilled), kept)
    <2>1. \A j \in kept : Weights'[j] \in Int /\ Stored(spilled)[j] \in Int /\ Weights'[j] <= Stored(spilled)[j]
      BY <1>2
    <2> QED  BY <2>1, SumOrdered
  <1>9. /\ bytes + SumOf(Memory(spilled), kept) <= Capacity
        /\ Weight[key[1]] + SumOf(Stored(spilled), kept) <= Storage
    BY DEF Fits, SumOf
  <1>10. /\ SumOf(Memory({})', Resident') \in Int /\ SumOf(Weights', Resident') \in Int
         /\ SumOf(Memory({})', kept) \in Int /\ SumOf(Weights', kept) \in Int
         /\ SumOf(Stored(spilled), kept) \in Int
    <2>1. /\ \A j \in kept : Memory({})'[j] \in Int /\ Weights'[j] \in Int /\ Stored(spilled)[j] \in Int
          /\ \A j \in Resident' : Memory({})'[j] \in Int /\ Weights'[j] \in Int
      BY <1>2, <1>3, <1>4
    <2> QED  BY <1>3, <2>1, SumRound
  <1>11. SumOf(Memory({})', Resident') <= Capacity /\ SumOf(Weights', Resident') <= Storage
    BY <1>1, <1>5, <1>6, <1>7, <1>8, <1>9, <1>10
  <1> QED  BY <1>11 DEF WithinBudgets, SumOf, MapThenSumSet, MapThenFoldSet

\* A quantum begins on a model.
LEMMA QuantumSet ==
    ASSUME NEW m \in ModelRecord, NEW r, r = [m EXCEPT !.active = m.active + 1, !.context_resident = TRUE]
    PROVE  /\ r \in ModelRecord /\ r.key = m.key /\ r.bytes = m.bytes /\ r.retiring = m.retiring
           /\ r.active = m.active + 1 /\ r.sessions = m.sessions /\ r.context_resident
  <1>1. PICK n \in Int : n = m.active + 1
    <2>1. m.active \in Int
      BY DEF ModelRecord
    <2> QED  BY <2>1
  <1>2. PICK q : q = [m EXCEPT !.active = n]
    OBVIOUS
  <1>3. /\ q \in ModelRecord /\ q.key = m.key /\ q.bytes = m.bytes /\ q.retiring = m.retiring
        /\ q.active = n /\ q.sessions = m.sessions
    BY <1>2, CountSet
  <1>4. r = [q EXCEPT !.context_resident = TRUE]
    BY <1>1, <1>2
  <1>5. /\ r \in ModelRecord /\ r.key = q.key /\ r.bytes = q.bytes /\ r.retiring = q.retiring
        /\ r.active = q.active /\ r.sessions = q.sessions /\ r.context_resident
    BY <1>3, <1>4 DEF ModelRecord
  <1> QED  BY <1>1, <1>3, <1>5

LEMMA AcquireInv ==
    ASSUME ResidencyAssumption, ResidencyInv, NEW t \in Threads, NEW spills, Acquire(t, spills)
    PROVE  ResidencyInv'
  <1>1. Typed /\ ThreadOK(t) /\ EntriesOK /\ ModelsOK /\ WithinBudgets /\ ProfileOK /\ CountsExact
    BY DEF ResidencyInv, ResidencyTypeOK, ThreadsOK, Typed, BudgetsHold, RetiredIsDrained
  <1>2. PICK i : i = thread[t].target
    OBVIOUS
  <1>3. PICK set : set = Oldest(WithContext(IdleAmong(Resident \ {i})), spills)
    OBVIOUS
  <1>4. thread[t].pc \in {"acquire", "suspended"} /\ entries[thread[t].key] = i
        /\ UNCHANGED <<entries, profile, stray>>
        /\ \/ /\ ContextFits(t, set)
              /\ models' = [Spilled(set) EXCEPT ![i].active = @ + 1, ![i].context_resident = TRUE]
              /\ Goto(t, IF thread[t].pc = "acquire" THEN "begin" ELSE "quantum")
           \/ /\ models' = Spilled(set)
              /\ thread' = [thread EXCEPT ![t] = IF @.pc = "acquire" THEN Idle
                                                 ELSE [@ EXCEPT !.pc = "drop"]]
    BY <1>2, <1>3 DEF Acquire
  <1>5. i \in DOMAIN models /\ models[i].key = thread[t].key /\ thread[t].key \in Keys /\ i # 0
        /\ i \in Resident
    <2>1. i \in DOMAIN models /\ models[i].key = thread[t].key /\ thread[t].key \in Keys
      BY <1>1, <1>2, <1>4 DEF ThreadOK, Holding
    <2>2. i # 0
      BY <1>1, <2>1, ModelsAre
    <2> QED  BY <1>4, <2>1, <2>2 DEF Resident
  <1>6. thread[t].pc # "dropped" /\ ~InQuantum(t) /\ (HasSession(t) <=> thread[t].pc = "suspended")
    BY <1>4 DEF InQuantum, HasSession
  <1>7. CASE /\ models' = Spilled(set)
             /\ thread' = [thread EXCEPT ![t] = IF @.pc = "acquire" THEN Idle
                                                ELSE [@ EXCEPT !.pc = "drop"]]
    <2>1. DOMAIN models' = DOMAIN models /\ \A j \in DOMAIN models : models'[j].key = models[j].key
      BY <1>1, <1>7, SpilledIs
    <2>2. CASE thread[t].pc = "acquire"
      <3>1. thread' = [thread EXCEPT ![t] = Idle]
        BY <1>1, <1>7, <2>2 DEF Typed
      <3>2. Typed' /\ thread'[t].pc = "idle" /\ Elsewhere(t)
        BY <1>1, <3>1, IdleIs, ThreadSet
      <3>3. ThreadOK(t)' /\ ~InQuantum(t)' /\ ~HasSession(t)'
        BY <3>2 DEF ThreadOK, Holding, InQuantum, HasSession
      <3>4. ~HasSession(t)
        BY <1>6, <2>2
      <3> QED  BY <1>4, <1>6, <1>7, <3>2, <3>3, <3>4, SpillStep
    <2>3. CASE thread[t].pc = "suspended"
      <3>1. Goto(t, "drop")
        BY <1>1, <1>7, <2>3 DEF Typed, Goto
      <3>2. /\ Typed' /\ Elsewhere(t) /\ thread'[t].pc = "drop"
            /\ thread'[t].key = thread[t].key /\ thread'[t].target = thread[t].target
        BY <1>1, <3>1, GotoIs DEF Holding
      <3>3. ThreadOK(t)' /\ ~InQuantum(t)' /\ HasSession(t)'
        BY <1>1, <1>4, <2>1, <3>2 DEF ThreadOK, Holding, InQuantum, HasSession
      <3> QED  BY <1>4, <1>6, <1>7, <2>3, <3>2, <3>3, SpillStep
    <2> QED  BY <1>4, <2>2, <2>3
  <1>8. CASE /\ ContextFits(t, set)
             /\ models' = [Spilled(set) EXCEPT ![i].active = @ + 1, ![i].context_resident = TRUE]
             /\ Goto(t, IF thread[t].pc = "acquire" THEN "begin" ELSE "quantum")
    <2>1. PICK pc \in {"begin", "quantum"} : pc = IF thread[t].pc = "acquire" THEN "begin" ELSE "quantum"
      OBVIOUS
    <2>2. /\ Typed' /\ Elsewhere(t) /\ thread'[t].pc = pc
          /\ thread'[t].key = thread[t].key /\ thread'[t].target = thread[t].target
      BY <1>1, <1>8, <2>1, GotoIs DEF Holding
    <2>3. InQuantum(t)' /\ (HasSession(t)' <=> thread[t].pc = "suspended")
      BY <1>4, <2>1, <2>2 DEF InQuantum, HasSession
    <2>4. /\ models' \in Seq(ModelRecord) /\ DOMAIN models' = DOMAIN models
          /\ \A j \in DOMAIN models :
                /\ models'[j].key = models[j].key /\ models'[j].bytes = models[j].bytes
                /\ models'[j].retiring = models[j].retiring
                /\ models'[j].active = models[j].active + (IF j = i THEN 1 ELSE 0)
                /\ models'[j].sessions = models[j].sessions
                /\ models'[j].context_resident <=> j = i \/ (models[j].context_resident /\ j \notin set)
      <3>1. PICK m \in Seq(ModelRecord) : m = Spilled(set)
        BY <1>1, SpilledIs
      <3>2. /\ DOMAIN m = DOMAIN models
            /\ \A j \in DOMAIN models :
                 /\ m[j].key = models[j].key /\ m[j].bytes = models[j].bytes
                 /\ m[j].retiring = models[j].retiring
                 /\ m[j].active = models[j].active /\ m[j].sessions = models[j].sessions
                 /\ m[j].context_resident <=> models[j].context_resident /\ j \notin set
        BY <1>1, <3>1, SpilledIs
      <3>3. m[i] \in ModelRecord
        BY <1>5, <3>2
      <3>4. PICK r : r = [m[i] EXCEPT !.active = m[i].active + 1, !.context_resident = TRUE]
        OBVIOUS
      <3>5. /\ r \in ModelRecord /\ r.key = m[i].key /\ r.bytes = m[i].bytes
            /\ r.retiring = m[i].retiring
            /\ r.active = m[i].active + 1 /\ r.sessions = m[i].sessions /\ r.context_resident
        BY <3>3, <3>4, QuantumSet
      <3>6. models' = [m EXCEPT ![i] = r]
        BY <1>5, <1>8, <3>1, <3>2, <3>4
      <3>7. /\ models' \in Seq(ModelRecord) /\ DOMAIN models' = DOMAIN m /\ models'[i] = r
            /\ \A j \in DOMAIN m : j # i => models'[j] = m[j]
        BY <1>5, <3>2, <3>5, <3>6, ModelSet
      <3>8. \A j \in DOMAIN models : models[j].active \in Int
        BY <1>1, ModelsAre
      <3> QED  BY <3>2, <3>5, <3>7, <3>8
    <2>5. ThreadOK(t)'
      BY <1>1, <1>4, <2>1, <2>2, <2>4 DEF ThreadOK, Holding
    <2>6. ModelsStay /\ ModelsOK' /\ EntriesOK' /\ ProfileOK'
      BY <1>1, <1>4, <2>4 DEF ModelsStay, ModelsOK, EntriesOK, ProfileOK
    <2>7. Follows(t)
      <3>1. \A j \in DOMAIN models : models[j].active \in Int /\ models[j].sessions \in Int
        BY <1>1, ModelsAre
      <3> QED  BY <1>2, <1>6, <2>2, <2>3, <2>4, <3>1 DEF Follows
    <2>8. \A j \in DOMAIN models : ~(IsIdle(j)' /\ ~IsIdle(j))
      <3>1. \A j \in DOMAIN models : models[j].active \in Int
        BY <1>1, ModelsAre
      <3>2. models[i].active \in Nat
        BY <1>1, <1>2, <1>5, Counted
      <3> QED  BY <2>4, <3>1, <3>2 DEF IsIdle
    <2>9. Resident' = Resident
      BY <1>4 DEF Resident
    <2>10. WithinBudgets'
      <3>1. CASE models[i].context_resident
        <4>1. \A j \in DOMAIN models : /\ j \in DOMAIN models' /\ models'[j].key = models[j].key
                                       /\ models'[j].bytes = models[j].bytes
                                       /\ models'[j].context_resident => models[j].context_resident
          BY <2>4, <3>1
        <4> QED  BY <1>1, <1>4, <2>6, <2>9, <4>1, BudgetsStay
      <3>2. CASE ~models[i].context_resident
        <4>1. Fits(thread[t].key, models[i].bytes, Resident \ {i}, set)
          BY <1>2, <1>8, <3>2 DEF ContextFits
        <4>2. PICK kept : kept = Resident \ {i}
          OBVIOUS
        <4>3. IsFiniteSet(kept) /\ kept \subseteq DOMAIN models /\ i \notin kept
              /\ Resident' \subseteq kept \cup {i}
          BY <1>1, <2>9, <4>2, ResidentIs, FS_Subset
        <4>4. ASSUME NEW j \in kept
              PROVE  Memory({})'[j] = Memory(set)[j] /\ Weights'[j] = Weights[j]
          <5>1. j \in DOMAIN models /\ j \in DOMAIN models' /\ j # i
            BY <2>4, <4>3
          <5>2. models'[j].key = models[j].key /\ models'[j].bytes = models[j].bytes
                /\ (models'[j].context_resident <=> models[j].context_resident /\ j \notin set)
            BY <2>4, <5>1
          <5> QED  BY <5>1, <5>2 DEF Memory, Weights
        <4>5. Memory({})'[i] = models[i].bytes /\ Weights'[i] = Weight[thread[t].key[1]]
          <5>1. i \in DOMAIN models' /\ models'[i].context_resident /\ models'[i].bytes = models[i].bytes
                /\ models'[i].key = thread[t].key /\ models[i].bytes \in Nat
            BY <1>1, <1>5, <2>4, ModelsAre
          <5>2. Memory({})'[i] = models[i].bytes - 0
            BY <5>1 DEF Memory
          <5>3. Weights'[i] = Weight[thread[t].key[1]]
            BY <5>1 DEF Weights
          <5> QED  BY <5>1, <5>2, <5>3
        <4>6. models[i].bytes \in Nat
          BY <1>1, <1>5, ModelsAre
        <4> QED  BY <1>1, <1>5, <4>1, <4>2, <4>3, <4>4, <4>5, <4>6, BudgetsGrow
      <3> QED  BY <3>1, <3>2
    <2>11. entries[thread'[t].key] = thread'[t].target
      BY <1>2, <1>4, <2>2
    <2> QED  BY <1>4, <1>6, <2>2, <2>4, <2>5, <2>6, <2>7, <2>8, <2>10, <2>11, ThreadStep DEF Typed
  <1> QED  BY <1>4, <1>7, <1>8

-----------------------------------------------------------------------------
(* Residency: the steps that unload models.                                *)

\* A model that nobody is in a quantum on is an earlier one of its key, when a
\* thread is in a quantum on the entry of that key.
LEMMA EarlierModel ==
    ASSUME ResidencyAssumption, ResidencyInv, NEW u \in Threads, InQuantum(u),
           entries[thread[u].key] = thread[u].target,
           NEW v \in DOMAIN models, models[v].active = 0, models[v].key = thread[u].key
    PROVE  v \in 1..(thread[u].target - 1)
  <1>1. ModelsOK /\ EntriesOK /\ ThreadOK(u) /\ CountsExact
    BY DEF ResidencyInv, ResidencyTypeOK, ThreadsOK, RetiredIsDrained
  <1>2. thread[u].target \in DOMAIN models /\ thread[u].key \in Keys
    BY <1>1 DEF ThreadOK, InQuantum, Holding
  <1>3. models[thread[u].target].active # 0
    BY <1>1, <1>2, Counted
  <1>4. DOMAIN models = 1..Len(models) /\ Len(models) \in Nat
    BY <1>1, ModelsAre
  <1>5. v <= thread[u].target
    BY <1>1, <1>2, <1>4 DEF EntriesOK
  <1>6. v # thread[u].target
    BY <1>3
  <1> QED  BY <1>2, <1>4, <1>5, <1>6

\* What stays of the entries is as it was.
LEMMA FewerEntries ==
    ASSUME EntriesOK, ModelsOK, ModelsOK', entries' \in [Keys -> Nat],
           \A k \in Keys : entries'[k] \in {0, entries[k]},
           DOMAIN models' = DOMAIN models, \A j \in DOMAIN models : models'[j].key = models[j].key
    PROVE  EntriesOK' /\ Resident' \subseteq Resident
  <1>1. EntriesOK'
    BY DEF EntriesOK
  <1> QED  BY <1>1 DEF Resident

LEMMA RemoveIfDrainedInv ==
    ASSUME ResidencyAssumption, ResidencyInv, NEW t \in Threads, RemoveIfDrained(t)
    PROVE  ResidencyInv'
  <1>1. Typed /\ ThreadsOK /\ ThreadOK(t) /\ EntriesOK /\ ModelsOK /\ WithinBudgets /\ ProfileOK
        /\ CountsExact /\ QuantumIsResident /\ stray \in BOOLEAN
        /\ \A i \in Resident : models[i].retiring /\ IsIdle(i) =>
              \E u \in Threads : thread[u].target = i /\ thread[u].pc = "dropped"
    BY DEF ResidencyInv, ResidencyTypeOK, ThreadsOK, Typed, BudgetsHold, RetiredIsDrained
  <1>2. PICK i : i = thread[t].target
    OBVIOUS
  <1>3. /\ thread[t].pc \in {"released", "dropped"} /\ UNCHANGED <<models, profile>> /\ Strays
        /\ entries' = [entries EXCEPT ![models[i].key] = IF models[i].retiring /\ IsIdle(i) THEN 0 ELSE @]
        /\ thread' = [thread EXCEPT ![t] = IF @.pc = "released" THEN [@ EXCEPT !.pc = "suspended"] ELSE Idle]
    BY <1>2 DEF RemoveIfDrained
  <1>4. i \in DOMAIN models /\ models[i].key \in Keys
    <2>1. i \in DOMAIN models
      BY <1>1, <1>2, <1>3 DEF ThreadOK, Holding
    <2> QED  BY <1>1, <2>1, ModelsAre
  <1>5. /\ entries' \in [Keys -> Nat]
        /\ \A k \in Keys : entries'[k] = IF k = models[i].key /\ models[i].retiring /\ IsIdle(i)
                                         THEN 0 ELSE entries[k]
    BY <1>1, <1>3, <1>4 DEF EntriesOK
  <1>6. /\ Typed' /\ Elsewhere(t) /\ ThreadOK(t)' /\ ~InQuantum(t) /\ ~InQuantum(t)'
        /\ (HasSession(t)' <=> HasSession(t)) /\ (HasSession(t) => thread'[t].target = i)
    <2>1. CASE thread[t].pc = "released"
      <3>1. Goto(t, "suspended")
        BY <1>1, <1>3, <2>1 DEF Typed, Goto
      <3>2. /\ Typed' /\ Elsewhere(t) /\ thread'[t].pc = "suspended"
            /\ thread'[t].key = thread[t].key /\ thread'[t].target = thread[t].target
        BY <1>1, <3>1, GotoIs DEF Holding
      <3> QED  BY <1>1, <1>2, <1>3, <2>1, <3>2 DEF ThreadOK, Holding, InQuantum, HasSession
    <2>2. CASE thread[t].pc = "dropped"
      <3>1. thread' = [thread EXCEPT ![t] = Idle]
        BY <1>1, <1>3, <2>2 DEF Typed
      <3>2. Typed' /\ thread'[t].pc = "idle" /\ Elsewhere(t)
        BY <1>1, <3>1, IdleIs, ThreadSet
      <3> QED  BY <2>2, <3>2 DEF ThreadOK, Holding, InQuantum, HasSession
    <2> QED  BY <1>3, <2>1, <2>2
  <1>7. ModelsOK' /\ ProfileOK'
    BY <1>1, <1>3 DEF ModelsOK, ProfileOK
  <1>8. EntriesOK' /\ Resident' \subseteq Resident
    BY <1>1, <1>3, <1>5, <1>7, FewerEntries
  <1>9. ThreadsOK'
    <2>1. \A u \in Threads : u # t => ThreadOK(u)'
      BY <1>1, <1>3, <1>6 DEF ThreadsOK, ThreadOK, Elsewhere
    <2> QED  BY <1>6, <2>1 DEF ThreadsOK, Typed
  <1>10. CountsExact'
    <2>1. \A j \in DOMAIN models : models[j].active \in Int /\ models[j].sessions \in Int
      BY <1>1, ModelsAre
    <2>2. Follows(t)
      BY <1>2, <1>3, <1>6, <2>1 DEF Follows
    <2> QED  BY <1>1, <1>3, <1>6, <2>2, CountsFollow
  <1>11. ASSUME NEW j \in Resident', models'[j].retiring, IsIdle(j)'
         PROVE  \E u \in Threads : thread'[u].target = j /\ thread'[u].pc = "dropped"
    <2>1. j \in Resident /\ models[j].retiring /\ IsIdle(j)
      BY <1>3, <1>8, <1>11 DEF IsIdle
    <2>2. PICK u \in Threads : thread[u].target = j /\ thread[u].pc = "dropped"
      BY <1>1, <2>1
    <2>3. CASE u # t
      BY <1>6, <2>2, <2>3 DEF Elsewhere
    <2>4. CASE u = t
      <3>1. j = i
        BY <1>2, <2>2, <2>4
      <3>2. PICK k \in Keys : entries'[k] = j /\ j # 0
        BY <1>11 DEF Resident
      <3>3. entries[k] = j /\ models[j].key = k
        BY <1>1, <1>5, <3>2 DEF EntriesOK
      <3> QED  BY <1>5, <2>1, <3>1, <3>2, <3>3
    <2> QED  BY <2>3, <2>4
  <1>12. QuantumIsResident'
    <2> SUFFICES ASSUME NEW u \in Threads, InQuantum(u)', entries'[thread'[u].key] # thread'[u].target
                 PROVE  stray' /\ \E j \in 1..(thread'[u].target - 1) : models'[j].key = thread'[u].key
      BY DEF QuantumIsResident
    <2>1. u # t /\ thread'[u] = thread[u] /\ InQuantum(u)
      BY <1>6 DEF Elsewhere, InQuantum
    <2>2. thread[u].key \in Keys
      BY <1>1, <2>1 DEF ThreadsOK, ThreadOK, InQuantum
    <2>3. CASE entries[thread[u].key] = thread[u].target
      <3>1. stray'
        BY <1>3, <2>1, <2>3 DEF Strays
      <3>2. thread[u].key = models[i].key /\ models[i].active = 0
        BY <1>5, <2>1, <2>2, <2>3 DEF IsIdle
      <3>3. i \in 1..(thread[u].target - 1)
        BY <1>4, <2>1, <2>3, <3>2, EarlierModel
      <3> QED  BY <1>3, <2>1, <3>1, <3>2, <3>3
    <2>4. CASE entries[thread[u].key] # thread[u].target
      <3>1. stray /\ \E j \in 1..(thread[u].target - 1) : models[j].key = thread[u].key
        BY <1>1, <2>1, <2>4 DEF QuantumIsResident
      <3> QED  BY <1>3, <2>1, <3>1 DEF Strays
    <2> QED  BY <2>3, <2>4
  <1>13. WithinBudgets' /\ stray' \in BOOLEAN
    <2>1. (stray => stray') /\ stray' \in BOOLEAN
      BY <1>1, <1>3 DEF Strays
    <2>2. \A j \in DOMAIN models : /\ j \in DOMAIN models' /\ models'[j].key = models[j].key
                                   /\ models'[j].bytes = models[j].bytes
                                   /\ models'[j].context_resident => models[j].context_resident
      BY <1>3
    <2> QED  BY <1>1, <1>7, <1>8, <2>1, <2>2, BudgetsStay
  <1> QED  BY <1>7, <1>8, <1>9, <1>10, <1>11, <1>12, <1>13
           DEF ResidencyInv, ResidencyTypeOK, RetiredIsDrained, BudgetsHold

LEMMA RetireInv ==
    ASSUME ResidencyAssumption, ResidencyInv, NEW keys \in SUBSET Keys, Retire(keys)
    PROVE  ResidencyInv'
  <1>1. ThreadsOK /\ EntriesOK /\ ModelsOK /\ WithinBudgets /\ ProfileOK
        /\ CountsExact /\ QuantumIsResident /\ stray \in BOOLEAN
        /\ \A i \in Resident : models[i].retiring /\ IsIdle(i) =>
              \E u \in Threads : thread[u].target = i /\ thread[u].pc = "dropped"
    BY DEF ResidencyInv, ResidencyTypeOK, BudgetsHold, RetiredIsDrained
  <1>2. UNCHANGED <<profile, thread, stray>>
    BY DEF Retire
  <1>3. /\ models' \in Seq(ModelRecord) /\ DOMAIN models' = DOMAIN models
        /\ \A j \in DOMAIN models :
             /\ models'[j].key = models[j].key /\ models'[j].bytes = models[j].bytes
             /\ models'[j].active = models[j].active /\ models'[j].sessions = models[j].sessions
             /\ models'[j].context_resident = models[j].context_resident
             /\ models'[j].retiring => models[j].retiring \/ j \in {entries[k] : k \in keys}
    <2>1. models \in Seq(ModelRecord) /\ DOMAIN models = 1..Len(models) /\ Len(models) \in Nat
          /\ \A j \in DOMAIN models : models[j] \in ModelRecord
      BY <1>1, ModelsAre
    <2>2. DOMAIN models' = 1..Len(models) /\ models' = [j \in 1..Len(models) |-> models'[j]]
      BY <2>1 DEF Retire
    <2>3. ASSUME NEW j \in DOMAIN models
          PROVE  /\ models'[j] \in ModelRecord
                 /\ models'[j].key = models[j].key /\ models'[j].bytes = models[j].bytes
                 /\ models'[j].active = models[j].active /\ models'[j].sessions = models[j].sessions
                 /\ models'[j].context_resident = models[j].context_resident
                 /\ models'[j].retiring => models[j].retiring \/ j \in {entries[k] : k \in keys}
      <3>1. models[j] \in ModelRecord
        BY <2>1
      <3>2. models'[j] = IF j \in {entries[k] : k \in keys} THEN [models[j] EXCEPT !.retiring = TRUE]
                         ELSE models[j]
        BY DEF Retire
      <3>3. CASE j \in {entries[k] : k \in keys}
        <4>1. models'[j] = [models[j] EXCEPT !.retiring = TRUE]
          BY <3>2, <3>3
        <4>2. PICK r : r = models'[j]
          OBVIOUS
        <4>3. /\ r \in ModelRecord /\ r.key = models[j].key /\ r.bytes = models[j].bytes
              /\ r.active = models[j].active /\ r.sessions = models[j].sessions
              /\ r.context_resident = models[j].context_resident
          BY <3>1, <4>1, <4>2 DEF ModelRecord
        <4> QED  BY <3>3, <4>2, <4>3
      <3>4. CASE j \notin {entries[k] : k \in keys}
        BY <3>1, <3>2, <3>4
      <3> QED  BY <3>3, <3>4
    <2>4. models' \in Seq(ModelRecord)
      BY <2>1, <2>2, <2>3
    <2> QED  BY <2>1, <2>2, <2>3, <2>4
  <1>4. /\ entries' \in [Keys -> Nat]
        /\ \A k \in Keys : entries'[k] = IF k \in keys /\ entries[k] # 0 /\ IsIdle(entries[k])
                                         THEN 0 ELSE entries[k]
    BY <1>1 DEF Retire, EntriesOK
  <1>5. ModelsOK' /\ ProfileOK'
    BY <1>1, <1>2, <1>3 DEF ModelsOK, ProfileOK
  <1>6. EntriesOK' /\ Resident' \subseteq Resident
    BY <1>1, <1>3, <1>4, <1>5, FewerEntries
  <1>7. ThreadsOK'
    BY <1>1, <1>2, <1>3 DEF ThreadsOK, ThreadOK
  <1>8. CountsExact'
    <2> SUFFICES ASSUME NEW i \in DOMAIN models
                 PROVE  /\ models'[i].active = Cardinality(Users(i)')
                        /\ models'[i].sessions = Cardinality(Owners(i)')
      BY <1>3 DEF CountsExact, Users, Owners
    <2>1. Users(i)' = Users(i) /\ Owners(i)' = Owners(i)
      BY <1>2 DEF Users, Owners, InQuantum, HasSession
    <2>2. models[i].active = Cardinality(Users(i)) /\ models[i].sessions = Cardinality(Owners(i))
      BY <1>1, CountsAre
    <2> QED  BY <1>3, <2>1, <2>2
  <1>9. ASSUME NEW j \in Resident', models'[j].retiring, IsIdle(j)'
        PROVE  \E u \in Threads : thread'[u].target = j /\ thread'[u].pc = "dropped"
    <2>1. j \in Resident /\ j \in DOMAIN models
      BY <1>1, <1>6, ResidentIs
    <2>2. IsIdle(j)
      BY <1>3, <1>9, <2>1 DEF IsIdle
    <2>3. PICK k \in Keys : entries'[k] = j /\ j # 0
      BY <1>9 DEF Resident
    <2>4. entries[k] = j /\ models[j].key = k
      BY <1>1, <1>4, <2>3 DEF EntriesOK
    <2>5. k \notin keys
      BY <1>4, <2>2, <2>3, <2>4
    <2>6. models[j].retiring
      <3> SUFFICES ASSUME ~models[j].retiring PROVE FALSE
        OBVIOUS
      <3>1. PICK l \in keys : entries[l] = j
        BY <1>3, <1>9, <2>1
      <3>2. l = k
        BY <1>1, <2>3, <2>4, <3>1 DEF EntriesOK
      <3> QED  BY <2>5, <3>1, <3>2
    <2> QED  BY <1>1, <1>2, <2>1, <2>2, <2>6
  <1>10. QuantumIsResident'
    <2> SUFFICES ASSUME NEW u \in Threads, InQuantum(u), entries'[thread[u].key] # thread[u].target
                 PROVE  stray /\ \E j \in 1..(thread[u].target - 1) : models'[j].key = thread[u].key
      BY <1>2 DEF QuantumIsResident, InQuantum
    <2>1. thread[u].key \in Keys /\ thread[u].target \in DOMAIN models
      BY <1>1 DEF ThreadsOK, ThreadOK, InQuantum, Holding
    <2>2. models[thread[u].target].active # 0
      BY <1>1, <2>1, Counted
    <2>3. entries[thread[u].key] # thread[u].target
      BY <1>4, <2>1, <2>2 DEF IsIdle
    <2>4. stray /\ \E j \in 1..(thread[u].target - 1) : models[j].key = thread[u].key
      BY <1>1, <2>3 DEF QuantumIsResident
    <2>5. \A j \in 1..(thread[u].target - 1) : j \in DOMAIN models
      BY <1>1, <2>1, ModelsAre
    <2> QED  BY <1>3, <2>4, <2>5
  <1>11. WithinBudgets'
    <2>1. \A j \in DOMAIN models : /\ j \in DOMAIN models' /\ models'[j].key = models[j].key
                                   /\ models'[j].bytes = models[j].bytes
                                   /\ models'[j].context_resident => models[j].context_resident
      BY <1>3
    <2> QED  BY <1>1, <1>2, <1>5, <1>6, <2>1, BudgetsStay
  <1> QED  BY <1>1, <1>2, <1>5, <1>6, <1>7, <1>8, <1>9, <1>10, <1>11
           DEF ResidencyInv, ResidencyTypeOK, RetiredIsDrained, BudgetsHold

\* A new model is the last of the sequence.
LEMMA ModelAdd ==
    ASSUME NEW m \in Seq(ModelRecord), NEW r \in ModelRecord
    PROVE  /\ Append(m, r) \in Seq(ModelRecord) /\ DOMAIN Append(m, r) = 1..(Len(m) + 1)
           /\ Append(m, r)[Len(m) + 1] = r
           /\ \A j \in 1..Len(m) : Append(m, r)[j] = m[j]
  OBVIOUS

LEMMA InsertInv ==
    ASSUME ResidencyAssumption, ResidencyInv, NEW t \in Threads, NEW extra \in Measured, Insert(t, extra)
    PROVE  ResidencyInv'
  <1>1. Typed /\ ThreadsOK /\ ThreadOK(t) /\ EntriesOK /\ ModelsOK /\ WithinBudgets /\ ProfileOK
        /\ CountsExact /\ QuantumIsResident /\ stray \in BOOLEAN
        /\ \A i \in Resident : models[i].retiring /\ IsIdle(i) =>
              \E u \in Threads : thread[u].target = i /\ thread[u].pc = "dropped"
    BY DEF ResidencyInv, ResidencyTypeOK, ThreadsOK, Typed, BudgetsHold, RetiredIsDrained
  <1>2. PICK key : key = thread[t].key
    OBVIOUS
  <1>3. PICK bytes : bytes = thread[t].bytes + extra
    OBVIOUS
  <1>4. PICK victims : victims = {models[v].key : v \in thread[t].victims}
    OBVIOUS
  <1>5. PICK gone : gone = {models[v].key : v \in {w \in thread[t].victims : StillVictim(w)}}
    OBVIOUS
  <1>6. PICK kept : kept = {j \in Resident : models[j].key \notin victims \/ ~StillVictim(j)}
    OBVIOUS
  <1>7. PICK n : n = Len(models) + 1
    OBVIOUS
  <1>8. PICK new : new = [key |-> key, bytes |-> bytes, active |-> 0, sessions |-> 0,
                          retiring |-> FALSE, context_resident |-> TRUE]
    OBVIOUS
  <1>9. /\ thread[t].pc = "load" /\ entries[key] = 0 /\ Fits(key, bytes, kept, {})
        /\ profile' = [profile EXCEPT ![key[1]] = bytes]
        /\ entries' = [k \in Keys |-> IF k = key THEN n ELSE IF k \in gone THEN 0 ELSE entries[k]]
        /\ models' = Append(models, new) /\ Loaded(t, n) /\ Strays
    BY <1>2, <1>3, <1>4, <1>5, <1>6, <1>7, <1>8 DEF Insert
  <1>10. key \in Keys /\ key[1] \in DOMAIN Weight /\ Context \in Nat /\ bytes \in Nat /\ bytes >= Context
         /\ thread[t].victims \subseteq DOMAIN models
    <2>1. thread[t] \in ThreadRecord
      BY <1>1 DEF Typed
    <2>2. thread[t].bytes \in Nat
      BY <2>1 DEF ThreadRecord
    <2>3. key \in Keys /\ thread[t].bytes >= Context /\ thread[t].victims \subseteq DOMAIN models
      BY <1>1, <1>2, <1>9 DEF ThreadOK
    <2>4. extra \in Nat /\ Context \in Nat /\ key[1] \in DOMAIN Weight
      BY <2>3 DEF ResidencyAssumption
    <2> QED  BY <1>3, <2>2, <2>3, <2>4
  <1>11. /\ new \in ModelRecord /\ new.key = key /\ new.bytes = bytes /\ new.active = 0
         /\ new.sessions = 0 /\ ~new.retiring /\ new.context_resident
    BY <1>8, <1>10 DEF ModelRecord
  <1>12. /\ models \in Seq(ModelRecord) /\ DOMAIN models = 1..Len(models) /\ Len(models) \in Nat
         /\ n \in Nat /\ n # 0 /\ n \notin DOMAIN models
    BY <1>1, <1>7, ModelsAre
  <1>13. /\ models' \in Seq(ModelRecord) /\ DOMAIN models' = 1..n /\ models'[n] = new
         /\ \A j \in DOMAIN models : j \in DOMAIN models' /\ models'[j] = models[j]
         /\ \A j \in DOMAIN models' : j \in DOMAIN models \/ j = n
    <2>1. /\ models' \in Seq(ModelRecord) /\ DOMAIN models' = 1..n /\ models'[n] = new
          /\ \A j \in 1..Len(models) : models'[j] = models[j]
      BY <1>7, <1>9, <1>11, <1>12, ModelAdd
    <2> QED  BY <1>7, <1>12, <2>1
  <1>14. /\ Typed' /\ Elsewhere(t)
         /\ \/ thread'[t].pc = "idle"
            \/ thread'[t].pc = "acquire" /\ thread'[t].key = key /\ thread'[t].target = n
    BY <1>1, <1>2, <1>9, <1>10, <1>12, LoadedIs
  <1>15. ThreadOK(t)' /\ ~InQuantum(t) /\ ~InQuantum(t)' /\ ~HasSession(t) /\ ~HasSession(t)'
    <2>1. ThreadOK(t)'
      <3>1. n \in DOMAIN models' /\ models'[n].key = key
        BY <1>11, <1>12, <1>13
      <3> QED  BY <1>10, <1>14, <3>1 DEF ThreadOK, Holding
    <2> QED  BY <1>9, <1>14, <2>1 DEF InQuantum, HasSession
  <1>16. ModelsOK'
    BY <1>1, <1>10, <1>11, <1>13 DEF ModelsOK
  <1>17. /\ entries' \in [Keys -> Nat] /\ entries'[key] = n
         /\ \A k \in Keys : k # key => entries'[k] = IF k \in gone THEN 0 ELSE entries[k]
    <2>1. \A k \in Keys : entries'[k] = IF k = key THEN n ELSE IF k \in gone THEN 0 ELSE entries[k]
      BY <1>9
    <2>2. \A k \in Keys : entries'[k] \in Nat
      BY <1>1, <1>12, <2>1 DEF EntriesOK
    <2> QED  BY <1>9, <1>10, <2>1, <2>2
  <1>18. EntriesOK'
    <2> SUFFICES ASSUME NEW k \in Keys, entries'[k] # 0
                 PROVE  /\ entries'[k] \in DOMAIN models'
                        /\ models'[entries'[k]].key = k
                        /\ \A j \in DOMAIN models' : models'[j].key = k => j <= entries'[k]
      BY <1>17 DEF EntriesOK
    <2>1. CASE k = key
      BY <1>11, <1>12, <1>13, <1>17, <2>1
    <2>2. CASE k # key
      <3>1. entries'[k] = entries[k]
        BY <1>17, <2>2
      <3>2. /\ entries[k] \in DOMAIN models /\ models[entries[k]].key = k
            /\ \A j \in DOMAIN models : models[j].key = k => j <= entries[k]
        BY <1>1, <3>1 DEF EntriesOK
      <3> QED  BY <1>11, <1>13, <2>2, <3>1, <3>2
    <2> QED  BY <2>1, <2>2
  <1>19. ProfileOK'
    BY <1>1, <1>9, <1>10 DEF ProfileOK
  <1>20. ThreadsOK'
    <2>1. ASSUME NEW u \in Threads, u # t  PROVE ThreadOK(u)'
      <3>1. ThreadOK(u) /\ thread'[u] = thread[u]
        BY <1>1, <1>14, <2>1 DEF ThreadsOK, Elsewhere
      <3> QED  BY <1>13, <3>1 DEF ThreadOK
    <2> QED  BY <1>14, <1>15, <2>1 DEF ThreadsOK, Typed
  <1>21. CountsExact'
    <2> SUFFICES ASSUME NEW i \in DOMAIN models'
                 PROVE  /\ models'[i].active = Cardinality(Users(i)')
                        /\ models'[i].sessions = Cardinality(Owners(i)')
      BY DEF CountsExact, Users, Owners
    <2>1. CASE i \in DOMAIN models
      <3>1. models[i].active = Cardinality(Users(i)) /\ models[i].sessions = Cardinality(Owners(i))
        BY <1>1, <2>1, CountsAre
      <3>2. Users(i)' = Users(i) /\ Owners(i)' = Owners(i)
        BY <1>14, <1>15 DEF Users, Owners, Elsewhere, InQuantum, HasSession
      <3> QED  BY <1>13, <2>1, <3>1, <3>2
    <2>2. CASE i = n
      <3>1. \A u \in Threads : InQuantum(u) \/ HasSession(u) => thread[u].target # n
        BY <1>1, <1>12 DEF ThreadsOK, ThreadOK, InQuantum, HasSession, Holding
      <3>2. Users(i)' = {} /\ Owners(i)' = {}
        BY <1>14, <1>15, <2>2, <3>1 DEF Users, Owners, Elsewhere, InQuantum, HasSession
      <3> QED  BY <1>11, <1>13, <2>2, <3>2, FS_EmptySet
    <2> QED  BY <1>13, <2>1, <2>2
  <1>22. ASSUME NEW j \in Resident', j # n
         PROVE  j \in Resident /\ \E k \in Keys : k # key /\ k \notin gone /\ entries[k] = j /\ models[j].key = k
    <2>1. PICK k \in Keys : entries'[k] = j /\ j # 0
      BY <1>22 DEF Resident
    <2>2. k # key /\ k \notin gone /\ entries[k] = j
      BY <1>17, <1>22, <2>1
    <2>3. models[j].key = k
      BY <1>1, <2>1, <2>2 DEF EntriesOK
    <2> QED  BY <2>1, <2>2, <2>3 DEF Resident
  <1>23. ASSUME NEW j \in Resident', models'[j].retiring, IsIdle(j)'
         PROVE  \E u \in Threads : thread'[u].target = j /\ thread'[u].pc = "dropped"
    <2>1. j # n
      BY <1>11, <1>13, <1>23
    <2>2. j \in Resident /\ j \in DOMAIN models
      BY <1>1, <1>22, <2>1, ResidentIs
    <2>3. models[j].retiring /\ IsIdle(j)
      BY <1>13, <1>23, <2>2 DEF IsIdle
    <2>4. PICK u \in Threads : thread[u].target = j /\ thread[u].pc = "dropped"
      BY <1>1, <2>2, <2>3
    <2> QED  BY <1>9, <1>14, <2>4 DEF Elsewhere
  <1>24. QuantumIsResident'
    <2> SUFFICES ASSUME NEW u \in Threads, InQuantum(u)', entries'[thread'[u].key] # thread'[u].target
                 PROVE  stray' /\ \E j \in 1..(thread'[u].target - 1) : models'[j].key = thread'[u].key
      BY DEF QuantumIsResident
    <2>1. u # t /\ thread'[u] = thread[u] /\ InQuantum(u)
      BY <1>14, <1>15 DEF Elsewhere, InQuantum
    <2>2. thread[u].key \in Keys /\ thread[u].target \in DOMAIN models
      BY <1>1, <2>1 DEF ThreadsOK, ThreadOK, InQuantum, Holding
    <2>3. CASE entries[thread[u].key] = thread[u].target
      <3>1. stray'
        BY <1>9, <2>1, <2>3 DEF Strays
      <3>2. thread[u].key # key /\ thread[u].key \in gone
        BY <1>9, <1>12, <1>17, <2>1, <2>2, <2>3
      <3>3. PICK v \in thread[t].victims : models[v].key = thread[u].key /\ models[v].active = 0
        BY <1>5, <3>2 DEF StillVictim
      <3>4. v \in DOMAIN models
        BY <1>10
      <3>5. v \in 1..(thread[u].target - 1)
        BY <2>1, <2>3, <3>3, <3>4, EarlierModel
      <3> QED  BY <1>13, <2>1, <3>1, <3>3, <3>4, <3>5
    <2>4. CASE entries[thread[u].key] # thread[u].target
      <3>1. stray /\ \E j \in 1..(thread[u].target - 1) : models[j].key = thread[u].key
        BY <1>1, <2>1, <2>4 DEF QuantumIsResident
      <3>2. \A j \in 1..(thread[u].target - 1) : j \in DOMAIN models
        BY <1>12, <2>2
      <3> QED  BY <1>9, <1>13, <2>1, <3>1, <3>2 DEF Strays
    <2> QED  BY <2>3, <2>4
  <1>25. (stray => stray') /\ stray' \in BOOLEAN
    BY <1>1, <1>9 DEF Strays
  <1>26. WithinBudgets'
    <2>1. CASE stray
      BY <1>25, <2>1 DEF WithinBudgets
    <2>2. CASE ~stray
      <3>1. ASSUME NEW j \in Resident', j # n  PROVE j \in kept
        <4>1. PICK k \in Keys : k # key /\ k \notin gone /\ entries[k] = j /\ models[j].key = k /\ j \in Resident
          BY <1>22, <3>1
        <4> SUFFICES ASSUME k \in victims, models[j].active = 0 PROVE FALSE
          BY <1>6, <4>1 DEF StillVictim
        <4>2. PICK v \in thread[t].victims : models[v].key = k
          BY <1>4
        <4>3. v \in DOMAIN models /\ models[v].active # 0
          BY <1>5, <1>10, <4>1, <4>2 DEF StillVictim
        <4>4. PICK u \in Threads : thread[u].target = v /\ InQuantum(u)
          BY <1>1, <4>3, CountedBy
        <4>5. thread[u].key = k
          BY <1>1, <4>2, <4>4 DEF ThreadsOK, ThreadOK, InQuantum, Holding
        <4>6. entries[k] = v
          BY <1>1, <2>2, <4>4, <4>5 DEF QuantumIsResident
        <4> QED  BY <4>1, <4>3, <4>6
      <3>2. kept \subseteq Resident /\ kept \subseteq DOMAIN models /\ IsFiniteSet(kept)
            /\ n \notin kept /\ Resident' \subseteq kept \cup {n}
        <4>1. Resident \subseteq DOMAIN models /\ IsFiniteSet(Resident)
          BY <1>1, ResidentIs
        <4>2. kept \in SUBSET Resident
          BY <1>6
        <4> QED  BY <1>12, <3>1, <4>1, <4>2, FS_Subset
      <3>3. ASSUME NEW j \in kept
            PROVE  Memory({})'[j] = Memory({})[j] /\ Weights'[j] = Weights[j]
        <4>1. j \in DOMAIN models /\ j \in DOMAIN models' /\ models'[j] = models[j]
          BY <1>13, <3>2
        <4> QED  BY <4>1 DEF Memory, Weights
      <3>4. Memory({})'[n] = bytes /\ Weights'[n] = Weight[key[1]]
        <4>1. n \in DOMAIN models' /\ models'[n].context_resident /\ models'[n].bytes = bytes
              /\ models'[n].key = key
          BY <1>11, <1>12, <1>13
        <4>2. Memory({})'[n] = bytes - 0
          BY <4>1 DEF Memory
        <4>3. Weights'[n] = Weight[key[1]]
          BY <4>1 DEF Weights
        <4> QED  BY <1>10, <4>2, <4>3
      <3> QED  BY <1>1, <1>9, <1>10, <3>2, <3>3, <3>4, BudgetsGrow
    <2> QED  BY <2>1, <2>2
  <1> QED  BY <1>16, <1>18, <1>19, <1>20, <1>21, <1>23, <1>24, <1>25, <1>26
           DEF ResidencyInv, ResidencyTypeOK, RetiredIsDrained, BudgetsHold

-----------------------------------------------------------------------------
(* Residency: the theorems.                                                *)

LEMMA ResidencyInit == ASSUME ResidencyAssumption, Init PROVE ResidencyInv
  <1>1. /\ entries \in [Keys -> Nat] /\ models = <<>> /\ thread \in [Threads -> ThreadRecord]
        /\ \A k \in Keys : entries[k] = 0
        /\ \A t \in Threads : thread[t].pc = "idle"
        /\ stray = FALSE
    BY IdleIs DEF Init
  <1>2. models \in Seq(ModelRecord) /\ DOMAIN models = {}
    BY <1>1
  <1>3. ModelsOK /\ EntriesOK
    BY <1>1, <1>2 DEF ModelsOK, EntriesOK
  <1>4. ProfileOK
    BY DEF Init, ProfileOK
  <1>5. ThreadsOK
    BY <1>1 DEF ThreadsOK, ThreadOK, Holding
  <1>6. Resident = {}
    BY <1>1 DEF Resident
  <1>7. RetiredIsDrained
    BY <1>2, <1>6 DEF RetiredIsDrained, CountsExact
  <1>8. QuantumIsResident
    BY <1>1 DEF QuantumIsResident, InQuantum
  <1>9. WithinBudgets
    <2>1. SumOf(Memory({}), {}) = 0 /\ SumOf(Weights, {}) = 0
      BY FS_EmptySet, SumRound
    <2>2. Capacity \in Nat /\ Storage \in Nat
      BY DEF ResidencyAssumption
    <2> QED  BY <1>6, <2>1, <2>2, BudgetsAre DEF MemorySum, WeightSum
  <1> QED  BY <1>1, <1>3, <1>4, <1>5, <1>7, <1>8, <1>9 DEF ResidencyInv, ResidencyTypeOK, BudgetsHold

LEMMA ResidencyNext == ASSUME ResidencyAssumption, ResidencyInv, [Next]_vars PROVE ResidencyInv'
  <1>1. CASE UNCHANGED vars
    <2>1. UNCHANGED <<entries, models, profile, thread, stray>>
      BY <1>1 DEF vars
    <2>2. ModelsOK' /\ EntriesOK' /\ ProfileOK' /\ ThreadsOK' /\ stray' \in BOOLEAN
      BY <2>1 DEF ResidencyInv, ResidencyTypeOK, ModelsOK, EntriesOK, ProfileOK, ThreadsOK, ThreadOK
    <2>3. CountsExact'
      <3>1. \A i \in DOMAIN models : Users(i)' = Users(i) /\ Owners(i)' = Owners(i)
        BY <2>1 DEF Users, Owners, InQuantum, HasSession
      <3>2. \A i \in DOMAIN models : /\ models'[i].active = Cardinality(Users(i)')
                                     /\ models'[i].sessions = Cardinality(Owners(i)')
        BY <2>1, <3>1, CountsAre DEF ResidencyInv, RetiredIsDrained
      <3> QED  BY <2>1, <3>2 DEF CountsExact, Users, Owners
    <2>5. RetiredIsDrained'
      BY <2>1, <2>3 DEF ResidencyInv, RetiredIsDrained, Resident, IsIdle
    <2>6. QuantumIsResident'
      BY <2>1 DEF ResidencyInv, BudgetsHold, QuantumIsResident, InQuantum
    <2>4. WithinBudgets'
      <3>1. ModelsOK /\ EntriesOK /\ WithinBudgets
        BY DEF ResidencyInv, ResidencyTypeOK, BudgetsHold
      <3>2. Resident' \subseteq Resident
        BY <2>1 DEF Resident
      <3> QED  BY <2>1, <2>2, <3>1, <3>2, BudgetsStay
    <2> QED  BY <2>2, <2>4, <2>5, <2>6 DEF ResidencyInv, ResidencyTypeOK, BudgetsHold
  <1>2. ASSUME NEW t \in Threads, NEW key \in Keys,
               Request(t, key, "start") \/ Request(t, key, "prepare")
        PROVE  ResidencyInv'
    BY <1>2, RequestInv
  <1>3. ASSUME NEW t \in Threads, Work(t)  PROVE ResidencyInv'
    <2>1. CASE LoadHit(t) \/ InsertHit(t)
      BY <2>1, LoadHitInv
    <2>2. CASE LoadMiss(t)
      BY <2>2, LoadMissInv
    <2>3. CASE LoadFails(t)
      BY <2>3, LoadFailsInv
    <2>4. ASSUME NEW n \in 0..Cardinality(Keys), LoadPlan(t, n) \/ Acquire(t, n)  PROVE ResidencyInv'
      BY <2>4, LoadPlanInv, AcquireInv
    <2>5. ASSUME NEW extra \in Measured, Insert(t, extra)  PROVE ResidencyInv'
      BY <2>5, InsertInv
    <2>6. CASE AcquireGone(t)
      BY <2>6, AcquireGoneInv
    <2>7. CASE Begin(t)
      BY <2>7, BeginInv
    <2>8. CASE Quantum(t)
      BY <2>8, QuantumInv
    <2>9. CASE Release(t)
      BY <2>9, ReleaseInv
    <2>10. CASE RemoveIfDrained(t)
      BY <2>10, RemoveIfDrainedInv
    <2> QED  BY <1>3, <2>1, <2>2, <2>3, <2>4, <2>5, <2>6, <2>7, <2>8, <2>9, <2>10 DEF Work
  <1>4. ASSUME NEW t \in Threads, DropSession(t)  PROVE ResidencyInv'
    BY <1>4, DropSessionInv
  <1>5. ASSUME NEW key \in Keys, CommitModel(key) \/ RetireModel(key)  PROVE ResidencyInv'
    <2>1. {k \in Keys : k[1] = key[1] /\ k[2] # key[2]} \in SUBSET Keys /\ {key} \in SUBSET Keys
      OBVIOUS
    <2>2. PICK keys \in SUBSET Keys : Retire(keys)
      BY <1>5, <2>1 DEF CommitModel, RetireModel
    <2> QED  BY <2>2, RetireInv
  <1> QED  BY <1>1, <1>2, <1>3, <1>4, <1>5 DEF Next

\* The inductive invariant of residency.
THEOREM ResidencyInvariant == OperationsSpec => []ResidencyInv
  <1> USE OperationsAssumption DEF OperationsAssumption
  <1>1. OperationsInit => ResidencyInv
    BY ResidencyInit DEF OperationsInit
  <1>2. ResidencyInv /\ [OperationsNext]_operationsVars => ResidencyInv'
    <2> SUFFICES ASSUME ResidencyInv, [OperationsNext]_operationsVars PROVE ResidencyInv'
      OBVIOUS
    <2>1. [Next]_vars
      BY DEF OperationsNext, CacheStep, DaemonStep, ResidencyStep, RecordsStep, operationsVars, vars
    <2> QED  BY <2>1, ResidencyNext
  <1> QED  BY <1>1, <1>2, PTL DEF OperationsSpec

\* Whatever is loaded, measured, spilled and reloaded by whatever threads, the budgets
\* hold at every moment and a quantum runs on a model that is still resident, up to what
\* the removal of victims by their keys may do to a later model (load, acquire_entry).
THEOREM BudgetsAlwaysHold == OperationsSpec => []BudgetsHold
  <1>1. ResidencyInv => BudgetsHold
    BY DEF ResidencyInv
  <1> QED  BY <1>1, ResidencyInvariant, PTL

\* The counters that decide about unloading are exact, and a retiring model that nobody
\* uses is about to be removed by the last who did (release_entry,
\* ResidentSession::drop, retire_model).
THEOREM RetiredAlwaysDrained == OperationsSpec => []RetiredIsDrained
  <1>1. ResidencyInv => RetiredIsDrained
    BY DEF ResidencyInv
  <1> QED  BY <1>1, ResidencyInvariant, PTL

=============================================================================
