---------------------------- MODULE StorageProofs ----------------------------
(***************************************************************************)
(* Proofs about the two stores beneath the engine: PhysicalManager, for    *)
(* any number of representations of any sizes, any capacities, contexts,   *)
(* transition ids and growth ids; and ContextStore, for any tokens and     *)
(* epochs and any number of contexts, revisions and publications.          *)
(*                                                                         *)
(* The argument for the physical manager: what a context has bound, a      *)
(* transition prepared or a transfer carries has a reference count that is *)
(* the number of these owners, hence not zero, hence is protected; and the *)
(* only copies a step takes away are of representations that are not.      *)
(*                                                                         *)
(* The argument for the context store: every stored mapping has its parent *)
(* stored and counts exactly the contexts and the mappings that refer to   *)
(* it.  What reclaim removes is a path upwards from a mapping nobody owns, *)
(* each with the one before as its only dependent; so what is left has its *)
(* parent still, and only the parent of the last one removed loses a       *)
(* dependent, and has another owner.                                       *)
(***************************************************************************)
EXTENDS PhysicalManager, ContextStore, Sums

Binders(r) == {c \in Contexts : r \in binding[c]}
Preparers(r) == {t \in Transitions : r \in prepared[t].reps}
Carriers(r) == {t \in Transitions : prepared[t].xfer[r] = "pending"}

\* A transition in use has one context, and carries only what it prepares.
TransitionsAreWhole ==
    \A t \in Transitions :
        /\ prepared[t].reps # {} => \E c \in Contexts : prepared[t].ctx = {c}
        /\ \A r \in Reps : prepared[t].xfer[r] = "pending" => r \in prepared[t].reps

Inv ==
    /\ TypeOK
    /\ CountsAreExact
    /\ OwnersAreValid
    /\ CopiesFit
    /\ TablesAreCurrent
    /\ TransitionsAreWhole

-----------------------------------------------------------------------------
(* Bytes.                                                                  *)

\* Sets of representations are finite.
LEMMA RepsFinite == ASSUME NEW S \in SUBSET Reps PROVE IsFiniteSet(S)
  <1>1. IsFiniteSet(1..MaxReps)
    BY SizesAssumption, FS_Interval
  <1> QED  BY <1>1, FS_Subset DEF Reps

\* What is in the table, and the copies, are representations.
LEMMA RepsKnown ==
    ASSUME TypeOK
    PROVE  reps \in SUBSET Reps /\ dev \in SUBSET Reps /\ host \in SUBSET Reps
           /\ sto \in SUBSET Reps /\ Evictable \in SUBSET Reps
  <1>1. clock \in 0..MaxReps /\ reps \subseteq 1..clock /\ MaxReps \in Nat
    BY SizesAssumption DEF TypeOK
  <1>2. reps \in SUBSET Reps
    BY <1>1 DEF Reps
  <1>3. dev \subseteq reps /\ host \subseteq reps /\ sto \subseteq reps
    BY DEF TypeOK
  <1> QED  BY <1>2, <1>3 DEF Evictable

LEMMA BytesAreSums == ASSUME NEW S PROVE BytesIn(S) = SumOf(BytesOf, S)
  BY DEF BytesIn, SumOf

\* The bytes of a set are a natural number, and those of a subset are no more.
LEMMA BytesNat == ASSUME NEW S \in SUBSET Reps PROVE BytesIn(S) \in Nat
  <1>1. IsFiniteSet(S) /\ \A r \in S : BytesOf[r] \in Nat
    BY RepsFinite, SizesAssumption
  <1> QED  BY <1>1, SumNat, BytesAreSums

LEMMA BytesMonotone ==
    ASSUME NEW S \in SUBSET Reps, NEW T \in SUBSET S PROVE BytesIn(T) <= BytesIn(S)
  <1>1. IsFiniteSet(S) /\ \A r \in S : BytesOf[r] \in Nat
    BY RepsFinite, SizesAssumption
  <1> QED  BY <1>1, SumMonotone, BytesAreSums

LEMMA BytesAdd ==
    ASSUME NEW S \in SUBSET Reps, NEW r \in Reps, r \notin S
    PROVE  BytesIn(S \cup {r}) = BytesIn(S) + BytesOf[r]
  <1>1. IsFiniteSet(S) /\ \A q \in S : BytesOf[q] \in Int
    BY RepsFinite, SizesAssumption
  <1>2. BytesOf[r] \in Int
    BY SizesAssumption
  <1> QED  BY <1>1, <1>2, SumAdd, BytesAreSums

LEMMA NoBytes == BytesIn({}) = 0
  <1>1. IsFiniteSet({}) /\ \A q \in {} : BytesOf[q] \in Int
    BY RepsFinite
  <1>2. SumOf(BytesOf, {}) = 0
    BY <1>1, SumRound
  <1> QED  BY <1>2, BytesAreSums

-----------------------------------------------------------------------------
(* The rounds of an eviction.                                              *)

\* The order of eviction is total, so of two rounds one has evicted all that the
\* other has.
LEMMA RoundsNest ==
    ASSUME TypeOK, NEW V \in Rounds, NEW W \in Rounds PROVE V \subseteq W \/ W \subseteq V
  <1>1. \A r \in Reps : Reuse[r] \in Nat /\ lastUsed[r] \in Nat /\ r \in Nat
    BY SizesAssumption DEF TypeOK, Reps
  <1>2. Evictable \subseteq Reps
    BY RepsKnown
  <1>3. \A p, q, r \in Evictable : EvictedBefore(p, q) /\ EvictedBefore(q, r) => EvictedBefore(p, r)
    BY <1>1, <1>2 DEF EvictedBefore
  <1>4. \A q, r \in Evictable : q = r \/ EvictedBefore(q, r) \/ EvictedBefore(r, q)
    BY <1>1, <1>2 DEF EvictedBefore
  <1> DEFINE Upto(r) == {q \in Evictable : q = r \/ EvictedBefore(q, r)}
  <1>5. \A q, r \in Evictable : Upto(q) \subseteq Upto(r) \/ Upto(r) \subseteq Upto(q)
    BY <1>3, <1>4
  <1> QED  BY <1>5 DEF Rounds

\* What ensure_device_space evicts is unprotected; and when it has found space,
\* the bytes fit.
LEMMA VictimsMakeRoom ==
    ASSUME TypeOK, NEW bytes
    PROVE  /\ Victims(bytes) \subseteq Evictable
           /\ HasSpace(bytes) => BytesIn(dev \ Victims(bytes)) + bytes <= DeviceBytes
  <1>1. CASE ~HasSpace(bytes)
    BY <1>1 DEF Victims
  <1>2. CASE HasSpace(bytes)
    <2>1. Enough(bytes) \in SUBSET (SUBSET Evictable) /\ Enough(bytes) # {}
      BY <1>2 DEF Enough, Rounds, HasSpace
    <2>2. IsFiniteSet(Evictable)
      <3>1. Evictable \in SUBSET Reps
        BY RepsKnown
      <3> QED  BY <3>1, RepsFinite
    <2>3. PICK V \in Enough(bytes) : \A W \in Enough(bytes) : W \subseteq V => W = V
      BY <2>1, <2>2, SmallestSubset
    <2>4. \A W \in Enough(bytes) : V \subseteq W
      BY <2>3, RoundsNest DEF Enough
    <2>5. Victims(bytes) \in Enough(bytes)
      BY <1>2, <2>4 DEF Victims
    <2> QED  BY <2>1, <2>5 DEF Enough
  <1> QED  BY <1>1, <1>2

-----------------------------------------------------------------------------
(* Owners protect.                                                         *)

\* Whoever refers to a representation protects it.
LEMMA OwnersProtect ==
    ASSUME Inv
    PROVE  /\ \A c \in Contexts : \A r \in binding[c] : active[r] # 0 /\ Protected(r)
           /\ \A t \in Transitions : \A r \in prepared[t].reps : reservations[r] # 0 /\ Protected(r)
           /\ \A t \in Transitions, r \in Reps :
                prepared[t].xfer[r] = "pending" => transfers[r] # 0 /\ Protected(r)
           /\ \A r \in Reps : detached[r] # 0 => transfers[r] # 0 /\ Protected(r)
  <1>1. \A r \in Reps : /\ Binders(r) \in SUBSET Contexts
                        /\ Preparers(r) \in SUBSET Transitions
                        /\ Carriers(r) \in SUBSET Transitions
    BY DEF Binders, Preparers, Carriers
  <1>2. ASSUME NEW r \in Reps
        PROVE  /\ active[r] = Cardinality(Binders(r))
               /\ reservations[r] = Cardinality(Preparers(r))
               /\ transfers[r] = Cardinality(Carriers(r)) + detached[r]
    BY DEF Inv, CountsAreExact, Binders, Preparers, Carriers
  <1>3. ASSUME NEW S, IsFiniteSet(S), NEW A \in SUBSET S
        PROVE  Cardinality(A) \in Nat /\ \A x \in A : Cardinality(A) # 0
    BY <1>3, CountChange
  <1>4. ASSUME NEW c \in Contexts, NEW r \in binding[c] PROVE active[r] # 0
    <2>1. r \in Reps /\ c \in Binders(r)
      BY DEF Inv, TypeOK, Binders
    <2> QED  BY <1>1, <1>2, <1>3, <2>1, FiniteAssumption
  <1>5. ASSUME NEW t \in Transitions, NEW r \in prepared[t].reps PROVE reservations[r] # 0
    <2>1. r \in Reps /\ t \in Preparers(r)
      BY DEF Inv, TypeOK, Prepareds, Preparers
    <2> QED  BY <1>1, <1>2, <1>3, <2>1, FiniteAssumption
  <1>6. ASSUME NEW r \in Reps PROVE Cardinality(Carriers(r)) \in Nat /\ detached[r] \in Nat
    BY <1>1, <1>3, FiniteAssumption DEF Inv, TypeOK
  <1>7. ASSUME NEW t \in Transitions, NEW r \in Reps, prepared[t].xfer[r] = "pending"
        PROVE  transfers[r] # 0
    <2>1. t \in Carriers(r)
      BY <1>7 DEF Carriers
    <2>2. Cardinality(Carriers(r)) # 0
      BY <1>1, <1>3, <2>1, FiniteAssumption
    <2> QED  BY <1>2, <1>6, <2>2
  <1>8. ASSUME NEW r \in Reps, detached[r] # 0 PROVE transfers[r] # 0
    BY <1>2, <1>6, <1>8
  <1> QED  BY <1>4, <1>5, <1>7, <1>8 DEF Protected

-----------------------------------------------------------------------------
(* Steps that move copies.                                                 *)

\* The device keeps every protected copy it has.
LosesOnlyEvictable == dev \subseteq dev' \cup Evictable

\* A step that moves copies and reserves growth, and touches no owner.
LEMMA CopiesMove ==
    ASSUME Inv, LosesOnlyEvictable, CopiesFit', growth' \in [Growths -> Nat],
           dev' \subseteq reps, host' \subseteq reps, sto' \subseteq reps,
           UNCHANGED <<clock, reps, counts, lastUsed, binding, table, prepared, detached>>
    PROVE  Inv'
  <1> USE DEF counts
  <1>1. TypeOK'
    BY DEF Inv, TypeOK
  <1>2. CountsAreExact'
    BY DEF Inv, CountsAreExact
  <1>3. \A c \in Contexts : binding[c] \subseteq dev'
    <2>1. \A c \in Contexts : binding[c] \subseteq dev
      BY DEF Inv, OwnersAreValid
    <2>2. \A c \in Contexts : \A r \in binding[c] : r \notin Evictable
      BY OwnersProtect DEF Evictable
    <2> QED  BY <2>1, <2>2 DEF LosesOnlyEvictable
  <1>4. OwnersAreValid'
    BY <1>3 DEF Inv, OwnersAreValid
  <1>5. TablesAreCurrent'
    BY <1>3 DEF Inv, TablesAreCurrent
  <1>6. TransitionsAreWhole'
    BY DEF Inv, TransitionsAreWhole
  <1> QED  BY <1>1, <1>2, <1>4, <1>5, <1>6 DEF Inv

\* Fewer copies fit where the copies did.
LEMMA FewerFit ==
    ASSUME Inv, dev' \in SUBSET dev, host' \in SUBSET host PROVE CopiesFit'
  <1>1. dev \in SUBSET Reps /\ host \in SUBSET Reps /\ DeviceBytes \in Nat /\ HostBytes \in Nat
    BY RepsKnown, SizesAssumption DEF Inv
  <1>2. BytesIn(dev) <= DeviceBytes /\ BytesIn(host) <= HostBytes
    BY DEF Inv, CopiesFit, DeviceUsed, HostUsed
  <1>3. BytesIn(dev') <= BytesIn(dev) /\ BytesIn(host') <= BytesIn(host)
    BY <1>1, BytesMonotone
  <1>4. BytesIn(dev) \in Nat /\ BytesIn(host) \in Nat /\ BytesIn(dev') \in Nat /\ BytesIn(host') \in Nat
    BY <1>1, BytesNat
  <1>5. BytesIn(dev') <= DeviceBytes /\ BytesIn(host') <= HostBytes
    BY <1>1, <1>2, <1>3, <1>4
  <1> QED  BY <1>5 DEF CopiesFit, DeviceUsed, HostUsed

\* A copy for which ensure_device_space has found space fits.
LEMMA OneMoreFits ==
    ASSUME Inv, NEW r \in Reps, r \notin dev, HasSpace(BytesOf[r]),
           dev' = (dev \ Victims(BytesOf[r])) \cup {r}, host' = host
    PROVE  CopiesFit' /\ LosesOnlyEvictable
  <1> DEFINE rest == dev \ Victims(BytesOf[r])
  <1>1. Victims(BytesOf[r]) \subseteq Evictable /\ BytesIn(rest) + BytesOf[r] <= DeviceBytes
    BY VictimsMakeRoom DEF Inv
  <1>2. rest \in SUBSET Reps /\ r \notin rest
    BY RepsKnown DEF Inv
  <1>3. BytesIn(rest \cup {r}) = BytesIn(rest) + BytesOf[r]
    BY <1>2, BytesAdd
  <1>4. BytesIn(dev') <= DeviceBytes
    BY <1>1, <1>3
  <1>5. BytesIn(host') <= HostBytes
    BY DEF Inv, CopiesFit, HostUsed
  <1> QED  BY <1>1, <1>4, <1>5 DEF CopiesFit, DeviceUsed, HostUsed, LosesOnlyEvictable

LEMMA EvictInVainInv ==
    ASSUME Inv, NEW bytes, EvictInVain(bytes) PROVE Inv'
  <1>1. Victims(bytes) \subseteq Evictable
    BY VictimsMakeRoom DEF Inv
  <1>2. CopiesFit'
    BY FewerFit DEF EvictInVain
  <1>3. LosesOnlyEvictable /\ dev' \subseteq reps /\ host' \subseteq reps /\ sto' \subseteq reps
    BY <1>1 DEF EvictInVain, LosesOnlyEvictable, Inv, TypeOK
  <1>4. growth' \in [Growths -> Nat]
    BY DEF EvictInVain, Inv, TypeOK
  <1> QED  BY <1>2, <1>3, <1>4, CopiesMove DEF EvictInVain

LEMMA DemoteToHostInv == ASSUME Inv, NEW r \in Reps, DemoteToHost(r) PROVE Inv'
  <1>1. HostUsed' <= HostBytes
    <2>1. CASE r \in host
      <3>1. host' = host
        BY <2>1 DEF DemoteToHost
      <3> QED  BY <3>1 DEF Inv, CopiesFit, HostUsed
    <2>2. CASE r \notin host
      <3>1. host \in SUBSET Reps
        BY RepsKnown DEF Inv
      <3>2. BytesIn(host \cup {r}) = BytesIn(host) + BytesOf[r]
        BY <2>2, <3>1, BytesAdd
      <3> QED  BY <2>2, <3>2 DEF DemoteToHost, HasHostCapacity, HostUsed
    <2> QED  BY <2>1, <2>2
  <1>2. DeviceUsed' <= DeviceBytes
    <2>1. dev \in SUBSET Reps /\ dev' \in SUBSET dev
      BY RepsKnown DEF Inv, DemoteToHost
    <2>2. BytesIn(dev') <= BytesIn(dev) /\ BytesIn(dev') \in Nat /\ BytesIn(dev) \in Nat
      BY <2>1, BytesMonotone, BytesNat
    <2> QED  BY <2>2, SizesAssumption DEF Inv, CopiesFit, DeviceUsed
  <1>3. CopiesFit'
    BY <1>1, <1>2 DEF CopiesFit
  <1>4. LosesOnlyEvictable /\ dev' \subseteq reps /\ host' \subseteq reps /\ sto' \subseteq reps
    BY DEF DemoteToHost, LosesOnlyEvictable, Evictable, Inv, TypeOK
  <1>5. growth' \in [Growths -> Nat]
    BY DEF DemoteToHost, Inv, TypeOK
  <1> QED  BY <1>3, <1>4, <1>5, CopiesMove DEF DemoteToHost

LEMMA DemoteToStorageInv == ASSUME Inv, NEW r \in Reps, DemoteToStorage(r) PROVE Inv'
  <1>1. CopiesFit'
    BY FewerFit DEF DemoteToStorage
  <1>2. LosesOnlyEvictable /\ dev' \subseteq reps /\ host' \subseteq reps /\ sto' \subseteq reps
    BY DEF DemoteToStorage, LosesOnlyEvictable, Evictable, Inv, TypeOK
  <1>3. growth' \in [Growths -> Nat]
    BY DEF DemoteToStorage, Inv, TypeOK
  <1> QED  BY <1>1, <1>2, <1>3, CopiesMove DEF DemoteToStorage

LEMMA EvictInv == ASSUME Inv, NEW r \in Reps, NEW tier \in Tiers, Evict(r, tier) PROVE Inv'
  <1>1. CopiesFit'
    BY FewerFit DEF Evict
  <1>2. LosesOnlyEvictable /\ dev' \subseteq reps /\ host' \subseteq reps /\ sto' \subseteq reps
    BY DEF Evict, LosesOnlyEvictable, Evictable, Inv, TypeOK
  <1>3. growth' \in [Growths -> Nat]
    BY DEF Evict, Inv, TypeOK
  <1> QED  BY <1>1, <1>2, <1>3, CopiesMove DEF Evict

LEMMA ReserveGrowthInv ==
    ASSUME Inv, NEW g \in Growths, NEW b \in GrowthSizes, ReserveGrowth(g, b) PROVE Inv'
  <1>1. CASE EvictInVain(b)
    BY <1>1, EvictInVainInv
  <1>2. CASE ~EvictInVain(b)
    <2>0. /\ dev' = dev \ Victims(b)
          /\ growth' = [growth EXCEPT ![g] = b]
          /\ UNCHANGED <<clock, reps, host, sto, counts, lastUsed, binding, table,
                         prepared, detached>>
      BY <1>2 DEF ReserveGrowth
    <2>1. Victims(b) \subseteq Evictable
      BY VictimsMakeRoom DEF Inv
    <2>2. CopiesFit'
      BY <2>0, FewerFit
    <2>3. LosesOnlyEvictable /\ dev' \subseteq reps /\ host' \subseteq reps /\ sto' \subseteq reps
      BY <2>0, <2>1 DEF LosesOnlyEvictable, Inv, TypeOK
    <2>4. growth' \in [Growths -> Nat]
      BY <2>0, SizesAssumption DEF Inv, TypeOK
    <2> QED  BY <2>0, <2>2, <2>3, <2>4, CopiesMove
  <1> QED  BY <1>1, <1>2

LEMMA ReleaseGrowthInv == ASSUME Inv, NEW g \in Growths, ReleaseGrowth(g) PROVE Inv'
  <1> USE DEF copies
  <1>1. CopiesFit'
    BY FewerFit DEF ReleaseGrowth
  <1>2. LosesOnlyEvictable /\ dev' \subseteq reps /\ host' \subseteq reps /\ sto' \subseteq reps
    BY DEF ReleaseGrowth, LosesOnlyEvictable, Inv, TypeOK
  <1>3. growth' \in [Growths -> Nat]
    BY DEF ReleaseGrowth, Inv, TypeOK
  <1> QED  BY <1>1, <1>2, <1>3, CopiesMove DEF ReleaseGrowth

\* A recomputed or transferred representation gains a device copy.
LEMMA GainFits ==
    ASSUME Inv, NEW r \in reps, GainDevice(r), host' = host
    PROVE  CopiesFit' /\ LosesOnlyEvictable /\ dev' \subseteq reps
  <1>1. CASE r \in dev
    BY <1>1, FewerFit DEF GainDevice, LosesOnlyEvictable, Inv, TypeOK
  <1>2. CASE r \notin dev
    <2>1. r \in Reps
      BY RepsKnown DEF Inv
    <2>2. HasSpace(BytesOf[r]) /\ dev' = (dev \ Victims(BytesOf[r])) \cup {r}
      BY <1>2 DEF GainDevice
    <2>3. dev' \subseteq reps
      BY <2>2 DEF Inv, TypeOK
    <2> QED  BY <1>2, <2>1, <2>2, <2>3, OneMoreFits
  <1> QED  BY <1>1, <1>2

LEMMA CompleteRecomputeInv ==
    ASSUME Inv, NEW t \in Transitions, NEW r \in Reps, CompleteRecompute(t, r) PROVE Inv'
  <1>1. r \in reps
    BY DEF CompleteRecompute, Inv, OwnersAreValid
  <1>2. CopiesFit' /\ LosesOnlyEvictable /\ dev' \subseteq reps
    BY <1>1, GainFits DEF CompleteRecompute
  <1>3. host' \subseteq reps /\ sto' \subseteq reps /\ growth' \in [Growths -> Nat]
    BY DEF CompleteRecompute, Inv, TypeOK
  <1> QED  BY <1>2, <1>3, CopiesMove DEF CompleteRecompute

-----------------------------------------------------------------------------
(* Steps that change the owners.  Each changes one binding or one          *)
(* transition, so a count changes by what that owner was and is.           *)

One(p) == IF p THEN 1 ELSE 0

LEMMA BindersChange ==
    ASSUME Inv, NEW c \in Contexts, \A d \in Contexts \ {c} : binding'[d] = binding[d],
           NEW r \in Reps
    PROVE  /\ active[r] \in Nat
           /\ Cardinality(Binders(r)') = active[r] - One(r \in binding[c]) + One(r \in binding'[c])
           /\ Cardinality(Binders(r)') \in Nat
  <1>1. Binders(r) \in SUBSET Contexts /\ Binders(r)' \in SUBSET Contexts
        /\ Binders(r) \ {c} = Binders(r)' \ {c}
    BY DEF Binders
  <1>2. /\ Cardinality(Binders(r)) \in Nat /\ Cardinality(Binders(r)') \in Nat
        /\ Cardinality(Binders(r)') = Cardinality(Binders(r)) - One(c \in Binders(r))
                                                             + One(c \in Binders(r)')
    BY <1>1, CountChange, FiniteAssumption DEF One
  <1>3. (c \in Binders(r) <=> r \in binding[c]) /\ (c \in Binders(r)' <=> r \in binding'[c])
    BY DEF Binders
  <1>4. active[r] = Cardinality(Binders(r))
    BY DEF Inv, CountsAreExact, Binders
  <1> QED  BY <1>2, <1>3, <1>4 DEF One

LEMMA PreparersChange ==
    ASSUME Inv, NEW t \in Transitions, \A u \in Transitions \ {t} : prepared'[u] = prepared[u],
           NEW r \in Reps
    PROVE  /\ reservations[r] \in Nat
           /\ Cardinality(Preparers(r)') = reservations[r] - One(r \in prepared[t].reps)
                                                          + One(r \in prepared'[t].reps)
           /\ Cardinality(Preparers(r)') \in Nat
  <1>1. Preparers(r) \in SUBSET Transitions /\ Preparers(r)' \in SUBSET Transitions
        /\ Preparers(r) \ {t} = Preparers(r)' \ {t}
    BY DEF Preparers
  <1>2. /\ Cardinality(Preparers(r)) \in Nat /\ Cardinality(Preparers(r)') \in Nat
        /\ Cardinality(Preparers(r)') = Cardinality(Preparers(r)) - One(t \in Preparers(r))
                                                                 + One(t \in Preparers(r)')
    BY <1>1, CountChange, FiniteAssumption DEF One
  <1>3. (t \in Preparers(r) <=> r \in prepared[t].reps)
        /\ (t \in Preparers(r)' <=> r \in prepared'[t].reps)
    BY DEF Preparers
  <1>4. reservations[r] = Cardinality(Preparers(r))
    BY DEF Inv, CountsAreExact, Preparers
  <1> QED  BY <1>2, <1>3, <1>4 DEF One

LEMMA CarriersChange ==
    ASSUME Inv, NEW t \in Transitions, \A u \in Transitions \ {t} : prepared'[u] = prepared[u],
           NEW r \in Reps
    PROVE  /\ transfers[r] \in Nat /\ detached[r] \in Nat
           /\ Cardinality(Carriers(r)') = transfers[r] - detached[r]
                                             - One(prepared[t].xfer[r] = "pending")
                                             + One(prepared'[t].xfer[r] = "pending")
           /\ Cardinality(Carriers(r)') \in Nat
  <1>1. Carriers(r) \in SUBSET Transitions /\ Carriers(r)' \in SUBSET Transitions
        /\ Carriers(r) \ {t} = Carriers(r)' \ {t}
    BY DEF Carriers
  <1>2. /\ Cardinality(Carriers(r)) \in Nat /\ Cardinality(Carriers(r)') \in Nat
        /\ Cardinality(Carriers(r)') = Cardinality(Carriers(r)) - One(t \in Carriers(r))
                                                               + One(t \in Carriers(r)')
    BY <1>1, CountChange, FiniteAssumption DEF One
  <1>3. (t \in Carriers(r) <=> prepared[t].xfer[r] = "pending")
        /\ (t \in Carriers(r)' <=> prepared'[t].xfer[r] = "pending")
    BY DEF Carriers
  <1>4. transfers[r] = Cardinality(Carriers(r)) + detached[r] /\ detached[r] \in Nat
    BY DEF Inv, CountsAreExact, Carriers, TypeOK
  <1> QED  BY <1>2, <1>3, <1>4 DEF One

\* The counts are exact when each is the number of its owners.
LEMMA CountsFromOwners ==
    ASSUME \A r \in Reps : /\ active'[r] = Cardinality(Binders(r)')
                           /\ reservations'[r] = Cardinality(Preparers(r)')
                           /\ transfers'[r] = Cardinality(Carriers(r)') + detached'[r]
    PROVE  CountsAreExact'
  BY DEF CountsAreExact, Binders, Preparers, Carriers

\* Bump counts up and down.
LEMMA BumpValue ==
    ASSUME NEW f, NEW S, NEW n, NEW r \in Reps
    PROVE  Bump(f, S, n)[r] = IF r \in S THEN f[r] + n ELSE f[r]
  BY DEF Bump

\* No transition owns nothing.
LEMMA NothingPrepared ==
    /\ NoTransition \in Prepareds
    /\ NoTransition.reps = {}
    /\ \A r \in Reps : NoTransition.xfer[r] # "pending"
  <1>1. [r \in Reps |-> "none"] \in [Reps -> XferStates]
    BY DEF XferStates
  <1> QED  BY <1>1 DEF NoTransition, Prepareds

LEMMA InitInv == ASSUME Init PROVE Inv
  <1>1. TypeOK
    BY SizesAssumption, NothingPrepared DEF Init, TypeOK
  <1>2. CountsAreExact
    <2>1. ASSUME NEW r \in Reps
          PROVE  Binders(r) = {} /\ Preparers(r) = {} /\ Carriers(r) = {}
      BY NothingPrepared DEF Init, Binders, Preparers, Carriers
    <2>2. Cardinality({}) = 0
      BY FS_EmptySet
    <2>3. ASSUME NEW r \in Reps
          PROVE  /\ active[r] = Cardinality(Binders(r))
                 /\ reservations[r] = Cardinality(Preparers(r))
                 /\ transfers[r] = Cardinality(Carriers(r)) + detached[r]
      BY <2>1, <2>2 DEF Init
    <2> QED  BY <2>3 DEF CountsAreExact, Binders, Preparers, Carriers
  <1>3. OwnersAreValid
    BY NothingPrepared DEF Init, OwnersAreValid
  <1>4. CopiesFit
    BY NoBytes, SizesAssumption DEF Init, CopiesFit, DeviceUsed, HostUsed
  <1>5. TablesAreCurrent /\ TransitionsAreWhole
    BY NothingPrepared DEF Init, TablesAreCurrent, TransitionsAreWhole
  <1> QED  BY <1>1, <1>2, <1>3, <1>4, <1>5 DEF Inv

\* A new representation has no owner but the logical one.
LEMMA RegisterInv == ASSUME Inv, NEW tier \in Tiers, Register(tier) PROVE Inv'
  <1> DEFINE r == clock + 1
  <1>1. r \in Reps /\ r \notin reps /\ clock \in Nat
    BY SizesAssumption DEF Register, Inv, TypeOK, Reps
  <1>2. r \notin dev /\ r \notin host
    BY <1>1 DEF Inv, TypeOK
  <1>3. tier = "device" \/ tier = "host" \/ tier = "storage"
    BY DEF Tiers
  <1>4. /\ clock' = r /\ reps' = reps \cup {r}
        /\ logical' = [logical EXCEPT ![r] = 1] /\ lastUsed' = [lastUsed EXCEPT ![r] = r]
        /\ UNCHANGED <<active, reservations, transfers, binding, table, prepared,
                       detached, growth>>
    BY DEF Register
  <1>5. CopiesFit' /\ LosesOnlyEvictable
        /\ dev' \subseteq dev \cup {r} /\ host' \subseteq host \cup {r} /\ sto' \subseteq sto \cup {r}
    <2>1. CASE tier = "device"
      <3>1. HasSpace(BytesOf[r]) /\ dev' = (dev \ Victims(BytesOf[r])) \cup {r}
            /\ host' = host /\ sto' = sto
        BY <2>1 DEF Register
      <3>2. CopiesFit' /\ LosesOnlyEvictable
        BY <1>1, <1>2, <3>1, OneMoreFits
      <3> QED  BY <3>1, <3>2
    <2>2. CASE tier = "host"
      <3>1. HasHostCapacity(BytesOf[r]) /\ host' = host \cup {r} /\ dev' = dev /\ sto' = sto
        BY <2>2 DEF Register
      <3>2. BytesIn(host \cup {r}) = BytesIn(host) + BytesOf[r]
        <4>1. host \in SUBSET Reps
          BY RepsKnown DEF Inv
        <4> QED  BY <1>1, <1>2, <4>1, BytesAdd
      <3>3. CopiesFit'
        BY <3>1, <3>2 DEF HasHostCapacity, CopiesFit, HostUsed, DeviceUsed, Inv
      <3> QED  BY <3>1, <3>3 DEF LosesOnlyEvictable
    <2>3. CASE tier = "storage"
      <3>1. dev' = dev /\ host' = host /\ sto' = sto \cup {r}
        BY <2>3 DEF Register
      <3>2. CopiesFit'
        BY <3>1, FewerFit
      <3> QED  BY <3>1, <3>2 DEF LosesOnlyEvictable
    <2> QED  BY <1>3, <2>1, <2>2, <2>3
  <1>6. TypeOK'
    <2>1. clock' \in 0..MaxReps /\ reps' \subseteq 1..clock'
      BY <1>1, <1>4, SizesAssumption DEF Inv, TypeOK, Reps
    <2>2. dev' \subseteq reps' /\ host' \subseteq reps' /\ sto' \subseteq reps'
      BY <1>4, <1>5 DEF Inv, TypeOK
    <2>3. logical' \in [Reps -> Nat] /\ lastUsed' \in [Reps -> Nat]
      BY <1>1, <1>4 DEF Inv, TypeOK
    <2> QED  BY <1>4, <2>1, <2>2, <2>3 DEF Inv, TypeOK
  <1>7. CountsAreExact'
    BY <1>4 DEF Inv, CountsAreExact
  <1>8. \A c \in Contexts : binding[c] \subseteq dev'
    <2>1. \A c \in Contexts : binding[c] \subseteq dev
      BY DEF Inv, OwnersAreValid
    <2>2. \A c \in Contexts : \A q \in binding[c] : q \notin Evictable
      BY OwnersProtect DEF Evictable
    <2> QED  BY <1>5, <2>1, <2>2 DEF LosesOnlyEvictable
  <1>9. OwnersAreValid'
    BY <1>4, <1>8 DEF Inv, OwnersAreValid
  <1>10. TablesAreCurrent'
    BY <1>4, <1>8 DEF Inv, TablesAreCurrent
  <1>11. TransitionsAreWhole'
    BY <1>4 DEF Inv, TransitionsAreWhole
  <1> QED  BY <1>5, <1>6, <1>7, <1>9, <1>10, <1>11 DEF Inv

LEMMA ReleaseLogicalInv == ASSUME Inv, NEW r \in Reps, ReleaseLogical(r) PROVE Inv'
  <1>1. \/ UNCHANGED <<reps, dev, host, sto>>
        \/ /\ ~Protected(r)
           /\ reps' = reps \ {r} /\ dev' = dev \ {r} /\ host' = host \ {r} /\ sto' = sto \ {r}
    BY DEF ReleaseLogical, copies
  <1>2. logical' \in [Reps -> Nat]
    BY DEF ReleaseLogical, Inv, TypeOK
  <1>3. UNCHANGED <<clock, active, reservations, transfers, lastUsed, binding,
                    table, prepared, detached, growth>>
    BY DEF ReleaseLogical
  <1>4. TypeOK'
    BY <1>1, <1>2, <1>3 DEF Inv, TypeOK
  <1>5. CopiesFit'
    BY <1>1, FewerFit
  <1>6. CountsAreExact'
    BY <1>3 DEF Inv, CountsAreExact
  <1>7. \A c \in Contexts : binding[c] \subseteq dev'
    BY <1>1, OwnersProtect DEF Inv, OwnersAreValid
  <1>8. \A t \in Transitions : prepared[t].reps \subseteq reps'
    BY <1>1, OwnersProtect DEF Inv, OwnersAreValid
  <1>9. OwnersAreValid'
    BY <1>1, <1>3, <1>7, <1>8, OwnersProtect DEF Inv, OwnersAreValid
  <1>10. TablesAreCurrent'
    BY <1>3, <1>7 DEF Inv, TablesAreCurrent
  <1>11. TransitionsAreWhole'
    BY <1>3 DEF Inv, TransitionsAreWhole
  <1> QED  BY <1>4, <1>5, <1>6, <1>9, <1>10, <1>11 DEF Inv

\* The composite of a new transition is referenced before anything else can run.
LEMMA PrepareTransitionInv ==
    ASSUME Inv, NEW t \in Transitions, NEW c \in Contexts, NEW S \in SUBSET Reps,
           PrepareTransition(t, c, S)
    PROVE  Inv'
  <1> DEFINE missing == S \ dev
             bytes == BytesIn(missing)
             staged == {r \in S : r \notin dev' /\ r \in host \cup sto}
             new == [ctx |-> {c}, reps |-> S, reserved |-> bytes,
                     recompute |-> missing \ (host \cup sto) # {},
                     xfer |-> [r \in Reps |-> IF r \in staged THEN "pending" ELSE "none"]]
  <1>1. /\ prepared[t].reps = {} /\ S \subseteq reps
        /\ dev' = dev \ Victims(bytes)
        /\ reservations' = Bump(reservations, S, 1)
        /\ transfers' = Bump(transfers, staged, 1)
        /\ prepared' = [prepared EXCEPT ![t] = new]
        /\ UNCHANGED <<clock, reps, host, sto, logical, active, lastUsed, binding,
                       table, detached, growth>>
    BY DEF PrepareTransition, Live
  <1>2. new \in Prepareds
    <2>1. bytes \in Nat
      BY BytesNat
    <2>2. new.xfer \in [Reps -> XferStates]
      BY DEF XferStates
    <2> HIDE DEF bytes, staged
    <2> QED  BY <2>1, <2>2 DEF Prepareds
  <1>3. /\ new.reps = S /\ new.ctx = {c}
        /\ \A r \in Reps : new.xfer[r] = "pending" <=> r \in staged
    OBVIOUS
  <1>4. staged \subseteq S
    OBVIOUS
  <1> HIDE DEF new, bytes, staged
  <1>5. prepared'[t] = new /\ \A u \in Transitions \ {t} : prepared'[u] = prepared[u]
    BY <1>1 DEF Inv, TypeOK
  <1>6. Victims(bytes) \subseteq Evictable
    BY VictimsMakeRoom DEF Inv
  <1>7. TypeOK'
    <2>1. prepared' \in [Transitions -> Prepareds]
      BY <1>1, <1>2 DEF Inv, TypeOK
    <2>2. reservations' \in [Reps -> Nat] /\ transfers' \in [Reps -> Nat]
      BY <1>1 DEF Inv, TypeOK, Bump
    <2>3. dev' \subseteq reps'
      BY <1>1 DEF Inv, TypeOK
    <2> QED  BY <1>1, <2>1, <2>2, <2>3 DEF Inv, TypeOK
  <1>8. CountsAreExact'
    <2>1. ASSUME NEW r \in Reps
          PROVE  /\ active'[r] = Cardinality(Binders(r)')
                 /\ reservations'[r] = Cardinality(Preparers(r)')
                 /\ transfers'[r] = Cardinality(Carriers(r)') + detached'[r]
      <3>1. prepared[t].xfer[r] # "pending"
        BY <1>1 DEF Inv, TransitionsAreWhole
      <3>2. active'[r] = Cardinality(Binders(r)')
        BY <1>1 DEF Inv, CountsAreExact, Binders
      <3>3. reservations'[r] = Cardinality(Preparers(r)')
        BY <1>1, <1>3, <1>5, PreparersChange, BumpValue DEF One
      <3>4. transfers'[r] = Cardinality(Carriers(r)') + detached'[r]
        BY <1>1, <1>3, <1>5, <3>1, CarriersChange, BumpValue DEF One
      <3> QED  BY <3>2, <3>3, <3>4
    <2> QED  BY <2>1, CountsFromOwners
  <1>9. \A d \in Contexts : binding[d] \subseteq dev'
    <2>1. \A d \in Contexts : binding[d] \subseteq dev
      BY DEF Inv, OwnersAreValid
    <2>2. \A d \in Contexts : \A q \in binding[d] : q \notin Evictable
      BY OwnersProtect DEF Evictable
    <2> QED  BY <1>1, <1>6, <2>1, <2>2
  <1>10. OwnersAreValid'
    BY <1>1, <1>3, <1>5, <1>9 DEF Inv, OwnersAreValid
  <1>11. CopiesFit'
    BY <1>1, FewerFit
  <1>12. TablesAreCurrent'
    BY <1>1, <1>9 DEF Inv, TablesAreCurrent
  <1>13. TransitionsAreWhole'
    BY <1>3, <1>4, <1>5 DEF Inv, TransitionsAreWhole
  <1> QED  BY <1>7, <1>8, <1>10, <1>11, <1>12, <1>13 DEF Inv

\* A transfer that arrives, or fails, stops protecting what it carried; the
\* reservation of its transition still does.
LEMMA CompleteTransferInv ==
    ASSUME Inv, NEW t \in Transitions, NEW r \in Reps, NEW success \in BOOLEAN,
           CompleteTransfer(t, r, success)
    PROVE  Inv'
  <1> DEFINE end == IF success THEN "done" ELSE "failed"
  <1>1. /\ prepared[t].xfer[r] = "pending"
        /\ prepared' = [prepared EXCEPT ![t].xfer[r] = end]
        /\ transfers' = [transfers EXCEPT ![r] = @ - 1]
        /\ UNCHANGED <<clock, reps, host, sto, logical, active, reservations, lastUsed,
                       binding, table, detached, growth>>
    BY DEF CompleteTransfer
  <1>2. r \in reps
    BY <1>1 DEF Inv, TransitionsAreWhole, OwnersAreValid
  <1>3. CopiesFit' /\ LosesOnlyEvictable /\ dev' \subseteq reps
    <2>1. CASE success
      BY <1>1, <1>2, <2>1, GainFits DEF CompleteTransfer
    <2>2. CASE ~success
      <3>1. dev' = dev /\ host' = host
        BY <1>1, <2>2 DEF CompleteTransfer
      <3> QED  BY <3>1, FewerFit DEF LosesOnlyEvictable, Inv, TypeOK
    <2> QED  BY <2>1, <2>2
  <1>4. prepared[t] \in Prepareds
    BY DEF Inv, TypeOK
  <1>5. end \in XferStates /\ end # "pending"
    BY DEF XferStates
  <1> HIDE DEF end
  <1>6. /\ prepared'[t] = [prepared[t] EXCEPT !.xfer[r] = end]
        /\ \A u \in Transitions \ {t} : prepared'[u] = prepared[u]
        /\ prepared' = [prepared EXCEPT ![t] = prepared'[t]]
    BY <1>1 DEF Inv, TypeOK
  <1>7. /\ prepared'[t] \in Prepareds
        /\ prepared'[t].reps = prepared[t].reps /\ prepared'[t].ctx = prepared[t].ctx
        /\ prepared'[t].xfer = [prepared[t].xfer EXCEPT ![r] = end]
    BY <1>4, <1>5, <1>6 DEF Prepareds
  <1>8. prepared'[t].xfer[r] # "pending"
        /\ \A q \in Reps \ {r} : prepared'[t].xfer[q] = prepared[t].xfer[q]
    BY <1>4, <1>5, <1>7 DEF Prepareds
  <1>9. \A u \in Transitions : prepared'[u].reps = prepared[u].reps /\ prepared'[u].ctx = prepared[u].ctx
    BY <1>6, <1>7
  <1>10. CountsAreExact'
    <2>1. ASSUME NEW q \in Reps
          PROVE  /\ active'[q] = Cardinality(Binders(q)')
                 /\ reservations'[q] = Cardinality(Preparers(q)')
                 /\ transfers'[q] = Cardinality(Carriers(q)') + detached'[q]
      <3>1. active'[q] = Cardinality(Binders(q)')
        BY <1>1 DEF Inv, CountsAreExact, Binders
      <3>2. reservations'[q] = Cardinality(Preparers(q)')
        BY <1>1, <1>6, <1>7, PreparersChange DEF One
      <3>3. transfers'[q] = IF q = r THEN transfers[q] - 1 ELSE transfers[q]
        BY <1>1 DEF Inv, TypeOK
      <3>4. transfers'[q] = Cardinality(Carriers(q)') + detached'[q]
        BY <1>1, <1>6, <1>8, <3>3, CarriersChange DEF One
      <3> QED  BY <3>1, <3>2, <3>4
    <2> QED  BY <2>1, CountsFromOwners
  <1>11. TypeOK'
    <2>1. prepared' \in [Transitions -> Prepareds]
      BY <1>6, <1>7 DEF Inv, TypeOK
    <2>2. transfers' \in [Reps -> Nat]
      <3>1. transfers \in [Reps -> Nat]
        BY DEF Inv, TypeOK
      <3>2. transfers[r] # 0
        BY <1>1, OwnersProtect
      <3>3. transfers[r] - 1 \in Nat
        BY <3>1, <3>2
      <3> QED  BY <1>1, <3>1, <3>3
    <2> QED  BY <1>1, <1>3, <2>1, <2>2 DEF Inv, TypeOK
  <1>12. \A c \in Contexts : binding[c] \subseteq dev'
    <2>1. \A c \in Contexts : binding[c] \subseteq dev
      BY DEF Inv, OwnersAreValid
    <2>2. \A c \in Contexts : \A q \in binding[c] : q \notin Evictable
      BY OwnersProtect DEF Evictable
    <2> QED  BY <1>3, <2>1, <2>2 DEF LosesOnlyEvictable
  <1>13. OwnersAreValid'
    BY <1>1, <1>9, <1>12 DEF Inv, OwnersAreValid
  <1>14. TablesAreCurrent'
    BY <1>1, <1>12 DEF Inv, TablesAreCurrent
  <1>15. TransitionsAreWhole'
    <2>1. ASSUME NEW u \in Transitions, NEW q \in Reps, prepared'[u].xfer[q] = "pending"
          PROVE  prepared[u].xfer[q] = "pending"
      BY <1>6, <1>8, <2>1
    <2> QED  BY <1>9, <2>1 DEF Inv, TransitionsAreWhole
  <1> QED  BY <1>3, <1>10, <1>11, <1>13, <1>14, <1>15 DEF Inv

LEMMA CompleteDetachedInv ==
    ASSUME Inv, NEW r \in Reps, NEW success \in BOOLEAN, CompleteDetached(r, success)
    PROVE  Inv'
  <1>1. /\ detached[r] > 0
        /\ detached' = [detached EXCEPT ![r] = @ - 1]
        /\ transfers' = [transfers EXCEPT ![r] = @ - 1]
        /\ UNCHANGED <<clock, reps, host, sto, logical, active, reservations, lastUsed,
                       binding, table, prepared, growth>>
    BY DEF CompleteDetached
  <1>2. r \in reps
    BY <1>1 DEF Inv, OwnersAreValid, TypeOK
  <1>3. CopiesFit' /\ LosesOnlyEvictable /\ dev' \subseteq reps
    <2>1. CASE success
      BY <1>1, <1>2, <2>1, GainFits DEF CompleteDetached
    <2>2. CASE ~success
      <3>1. dev' = dev /\ host' = host
        BY <1>1, <2>2 DEF CompleteDetached
      <3> QED  BY <3>1, FewerFit DEF LosesOnlyEvictable, Inv, TypeOK
    <2> QED  BY <2>1, <2>2
  <1>4. TypeOK'
    <2>1. transfers \in [Reps -> Nat] /\ detached \in [Reps -> Nat]
      BY DEF Inv, TypeOK
    <2>2. transfers[r] # 0
      BY <1>1, <2>1, OwnersProtect
    <2>3. transfers' \in [Reps -> Nat] /\ detached' \in [Reps -> Nat]
      BY <1>1, <2>1, <2>2
    <2> QED  BY <1>1, <1>3, <2>3 DEF Inv, TypeOK
  <1>5. CountsAreExact'
    <2>1. ASSUME NEW q \in Reps
          PROVE  transfers'[q] = Cardinality(Carriers(q)') + detached'[q]
      <3>1. Carriers(q)' = Carriers(q)
        BY <1>1 DEF Carriers
      <3>2. transfers[q] = Cardinality(Carriers(q)) + detached[q]
        BY DEF Inv, CountsAreExact, Carriers
      <3>3. Cardinality(Carriers(q)) \in Nat /\ detached[q] \in Nat
        <4>1. Carriers(q) \in SUBSET Transitions
          BY DEF Carriers
        <4> QED  BY <4>1, FiniteAssumption, FS_Subset, FS_CardinalityType DEF Inv, TypeOK
      <3> QED  BY <1>1, <3>1, <3>2, <3>3 DEF Inv, TypeOK
    <2>2. \A q \in Reps : /\ active'[q] = Cardinality(Binders(q)')
                          /\ reservations'[q] = Cardinality(Preparers(q)')
      BY <1>1 DEF Inv, CountsAreExact, Binders, Preparers
    <2> QED  BY <2>1, <2>2, CountsFromOwners
  <1>6. \A c \in Contexts : binding[c] \subseteq dev'
    <2>1. \A c \in Contexts : binding[c] \subseteq dev
      BY DEF Inv, OwnersAreValid
    <2>2. \A c \in Contexts : \A q \in binding[c] : q \notin Evictable
      BY OwnersProtect DEF Evictable
    <2> QED  BY <1>3, <2>1, <2>2 DEF LosesOnlyEvictable
  <1>7. OwnersAreValid'
    BY <1>1, <1>2, <1>6 DEF Inv, OwnersAreValid, TypeOK
  <1>8. TablesAreCurrent'
    BY <1>1, <1>6 DEF Inv, TablesAreCurrent
  <1>9. TransitionsAreWhole'
    BY <1>1 DEF Inv, TransitionsAreWhole
  <1> QED  BY <1>3, <1>4, <1>5, <1>7, <1>8, <1>9 DEF Inv

\* A commit moves the reservation of the composite to its context: what is bound
\* is on the device, and what was bound is let go.
LEMMA CommitInv ==
    ASSUME Inv, NEW t \in Transitions, Committable(t), Commit(t),
           \/ table' = [c \in Contexts |-> IF c \in prepared[t].ctx THEN {} ELSE table[c]]
           \/ table' = [c \in Contexts |-> IF c \in prepared[t].ctx THEN prepared[t].reps
                                                                   ELSE table[c]]
    PROVE  Inv'
  <1> DEFINE S == prepared[t].reps
  <1>1. S # {} /\ S \subseteq dev /\ \A r \in Reps : prepared[t].xfer[r] # "pending"
    BY DEF Committable, Live
  <1>2. PICK c \in Contexts : prepared[t].ctx = {c}
    BY <1>1 DEF Inv, TransitionsAreWhole
  <1>3. /\ active' = Bump(Bump(active, binding[c], -1), S, 1)
        /\ reservations' = Bump(reservations, S, -1)
        /\ binding' = [d \in Contexts |-> IF d = c THEN S ELSE binding[d]]
        /\ lastUsed' = [r \in Reps |-> IF r \in S THEN clock ELSE lastUsed[r]]
        /\ prepared' = [prepared EXCEPT ![t] = NoTransition]
        /\ UNCHANGED <<clock, reps, dev, host, sto, logical, transfers, detached, growth>>
    <2>1. UNION {binding[d] : d \in prepared[t].ctx} = binding[c]
      BY <1>2
    <2> QED  BY <1>2, <2>1 DEF Commit, copies
  <1>4. \/ table' = [d \in Contexts |-> IF d = c THEN {} ELSE table[d]]
        \/ table' = [d \in Contexts |-> IF d = c THEN S ELSE table[d]]
    BY <1>2
  <1>5. prepared'[t] = NoTransition /\ \A u \in Transitions \ {t} : prepared'[u] = prepared[u]
    BY <1>3 DEF Inv, TypeOK
  <1>6. binding'[c] = S /\ \A d \in Contexts \ {c} : binding'[d] = binding[d]
    BY <1>3
  <1>7. S \in SUBSET Reps
    BY DEF Inv, TypeOK, Prepareds
  <1> HIDE DEF S
  <1>8. ASSUME NEW r \in Reps
        PROVE  /\ active'[r] = Cardinality(Binders(r)') /\ active'[r] \in Nat
               /\ reservations'[r] = Cardinality(Preparers(r)') /\ reservations'[r] \in Nat
               /\ transfers'[r] = Cardinality(Carriers(r)') + detached'[r]
    <2>1. active'[r] = active[r] - One(r \in binding[c]) + One(r \in S)
      <3>1. active[r] \in Nat
        BY DEF Inv, TypeOK
      <3> QED  BY <1>3, <3>1, BumpValue DEF One
    <2>2. active'[r] = Cardinality(Binders(r)') /\ active'[r] \in Nat
      BY <1>6, <2>1, BindersChange
    <2>3. reservations'[r] = reservations[r] - One(r \in S)
      <3>1. reservations[r] \in Nat
        BY DEF Inv, TypeOK
      <3> QED  BY <1>3, <3>1, BumpValue DEF One
    <2>4. r \notin prepared'[t].reps
      BY <1>5, NothingPrepared
    <2>5. reservations'[r] = Cardinality(Preparers(r)') /\ reservations'[r] \in Nat
      BY <1>5, <2>3, <2>4, PreparersChange DEF One, S
    <2>6. transfers'[r] = Cardinality(Carriers(r)') + detached'[r]
      BY <1>1, <1>3, <1>5, NothingPrepared, CarriersChange DEF One
    <2> QED  BY <2>2, <2>5, <2>6
  <1>9. TypeOK'
    <2>1. active' \in [Reps -> Nat] /\ reservations' \in [Reps -> Nat]
      BY <1>3, <1>8 DEF Bump
    <2>2. binding' \in [Contexts -> SUBSET Reps] /\ table' \in [Contexts -> SUBSET Reps]
      BY <1>3, <1>4, <1>7 DEF Inv, TypeOK
    <2>3. prepared' \in [Transitions -> Prepareds]
      BY <1>3, NothingPrepared DEF Inv, TypeOK
    <2>4. lastUsed' \in [Reps -> Nat]
      BY <1>3 DEF Inv, TypeOK
    <2> QED  BY <1>3, <2>1, <2>2, <2>3, <2>4 DEF Inv, TypeOK
  <1>10. CountsAreExact'
    BY <1>8, CountsFromOwners
  <1>11. OwnersAreValid'
    <2>1. \A d \in Contexts : binding'[d] \subseteq dev'
      BY <1>1, <1>3, <1>6 DEF Inv, OwnersAreValid, S
    <2>2. \A u \in Transitions : prepared'[u].reps \subseteq reps'
      BY <1>3, <1>5, NothingPrepared DEF Inv, OwnersAreValid
    <2> QED  BY <1>3, <2>1, <2>2 DEF Inv, OwnersAreValid
  <1>12. CopiesFit'
    BY <1>3, FewerFit
  <1>13. TablesAreCurrent'
    <2>1. ASSUME NEW d \in Contexts, table'[d] # {}
          PROVE  table'[d] = binding'[d] /\ table'[d] \subseteq dev'
      <3>1. CASE d = c
        BY <1>1, <1>3, <1>4, <1>6, <2>1, <3>1 DEF S
      <3>2. CASE d # c
        <4>1. table'[d] = table[d] /\ binding'[d] = binding[d]
          BY <1>4, <1>6, <3>2
        <4> QED  BY <1>3, <2>1, <4>1 DEF Inv, TablesAreCurrent
      <3> QED  BY <3>1, <3>2
    <2> QED  BY <2>1 DEF TablesAreCurrent
  <1>14. TransitionsAreWhole'
    BY <1>5, NothingPrepared DEF Inv, TransitionsAreWhole
  <1> QED  BY <1>9, <1>10, <1>11, <1>12, <1>13, <1>14 DEF Inv

\* An aborted transition leaves its transfers behind as detached ones.
LEMMA AbortTransitionInv ==
    ASSUME Inv, NEW t \in Transitions, AbortTransition(t) PROVE Inv'
  <1> DEFINE S == prepared[t].reps
             left == {r \in Reps : prepared[t].xfer[r] = "pending"}
  <1>1. /\ reservations' = Bump(reservations, S, -1)
        /\ detached' = Bump(detached, left, 1)
        /\ prepared' = [prepared EXCEPT ![t] = NoTransition]
        /\ UNCHANGED <<clock, reps, dev, host, sto, logical, active, transfers, lastUsed,
                       binding, table, growth>>
    BY DEF AbortTransition, copies
  <1>2. prepared'[t] = NoTransition /\ \A u \in Transitions \ {t} : prepared'[u] = prepared[u]
    BY <1>1 DEF Inv, TypeOK
  <1>3. left \subseteq S /\ S \subseteq reps
    BY DEF Inv, TransitionsAreWhole, OwnersAreValid
  <1>4. ASSUME NEW r \in Reps
        PROVE  /\ active'[r] = Cardinality(Binders(r)')
               /\ reservations'[r] = Cardinality(Preparers(r)') /\ reservations'[r] \in Nat
               /\ transfers'[r] = Cardinality(Carriers(r)') + detached'[r]
    <2>1. active'[r] = Cardinality(Binders(r)')
      BY <1>1 DEF Inv, CountsAreExact, Binders
    <2>2. r \notin prepared'[t].reps /\ prepared'[t].xfer[r] # "pending"
      BY <1>2, NothingPrepared
    <2>3. reservations'[r] = Cardinality(Preparers(r)') /\ reservations'[r] \in Nat
      BY <1>1, <1>2, <2>2, PreparersChange, BumpValue DEF One
    <2>4. detached'[r] = detached[r] + One(prepared[t].xfer[r] = "pending")
      <3>1. detached[r] \in Nat
        BY DEF Inv, TypeOK
      <3> QED  BY <1>1, <3>1, BumpValue DEF One
    <2>5. transfers'[r] = Cardinality(Carriers(r)') + detached'[r]
      BY <1>1, <1>2, <2>2, <2>4, CarriersChange DEF One
    <2> QED  BY <2>1, <2>3, <2>5
  <1>5. TypeOK'
    <2>1. reservations' \in [Reps -> Nat]
      BY <1>1, <1>4 DEF Bump
    <2>2. detached' \in [Reps -> Nat]
      BY <1>1 DEF Bump, Inv, TypeOK
    <2>3. prepared' \in [Transitions -> Prepareds]
      BY <1>1, NothingPrepared DEF Inv, TypeOK
    <2> QED  BY <1>1, <2>1, <2>2, <2>3 DEF Inv, TypeOK
  <1>6. CountsAreExact'
    BY <1>4, CountsFromOwners
  <1>7. OwnersAreValid'
    <2>1. \A u \in Transitions : prepared'[u].reps \subseteq reps'
      BY <1>1, <1>2, NothingPrepared DEF Inv, OwnersAreValid
    <2>2. \A r \in Reps : detached'[r] # 0 => r \in reps'
      BY <1>1, <1>3, BumpValue DEF Inv, OwnersAreValid
    <2> QED  BY <1>1, <2>1, <2>2 DEF Inv, OwnersAreValid
  <1>8. CopiesFit'
    BY <1>1, FewerFit
  <1>9. TablesAreCurrent'
    BY <1>1 DEF Inv, TablesAreCurrent
  <1>10. TransitionsAreWhole'
    BY <1>2, NothingPrepared DEF Inv, TransitionsAreWhole
  <1> QED  BY <1>5, <1>6, <1>7, <1>8, <1>9, <1>10 DEF Inv

LEMMA PublishInv == ASSUME Inv, NEW c \in Contexts, PublishDeviceBlockTable(c) PROVE Inv'
  <1> USE DEF copies, counts
  <1>1. TypeOK'
    BY DEF PublishDeviceBlockTable, Inv, TypeOK
  <1>2. CountsAreExact' /\ OwnersAreValid'
    BY DEF PublishDeviceBlockTable, Inv, CountsAreExact, OwnersAreValid
  <1>3. CopiesFit'
    BY FewerFit DEF PublishDeviceBlockTable
  <1>4. TablesAreCurrent'
    BY DEF PublishDeviceBlockTable, Inv, TablesAreCurrent, TypeOK
  <1>5. TransitionsAreWhole'
    BY DEF PublishDeviceBlockTable, Inv, TransitionsAreWhole
  <1> QED  BY <1>1, <1>2, <1>3, <1>4, <1>5 DEF Inv

LEMMA UnbindInv == ASSUME Inv, NEW c \in Contexts, Unbind(c) PROVE Inv'
  <1>1. /\ active' = Bump(active, binding[c], -1)
        /\ binding' = [binding EXCEPT ![c] = {}]
        /\ table' = [table EXCEPT ![c] = {}]
        /\ UNCHANGED <<clock, reps, dev, host, sto, logical, reservations, transfers, lastUsed,
                       prepared, detached, growth>>
    BY DEF Unbind, copies
  <1>2. binding'[c] = {} /\ \A d \in Contexts \ {c} : binding'[d] = binding[d]
    BY <1>1 DEF Inv, TypeOK
  <1>3. ASSUME NEW r \in Reps
        PROVE  /\ active'[r] = Cardinality(Binders(r)') /\ active'[r] \in Nat
               /\ reservations'[r] = Cardinality(Preparers(r)')
               /\ transfers'[r] = Cardinality(Carriers(r)') + detached'[r]
    <2>1. active'[r] = Cardinality(Binders(r)') /\ active'[r] \in Nat
      BY <1>1, <1>2, BindersChange, BumpValue DEF One
    <2> QED  BY <1>1, <2>1 DEF Inv, CountsAreExact, Preparers, Carriers
  <1>4. TypeOK'
    <2>1. active' \in [Reps -> Nat]
      BY <1>1, <1>3 DEF Bump
    <2> QED  BY <1>1, <2>1 DEF Inv, TypeOK
  <1>5. CountsAreExact'
    BY <1>3, CountsFromOwners
  <1>6. OwnersAreValid'
    BY <1>1, <1>2 DEF Inv, OwnersAreValid
  <1>7. CopiesFit'
    BY <1>1, FewerFit
  <1>8. TablesAreCurrent'
    BY <1>1 DEF Inv, TablesAreCurrent, TypeOK
  <1>9. TransitionsAreWhole'
    BY <1>1 DEF Inv, TransitionsAreWhole
  <1> QED  BY <1>4, <1>5, <1>6, <1>7, <1>8, <1>9 DEF Inv

-----------------------------------------------------------------------------
(* The theorems.                                                           *)

LEMMA NextInv == ASSUME Inv, [Next]_vars PROVE Inv'
  <1>1. CASE Residence
    <2>1. ASSUME NEW tier \in Tiers, Register(tier) PROVE Inv'
      BY <2>1, RegisterInv
    <2>2. CASE RegisterFails
      BY <2>2, EvictInVainInv DEF RegisterFails
    <2>3. ASSUME NEW r \in Reps, ReleaseLogical(r) PROVE Inv'
      BY <2>3, ReleaseLogicalInv
    <2>4. ASSUME NEW r \in Reps, DemoteToHost(r) PROVE Inv'
      BY <2>4, DemoteToHostInv
    <2>5. ASSUME NEW r \in Reps, DemoteToStorage(r) PROVE Inv'
      BY <2>5, DemoteToStorageInv
    <2>6. ASSUME NEW r \in Reps, NEW tier \in Tiers, Evict(r, tier) PROVE Inv'
      BY <2>6, EvictInv
    <2> QED  BY <1>1, <2>1, <2>2, <2>3, <2>4, <2>5, <2>6 DEF Residence
  <1>2. CASE Growing
    <2>1. ASSUME NEW g \in Growths, NEW b \in GrowthSizes, ReserveGrowth(g, b) PROVE Inv'
      BY <2>1, ReserveGrowthInv
    <2>2. ASSUME NEW g \in Growths, ReleaseGrowth(g) PROVE Inv'
      BY <2>2, ReleaseGrowthInv
    <2> QED  BY <1>2, <2>1, <2>2 DEF Growing
  <1>3. CASE Preparing
    <2>1. ASSUME NEW t \in Transitions, NEW c \in Contexts, NEW S \in SUBSET Reps,
                 PrepareTransition(t, c, S)
          PROVE  Inv'
      BY <2>1, PrepareTransitionInv
    <2>2. ASSUME NEW S \in SUBSET Reps, PrepareFails(S) PROVE Inv'
      BY <2>2, EvictInVainInv DEF PrepareFails
    <2> QED  BY <1>3, <2>1, <2>2 DEF Preparing
  <1>4. CASE Arriving
    <2>1. ASSUME NEW t \in Transitions, NEW r \in Reps, NEW ok \in BOOLEAN,
                 CompleteTransfer(t, r, ok)
          PROVE  Inv'
      BY <2>1, CompleteTransferInv
    <2>2. ASSUME NEW r \in Reps, NEW ok \in BOOLEAN, CompleteDetached(r, ok) PROVE Inv'
      BY <2>2, CompleteDetachedInv
    <2>3. ASSUME NEW r \in Reps, ArrivalFails(r) PROVE Inv'
      BY <2>3, EvictInVainInv DEF ArrivalFails
    <2>4. ASSUME NEW t \in Transitions, NEW r \in Reps, CompleteRecompute(t, r) PROVE Inv'
      BY <2>4, CompleteRecomputeInv
    <2> QED  BY <1>4, <2>1, <2>2, <2>3, <2>4 DEF Arriving
  <1>5. CASE Settling
    <2>1. ASSUME NEW t \in Transitions, CommitTransition(t) PROVE Inv'
      BY <2>1, CommitInv DEF CommitTransition
    <2>2. ASSUME NEW t \in Transitions, CommitMappedTransition(t) PROVE Inv'
      BY <2>2, CommitInv DEF CommitMappedTransition
    <2>3. ASSUME NEW t \in Transitions, AbortTransition(t) PROVE Inv'
      BY <2>3, AbortTransitionInv
    <2>4. ASSUME NEW c \in Contexts, PublishDeviceBlockTable(c) PROVE Inv'
      BY <2>4, PublishInv
    <2>5. ASSUME NEW c \in Contexts, Unbind(c) PROVE Inv'
      BY <2>5, UnbindInv
    <2> QED  BY <1>5, <2>1, <2>2, <2>3, <2>4, <2>5 DEF Settling
  <1>6. CASE UNCHANGED vars
    BY <1>6 DEF vars, copies, counts, Inv, TypeOK, CountsAreExact, OwnersAreValid, CopiesFit,
                TablesAreCurrent, TransitionsAreWhole, DeviceUsed, HostUsed
  <1> QED  BY <1>1, <1>2, <1>3, <1>4, <1>5, <1>6 DEF Next

\* The inductive invariant: the types, the counts, the owners, the tiers and the
\* tables hold one another up in every reachable state.
THEOREM Invariant == Spec => []Inv
  <1>1. Init => Inv
    BY InitInv
  <1>2. Inv /\ [Next]_vars => Inv'
    BY NextInv
  <1> QED  BY <1>1, <1>2, PTL DEF Spec

\* Whatever is registered, demoted, prepared, transferred, recomputed, aborted and
\* bound, the device and the host hold no more bytes than they have, and a context
\* is bound only to representations that are all on the device.
THEOREM TiersAlwaysHold == Spec => []TiersHold
  <1>1. Inv => TiersHold
    BY DEF Inv, TiersHold
  <1> QED  BY <1>1, Invariant, PTL

\* The active, reservation and transfer counts of a representation are the numbers
\* of bindings, transitions and transfers that refer to it: release_* never wraps
\* below zero, and none is leaked by a replaced binding or an aborted transition.
THEOREM CountsAlwaysExact == Spec => []CountsAreExact
  <1>1. Inv => CountsAreExact
    BY DEF Inv
  <1> QED  BY <1>1, Invariant, PTL

\* A visible device block table is the one of the binding in force, resident as a
\* whole, through commits, publications, unbinds and every eviction.
THEOREM TablesAlwaysCurrent == Spec => []TablesAreCurrent
  <1>1. Inv => TablesAreCurrent
    BY DEF Inv
  <1> QED  BY <1>1, Invariant, PTL

\* The copies of a representation that is referenced outlive the step.
KeepsOwned ==
    \A r \in Reps : Protected(r) => /\ r \in dev => r \in dev'
                                    /\ r \in host => r \in host'
                                    /\ r \in sto => r \in sto'
                                    /\ r \in reps => r \in reps'

LEMMA EvictInVainKeeps == ASSUME Inv, NEW bytes, EvictInVain(bytes) PROVE KeepsOwned
  <1>1. Victims(bytes) \subseteq Evictable
    BY VictimsMakeRoom DEF Inv
  <1> QED  BY <1>1 DEF EvictInVain, KeepsOwned, Evictable

LEMMA GainKeeps ==
    ASSUME Inv, NEW r \in Reps, GainDevice(r) \/ UNCHANGED dev, UNCHANGED <<reps, host, sto>>
    PROVE  KeepsOwned
  <1>1. Victims(BytesOf[r]) \subseteq Evictable
    BY VictimsMakeRoom DEF Inv
  <1> QED  BY <1>1 DEF GainDevice, KeepsOwned, Evictable

LEMMA NextKeepsOwned == ASSUME Inv, [Next]_vars PROVE KeepsOwned
  <1> USE DEF copies
  <1>0. \A bytes : Victims(bytes) \subseteq Evictable
    BY VictimsMakeRoom DEF Inv
  <1>1. CASE Residence
    <2>1. ASSUME NEW tier \in Tiers, Register(tier) PROVE KeepsOwned
      <3>1. tier = "device" \/ tier = "host" \/ tier = "storage"
        BY DEF Tiers
      <3> QED  BY <1>0, <2>1, <3>1 DEF Register, KeepsOwned, Evictable
    <2>2. CASE RegisterFails
      BY <2>2, EvictInVainKeeps DEF RegisterFails
    <2>3. ASSUME NEW r \in Reps, ReleaseLogical(r) PROVE KeepsOwned
      BY <2>3 DEF ReleaseLogical, KeepsOwned
    <2>4. ASSUME NEW r \in Reps, DemoteToHost(r) \/ DemoteToStorage(r) PROVE KeepsOwned
      BY <2>4 DEF DemoteToHost, DemoteToStorage, KeepsOwned
    <2>5. ASSUME NEW r \in Reps, NEW tier \in Tiers, Evict(r, tier) PROVE KeepsOwned
      BY <2>5 DEF Evict, KeepsOwned
    <2> QED  BY <1>1, <2>1, <2>2, <2>3, <2>4, <2>5 DEF Residence
  <1>2. CASE Growing
    <2>1. ASSUME NEW g \in Growths, NEW b \in GrowthSizes, ReserveGrowth(g, b) PROVE KeepsOwned
      BY <1>0, <2>1, EvictInVainKeeps DEF ReserveGrowth, KeepsOwned, Evictable
    <2>2. ASSUME NEW g \in Growths, ReleaseGrowth(g) PROVE KeepsOwned
      BY <2>2 DEF ReleaseGrowth, KeepsOwned
    <2> QED  BY <1>2, <2>1, <2>2 DEF Growing
  <1>3. CASE Preparing
    <2>1. ASSUME NEW t \in Transitions, NEW c \in Contexts, NEW S \in SUBSET Reps,
                 PrepareTransition(t, c, S)
          PROVE  KeepsOwned
      <3>1. dev' = dev \ Victims(BytesIn(S \ dev)) /\ UNCHANGED <<reps, host, sto>>
        BY <2>1 DEF PrepareTransition
      <3> QED  BY <1>0, <3>1 DEF KeepsOwned, Evictable
    <2>2. ASSUME NEW S \in SUBSET Reps, PrepareFails(S) PROVE KeepsOwned
      BY <2>2, EvictInVainKeeps DEF PrepareFails
    <2> QED  BY <1>3, <2>1, <2>2 DEF Preparing
  <1>4. CASE Arriving
    <2>1. ASSUME NEW t \in Transitions, NEW r \in Reps, NEW ok \in BOOLEAN,
                 CompleteTransfer(t, r, ok)
          PROVE  KeepsOwned
      BY <2>1, GainKeeps DEF CompleteTransfer
    <2>2. ASSUME NEW r \in Reps, NEW ok \in BOOLEAN, CompleteDetached(r, ok) PROVE KeepsOwned
      BY <2>2, GainKeeps DEF CompleteDetached
    <2>3. ASSUME NEW r \in Reps, ArrivalFails(r) PROVE KeepsOwned
      BY <2>3, EvictInVainKeeps DEF ArrivalFails
    <2>4. ASSUME NEW t \in Transitions, NEW r \in Reps, CompleteRecompute(t, r) PROVE KeepsOwned
      BY <2>4, GainKeeps DEF CompleteRecompute
    <2> QED  BY <1>4, <2>1, <2>2, <2>3, <2>4 DEF Arriving
  <1>5. CASE Settling
    BY <1>5 DEF Settling, CommitTransition, CommitMappedTransition, Commit, AbortTransition,
                PublishDeviceBlockTable, Unbind, KeepsOwned
  <1>6. CASE UNCHANGED vars
    BY <1>6 DEF vars, KeepsOwned
  <1> QED  BY <1>1, <1>2, <1>3, <1>4, <1>5, <1>6 DEF Next

\* No step, failed or not, takes away a copy of a representation, or the
\* representation, while a binding, a transition or a transfer refers to it.
THEOREM OwnedCopiesAlwaysStay == Spec => OwnedCopiesStay
  <1>1. Inv /\ [Next]_vars =>
          [\A r \in Reps :
             active[r] # 0 \/ reservations[r] # 0 \/ transfers[r] # 0 =>
                /\ r \in dev => r \in dev'
                /\ r \in host => r \in host'
                /\ r \in sto => r \in sto'
                /\ r \in reps => r \in reps']_vars
    BY NextKeepsOwned DEF KeepsOwned, Protected
  <1> QED  BY <1>1, Invariant, PTL DEF Spec, OwnedCopiesStay

-----------------------------------------------------------------------------
(* Stored mappings.  An identity is well formed if it ends where its       *)
(* tokens do; its ancestors are what is cut off it at one of its ends.     *)

Idents ==
    {id \in [epoch : Epoch, tokens : Seq(Token), ends : SUBSET Nat] :
        Len(id.tokens) \in id.ends /\ \A e \in id.ends : e <= Len(id.tokens)}

Cut(id, e) == MappingId(id.epoch, SubSeq(id.tokens, 1, e), {f \in id.ends : f <= e})

LEMMA MaxIs ==
    ASSUME NEW S, NEW n \in S, \A x \in S : x <= n, S \subseteq Int
    PROVE  Max(S) = n
  <1>1. \A y \in S : (\A x \in S : y >= x) => y = n
    BY DEF Max
  <1>2. n \in S /\ \A x \in S : n >= x
    OBVIOUS
  <1> QED  BY <1>1, <1>2 DEF Max

LEMMA GreatestNumber ==
    ASSUME NEW S \in SUBSET Nat, S # {}, NEW n \in Nat, \A x \in S : x <= n
    PROVE  \E m \in S : \A x \in S : x <= m
  <1> DEFINE T == {n - x : x \in S}
  <1>1. T \in SUBSET Nat /\ T # {}
    <2>1. \A x \in S : n - x \in Nat
      OBVIOUS
    <2> QED  BY <2>1
  <1>2. PICK t \in T : \A u \in T : t <= u
    BY <1>1, LeastNumber
  <1>3. PICK m \in S : t = n - m
    OBVIOUS
  <1>4. ASSUME NEW x \in S PROVE x <= m
    <2>1. n - m <= n - x
      BY <1>2, <1>3
    <2> QED  BY <2>1
  <1> QED  BY <1>4

LEMMA IdentIs ==
    ASSUME NEW id \in Idents
    PROVE  /\ id.epoch \in Epoch /\ id.tokens \in Seq(Token) /\ id.ends \in SUBSET Nat
           /\ Len(id.tokens) \in Nat /\ Len(id.tokens) \in id.ends
           /\ \A e \in id.ends : e \in Nat /\ e <= Len(id.tokens)
           /\ RepresentedEnd(id) = Len(id.tokens)
           /\ id = [epoch |-> id.epoch, tokens |-> id.tokens, ends |-> id.ends]
           /\ IsFiniteSet(id.ends)
  <1>1. /\ id \in [epoch : Epoch, tokens : Seq(Token), ends : SUBSET Nat]
        /\ Len(id.tokens) \in id.ends /\ \A e \in id.ends : e <= Len(id.tokens)
    BY DEF Idents
  <1>2. id.epoch \in Epoch /\ id.tokens \in Seq(Token) /\ id.ends \in SUBSET Nat
    BY <1>1
  <1>3. Len(id.tokens) \in Nat
    BY <1>2
  <1>4. RepresentedEnd(id) = Len(id.tokens)
    <2>1. id.ends \subseteq Int
      BY <1>2
    <2> QED  BY <2>1, <1>1, MaxIs DEF RepresentedEnd
  <1>5. id = [epoch |-> id.epoch, tokens |-> id.tokens, ends |-> id.ends]
    BY <1>1
  <1>6. IsFiniteSet(id.ends)
    <2>1. id.ends \subseteq 0..Len(id.tokens) /\ IsFiniteSet(0..Len(id.tokens))
      BY <1>1, <1>2, <1>3, FS_Interval
    <2> QED  BY <2>1, FS_Subset
  <1> QED  BY <1>1, <1>2, <1>3, <1>4, <1>5, <1>6

LEMMA CutIs ==
    ASSUME NEW id \in Idents, NEW e \in id.ends
    PROVE  /\ Cut(id, e) \in Idents /\ Len(Cut(id, e).tokens) = e /\ Cut(id, e).epoch = id.epoch
           /\ Cut(id, e).tokens = SubSeq(id.tokens, 1, e)
           /\ Cut(id, e).ends = {f \in id.ends : f <= e}
           /\ Cut(id, e) \in Lineage(id)
           /\ e = Len(id.tokens) => Cut(id, e) = id
  <1>1. /\ id.epoch \in Epoch /\ id.tokens \in Seq(Token) /\ id.ends \in SUBSET Nat
        /\ e \in Nat /\ e <= Len(id.tokens) /\ Len(id.tokens) \in Nat
        /\ \A f \in id.ends : f \in Nat /\ f <= Len(id.tokens)
        /\ id = [epoch |-> id.epoch, tokens |-> id.tokens, ends |-> id.ends]
    BY IdentIs
  <1>2. SubSeq(id.tokens, 1, e) \in Seq(Token) /\ Len(SubSeq(id.tokens, 1, e)) = e
    BY <1>1
  <1>3. /\ Cut(id, e) = [epoch |-> id.epoch, tokens |-> SubSeq(id.tokens, 1, e), ends |-> {f \in id.ends : f <= e}]
        /\ Cut(id, e).tokens = SubSeq(id.tokens, 1, e) /\ Cut(id, e).ends = {f \in id.ends : f <= e}
        /\ Cut(id, e).epoch = id.epoch
    BY DEF Cut, MappingId
  <1>4. Cut(id, e) \in [epoch : Epoch, tokens : Seq(Token), ends : SUBSET Nat]
    BY <1>1, <1>2, <1>3
  <1>5. e \in {f \in id.ends : f <= e}
    BY <1>1
  <1>6. Cut(id, e) \in Idents
    BY <1>2, <1>3, <1>4, <1>5 DEF Idents
  <1>7. Cut(id, e) \in Lineage(id)
    BY DEF Cut, Lineage
  <1>8. e = Len(id.tokens) => Cut(id, e) = id
    <2> SUFFICES ASSUME e = Len(id.tokens) PROVE Cut(id, e) = id
      OBVIOUS
    <2>1. SubSeq(id.tokens, 1, e) = id.tokens
      BY <1>1
    <2>2. {f \in id.ends : f <= e} = id.ends
      BY <1>1
    <2> QED  BY <1>1, <1>3, <2>1, <2>2
  <1> QED  BY <1>2, <1>3, <1>6, <1>7, <1>8

\* What is cut off a cut is cut off the whole.
LEMMA CutAgain ==
    ASSUME NEW id \in Idents, NEW e \in id.ends, NEW f \in id.ends, f <= e
    PROVE  f \in Cut(id, e).ends /\ Cut(Cut(id, e), f) = Cut(id, f)
  <1>1. /\ id.tokens \in Seq(Token) /\ Len(id.tokens) \in Nat
        /\ \A x \in id.ends : x \in Nat /\ x <= Len(id.tokens)
    BY IdentIs
  <1>2. /\ Cut(id, e).epoch = id.epoch /\ Cut(id, e).tokens = SubSeq(id.tokens, 1, e)
        /\ Cut(id, e).ends = {x \in id.ends : x <= e}
    BY CutIs
  <1>3. {x \in Cut(id, e).ends : x <= f} = {x \in id.ends : x <= f}
    BY <1>1, <1>2
  <1>4. SubSeq(SubSeq(id.tokens, 1, e), 1, f) = SubSeq(id.tokens, 1, f)
    <2>1. e \in Nat /\ f \in Nat /\ e <= Len(id.tokens)
      BY <1>1
    <2> DEFINE s == id.tokens
               t == SubSeq(s, 1, e)
               u == SubSeq(t, 1, f)
               v == SubSeq(s, 1, f)
    <2>2. t \in Seq(Token) /\ Len(t) = e /\ \A i \in 1..e : t[i] = s[i]
      BY <2>1, <1>1
    <2>3. v \in Seq(Token) /\ Len(v) = f /\ \A i \in 1..f : v[i] = s[i]
      BY <2>1, <1>1
    <2> HIDE DEF t, v
    <2>4. u \in Seq(Token) /\ Len(u) = f /\ \A i \in 1..f : u[i] = t[i]
      BY <2>1, <2>2
    <2> HIDE DEF u
    <2>5. \A i \in 1..f : u[i] = v[i]
      BY <2>1, <2>2, <2>3, <2>4
    <2>6. u = v
      BY <2>3, <2>4, <2>5
    <2> QED  BY <2>6 DEF t, u, v
  <1>5. f \in Cut(id, e).ends
    BY <1>2
  <1> QED  BY <1>2, <1>3, <1>4, <1>5 DEF Cut

LEMMA LineageIs ==
    ASSUME NEW id \in Idents
    PROVE  /\ Lineage(id) = {Cut(id, e) : e \in id.ends}
           /\ id \in Lineage(id)
           /\ \A e \in id.ends : Lineage(Cut(id, e)) \subseteq Lineage(id)
  <1>1. Lineage(id) = {Cut(id, e) : e \in id.ends}
    BY DEF Lineage, Cut
  <1>2. id \in Lineage(id)
    BY IdentIs, CutIs
  <1>3. ASSUME NEW e \in id.ends, NEW x \in Lineage(Cut(id, e)) PROVE x \in Lineage(id)
    <2>1. PICK f \in Cut(id, e).ends : x = Cut(Cut(id, e), f)
      BY DEF Lineage, Cut
    <2>2. f \in id.ends /\ f <= e
      BY <2>1, CutIs
    <2>3. x = Cut(id, f)
      BY <2>1, <2>2, CutAgain
    <2> QED  BY <1>1, <2>2, <2>3
  <1> QED  BY <1>1, <1>2, <1>3

\* A mapping has a parent if it has an end before its last one; the parent ends there.
LEMMA ParentIs ==
    ASSUME NEW id \in Idents
    PROVE  /\ HasParent(id) <=> \E e \in id.ends : e < Len(id.tokens)
           /\ HasParent(id) =>
                 \E e \in id.ends : /\ e < Len(id.tokens) /\ Parent(id) = Cut(id, e)
                                    /\ \A f \in id.ends : f <= e \/ f = Len(id.tokens)
  <1> DEFINE n == Len(id.tokens)
             rest == id.ends \ {n}
  <1>1. /\ id.ends \in SUBSET Nat /\ n \in Nat /\ n \in id.ends /\ IsFiniteSet(id.ends)
        /\ (\A e \in id.ends : e \in Nat /\ e <= n) /\ RepresentedEnd(id) = n
    BY IdentIs
  <1> HIDE DEF n
  <1>2. HasParent(id) <=> rest # {}
    <2>1. IsFiniteSet(rest) /\ Cardinality(rest) = Cardinality(id.ends) - 1 /\ Cardinality(rest) \in Nat
          /\ Cardinality(id.ends) \in Nat
      BY <1>1, FS_RemoveElement, FS_CardinalityType
    <2>2. rest = {} <=> Cardinality(rest) = 0
      BY <2>1, FS_EmptySet
    <2> QED  BY <2>1, <2>2 DEF HasParent
  <1>3. rest # {} <=> \E e \in id.ends : e < n
    BY <1>1
  <1>4. ASSUME rest # {}
        PROVE  \E e \in id.ends : e < n /\ Parent(id) = Cut(id, e) /\ \A f \in id.ends : f <= e \/ f = n
    <2>1. rest \in SUBSET Nat /\ \A x \in rest : x <= n
      BY <1>1
    <2>2. PICK e \in rest : \A x \in rest : x <= e
      BY <1>1, <1>4, <2>1, GreatestNumber
    <2>3. e \in id.ends /\ e < n /\ \A f \in id.ends : f <= e \/ f = n
      BY <1>1, <2>2
    <2>4. Max(rest) = e
      <3>1. rest \subseteq Int
        BY <2>1
      <3> HIDE DEF rest
      <3> QED  BY <3>1, <2>2, MaxIs
    <2>5. rest = {f \in id.ends : f <= e}
      BY <1>1, <2>2, <2>3
    <2>6. Parent(id) = MappingId(id.epoch, SubSeq(id.tokens, 1, Max(rest)), rest)
      BY <1>1 DEF Parent
    <2> HIDE DEF rest
    <2>7. Parent(id) = Cut(id, e)
      BY <2>4, <2>5, <2>6 DEF Cut
    <2> QED  BY <2>3, <2>7
  <1> QED  BY <1>2, <1>3, <1>4 DEF n

LEMMA ParentInLineage ==
    ASSUME NEW id \in Idents, HasParent(id)
    PROVE  /\ Parent(id) \in Idents /\ Parent(id) \in Lineage(id) /\ Parent(id).epoch = id.epoch
           /\ Len(Parent(id).tokens) < Len(id.tokens)
           /\ Parent(id).tokens = SubSeq(id.tokens, 1, Len(Parent(id).tokens))
           /\ Parent(id) # id
  <1>1. PICK e \in id.ends : e < Len(id.tokens) /\ Parent(id) = Cut(id, e)
    BY ParentIs
  <1>2. /\ Cut(id, e) \in Idents /\ Len(Cut(id, e).tokens) = e /\ Cut(id, e).epoch = id.epoch
        /\ Cut(id, e).tokens = SubSeq(id.tokens, 1, e) /\ Cut(id, e) \in Lineage(id)
    BY CutIs
  <1>3. e \in Nat /\ Len(id.tokens) \in Nat
    BY IdentIs
  <1> QED  BY <1>1, <1>2, <1>3

\* The parent of an ancestor is the next shorter one ...
LEMMA CutParent ==
    ASSUME NEW id \in Idents, NEW e \in id.ends
    PROVE  /\ HasParent(Cut(id, e)) <=> \E f \in id.ends : f < e
           /\ HasParent(Cut(id, e)) =>
                 \E d \in id.ends : /\ d < e /\ Parent(Cut(id, e)) = Cut(id, d)
                                    /\ \A f \in id.ends : f <= d \/ f >= e
  <1> DEFINE x == Cut(id, e)
  <1>1. x \in Idents /\ Len(x.tokens) = e /\ x.ends = {f \in id.ends : f <= e}
    BY CutIs
  <1>2. \A f \in id.ends : f \in Nat
    BY IdentIs
  <1>3. HasParent(x) <=> \E f \in x.ends : f < Len(x.tokens)
    BY <1>1, ParentIs
  <1>4. ASSUME HasParent(x)
        PROVE  \E d \in id.ends : d < e /\ Parent(x) = Cut(id, d) /\ \A f \in id.ends : f <= d \/ f >= e
    <2>1. PICK d \in x.ends : /\ d < Len(x.tokens) /\ Parent(x) = Cut(x, d)
                              /\ \A f \in x.ends : f <= d \/ f = Len(x.tokens)
      BY <1>1, <1>4, ParentIs
    <2>2. d \in id.ends /\ d <= e /\ d < e
      BY <1>1, <2>1
    <2>3. Cut(x, d) = Cut(id, d)
      BY <2>2, CutAgain
    <2>4. \A f \in id.ends : f <= d \/ f >= e
      BY <1>1, <1>2, <2>1
    <2> QED  BY <2>1, <2>2, <2>3, <2>4
  <1>5. HasParent(x) <=> \E f \in id.ends : f < e
    BY <1>1, <1>2, <1>3
  <1> QED  BY <1>4, <1>5

\* ... and an ancestor is the parent of the next longer one.
LEMMA NextCut ==
    ASSUME NEW id \in Idents, NEW e \in id.ends, e < Len(id.tokens)
    PROVE  \E f \in id.ends : f > e /\ HasParent(Cut(id, f)) /\ Parent(Cut(id, f)) = Cut(id, e)
  <1>1. Len(id.tokens) \in id.ends /\ id.ends \in SUBSET Nat /\ \A f \in id.ends : f \in Nat
    BY IdentIs
  <1> DEFINE above == {f \in id.ends : f > e}
  <1>2. above \in SUBSET Nat /\ above # {}
    BY <1>1
  <1>3. PICK f \in above : \A g \in above : f <= g
    BY <1>2, LeastNumber
  <1>4. f \in id.ends /\ f > e /\ e < f
    BY <1>1, <1>3
  <1>5. HasParent(Cut(id, f))
    BY <1>4, CutParent
  <1>6. PICK d \in id.ends : d < f /\ Parent(Cut(id, f)) = Cut(id, d) /\ \A g \in id.ends : g <= d \/ g >= f
    BY <1>4, <1>5, CutParent
  <1>7. d = e
    BY <1>1, <1>3, <1>4, <1>6
  <1> QED  BY <1>4, <1>5, <1>6, <1>7

LEMMA SameParent ==
    ASSUME NEW id \in Idents, NEW x \in Lineage(id), NEW y \in Lineage(id),
           HasParent(x), HasParent(y), Parent(x) = Parent(y)
    PROVE  x = y
  <1>1. PICK e \in id.ends : x = Cut(id, e)
    BY LineageIs
  <1>2. PICK f \in id.ends : y = Cut(id, f)
    BY LineageIs
  <1>3. PICK d \in id.ends : d < e /\ Parent(x) = Cut(id, d) /\ \A g \in id.ends : g <= d \/ g >= e
    BY <1>1, CutParent
  <1>4. PICK c \in id.ends : c < f /\ Parent(y) = Cut(id, c) /\ \A g \in id.ends : g <= c \/ g >= f
    BY <1>2, CutParent
  <1>5. Len(Cut(id, d).tokens) = d /\ Len(Cut(id, c).tokens) = c
    BY CutIs
  <1>6. c = d
    BY <1>3, <1>4, <1>5
  <1>7. c \in Nat /\ d \in Nat /\ e \in Nat /\ f \in Nat
    BY IdentIs
  <1>8. e = f
    BY <1>3, <1>4, <1>6, <1>7
  <1> QED  BY <1>1, <1>2, <1>8

LEMMA EndsOrder ==
    ASSUME NEW id \in Idents, NEW e \in id.ends, NEW f \in id.ends
    PROVE  Cut(id, e).ends \subseteq Cut(id, f).ends <=> e <= f
  <1>1. Cut(id, e).ends = {g \in id.ends : g <= e} /\ Cut(id, f).ends = {g \in id.ends : g <= f}
    BY CutIs
  <1>2. \A g \in id.ends : g \in Nat
    BY IdentIs
  <1>3. e \in Cut(id, e).ends
    BY <1>1, <1>2
  <1> QED  BY <1>1, <1>2, <1>3

Closed(ids) == \A id \in ids : HasParent(id) => Parent(id) \in ids

\* Where every mapping has its parent, no lineage has a hole.
LEMMA ClosedLineage ==
    ASSUME NEW ids \in SUBSET Idents, Closed(ids), NEW id \in ids
    PROVE  Lineage(id) \subseteq ids
  <1> DEFINE bad == {e \in id.ends : Cut(id, e) \notin ids}
  <1>1. id \in Idents /\ id.ends \in SUBSET Nat /\ Len(id.tokens) \in Nat /\ Len(id.tokens) \in id.ends
        /\ \A e \in id.ends : e \in Nat /\ e <= Len(id.tokens)
    BY IdentIs
  <1>2. bad = {}
    <2> SUFFICES ASSUME bad # {} PROVE FALSE
      OBVIOUS
    <2>1. bad \in SUBSET Nat /\ \A e \in bad : e <= Len(id.tokens)
      BY <1>1
    <2>2. PICK e \in bad : \A f \in bad : f <= e
      <3> HIDE DEF bad
      <3> QED  BY <1>1, <2>1, GreatestNumber
    <2>3. e \in id.ends /\ Cut(id, e) \notin ids
      BY <2>2
    <2>4. e < Len(id.tokens)
      <3>1. Cut(id, Len(id.tokens)) = id
        BY <1>1, CutIs
      <3>2. e # Len(id.tokens)
        BY <2>3, <3>1
      <3> QED  BY <1>1, <2>3, <3>2
    <2>5. PICK f \in id.ends : f > e /\ HasParent(Cut(id, f)) /\ Parent(Cut(id, f)) = Cut(id, e)
      BY <1>1, <2>3, <2>4, NextCut
    <2>6. Cut(id, f) \in ids
      <3>1. f \notin bad
        <4> HIDE DEF bad
        <4>1. f \in Nat /\ e \in Nat
          BY <1>1, <2>3
        <4> QED  BY <2>2, <2>5, <4>1
      <3> QED  BY <3>1
    <2> QED  BY <2>3, <2>5, <2>6 DEF Closed
  <1> QED  BY <1>1, <1>2, LineageIs

-----------------------------------------------------------------------------
(* A table of mappings that keeps its counts.                              *)

Values == [complete : Components, catalog : Nat, contexts : Nat, dependents : Nat]

Children(ids, id) == {x \in ids : HasParent(x) /\ Parent(x) = id}

Tree(m) ==
    /\ m \in [DOMAIN m -> Values] /\ DOMAIN m \subseteq Idents /\ IsFiniteSet(DOMAIN m)
    /\ Closed(DOMAIN m)
    /\ \A id \in DOMAIN m : m[id].dependents = Cardinality(Children(DOMAIN m, id))

Alive(n) == n.catalog + n.contexts + n.dependents > 0

Free(m, id, x) ==
    m[x].catalog = 0 /\ m[x].contexts = 0 /\ m[x].dependents <= IF x = id THEN 0 ELSE 1

LEMMA TreeIs ==
    ASSUME NEW m, Tree(m)
    PROVE  /\ m \in [DOMAIN m -> Values] /\ DOMAIN m \in SUBSET Idents /\ IsFiniteSet(DOMAIN m)
           /\ Closed(DOMAIN m)
           /\ \A id \in DOMAIN m :
                /\ id \in Idents /\ Lineage(id) \subseteq DOMAIN m /\ m[id] \in Values
                /\ m[id].catalog \in Nat /\ m[id].contexts \in Nat /\ m[id].dependents \in Nat
                /\ m[id].complete \in Components
                /\ IsFiniteSet(Children(DOMAIN m, id))
                /\ m[id].dependents = Cardinality(Children(DOMAIN m, id))
  <1>1. m \in [DOMAIN m -> Values] /\ DOMAIN m \in SUBSET Idents /\ IsFiniteSet(DOMAIN m) /\ Closed(DOMAIN m)
    BY DEF Tree
  <1>2. ASSUME NEW id \in DOMAIN m
        PROVE  /\ id \in Idents /\ Lineage(id) \subseteq DOMAIN m /\ m[id] \in Values
               /\ m[id].catalog \in Nat /\ m[id].contexts \in Nat /\ m[id].dependents \in Nat
               /\ m[id].complete \in Components
               /\ IsFiniteSet(Children(DOMAIN m, id))
               /\ m[id].dependents = Cardinality(Children(DOMAIN m, id))
    <2>1. id \in Idents
      BY <1>1
    <2>2. Lineage(id) \subseteq DOMAIN m
      BY <1>1, ClosedLineage
    <2>3. m[id] \in Values
      BY <1>1
    <2>4. /\ m[id].catalog \in Nat /\ m[id].contexts \in Nat /\ m[id].dependents \in Nat
          /\ m[id].complete \in Components
      BY <2>3 DEF Values
    <2>5. IsFiniteSet(Children(DOMAIN m, id))
      <3>1. Children(DOMAIN m, id) \subseteq DOMAIN m
        BY DEF Children
      <3> QED  BY <1>1, <3>1, FS_Subset
    <2>6. m[id].dependents = Cardinality(Children(DOMAIN m, id))
      BY DEF Tree
    <2> QED  BY <2>1, <2>2, <2>3, <2>4, <2>5, <2>6
  <1> QED  BY <1>1, <1>2

LEMMA ReclaimedIs ==
    ASSUME NEW m, DOMAIN m \in SUBSET Idents, Closed(DOMAIN m), NEW id \in DOMAIN m
    PROVE  /\ Reclaimed(m, id) \subseteq Lineage(id) /\ Reclaimed(m, id) \subseteq DOMAIN m
           /\ \A e \in id.ends : Cut(id, e) \in Reclaimed(m, id)
                                 <=> \A f \in id.ends : e <= f => Free(m, id, Cut(id, f))
  <1>1. id \in Idents /\ Lineage(id) \subseteq DOMAIN m /\ Lineage(id) = {Cut(id, e) : e \in id.ends}
    BY ClosedLineage, LineageIs
  <1>2. Reclaimed(m, id) =
          {x \in Lineage(id) \cap DOMAIN m :
             \A y \in Lineage(id) : x.ends \subseteq y.ends => y \in DOMAIN m /\ Free(m, id, y)}
    BY DEF Reclaimed, Free
  <1>3. ASSUME NEW e \in id.ends
        PROVE  Cut(id, e) \in Reclaimed(m, id) <=> \A f \in id.ends : e <= f => Free(m, id, Cut(id, f))
    <2>1. Cut(id, e) \in Lineage(id) \cap DOMAIN m
      BY <1>1
    <2>2. \A f \in id.ends : Cut(id, e).ends \subseteq Cut(id, f).ends <=> e <= f
      BY <1>1, EndsOrder
    <2>3. \A f \in id.ends : Cut(id, f) \in DOMAIN m
      BY <1>1
    <2>4. Cut(id, e) \in Reclaimed(m, id)
          <=> \A f \in id.ends : Cut(id, e).ends \subseteq Cut(id, f).ends
                                 => Cut(id, f) \in DOMAIN m /\ Free(m, id, Cut(id, f))
      BY <1>1, <1>2, <2>1
    <2> QED  BY <2>2, <2>3, <2>4
  <1> QED  BY <1>2, <1>3

LEMMA OneIsAll ==
    ASSUME NEW S, IsFiniteSet(S), Cardinality(S) <= 1, NEW x \in S, NEW y \in S
    PROVE  x = y
  <1> SUFFICES ASSUME x # y PROVE FALSE
    OBVIOUS
  <1>1. IsFiniteSet(S \ {x}) /\ Cardinality(S \ {x}) = Cardinality(S) - 1
    BY FS_RemoveElement
  <1>2. y \in S \ {x}
    OBVIOUS
  <1>3. Cardinality(S \ {x}) \in Nat /\ Cardinality(S) \in Nat
    BY <1>1, FS_CardinalityType
  <1>4. Cardinality(S \ {x}) = 0
    BY <1>1, <1>3
  <1> QED  BY <1>1, <1>2, <1>4, FS_EmptySet

\* What depends on a reclaimed mapping is reclaimed with it.
LEMMA GoneWithParent ==
    ASSUME NEW m, Tree(m), NEW id \in DOMAIN m, NEW x \in Reclaimed(m, id),
           NEW y \in Children(DOMAIN m, x)
    PROVE  y \in Reclaimed(m, id)
  <1>1. id \in Idents /\ Len(id.tokens) \in id.ends /\ DOMAIN m \in SUBSET Idents /\ Closed(DOMAIN m)
        /\ Lineage(id) \subseteq DOMAIN m /\ Lineage(id) = {Cut(id, e) : e \in id.ends}
        /\ \A e \in id.ends : e \in Nat /\ e <= Len(id.tokens)
    BY TreeIs, IdentIs, LineageIs
  <1>2. PICK e \in id.ends : x = Cut(id, e)
    BY <1>1, ReclaimedIs
  <1>3. \A f \in id.ends : e <= f => Free(m, id, Cut(id, f))
    BY <1>1, <1>2, ReclaimedIs
  <1>4. x \in DOMAIN m /\ IsFiniteSet(Children(DOMAIN m, x))
        /\ m[x].dependents = Cardinality(Children(DOMAIN m, x))
    BY <1>1, <1>2, TreeIs
  <1>5. Free(m, id, x)
    BY <1>1, <1>2, <1>3
  <1>6. e < Len(id.tokens)
    <2> SUFFICES ASSUME e = Len(id.tokens) PROVE FALSE
      BY <1>1
    <2>1. x = id
      BY <1>1, <1>2, CutIs
    <2>2. Cardinality(Children(DOMAIN m, x)) <= 0 /\ Cardinality(Children(DOMAIN m, x)) \in Nat
      BY <1>4, <1>5, <2>1, FS_CardinalityType DEF Free
    <2>3. Cardinality(Children(DOMAIN m, x)) = 0
      BY <2>2
    <2> QED  BY <1>4, <2>3, FS_EmptySet
  <1>7. PICK f \in id.ends : f > e /\ HasParent(Cut(id, f)) /\ Parent(Cut(id, f)) = x
    BY <1>1, <1>2, <1>6, NextCut
  <1>8. Cut(id, f) \in Children(DOMAIN m, x)
    BY <1>1, <1>7 DEF Children
  <1>9. Cardinality(Children(DOMAIN m, x)) <= 1
    <2>1. Cardinality(Children(DOMAIN m, x)) <= IF x = id THEN 0 ELSE 1
      BY <1>4, <1>5 DEF Free
    <2>2. Cardinality(Children(DOMAIN m, x)) \in Nat
      BY <1>4, FS_CardinalityType
    <2> QED  BY <2>1, <2>2
  <1>10. y = Cut(id, f)
    BY <1>4, <1>8, <1>9, OneIsAll
  <1>11. \A g \in id.ends : f <= g => Free(m, id, Cut(id, g))
    BY <1>1, <1>3, <1>7
  <1> QED  BY <1>1, <1>10, <1>11, ReclaimedIs

\* If anything is reclaimed the mapping itself is; else something owns it.
LEMMA GoneFirst ==
    ASSUME NEW m, Tree(m), NEW id \in DOMAIN m
    PROVE  /\ id \in Reclaimed(m, id) <=> Free(m, id, id)
           /\ Reclaimed(m, id) # {} => id \in Reclaimed(m, id)
           /\ \A x \in Reclaimed(m, id) : x \in DOMAIN m /\ Free(m, id, x)
  <1>1. id \in Idents /\ Len(id.tokens) \in id.ends /\ DOMAIN m \in SUBSET Idents /\ Closed(DOMAIN m)
        /\ Lineage(id) = {Cut(id, e) : e \in id.ends}
        /\ (\A e \in id.ends : e \in Nat /\ e <= Len(id.tokens)) /\ Cut(id, Len(id.tokens)) = id
    BY TreeIs, IdentIs, LineageIs, CutIs
  <1>2. \A e \in id.ends : Cut(id, e) \in Reclaimed(m, id)
                           <=> \A f \in id.ends : e <= f => Free(m, id, Cut(id, f))
    BY <1>1, ReclaimedIs
  <1>3. \A f \in id.ends : Len(id.tokens) <= f => f = Len(id.tokens)
    BY <1>1
  <1>4. id \in Reclaimed(m, id) <=> Free(m, id, id)
    <2>1. Len(id.tokens) <= Len(id.tokens)
      BY <1>1
    <2> QED  BY <1>1, <1>2, <1>3, <2>1
  <1>5. ASSUME NEW x \in Reclaimed(m, id)
        PROVE  x \in DOMAIN m /\ Free(m, id, x) /\ Free(m, id, id)
    <2>1. PICK e \in id.ends : x = Cut(id, e)
      BY <1>1, ReclaimedIs
    <2>2. \A f \in id.ends : e <= f => Free(m, id, Cut(id, f))
      BY <1>2, <2>1
    <2>3. e <= e /\ e <= Len(id.tokens)
      BY <1>1
    <2>4. x \in DOMAIN m
      BY <1>1, ReclaimedIs
    <2> QED  BY <1>1, <2>1, <2>2, <2>3, <2>4
  <1> QED  BY <1>4, <1>5

\* The last one reclaimed leaves a parent that something else owns.
LEMMA LostParent ==
    ASSUME NEW m, Tree(m), NEW id \in DOMAIN m, NEW x \in Reclaimed(m, id), HasParent(x),
           Parent(x) \notin Reclaimed(m, id)
    PROVE  /\ Parent(x) \in DOMAIN m /\ Parent(x) # id /\ ~Free(m, id, Parent(x))
           /\ x \in Children(DOMAIN m, Parent(x))
  <1>1. id \in Idents /\ DOMAIN m \in SUBSET Idents /\ Closed(DOMAIN m)
        /\ Lineage(id) = {Cut(id, e) : e \in id.ends} /\ Lineage(id) \subseteq DOMAIN m
        /\ (\A e \in id.ends : e \in Nat) /\ id \in Reclaimed(m, id)
    BY TreeIs, IdentIs, LineageIs, GoneFirst
  <1>2. \A e \in id.ends : Cut(id, e) \in Reclaimed(m, id)
                           <=> \A f \in id.ends : e <= f => Free(m, id, Cut(id, f))
    BY <1>1, ReclaimedIs
  <1>3. PICK e \in id.ends : x = Cut(id, e)
    BY <1>1, ReclaimedIs
  <1>4. PICK d \in id.ends : d < e /\ Parent(x) = Cut(id, d) /\ \A f \in id.ends : f <= d \/ f >= e
    BY <1>1, <1>3, CutParent
  <1>5. \A f \in id.ends : d <= f => f = d \/ e <= f
    BY <1>1, <1>4
  <1>6. ~Free(m, id, Parent(x))
    BY <1>2, <1>3, <1>4, <1>5
  <1>7. x \in DOMAIN m
    BY <1>1, ReclaimedIs
  <1> QED  BY <1>1, <1>4, <1>6, <1>7 DEF Children

LEMMA LessOne ==
    ASSUME NEW n \in Nat
    PROVE  Max({0, n - 1}) = IF n = 0 THEN 0 ELSE n - 1
  <1>1. CASE n = 0
    <2>1. 0 \in {0, n - 1} /\ (\A x \in {0, n - 1} : x <= 0) /\ {0, n - 1} \subseteq Int
      BY <1>1
    <2>2. Max({0, n - 1}) = 0
      BY <2>1, MaxIs
    <2> QED  BY <1>1, <2>2
  <1>2. CASE n # 0
    <2>1. n - 1 \in {0, n - 1} /\ (\A x \in {0, n - 1} : x <= n - 1) /\ {0, n - 1} \subseteq Int
      BY <1>2
    <2>2. Max({0, n - 1}) = n - 1
      BY <2>1, MaxIs
    <2> QED  BY <1>2, <2>2
  <1> QED  BY <1>1, <1>2

\* Reclaiming leaves the parent of the last one removed with one dependent
\* less, and the others as they were.
LEMMA ReclaimIs ==
    ASSUME NEW m, Tree(m), NEW id \in DOMAIN m
    PROVE  LET r == Reclaim(m, id)
               gone == Reclaimed(m, id)
           IN  /\ DOMAIN r = DOMAIN m \ gone /\ r \in [DOMAIN r -> Values]
               /\ \A x \in DOMAIN r :
                     /\ r[x].catalog = m[x].catalog /\ r[x].contexts = m[x].contexts
                     /\ r[x].complete = m[x].complete /\ r[x].dependents \in Nat
                     /\ IF \E y \in gone : HasParent(y) /\ Parent(y) = x
                        THEN r[x].dependents = IF m[x].dependents = 0 THEN 0 ELSE m[x].dependents - 1
                        ELSE r[x] = m[x]
  <1> DEFINE r == Reclaim(m, id)
             gone == Reclaimed(m, id)
             lost == {Parent(x) : x \in {x \in gone : HasParent(x)}}
  <1>1. r = [x \in DOMAIN m \ gone |->
               IF x \in lost THEN [m[x] EXCEPT !.dependents = Max({0, @ - 1})] ELSE m[x]]
    BY DEF Reclaim
  <1>2. \A x : x \in lost <=> \E y \in gone : HasParent(y) /\ Parent(y) = x
    OBVIOUS
  <1> HIDE DEF r, gone, lost
  <1>3. DOMAIN r = DOMAIN m \ gone
    BY <1>1
  <1>4. ASSUME NEW x \in DOMAIN r
        PROVE  /\ r[x].catalog = m[x].catalog /\ r[x].contexts = m[x].contexts
               /\ r[x].complete = m[x].complete /\ r[x].dependents \in Nat /\ r[x] \in Values
               /\ IF x \in lost
                  THEN r[x].dependents = IF m[x].dependents = 0 THEN 0 ELSE m[x].dependents - 1
                  ELSE r[x] = m[x]
    <2>1. x \in DOMAIN m /\ m[x] \in Values /\ m[x].dependents \in Nat
      BY <1>3, TreeIs
    <2>2. CASE x \notin lost
      <3>1. r[x] = m[x]
        BY <1>1, <1>3, <2>2
      <3> QED  BY <2>1, <2>2, <3>1
    <2>3. CASE x \in lost
      <3>1. Max({0, m[x].dependents - 1}) = IF m[x].dependents = 0 THEN 0 ELSE m[x].dependents - 1
        BY <2>1, LessOne
      <3> DEFINE n == IF m[x].dependents = 0 THEN 0 ELSE m[x].dependents - 1
      <3>2. n \in Nat
        BY <2>1
      <3>3. r[x] = [m[x] EXCEPT !.dependents = n]
        BY <1>1, <1>3, <2>3, <3>1
      <3> HIDE DEF n
      <3>4. /\ r[x] \in Values /\ r[x].dependents = n /\ r[x].catalog = m[x].catalog
            /\ r[x].contexts = m[x].contexts /\ r[x].complete = m[x].complete
        BY <2>1, <3>2, <3>3 DEF Values
      <3> QED  BY <2>3, <3>2, <3>4 DEF n
    <2> QED  BY <2>2, <2>3
  <1>5. r \in [DOMAIN r -> Values]
    <2>1. r = [x \in DOMAIN r |-> r[x]]
      BY <1>1, <1>3
    <2> QED  BY <1>4, <2>1
  <1>6. \A x \in DOMAIN r :
           /\ r[x].catalog = m[x].catalog /\ r[x].contexts = m[x].contexts
           /\ r[x].complete = m[x].complete /\ r[x].dependents \in Nat
           /\ IF \E y \in gone : HasParent(y) /\ Parent(y) = x
              THEN r[x].dependents = IF m[x].dependents = 0 THEN 0 ELSE m[x].dependents - 1
              ELSE r[x] = m[x]
    BY <1>2, <1>4
  <1> QED  BY <1>3, <1>5, <1>6 DEF r, gone

LEMMA StillOwned ==
    ASSUME NEW x \in Nat, NEW y \in Nat, NEW n \in Nat, n # 0, x # 0 \/ y # 0 \/ ~(n <= 1)
    PROVE  x + y + (n - 1) > 0
  OBVIOUS

LEMMA ReclaimKeeps ==
    ASSUME NEW m, Tree(m), NEW id \in DOMAIN m, \A x \in DOMAIN m \ {id} : Alive(m[x])
    PROVE  LET r == Reclaim(m, id)
           IN  /\ Tree(r) /\ DOMAIN r \subseteq DOMAIN m
               /\ \A x \in DOMAIN r : /\ r[x].contexts = m[x].contexts /\ r[x].complete = m[x].complete
                                      /\ Alive(r[x])
               /\ \A x \in DOMAIN m \ DOMAIN r : m[x].contexts = 0
  <1> DEFINE r == Reclaim(m, id)
             gone == Reclaimed(m, id)
  <1>1. /\ DOMAIN r = DOMAIN m \ gone /\ r \in [DOMAIN r -> Values]
        /\ \A x \in DOMAIN r :
              /\ r[x].catalog = m[x].catalog /\ r[x].contexts = m[x].contexts
              /\ r[x].complete = m[x].complete /\ r[x].dependents \in Nat
              /\ IF \E y \in gone : HasParent(y) /\ Parent(y) = x
                 THEN r[x].dependents = IF m[x].dependents = 0 THEN 0 ELSE m[x].dependents - 1
                 ELSE r[x] = m[x]
    BY ReclaimIs
  <1>2. /\ DOMAIN m \in SUBSET Idents /\ IsFiniteSet(DOMAIN m) /\ Closed(DOMAIN m) /\ id \in Idents
        /\ gone \subseteq DOMAIN m /\ gone \subseteq Lineage(id)
    BY TreeIs, ReclaimedIs
  <1>3. /\ id \in gone <=> Free(m, id, id)
        /\ gone # {} => id \in gone
        /\ \A x \in gone : x \in DOMAIN m /\ Free(m, id, x)
    BY GoneFirst
  <1>4. \A x \in gone : \A y \in Children(DOMAIN m, x) : y \in gone
    BY GoneWithParent
  <1>5. \A x \in gone : HasParent(x) /\ Parent(x) \notin gone
                        => /\ Parent(x) \in DOMAIN m /\ Parent(x) # id /\ ~Free(m, id, Parent(x))
                           /\ x \in Children(DOMAIN m, Parent(x))
    BY LostParent
  <1>6. \A x \in gone, y \in gone : HasParent(x) /\ HasParent(y) /\ Parent(x) = Parent(y) => x = y
    BY <1>2, SameParent
  <1>7. \A x \in DOMAIN m : /\ m[x].catalog \in Nat /\ m[x].contexts \in Nat /\ m[x].dependents \in Nat
                            /\ IsFiniteSet(Children(DOMAIN m, x))
                            /\ m[x].dependents = Cardinality(Children(DOMAIN m, x))
    BY TreeIs
  <1> HIDE DEF r, gone
  <1>8. Closed(DOMAIN r)
    <2> SUFFICES ASSUME NEW x \in DOMAIN r, HasParent(x) PROVE Parent(x) \in DOMAIN r
      BY DEF Closed
    <2>1. x \in DOMAIN m /\ x \notin gone /\ Parent(x) \in DOMAIN m
      BY <1>1, <1>2 DEF Closed
    <2>2. x \in Children(DOMAIN m, Parent(x))
      BY <2>1 DEF Children
    <2>3. Parent(x) \notin gone
      BY <1>4, <2>1, <2>2
    <2> QED  BY <1>1, <2>1, <2>3
  <1>9. ASSUME NEW x \in DOMAIN r
        PROVE  /\ r[x].dependents = Cardinality(Children(DOMAIN r, x))
               /\ Alive(r[x])
    <2>1. x \in DOMAIN m /\ x \notin gone
      BY <1>1
    <2>2. Children(DOMAIN r, x) = Children(DOMAIN m, x) \ gone
      BY <1>1 DEF Children
    <2>3. CASE \E y \in gone : HasParent(y) /\ Parent(y) = x
      <3>1. PICK y \in gone : HasParent(y) /\ Parent(y) = x
        BY <2>3
      <3>2. y \in Children(DOMAIN m, x) /\ x # id /\ ~Free(m, id, x)
        BY <1>5, <2>1, <3>1
      <3>3. Children(DOMAIN r, x) = Children(DOMAIN m, x) \ {y}
        <4>1. \A z \in Children(DOMAIN m, x) : z \in gone => z = y
          BY <1>6, <3>1 DEF Children
        <4> QED  BY <2>2, <3>1, <4>1
      <3>4. Cardinality(Children(DOMAIN r, x)) = Cardinality(Children(DOMAIN m, x)) - 1
        BY <1>7, <2>1, <3>2, <3>3, FS_RemoveElement
      <3>5. Cardinality(Children(DOMAIN r, x)) \in Nat
        <4>1. IsFiniteSet(Children(DOMAIN r, x))
          BY <1>7, <2>1, <2>2, FS_Subset
        <4> QED  BY <4>1, FS_CardinalityType
      <3>6. m[x].dependents # 0 /\ r[x].dependents = m[x].dependents - 1
        BY <1>1, <1>7, <2>1, <2>3, <3>4, <3>5
      <3>7. m[x].catalog # 0 \/ m[x].contexts # 0 \/ ~(m[x].dependents <= 1)
        BY <3>2 DEF Free
      <3>8. Alive(r[x])
        <4>1. /\ r[x].catalog = m[x].catalog /\ r[x].contexts = m[x].contexts
              /\ r[x].dependents = m[x].dependents - 1 /\ m[x].dependents # 0
              /\ m[x].catalog \in Nat /\ m[x].contexts \in Nat /\ m[x].dependents \in Nat
          BY <1>1, <1>7, <2>1, <3>6
        <4>2. m[x].catalog + m[x].contexts + (m[x].dependents - 1) > 0
          BY <4>1, <3>7, StillOwned
        <4> QED  BY <4>1, <4>2 DEF Alive
      <3> QED  BY <1>7, <2>1, <3>4, <3>6, <3>8
    <2>4. CASE ~\E y \in gone : HasParent(y) /\ Parent(y) = x
      <3>1. r[x] = m[x]
        BY <1>1, <2>4
      <3>2. Children(DOMAIN r, x) = Children(DOMAIN m, x)
        BY <2>2, <2>4 DEF Children
      <3>3. Alive(r[x])
        <4>1. CASE x # id
          BY <2>1, <3>1, <4>1
        <4>2. CASE x = id
          <5>1. ~Free(m, id, id)
            BY <1>3, <2>1, <4>2
          <5>2. m[x].catalog # 0 \/ m[x].contexts # 0 \/ ~(m[x].dependents <= 0)
            BY <4>2, <5>1 DEF Free
          <5> QED  BY <1>7, <2>1, <3>1, <5>2 DEF Alive
        <4> QED  BY <4>1, <4>2
      <3> QED  BY <1>7, <2>1, <3>1, <3>2, <3>3
    <2> QED  BY <2>3, <2>4
  <1>10. IsFiniteSet(DOMAIN r) /\ DOMAIN r \subseteq Idents /\ DOMAIN r \subseteq DOMAIN m
    BY <1>1, <1>2, FS_Subset
  <1>11. Tree(r)
    BY <1>1, <1>8, <1>9, <1>10 DEF Tree
  <1>12. \A x \in DOMAIN m \ DOMAIN r : m[x].contexts = 0
    BY <1>1, <1>3 DEF Free
  <1>13. \A x \in DOMAIN r : r[x].contexts = m[x].contexts /\ r[x].complete = m[x].complete /\ Alive(r[x])
    BY <1>1, <1>9
  <1> QED  BY <1>10, <1>11, <1>12, <1>13 DEF r

\* A count that is set changes nothing else of the table.
LEMMA SetContexts ==
    ASSUME NEW m, Tree(m), NEW id \in DOMAIN m, NEW n \in Nat
    PROVE  LET r == [m EXCEPT ![id].contexts = n]
           IN  /\ Tree(r) /\ DOMAIN r = DOMAIN m
               /\ \A x \in DOMAIN m \ {id} : r[x] = m[x]
               /\ r[id].contexts = n /\ r[id].catalog = m[id].catalog
               /\ r[id].dependents = m[id].dependents /\ r[id].complete = m[id].complete
  <1> DEFINE r == [m EXCEPT ![id].contexts = n]
  <1>1. /\ m \in [DOMAIN m -> Values] /\ DOMAIN m \in SUBSET Idents /\ IsFiniteSet(DOMAIN m)
        /\ Closed(DOMAIN m) /\ m[id] \in Values
        /\ \A x \in DOMAIN m : m[x].dependents = Cardinality(Children(DOMAIN m, x))
    BY TreeIs
  <1>2. DOMAIN r = DOMAIN m /\ (\A x \in DOMAIN m \ {id} : r[x] = m[x])
        /\ r[id] = [m[id] EXCEPT !.contexts = n]
    BY <1>1
  <1> HIDE DEF r
  <1>3. /\ r[id] \in Values /\ r[id].contexts = n /\ r[id].catalog = m[id].catalog
        /\ r[id].dependents = m[id].dependents /\ r[id].complete = m[id].complete
    BY <1>1, <1>2 DEF Values
  <1>4. r \in [DOMAIN r -> Values]
    <2>1. \A x \in DOMAIN m : r[x] \in Values
      BY <1>1, <1>2, <1>3
    <2>2. r = [x \in DOMAIN r |-> r[x]]
      BY DEF r
    <2> QED  BY <1>2, <2>1, <2>2
  <1>5. \A x \in DOMAIN r : r[x].dependents = Cardinality(Children(DOMAIN r, x))
    BY <1>1, <1>2, <1>3
  <1>6. Tree(r)
    BY <1>1, <1>2, <1>4, <1>5 DEF Tree
  <1> QED  BY <1>2, <1>3, <1>6 DEF r

LEMMA SetCatalog ==
    ASSUME NEW m, Tree(m), NEW id \in DOMAIN m, NEW n \in Nat
    PROVE  LET r == [m EXCEPT ![id].catalog = n]
           IN  /\ Tree(r) /\ DOMAIN r = DOMAIN m
               /\ \A x \in DOMAIN m \ {id} : r[x] = m[x]
               /\ r[id].contexts = m[id].contexts /\ r[id].complete = m[id].complete
  <1> DEFINE r == [m EXCEPT ![id].catalog = n]
  <1>1. /\ m \in [DOMAIN m -> Values] /\ DOMAIN m \in SUBSET Idents /\ IsFiniteSet(DOMAIN m)
        /\ Closed(DOMAIN m) /\ m[id] \in Values
        /\ \A x \in DOMAIN m : m[x].dependents = Cardinality(Children(DOMAIN m, x))
    BY TreeIs
  <1>2. DOMAIN r = DOMAIN m /\ (\A x \in DOMAIN m \ {id} : r[x] = m[x])
        /\ r[id] = [m[id] EXCEPT !.catalog = n]
    BY <1>1
  <1> HIDE DEF r
  <1>3. /\ r[id] \in Values /\ r[id].contexts = m[id].contexts
        /\ r[id].dependents = m[id].dependents /\ r[id].complete = m[id].complete
    BY <1>1, <1>2 DEF Values
  <1>4. r \in [DOMAIN r -> Values]
    <2>1. \A x \in DOMAIN m : r[x] \in Values
      BY <1>1, <1>2, <1>3
    <2>2. r = [x \in DOMAIN r |-> r[x]]
      BY DEF r
    <2> QED  BY <1>2, <2>1, <2>2
  <1>5. \A x \in DOMAIN r : r[x].dependents = Cardinality(Children(DOMAIN r, x))
    BY <1>1, <1>2, <1>3
  <1>6. Tree(r)
    BY <1>1, <1>2, <1>4, <1>5 DEF Tree
  <1> QED  BY <1>2, <1>3, <1>6 DEF r

-----------------------------------------------------------------------------
(* Contexts cs and the table of what they are evaluated to.                *)

Owners(cs, id) == {c \in DOMAIN cs : cs[c].evaluated = {id}}

Evaluated(m, cs) ==
    /\ IsFiniteSet(DOMAIN cs)
    /\ \A c \in DOMAIN cs : cs[c].evaluated = {} \/ \E id \in DOMAIN m : cs[c].evaluated = {id}
    /\ \A id \in DOMAIN m : m[id].contexts = Cardinality(Owners(cs, id))

\* A context that gives up its evaluation takes with it only what nobody owns.
LEMMA DropOwner ==
    ASSUME NEW m, Tree(m), \A x \in DOMAIN m : Alive(m[x]),
           NEW cs, Evaluated(m, cs), NEW c \in DOMAIN cs
    PROVE  LET r == DropContextRef(m, cs[c].evaluated)
           IN  /\ Tree(r) /\ DOMAIN r \subseteq DOMAIN m
               /\ \A x \in DOMAIN r : /\ Alive(r[x]) /\ r[x].complete = m[x].complete
                                      /\ r[x].contexts = Cardinality(Owners(cs, x) \ {c})
               /\ \A d \in DOMAIN cs \ {c} : cs[d].evaluated \subseteq DOMAIN r
  <1> DEFINE r == DropContextRef(m, cs[c].evaluated)
  <1>1. /\ IsFiniteSet(DOMAIN cs)
        /\ \A d \in DOMAIN cs : cs[d].evaluated = {} \/ \E id \in DOMAIN m : cs[d].evaluated = {id}
        /\ \A id \in DOMAIN m : m[id].contexts = Cardinality(Owners(cs, id))
    BY DEF Evaluated
  <1>2. \A id : IsFiniteSet(Owners(cs, id)) /\ Cardinality(Owners(cs, id)) \in Nat
    <2>1. \A id : Owners(cs, id) \subseteq DOMAIN cs
      BY DEF Owners
    <2> QED  BY <1>1, <2>1, FS_Subset, FS_CardinalityType
  <1>3. CASE cs[c].evaluated = {}
    <2>1. r = m
      BY <1>3 DEF DropContextRef
    <2>2. \A x : Owners(cs, x) \ {c} = Owners(cs, x)
      BY <1>3 DEF Owners
    <2>3. \A d \in DOMAIN cs : cs[d].evaluated \subseteq DOMAIN m
      BY <1>1
    <2> QED  BY <1>1, <2>1, <2>2, <2>3
  <1>4. CASE cs[c].evaluated # {}
    <2>1. PICK id \in DOMAIN m : cs[c].evaluated = {id}
      BY <1>1, <1>4
    <2> DEFINE n == Max({0, m[id].contexts - 1})
               t == [m EXCEPT ![id].contexts = n]
    <2>2. r = Reclaim(t, id)
      <3>1. (CHOOSE i \in {id} : TRUE) = id
        OBVIOUS
      <3>2. {id} \cap DOMAIN m # {}
        BY <2>1
      <3>3. r = Reclaim([m EXCEPT ![CHOOSE i \in {id} : TRUE].contexts = Max({0, @ - 1})], CHOOSE i \in {id} : TRUE)
        BY <2>1, <3>2 DEF DropContextRef
      <3>4. r = Reclaim([m EXCEPT ![id].contexts = Max({0, @ - 1})], id)
        BY <3>1, <3>3
      <3>5. [m EXCEPT ![id].contexts = Max({0, @ - 1})] = t
        OBVIOUS
      <3> QED  BY <3>4, <3>5
    <2>3. c \in Owners(cs, id) /\ \A x : x # id => c \notin Owners(cs, x)
      BY <2>1 DEF Owners
    <2>4. Cardinality(Owners(cs, id) \ {c}) = m[id].contexts - 1 /\ m[id].contexts \in Nat
          /\ Cardinality(Owners(cs, id) \ {c}) \in Nat
      <3>1. Cardinality(Owners(cs, id) \ {c}) = Cardinality(Owners(cs, id)) - 1
            /\ IsFiniteSet(Owners(cs, id) \ {c})
        BY <1>2, <2>3, FS_RemoveElement
      <3> QED  BY <1>1, <1>2, <2>1, <3>1, FS_CardinalityType
    <2>5. n = Cardinality(Owners(cs, id) \ {c}) /\ n \in Nat
      <3>1. n = IF m[id].contexts = 0 THEN 0 ELSE m[id].contexts - 1
        BY <2>4, LessOne
      <3> HIDE DEF n
      <3> QED  BY <2>4, <3>1
    <2> HIDE DEF n, r
    <2>6. /\ Tree(t) /\ DOMAIN t = DOMAIN m
          /\ (\A x \in DOMAIN m \ {id} : t[x] = m[x])
          /\ t[id].contexts = n /\ t[id].complete = m[id].complete
      BY <2>1, <2>5, SetContexts
    <2> HIDE DEF t
    <2>7. /\ Tree(r) /\ DOMAIN r \subseteq DOMAIN t
          /\ (\A x \in DOMAIN r : r[x].contexts = t[x].contexts /\ r[x].complete = t[x].complete /\ Alive(r[x]))
          /\ \A x \in DOMAIN t \ DOMAIN r : t[x].contexts = 0
      <3>1. \A x \in DOMAIN t \ {id} : Alive(t[x])
        BY <2>6
      <3> QED  BY <2>1, <2>2, <2>6, <3>1, ReclaimKeeps
    <2>8. \A x \in DOMAIN m : t[x].contexts = Cardinality(Owners(cs, x) \ {c})
      <3>1. ASSUME NEW x \in DOMAIN m, x # id PROVE t[x].contexts = Cardinality(Owners(cs, x) \ {c})
        <4>1. Owners(cs, x) \ {c} = Owners(cs, x)
          BY <2>3, <3>1
        <4> QED  BY <1>1, <2>6, <3>1, <4>1
      <3> QED  BY <2>5, <2>6, <3>1
    <2>9. \A x \in DOMAIN r : /\ Alive(r[x]) /\ r[x].complete = m[x].complete
                              /\ r[x].contexts = Cardinality(Owners(cs, x) \ {c})
      BY <2>6, <2>7, <2>8
    <2>10. ASSUME NEW d \in DOMAIN cs \ {c} PROVE cs[d].evaluated \subseteq DOMAIN r
      <3> SUFFICES ASSUME NEW x \in cs[d].evaluated, x \notin DOMAIN r PROVE FALSE
        OBVIOUS
      <3>1. x \in DOMAIN m /\ cs[d].evaluated = {x}
        BY <1>1
      <3>2. d \in Owners(cs, x) \ {c}
        BY <3>1 DEF Owners
      <3>3. Cardinality(Owners(cs, x) \ {c}) = 0
        BY <2>6, <2>7, <2>8, <3>1
      <3>4. IsFiniteSet(Owners(cs, x) \ {c})
        BY <1>2, FS_Subset
      <3> QED  BY <3>2, <3>3, <3>4, FS_EmptySet
    <2> QED  BY <2>6, <2>7, <2>9, <2>10 DEF r
  <1> QED  BY <1>3, <1>4

\* A new mapping, whose parent is stored if it has one.
LEMMA InsertedIs ==
    ASSUME Tree(mappings), \A x \in DOMAIN mappings : Alive(mappings[x]),
           NEW id \in Idents, id \notin DOMAIN mappings, NEW n \in Components,
           HasParent(id) => Parent(id) \in DOMAIN mappings
    PROVE  LET r == Inserted(id, n)
           IN  /\ Tree(r) /\ DOMAIN r = DOMAIN mappings \cup {id}
               /\ \A x \in DOMAIN r : Alive(r[x])
               /\ \A x \in DOMAIN mappings : r[x].contexts = mappings[x].contexts
               /\ r[id].contexts = 0
  <1> DEFINE r == Inserted(id, n)
             m == mappings
             new == [complete |-> n, catalog |-> 1, contexts |-> 0, dependents |-> 0]
  <1>1. /\ m \in [DOMAIN m -> Values] /\ DOMAIN m \in SUBSET Idents /\ IsFiniteSet(DOMAIN m) /\ Closed(DOMAIN m)
        /\ \A x \in DOMAIN m :
             /\ m[x] \in Values /\ m[x].catalog \in Nat /\ m[x].contexts \in Nat /\ m[x].dependents \in Nat
             /\ IsFiniteSet(Children(DOMAIN m, x))
             /\ m[x].dependents = Cardinality(Children(DOMAIN m, x))
    BY TreeIs
  <1>2. r = [x \in DOMAIN m \cup {id} |->
               IF x = id THEN new
               ELSE IF HasParent(id) /\ x = Parent(id) THEN [m[x] EXCEPT !.dependents = @ + 1] ELSE m[x]]
    BY DEF Inserted
  <1>3. new \in Values /\ new.contexts = 0 /\ new.catalog = 1 /\ new.dependents = 0
    BY DEF Values
  <1> HIDE DEF r, m, new
  <1>4. DOMAIN r = DOMAIN m \cup {id} /\ r[id] = new
    BY <1>2
  <1>5. HasParent(id) => Parent(id) # id
    BY ParentInLineage
  <1>6. Children(DOMAIN r, id) = {}
    <2>1. ASSUME NEW x \in DOMAIN m, HasParent(x), Parent(x) = id PROVE FALSE
      BY <1>1, <2>1 DEF Closed, m
    <2> QED  BY <1>4, <1>5, <2>1 DEF Children
  <1>7. ASSUME NEW x \in DOMAIN m
        PROVE  /\ r[x] \in Values /\ Alive(r[x]) /\ r[x].contexts = m[x].contexts
               /\ r[x].dependents = Cardinality(Children(DOMAIN r, x))
    <2>1. x # id /\ m[x] \in Values /\ Alive(m[x])
      BY <1>1 DEF m
    <2>2. CASE HasParent(id) /\ x = Parent(id)
      <3>1. r[x] = [m[x] EXCEPT !.dependents = @ + 1]
        BY <1>2, <2>1, <2>2
      <3>2. /\ r[x] \in Values /\ r[x].contexts = m[x].contexts /\ r[x].catalog = m[x].catalog
            /\ r[x].dependents = m[x].dependents + 1
        BY <1>1, <2>1, <3>1 DEF Values
      <3>3. Alive(r[x])
        BY <1>1, <3>2 DEF Alive
      <3>4. Children(DOMAIN r, x) = Children(DOMAIN m, x) \cup {id} /\ id \notin Children(DOMAIN m, x)
        BY <1>4, <2>2 DEF Children, m
      <3>5. Cardinality(Children(DOMAIN r, x)) = Cardinality(Children(DOMAIN m, x)) + 1
        BY <1>1, <3>4, FS_AddElement
      <3> QED  BY <1>1, <3>2, <3>3, <3>5
    <2>3. CASE ~(HasParent(id) /\ x = Parent(id))
      <3>1. r[x] = m[x]
        BY <1>2, <2>1, <2>3
      <3>2. Children(DOMAIN r, x) = Children(DOMAIN m, x)
        BY <1>4, <2>3 DEF Children
      <3> QED  BY <1>1, <2>1, <3>1, <3>2
    <2> QED  BY <2>2, <2>3
  <1>8. r[id].dependents = Cardinality(Children(DOMAIN r, id)) /\ Alive(r[id]) /\ r[id] \in Values
    <2>1. Cardinality(Children(DOMAIN r, id)) = 0
      BY <1>6, FS_EmptySet
    <2>2. new.catalog + new.contexts + new.dependents > 0
      BY <1>3
    <2> QED  BY <1>3, <1>4, <2>1, <2>2 DEF Alive
  <1>9. r \in [DOMAIN r -> Values]
    <2>1. r = [x \in DOMAIN r |-> r[x]]
      BY <1>2
    <2> QED  BY <1>4, <1>7, <1>8, <2>1
  <1>10. DOMAIN r \subseteq Idents /\ IsFiniteSet(DOMAIN r)
    BY <1>1, <1>4, FS_AddElement DEF m
  <1>11. Closed(DOMAIN r)
    BY <1>1, <1>4 DEF Closed, m
  <1>12. Tree(r)
    BY <1>4, <1>7, <1>8, <1>9, <1>10, <1>11 DEF Tree
  <1> QED  BY <1>3, <1>4, <1>7, <1>8, <1>12 DEF r, m

\* What is evaluated for a context is one of the mappings a lookup chooses from.
LEMMA LookupFinds ==
    ASSUME Tree(mappings), prefix_index = DOMAIN mappings, NEW c \in DOMAIN contexts,
           NEW id \in DOMAIN mappings, ValidForContext(id, contexts[c]), NEW n \in Nat,
           Len(contexts[c].tokens) <= n, Len(contexts[c].tokens) \in Nat
    PROVE  \E found \in LongestValidPrefix(c) : RepresentedEnd(found) >= RepresentedEnd(id)
  <1> DEFINE valid == {x \in prefix_index \cap DOMAIN mappings : ValidForContext(x, contexts[c])}
             S == {RepresentedEnd(x) : x \in valid}
  <1>1. \A x \in valid : x \in Idents /\ RepresentedEnd(x) \in Nat /\ RepresentedEnd(x) <= n
    <2> SUFFICES ASSUME NEW x \in valid
                 PROVE  x \in Idents /\ RepresentedEnd(x) \in Nat /\ RepresentedEnd(x) <= n
      OBVIOUS
    <2>1. x \in Idents
      BY TreeIs
    <2>2. RepresentedEnd(x) \in Nat
      BY <2>1, IdentIs
    <2>3. RepresentedEnd(x) <= Len(contexts[c].tokens)
      BY DEF ValidForContext
    <2> QED  BY <2>1, <2>2, <2>3
  <1>2. id \in valid
    OBVIOUS
  <1> HIDE DEF valid
  <1>3. S \in SUBSET Nat /\ S # {} /\ (\A x \in S : x <= n)
    BY <1>1, <1>2
  <1>4. PICK x \in S : \A y \in S : y <= x
    <2> HIDE DEF S
    <2> QED  BY <1>3, GreatestNumber
  <1>5. PICK found \in valid : x = RepresentedEnd(found)
    BY <1>4
  <1>6. found \in LongestValidPrefix(c)
    BY <1>4, <1>5 DEF LongestValidPrefix, valid
  <1>7. RepresentedEnd(found) >= RepresentedEnd(id)
    BY <1>1, <1>2, <1>4, <1>5
  <1> QED  BY <1>6, <1>7

-----------------------------------------------------------------------------
(* The invariant of the store.                                             *)

Records == [tokens : Seq(Token), epoch : Epoch, evaluated : SUBSET Idents, revision : Nat]

\* id was evaluated for the first tokens of the context, in its epoch.
Fits(id, context) ==
    /\ id.epoch = context.epoch
    /\ Len(id.tokens) <= Len(context.tokens)
    /\ SubSeq(context.tokens, 1, Len(id.tokens)) = id.tokens

\* A publication is of a context as it was at the revision it expects.
Publication(x) ==
    /\ x.id \in Idents /\ x.complete \in Components /\ x.context \in Nat /\ x.context < next_context
    /\ x.expected_revision \in Nat /\ x.seen.revision = x.expected_revision
    /\ Len(x.id.tokens) <= Len(x.seen.tokens)
    /\ x.context \in DOMAIN contexts =>
          /\ contexts[x.context].revision >= x.expected_revision
          /\ contexts[x.context].revision = x.expected_revision => contexts[x.context] = x.seen

ContextsTyped ==
    /\ next_context \in Nat
    /\ \A c \in DOMAIN contexts : c \in Nat /\ c < next_context
    /\ \A c \in DOMAIN contexts : contexts[c] \in Records
    /\ panicked \in BOOLEAN

EvaluatedFits == \A c \in DOMAIN contexts : \A id \in contexts[c].evaluated : Fits(id, contexts[c])

CountsHold ==
    /\ \A id \in DOMAIN mappings : Alive(mappings[id])
    /\ Evaluated(mappings, contexts)
    /\ prefix_index = DOMAIN mappings

PublicationsHold == \A x \in publications : Publication(x)

\* The inductive invariant of the context store.
StoreInv ==
    /\ ContextsTyped
    /\ Tree(mappings)
    /\ EvaluatedFits
    /\ ~panicked => CountsHold
    /\ PublicationsHold

LEMMA RecordIs ==
    ASSUME NEW x \in Records
    PROVE  /\ x.tokens \in Seq(Token) /\ Len(x.tokens) \in Nat /\ x.epoch \in Epoch
           /\ x.evaluated \in SUBSET Idents /\ x.revision \in Nat
  BY DEF Records

LEMMA FitsLonger ==
    ASSUME NEW id \in Idents, NEW x \in Records, NEW y \in Records, Fits(id, x), y.epoch = x.epoch,
           NEW new \in Seq(Token), y.tokens = x.tokens \o new
    PROVE  Fits(id, y)
  <1> DEFINE n == Len(id.tokens)
             s == x.tokens
             t == y.tokens
  <1>1. n \in Nat /\ n <= Len(s) /\ SubSeq(s, 1, n) = id.tokens /\ id.epoch = x.epoch
    BY IdentIs DEF Fits
  <1>2. s \in Seq(Token) /\ t = s \o new
    BY DEF Records
  <1>3. t \in Seq(Token) /\ Len(t) = Len(s) + Len(new) /\ \A i \in 1..Len(s) : t[i] = s[i]
    <2> HIDE DEF s, t
    <2> QED  BY <1>2
  <1>4. n <= Len(t) /\ SubSeq(t, 1, n) = SubSeq(s, 1, n)
    <2> HIDE DEF n, s, t
    <2> DEFINE u == SubSeq(s, 1, n)
               v == SubSeq(t, 1, n)
    <2>1. u \in Seq(Token) /\ Len(u) = n /\ \A i \in 1..n : u[i] = s[i]
      BY <1>1, <1>2
    <2>2. n <= Len(t)
      BY <1>1, <1>2, <1>3
    <2>3. v \in Seq(Token) /\ Len(v) = n /\ \A i \in 1..n : v[i] = t[i]
      BY <1>1, <1>3, <2>2
    <2>4. \A i \in 1..n : u[i] = v[i]
      <3>1. \A i \in 1..n : i \in 1..Len(s)
        BY <1>1, <1>2
      <3> HIDE DEF u, v
      <3> QED  BY <1>3, <2>1, <2>3, <3>1
    <2> HIDE DEF u, v
    <2>5. u = v
      BY <2>1, <2>3, <2>4
    <2> QED  BY <2>2, <2>5 DEF u, v
  <1> QED  BY <1>1, <1>4 DEF Fits

\* What fits and is stored is valid.
LEMMA FitsIsValid ==
    ASSUME NEW id \in Idents, NEW x, Fits(id, x), Lineage(id) \subseteq DOMAIN mappings
    PROVE  ValidForContext(id, x)
  BY IdentIs DEF Fits, ValidForContext

LEMMA InitHolds == StoreInit => StoreInv
  <1> SUFFICES ASSUME StoreInit PROVE StoreInv
    OBVIOUS
  <1>1. /\ next_context = 0 /\ contexts = <<>> /\ mappings = <<>> /\ prefix_index = {}
        /\ publications = {} /\ panicked = FALSE
    BY DEF StoreInit
  <1>2. DOMAIN contexts = {} /\ DOMAIN mappings = {}
    BY <1>1
  <1>3. Tree(mappings)
    <2>1. mappings \in [DOMAIN mappings -> Values]
      <3>1. mappings = [x \in {} |-> x]
        BY <1>1
      <3> QED  BY <1>2, <3>1
    <2> QED  BY <1>2, <2>1, FS_EmptySet DEF Tree, Closed
  <1>4. CountsHold
    BY <1>1, <1>2, FS_EmptySet DEF CountsHold, Evaluated
  <1> QED  BY <1>1, <1>2, <1>3, <1>4 DEF StoreInv, ContextsTyped, EvaluatedFits, PublicationsHold

-----------------------------------------------------------------------------
(* Every step keeps it.                                                    *)

LEMMA InvIs ==
    ASSUME StoreInv
    PROVE  /\ next_context \in Nat /\ panicked \in BOOLEAN
           /\ \A c \in DOMAIN contexts :
                /\ c \in Nat /\ c < next_context /\ contexts[c] \in Records
                /\ \A id \in contexts[c].evaluated : Fits(id, contexts[c])
           /\ Tree(mappings)
           /\ IsFiniteSet(DOMAIN contexts)
           /\ \A x \in publications : Publication(x)
  <1>1. ContextsTyped /\ Tree(mappings) /\ EvaluatedFits /\ PublicationsHold
    BY DEF StoreInv
  <1>2. IsFiniteSet(DOMAIN contexts)
    <2>1. next_context \in Nat /\ \A c \in DOMAIN contexts : c \in Nat /\ c < next_context
      BY <1>1 DEF ContextsTyped
    <2>2. DOMAIN contexts \subseteq 0..next_context
      BY <2>1
    <2>3. IsFiniteSet(0..next_context)
      BY <2>1, FS_Interval
    <2> QED  BY <2>2, <2>3, FS_Subset
  <1> QED  BY <1>1, <1>2 DEF ContextsTyped, EvaluatedFits, PublicationsHold

LEMMA CountsAre ==
    ASSUME StoreInv, ~panicked
    PROVE  /\ \A id \in DOMAIN mappings : Alive(mappings[id])
           /\ Evaluated(mappings, contexts)
           /\ prefix_index = DOMAIN mappings
  BY DEF StoreInv, CountsHold

LEMMA NewTokens ==
    ASSUME NEW x \in Records, NEW new \in Seq(Token)
    PROVE  LET r == [x EXCEPT !.tokens = new, !.revision = @ + 1]
           IN  /\ r \in Records /\ r.tokens = new /\ r.epoch = x.epoch
               /\ r.evaluated = x.evaluated /\ r.revision = x.revision + 1
  <1> DEFINE n == x.revision + 1
             t == [x EXCEPT !.tokens = new]
             r == [t EXCEPT !.revision = n]
  <1>1. n \in Nat
    BY RecordIs
  <1>2. /\ t \in Records /\ t.tokens = new /\ t.epoch = x.epoch
        /\ t.evaluated = x.evaluated /\ t.revision = x.revision
    BY DEF Records
  <1>3. [x EXCEPT !.tokens = new, !.revision = @ + 1] = r
    OBVIOUS
  <1> HIDE DEF n, t
  <1>4. /\ r \in Records /\ r.tokens = t.tokens /\ r.epoch = t.epoch
        /\ r.evaluated = t.evaluated /\ r.revision = n
    BY <1>1, <1>2 DEF Records
  <1> QED  BY <1>2, <1>3, <1>4 DEF n

LEMMA NewEvaluation ==
    ASSUME NEW x \in Records, NEW e \in SUBSET Idents
    PROVE  LET r == [x EXCEPT !.evaluated = e, !.revision = @ + 1]
           IN  /\ r \in Records /\ r.tokens = x.tokens /\ r.epoch = x.epoch
               /\ r.evaluated = e /\ r.revision = x.revision + 1
  <1> DEFINE n == x.revision + 1
             t == [x EXCEPT !.evaluated = e]
             r == [t EXCEPT !.revision = n]
  <1>1. n \in Nat
    BY RecordIs
  <1>2. /\ t \in Records /\ t.tokens = x.tokens /\ t.epoch = x.epoch
        /\ t.evaluated = e /\ t.revision = x.revision
    BY DEF Records
  <1>3. [x EXCEPT !.evaluated = e, !.revision = @ + 1] = r
    OBVIOUS
  <1> HIDE DEF n, t
  <1>4. /\ r \in Records /\ r.tokens = t.tokens /\ r.epoch = t.epoch
        /\ r.evaluated = t.evaluated /\ r.revision = n
    BY <1>1, <1>2 DEF Records
  <1> QED  BY <1>2, <1>3, <1>4 DEF n

LEMMA NewEpoch ==
    ASSUME NEW x \in Records, NEW y \in Epoch
    PROVE  LET r == [x EXCEPT !.epoch = y, !.evaluated = {}, !.revision = @ + 1]
           IN  /\ r \in Records /\ r.tokens = x.tokens /\ r.epoch = y
               /\ r.evaluated = {} /\ r.revision = x.revision + 1
  <1> DEFINE t == [x EXCEPT !.epoch = y]
             r == [t EXCEPT !.evaluated = {}, !.revision = @ + 1]
  <1>1. /\ t \in Records /\ t.tokens = x.tokens /\ t.epoch = y
        /\ t.evaluated = x.evaluated /\ t.revision = x.revision
    BY DEF Records
  <1>2. [x EXCEPT !.epoch = y, !.evaluated = {}, !.revision = @ + 1] = r
    OBVIOUS
  <1> HIDE DEF t
  <1>3. {} \in SUBSET Idents
    OBVIOUS
  <1>4. /\ r \in Records /\ r.tokens = t.tokens /\ r.epoch = t.epoch
        /\ r.evaluated = {} /\ r.revision = t.revision + 1
    BY <1>1, <1>3, NewEvaluation
  <1> QED  BY <1>1, <1>2, <1>4

\* A context that changes does so with a new revision: what was prepared stays
\* prepared, or stays refused.
LEMMA PublicationStays ==
    ASSUME StoreInv, NEW x \in publications, next_context' \in Nat, next_context' >= next_context,
           x.context \in DOMAIN contexts'
           => /\ x.context \in DOMAIN contexts
              /\ \/ contexts'[x.context] = contexts[x.context]
                 \/ contexts'[x.context].revision = contexts[x.context].revision + 1
    PROVE  Publication(x)'
  <1>1. Publication(x) /\ next_context \in Nat
    BY InvIs
  <1>2. x.context \in Nat /\ x.context < next_context'
    BY <1>1 DEF Publication
  <1>3. ASSUME x.context \in DOMAIN contexts'
        PROVE  /\ contexts'[x.context].revision >= x.expected_revision
               /\ contexts'[x.context].revision = x.expected_revision => contexts'[x.context] = x.seen
    <2>1. x.context \in DOMAIN contexts /\ contexts[x.context].revision \in Nat
      BY <1>3, InvIs, RecordIs
    <2>2. /\ contexts[x.context].revision >= x.expected_revision /\ x.expected_revision \in Nat
          /\ contexts[x.context].revision = x.expected_revision => contexts[x.context] = x.seen
      BY <1>1, <2>1 DEF Publication
    <2> QED  BY <1>3, <2>1, <2>2
  <1> QED  BY <1>1, <1>2, <1>3 DEF Publication

\* Contexts that are evaluated to the same as before leave every count as it is.
LEMMA SameEvaluations ==
    ASSUME StoreInv, ~panicked, UNCHANGED <<mappings, prefix_index, panicked>>,
           IsFiniteSet(DOMAIN contexts'), DOMAIN contexts \subseteq DOMAIN contexts',
           \A c \in DOMAIN contexts' :
              contexts'[c].evaluated = IF c \in DOMAIN contexts THEN contexts[c].evaluated ELSE {}
    PROVE  CountsHold'
  <1>1. /\ \A id \in DOMAIN mappings : Alive(mappings[id])
        /\ Evaluated(mappings, contexts)
        /\ prefix_index = DOMAIN mappings
    BY CountsAre
  <1>2. \A id : Owners(contexts', id) = Owners(contexts, id)
    BY DEF Owners
  <1>3. Evaluated(mappings, contexts')
    BY <1>1, <1>2 DEF Evaluated
  <1> QED  BY <1>1, <1>3 DEF CountsHold

LEMMA CreateHolds ==
    ASSUME StoreInv, ~panicked, NEW x \in Seq(Token), NEW y \in Epoch, Create(x, y)
    PROVE  StoreInv'
  <1> DEFINE new == [tokens |-> x, epoch |-> y, evaluated |-> {}, revision |-> 0]
  <1>1. /\ contexts' = [c \in DOMAIN contexts \cup {next_context} |->
                          IF c = next_context THEN new ELSE contexts[c]]
        /\ next_context' = next_context + 1
        /\ UNCHANGED <<mappings, prefix_index, publications, panicked>>
    BY DEF Create
  <1>2. new \in Records /\ new.evaluated = {}
    BY DEF Records
  <1> HIDE DEF new
  <1>3. /\ next_context \in Nat
        /\ \A c \in DOMAIN contexts : c \in Nat /\ c < next_context /\ contexts[c] \in Records
        /\ IsFiniteSet(DOMAIN contexts) /\ panicked \in BOOLEAN
    BY InvIs
  <1>4. DOMAIN contexts' = DOMAIN contexts \cup {next_context} /\ contexts'[next_context] = new
        /\ next_context \notin DOMAIN contexts /\ \A c \in DOMAIN contexts : contexts'[c] = contexts[c]
    BY <1>1, <1>3
  <1>5. ContextsTyped'
    BY <1>1, <1>2, <1>3, <1>4 DEF ContextsTyped
  <1>6. IsFiniteSet(DOMAIN contexts')
    BY <1>3, <1>4, FS_AddElement
  <1>7. CountsHold'
    <2>1. \A c \in DOMAIN contexts' :
             contexts'[c].evaluated = IF c \in DOMAIN contexts THEN contexts[c].evaluated ELSE {}
      BY <1>2, <1>4
    <2>2. DOMAIN contexts \subseteq DOMAIN contexts'
      BY <1>4
    <2> QED  BY <1>1, <1>6, <2>1, <2>2, SameEvaluations
  <1>8. EvaluatedFits'
    BY <1>2, <1>4, InvIs DEF EvaluatedFits
  <1>9. PublicationsHold'
    <2> SUFFICES ASSUME NEW p \in publications PROVE Publication(p)'
      BY <1>1 DEF PublicationsHold
    <2>1. p.context < next_context /\ p.context \in Nat
      BY InvIs DEF Publication
    <2>2. p.context # next_context
      BY <1>3, <2>1
    <2>3. next_context' \in Nat /\ next_context' >= next_context
      BY <1>1, <1>3
    <2>4. p.context \in DOMAIN contexts'
          => p.context \in DOMAIN contexts /\ contexts'[p.context] = contexts[p.context]
      BY <1>4, <2>2
    <2> QED  BY <2>3, <2>4, PublicationStays
  <1>10. Tree(mappings')
    BY <1>1, InvIs
  <1> QED  BY <1>5, <1>7, <1>8, <1>9, <1>10 DEF StoreInv

LEMMA BranchHolds ==
    ASSUME StoreInv, ~panicked, NEW c \in DOMAIN contexts, NEW n \in Nat, Branch(c, n)
    PROVE  StoreInv'
  <1>1. n <= Len(contexts[c].tokens)
        /\ Create(SubSeq(contexts[c].tokens, 1, n), contexts[c].epoch)
    BY DEF Branch
  <1>2. contexts[c].tokens \in Seq(Token) /\ contexts[c].epoch \in Epoch
    BY InvIs, RecordIs
  <1>3. SubSeq(contexts[c].tokens, 1, n) \in Seq(Token)
    BY <1>1, <1>2
  <1> QED  BY <1>1, <1>2, <1>3, CreateHolds

LEMMA AppendHolds ==
    ASSUME StoreInv, ~panicked, NEW c \in DOMAIN contexts, NEW new \in Seq(Token), AppendTokens(c, new)
    PROVE  StoreInv'
  <1>1. /\ contexts' = [contexts EXCEPT ![c].tokens = @ \o new, ![c].revision = @ + 1]
        /\ UNCHANGED <<next_context, mappings, prefix_index, publications, panicked>>
    BY DEF AppendTokens
  <1>2. /\ next_context \in Nat /\ IsFiniteSet(DOMAIN contexts) /\ panicked \in BOOLEAN
        /\ \A d \in DOMAIN contexts :
              /\ d \in Nat /\ d < next_context /\ contexts[d] \in Records
              /\ \A id \in contexts[d].evaluated : Fits(id, contexts[d])
    BY InvIs
  <1>3. /\ DOMAIN contexts' = DOMAIN contexts
        /\ \A d \in DOMAIN contexts \ {c} : contexts'[d] = contexts[d]
        /\ contexts'[c] = [contexts[c] EXCEPT !.tokens = @ \o new, !.revision = @ + 1]
    BY <1>1
  <1>4. contexts[c].tokens \o new \in Seq(Token)
    BY <1>2, RecordIs
  <1>5. /\ contexts'[c] \in Records /\ contexts'[c].tokens = contexts[c].tokens \o new
        /\ contexts'[c].epoch = contexts[c].epoch /\ contexts'[c].evaluated = contexts[c].evaluated
        /\ contexts'[c].revision = contexts[c].revision + 1
    <2>1. contexts[c] \in Records
      BY <1>2
    <2> DEFINE r == [contexts[c] EXCEPT !.tokens = contexts[c].tokens \o new, !.revision = @ + 1]
    <2>2. /\ r \in Records /\ r.tokens = contexts[c].tokens \o new /\ r.epoch = contexts[c].epoch
          /\ r.evaluated = contexts[c].evaluated /\ r.revision = contexts[c].revision + 1
      BY <1>4, <2>1, NewTokens
    <2>3. contexts'[c] = r
      BY <1>3
    <2> HIDE DEF r
    <2> QED  BY <2>2, <2>3
  <1>6. ContextsTyped'
    BY <1>1, <1>2, <1>3, <1>5 DEF ContextsTyped
  <1>7. CountsHold'
    <2>1. \A d \in DOMAIN contexts' :
             contexts'[d].evaluated = IF d \in DOMAIN contexts THEN contexts[d].evaluated ELSE {}
      BY <1>3, <1>5
    <2>2. IsFiniteSet(DOMAIN contexts') /\ DOMAIN contexts \subseteq DOMAIN contexts'
      BY <1>2, <1>3
    <2> QED  BY <1>1, <2>1, <2>2, SameEvaluations
  <1>8. EvaluatedFits'
    <2> SUFFICES ASSUME NEW d \in DOMAIN contexts', NEW id \in contexts'[d].evaluated
                 PROVE  Fits(id, contexts'[d])
      BY DEF EvaluatedFits
    <2>1. CASE d # c
      BY <1>2, <1>3, <2>1
    <2>2. CASE d = c
      <3>1. id \in contexts[c].evaluated /\ contexts[c] \in Records
        BY <1>2, <1>5, <2>2
      <3>2. id \in Idents /\ Fits(id, contexts[c])
        BY <1>2, <3>1, RecordIs
      <3> QED  BY <1>5, <2>2, <3>1, <3>2, FitsLonger
    <2> QED  BY <2>1, <2>2
  <1>9. PublicationsHold'
    <2> SUFFICES ASSUME NEW p \in publications PROVE Publication(p)'
      BY <1>1 DEF PublicationsHold
    <2>1. next_context' \in Nat /\ next_context' >= next_context
      BY <1>1, <1>2
    <2>2. p.context \in DOMAIN contexts'
          => /\ p.context \in DOMAIN contexts
             /\ \/ contexts'[p.context] = contexts[p.context]
                \/ contexts'[p.context].revision = contexts[p.context].revision + 1
      BY <1>3, <1>5
    <2> QED  BY <2>1, <2>2, PublicationStays
  <1>10. Tree(mappings')
    BY <1>1, InvIs
  <1> QED  BY <1>6, <1>7, <1>8, <1>9, <1>10 DEF StoreInv

\* A context that goes, or gives up its evaluation, takes its reference with it.
LEMMA GiveUp ==
    ASSUME StoreInv, ~panicked, NEW c \in DOMAIN contexts,
           StoreMappings(DropContextRef(mappings, contexts[c].evaluated)), panicked' = panicked,
           DOMAIN contexts' \subseteq DOMAIN contexts, DOMAIN contexts \ {c} \subseteq DOMAIN contexts',
           \A d \in DOMAIN contexts' \ {c} : contexts'[d] = contexts[d],
           c \in DOMAIN contexts' => contexts'[c].evaluated = {}
    PROVE  Tree(mappings') /\ CountsHold'
  <1> DEFINE r == DropContextRef(mappings, contexts[c].evaluated)
  <1>1. /\ \A id \in DOMAIN mappings : Alive(mappings[id])
        /\ Evaluated(mappings, contexts) /\ prefix_index = DOMAIN mappings
        /\ Tree(mappings) /\ IsFiniteSet(DOMAIN contexts)
    BY CountsAre, InvIs
  <1>2. /\ Tree(r) /\ DOMAIN r \subseteq DOMAIN mappings
        /\ \A x \in DOMAIN r : Alive(r[x]) /\ r[x].contexts = Cardinality(Owners(contexts, x) \ {c})
        /\ \A d \in DOMAIN contexts \ {c} : contexts[d].evaluated \subseteq DOMAIN r
    BY <1>1, DropOwner
  <1>3. mappings' = r /\ prefix_index' = prefix_index \ (DOMAIN mappings \ DOMAIN r)
    BY DEF StoreMappings
  <1> HIDE DEF r
  <1>4. \A x : Owners(contexts', x) = Owners(contexts, x) \ {c}
    BY DEF Owners
  <1>5. IsFiniteSet(DOMAIN contexts')
    BY <1>1, FS_Subset
  <1>6. ASSUME NEW d \in DOMAIN contexts'
        PROVE  contexts'[d].evaluated = {} \/ \E id \in DOMAIN r : contexts'[d].evaluated = {id}
    <2>1. CASE d = c
      BY <2>1
    <2>2. CASE d # c
      <3>1. contexts'[d] = contexts[d] /\ d \in DOMAIN contexts \ {c}
        BY <2>2
      <3>2. contexts[d].evaluated = {} \/ \E id \in DOMAIN mappings : contexts[d].evaluated = {id}
        BY <1>1, <3>1 DEF Evaluated
      <3> QED  BY <1>2, <3>1, <3>2
    <2> QED  BY <2>1, <2>2
  <1>7. Evaluated(r, contexts')
    BY <1>2, <1>4, <1>5, <1>6 DEF Evaluated
  <1> QED  BY <1>1, <1>2, <1>3, <1>7 DEF CountsHold

LEMMA RemoveHolds ==
    ASSUME StoreInv, ~panicked, NEW c \in DOMAIN contexts, RemoveContext(c)
    PROVE  StoreInv'
  <1>1. /\ contexts' = [d \in DOMAIN contexts \ {c} |-> contexts[d]]
        /\ StoreMappings(DropContextRef(mappings, contexts[c].evaluated))
        /\ UNCHANGED <<next_context, publications, panicked>>
    BY DEF RemoveContext
  <1>2. DOMAIN contexts' = DOMAIN contexts \ {c} /\ \A d \in DOMAIN contexts' : contexts'[d] = contexts[d]
    BY <1>1
  <1>3. Tree(mappings') /\ CountsHold'
    BY <1>1, <1>2, GiveUp
  <1>4. ContextsTyped' /\ EvaluatedFits'
    BY <1>1, <1>2, InvIs DEF ContextsTyped, EvaluatedFits
  <1>5. PublicationsHold'
    <2> SUFFICES ASSUME NEW p \in publications PROVE Publication(p)'
      BY <1>1 DEF PublicationsHold
    <2>1. next_context' \in Nat /\ next_context' >= next_context
      BY <1>1, InvIs
    <2>2. p.context \in DOMAIN contexts'
          => p.context \in DOMAIN contexts /\ contexts'[p.context] = contexts[p.context]
      BY <1>2
    <2> QED  BY <2>1, <2>2, PublicationStays
  <1> QED  BY <1>3, <1>4, <1>5 DEF StoreInv

LEMMA SetEpochsHolds ==
    ASSUME StoreInv, ~panicked, NEW c \in DOMAIN contexts, NEW y \in Epoch, SetEpochs(c, y)
    PROVE  StoreInv'
  <1>1. /\ contexts' = [contexts EXCEPT ![c].epoch = y, ![c].evaluated = {}, ![c].revision = @ + 1]
        /\ StoreMappings(DropContextRef(mappings, contexts[c].evaluated))
        /\ UNCHANGED <<next_context, publications, panicked>>
    BY DEF SetEpochs
  <1> DEFINE r == [contexts[c] EXCEPT !.epoch = y, !.evaluated = {}, !.revision = @ + 1]
  <1>2. /\ DOMAIN contexts' = DOMAIN contexts
        /\ (\A d \in DOMAIN contexts \ {c} : contexts'[d] = contexts[d]) /\ contexts'[c] = r
    BY <1>1
  <1>3. contexts[c] \in Records
    BY InvIs
  <1>4. r \in Records /\ r.evaluated = {} /\ r.revision = contexts[c].revision + 1
    BY <1>3, NewEpoch
  <1> HIDE DEF r
  <1>5. Tree(mappings') /\ CountsHold'
    BY <1>1, <1>2, <1>4, GiveUp
  <1>6. ContextsTyped' /\ EvaluatedFits'
    BY <1>1, <1>2, <1>4, InvIs DEF ContextsTyped, EvaluatedFits
  <1>7. PublicationsHold'
    <2> SUFFICES ASSUME NEW p \in publications PROVE Publication(p)'
      BY <1>1 DEF PublicationsHold
    <2>1. next_context' \in Nat /\ next_context' >= next_context
      BY <1>1, InvIs
    <2>2. p.context \in DOMAIN contexts'
          => /\ p.context \in DOMAIN contexts
             /\ \/ contexts'[p.context] = contexts[p.context]
                \/ contexts'[p.context].revision = contexts[p.context].revision + 1
      BY <1>2, <1>4
    <2> QED  BY <2>1, <2>2, PublicationStays
  <1> QED  BY <1>5, <1>6, <1>7 DEF StoreInv

LEMMA IdentOf ==
    ASSUME NEW y \in Epoch, NEW s \in Seq(Token), NEW S \in SUBSET Nat, Len(s) \in S, \A e \in S : e <= Len(s)
    PROVE  MappingId(y, s, S) \in Idents /\ MappingId(y, s, S).tokens = s
  <1> DEFINE id == [epoch |-> y, tokens |-> s, ends |-> S]
  <1>1. /\ id \in [epoch : Epoch, tokens : Seq(Token), ends : SUBSET Nat]
        /\ id.tokens = s /\ id.ends = S
    OBVIOUS
  <1> HIDE DEF id
  <1>2. id \in Idents
    BY <1>1 DEF Idents
  <1> QED  BY <1>1, <1>2 DEF MappingId, id

LEMMA PrepareHolds ==
    ASSUME StoreInv, ~panicked, NEW c \in DOMAIN contexts, NEW n \in Nat, NEW x \in Components,
           NEW up \in {{}} \cup {{id} : id \in DOMAIN mappings}, PreparePublication(c, n, up, x)
    PROVE  StoreInv'
  <1> DEFINE context == contexts[c]
             ends == {n} \cup UNION {z.ends : z \in up}
             id == MappingId(context.epoch, SubSeq(context.tokens, 1, n), ends)
             p == [context |-> c, expected_revision |-> context.revision,
                   expected_current |-> context.evaluated, id |-> id, complete |-> x, seen |-> context]
  <1>1. /\ n <= Len(context.tokens)
        /\ \A z \in up : z \in DOMAIN mappings /\ RepresentedEnd(z) < n
        /\ publications' = publications \cup {p}
        /\ UNCHANGED <<next_context, contexts, mappings, prefix_index, panicked>>
    BY DEF PreparePublication
  <1>2. /\ context \in Records /\ c \in Nat /\ c < next_context /\ context.tokens \in Seq(Token)
        /\ context.epoch \in Epoch /\ context.revision \in Nat /\ Tree(mappings)
    BY InvIs, RecordIs
  <1>3. ends \in SUBSET Nat /\ n \in ends /\ \A e \in ends : e <= n
    <2>1. ASSUME NEW z \in up, NEW e \in z.ends PROVE e \in Nat /\ e <= n
      <3>1. z \in Idents /\ RepresentedEnd(z) < n
        BY <1>1, <1>2, TreeIs
      <3>2. /\ RepresentedEnd(z) = Len(z.tokens) /\ Len(z.tokens) \in Nat
            /\ e \in Nat /\ e <= Len(z.tokens)
        BY <3>1, IdentIs
      <3> QED  BY <3>1, <3>2
    <2> QED  BY <2>1
  <1>4. SubSeq(context.tokens, 1, n) \in Seq(Token) /\ Len(SubSeq(context.tokens, 1, n)) = n
    BY <1>1, <1>2
  <1>5. id \in Idents /\ Len(id.tokens) = n
    <2> HIDE DEF context, ends
    <2>1. MappingId(context.epoch, SubSeq(context.tokens, 1, n), ends) \in Idents
          /\ MappingId(context.epoch, SubSeq(context.tokens, 1, n), ends).tokens = SubSeq(context.tokens, 1, n)
      BY <1>2, <1>3, <1>4, IdentOf
    <2> QED  BY <1>4, <2>1
  <1> HIDE DEF id
  <1>6. /\ p.context = c /\ p.expected_revision = context.revision /\ p.id = id
        /\ p.complete = x /\ p.seen = context
    OBVIOUS
  <1>7. context.revision >= context.revision
    BY <1>2
  <1> HIDE DEF p
  <1>8. Publication(p)
    BY <1>1, <1>2, <1>5, <1>6, <1>7 DEF Publication
  <1>9. PublicationsHold'
    BY <1>1, <1>8, InvIs DEF PublicationsHold, Publication
  <1> QED  BY <1>1, <1>9 DEF StoreInv, ContextsTyped, EvaluatedFits, CountsHold

LEMMA RefuseHolds ==
    ASSUME StoreInv, NEW p \in publications, RefusePublication(p)
    PROVE  StoreInv'
  <1>1. /\ publications' = publications \ {p}
        /\ UNCHANGED <<next_context, contexts, mappings, prefix_index, panicked>>
    BY DEF RefusePublication
  <1>2. PublicationsHold'
    BY <1>1, InvIs DEF PublicationsHold, Publication
  <1> QED  BY <1>1, <1>2 DEF StoreInv, ContextsTyped, EvaluatedFits, CountsHold

LEMMA ReleaseHolds ==
    ASSUME StoreInv, ~panicked, NEW id \in DOMAIN mappings, ReleaseMapping(id)
    PROVE  StoreInv'
  <1> DEFINE n == Max({0, mappings[id].catalog - 1})
             t == [mappings EXCEPT ![id].catalog = n]
             r == Reclaim(t, id)
  <1>1. [mappings EXCEPT ![id].catalog = Max({0, @ - 1})] = t
    OBVIOUS
  <1>2. /\ mappings' = r /\ prefix_index' = prefix_index \ (DOMAIN mappings \ DOMAIN r)
        /\ UNCHANGED <<next_context, contexts, publications, panicked>>
    BY <1>1 DEF ReleaseMapping, StoreMappings
  <1>3. /\ Tree(mappings) /\ IsFiniteSet(DOMAIN contexts) /\ prefix_index = DOMAIN mappings
        /\ (\A x \in DOMAIN mappings : Alive(mappings[x]))
        /\ (\A c \in DOMAIN contexts :
              contexts[c].evaluated = {} \/ \E x \in DOMAIN mappings : contexts[c].evaluated = {x})
        /\ \A x \in DOMAIN mappings : mappings[x].contexts = Cardinality(Owners(contexts, x))
    BY InvIs, CountsAre DEF Evaluated
  <1>4. n \in Nat
    <2>1. mappings[id].catalog \in Nat
      BY <1>3, TreeIs
    <2>2. n = IF mappings[id].catalog = 0 THEN 0 ELSE mappings[id].catalog - 1
      BY <2>1, LessOne
    <2> HIDE DEF n
    <2> QED  BY <2>1, <2>2
  <1> HIDE DEF n
  <1>5. /\ Tree(t) /\ DOMAIN t = DOMAIN mappings
        /\ (\A x \in DOMAIN mappings \ {id} : t[x] = mappings[x])
        /\ t[id].contexts = mappings[id].contexts
    BY <1>3, <1>4, SetCatalog
  <1> HIDE DEF t
  <1>6. /\ Tree(r) /\ DOMAIN r \subseteq DOMAIN t
        /\ (\A x \in DOMAIN r : r[x].contexts = t[x].contexts /\ Alive(r[x]))
        /\ \A x \in DOMAIN t \ DOMAIN r : t[x].contexts = 0
    <2>1. \A x \in DOMAIN t \ {id} : Alive(t[x])
      BY <1>3, <1>5
    <2> QED  BY <1>5, <2>1, ReclaimKeeps
  <1> HIDE DEF r
  <1>7. \A x \in DOMAIN mappings : t[x].contexts = Cardinality(Owners(contexts, x))
    BY <1>3, <1>5
  <1>8. ASSUME NEW c \in DOMAIN contexts, contexts[c].evaluated # {}
        PROVE  \E x \in DOMAIN r : contexts[c].evaluated = {x}
    <2>1. PICK x \in DOMAIN mappings : contexts[c].evaluated = {x}
      BY <1>3, <1>8
    <2>2. x \in DOMAIN r
      <3> SUFFICES ASSUME x \notin DOMAIN r PROVE FALSE
        OBVIOUS
      <3>1. Cardinality(Owners(contexts, x)) = 0
        BY <1>5, <1>6, <1>7, <2>1
      <3>2. Owners(contexts, x) \subseteq DOMAIN contexts /\ c \in Owners(contexts, x)
        BY <2>1 DEF Owners
      <3>3. IsFiniteSet(Owners(contexts, x))
        BY <1>3, <3>2, FS_Subset
      <3> QED  BY <3>1, <3>2, <3>3, FS_EmptySet
    <2> QED  BY <2>1, <2>2
  <1>9. Evaluated(r, contexts)
    BY <1>3, <1>5, <1>6, <1>7, <1>8 DEF Evaluated
  <1>10. CountsHold'
    BY <1>2, <1>3, <1>5, <1>6, <1>9 DEF CountsHold
  <1>11. PublicationsHold'
    BY <1>2, InvIs DEF PublicationsHold, Publication
  <1> QED  BY <1>2, <1>6, <1>10, <1>11 DEF StoreInv, ContextsTyped, EvaluatedFits

\* A publication that is not refused is of its context as it was when prepared.
LEMMA ValidIsSeen ==
    ASSUME StoreInv, NEW p \in publications, ValidatePublication(p)
    PROVE  /\ p.context \in DOMAIN contexts /\ p.id \in Idents /\ p.complete \in Components
           /\ Fits(p.id, contexts[p.context])
           /\ p.id \in DOMAIN mappings \/ (HasParent(p.id) => Parent(p.id) \in DOMAIN mappings)
  <1>1. /\ p.id \in Idents /\ p.complete \in Components /\ Len(p.id.tokens) <= Len(p.seen.tokens)
        /\ p.context \in DOMAIN contexts
           => (contexts[p.context].revision = p.expected_revision => contexts[p.context] = p.seen)
    BY InvIs DEF Publication
  <1>2. /\ p.context \in DOMAIN contexts /\ contexts[p.context].revision = p.expected_revision
        /\ contexts[p.context].epoch = p.id.epoch
        /\ SubSeq(contexts[p.context].tokens, 1, RepresentedEnd(p.id)) = p.id.tokens
        /\ p.id \in DOMAIN mappings \/ (HasParent(p.id) => Parent(p.id) \in DOMAIN mappings)
    BY DEF ValidatePublication
  <1>3. RepresentedEnd(p.id) = Len(p.id.tokens)
    BY <1>1, IdentIs
  <1> QED  BY <1>1, <1>2, <1>3 DEF Fits

LEMMA CommitCounts ==
    ASSUME StoreInv, ~panicked, NEW p \in publications, CommitPublication(p),
           contexts[p.context].evaluated # {p.id}
    PROVE  /\ Tree(mappings') /\ panicked' \in BOOLEAN
           /\ ~panicked' => CountsHold'
  <1> DEFINE c == p.context
             id == p.id
             m == IF id \in DOMAIN mappings THEN mappings ELSE Inserted(id, p.complete)
             r == DropContextRef(m, contexts[c].evaluated)
  <1>1. ValidatePublication(p)
    BY DEF CommitPublication
  <1>2. /\ c \in DOMAIN contexts /\ id \in Idents /\ p.complete \in Components
        /\ id \in DOMAIN mappings \/ (HasParent(id) => Parent(id) \in DOMAIN mappings)
    BY <1>1, ValidIsSeen
  <1>3. /\ contexts' = [contexts EXCEPT ![c].evaluated = {id}, ![c].revision = @ + 1]
        /\ mappings' = AddContextRef(r, id)
        /\ prefix_index' = (prefix_index \cup {id}) \ (DOMAIN m \ DOMAIN r)
        /\ panicked' = (id \notin DOMAIN r)
    BY DEF CommitPublication
  <1>4. /\ Tree(mappings) /\ IsFiniteSet(DOMAIN contexts) /\ prefix_index = DOMAIN mappings
        /\ (\A x \in DOMAIN mappings : Alive(mappings[x]))
        /\ (\A d \in DOMAIN contexts :
              contexts[d].evaluated = {} \/ \E x \in DOMAIN mappings : contexts[d].evaluated = {x})
        /\ \A x \in DOMAIN mappings : mappings[x].contexts = Cardinality(Owners(contexts, x))
    BY InvIs, CountsAre DEF Evaluated
  <1>5. /\ Tree(m) /\ DOMAIN m = DOMAIN mappings \cup {id} /\ (\A x \in DOMAIN m : Alive(m[x]))
        /\ \A x \in DOMAIN m : m[x].contexts = Cardinality(Owners(contexts, x))
    <2>1. CASE id \in DOMAIN mappings
      BY <1>4, <2>1
    <2>2. CASE id \notin DOMAIN mappings
      <3> DEFINE t == Inserted(id, p.complete)
      <3>1. m = t
        BY <2>2
      <3>2. /\ Tree(t) /\ DOMAIN t = DOMAIN mappings \cup {id}
            /\ (\A x \in DOMAIN t : Alive(t[x])) /\ t[id].contexts = 0
            /\ \A x \in DOMAIN mappings : t[x].contexts = mappings[x].contexts
        BY <1>2, <1>4, <2>2, InsertedIs
      <3>3. Owners(contexts, id) = {}
        BY <1>4, <2>2 DEF Owners
      <3> HIDE DEF t, m
      <3>4. t[id].contexts = Cardinality(Owners(contexts, id))
        BY <3>2, <3>3, FS_EmptySet
      <3> QED  BY <1>4, <3>1, <3>2, <3>4
    <2> QED  BY <2>1, <2>2
  <1> HIDE DEF m
  <1>6. Evaluated(m, contexts)
    BY <1>4, <1>5 DEF Evaluated
  <1>7. /\ Tree(r) /\ DOMAIN r \subseteq DOMAIN m
        /\ (\A x \in DOMAIN r : Alive(r[x]) /\ r[x].contexts = Cardinality(Owners(contexts, x) \ {c}))
        /\ \A d \in DOMAIN contexts \ {c} : contexts[d].evaluated \subseteq DOMAIN r
    <2> HIDE DEF c
    <2>1. /\ Tree(r) /\ DOMAIN r \subseteq DOMAIN m
          /\ \A x \in DOMAIN r : /\ Alive(r[x]) /\ r[x].complete = m[x].complete
                                 /\ r[x].contexts = Cardinality(Owners(contexts, x) \ {c})
          /\ \A d \in DOMAIN contexts \ {c} : contexts[d].evaluated \subseteq DOMAIN r
      BY <1>2, <1>5, <1>6, DropOwner
    <2> HIDE DEF r
    <2> QED  BY <2>1
  <1> HIDE DEF r
  <1>8. CASE id \notin DOMAIN r
    <2>1. mappings' = r /\ panicked' = TRUE
      BY <1>3, <1>8 DEF AddContextRef
    <2> QED  BY <1>7, <2>1
  <1>9. CASE id \in DOMAIN r
    <2> DEFINE n == r[id].contexts + 1
               t == [r EXCEPT ![id].contexts = n]
    <2>1. mappings' = t /\ panicked' = FALSE
      <3>1. [r EXCEPT ![id].contexts = @ + 1] = t
        OBVIOUS
      <3> QED  BY <1>3, <1>9, <3>1 DEF AddContextRef
    <2>2. n \in Nat /\ n > 0
      BY <1>7, <1>9, TreeIs
    <2>3. n = Cardinality(Owners(contexts, id) \ {c}) + 1
      BY <1>7, <1>9
    <2> HIDE DEF n
    <2>4. /\ Tree(t) /\ DOMAIN t = DOMAIN r /\ (\A x \in DOMAIN r \ {id} : t[x] = r[x])
          /\ t[id].contexts = n
      BY <1>7, <1>9, <2>2, SetContexts
    <2> HIDE DEF t
    <2>5. DOMAIN contexts' = DOMAIN contexts
          /\ (\A d \in DOMAIN contexts \ {c} : contexts'[d] = contexts[d])
          /\ contexts'[c].evaluated = {id}
      <3> DEFINE z == [contexts[c] EXCEPT !.evaluated = {id}, !.revision = @ + 1]
      <3>1. /\ DOMAIN contexts' = DOMAIN contexts
            /\ (\A d \in DOMAIN contexts \ {c} : contexts'[d] = contexts[d])
            /\ contexts'[c] = z
        BY <1>2, <1>3
      <3>2. contexts[c] \in Records
        BY <1>2, InvIs
      <3>3. {id} \in SUBSET Idents
        BY <1>2
      <3>4. z.evaluated = {id}
        BY <3>2, <3>3, NewEvaluation
      <3> HIDE DEF z
      <3> QED  BY <3>1, <3>4
    <2> HIDE DEF c, id
    <2>6. Owners(contexts', id) = (Owners(contexts, id) \ {c}) \cup {c}
          /\ \A x : x # id => Owners(contexts', x) = Owners(contexts, x) \ {c}
      BY <1>2, <2>5 DEF Owners
    <2>7. Cardinality(Owners(contexts', id)) = n
      <3>1. IsFiniteSet(Owners(contexts, id) \ {c})
        <4>1. Owners(contexts, id) \ {c} \subseteq DOMAIN contexts
          BY DEF Owners
        <4> QED  BY <1>4, <4>1, FS_Subset
      <3> QED  BY <2>3, <2>6, <3>1, FS_AddElement
    <2>8. \A x \in DOMAIN t : t[x].contexts = Cardinality(Owners(contexts', x))
      BY <1>7, <2>4, <2>6, <2>7
    <2>9. \A x \in DOMAIN t : Alive(t[x])
      <3>1. Alive(t[id])
        <4>1. t[id].catalog \in Nat /\ t[id].dependents \in Nat /\ t[id].contexts > 0 /\ t[id].contexts \in Nat
          BY <1>9, <2>2, <2>4, TreeIs
        <4> QED  BY <4>1 DEF Alive
      <3> QED  BY <1>7, <2>4, <3>1
    <2>10. ASSUME NEW d \in DOMAIN contexts'
           PROVE  contexts'[d].evaluated = {} \/ \E x \in DOMAIN t : contexts'[d].evaluated = {x}
      <3>1. CASE d = c
        BY <1>9, <2>4, <2>5, <3>1
      <3>2. CASE d # c
        <4>1. d \in DOMAIN contexts \ {c} /\ contexts'[d] = contexts[d]
          BY <2>5, <3>2
        <4>2. contexts[d].evaluated \subseteq DOMAIN t
              /\ (contexts[d].evaluated = {} \/ \E x \in DOMAIN mappings : contexts[d].evaluated = {x})
          BY <1>4, <1>7, <2>4, <4>1
        <4> QED  BY <4>1, <4>2
      <3> QED  BY <3>1, <3>2
    <2>11. Evaluated(t, contexts')
      BY <1>4, <2>5, <2>8, <2>10 DEF Evaluated
    <2>12. prefix_index' = DOMAIN t
      BY <1>3, <1>4, <1>5, <1>7, <2>4 DEF id
    <2> QED  BY <2>1, <2>4, <2>9, <2>11, <2>12 DEF CountsHold
  <1> QED  BY <1>8, <1>9

LEMMA CommitHolds ==
    ASSUME StoreInv, ~panicked, NEW p \in publications, CommitPublication(p)
    PROVE  StoreInv'
  <1> DEFINE c == p.context
             id == p.id
  <1>1. /\ c \in DOMAIN contexts /\ id \in Idents /\ Fits(id, contexts[c])
        /\ publications' = publications \ {p} /\ next_context' = next_context
    BY ValidIsSeen DEF CommitPublication
  <1>2. CASE contexts[c].evaluated = {id}
    <2>1. UNCHANGED <<contexts, mappings, prefix_index, panicked>>
      BY <1>2 DEF CommitPublication
    <2>2. PublicationsHold'
      BY <1>1, <2>1, InvIs DEF PublicationsHold, Publication
    <2> QED  BY <1>1, <2>1, <2>2 DEF StoreInv, ContextsTyped, EvaluatedFits, CountsHold
  <1>3. CASE contexts[c].evaluated # {id}
    <2> DEFINE z == [contexts[c] EXCEPT !.evaluated = {id}, !.revision = @ + 1]
    <2>1. contexts' = [contexts EXCEPT ![c].evaluated = {id}, ![c].revision = @ + 1]
      BY <1>3 DEF CommitPublication
    <2>2. /\ DOMAIN contexts' = DOMAIN contexts
          /\ (\A d \in DOMAIN contexts \ {c} : contexts'[d] = contexts[d]) /\ contexts'[c] = z
      BY <1>1, <2>1
    <2>3. contexts[c] \in Records /\ {id} \in SUBSET Idents
      BY <1>1, InvIs
    <2>4. /\ z \in Records /\ z.tokens = contexts[c].tokens /\ z.epoch = contexts[c].epoch
          /\ z.evaluated = {id} /\ z.revision = contexts[c].revision + 1
      BY <2>3, NewEvaluation
    <2> HIDE DEF z
    <2>5. /\ Tree(mappings') /\ panicked' \in BOOLEAN
          /\ ~panicked' => CountsHold'
      BY <1>3, CommitCounts
    <2>6. Fits(id, z)
      BY <1>1, <2>4 DEF Fits
    <2> HIDE DEF c, id
    <2>7. ContextsTyped'
      BY <1>1, <2>2, <2>4, <2>5, InvIs DEF ContextsTyped
    <2>8. EvaluatedFits'
      BY <2>2, <2>4, <2>6, InvIs DEF EvaluatedFits
    <2>9. PublicationsHold'
      <3> SUFFICES ASSUME NEW x \in publications PROVE Publication(x)'
        BY <1>1 DEF PublicationsHold
      <3>1. next_context' \in Nat /\ next_context' >= next_context
        BY <1>1, InvIs
      <3>2. x.context \in DOMAIN contexts'
            => /\ x.context \in DOMAIN contexts
               /\ \/ contexts'[x.context] = contexts[x.context]
                  \/ contexts'[x.context].revision = contexts[x.context].revision + 1
        BY <2>2, <2>4
      <3> QED  BY <3>1, <3>2, PublicationStays
    <2> QED  BY <2>5, <2>7, <2>8, <2>9 DEF StoreInv
  <1> QED  BY <1>2, <1>3

LEMMA BoundedIsSeq ==
    ASSUME NEW n \in Int, NEW new \in BoundedSeq(Token, n)
    PROVE  new \in Seq(Token)
  <1>1. PICK x \in 0..n : new \in [1..x -> Token]
    BY DEF BoundedSeq, SeqOf
  <1>2. x \in Nat
    OBVIOUS
  <1> QED  BY <1>1, <1>2

LEMMA StoreStepHolds == StoreInv /\ [StoreNext]_storeVars => StoreInv'
  <1> SUFFICES ASSUME StoreInv, [StoreNext]_storeVars PROVE StoreInv'
    OBVIOUS
  <1>1. CASE UNCHANGED storeVars
    BY <1>1 DEF storeVars, StoreInv, ContextsTyped, EvaluatedFits, CountsHold, PublicationsHold, Publication
  <1>2. CASE StoreNext
    <2>1. ~panicked /\ MaxLen \in Nat
      BY <1>2, StoreBounds DEF StoreNext, StoreAssumption
    <2>2. ASSUME NEW x \in BoundedSeq(Token, MaxLen), NEW y \in Epoch, Create(x, y) PROVE StoreInv'
      BY <2>1, <2>2, BoundedIsSeq, CreateHolds
    <2>3. ASSUME NEW c \in DOMAIN contexts, NEW n \in 0..MaxLen, Branch(c, n) PROVE StoreInv'
      BY <2>1, <2>3, BranchHolds
    <2>4. ASSUME NEW c \in DOMAIN contexts,
                 NEW x \in BoundedSeq(Token, MaxLen - Len(contexts[c].tokens)) \ {<<>>}, AppendTokens(c, x)
          PROVE  StoreInv'
      <3>1. MaxLen - Len(contexts[c].tokens) \in Int
        BY <2>1, InvIs, RecordIs
      <3>2. x \in Seq(Token)
        BY <3>1, BoundedIsSeq
      <3> QED  BY <2>1, <2>4, <3>2, AppendHolds
    <2>5. ASSUME NEW c \in DOMAIN contexts, RemoveContext(c) PROVE StoreInv'
      BY <2>1, <2>5, RemoveHolds
    <2>6. ASSUME NEW c \in DOMAIN contexts, NEW y \in Epoch, SetEpochs(c, y) PROVE StoreInv'
      BY <2>1, <2>6, SetEpochsHolds
    <2>7. ASSUME NEW c \in DOMAIN contexts, NEW n \in 0..MaxLen, NEW x \in Components,
                 NEW up \in {{}} \cup {{id} : id \in DOMAIN mappings}, PreparePublication(c, n, up, x)
          PROVE  StoreInv'
      BY <2>1, <2>7, PrepareHolds
    <2>8. ASSUME NEW p \in publications, CommitPublication(p) \/ RefusePublication(p) PROVE StoreInv'
      BY <2>1, <2>8, CommitHolds, RefuseHolds
    <2>9. ASSUME NEW id \in DOMAIN mappings, ReleaseMapping(id) PROVE StoreInv'
      BY <2>1, <2>9, ReleaseHolds
    <2> QED  BY <1>2, <2>2, <2>3, <2>4, <2>5, <2>6, <2>7, <2>8, <2>9 DEF StoreNext
  <1> QED  BY <1>1, <1>2

\* The invariant says what the runs check.
LEMMA InvIsConsistent == StoreInv => StoreIsConsistent
  <1> SUFFICES ASSUME StoreInv PROVE StoreIsConsistent
    OBVIOUS
  <1>1. /\ Tree(mappings)
        /\ \A c \in DOMAIN contexts :
              contexts[c] \in Records /\ \A id \in contexts[c].evaluated : Fits(id, contexts[c])
        /\ \A x \in publications : Publication(x)
    BY InvIs
  <1>2. /\ DOMAIN mappings \in SUBSET Idents /\ Closed(DOMAIN mappings)
        /\ \A id \in DOMAIN mappings :
              /\ id \in Idents /\ Lineage(id) \subseteq DOMAIN mappings
              /\ mappings[id].dependents = Cardinality(Children(DOMAIN mappings, id))
    BY <1>1, TreeIs
  <1>3. OwnersExact
    <2> SUFFICES ASSUME ~panicked, NEW id \in DOMAIN mappings
                 PROVE  /\ mappings[id].contexts =
                             Cardinality({c \in DOMAIN contexts : contexts[c].evaluated = {id}})
                        /\ mappings[id].dependents =
                             Cardinality({k \in DOMAIN mappings : HasParent(k) /\ Parent(k) = id})
                        /\ mappings[id].catalog + mappings[id].contexts + mappings[id].dependents > 0
      BY CountsAre DEF OwnersExact
    <2>1. mappings[id].contexts = Cardinality(Owners(contexts, id)) /\ Alive(mappings[id])
      BY CountsAre DEF Evaluated
    <2> QED  BY <1>2, <2>1 DEF Owners, Children, Alive
  <1>4. EvaluatedIsFound
    <2> SUFFICES ASSUME ~panicked, NEW c \in DOMAIN contexts, NEW id \in contexts[c].evaluated
                 PROVE  \E found \in LongestValidPrefix(c) : RepresentedEnd(found) >= RepresentedEnd(id)
      BY DEF EvaluatedIsFound
    <2>1. id \in DOMAIN mappings /\ prefix_index = DOMAIN mappings
      BY CountsAre DEF Evaluated
    <2>2. id \in Idents /\ Fits(id, contexts[c]) /\ Lineage(id) \subseteq DOMAIN mappings
      BY <1>1, <1>2, <2>1
    <2>3. ValidForContext(id, contexts[c])
      BY <2>2, FitsIsValid
    <2>4. Len(contexts[c].tokens) \in Nat /\ Len(contexts[c].tokens) <= Len(contexts[c].tokens)
      BY <1>1, RecordIs
    <2> QED  BY <1>1, <2>1, <2>3, <2>4, LookupFinds
  <1>5. FoundIsExact
    <2> SUFFICES ASSUME NEW c \in DOMAIN contexts, NEW id \in LongestValidPrefix(c)
                 PROVE  /\ IsPrefix(id.tokens, contexts[c].tokens)
                        /\ id.epoch = contexts[c].epoch
                        /\ HasParent(id) => Parent(id) \in DOMAIN mappings
      BY DEF FoundIsExact
    <2>1. id \in DOMAIN mappings /\ ValidForContext(id, contexts[c])
      BY DEF LongestValidPrefix
    <2>2. id \in Idents /\ RepresentedEnd(id) = Len(id.tokens) /\ id.tokens \in Seq(Token)
      BY <1>2, <2>1, IdentIs
    <2>3. /\ id.epoch = contexts[c].epoch /\ Len(id.tokens) <= Len(contexts[c].tokens)
          /\ SubSeq(contexts[c].tokens, 1, Len(id.tokens)) = id.tokens
      BY <2>1, <2>2 DEF ValidForContext
    <2>4. SubSeq(id.tokens, 1, Len(id.tokens)) = id.tokens
      BY <2>2
    <2>5. HasParent(id) => Parent(id) \in DOMAIN mappings
      BY <1>2, <2>1 DEF Closed
    <2> QED  BY <2>3, <2>4, <2>5 DEF IsPrefix
  <1>6. RevisionIdentifies
    BY <1>1 DEF RevisionIdentifies, Publication
  <1>7. LineageComplete
    BY <1>2 DEF LineageComplete
  <1> QED  BY <1>3, <1>4, <1>5, <1>6, <1>7 DEF StoreIsConsistent

\* The counts of every stored mapping are its owners, every stored mapping has its
\* lineage and an owner, what a context is evaluated to is stored and fits it, and a
\* publication outstanding is of its context as it was: for any tokens, epochs and
\* bounds, in every reachable state (context-store: reclaim, commit_publication).
THEOREM StoreInvariant == StoreSpec => []StoreInv
  <1>1. StoreInit => StoreInv
    BY InitHolds
  <1>2. StoreInv /\ [StoreNext]_storeVars => StoreInv'
    BY StoreStepHolds
  <1> QED  BY <1>1, <1>2, PTL DEF StoreSpec

\* Reference counts are the numbers of owners, a lookup finds what was evaluated and
\* nothing evaluated for other tokens, no lineage has a hole, and a revision stands
\* for one state of a context (longest_valid_prefix, validate_publication).
THEOREM StoreAlwaysConsistent == StoreSpec => []StoreIsConsistent
  <1>1. StoreInv => StoreIsConsistent
    BY InvIsConsistent
  <1> QED  BY <1>1, StoreInvariant, PTL
=============================================================================
