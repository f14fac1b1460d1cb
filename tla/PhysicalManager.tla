-------------------------- MODULE PhysicalManager --------------------------
(***************************************************************************)
(* The physical memory manager of crates/physical-manager/src/lib.rs: it   *)
(* knows where the physical representations of evaluated prefixes live     *)
(* (device, host, storage), which executor binding, prepared transition or *)
(* transfer refers to them, and what of the device is reserved.            *)
(*                                                                         *)
(* Abstractions.  A representation is the number of its registration: ids  *)
(* and the clock grow together, since only register ticks.  Its mapping,   *)
(* component, size and reuse value are constants.  Transitions and growth  *)
(* reservations take their ids from a pool.  A transfer is named by its    *)
(* transition and representation; detached ones of a representation only   *)
(* differ by their number.  Metrics and trace events are left out.  Calls  *)
(* refused without a change of state (unknown ids, a stale revision) are   *)
(* stuttering steps.                                                       *)
(***************************************************************************)
EXTENDS Integers, FiniteSets, FiniteSetsExt

CONSTANTS
    MaxReps,       \* bound: representations ever registered
    Contexts,      \* logical contexts that may be bound
    Transitions,   \* pool of prepared-transition ids
    Growths,       \* pool of growth-reservation ids
    GrowthSizes,   \* bytes a growth reservation asks for
    MappingOf,     \* mapping a representation belongs to
    ComponentOf,   \* component it represents
    Masks,         \* sets of components that callers require
    BytesOf,       \* its size
    Reuse,         \* its reuse_value
    DeviceBytes,   \* Capacity::device_bytes
    HostBytes      \* Capacity::host_bytes

Reps == 1..MaxReps

ASSUME SizesAssumption ==
    /\ MaxReps \in Nat /\ DeviceBytes \in Nat /\ HostBytes \in Nat
    /\ GrowthSizes \subseteq Nat \ {0}
    /\ BytesOf \in [Reps -> Nat \ {0}] /\ Reuse \in [Reps -> Nat]
ASSUME FiniteAssumption ==
    IsFiniteSet(Contexts) /\ IsFiniteSet(Transitions) /\ IsFiniteSet(Growths)

VARIABLES
    clock,        \* representations registered so far
    reps,         \* ids in the table of representations
    dev,          \* representations with a device copy
    host,         \* ... a host copy
    sto,          \* ... a storage copy
    logical,      \* ReferenceCounts::logical
    active,       \* ReferenceCounts::active
    reservations, \* ReferenceCounts::reservations
    transfers,    \* ReferenceCounts::transfers
    lastUsed,     \* PhysicalRepresentation::last_used
    binding,      \* representations bound by a context ({}: not bound)
    table,        \* blocks of its device block table ({}: no table)
    prepared,     \* prepared transitions
    detached,     \* number of detached transfers not completed
    growth        \* bytes of a growth reservation (0: none)

copies == <<dev, host, sto>>
counts == <<logical, active, reservations, transfers>>
vars == <<clock, reps, copies, counts, lastUsed, binding, table, prepared, detached, growth>>

-----------------------------------------------------------------------------
(* Accounting.                                                             *)

BytesIn(S) == MapThenSumSet(LAMBDA r : BytesOf[r], S)
DeviceUsed == BytesIn(dev)
HostUsed == BytesIn(host)

\* A transition id that is not in use
NoTransition == [ctx |-> {}, reps |-> {}, reserved |-> 0, recompute |-> FALSE,
                 xfer |-> [r \in Reps |-> "none"]]
Live == {t \in Transitions : prepared[t].reps # {}}

\* protected_device_bytes and the three kinds of reservation.
ActiveBytes == BytesIn({r \in dev : active[r] # 0})
GrowthBytes == MapThenSumSet(LAMBDA g : growth[g], Growths)
TransitionBytes == MapThenSumSet(LAMBDA t : prepared[t].reserved, Transitions)
DetachedBytes == MapThenSumSet(LAMBDA r : detached[r] * BytesOf[r], Reps)

\* A slip: a transfer does not protect.
ProtectedWithoutTransfers(r) == active[r] # 0 \/ reservations[r] # 0

\* ReferenceCounts::protected
Protected(r) == active[r] # 0 \/ reservations[r] # 0 \/ transfers[r] # 0

\* The order of eviction: min_by_key(reuse_value, last_used, id).
EvictedBefore(q, r) ==
    \/ Reuse[q] < Reuse[r]
    \/ Reuse[q] = Reuse[r] /\ lastUsed[q] < lastUsed[r]
    \/ Reuse[q] = Reuse[r] /\ lastUsed[q] = lastUsed[r] /\ q < r

Evictable == {r \in dev : ~Protected(r)}

\* What the loop of ensure_device_space has evicted after 0, 1, 2... rounds
Rounds == {{}} \cup {{q \in Evictable : q = r \/ EvictedBefore(q, r)} : r \in Evictable}

\* The rounds after which the bytes fit
Enough(bytes) == {V \in Rounds : BytesIn(dev \ V) + bytes <= DeviceBytes}

\* ensure_device_space: it stops after the first such round, or fails with
\* everything it could evict evicted.
HasSpace(bytes) == Enough(bytes) # {}
Victims(bytes) ==
    IF HasSpace(bytes)
    THEN CHOOSE V \in Enough(bytes) : \A W \in Enough(bytes) : V \subseteq W
    ELSE Evictable

\* The check at the start of ensure_device_capacity
HasCapacity(bytes) ==
    ActiveBytes + GrowthBytes + TransitionBytes + DetachedBytes + bytes <= DeviceBytes

\* ensure_host_capacity
HasHostCapacity(bytes) == HostUsed + bytes <= HostBytes

\* A call that needs device bytes fails after it has evicted what it could.
EvictInVain(bytes) ==
    /\ ~HasSpace(bytes)
    /\ dev' = dev \ Victims(bytes)
    /\ UNCHANGED <<clock, reps, host, sto, counts, lastUsed, binding, table,
                   prepared, detached, growth>>

-----------------------------------------------------------------------------
(* Representations.                                                        *)

\* register, in a tier that has room for it
Register(tier) ==
    /\ clock < MaxReps
    /\ LET r == clock + 1 IN
       /\ CASE tier = "device" ->
                 /\ HasCapacity(BytesOf[r]) /\ HasSpace(BytesOf[r])
                 /\ dev' = (dev \ Victims(BytesOf[r])) \cup {r}
                 /\ UNCHANGED <<host, sto>>
            [] tier = "host" ->
                 /\ HasHostCapacity(BytesOf[r])
                 /\ host' = host \cup {r}
                 /\ UNCHANGED <<dev, sto>>
            [] tier = "storage" ->
                 sto' = sto \cup {r} /\ UNCHANGED <<dev, host>>
       /\ clock' = r
       /\ reps' = reps \cup {r}
       /\ logical' = [logical EXCEPT ![r] = 1]
       /\ lastUsed' = [lastUsed EXCEPT ![r] = r]
    /\ UNCHANGED <<active, reservations, transfers, binding, table, prepared,
                   detached, growth>>

RegisterFails ==
    /\ clock < MaxReps
    /\ HasCapacity(BytesOf[clock + 1])
    /\ EvictInVain(BytesOf[clock + 1])

\* release_logical_reference: the last reference takes the representation with
\* it, unless an owner is left.
ReleaseLogical(r) ==
    /\ r \in reps
    /\ logical' = [logical EXCEPT ![r] = IF @ = 0 THEN 0 ELSE @ - 1]
    /\ IF logical'[r] = 0 /\ ~Protected(r)
       THEN reps' = reps \ {r} /\ dev' = dev \ {r} /\ host' = host \ {r} /\ sto' = sto \ {r}
       ELSE UNCHANGED <<reps, copies>>
    /\ UNCHANGED <<clock, active, reservations, transfers, lastUsed, binding,
                   table, prepared, detached, growth>>

DemoteToHost(r) ==
    /\ r \in reps /\ ~Protected(r)
    /\ r \in host \/ HasHostCapacity(BytesOf[r])
    /\ host' = host \cup {r}
    /\ dev' = dev \ {r}
    /\ UNCHANGED <<clock, reps, sto, counts, lastUsed, binding, table, prepared,
                   detached, growth>>

DemoteToStorage(r) ==
    /\ r \in reps /\ ~Protected(r)
    /\ sto' = sto \cup {r}
    /\ host' = host \ {r}
    /\ dev' = dev \ {r}
    /\ UNCHANGED <<clock, reps, counts, lastUsed, binding, table, prepared,
                   detached, growth>>

\* evict, from one tier
Evict(r, tier) ==
    /\ r \in reps /\ ~Protected(r)
    /\ dev' = IF tier = "device" THEN dev \ {r} ELSE dev
    /\ host' = IF tier = "host" THEN host \ {r} ELSE host
    /\ sto' = IF tier = "storage" THEN sto \ {r} ELSE sto
    /\ UNCHANGED <<clock, reps, counts, lastUsed, binding, table, prepared,
                   detached, growth>>

-----------------------------------------------------------------------------
(* Growth reservations.                                                    *)

\* reserve_growth: it makes room on the device, and holds it in the books only.
ReserveGrowth(g, bytes) ==
    /\ growth[g] = 0
    /\ HasCapacity(bytes)
    /\ \/ /\ HasSpace(bytes)
          /\ dev' = dev \ Victims(bytes)
          /\ growth' = [growth EXCEPT ![g] = bytes]
          /\ UNCHANGED <<clock, reps, host, sto, counts, lastUsed, binding, table,
                         prepared, detached>>
       \/ EvictInVain(bytes)

ReleaseGrowth(g) ==
    /\ growth[g] # 0
    /\ growth' = [growth EXCEPT ![g] = 0]
    /\ UNCHANGED <<clock, reps, copies, counts, lastUsed, binding, table, prepared, detached>>

-----------------------------------------------------------------------------
(* Transitions.                                                            *)

\* validate_composite: one representation per required component, one mapping
ValidComposite(S) ==
    /\ S # {}
    /\ \A q, r \in S : MappingOf[q] = MappingOf[r]
    /\ \A q, r \in S : ComponentOf[q] = ComponentOf[r] => q = r
    /\ {ComponentOf[r] : r \in S} \in Masks

Bump(f, S, n) == [r \in Reps |-> IF r \in S THEN f[r] + n ELSE f[r]]

\* prepare_transition.  What is missing is summed up before room is made; the
\* references that protect the composite, and its transfers, come after.  A
\* composite without a source is refused unless the caller allows recomputation.
PrepareTransition(t, c, S) ==
    LET missing == S \ dev
        sourceless == missing \ (host \cup sto)
        bytes == BytesIn(missing)
        staged == {r \in S : r \notin dev' /\ r \in host \cup sto}
    IN  /\ t \notin Live
        /\ S \subseteq reps /\ ValidComposite(S)
        /\ HasCapacity(bytes)
        /\ HasSpace(bytes)
        /\ dev' = dev \ Victims(bytes)
        /\ reservations' = Bump(reservations, S, 1)
        /\ transfers' = Bump(transfers, staged, 1)
        /\ prepared' = [prepared EXCEPT ![t] =
             [ctx |-> {c}, reps |-> S, reserved |-> bytes,
              recompute |-> sourceless # {},
              xfer |-> [r \in Reps |-> IF r \in staged THEN "pending" ELSE "none"]]]
        /\ UNCHANGED <<clock, reps, host, sto, logical, active, lastUsed, binding,
                       table, detached, growth>>

PrepareFails(S) ==
    /\ S \subseteq reps /\ ValidComposite(S)
    /\ HasCapacity(BytesIn(S \ dev))
    /\ EvictInVain(BytesIn(S \ dev))

\* The device copy a transfer or a recomputation makes, with room made for it
GainDevice(r) ==
    /\ r \in dev \/ HasSpace(BytesOf[r])
    /\ dev' = IF r \in dev THEN dev ELSE (dev \ Victims(BytesOf[r])) \cup {r}

\* complete_transfer of a transition
CompleteTransfer(t, r, success) ==
    /\ prepared[t].xfer[r] = "pending"
    /\ IF success THEN GainDevice(r) ELSE UNCHANGED dev
    /\ prepared' = [prepared EXCEPT ![t].xfer[r] = IF success THEN "done" ELSE "failed"]
    /\ transfers' = [transfers EXCEPT ![r] = @ - 1]
    /\ UNCHANGED <<clock, reps, host, sto, logical, active, reservations, lastUsed,
                   binding, table, detached, growth>>

\* complete_transfer of one whose transition was aborted
CompleteDetached(r, success) ==
    /\ detached[r] > 0
    /\ IF success THEN GainDevice(r) ELSE UNCHANGED dev
    /\ detached' = [detached EXCEPT ![r] = @ - 1]
    /\ transfers' = [transfers EXCEPT ![r] = @ - 1]
    /\ UNCHANGED <<clock, reps, host, sto, logical, active, reservations, lastUsed,
                   binding, table, prepared, growth>>

\* complete_transfer or complete_recompute without room on the device
ArrivalFails(r) ==
    /\ r \notin dev
    /\ \/ detached[r] > 0
       \/ \E t \in Live : prepared[t].xfer[r] = "pending"
       \/ \E t \in Live : prepared[t].recompute /\ r \in prepared[t].reps
    /\ EvictInVain(BytesOf[r])

CompleteRecompute(t, r) ==
    /\ t \in Live /\ prepared[t].recompute /\ r \in prepared[t].reps
    /\ GainDevice(r)
    /\ UNCHANGED <<clock, reps, host, sto, counts, lastUsed, binding, table,
                   prepared, detached, growth>>

\* Slips: a transition may commit while a transfer is on its way; and the
\* representations of the binding it replaces stay referenced.
CommittableWhilePending(t) ==
    t \in Live /\ \A r \in Reps : prepared[t].xfer[r] # "failed"

CommitKeepsOld(t) ==
    /\ active' = Bump(active, prepared[t].reps, 1)
    /\ reservations' = Bump(reservations, prepared[t].reps, -1)
    /\ binding' = [c \in Contexts |-> IF c \in prepared[t].ctx THEN prepared[t].reps
                                                              ELSE binding[c]]
    /\ lastUsed' = [r \in Reps |-> IF r \in prepared[t].reps THEN clock ELSE lastUsed[r]]
    /\ prepared' = [prepared EXCEPT ![t] = NoTransition]
    /\ UNCHANGED <<clock, reps, copies, logical, transfers, detached, growth>>

\* The conditions of commit_transition
Committable(t) ==
    /\ t \in Live
    /\ \A r \in Reps : prepared[t].xfer[r] \in {"none", "done"}
    /\ prepared[t].reps \subseteq dev

\* commit_transition: the new binding replaces the one of its context.
Commit(t) ==
    LET S == prepared[t].reps
        old == UNION {binding[c] : c \in prepared[t].ctx}
    IN  /\ active' = Bump(Bump(active, old, -1), S, 1)
        /\ reservations' = Bump(reservations, S, -1)
        /\ binding' = [c \in Contexts |-> IF c \in prepared[t].ctx THEN S ELSE binding[c]]
        /\ lastUsed' = [r \in Reps |-> IF r \in S THEN clock ELSE lastUsed[r]]
        /\ prepared' = [prepared EXCEPT ![t] = NoTransition]
        /\ UNCHANGED <<clock, reps, copies, logical, transfers, detached, growth>>

\* A slip: the block table of the replaced binding is left.
CommitTransitionKeepsTable(t) == Committable(t) /\ Commit(t) /\ UNCHANGED table

CommitTransition(t) ==
    /\ Committable(t)
    /\ Commit(t)
    /\ table' = [c \in Contexts |-> IF c \in prepared[t].ctx THEN {} ELSE table[c]]

\* commit_mapped_transition: the binding and its block table in one step
CommitMappedTransition(t) ==
    /\ Committable(t)
    /\ Commit(t)
    /\ table' = [c \in Contexts |-> IF c \in prepared[t].ctx THEN prepared[t].reps
                                                            ELSE table[c]]

\* abort_transition: transfers still under way are detached and keep their
\* references.
AbortTransition(t) ==
    /\ t \in Live
    /\ reservations' = Bump(reservations, prepared[t].reps, -1)
    /\ detached' = Bump(detached, {r \in Reps : prepared[t].xfer[r] = "pending"}, 1)
    /\ prepared' = [prepared EXCEPT ![t] = NoTransition]
    /\ UNCHANGED <<clock, reps, copies, logical, active, transfers, lastUsed,
                   binding, table, growth>>

\* publish_device_block_table
PublishDeviceBlockTable(c) ==
    /\ binding[c] # {} /\ binding[c] \subseteq dev
    /\ table' = [table EXCEPT ![c] = binding[c]]
    /\ UNCHANGED <<clock, reps, copies, counts, lastUsed, binding, prepared, detached, growth>>

\* unbind and release_binding
Unbind(c) ==
    /\ binding[c] # {}
    /\ active' = Bump(active, binding[c], -1)
    /\ binding' = [binding EXCEPT ![c] = {}]
    /\ table' = [table EXCEPT ![c] = {}]
    /\ UNCHANGED <<clock, reps, copies, logical, reservations, transfers, lastUsed,
                   prepared, detached, growth>>

-----------------------------------------------------------------------------
Init ==
    /\ clock = 0
    /\ reps = {} /\ dev = {} /\ host = {} /\ sto = {}
    /\ logical = [r \in Reps |-> 0]
    /\ active = [r \in Reps |-> 0]
    /\ reservations = [r \in Reps |-> 0]
    /\ transfers = [r \in Reps |-> 0]
    /\ lastUsed = [r \in Reps |-> 0]
    /\ binding = [c \in Contexts |-> {}]
    /\ table = [c \in Contexts |-> {}]
    /\ prepared = [t \in Transitions |-> NoTransition]
    /\ detached = [r \in Reps |-> 0]
    /\ growth = [g \in Growths |-> 0]

Tiers == {"device", "host", "storage"}

Residence ==
    \/ \E tier \in Tiers : Register(tier)
    \/ RegisterFails
    \/ \E r \in Reps : ReleaseLogical(r) \/ DemoteToHost(r) \/ DemoteToStorage(r)
    \/ \E r \in Reps, tier \in Tiers : Evict(r, tier)

Growing ==
    \/ \E g \in Growths, b \in GrowthSizes : ReserveGrowth(g, b)
    \/ \E g \in Growths : ReleaseGrowth(g)

Preparing ==
    \/ \E t \in Transitions, c \in Contexts, S \in SUBSET Reps :
         PrepareTransition(t, c, S)
    \/ \E S \in SUBSET Reps : PrepareFails(S)

Arriving ==
    \/ \E t \in Transitions, r \in Reps, ok \in BOOLEAN : CompleteTransfer(t, r, ok)
    \/ \E r \in Reps, ok \in BOOLEAN : CompleteDetached(r, ok)
    \/ \E r \in Reps : ArrivalFails(r)
    \/ \E t \in Transitions, r \in Reps : CompleteRecompute(t, r)

Settling ==
    \/ \E t \in Transitions :
         CommitTransition(t) \/ CommitMappedTransition(t) \/ AbortTransition(t)
    \/ \E c \in Contexts : PublishDeviceBlockTable(c) \/ Unbind(c)

Next == Residence \/ Growing \/ Preparing \/ Arriving \/ Settling

Spec == Init /\ [][Next]_vars

-----------------------------------------------------------------------------
(* Properties.                                                             *)

XferStates == {"none", "pending", "done", "failed"}
Prepareds == [ctx : SUBSET Contexts, reps : SUBSET Reps, reserved : Nat,
              recompute : BOOLEAN, xfer : [Reps -> XferStates]]

TypeOK ==
    /\ clock \in 0..MaxReps
    /\ reps \subseteq 1..clock
    /\ dev \subseteq reps /\ host \subseteq reps /\ sto \subseteq reps
    /\ logical \in [Reps -> Nat]
    /\ active \in [Reps -> Nat]
    /\ reservations \in [Reps -> Nat]
    /\ transfers \in [Reps -> Nat]
    /\ lastUsed \in [Reps -> Nat]
    /\ binding \in [Contexts -> SUBSET Reps]
    /\ table \in [Contexts -> SUBSET Reps]
    /\ prepared \in [Transitions -> Prepareds]
    /\ detached \in [Reps -> Nat]
    /\ growth \in [Growths -> Nat]

\* Every reference count is the number of its owners: bindings, prepared
\* transitions, and transfers under way, attached or detached.  A count too low
\* lets owned bytes be reclaimed (or a usize wrap), one too high leaks them.
CountsAreExact ==
    \A r \in Reps :
        /\ active[r] = Cardinality({c \in Contexts : r \in binding[c]})
        /\ reservations[r] = Cardinality({t \in Transitions : r \in prepared[t].reps})
        /\ transfers[r] = Cardinality({t \in Transitions : prepared[t].xfer[r] = "pending"})
                            + detached[r]

\* The owners refer to representations that exist: no lookup by index panics.
\* What a context has bound is on the device, all of it: "a prepared transition
\* cannot publish partial component state" (docs/outline.md:1337).
OwnersAreValid ==
    /\ \A c \in Contexts : binding[c] \subseteq dev
    /\ \A t \in Transitions : prepared[t].reps \subseteq reps
    /\ \A r \in Reps : detached[r] # 0 => r \in reps

\* "Physical storage cannot be reclaimed while active, reserved, or transfer
\* references exist" (docs/outline.md:1338): no step takes away a copy of a
\* representation that somebody owns.
OwnedCopiesStay ==
    [][\A r \in Reps :
          active[r] # 0 \/ reservations[r] # 0 \/ transfers[r] # 0 =>
             /\ r \in dev => r \in dev'
             /\ r \in host => r \in host'
             /\ r \in sto => r \in sto'
             /\ r \in reps => r \in reps']_vars

\* The copies fit their tiers, whatever was reserved, promoted and demoted.
CopiesFit == DeviceUsed <= DeviceBytes /\ HostUsed <= HostBytes

\* The tiers never overflow, and a context is bound only to representations that
\* are on the device, with all their components.
TiersHold == TypeOK /\ CopiesFit /\ OwnersAreValid

\* A visible block table is the one of the binding in force, and all its blocks
\* are on the device: the executor never sees a table of a replaced binding.
TablesAreCurrent ==
    \A c \in Contexts : table[c] # {} => table[c] = binding[c] /\ table[c] \subseteq dev

\* "The hard admission invariant is M + E + A + T <= C" (docs/outline.md:919-923),
\* for what this manager accounts for: growth, active and transition bytes.
HardAdmission ==
    ActiveBytes + GrowthBytes + TransitionBytes + DetachedBytes <= DeviceBytes

=============================================================================
