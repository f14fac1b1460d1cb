----------------------------- MODULE Admission -----------------------------
(***************************************************************************)
(* Request admission of crates/server/src/lib.rs: at most admission_limit  *)
(* requests execute, the others wait in a bounded FIFO queue.  The state   *)
(* behind the mutex `inner` is shared by request tasks; each step below is *)
(* one critical section, or one step of a task outside it.                 *)
(*                                                                         *)
(* A waiting task owns three things: a queue entry (with the sender of a   *)
(* oneshot channel), the receiver of that channel, and an AdmissionGuard   *)
(* whose drop gives back whatever the task holds by then.  When a task     *)
(* gives up, the receiver is dropped first and the guard later, and other  *)
(* tasks run in between.                                                   *)
(*                                                                         *)
(* A request is its id and its ticket: ids are fresh UUIDs.                *)
(***************************************************************************)
EXTENDS Integers, Sequences, FiniteSets, SequencesExt, FiniteSetsExt

CONSTANTS
    Requests,      \* requests that may arrive
    Updates,       \* those that never queue: context updates and infer
    Bytes,         \* retained bytes of a request
    Limits,        \* values the admission limit is given
    RequestBytes,  \* ServerConfig::request_bytes
    QueueCount,    \* ServerConfig::queue_count
    QueueBytes     \* ServerConfig::queue_bytes

ASSUME RequestsAssumption == IsFiniteSet(Requests) /\ Updates \subseteq Requests
ASSUME BytesAssumption == Bytes \in [Requests -> Nat]
ASSUME LimitsAssumption == Limits \subseteq Nat \ {0}
ASSUME SizesAssumption ==
    RequestBytes \in Nat /\ QueueCount \in Nat /\ QueueBytes \in Nat

VARIABLES
    active,            \* Inner::active
    limit,             \* Inner::admission_limit
    queue,             \* Inner::queue
    queuedBytes,       \* Inner::queued_bytes
    shuttingDown,      \* Inner::shutting_down
    controls,          \* keys of Inner::controls
    pendingCancelled,  \* Inner::pending_cancelled
    control,           \* state of each request's RequestControl
    ready,             \* each request's oneshot channel, seen by the receiver
    pc,                \* where the task of a request is
    phantom            \* history: releases of a slot that nobody held

shared == <<active, limit, queue, queuedBytes, shuttingDown, controls, pendingCancelled>>
vars == <<shared, control, ready, pc, phantom>>

\* Where a task is: before admission; waiting for its turn; waiting given up,
\* its guard not yet dropped (with its ticket, or without); executing; ended.
Places == {"new", "waiting", "leaving", "refused", "active", "gone"}

-----------------------------------------------------------------------------
(* RequestControl: only a running control changes state.                   *)

SetControl(r, s) ==
    control' = [control EXCEPT ![r] = IF @ = "running" THEN s ELSE @]

-----------------------------------------------------------------------------
(* promote_queued.                                                         *)

\* The oneshot receiver of a queue entry: gone once its task stops waiting.
ReceiverAlive(r) == pc[r] = "waiting"

\* Entries among the first k of q that accept the slot they are offered.
Accepting(q, k) == {r \in ToSet(SubSeq(q, 1, k)) : ReceiverAlive(r)}

\* Entries popped while slots are free: up to the one that takes the last free
\* slot, or all of them.
Popped(q, free) ==
    CHOOSE k \in 0..Len(q) :
        /\ Cardinality(Accepting(q, k)) = free \/ k = Len(q)
        /\ \A j \in 0..(k - 1) : Cardinality(Accepting(q, j)) # free

Free(a, l) == IF a < l THEN l - a ELSE 0

TotalBytes(S) == MapThenSumSet(LAMBDA r : Bytes[r], S)

\* A slip: the entry is popped before the free slot is looked for.
PromotePopsEarly(a, l, q, qb, chans) ==
    LET n == Popped(q, Free(a, l))
        k == IF n < Len(q) THEN n + 1 ELSE n
        taken == ToSet(SubSeq(q, 1, k))
        admitted == Accepting(q, n)
    IN  /\ active' = a + Cardinality(admitted)
        /\ queue' = SubSeq(q, k + 1, Len(q))
        /\ queuedBytes' = qb - TotalBytes(taken)
        /\ ready' = [r \in Requests |-> IF r \in admitted THEN "sent"
                                        ELSE IF r \in taken THEN "closed"
                                        ELSE chans[r]]

\* A slip: the last entry in is the first one out.
PromoteNewestFirst(a, l, q, qb, chans) ==
    LET k == Popped(Reverse(q), Free(a, l))
        taken == ToSet(SubSeq(Reverse(q), 1, k))
        admitted == Accepting(Reverse(q), k)
    IN  /\ active' = a + Cardinality(admitted)
        /\ queue' = SubSeq(q, 1, Len(q) - k)
        /\ queuedBytes' = qb - TotalBytes(taken)
        /\ ready' = [r \in Requests |-> IF r \in admitted THEN "sent"
                                        ELSE IF r \in taken THEN "closed"
                                        ELSE chans[r]]

\* promote_queued(guard): from a count, a limit, a queue and its bytes.  An
\* entry whose receiver is gone is popped and takes no slot.
Promote(a, l, q, qb, chans) ==
    LET k == Popped(q, Free(a, l))
        taken == ToSet(SubSeq(q, 1, k))
        admitted == Accepting(q, k)
    IN  /\ active' = a + Cardinality(admitted)
        /\ queue' = SubSeq(q, k + 1, Len(q))
        /\ queuedBytes' = qb - TotalBytes(taken)
        /\ ready' = [r \in Requests |-> IF r \in admitted THEN "sent"
                                        ELSE IF r \in taken THEN "closed"
                                        ELSE chans[r]]

-----------------------------------------------------------------------------
(* Arrival: reserve_admission up to its await, and try_admit.              *)

\* Both refuse a request cancelled before it came, and any during shutdown.
Refuse(r) ==
    /\ r \in pendingCancelled \/ shuttingDown
    /\ pendingCancelled' = pendingCancelled \ {r}
    /\ pc' = [pc EXCEPT ![r] = "gone"]
    /\ UNCHANGED <<active, limit, queue, queuedBytes, shuttingDown, controls,
                   control, ready, phantom>>

\* A slot is free and nobody waits for it.
Admit(r) ==
    /\ r \notin pendingCancelled /\ ~shuttingDown
    /\ r \in Updates \/ Bytes[r] <= RequestBytes
    /\ active < limit /\ queue = <<>>
    /\ active' = active + 1
    /\ controls' = controls \cup {r}
    /\ pc' = [pc EXCEPT ![r] = "active"]
    /\ UNCHANGED <<limit, queue, queuedBytes, shuttingDown, pendingCancelled,
                   control, ready, phantom>>

\* No slot: the request joins the queue, if count and bytes allow it.
CanQueue(r) ==
    /\ r \notin Updates
    /\ Bytes[r] <= RequestBytes
    /\ Len(queue) < QueueCount
    /\ Bytes[r] <= QueueBytes - queuedBytes

Enqueue(r) ==
    /\ r \notin pendingCancelled /\ ~shuttingDown
    /\ ~(active < limit /\ queue = <<>>)
    /\ CanQueue(r)
    /\ controls' = controls \cup {r}
    /\ queue' = Append(queue, r)
    /\ queuedBytes' = queuedBytes + Bytes[r]
    /\ pc' = [pc EXCEPT ![r] = "waiting"]
    /\ UNCHANGED <<active, limit, shuttingDown, pendingCancelled, control, ready, phantom>>

\* PayloadTooLarge and Busy.
Reject(r) ==
    /\ r \notin pendingCancelled /\ ~shuttingDown
    /\ \/ r \notin Updates /\ Bytes[r] > RequestBytes
       \/ ~(active < limit /\ queue = <<>>) /\ ~CanQueue(r)
    /\ pc' = [pc EXCEPT ![r] = "gone"]
    /\ UNCHANGED <<shared, control, ready, phantom>>

Arrive(r) == pc[r] = "new" /\ (Refuse(r) \/ Admit(r) \/ Enqueue(r) \/ Reject(r))

-----------------------------------------------------------------------------
(* The await of reserve_admission, and the drop of its guard.              *)

\* A slip: a promoted task executes without looking at its control.
PollIgnoresControl(r) ==
    /\ pc[r] = "waiting"
    /\ ready[r] # "open"
    /\ pc' = [pc EXCEPT ![r] = IF ready[r] = "closed" THEN "refused" ELSE "active"]
    /\ UNCHANGED <<shared, control, ready, phantom>>

\* The task is polled after its channel was used: promoted (and it looks at
\* its control), or closed (and the guard forgets its ticket).
Poll(r) ==
    /\ pc[r] = "waiting"
    /\ ready[r] # "open"
    /\ pc' = [pc EXCEPT ![r] = IF ready[r] = "closed" THEN "refused"
                               ELSE IF control[r] = "running" THEN "active"
                               ELSE "leaving"]
    /\ UNCHANGED <<shared, control, ready, phantom>>

\* tokio::time::timeout elapses: the receiver is dropped, the control expires.
Timeout(r) ==
    /\ pc[r] = "waiting"
    /\ pc' = [pc EXCEPT ![r] = "leaving"]
    /\ SetControl(r, "deadline")
    /\ UNCHANGED <<shared, ready, phantom>>

\* The client goes away: the future is dropped, and the receiver with it.
Disconnect(r) ==
    /\ pc[r] = "waiting"
    /\ pc' = [pc EXCEPT ![r] = "leaving"]
    /\ UNCHANGED <<shared, control, ready, phantom>>

\* saturating_sub(1)
Release(n) == IF n > 0 THEN n - 1 ELSE n

\* A slip: the freed slot is offered to nobody.
DropGuardForgetsQueue(r) ==
    /\ pc[r] \in {"leaving", "refused", "active"}
    /\ pc' = [pc EXCEPT ![r] = "gone"]
    /\ controls' = controls \ {r}
    /\ SetControl(r, "complete")
    /\ IF pc[r] = "leaving" /\ r \in ToSet(queue)
       THEN /\ queue' = RemoveFirst(queue, r)
            /\ queuedBytes' = queuedBytes - Bytes[r]
            /\ UNCHANGED <<active, phantom>>
       ELSE /\ active' = IF pc[r] = "refused" THEN active ELSE Release(active)
            /\ UNCHANGED <<queue, queuedBytes, phantom>>
    /\ UNCHANGED <<limit, shuttingDown, pendingCancelled, ready>>

\* A slip: a ticket that is not in the queue gives nothing back.
DropGuardIgnoresPromoted(r) ==
    /\ pc[r] \in {"leaving", "refused", "active"}
    /\ pc' = [pc EXCEPT ![r] = "gone"]
    /\ controls' = controls \ {r}
    /\ SetControl(r, "complete")
    /\ IF pc[r] = "leaving" /\ r \in ToSet(queue)
       THEN Promote(active, limit, RemoveFirst(queue, r), queuedBytes - Bytes[r], ready)
       ELSE Promote(IF pc[r] = "active" THEN Release(active) ELSE active,
                    limit, queue, queuedBytes, ready)
    /\ UNCHANGED <<limit, shuttingDown, pendingCancelled, phantom>>

\* release_or_cancel_admission.  A guard with a ticket whose entry is not in the
\* queue gives back a slot: it takes for granted that the entry was promoted.
DropGuard(r) ==
    /\ pc[r] \in {"leaving", "refused", "active"}
    /\ pc' = [pc EXCEPT ![r] = "gone"]
    /\ controls' = controls \ {r}
    /\ SetControl(r, "complete")
    /\ IF pc[r] = "leaving" /\ r \in ToSet(queue)
       THEN /\ Promote(active, limit, RemoveFirst(queue, r), queuedBytes - Bytes[r], ready)
            /\ UNCHANGED phantom
       ELSE /\ Promote(IF pc[r] = "refused" THEN active ELSE Release(active),
                       limit, queue, queuedBytes, ready)
            /\ phantom' = IF pc[r] = "leaving" /\ ready[r] # "sent"
                          THEN phantom + 1 ELSE phantom
    /\ UNCHANGED <<limit, shuttingDown, pendingCancelled>>

-----------------------------------------------------------------------------
(* The administrator, the cancel endpoint and shutdown.                    *)

\* Server::cancel: a known request is told, an unknown one is remembered; an
\* entry that is removed drops its sender.
Cancel(r) ==
    /\ pc[r] # "gone"
    /\ IF r \in controls
       THEN SetControl(r, "cancelled") /\ UNCHANGED pendingCancelled
       ELSE pendingCancelled' = pendingCancelled \cup {r} /\ UNCHANGED control
    /\ IF r \in ToSet(queue)
       THEN Promote(active, limit, RemoveFirst(queue, r), queuedBytes - Bytes[r],
                    [ready EXCEPT ![r] = "closed"])
       ELSE Promote(active, limit, queue, queuedBytes, ready)
    /\ UNCHANGED <<limit, shuttingDown, controls, pc, phantom>>

\* set_admission_limit, and what configure does to admission.
SetAdmissionLimit(l) ==
    /\ limit' = l
    /\ Promote(active, l, queue, queuedBytes, ready)
    /\ UNCHANGED <<shuttingDown, controls, pendingCancelled, control, pc, phantom>>

BeginShutdown ==
    /\ ~shuttingDown
    /\ shuttingDown' = TRUE
    /\ UNCHANGED <<active, limit, queue, queuedBytes, controls, pendingCancelled,
                   control, ready, pc, phantom>>

\* cancel_remaining, when the grace period ends: it promotes nobody.
CancelRemaining ==
    /\ shuttingDown
    /\ control' = [r \in Requests |->
                     IF r \in controls /\ control[r] = "running"
                     THEN "cancelled" ELSE control[r]]
    /\ ready' = [r \in Requests |-> IF r \in ToSet(queue) THEN "closed" ELSE ready[r]]
    /\ queue' = <<>>
    /\ queuedBytes' = 0
    /\ UNCHANGED <<active, limit, shuttingDown, controls, pendingCancelled, pc, phantom>>

-----------------------------------------------------------------------------
Init ==
    /\ active = 0
    /\ limit \in Limits
    /\ queue = <<>>
    /\ queuedBytes = 0
    /\ shuttingDown = FALSE
    /\ controls = {}
    /\ pendingCancelled = {}
    /\ control = [r \in Requests |-> "running"]
    /\ ready = [r \in Requests |-> "open"]
    /\ pc = [r \in Requests |-> "new"]
    /\ phantom = 0

Task(r) == Arrive(r) \/ Poll(r) \/ Timeout(r) \/ Disconnect(r) \/ DropGuard(r)

Next ==
    \/ \E r \in Requests : Task(r) \/ Cancel(r)
    \/ \E l \in Limits : SetAdmissionLimit(l)
    \/ BeginShutdown
    \/ CancelRemaining

Spec == Init /\ [][Next]_vars

\* Tasks that are woken are polled, a future that is dropped drops its guard, and
\* an executing request ends: its watchdogs expire at wall_time and active_time.
\* Neither the deadline of a waiting request nor its client is relied on; but a client
\* that stays and reads nothing keeps an executing request from ending (MCServing's
\* StoppedRequestEnds), and is left out here.
Fairness == \A r \in Requests : WF_vars(Poll(r)) /\ WF_vars(DropGuard(r))

-----------------------------------------------------------------------------
(* Properties.                                                             *)

TypeOK ==
    /\ active \in Nat
    /\ limit \in Nat
    /\ queue \in Seq(Requests)
    /\ queuedBytes \in Int
    /\ shuttingDown \in BOOLEAN
    /\ controls \subseteq Requests
    /\ pendingCancelled \subseteq Requests
    /\ control \in [Requests -> {"running", "cancelled", "deadline", "complete"}]
    /\ ready \in [Requests -> {"open", "sent", "closed"}]
    /\ pc \in [Requests -> Places]
    /\ phantom \in Nat

\* The requests that hold a slot: they execute, or were promoted and have not
\* yet given the slot back.
Holders == {r \in Requests :
              pc[r] = "active" \/ (pc[r] \in {"waiting", "leaving"} /\ ready[r] = "sent")}

\* No slot is ever lost: `active`, which five code paths move, never counts more
\* requests than hold a slot, so an idle server has all its slots free; and it
\* falls short of them by the phantom releases and no more.
SlotsAccounted ==
    /\ active <= Cardinality(Holders)
    /\ Cardinality(Holders) <= active + phantom

\* queued_bytes is the sum of the bytes queued, after any mix of promotion,
\* cancellation, timeout, disconnection and shutdown, and stays in its budget.
QueuedBytesExact ==
    /\ queuedBytes = TotalBytes(ToSet(queue))
    /\ queuedBytes <= QueueBytes
    /\ Len(queue) <= QueueCount

\* After any mix of arrivals, promotions, cancellations, timeouts, disconnections and
\* shutdown, under a limit that changes, the three numbers of the gate (active,
\* queued_bytes, the length of the queue) say who holds a slot and who waits.
AccountsExact == TypeOK /\ SlotsAccounted /\ QueuedBytesExact

\* Nobody waits while a slot is free.
WorkConserving == queue # <<>> => active >= limit

\* A request that waits has an entry in the queue (one, and live), or has been
\* promoted, or has been cancelled: its turn is never lost.
NoLostWaiter ==
    \A r \in Requests : pc[r] = "waiting" =>
        CASE ready[r] = "open" -> r \in ToSet(queue)
          [] ready[r] = "closed" -> r \notin ToSet(queue) /\ control[r] = "cancelled"
          [] ready[r] = "sent" -> r \notin ToSet(queue)

\* Every path that frees a slot or removes an entry promotes whoever is next, and
\* nobody else: a waiting request keeps its turn, and turns come as slots are free.
TurnsAreKept == WorkConserving /\ NoLostWaiter

\* Turns are taken in order of arrival: an entry is promoted only when every
\* entry before it has left the queue too.
PromotionIsFifo ==
    [][\A k, l \in 1..Len(queue) :
          k < l /\ ready[queue[l]] = "open" /\ ready'[queue[l]] = "sent"
             => queue[k] \notin ToSet(queue')]_vars

\* A request that Server::cancel names before it executes never executes: neither
\* one that waits, nor one promoted but not yet polled, nor one yet to arrive.
CancelledNeverStarts ==
    [][\A r \in Requests :
          /\ pc[r] # "active"
          /\ r \in pendingCancelled \/ control[r] = "cancelled"
          => pc'[r] # "active"]_vars

\* "Maximum requests admitted to active execution across the daemon"
\* (config.example.yaml:69): a request is given a slot only within the limit.
AdmissionWithinLimit ==
    [][Holders' \ Holders # {} => Cardinality(Holders') <= limit']_vars

=============================================================================
