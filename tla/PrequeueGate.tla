---------------------------- MODULE PrequeueGate ----------------------------
(***************************************************************************)
(* The gate that bounds requests before admission, and compaction workers: *)
(* PrequeueGate, PrequeuePermit and PrequeueJson of                        *)
(* crates/server/src/lib.rs, on a semaphore of tokio, which serves waiters *)
(* in order.                                                               *)
(*                                                                         *)
(* A limit may be lowered while permits are out: what the semaphore cannot *)
(* forget at once is owed by the permits given back later.                 *)
(***************************************************************************)
EXTENDS Naturals, Sequences, FiniteSets, SequencesExt

CONSTANTS Tasks, Limits   \* connections; limits an operator may configure

\* what a module that instantiates this one assumes of the constants
PrequeueGateAssumption == Limits \subseteq Nat \ {0} /\ Limits # {}

VARIABLES
    available,  \* permits of the semaphore nobody has
    waiting,    \* tasks that wait for one, in order
    held,       \* tasks with a permit
    returning,  \* tasks whose permit is being dropped, after the look at the state
    limit,      \* PrequeueState::limit
    owed        \* PrequeueState::retire_on_drop

vars == <<available, waiting, held, returning, limit, owed>>

Smaller(i, j) == IF i < j THEN i ELSE j

IsWaiting(t) == \E i \in DOMAIN waiting : waiting[i] = t

Outside(t) == t \notin held \cup returning /\ ~IsWaiting(t)

\* The semaphore gives permits to those who wait first (external)
AddPermits(n) ==
    LET given == Smaller(n, Len(waiting)) IN
    /\ held' = held \cup {waiting[i] : i \in 1..given}
    /\ waiting' = SubSeq(waiting, given + 1, Len(waiting))
    /\ available' = available + (n - given)

\* from_request: a permit is waited for, with body and all ...
Acquire(t) ==
    /\ Outside(t)
    /\ IF available > 0
       THEN held' = held \cup {t} /\ available' = available - 1 /\ UNCHANGED waiting
       ELSE waiting' = Append(waiting, t) /\ UNCHANGED <<held, available>>
    /\ UNCHANGED <<returning, limit, owed>>

\* ... and one for a compaction is taken or not
TryAcquire(t) ==
    /\ Outside(t) /\ available > 0
    /\ held' = held \cup {t}
    /\ available' = available - 1
    /\ UNCHANGED <<waiting, returning, limit, owed>>

\* The client of a waiting request disconnects
Leave(t) ==
    /\ IsWaiting(t)
    /\ waiting' = RemoveFirst(waiting, t)
    /\ UNCHANGED <<available, held, returning, limit, owed>>

\* A slip: what cannot be forgotten at once is not remembered.
LowerAtOnce(new) ==
    LET reduction == limit - new IN
    /\ new < limit
    /\ available' = available - Smaller(reduction, available)
    /\ limit' = new
    /\ UNCHANGED <<waiting, held, returning, owed>>

\* set_limit, to a lower limit
Lower(new) ==
    LET reduction == limit - new
        retired   == Smaller(reduction, available)
    IN  /\ new < limit
        /\ available' = available - retired
        /\ owed' = owed + (reduction - retired)
        /\ limit' = new
        /\ UNCHANGED <<waiting, held, returning>>

\* set_limit, to a higher or the same one: debts are cancelled first
Raise(new) ==
    LET increase  == new - limit
        cancelled == Smaller(increase, owed)
    IN  /\ new >= limit
        /\ owed' = owed - cancelled
        /\ AddPermits(increase - cancelled)
        /\ limit' = new
        /\ UNCHANGED returning

\* Drop of a permit that pays a debt
Retire(t) ==
    /\ t \in held /\ owed > 0
    /\ held' = held \ {t}
    /\ owed' = owed - 1
    /\ UNCHANGED <<available, waiting, returning, limit>>

\* Drop of any other: the state is unlocked ...
Release(t) ==
    /\ t \in held /\ owed = 0
    /\ held' = held \ {t}
    /\ returning' = returning \cup {t}
    /\ UNCHANGED <<available, waiting, limit, owed>>

\* ... before the permit goes back
Return(t) ==
    /\ t \in returning
    /\ returning' = returning \ {t}
    /\ AddPermits(1)
    /\ UNCHANGED <<limit, owed>>

Init ==
    /\ limit \in Limits
    /\ available = limit
    /\ waiting = <<>> /\ held = {} /\ returning = {} /\ owed = 0

Next ==
    \/ \E t \in Tasks : \/ Acquire(t) \/ TryAcquire(t) \/ Leave(t)
                        \/ Retire(t) \/ Release(t) \/ Return(t)
    \/ \E new \in Limits : Lower(new) \/ Raise(new)

Spec == Init /\ [][Next]_vars

\* Requests end, if no client stalls them, and drops complete
Fairness == \A t \in Tasks : WF_vars(Retire(t) \/ Release(t)) /\ WF_vars(Return(t))

-----------------------------------------------------------------------------
(* Properties.                                                             *)

\* No reconfiguration loses or invents a permit, whoever holds, waits for or gives
\* back one at that moment: what is out and what is left is the limit and the debt.
PermitsBalance ==
    available + Cardinality(held) + Cardinality(returning) = limit + owed

=============================================================================
