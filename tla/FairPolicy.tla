----------------------------- MODULE FairPolicy -----------------------------
(***************************************************************************)
(* The deficit round robin of the workload scheduler: FairPolicy of        *)
(* crates/server/src/scheduler.rs, with the calls the scheduler thread     *)
(* makes of it in handle_command, dispatch_one and handle_completion.      *)
(* Scheduler.tla lets any head of a flow be chosen; here the choice is     *)
(* made.                                                                   *)
(*                                                                         *)
(* `round` is kept as the age of each job in rounds, up to the age that    *)
(* promotes no further. The worker thread of a slot may fail to start; a   *)
(* worker that runs never stops by itself, so a send to it does not fail.  *)
(***************************************************************************)
EXTENDS Integers, Sequences, FiniteSets, FiniteSetsExt, SequencesExt

CONSTANTS
    Jobs, Flows,
    FlowOf,           \* principal and class of a job
    SlotOf,           \* the model slot it runs on
    ClassOf,          \* of a flow: 0 interactive, 1 standard, 2 batch
    Weight,           \* of a class, times deficit_refill
    PromotionRounds,  \* config.promotion_rounds
    Charges,          \* tokens a quantum may evaluate
    None,             \* no deficit
    Floor             \* bound: below it a quantum evaluates one token only

\* what a module that instantiates this one assumes of the constants
FairPolicyAssumption ==
    /\ FlowOf \in [Jobs -> Flows] /\ ClassOf \in [Flows -> 0..2]
    /\ Weight \in [0..2 -> Nat \ {0}] /\ PromotionRounds \in Nat \ {0}
    /\ Charges \subseteq Nat /\ None \notin Int

VARIABLES
    runnable,  \* FairPolicy::runnable
    flying,    \* jobs in flight: the charge_scale of each (0: not selected), or None
    slots,     \* slots with a worker
    busy,      \* slots that are busy
    waiting,   \* jobs that wait for their consumer
    deficits,  \* FairPolicy::deficits
    age,       \* rounds since admission
    cursor,
    left       \* history: flows whose last job ended because its slot did not start

vars == <<runnable, flying, slots, busy, waiting, deficits, age, cursor, left>>

InQueue == {runnable[i] : i \in DOMAIN runnable}
InFlight == {j \in Jobs : flying[j] # None}
Alive == InQueue \cup InFlight \cup waiting

\* The age that promotes j no further
Oldest(j) == ClassOf[FlowOf[j]] * PromotionRounds

-----------------------------------------------------------------------------
(* FairPolicy.                                                             *)

\* effective_class and weight: every promotion_rounds a job moves up one class
Credit(j) ==
    LET promotions == age[j] \div PromotionRounds
        class      == ClassOf[FlowOf[j]]
    IN  Weight[IF promotions > class THEN 0 ELSE class - promotions]

Available(j) == SlotOf[j] \notin busy

\* The first available entry of each flow
Heads ==
    {i \in DOMAIN runnable :
        /\ Available(runnable[i])
        /\ \A k \in 1..(i - 1) :
              FlowOf[runnable[k]] = FlowOf[runnable[i]] => ~Available(runnable[k])}

DeficitOf(f) == IF deficits[f] = None THEN 0 ELSE deficits[f]

\* A slip: a flow without deficit starts at zero and is not refilled again.
RefilledOnce(i) ==
    LET f == FlowOf[runnable[i]]
    IN  IF deficits[f] = None THEN Credit(runnable[i]) ELSE deficits[f]

\* The deficit of a head in this round
Refilled(i) ==
    Min({DeficitOf(FlowOf[runnable[i]]) + Credit(runnable[i]), 8 * Credit(runnable[i])})

Eligible == {i \in Heads : \A k \in Heads : Refilled(k) <= Refilled(i)}

\* select: the largest deficit wins, a cursor decides among equals; the entry leaves
\* the queue, and the jobs that go on are a round older
Selected(i, going) ==
    /\ i \in Eligible
    /\ Cardinality({k \in Eligible : k < i}) = cursor % Cardinality(Eligible)
    /\ cursor' = (cursor + 1) % Cardinality(Eligible)
    /\ deficits' = [f \in Flows |->
                      IF \E k \in Heads : FlowOf[runnable[k]] = f
                      THEN Refilled(CHOOSE k \in Heads : FlowOf[runnable[k]] = f)
                      ELSE deficits[f]]
    /\ runnable' = SubSeq(runnable, 1, i - 1) \o SubSeq(runnable, i + 1, Len(runnable))
    /\ age' = [j \in Jobs |-> IF j \in going THEN Min({age[j] + 1, Oldest(j)}) ELSE 0]

TotalCredit ==
    LET credits == [i \in Heads |-> Credit(runnable[i])]
    IN  MapThenSumSet(LAMBDA i : credits[i], Heads)

\* charge, of a quantum that was selected
Charged(j, tokens) ==
    IF flying[j] = 0
    THEN deficits
    ELSE [deficits EXCEPT ![FlowOf[j]] = DeficitOf(FlowOf[j]) - Max({tokens, 1}) * flying[j]]

\* clear_if_idle
ClearedIfIdle(table, f, alive) ==
    IF \E j \in alive : FlowOf[j] = f THEN table ELSE [table EXCEPT ![f] = None]

-----------------------------------------------------------------------------
(* The scheduler thread.                                                   *)

\* dispatch_one, onto a worker that is there or that starts
Dispatch ==
    \E i \in DOMAIN runnable :
        /\ Selected(i, Alive)
        /\ flying' = [flying EXCEPT ![runnable[i]] = TotalCredit]
        /\ busy' = busy \cup {SlotOf[runnable[i]]}
        /\ slots' = slots \cup {SlotOf[runnable[i]]}
        /\ UNCHANGED <<waiting, left>>

\* dispatch_one, of a slot whose worker cannot be spawned: its job ends, and
\* clear_if_idle is not called
DispatchSpawnFails ==
    \E i \in DOMAIN runnable :
        LET j == runnable[i] IN
        /\ SlotOf[j] \notin slots
        /\ Selected(i, Alive \ {j})
        /\ left' = IF \E k \in Alive \ {j} : FlowOf[k] = FlowOf[j]
                   THEN left ELSE left \cup {FlowOf[j]}
        /\ UNCHANGED <<flying, slots, busy, waiting>>

\* The loop takes the next event when dispatch_one finds nothing to select
Idle == Heads = {}

Submit(j) ==
    /\ Idle
    /\ j \notin Alive
    /\ runnable' = Append(runnable, j)
    /\ age' = [age EXCEPT ![j] = 0]
    /\ left' = left \ {FlowOf[j]}
    /\ UNCHANGED <<flying, slots, busy, waiting, deficits, cursor>>

\* retire_slot_if_idle
RetiredIfIdle(slot, alive) ==
    IF \E j \in alive : SlotOf[j] = slot THEN slots ELSE slots \ {slot}

\* A quantum ends: the job runs on, waits for its consumer, or has ended
Complete(j, tokens) ==
    /\ Idle
    /\ j \in InFlight
    /\ tokens > 1 => DeficitOf(FlowOf[j]) - tokens * flying[j] >= Floor
    /\ flying' = [flying EXCEPT ![j] = None]
    /\ busy' = busy \ {SlotOf[j]}
    /\ \/ /\ flying[j] # 0
          /\ runnable' = Append(runnable, j)
          /\ deficits' = Charged(j, tokens)
          /\ UNCHANGED <<waiting, slots, age>>
       \/ /\ flying[j] # 0
          /\ waiting' = waiting \cup {j}
          /\ deficits' = Charged(j, tokens)
          /\ UNCHANGED <<runnable, slots, age>>
       \/ /\ deficits' = ClearedIfIdle(Charged(j, tokens), FlowOf[j], Alive \ {j})
          /\ age' = [age EXCEPT ![j] = 0]
          /\ slots' = RetiredIfIdle(SlotOf[j], Alive \ {j})
          /\ UNCHANGED <<runnable, waiting>>
    /\ UNCHANGED <<cursor, left>>

\* Command::Continue
Continue(j) ==
    /\ Idle
    /\ j \in waiting
    /\ waiting' = waiting \ {j}
    /\ runnable' = Append(runnable, j)
    /\ UNCHANGED <<flying, slots, busy, deficits, age, cursor, left>>

\* Command::Stop: the session's finish is sent to its slot, busy or not.  The slot
\* has a worker, because the job has run there and has not ended (StartedHaveWorkers).
Stop(j) ==
    /\ Idle
    /\ j \in waiting
    /\ waiting' = waiting \ {j}
    /\ flying' = [flying EXCEPT ![j] = 0]
    /\ busy' = busy \cup {SlotOf[j]}
    /\ UNCHANGED <<runnable, slots, deficits, age, cursor, left>>

\* Command::Cancel, of a job that is not in flight; remove takes its one entry
CancelJob(j) ==
    /\ Idle
    /\ j \in InQueue \cup waiting
    /\ runnable' = RemoveFirst(runnable, j)
    /\ waiting' = waiting \ {j}
    /\ deficits' = ClearedIfIdle(deficits, FlowOf[j], Alive \ {j})
    /\ age' = [age EXCEPT ![j] = 0]
    /\ UNCHANGED <<flying, slots, busy, cursor, left>>

Init ==
    /\ runnable = <<>>
    /\ flying = [j \in Jobs |-> None]
    /\ slots = {}
    /\ busy = {}
    /\ waiting = {}
    /\ deficits = [f \in Flows |-> None]
    /\ age = [j \in Jobs |-> 0]
    /\ cursor = 0
    /\ left = {}

Next ==
    \/ Dispatch \/ DispatchSpawnFails
    \/ \E j \in Jobs : \/ Submit(j) \/ Continue(j) \/ Stop(j) \/ CancelJob(j)
                       \/ \E tokens \in Charges : Complete(j, tokens)

Spec == Init /\ [][Next]_vars

\* The thread dispatches while it can, and every quantum ends: its completion is
\* handled in its turn, because events are taken in the order they were sent
Fairness ==
    /\ WF_vars(Dispatch \/ DispatchSpawnFails)
    /\ \A j \in Jobs : SF_vars(\E tokens \in Charges : Complete(j, tokens))

-----------------------------------------------------------------------------
(* Properties.                                                             *)

\* A deficit, owed or saved, lasts as long as its flow has a job: a flow that comes
\* back later starts anew, however its jobs completed or were cancelled.  One way to
\* end clears nothing: a dispatch whose worker cannot be spawned leaves the deficit of
\* its flow, if that was its last job, to whoever is of that flow next.
DeficitsOfTheLiving ==
    \A f \in Flows : deficits[f] # None => f \in left \/ \E j \in Alive : FlowOf[j] = f

\* A job that has run and has not ended finds the worker of its slot, whichever jobs
\* of the slot ended in between (retire_slot_if_idle): Stop, which sends to it without
\* selection and ends the job without clear_if_idle if it cannot, can.
StartedHaveWorkers == \A j \in InFlight \cup waiting : SlotOf[j] \in slots

=============================================================================
