----------------------------- MODULE Residency -----------------------------
(***************************************************************************)
(* ResidentEngine of crates/server/src/residency.rs: models are loaded     *)
(* when a request needs them, unloaded when another needs their room, and  *)
(* retired when their epoch is replaced, while sessions of theirs come and *)
(* go in other threads.                                                    *)
(*                                                                         *)
(* A step of a thread is one stretch with the lock of ResidencyState held, *)
(* or one of the atomic counter updates made without it.  Without GPU      *)
(* layers, so that a model takes host memory and storage and its measured  *)
(* profile is kept; the loader and the spill of an engine are external and *)
(* open.                                                                   *)
(***************************************************************************)
EXTENDS Integers, Sequences, FiniteSets, SequencesExt, FiniteSetsExt

CONSTANTS
    Threads,    \* worker threads that start and step sessions
    Keys,       \* (id, epoch) of the models in use
    Weight,     \* model_bytes of an id
    Context,    \* context_reserve_bytes
    Capacity,   \* host_bytes
    Storage,    \* storage_bytes
    Measured,   \* what a measurement may add to an estimate
    MaxLoads    \* bound: models ever loaded

\* what a module that instantiates this one assumes of the constants
ResidencyAssumption ==
    /\ IsFiniteSet(Threads) /\ IsFiniteSet(Keys)
    /\ Context \in Nat /\ Capacity \in Nat /\ Storage \in Nat /\ MaxLoads \in Nat
    /\ Measured \subseteq Nat
    /\ \A k \in Keys : k[1] \in DOMAIN Weight
    /\ \A id \in DOMAIN Weight : Weight[id] \in Nat

VARIABLES
    entries,   \* ResidencyState::entries: loaded model of each key, 0 if none
    models,    \* ResidentModels ever loaded (an Arc is its place)
    recent,    \* loaded models in the order of last_used
    profile,   \* catalog: measured bytes of an id, 0 if none
    thread,    \* what each thread does
    stray      \* history: a model was unloaded in the middle of a quantum

vars == <<entries, models, recent, profile, thread, stray>>

Idle == [pc |-> "idle", job |-> "none", key |-> <<>>, target |-> 0, victims |-> {}, bytes |-> 0]

Resident == {entries[k] : k \in Keys} \ {0}

-----------------------------------------------------------------------------
(* Budgets.                                                                *)

\* estimate: the profile of an earlier load, or the declared size
Estimate(key) == IF profile[key[1]] > 0 THEN profile[key[1]] ELSE Weight[key[1]] + Context

\* effective_point, once the contexts of `spilled` are too: a spilled context is in
\* storage
Memory(spilled) == [i \in DOMAIN models |->
    models[i].bytes - IF models[i].context_resident /\ i \notin spilled THEN 0 ELSE Context]
Weights == [i \in DOMAIN models |-> Weight[models[i].key[1]]]
Stored(spilled) == [i \in DOMAIN models |->
    Weights[i] + IF models[i].context_resident /\ i \notin spilled THEN 0 ELSE Context]

\* fits_with: a model of these bytes beside the ones kept, of which `spilled`
\* lose their contexts
Fits(key, bytes, kept, spilled) ==
    /\ bytes + MapThenSumSet(LAMBDA i : Memory(spilled)[i], kept) <= Capacity
    /\ Weight[key[1]] + MapThenSumSet(LAMBDA i : Stored(spilled)[i], kept) <= Storage

\* Models no session and no quantum uses
IsIdle(i) == models[i].active = 0 /\ models[i].sessions = 0

\* Idle models of a set
IdleAmong(set) == {i \in set : IsIdle(i)}

\* The models that may go for a load of a model: others, by id
IdleOthers(id) == IdleAmong({i \in Resident : models[i].key[1] # id})

WithContext(set) == {i \in set : models[i].context_resident}

\* The n of a set that were used least recently
Oldest(set, n) ==
    LET Since(i) == SelectInSeq(recent, LAMBDA j : j = i)
    IN  {i \in set : Cardinality({j \in set : Since(j) < Since(i)}) < n}

\* Contexts of idle models are spilled one after the other until `enough`, unless
\* an engine has nothing to spill (n is how many were)
SpillsUntil(enough(_), idle, n) ==
    /\ n <= Cardinality(WithContext(idle))
    /\ \A fewer \in 0..(n - 1) : ~enough(Oldest(WithContext(idle), fewer))

Spilled(set) == [i \in DOMAIN models |->
                   [models[i] EXCEPT !.context_resident = @ /\ i \notin set]]

\* The loaded models with i used last
Used(i) == Append(SelectSeq(recent, LAMBDA j : j \in Resident \ {i}), i)

Goto(t, pc) == thread' = [thread EXCEPT ![t].pc = pc]

\* A thread between acquire_entry and release_entry, and one that has a session
InQuantum(t) == thread[t].pc \in {"begin", "quantum", "release", "release_failed"}
HasSession(t) == thread[t].pc \in {"release", "released", "suspended", "quantum", "drop"}

\* Whether a removal by key takes out a model that is in a quantum
Strays ==
    stray' = (stray \/ \E t \in Threads : /\ InQuantum(t)
                                          /\ entries[thread[t].key] = thread[t].target
                                          /\ entries'[thread[t].key] # thread[t].target)

-----------------------------------------------------------------------------
(* load.                                                                   *)

\* start_session and prepare_model begin with a load
Request(t, key, job) ==
    /\ thread[t].pc = "idle"
    /\ thread' = [thread EXCEPT ![t] = [Idle EXCEPT !.pc = "look", !.job = job, !.key = key]]
    /\ UNCHANGED <<entries, models, recent, profile, stray>>

\* After a load, start_session acquires the model; prepare_model is done
Loaded(t, i) ==
    thread' = [thread EXCEPT ![t] =
                 IF @.job = "prepare" THEN Idle
                 ELSE [Idle EXCEPT !.pc = "acquire", !.job = "start", !.key = thread[t].key,
                                   !.target = i]]

\* The first look: the model is loaded, ...
LoadHit(t) ==
    /\ thread[t].pc = "look"
    /\ entries[thread[t].key] # 0
    /\ recent' = Used(entries[thread[t].key])
    /\ Loaded(t, entries[thread[t].key])
    /\ UNCHANGED <<entries, models, profile, stray>>

\* ... or its size is estimated
LoadMiss(t) ==
    /\ thread[t].pc = "look"
    /\ entries[thread[t].key] = 0
    /\ Weight[thread[t].key[1]] <= Storage \/ profile[thread[t].key[1]] > 0
    /\ thread' = [thread EXCEPT ![t] = [@ EXCEPT !.pc = "plan",
                                                !.bytes = Estimate(thread[t].key)]]
    /\ UNCHANGED <<entries, models, recent, profile, stray>>

\* Without room, idle models' contexts are spilled; then the fewest idle models
\* that make room are noted as victims, and the loader runs without the lock
LoadPlan(t, spills) ==
    LET key     == thread[t].key
        idle    == IdleOthers(key[1])
        spilled == Oldest(WithContext(idle), spills)
        enough(n) == Fits(key, thread[t].bytes, Resident \ Oldest(idle, n), spilled)
    IN  /\ thread[t].pc = "plan"
        /\ SpillsUntil(LAMBDA set : Fits(key, thread[t].bytes, Resident, set), idle, spills)
        /\ models' = Spilled(spilled)
        /\ \/ \E n \in 0..Cardinality(idle) :
                /\ enough(n)
                /\ \A fewer \in 0..(n - 1) : ~enough(fewer)
                /\ thread' = [thread EXCEPT ![t] = [@ EXCEPT !.pc = "load",
                                                            !.victims = Oldest(idle, n)]]
           \* no room, or a spill that fails
           \/ /\ ~enough(Cardinality(idle)) \/ spills < Cardinality(WithContext(idle))
              /\ thread' = [thread EXCEPT ![t] = Idle]
        /\ UNCHANGED <<entries, recent, profile, stray>>

\* The request is cancelled, the estimate or the load fails, or the model turns
\* out to be too large or below the competent floor
LoadFails(t) ==
    /\ thread[t].pc \in {"look", "load"}
    /\ thread' = [thread EXCEPT ![t] = Idle]
    /\ UNCHANGED <<entries, models, recent, profile, stray>>

\* The second look: another thread loaded the model meanwhile
InsertHit(t) ==
    /\ thread[t].pc = "load"
    /\ entries[thread[t].key] # 0
    /\ Loaded(t, entries[thread[t].key])
    /\ UNCHANGED <<entries, models, recent, profile, stray>>

\* A victim that may still go, as the second look sees it
StillVictim(i) == models[i].active = 0

\* Otherwise it is entered with what the load measured, if it still fits; the
\* victims are taken out by their keys
Insert(t, extra) ==
    LET key     == thread[t].key
        bytes   == thread[t].bytes + extra
        victims == {models[i].key : i \in thread[t].victims}
        gone    == {models[i].key : i \in {v \in thread[t].victims : StillVictim(v)}}
        kept    == {i \in Resident : models[i].key \notin victims \/ ~StillVictim(i)}
        i       == Len(models) + 1
    IN  /\ thread[t].pc = "load"
        /\ entries[key] = 0
        /\ Len(models) < MaxLoads
        /\ Fits(key, bytes, kept, {})
        /\ profile' = [profile EXCEPT ![key[1]] = bytes]
        /\ entries' = [k \in Keys |-> IF k = key THEN i ELSE IF k \in gone THEN 0 ELSE entries[k]]
        /\ models' = Append(models, [key |-> key, bytes |-> bytes, active |-> 0, sessions |-> 0,
                                     retiring |-> FALSE, context_resident |-> TRUE])
        /\ recent' = Used(i)
        /\ Loaded(t, i)
        /\ Strays

-----------------------------------------------------------------------------
(* Sessions and quanta.                                                    *)

\* acquire_entry finds the model gone: start_session loads again, a suspended
\* session's step fails
AcquireGone(t) ==
    /\ thread[t].pc \in {"acquire", "suspended"}
    /\ entries[thread[t].key] # thread[t].target
    /\ Goto(t, IF thread[t].pc = "acquire" THEN "look" ELSE "drop")
    /\ UNCHANGED <<entries, models, recent, profile, stray>>

\* A slip: the context is reloaded without asking for room.
RoomForContext(t, spilled) == TRUE

\* The context of the model is in memory, or fits once those are spilled
ContextFits(t, spilled) ==
    LET i == thread[t].target
    IN  models[i].context_resident
        \/ Fits(thread[t].key, models[i].bytes, Resident \ {i}, spilled)

\* acquire_entry: a spilled context is reloaded, and other idle models' contexts
\* are spilled for it
Acquire(t, spills) ==
    LET i       == thread[t].target
        idle    == IdleAmong(Resident \ {i})
        spilled == Oldest(WithContext(idle), spills)
    IN  /\ thread[t].pc \in {"acquire", "suspended"}
        /\ entries[thread[t].key] = i
        /\ SpillsUntil(LAMBDA set : ContextFits(t, set), idle, spills)
        /\ \/ /\ ContextFits(t, spilled)
              /\ models' = [Spilled(spilled) EXCEPT ![i].active = @ + 1,
                                                    ![i].context_resident = TRUE]
              /\ recent' = Used(i)
              /\ Goto(t, IF thread[t].pc = "acquire" THEN "begin" ELSE "quantum")
           \* nothing more to spill, or a spill that fails
           \/ /\ ~ContextFits(t, spilled)
              /\ models' = Spilled(spilled)
              /\ thread' = [thread EXCEPT ![t] = IF @.pc = "acquire" THEN Idle
                                                 ELSE [@ EXCEPT !.pc = "drop"]]
              /\ UNCHANGED recent
        /\ UNCHANGED <<entries, profile, stray>>

\* The engine starts the session: it is counted before the quantum is released;
\* or it does not
Begin(t) ==
    /\ thread[t].pc = "begin"
    /\ \/ /\ models' = [models EXCEPT ![thread[t].target].sessions = @ + 1]
          /\ Goto(t, "release")
       \/ /\ Goto(t, "release_failed")
          /\ UNCHANGED models
    /\ UNCHANGED <<entries, recent, profile, stray>>

\* The end of a quantum
Quantum(t) ==
    /\ thread[t].pc = "quantum"
    /\ Goto(t, "release")
    /\ UNCHANGED <<entries, models, recent, profile, stray>>

\* release_entry, before it takes the lock
Release(t) ==
    /\ thread[t].pc \in {"release", "release_failed"}
    /\ models' = [models EXCEPT ![thread[t].target].active = @ - 1]
    /\ Goto(t, IF thread[t].pc = "release" THEN "released" ELSE "dropped")
    /\ UNCHANGED <<entries, recent, profile, stray>>

\* ResidentSession::drop, before it takes the lock
DropSession(t) ==
    /\ thread[t].pc \in {"suspended", "drop"}
    /\ models' = [models EXCEPT ![thread[t].target].sessions = @ - 1]
    /\ Goto(t, "dropped")
    /\ UNCHANGED <<entries, recent, profile, stray>>

\* A slip: only the end of a quantum looks, not the end of a session.
RemoveAfterQuantum(t) ==
    LET i == thread[t].target IN
    /\ thread[t].pc \in {"released", "dropped"}
    /\ entries' = [entries EXCEPT ![models[i].key] =
                     IF thread[t].pc = "released" /\ models[i].retiring /\ IsIdle(i)
                     THEN 0 ELSE @]
    /\ thread' = [thread EXCEPT ![t] =
                    IF @.pc = "released" THEN [@ EXCEPT !.pc = "suspended"] ELSE Idle]
    /\ Strays
    /\ UNCHANGED <<models, recent, profile>>

\* release_entry and ResidentSession::drop with the lock: the last user of a
\* retiring model removes what has its key
RemoveIfDrained(t) ==
    LET i == thread[t].target IN
    /\ thread[t].pc \in {"released", "dropped"}
    /\ entries' = [entries EXCEPT ![models[i].key] =
                     IF models[i].retiring /\ IsIdle(i) THEN 0 ELSE @]
    /\ thread' = [thread EXCEPT ![t] =
                    IF @.pc = "released" THEN [@ EXCEPT !.pc = "suspended"] ELSE Idle]
    /\ Strays
    /\ UNCHANGED <<models, recent, profile>>

-----------------------------------------------------------------------------
(* Retirement, by the model lifecycle.                                     *)

\* Entries of these keys are marked, and removed if nobody uses them
Retire(keys) ==
    /\ models' = [i \in DOMAIN models |->
                    IF i \in {entries[k] : k \in keys} THEN [models[i] EXCEPT !.retiring = TRUE]
                    ELSE models[i]]
    /\ entries' = [k \in Keys |-> IF k \in keys /\ entries[k] # 0 /\ IsIdle(entries[k])
                                  THEN 0 ELSE entries[k]]
    /\ UNCHANGED <<recent, profile, thread, stray>>

\* commit_model: retire_other_epochs
CommitModel(key) == Retire({k \in Keys : k[1] = key[1] /\ k[2] # key[2]})

\* retire_model
RetireModel(key) == Retire({key})

-----------------------------------------------------------------------------
Init ==
    /\ entries = [k \in Keys |-> 0]
    /\ models = <<>>
    /\ recent = <<>>
    /\ profile = [id \in DOMAIN Weight |-> 0]
    /\ thread = [t \in Threads |-> Idle]
    /\ stray = FALSE

Work(t) ==
    \/ LoadHit(t) \/ LoadMiss(t) \/ LoadFails(t) \/ InsertHit(t)
    \/ \E n \in 0..Cardinality(Keys) : LoadPlan(t, n) \/ Acquire(t, n)
    \/ \E extra \in Measured : Insert(t, extra)
    \/ AcquireGone(t) \/ Begin(t) \/ Quantum(t) \/ Release(t) \/ RemoveIfDrained(t)

Next ==
    \/ \E t \in Threads :
         \/ \E key \in Keys : Request(t, key, "start") \/ Request(t, key, "prepare")
         \/ Work(t)
         \/ DropSession(t)
    \/ \E key \in Keys : CommitModel(key) \/ RetireModel(key)

Spec == Init /\ [][Next]_vars

-----------------------------------------------------------------------------
(* Properties.                                                             *)

\* The configured budget of memory holds for everything resident, and the models
\* themselves stay within the budget of storage: a spilled context may exceed it, since
\* nothing asks for its room.  Once a model has been unloaded in the middle of a
\* quantum, a victim may be left out of the count and stay.
WithinBudgets ==
    stray \/ /\ MapThenSumSet(LAMBDA i : Memory({})[i], Resident) <= Capacity
             /\ MapThenSumSet(LAMBDA i : Weights[i], Resident) <= Storage

\* A model in the middle of a quantum is resident under its key.  The exception:
\* victims and drained models are taken out by key, which may take out a later
\* model of the key.
QuantumIsResident ==
    \A t \in Threads : InQuantum(t) =>
        \/ entries[thread[t].key] = thread[t].target
        \/ stray /\ \E j \in 1..(thread[t].target - 1) : models[j].key = thread[t].key

\* Whatever is loaded, measured, spilled and reloaded concurrently, the budgets hold
\* at every moment, and a thread runs its quantum on a model that is still resident,
\* up to what the removal of victims by their keys (load) may do to a later model.
BudgetsHold == WithinBudgets /\ QuantumIsResident

\* The counters that decide about unloading are exact: quanta and sessions.
CountsExact ==
    \A i \in DOMAIN models :
        /\ models[i].active = Cardinality({t \in Threads : thread[t].target = i /\ InQuantum(t)})
        /\ models[i].sessions =
             Cardinality({t \in Threads : thread[t].target = i /\ HasSession(t)})

\* A retired model does not stay resident unused: the counts of sessions and quanta
\* are the threads that have them, and a retiring entry without any is about to be
\* removed, because the last of its users has still to take the lock and look
\* (release_entry, ResidentSession::drop).
RetiredIsDrained ==
    /\ CountsExact
    /\ \A i \in Resident : models[i].retiring /\ IsIdle(i) =>
          \E t \in Threads : thread[t].target = i /\ thread[t].pc = "dropped"

=============================================================================
