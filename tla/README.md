# A verification project for cusco

cusco is a local inference daemon written in Rust: an HTTP server admits
requests, a workload scheduler interleaves them quantum by quantum on model
slots, an engine shares evaluated prefixes between them, and a memory manager
keeps the physical state of those prefixes on the device, in host memory or in
storage. Models, contexts and responses outlive requests, some of them the
process. This directory models the parts that keep state, in TLA+; TLC checks
the models on small instances and TLAPS proves theorems about them for every
instance. Paths are relative to the repository (`crates/server/src/scheduler.rs`
is written `scheduler.rs`, `crates/server/src/lib.rs` is written `lib.rs`).

## Inventory

| Component | State | Operations | Talks to | What is hard |
|---|---|---|---|---|
| Workload scheduler, `scheduler.rs` | job table, runnable queue, slots and their workers, counters | client: start, step, finish, drop; loop: Submit, Continue, Stop, Cancel, Shutdown, completions, dispatch; worker: run a quantum | clients and workers, by channels only | commands and completions interleave; cancel races a completion; join inside the loop; shutdown with work in flight |
| Fair policy, `scheduler.rs` | deficits, cursor, ages | enqueue, select, charge, remove, clear | called by the scheduler | signed arithmetic of deficits; starvation |
| Scheduler diagnostics, `scheduler.rs` | bounded channel, counters, losses not yet reported | emit, loss summary, sink, flush | scheduler thread, a thread of its own | a step and its count are two steps |
| Request admission, `lib.rs` | `active`, limit, queue and its bytes, controls, pending cancellations | reserve, try, promote, release, cancel, set limit, shut down | tasks share one mutex, and a oneshot channel per waiting request | state read before an await and used after it; receiver dropped before the guard |
| Pre-queue gate, `lib.rs` | semaphore, limit, owed retirements | acquire, set limit, drop | HTTP handlers | limit lowered while permits are out |
| Request control, `lib.rs` | state, abort hook; the executor's abort flag | cancel, expire, complete, register abort | scheduler, watchdogs, executor | a stop races the registration of the hook and the reset of the flag |
| Contexts and compaction declarations, `lib.rs` | records by id and revision, declarations | create, branch, import, delete, commit after inference, declare, revoke | inference, engine | a context read before inference is written after it |
| Context strategy, `context_strategy.rs` | none: turns and anchors of a token sequence | window_tail | contexts | what repeated compaction of a growing context keeps |
| Physical manager, `crates/physical-manager` | representations, copies per tier, four reference counts, bindings, block tables, transitions, transfers, growth | register, prepare, complete, commit, abort, unbind, demote, evict, reserve | called by the mapped engine | transfers outlive their transition; evictions between plan and use |
| Context store, `crates/context-store` | persistent token sequences; contexts, mappings, reference counts, epochs | append, prefix, branch, prepare and commit a publication, release, reclaim | called by the mapped engine | shared chunks; publications prepared against a state that has gone |
| Mapped engine, `mapped.rs` | sessions, published mappings, spill files | start, quantum, publish, restore, spill | context store, physical manager, executor | the lock is released between quanta; error paths between two stores |
| Executor, `crates/executor`, `native/shim` | mappings, handles, one native sequence | fork, commit, import, activate, decode, drop | mapped engine, llama.cpp | many mappings lease one native state; an interrupted decode |
| Model residency, `residency.rs` | resident models, sessions, budgets, recency | load in two phases, suspend, resume, spill, retire | lifecycle, scheduler, executor | lock released during a load |
| Model lifecycle and catalog, `lifecycle.rs`, `catalog.rs`, start of `cli/src/main.rs` | models, aliases, next epoch, SQLite rows, pulls | register, alias, remove, pull, recover | residency, registry | failure or crash between any two of four stores |
| Model registry, `crates/model-registry` | download cache: references, partial files, stamps | resolve, fetch, resume, verify | lifecycle | a download ends at any byte |
| Response store and context updates, `response_store.rs`, `context_updates.rs` | files and their memory image, lineages, transient responses | put, put successor, delete, prune, recover | responses API | races, crash, failed sync |
| Response stream, `lib.rs`, `responses.rs` | channel, projection, rows | send, receive, project, finish | inference thread, client | a full channel, a client that is gone, exactly one end |
| Generation frontier, `generation.rs` | bytes held back, stops, boundaries | push a token, finish | inference | tokens cut characters and stops anywhere |

The properties that make each correct: the scheduler keeps each session in one
place, tells each client its end once, and never blocks for ever, and the policy
starves no job of a slot; admission and the gate never lose a slot, a permit or a waiter; a
stop reaches the decode it is for; the manager counts owners exactly, reclaims
nothing that is owned and never overflows a tier; a session continues exactly its
own tokens whoever used the native state in between; the stores (context,
response, catalog, cache) apply nothing stale and recover to a state some
sequence of complete operations produces; residency unloads nothing in a quantum
and keeps its budget; what a client reads is what was generated. `PROJECT.json`
lists the places where each could go wrong ("hazards").

## Plan

Everything on the plan of models is done: `Scheduler`, `Admission`,
`PhysicalManager`, `FairPolicy`, `Residency`, `ContextStore` with
`TokenSequence`, `ResponseStore` with `ResponseStream`, `Lifecycle` with the
catalog, `PrequeueGate`, `RequestControl`, `MappedEngine` with `Executor`,
`ModelFetch`, `Diagnostics`, the generation frontier and the context window.

Proved, in this order: the scheduler; request admission; the physical manager;
the executor's refinement, and on it the mapped engine; the gate, the policy, the
stops and the stream of what serves a request; the diagnostics, the download cache,
the served models and the resident models of what an operator relies on; stored
responses, contexts and declarations of what clients refer to later; the rows of the
responses API; the context store (see Proofs). What stays model-checked is there
too, and why.

## Modules

| Module | What it is |
|---|---|
| `Scheduler` | the scheduler: state, actions, specification, properties |
| `SchedulerInvariant`, `SchedulerProofs` | the inductive invariant `Core`; theorems and proofs |
| `MCScheduler` | instances for TLC |
| `Admission`, `MCAdmission` | request admission and its instances |
| `MCTurns` | instances of it (which it extends), of the gate and of the policy, under fairness |
| `PhysicalManager`, `MCPhysicalManager` | the physical manager and its instances |
| `PlainTokens` | abstract: what a persistent token sequence promises |
| `TokenSequence` | chunked sequences; refines `PlainTokens` |
| `ContextStore` | contexts, mappings, publications |
| `MCStorage` | instances of `TokenSequence` and `ContextStore` (which it extends) |
| `NativeMappings` | abstract: mappings with a native sequence each |
| `Executor` | mappings that lease one native sequence; refines `NativeMappings` |
| `MappedEngine` | sessions, quanta, publication, spill |
| `MCEngine` | instances of `Executor` (which it extends), `MappedEngine` and `PhysicalManager` |
| `ResponseStore` | stored responses, crash and restart |
| `Contexts` | context records and compaction declarations, on `WindowTail` |
| `WindowTail`, `CompactedContext` | the strategy, and a context compacted again and again |
| `GenerationFrontier` | bytes into text |
| `MCResources` | instances of the four above |
| `ModelFetch` | the download cache |
| `Lifecycle` | models served, prepared, catalogued; pulls |
| `Residency` | models loaded |
| `Diagnostics` | the records of the scheduler |
| `MCOperations` | instances of the four above (it extends `Residency`) |
| `PrequeueGate`, `FairPolicy`, `RequestControl`, `ResponseStream` | as named |
| `MCServing` | instances of them and of `MappedEngine`; the last three under fairness |
| `Sums` | lemmas about sums over finite sets and about counting |
| `AdmissionProofs` | theorems and proofs about `Admission` |
| `StorageProofs` | about `PhysicalManager` and `ContextStore` |
| `EngineProofs` | about `Executor`, and about `MappedEngine` in the specification of `MCEngine` |
| `ServingProofs` | about the gate, the policy, the stops and the stream, in the specification of `MCServing` |
| `OperationsProofs` | about the four components of `MCOperations`, in its specification |
| `ResourcesProofs` | about `ResponseStore` and `Contexts`, in the specification of `MCResources` |

`MCTurns`, `MCStorage`, `MCEngine`, `MCResources`, `MCOperations` and `MCServing` hold
several components each. They do not interact
there: a variable `part` says which one is at work, and the others keep their
initial values. One run then asks one kind of question of everything that has to
answer it, and a part is checked by itself when `Parts` in the cfg has one member.
The assumptions on the constants of such a component are an operator of it
(`StoreAssumption`, ...) that the MC module assumes of each instance.

Operators commented "A slip:" are plausible mistakes in the operator that
follows; they are used by no specification. Each property of a passing run has
one that violates it ("mutants" in `PROJECT.json`), so none holds for want of
behaviour.

### Scheduler

The threads of `scheduler.rs` share only channels, so every handler of the
scheduler thread is one action, whatever it sends.

| State | Code |
|---|---|
| `events` | the channel of `SchedulerEvent` |
| `jobs`, `holds`, `inFlight`, `cancelRequested` | the job table; `holds` says whether a `Job` has its request, its engine session, or neither because a worker has it |
| `runnable` | `FairPolicy::runnable` |
| `slots`, `busy`, `tasks` | `SlotWorker`s, their `busy` flag and task channel |
| `waiting` | `SchedulerCounters::waiting` |
| `chan`, `pc` | a session's response channel, and where its owner is in the `generate` loop |
| `phase` | where `run_scheduler` is |
| `quanta` | external: how long an engine session may still run |

`StartSession`, `Step`, `Finish`, `Receive` and `Drop` are the methods of
`SchedulerClientSession`; `HandleSubmit`, `HandleContinue`, `HandleStop` and
`HandleCancel` the arms of `handle_command`; `HandleCompletion` is
`handle_completion` (an ending, a token, or progress); `Dispatch` is one round of
`dispatch_one`, `DispatchSpawnFails` the round in which the worker cannot be
spawned; `RunTask` is a worker's turn, whose result the engine chooses (a panic
is caught there and is an error). A job is the id of its session: the code
never reuses an id. The choice of the deficit round robin is any flow's first
available entry, which is the part of it the properties here depend on.

One thing the code does that the model keeps: `Stop` hands the session to the
worker without looking at `busy`, so two tasks may queue and `busy` may be false
while a worker runs. `OneOwner` and `ShutdownCompletes` hold all the same.

### FairPolicy and Diagnostics

`FairPolicy` makes the choice `Scheduler` leaves open: `Selected` is `select` (every
head of a flow is refilled by its credit, up to eight credits, the largest deficit
wins, a cursor decides among equals, and waiting promotes by age), `Complete`
charges what a quantum really evaluated, `ClearedIfIdle` is `clear_if_idle`.
Rounds are kept as ages, up to the age that promotes no further; `Floor` bounds
the debt a charge of more than one token may leave. The scheduler takes an event
only when `dispatch_one` has nothing left to select (`Idle`).

A job may end without `clear_if_idle` in two places of the code. One is
`DispatchSpawnFails`: the worker of the slot cannot be spawned, the job is removed,
and the deficit of its flow stays (`scheduler.rs:858`); `left` is a history variable,
the flows whose last job ended so. The other is the error path of `Stop`
(`scheduler.rs:942-953`), which no action has, because it cannot be reached: a job
that is stopped has run, its slot has a worker then, and `retire_slot_if_idle` does
not end that worker before the last job of the slot. `slots` is there to show it
(`StartedHaveWorkers`, part of `AccountsBalance`). A worker that runs returns from its
loop only when told to, so a send to it does not fail either.

`Diagnostics` has an action for each step another thread
may come in between: the send and the count of a record, the send, count and
reset of a loss summary, the write and its count, and the two looks of a flush.

### Admission and PrequeueGate

Each step of `Admission` is one critical section of `Server::inner`, or one step
of a request's task outside it. `Arrive` is the locked part of
`reserve_admission` and `try_admit`; `Poll` is the task resumed by its channel;
`Timeout` its deadline; `Disconnect` the drop of its future; after the last two
the receiver is gone and the `AdmissionGuard` is not yet dropped
(`pc = "leaving"`), which other tasks can observe; `DropGuard` is
`release_or_cancel_admission`. `Promote` is `promote_queued`, part of every action
that calls it. `phantom` is a history variable: it counts the slots given back
that nobody held (see Findings).

`PrequeueGate` has tokio's semaphore (external, first in first out) as free
permits and a queue. `Lower` and `Raise` are the two halves of `set_limit`;
dropping a permit is two steps, as in the code: `Retire` or `Release` looks at
the debt under the lock, `Return` gives the permit back after it.

### RequestControl

`Stop` changes the state, `CloneHook` takes what is registered, `RunHook` sets
the executor's flag, each without the engine's lock. `Lock`, `QuantumStep` and
`DecodeEnds` are a quantum: take the lock, register the hook, check the state,
reset the flag, evaluate until done or aborted, unregister.

### TokenSequence and ContextStore

A reference to a chunk is its place in `heap`; SHA-256 is external and taken to
be injective, so a hash state is the tokens hashed so far. `AppendTokens` and
`Prefix` fill, share and cut chunks as the code does. `ImplementsPlain` is the
refinement: with `plain` mapped to the tokens read back, every step is a step of
`PlainTokens`. `ContextStore` then has plain sequences; its `publications` are the
`PreparedPublication`s that callers hold. `PreparePublication` and
`CommitPublication` are separate actions with anything in between; `Reclaim`
follows dependencies up a lineage.

### Executor and MappedEngine

`Executor` keeps what the shim keeps: which mapping is active, saved states,
positions, reference counts that Rust handles of any thread move, prepared forks.
`ImplementsMappings` maps it to `NativeMappings`: the contents of a mapping are
the native state if it is active and its saved state otherwise, and a state whose
length is not its position reads as garbled. `MappedEngine` stands on
`NativeMappings`' promise. A quantum is one action (`Prefill` or
`DecodeToken` with the publication of a block it completes, or the end of the
session), since the code holds the lock of `MappedState`; a spill goes file by
file and keeps the same lock to its end. A preparation fails before anything was
restored (`PrepareFails`) or after it, when what was activated cannot be forked
(`ForkFails`). A logical mapping
is named by its tokens, and whether the physical manager finds room is open.

### PhysicalManager

The manager is sequential: its hazards are long sequences of legal calls.
Representations are numbered by registration, so that ids, clock and `last_used`
need no counters of their own; transitions and growth reservations reuse ids from
a pool. `EvictInVain`, `RegisterFails`, `PrepareFails` and `ArrivalFails` are the
calls that fail after they evicted something; calls refused without a change are
stuttering. `Rounds` and `Victims` define what the eviction loop has removed by
the order it removes in, not by recursion.

### Contexts, WindowTail, GenerationFrontier

An inference reads a context, works without the lock, and writes the successor if
the revision is still the one it read (`Unchanged`), or fails; a token stands for
what one request added. Declarations have a limit, a lifetime and a rate per
principal; `creationTimes` holds the declarations whose times the code holds, so
that two of the same millisecond count twice. The code reads the clock before it
takes the lock of the declarations; the model reads it with the lock.
`WindowTail` is the selection of turns as operators; `CompactedContext`
applies it to a context that grows. `GenerationFrontier` takes bytes that are a
letter, a space or half a character, in every cut into tokens; `sampled` and
`ends` are history variables that the text and the alignment are compared with.

### ResponseStore and ResponseStream

A worker reads a lineage response by response, generates and publishes: checks in
memory, writes beside, renames, synchronises, inserts. `Restart` rebuilds memory
from the files, and undoes any part of what was not synchronised; `syncFails` says
whether a directory may fail to be synchronised, and never changes. `acked` is a
history variable: responses reported as stored. `ResponseStream` is one request
in each of the protocols: the inference thread (`Produce`) sends deltas and an end
into a bounded channel, the connection (`Serve`) makes rows of them, projects the
Responses events, remembers the response and sends the last row; the client may
go away and deadlines may fire at any point. `Generate` and `SendDelta` are two steps,
and between them the thread is inside `blocking_send` (`producer = "sending"`): it
waits for room or for the receiver to be dropped, and neither fails nor looks at its
control (`Held`).

### Lifecycle, ModelFetch, Residency

`Lifecycle` has four stores: catalog rows, operations of pulls, models served in
memory, and epochs the engine has prepared. Every step that may fail has a failing
twin, and `Crash` keeps only the first two. `task` is what the operation that holds
the lock has in its variables. The record of a failed pull may fail too
(`PullUnrecorded`). `RegisterFromCatalog` and `RegisterDeclared` are the start of the daemon; `todo` is what it has still to register: models of the catalog,
taken in the order of the ids, and how many of user.yaml are done. `ModelFetch` has
names that refer to inodes, because a file that is open is written after its name
has changed. A step of a thread in `Residency` is a stretch under the lock or one
atomic counter update; a load releases the lock between the choice of its victims
and their removal. `Oldest` are the idle models that `last_used` puts first. `stray`
is a history variable: it says whether a removal by key has taken out a model in the
middle of a quantum (see Findings), after which the budgets may count a model too
few.

## Runs

| Run | Instance | Shows |
|---|---|---|
| `scheduler` | 2 sessions at a time: of 2 flows on one slot, 2 quanta each; or of one flow on 2 slots, up to one quantum | `OneOwner`, `WaitingIsExact`, `NoLostWakeup`, `Backpressure`, `TerminalIsLast`, `CancelWins`, every receive returns (`RecvReturns`), and shutdown completes (`ShutdownCompletes`), on one slot whose `busy` a `Stop` made inaccurate and with two workers running at once |
| `admission` | 3 queueing requests of sizes 1, 1 and 2, one update, limits 1 and 2, queue of 2 entries and 3 bytes | counters are exact (`AccountsExact`), nobody waits while a slot is free and no turn is lost (`TurnsAreKept`) |
| `turns` | gate: 3 connections, limits 1 to 3. admission: 2 queueing requests and one update. policy: 3 jobs of 3 flows, one of them standard, on one slot, without consumers to wait for | `PromotionIsFifo`, `CancelledNeverStarts`, `NobodyWaitsForever` |
| `admission_limit` | the same, limit 1 | expected violation, see Findings |
| `physical_pair` | 3 representations of 2 components and of sizes 1 and 2, 2 contexts, one transition and one growth; device of 3 and host of 1, too small for all | `TiersHold`, `CountsAreExact`, `OwnedCopiesStay`, with every call that fails for want of room |
| `physical_hard` | 2 representations of one component, 2 contexts, 2 transitions, one growth; device of 3, host of 2 | expected violation, see Findings |
| `storage` | tokens: 2 sequences of up to 3 tokens in chunks of 2. store: 2 contexts of up to 2 tokens, 2 publications outstanding. epochs: 1 context, 2 epochs, 3 kinds of mapping | `SequencesImplementPlain` (refinement), `KeysAreOfTokens`, `StoreIsConsistent` |
| `engine` | native: 2 mappings with 2 handles each, states of up to 2 tokens. mapped: 2 sessions, prompts that share a block and part, spill directory of 4. physical: 2 mappings of sizes 1 and 2, 2 contexts, 2 transitions; a device that takes both, so that one can replace the other | `ImplementsMappings` (refinement), `ExactContinuation`, `MappingsRestorable`, `TablesAreCurrent` |
| `resources` | responses: 3 ids, 2 workers, retention 2, lineages of 2. unsynced: the same with 2 responses made and failing syncs. contexts: 1 context, 2 workers, 4 turns. declared: 2 principals, rate 2 in a window of 2. compacted: 6 tokens of every kind, 4 budgets. frontier: 5 bytes in tokens of 1 or 2, 7 lists of stops | `ResponsesAreKept`, `NativeFollows`, `NothingIsOverwritten`, `RateHolds`, `CompactionSettles`, `TextIsExact` |
| `operations` | cache: one file of 3 blocks in 2 revisions. daemon: 2 models, 2 revisions, one alias, 3 pulls, 5 epochs. models: 2 threads, 2 models, one of them in two epochs, that do not fit together with their contexts, 2 loads. records: 6 decisions through a channel of 2 | `FetchedIsWhole`, `DaemonIsConsistent`, `BudgetsHold`, `RetiredIsDrained`, `RecordsAreAccounted` |
| `serving` | gate: 3 connections, limits 1 to 3. policy: 2 jobs of 2 classes on one slot, weights 2 and 1, debts to -6, with consumers and stops. stops: 2 requests on one executor. mapped: 2 sessions with a prompt of two blocks. stream: 4 deltas through a channel of 2, every protocol | `AccountsBalance`, `NoLostAbort`, `StoppedGetsOut`, `RequestsEnd`, `RowsRebuildResponse` |
| `stalled_client` | the stream of `serving` alone | expected violation, see Findings |

The bounds let the interesting cases happen. Two sessions suffice for contention
since no handler looks at more than two jobs (its own, and another of the same
slot or flow); two quanta give a token, an acknowledgement and a second token. A
queue of two entries with three candidates is full, has an order, and may have a
dead entry in front of a live one. A device of three bytes for representations of
one and two holds some of them and not all, so evictions happen and fail. Three
tokens in chunks of two give a full chunk, a partly filled one and a branch in
the middle of one. Two publications outstanding are the least that can invalidate
each other. Lineages of two have a base, a successor and one too many. Two
mappings, each with two handles, let one be dropped while it is active and
another forked from it. A chunk of three over blocks of two stops at block ends.
Two loading threads and two loads let a victim be chosen, used, and gone, and a
model be loaded again while a thread of the one before has still to look. A
channel of two with four deltas (or six records) is full, drains and is full
again. Three flows on a slot are the least that starve one if debts are not refilled:
while the first is in debt, the others end and come back as new flows by turns. That
their jobs do not wait for consumers bounds the run. Five bytes hold the longest stop, a character cut in two, and one byte
more.

**Fairness.** All weak, with two exceptions (`FairPolicy`, `MappedEngine`).
- `Scheduler`: the scheduler thread, the workers and a client blocked in `recv`
  with a message run when they can: they are threads. Nothing makes a client call
  `step`, `finish` or drop its session, nor the daemon drop the scheduler.
- `Admission`: a woken task is polled, and a guard is dropped in the end, because
  a dropped future drops it and the watchdogs end an executing request. No deadline
  of a waiting request is assumed to fire. The client that stalls an executing request
  is left out here (see Findings): while it does, those behind it wait with it.
- `PrequeueGate`: requests end, with the same reservation, and drops complete. Nobody is made to change the
  limit.
- `FairPolicy`: the dispatch loop goes on while something is available. Every quantum
  ends: strong, because a completion in the channel of events is handled only when the
  loop takes events, which dispatches interrupt again and again; events are handled in
  the order they were sent, so its turn comes.
- `RequestControl`: threads go on, and llama.cpp calls its abort callback while it
  evaluates. That an evaluation ends by itself is not assumed, nor that anybody
  stops it.
- `ResponseStream`: the inference thread goes on. The connection makes a row when the
  client takes one, and nobody makes a client read or leave: `RequestsEnd` therefore
  says that the thread ends or is held for good in a full channel, and
  `StoppedRequestEnds`, that a deadline or a cancel frees it, is violated.
- `MappedEngine`: strong fairness for the quanta of each session: the scheduler
  steps every session it has (`NobodyWaitsForever`: shown for one slot, and not
  true of more, see Findings), but a spill or
  another quantum may have the lock when its turn comes, and the mutex
  (`parking_lot`) is fair eventually and not always. A spill under way goes on.

Deadlock is checked in the runs of the scheduler, admission, turns and the physical
manager; the scheduler's only final states (`Terminated`) are those where its
thread has returned and every client has ended. The other composed runs do not check it,
because their parts may rightly stop: a request or a stream ends, every
publication of the bound has been made, no more ids, turns, loads or time are
left.

TLC's symmetry is used where no constant tells the permuted values apart and no
liveness property is checked.

## Proofs

Each proof module has an inductive invariant that strengthens what the runs check;
its last theorems are the properties themselves, named as in `PROJECT.json`. A
lemma per action says that it keeps the invariant, part by part. What is assumed of
the constants is stated by the modules and evaluated by TLC in every run.

### SchedulerProofs

`SchedulerProofs` proves, for any finite set of sessions, any slots and flows, any
assignment of sessions to them and any `MaxQuanta` (the assumptions stated in
`Scheduler`):

| Theorem | States |
|---|---|
| `TypeCorrect` | `Spec => []TypeOK` |
| `CoreInvariant` | `Spec => []Core` |
| `OneOwnerHolds`, `NoLostWakeupHolds`, `BackpressureHolds`, `TerminalIsLastHolds` | the invariants of those names, which `Core` implies |
| `RetiredWorkersAreIdleHolds`, `WaitingIsExactHolds` | step inductions over `Core` |
| `CancelWinsHolds` | the action property, from `Core` |

`OneOwner` is not inductive. `HandleContinue`, `HandleStop` and `HandleSubmit`
enqueue a job or send it to a worker without looking at where it is: they trust
the client to have one driving command under way, to send it only for a job that
waits for it, and none after a cancel or an end. `Core` says this: `Owner(i)`
says where session `i` is and that it is there once; `Exchange(i)` says what
commands, tokens and ends of it are under way, for each place of its client;
`Pending(i)` that a waiting client has something to wait for; `Owed(i)` that the
ends sent and the job agree; `WindingDown` what the shutdown has already
emptied. Each action has a lemma per part it can disturb; general lemmas about
`Append`, `Tail` and `RemoveAt` say how the number of elements of a kind in a
sequence changes. `WaitingIsExact` needs the cardinality lemmas of
`FiniteSetTheorems`: each of the four handlers adds or removes exactly one job.
`TypeOK`, `Core` and `RetiredWorkersAreIdle` were invariants of the run `scheduler`
until they were proved; it now has what it shows beyond them or illustrates
with a mutant.

### Sums

Sums are folds of the community modules. What a sum over a set with one more element
is cannot be had by induction here, since the library's induction theorems take an
operator. Instead a fold is unfolded once: what it is of a set is what it is of the
set without some element. That its value does not depend on the element is shown by
taking a set with the least number of elements for which it does. `SumAdd`,
`SumSplit`, `SumMonotone`, `SumChange` and `CountChange` follow; the bytes of tiers,
of queues, of models and the counts of owners are all these.

### AdmissionProofs

For any finite set of requests, any sizes and any positive limits: `AccountsExact`,
`TurnsAreKept`, and the action properties `PromotionIsFifo` and
`CancelledNeverStarts`. The first two need each other: that nobody waits while a
slot is free depends on the counter, and the counter on every entry having a waiter
or a guard that still has to go. `Inv` adds the order of the queue (no request is in
it twice, and each entry is one of a request that has not got a slot), the channel of
each request, and when a request is known (`Lives`). Most of the work is one lemma
about `promote_queued`, which every handler calls last: it takes a queue in order and
leaves one, with as many slots given as it counted and no entry left or no slot.
`AccountsExact` is up to `phantom`, see Findings.

### StorageProofs

The physical manager, for any number and sizes of representations, capacities, contexts, transitions and
growths: `TiersHold`, `CountsAreExact`, `TablesAreCurrent` and the action property
`OwnedCopiesStay`. `Inv` is types, counts, valid owners, tiers, tables and
`TransitionsAreWhole`: a transition in use has one context and transfers only what it
prepares. The argument: what is bound, prepared or carried has a count that is the
number of these owners, so it is not zero, so eviction passes over it; hence a step
takes away only what nobody owns, hence what is bound stays on the device, and
binding it again needs no check. Each change of a count is a `CountChange` of a set
of owners; each eviction loop is described by the order it removes in.

The context store, for any tokens, epochs and kinds of mapping, and any bounds:
`StoreIsConsistent`. `StoreInv` says that every stored mapping has its parent stored
and counts exactly the mappings that name it as theirs (`Tree`); that it has an owner,
counts exactly the contexts evaluated to it and is indexed (`CountsHold`), until a
commit panics; that what a context is evaluated to fits its tokens and its epoch
(`EvaluatedFits`); and that a publication outstanding is of its context as it was at
the revision it expects (`PublicationsHold`). An ancestor is its descendant cut at one
of its ends (`Cut`), so the ancestors of a mapping are in one order, each the parent of
the next (`CutParent`, `NextCut`), and a table where every mapping has its parent has
every lineage whole (`ClosedLineage`). The weight is on `ReclaimKeeps`: what
`reclaim` removes has no owner but the one removed before it, so whatever depends on
something removed is removed (`GoneWithParent`), and the parent of the last one removed
has another owner (`LostParent`). That a mapping always has an owner is needed for it:
the loop stops at the first mapping somebody owns. Every operation that gives up an
evaluation is one case (`DropOwner`); the panic of `commit_publication` is where the
mapping just published is among what that removed.

### EngineProofs

`ImplementsMappings`: initial states map to initial states, and each step of the
executor to a step of `NativeMappings` or to none, for any tokens, mappings and
handles, until a rollback fails (`lost`). The refinement mapping reads the active
mapping off the native sequence and the others off their saved states, cut at their
positions. It needs that no state has fewer tokens than its position counts
(`Decoded`), which an interrupted decode threatens, and that identities are never
reused (`Types`). A mapping whose position is too short for its state reads as
garbled on both sides.

`ExactContinuation` and `MappingsRestorable`, about `EngineSpec` of `MCEngine`, for
any sessions, tokens, prompts, block and chunk sizes, and any spill capacity.
`MappedInv` is three parts. `SessionsOK`: a session that evaluates has a native
mapping of its own with what it has evaluated, and all completed blocks of that are
published (`Exact`). `StoreOK`: a published mapping is resident or on disk and
nothing else (`InMemory`, `OnDisk`), is a whole number of blocks, and has its
shorter blocks beside it (`Blocks`); what a spill still has to come to is resident.
`NativeOK`: the executor has exactly what somebody has a handle of, and the root is
never evaluated on. They need each other: a block that is completed is published
under the tokens of its session only if the native mapping has exactly those, its
lineage is whole only if the session's last block was published or found, and a
session that starts from a found mapping is exact only if the store is. That a
quantum ends at the latest where a block does (`WithinABlock`) is what keeps a
publication from skipping one. Assumed of the constants: a prompt is a sequence of
tokens, and sessions, the root, the garbled state and sequences of tokens are told
apart. The proof is by action; `Settled` says once what is reclaimed after any of
them. `BytesChange` is `SumAdd` and `SumRemove` for the spilled bytes.

### ServingProofs

About `Spec` of `MCServing`, with any connections, limits, flows, jobs, classes,
requests, deltas and size of the channel.

`NoLostAbort`: `StopsInv` follows the signal. From the moment a hook is
stored until its evaluation takes the flag, a stopped request has the flag up or a
stopper on the way, and nobody else resets it because the lock is held.
`AccountsBalance`: a connection is in one place of the gate (`OnePlace`). The
deficits are those of flows with a job, which `clear_if_idle` keeps at every end of a
job but one, or of flows whose last job ended by a dispatch that could not spawn its
worker (`DeficitsOfTheLiving`). A job that has run finds the worker of its slot
(`StartedHaveWorkers`). `PolicyInv` adds that a job is in one place at most and once in
the queue (`JobsApart`), so that a job which leaves its place is alive no more.

`RowsRebuildResponse`: `StreamInv` follows the deltas from the engine through the
channel and the projection to the rows. Those received are the first ones, in order,
and those in the channel the next (`InOrder`), so that when the terminal event is
received the projection has the whole text (`LastReceived`). Until then the deltas of
the rows are the text of the projection, or nothing when output is held back for a
function call (`TextRebuilt`), and the numbers go on from `projection.sequence`
(`Sequenced`). There is a terminal event or the row made of it once the thread has
ended, and nothing follows either (`ChannelKept`, `RowsEnd`), which is what lets a
disconnect empty the channel anywhere. What rows say together is a fold over a
sequence (`FlattenSeq`): `FlatExists` and `FlatUnique` show by a least counterexample
that its recursive function is the one it describes, `TextInConcat` that the text of
rows sent behind others comes behind theirs.

### OperationsProofs

About `OperationsSpec` of `MCOperations`.
- `RecordsAreAccounted`, for any capacity of the channel and number of decisions:
  the counters follow what was sent and written but for the step between the two
  (`SentCounted`, `WrittenCounted`), so that what a flush waits for is what it is
  owed.
- `FetchedIsWhole`, for any files, revisions and expected digests, and one pull at a
  time (two pulls of one file do break it, see Findings). `CacheInv` follows inodes:
  no partial file is also a complete one or another revision's, a partial file is a
  beginning of its revision, and what a pull knows of its length is still so when it
  writes. Assumed: there are as many inodes as names and open files may need.
- `DaemonIsConsistent`, for any models, revisions, aliases, pulls and user.yaml.
  `DaemonInv` says which of the stores is ahead at each point of an operation: the
  engine from `prepare_model` on (`EngineOK`), the catalog from the publication on,
  or since the removal (`CatalogOK`), neither between operations. Epochs served are
  below the next one and the catalog has none twice (`EpochsOK`): that a failed
  publication may retire what it prepared, and that a restart may take epochs from
  the catalog, both depend on it. `LockOK` and `PullsOK` say which places an
  operation and a pull can be in.
- `BudgetsHold` and `RetiredIsDrained`, for any threads, models, sizes and
  measurements. `ResidencyInv` adds that an entry is the last model loaded for its
  key, that no model is smaller than the context it would free, and that counters are
  the numbers of threads in a quantum and with a session. Planning, loading and
  inserting are in three stretches under the lock; the proof of `Insert` uses nothing
  of the first but its list of victims.

### ResourcesProofs

About `Spec` of `MCResources`, for any ids, workers, retention, lineage limit,
contexts, targets, principals, lifetimes and rates.
- `ResponsesAreKept`. A response is checked against memory, written to a file and
  entered in memory in three stretches, and a restart goes back to the files; so
  `LineageInv` speaks of the records in both at once: they agree on every id both
  have, each has the revision after that of what it continues (`Follows`), and
  nothing continues an id that has no record yet (`FreshUnseen`). It holds whether
  or not directories synchronise. Where they do, `DurableInv` adds that a response
  has one successor, that only its expiry takes out what a stored one continues, and
  that what was reported is what a restart finds.
- `NativeFollows` and the action property `NothingIsOverwritten`. `UpdatedInv` says
  of every worker that has read a context: the context is at or past the revision it
  read, and if it is still at that one, what the worker has made so far is what the
  context holds now, or that compacted, and then one turn (`ReadsCurrent`); so the
  comparison of revisions is enough. It needs that an id is never given to a second
  context (`Entered`), as a context deleted and made again would have old revisions.
  All records, also those a worker carries, continue from what they say (`AllNative`).
- `RateHolds`. `RateInv` says whose times are held: those of declarations of the
  principal, and all of them that are in the window that ends now. A declaration is
  then made only if the window that ends now has fewer than the rate; a later window
  has no more of the earlier ones, and an earlier window does not have the new one.

### Only model-checked

- The liveness properties (`RecvReturns`, `ShutdownCompletes`,
  `NobodyWaitsForever`, `StoppedGetsOut`, `RequestsEnd`): fairness and ENABLED are
  out of the prover's reach.
- What recursive definitions compute: `TextIsExact`, `CompactionSettles`,
  `KeysAreOfTokens` and the refinement `SequencesImplementPlain`, which are about
  functions of sequences of any length.

## Findings

Three have a run that exhibits them:

- `admission_limit`. `Server::cancel` removes the entry of a waiting request.
  If the request's task has given up (deadline or disconnection) and its guard is
  not yet dropped, or is dropped before it is polled again, the guard still has
  the ticket, does not find it in the queue, and `release_or_cancel_admission`
  (`lib.rs:1632`) concludes that it was promoted and gives back a slot. The same
  happens when `promote_queued` meets an entry whose receiver is dropped and
  whose guard is not. `active` is then one too low and one request too many is
  admitted, until the server is idle again. `SlotsAccounted` shows that this is
  the only way `active` goes wrong, and that it never errs in the other
  direction.
- `physical_hard`. The "hard admission invariant" of `docs/outline.md:919` is
  not maintained by `ensure_device_capacity`: bytes that are already on the
  device become active without being charged. The tiers themselves never
  overflow (`CopiesFit`).
- `stalled_client`. `infer_stream_reserved` sends with `blocking_send` (`lib.rs:1559`,
  `:1570`), which neither the watchdogs nor a cancel wake, and nothing limits how
  long a client that stays connected may leave the channel full. The thread, the
  session it steps and the admission it holds stay until the client reads or goes,
  whatever `wall_time_ms` and `active_time_ms` say (`config.example.yaml:91`).
  `docs/outline.md:1310` says that such requests "retain a mapped slot only within the
  configured disconnect timeout and displacement policy".

The others were met while modelling: TLC gave a counterexample in the module
named, and the models have the behaviour, but no run is kept for them. The
properties above are stated so that they hold in spite of them.

| Module | What the code does | What is said of it |
|---|---|---|
| `PhysicalManager` | `prepare_transition` (`physical-manager:519`) makes room before it takes its references, and may evict a component of the composite it prepares. It fails later and binds nothing partial (`OwnersAreValid`). | `docs/outline.md:933`: such state "should not be evicted merely to reconstruct it immediately" |
| `ContextStore` | `commit_publication` (`context-store:547`) of a mapping that exists releases the previous mapping of the context; if that was the last to depend on the published one, it is reclaimed too and the lookup that follows panics (`panicked`). | `context-store:458`: "Validate that a prepared publication can commit" |
| `Residency` | The second look of a load (`residency.rs:477`) spares victims in a quantum, not those that got a session meanwhile and are between two quanta. Victims and drained models are removed by key, which can take out a later model of the same key, even in the middle of a quantum (`stray`); the victims of a load are left out of the count by key too, so that one of them may stay beside it. Contexts are spilled without asking for room in storage (`residency.rs:390`, `:591`), so that spilled contexts may exceed the storage budget; the models alone do not (`WithinBudgets`). | test `suspended_session_releases_its_native_slot_without_becoming_evictable`, `residency.rs:1025` |
| `RequestControl` | `abort` runs a clone of the hook after the lock is released (`lib.rs:688`); if the quantum ends in between, the decode of another request is aborted (place `"lost"`). | `docs/dump/progress.md:67`: watchdogs "terminate owned work" |
| `Lifecycle` | An alias that moves stays in the catalog row of its former model (`lifecycle.rs:151`) and may be back after a restart; a pull of a model already served leaves its operation running (`lifecycle.rs:92`). | `docs/outline.md:1454`: SQLite is "the sole durable authority" for aliases and lifecycle operations |
| `Lifecycle` | The start prepares, and so loads, every model of the catalog (`lifecycle.rs:128`). | `docs/outline.md:1376`: "no model is loaded merely because the daemon starts" |
| `ResponseStore` | When the directory cannot be synchronised the write is reported as failed, but the file is in place and the next start serves it (`response_store.rs:112`). | test `write_failure_does_not_publish_resource`, `response_store.rs:265` |
| `ResponseStore` | Expiry removes a response that a stored one continues (`response_store.rs:116`). | `docs/dump/openai-api.md:50`: "cleanup is lineage-aware" |
| `ResponseStream` | A function call that cannot be parsed, or a response that cannot be stored, ends a Responses stream with a row of its own (`lib.rs:3885`). | `docs/dump/openai-api.md:39`: failures "use terminal response states rather than an ad hoc text row" |
| `ResponseStream` | There is no row for `response.in_progress`, none for the arguments of a function call but the item itself, and every failure or cancellation of a Responses stream is an error row (`responses.rs:512`). | `docs/dump/openai-api.md:27-39` lists `response.in_progress` and an "argument-delta lifecycle" |
| `WindowTail` | The selection goes on past a turn that does not fit, and may keep an older, smaller one (`context_strategy.rs:231`). | `context_strategy.rs:124`: "Keep newest turns" |
| `PrequeueGate` | A permit that is dropped looks at the debt, then is free (`lib.rs:1063`); a limit lowered in between owes a retirement that no permit pays, and the gate lets in more than its limit. | test `prequeue_reconfiguration_preserves_configured_capacity_with_active_permits`, `lib.rs:6238` |
| `FairPolicy` | Deficits belong to flows, availability to slots: with a second slot, charges of a job there keep the deficit of the flow below what other flows get by their refills, and a job of the same flow here stays in the queue for ever, promoted or not (`scheduler.rs:310`; met with 4 jobs of 3 flows on 2 slots). `NobodyWaitsForever` is checked of jobs of one slot. | test `weighted_deficits_preserve_class_shares_without_starvation`, `scheduler.rs:1309` |
| `FairPolicy` | A dispatch whose worker cannot be spawned removes its job without `clear_if_idle` (`scheduler.rs:858`): a flow without jobs keeps its deficit, and its next job starts with it (`left`). | `clear_if_idle` at every other end of a job, `scheduler.rs:314` |
| `ModelFetch` | `main` is resolved once and cached for ever (`model-registry:256`); a whole partial file is asked to resume beyond its end and fails every later pull (`:303`); two pulls at once share a partial file (`:322`); another expected digest removes the installed file before the new one is there (`:363`). | `docs/outline.md:487`: "Every pull resolves symbolic Hub revisions", "resumes or repairs incomplete content", "must not mutate the identity beneath an active execution" |

## Not modelled

- Pure conversions without state: prompt templates (`prompt.rs`), compilation of
  schemas (`structured.rs`), images (`vision.rs`), configuration (`config.rs`),
  reading GGUF metadata and parsing model references, request and response bodies
  of the HTTP routes, authentication, the OpenAPI text, the debug log.
- External: llama.cpp (what an evaluation or a transfer returns is open), tokio's
  semaphore and channels, SQLite (a statement happens or fails), SHA-256 (taken as
  injective), the file system beyond write, rename and synchronise.
- Of modelled components: checkpoints, sampling and rendering of the executor,
  which only proof commands and single quanta use; the table of measured profiles
  of the catalog; metrics, counters other than `waiting` and trace events;
  `serve_until`'s wait for connections; `DeterministicEngine`, a test double; the
  proof commands of the command line and the report scripts.
- In `GenerationFrontier`, bytes that are not a character and are followed by an
  incomplete one decode differently with the cut into tokens, so `TextIsExact` is
  about well-formed text; which of two stops is found when one contains the other
  depends on the cut too, and the instance has no such pair. In `Contexts`, an imported text is not evaluated until a compaction.
- Hazards seen and covered by no property: a cancel that removes the last job of a
  slot leaves its worker until the end (`scheduler.rs:963`); `pending_cancelled`
  keeps ids for ever (`lib.rs:1428`); a detached transfer that fails for lack of
  room stays in the table (`physical-manager:600`); `unbind` of the last owner
  leaves a representation registered that nobody refers to
  (`physical-manager:442`).
