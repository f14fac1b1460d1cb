----------------------------- MODULE Lifecycle -----------------------------
(***************************************************************************)
(* Which models are served: ModelLifecycleService of                       *)
(* crates/server/src/lifecycle.rs over the durable catalog of catalog.rs,  *)
(* the pull of crates/server/src/lib.rs and the start of the daemon in     *)
(* crates/cli/src/main.rs.                                                 *)
(*                                                                         *)
(* Operations on models hold one lock from begin to end; a pull records    *)
(* itself, fetches and records its end outside of it.  A crash may come    *)
(* between any two steps: the catalog stays, the rest is built again.      *)
(* SQLite, the file fetched and what the engine does to load a model are   *)
(* external; each may fail.                                                *)
(***************************************************************************)
EXTENDS Naturals, Sequences, FiniteSets, SequencesExt, FiniteSetsExt

CONSTANTS
    Ids,        \* model ids, a sequence: the order of the catalog
    Revisions,  \* revisions of a model's file
    Aliases,    \* other names
    Declared,   \* user.yaml: <<id, revision, aliases>> in order
    Pulls,      \* operations of lifecycle_operations
    None,       \* no record, no task
    MaxEpoch    \* bound: epochs given

IdSet == ToSet(Ids)

\* ModelRecord, and what an operation under the lock has in its variables
Record == [revision : Revisions, aliases : SUBSET Aliases, epoch : Nat]

RegisterTask == [id : IdSet, revision : Revisions, aliases : SUBSET Aliases,
                 pull : Pulls \cup {None}, at : {"register", "publish", "insert"}]
AliasTask == [id : IdSet, alias : Aliases, pull : {None}, at : {"alias"}]
RemoveTask == [id : IdSet, pull : {None}, at : {"remove"}]

\* what a module that instantiates this one assumes of the constants
LifecycleAssumption ==
    /\ MaxEpoch \in Nat /\ Declared \in Seq(IdSet \X Revisions \X SUBSET Aliases)
    /\ None \notin Pulls \cup Record \cup RegisterTask \cup AliasTask \cup RemoveTask

VARIABLES
    catalog,     \* table models: record of each id, or None
    operations,  \* table lifecycle_operations: status of each pull
    models,      \* State::models
    next_epoch,  \* State::next_epoch
    prepared,    \* <<id, epoch>> the engine has prepared and not retired
    task,        \* the operation that holds the lock, or None
    pull,        \* where each pull is
    phase,       \* of the daemon: "down", "starting", "serving"
    todo         \* what the start has still to register: models of the catalog, and
                 \* how many of user.yaml are registered

vars == <<catalog, operations, models, next_epoch, prepared, task, pull, phase, todo>>

Serving == phase = "serving"

AtRest == Serving /\ task = None

NothingToDo == [catalog |-> {}, declared |-> Len(Declared)]

-----------------------------------------------------------------------------
(* Records.                                                                *)

\* Aliases given to one model are taken from all others
WithoutAliases(table, aliases) ==
    [id \in IdSet |-> IF table[id] = None THEN None
                      ELSE [table[id] EXCEPT !.aliases = @ \ aliases]]

\* The table with a record entered
Entered(table, id, record) == [WithoutAliases(table, record.aliases) EXCEPT ![id] = record]

\* commit_model and retire_model of the engine
Committed(id, epoch) == {p \in prepared : p[1] # id} \cup {<<id, epoch>>}

-----------------------------------------------------------------------------
(* register, with the operation lock.                                      *)

\* The end of the task: a pull goes on with the result, the start with the next
Done(ok) ==
    /\ task' = None
    /\ pull' = IF task.pull = None THEN pull
               ELSE [pull EXCEPT ![task.pull] = IF ok THEN "registered" ELSE "failing"]
    /\ phase' = IF Serving \/ ok THEN phase ELSE "down"
    /\ todo' = IF Serving THEN todo ELSE [todo EXCEPT !.declared = @ + 1]

\* The record is served already
Existing == models[task.id] # None /\ models[task.id].revision = task.revision

\* The record is there already: the engine prepares it once more, and nothing is
\* published
RegisterSame ==
    /\ task # None /\ task.at = "register"
    /\ Existing
    /\ prepared' = prepared \cup {<<task.id, models[task.id].epoch>>}
    /\ Done(TRUE)
    /\ UNCHANGED <<catalog, operations, models, next_epoch>>

\* A new record gets the next epoch, and the engine prepares it
RegisterPrepare ==
    /\ task # None /\ task.at = "register"
    /\ ~Existing
    /\ next_epoch <= MaxEpoch
    /\ prepared' = prepared \cup {<<task.id, next_epoch>>}
    /\ task' = [task EXCEPT !.at = "publish"]
    /\ UNCHANGED <<catalog, operations, models, next_epoch, pull, phase, todo>>

\* The model's file cannot be read, or the engine cannot prepare it
RegisterFails ==
    /\ task # None /\ task.at = "register"
    /\ Done(FALSE)
    /\ UNCHANGED <<catalog, operations, models, next_epoch, prepared>>

NewRecord == [revision |-> task.revision, aliases |-> task.aliases, epoch |-> next_epoch]

\* publish, or publish_and_finish_operation in one transaction
RegisterPublish ==
    /\ task # None /\ task.at = "publish"
    /\ task.pull # None => operations[task.pull] = "running"
    /\ catalog' = [catalog EXCEPT ![task.id] = NewRecord]
    /\ operations' = IF task.pull = None THEN operations
                     ELSE [operations EXCEPT ![task.pull] = "complete"]
    /\ task' = [task EXCEPT !.at = "insert"]
    /\ UNCHANGED <<models, next_epoch, prepared, pull, phase, todo>>

\* A slip: a failure to publish leaves the engine as it is.
PublishFailsOnly ==
    /\ task # None /\ task.at = "publish"
    /\ Done(FALSE)
    /\ UNCHANGED <<catalog, operations, models, next_epoch, prepared>>

\* The catalog refuses: the engine retires what it prepared
RegisterPublishFails ==
    /\ task # None /\ task.at = "publish"
    /\ prepared' = prepared \ {<<task.id, next_epoch>>}
    /\ Done(FALSE)
    /\ UNCHANGED <<catalog, operations, models, next_epoch>>

\* The record is served and the engine commits to it
RegisterInsert ==
    /\ task # None /\ task.at = "insert"
    /\ models' = Entered(models, task.id, NewRecord)
    /\ next_epoch' = next_epoch + 1
    /\ prepared' = Committed(task.id, next_epoch)
    /\ Done(TRUE)
    /\ UNCHANGED <<catalog, operations>>

-----------------------------------------------------------------------------
(* The start of the daemon.                                                *)

\* ModelCatalog::open ends the operations of the last run; the models of the
\* catalog are registered in order, then those of user.yaml
Start ==
    /\ phase = "down"
    /\ phase' = "starting"
    /\ operations' = [p \in Pulls |-> IF operations[p] = "running" THEN "failed" ELSE operations[p]]
    /\ models' = [id \in IdSet |-> None]
    /\ next_epoch' = 1
    /\ prepared' = {}
    /\ todo' = [catalog |-> {id \in IdSet : catalog[id] # None}, declared |-> 0]
    /\ UNCHANGED <<catalog, task, pull>>

EpochAfter(epoch) == IF epoch >= next_epoch THEN epoch + 1 ELSE next_epoch

\* The first of the catalog that is not registered yet
IsNext(id) == \E i \in DOMAIN Ids : Ids[i] = id /\ \A j \in 1..(i - 1) : Ids[j] \notin todo.catalog

\* register_from_catalog
RegisterFromCatalog ==
    /\ phase = "starting" /\ task = None
    /\ \E id \in todo.catalog :
         /\ IsNext(id)
         /\ models' = Entered(models, id, catalog[id])
         /\ next_epoch' = EpochAfter(catalog[id].epoch)
         /\ prepared' = Committed(id, catalog[id].epoch)
         /\ todo' = [todo EXCEPT !.catalog = @ \ {id}]
    /\ UNCHANGED <<catalog, operations, task, pull, phase>>

\* The start begins to register a declared model
RegisterDeclared ==
    /\ phase = "starting" /\ task = None
    /\ todo.catalog = {} /\ todo.declared < Len(Declared)
    /\ LET d == Declared[todo.declared + 1]
       IN  task' = [id |-> d[1], revision |-> d[2], aliases |-> d[3], pull |-> None,
                    at |-> "register"]
    /\ UNCHANGED <<catalog, operations, models, next_epoch, prepared, pull, phase, todo>>

\* A record of the catalog cannot be prepared: the daemon does not start
StartFails ==
    /\ phase = "starting" /\ task = None
    /\ todo.catalog # {}
    /\ phase' = "down"
    /\ todo' = NothingToDo
    /\ UNCHANGED <<catalog, operations, models, next_epoch, prepared, task, pull>>

Serve ==
    /\ phase = "starting" /\ todo = NothingToDo /\ task = None
    /\ phase' = "serving"
    /\ UNCHANGED <<catalog, operations, models, next_epoch, prepared, task, pull, todo>>

\* The process ends at any moment
Crash ==
    /\ phase # "down"
    /\ phase' = "down"
    /\ todo' = NothingToDo
    /\ task' = None
    /\ pull' = [p \in Pulls |-> IF pull[p] = "none" THEN "none" ELSE "gone"]
    /\ UNCHANGED <<catalog, operations, models, next_epoch, prepared>>

-----------------------------------------------------------------------------
(* perform_ollama_pull.                                                    *)

\* begin_operation
PullBegin(p) ==
    /\ Serving
    /\ pull[p] = "none"
    /\ operations' = [operations EXCEPT ![p] = "running"]
    /\ pull' = [pull EXCEPT ![p] = "fetching"]
    /\ UNCHANGED <<catalog, models, next_epoch, prepared, task, phase, todo>>

\* The fetch fails
PullFetchFails(p) ==
    /\ pull[p] = "fetching"
    /\ pull' = [pull EXCEPT ![p] = "failing"]
    /\ UNCHANGED <<catalog, operations, models, next_epoch, prepared, task, phase, todo>>

\* A pulled model has no aliases, whatever the one it replaces had
PullRegister(p, id, revision) ==
    /\ pull[p] = "fetching" /\ task = None
    /\ task' = [id |-> id, revision |-> revision, aliases |-> {}, pull |-> p, at |-> "register"]
    /\ pull' = [pull EXCEPT ![p] = "registering"]
    /\ UNCHANGED <<catalog, operations, models, next_epoch, prepared, phase, todo>>

\* finish_operation of a pull that failed, and the report
PullFailed(p) ==
    /\ pull[p] = "failing"
    /\ operations' = [operations EXCEPT ![p] = IF @ = "running" THEN "failed" ELSE @]
    /\ pull' = [pull EXCEPT ![p] = "failed"]
    /\ UNCHANGED <<catalog, models, next_epoch, prepared, task, phase, todo>>

\* ... whose statement fails: that is reported instead, and the operation stays running
\* until the next start
PullUnrecorded(p) ==
    /\ pull[p] = "failing"
    /\ pull' = [pull EXCEPT ![p] = "unrecorded"]
    /\ UNCHANGED <<catalog, operations, models, next_epoch, prepared, task, phase, todo>>

PullSucceeds(p) ==
    /\ pull[p] = "registered"
    /\ pull' = [pull EXCEPT ![p] = "success"]
    /\ UNCHANGED <<catalog, operations, models, next_epoch, prepared, task, phase, todo>>

-----------------------------------------------------------------------------
(* alias and remove, with the operation lock.                              *)

\* alias: the catalog gets the record of the model that has it now
Alias(id, alias) ==
    /\ AtRest
    /\ models[id] # None
    /\ catalog' = [catalog EXCEPT ![id] = [models[id] EXCEPT !.aliases = @ \cup {alias}]]
    /\ task' = [id |-> id, alias |-> alias, pull |-> None, at |-> "alias"]
    /\ UNCHANGED <<operations, models, next_epoch, prepared, pull, phase, todo>>

AliasSwap ==
    /\ task # None /\ task.at = "alias"
    /\ models' = Entered(models, task.id,
                         [models[task.id] EXCEPT !.aliases = @ \cup {task.alias}])
    /\ Done(TRUE)
    /\ UNCHANGED <<catalog, operations, next_epoch, prepared>>

\* remove: first from the catalog ...
RemoveModel(id) ==
    /\ AtRest
    /\ models[id] # None
    /\ catalog' = [catalog EXCEPT ![id] = None]
    /\ task' = [id |-> id, pull |-> None, at |-> "remove"]
    /\ UNCHANGED <<operations, models, next_epoch, prepared, pull, phase, todo>>

\* ... then from what is served, and the engine retires it
RemoveRetire ==
    /\ task # None /\ task.at = "remove"
    /\ models' = [models EXCEPT ![task.id] = None]
    /\ prepared' = prepared \ {<<task.id, models[task.id].epoch>>}
    /\ Done(TRUE)
    /\ UNCHANGED <<catalog, operations, next_epoch>>

-----------------------------------------------------------------------------
Init ==
    /\ catalog = [id \in IdSet |-> None]
    /\ operations = [p \in Pulls |-> "none"]
    /\ models = [id \in IdSet |-> None]
    /\ next_epoch = 1
    /\ prepared = {}
    /\ task = None
    /\ pull = [p \in Pulls |-> "none"]
    /\ phase = "down"
    /\ todo = NothingToDo

Next ==
    \/ Start \/ RegisterFromCatalog \/ RegisterDeclared \/ StartFails \/ Serve \/ Crash
    \/ RegisterSame \/ RegisterPrepare \/ RegisterFails
    \/ RegisterPublish \/ RegisterPublishFails \/ RegisterInsert
    \/ \E p \in Pulls :
         \/ PullBegin(p) \/ PullFetchFails(p) \/ PullFailed(p) \/ PullUnrecorded(p)
         \/ PullSucceeds(p)
         \/ \E id \in IdSet, revision \in Revisions : PullRegister(p, id, revision)
    \/ \E id \in IdSet, alias \in Aliases : Alias(id, alias)
    \/ AliasSwap
    \/ \E id \in IdSet : RemoveModel(id)
    \/ RemoveRetire

Spec == Init /\ [][Next]_vars

-----------------------------------------------------------------------------
(* Properties.                                                             *)

\* A name means one model: aliases move, and no order of registrations, copies
\* and restarts leaves one with two models.
NamesAreUnique ==
    \A alias \in Aliases :
        Cardinality({id \in IdSet : models[id] # None /\ alias \in models[id].aliases}) <= 1

\* Between operations the engine has prepared exactly the epochs that are
\* served: nothing that failed, was replaced or removed is left in it.
EngineFollows ==
    AtRest => prepared = {<<id, models[id].epoch>> : id \in {i \in IdSet : models[i] # None}}

\* Between operations the catalog has the identity of what is served, so that a
\* restart serves the same revisions in the same epochs.
CatalogFollows ==
    AtRest => \A id \in IdSet :
        /\ (catalog[id] = None) = (models[id] = None)
        /\ models[id] # None =>
             catalog[id].revision = models[id].revision /\ catalog[id].epoch = models[id].epoch

\* An epoch names one loaded model of one revision: two models served at the
\* same time never share one, however often the daemon restarted in between.
EpochsDistinct ==
    \A i, j \in IdSet : i # j /\ models[i] # None /\ models[j] # None
                        => models[i].epoch # models[j].epoch

\* A pull whose operation is complete has registered its model; one that reports
\* why it failed has not left its operation running.
OperationsFollow ==
    \A p \in Pulls :
        /\ operations[p] = "complete" => pull[p] \in {"registering", "registered", "success", "gone"}
        /\ pull[p] = "failed" => operations[p] = "failed"

=============================================================================
