---------------------------- MODULE MCOperations -----------------------------
(***************************************************************************)
(* Small instances of what an operator relies on: the pull of a model file *)
(* into the cache; the registrations, aliases and removals of a daemon     *)
(* that crashes and starts again; the residency of models on a budget      *)
(* (this module extends Residency); and the diagnostics of the scheduler.  *)
(* `part` is the one at work; the variables of the others keep their       *)
(* initial values.                                                         *)
(***************************************************************************)
EXTENDS Residency, TLC

CONSTANTS
    Parts,       \* the parts to check
    f,           \* a pull
    Main, None,
    Versions, Blocks, Inodes, Expectable,   \* of ModelFetch
    Ids, Revisions, Aliases, Declared, Pulls, MaxEpoch,   \* of Lifecycle
    ChannelSize, MaxRecords                 \* of Diagnostics

VARIABLES
    part,
    hub, ref, content, partial, dest, stamp, fetch,
    catalog, operations, served, next_epoch, prepared, task, pull, phase, todo,
    channel, emitted, delivered, lost, pending, emitter, decisions, worker, written, sent, flush

Cache == INSTANCE ModelFetch WITH Fetchers <- {f}, MayMove <- TRUE, MayCrash <- TRUE

Daemon == INSTANCE Lifecycle WITH models <- served

Records == INSTANCE Diagnostics WITH Capacity <- ChannelSize

ASSUME OperationsAssumption ==
    /\ Cache!FetchAssumption /\ Daemon!LifecycleAssumption
    /\ ResidencyAssumption /\ Records!DiagnosticsAssumption

\* The small instance: a file of three blocks in two revisions, of which a pull may
\* expect the digest ...
SmallExpectable == {None} \cup {[k \in 1..3 |-> <<v, k>>] : v \in {1, 2}}

\* ... a daemon with two models, one of them declared in user.yaml ...
SmallIds == <<"a", "b">>
SmallDeclared == << <<"a", "r1", {"latest"}>> >>

\* ... and two models, one of them in two epochs, that do not fit together with
\* their contexts.
SmallKeys == {<<"a", 1>>, <<"a", 2>>, <<"b", 1>>}
SmallWeight == [id \in {"a", "b"} |-> 2]

cacheVars == <<hub, ref, content, partial, dest, stamp, fetch>>
daemonVars == <<catalog, operations, served, next_epoch, prepared, task, pull, phase, todo>>
recordsVars == <<channel, emitted, delivered, lost, pending, emitter, decisions, worker, written,
                 sent, flush>>
operationsVars == <<part, cacheVars, daemonVars, vars, recordsVars>>

OperationsInit ==
    /\ part \in Parts
    /\ Cache!Init /\ (part # "cache" => hub = CHOOSE v \in Versions : TRUE)
    /\ Daemon!Init /\ Records!Init /\ Init

CacheStep ==
    part = "cache" /\ Cache!Next /\ UNCHANGED <<part, daemonVars, vars, recordsVars>>

DaemonStep ==
    part = "daemon" /\ Daemon!Next /\ UNCHANGED <<part, cacheVars, vars, recordsVars>>

ResidencyStep ==
    part = "models" /\ Next /\ UNCHANGED <<part, cacheVars, daemonVars, recordsVars>>

RecordsStep ==
    part = "records" /\ Records!Next /\ UNCHANGED <<part, cacheVars, daemonVars, vars>>

OperationsNext == CacheStep \/ DaemonStep \/ ResidencyStep \/ RecordsStep

OperationsSpec == OperationsInit /\ [][OperationsNext]_operationsVars

\* Nothing tells the threads apart.
Symmetry == Permutations(Threads)

-----------------------------------------------------------------------------
\* What a pull returns is the whole file of its revision and what the caller
\* expected, and what a later pull resumes from is a beginning of it, after
\* connections that broke, answers that ignored the range and processes that ended
\* at any moment.
FetchedIsWhole == Cache!FetchedIsWhole /\ Cache!PartialIsPrefix

\* However registrations, alias copies, failures and restarts follow each other: a
\* name means one model and an epoch one loaded revision; between operations the
\* engine has prepared exactly the epochs that are served, and the catalog has their
\* identity for the next start, with nothing that failed, was replaced or was removed
\* left in one of the three; and a pull recorded as complete has registered its model,
\* while one that failed has not left its operation running.
DaemonIsConsistent ==
    /\ Daemon!NamesAreUnique /\ Daemon!EpochsDistinct
    /\ Daemon!EngineFollows /\ Daemon!CatalogFollows
    /\ Daemon!OperationsFollow

\* Every record the full channel refused is reported once, and a flush that says so
\* has seen every record written whose emit had returned when it began.
RecordsAreAccounted == Records!LossesReported /\ Records!FlushDelivers

=============================================================================
