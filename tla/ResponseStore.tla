--------------------------- MODULE ResponseStore ---------------------------
(***************************************************************************)
(* Stored responses and their lineages: FileResponseResourceStore of       *)
(* crates/server/src/response_store.rs, ResponseService of responses.rs,   *)
(* the context updates of context_updates.rs and how the handlers of       *)
(* lib.rs use them, for one owner and one model.                           *)
(*                                                                         *)
(* A request reads the response it continues and all before it, one at a   *)
(* time, generates, and then publishes its own as the successor; others    *)
(* publish, delete and let expire in between.  A file is written beside    *)
(* its place, moved there and the directory synchronised: each may fail,   *)
(* the process may end between them, and what was not synchronised may be  *)
(* undone.                                                                 *)
(***************************************************************************)
EXTENDS Naturals, Sequences, FiniteSets

CONSTANTS
    Ids,          \* response ids, each used once
    Workers,      \* threads that serve requests
    None,         \* no response
    Retention,    \* RESPONSE_RETENTION_SECONDS
    Transient,    \* TRANSIENT_RESPONSE_CAPACITY
    LineageLimit, \* the 1024 of response_lineage_prompt
    MaxTime,      \* bound: time that passes
    MaxRevision   \* bound: revisions a context update may expect

\* what a module that instantiates this one assumes of the constants
ResponseStoreAssumption ==
    /\ {Retention, Transient, LineageLimit, MaxTime, MaxRevision} \subseteq Nat
    /\ None \notin Ids /\ None \notin Nat
    /\ None \notin [id : Ids, previous : Ids \cup {None}, revision : Nat]

VARIABLES
    recovered,  \* FileResponseResourceStore::recovered: record of an id, or None
    files,      \* resources/: record of an id, or None
    unsynced,   \* ids whose file or missing file a crash may undo
    transient,  \* TransientResponses: records in order of insertion
    created,    \* created_at of every response made, or None
    worker,     \* what each worker does
    acked,      \* stored responses whose publication was reported
    time,
    syncFails   \* whether a directory may fail to synchronise; never changes

vars == <<recovered, files, unsynced, transient, created, worker, acked, time, syncFails>>

Idle == [at |-> "idle"]

Stored == {id \in Ids : recovered[id] # None}

Expired(id) == time - created[id] >= Retention

SuccessorsIn(table, id) == {s \in Ids : table[s] # None /\ table[s].previous = id}

InTransient(id) == \E i \in DOMAIN transient : transient[i].id = id

Become(w, state) == worker' = [worker EXCEPT ![w] = state]

\* put_successor holds the write lock of `recovered` while it writes the file
Locked == \E w \in Workers : worker[w].at = "insert" /\ worker[w].record.previous # None

-----------------------------------------------------------------------------
(* The file store.                                                         *)

\* prune_expired, before every publication: the files of expired responses are
\* removed one after the other, until one fails or is not there
Prune(w, gone) ==
    LET expired == {id \in Stored : Expired(id)} IN
    /\ worker[w].at = "prune" /\ ~Locked
    /\ gone \subseteq expired /\ \A id \in gone : files[id] # None
    /\ files' = [id \in Ids |-> IF id \in gone THEN None ELSE files[id]]
    /\ recovered' = [id \in Ids |-> IF id \in gone THEN None ELSE recovered[id]]
    /\ acked' = acked \ gone
    /\ \/ gone = expired /\ unsynced' = unsynced \ gone
          /\ Become(w, [worker[w] EXCEPT !.at = "write"])
       \/ (gone # expired \/ (syncFails /\ gone # {})) /\ unsynced' = unsynced \cup gone
          /\ Become(w, Idle)
    /\ UNCHANGED <<transient, created, time>>

\* A slip: a base that has its successor is not refused.
RevisionOnly(record) ==
    /\ recovered[record.previous] # None
    /\ recovered[record.previous].revision = record.revision - 1

\* put_successor accepts: the base is there, at the expected revision, and has
\* no successor
Accepts(record) ==
    /\ recovered[record.previous] # None
    /\ recovered[record.previous].revision = record.revision - 1
    /\ SuccessorsIn(recovered, record.previous) = {}

\* write_resource: the file is in its place and synchronised, or in its place only
WriteResource(w, record) ==
    /\ files' = [files EXCEPT ![record.id] = record]
    /\ \/ /\ unsynced' = unsynced \ {record.id}
          /\ Become(w, [worker[w] EXCEPT !.at = "insert"])
       \/ /\ syncFails
          /\ unsynced' = unsynced \cup {record.id}
          /\ Become(w, Idle)
    /\ UNCHANGED <<recovered, transient, created, acked, time>>

\* put writes without the lock
Put(w) ==
    /\ worker[w].at = "write" /\ worker[w].record.previous = None
    /\ WriteResource(w, worker[w].record)

\* put_successor
PutSuccessor(w) ==
    /\ worker[w].at = "write" /\ ~Locked /\ worker[w].record.previous # None
    /\ Accepts(worker[w].record)
    /\ WriteResource(w, worker[w].record)

\* NotFound, StaleRevision or Conflict
PutRefused(w) ==
    /\ worker[w].at = "write" /\ ~Locked /\ worker[w].record.previous # None
    /\ ~Accepts(worker[w].record)
    /\ Become(w, Idle)
    /\ UNCHANGED <<recovered, files, unsynced, transient, created, acked, time>>

\* The written response is entered and its publication reported
InsertResource(w) ==
    LET record == worker[w].record IN
    /\ worker[w].at = "insert"
    /\ record.previous = None => ~Locked
    /\ recovered' = [recovered EXCEPT ![record.id] = record]
    /\ acked' = acked \cup {record.id}
    /\ Become(w, Idle)
    /\ UNCHANGED <<files, unsynced, transient, created, time>>

NoSuccessor(id) == recovered[id] # None /\ SuccessorsIn(recovered, id) = {}

\* delete of the store, after the one of the service: file first, then the entry
Delete(w) ==
    LET id == worker[w].id IN
    /\ worker[w].at = "delete" /\ ~Locked
    /\ NoSuccessor(id) /\ files[id] # None
    /\ files' = [files EXCEPT ![id] = None]
    /\ \/ /\ recovered' = [recovered EXCEPT ![id] = None]
          /\ unsynced' = unsynced \ {id}
          /\ acked' = acked \ {id}
       \/ syncFails /\ unsynced' = unsynced \cup {id} /\ UNCHANGED <<recovered, acked>>
    /\ Become(w, Idle)
    /\ UNCHANGED <<transient, created, time>>

-----------------------------------------------------------------------------
(* ResponseService and the handlers.                                       *)

\* The handler of a request: what it continues must be a stored response
Respond(w, base, store) ==
    /\ worker[w].at = "idle" /\ ~Locked
    /\ base # None => recovered[base] # None
    /\ Become(w, [at |-> "read", store |-> store, base |-> base, cursor |-> base, read |-> 0,
                  revision |-> IF base = None THEN 0 ELSE recovered[base].revision + 1])
    /\ UNCHANGED <<recovered, files, unsynced, transient, created, acked, time>>

\* response_lineage_prompt: one response of the lineage after the other; the
\* request fails when one is gone or there are too many
ReadLineage(w) ==
    LET cursor == worker[w].cursor IN
    /\ worker[w].at = "read" /\ ~Locked /\ cursor # None
    /\ Become(w, IF recovered[cursor] = None \/ worker[w].read = LineageLimit THEN Idle
                 ELSE [worker[w] EXCEPT !.cursor = recovered[cursor].previous, !.read = @ + 1])
    /\ UNCHANGED <<recovered, files, unsynced, transient, created, acked, time>>

\* The response is generated and completed (complete): a stored one is to be
\* published, as the successor if it continues another (remember)
Generated(w, id) ==
    /\ worker[w].at = "read" /\ worker[w].cursor = None
    /\ created[id] = None
    /\ created' = [created EXCEPT ![id] = time]
    /\ Become(w, [at |-> IF worker[w].store THEN "prune" ELSE "remember",
                  record |-> [id |-> id, previous |-> worker[w].base,
                              revision |-> worker[w].revision]])
    /\ UNCHANGED <<recovered, files, unsynced, transient, acked, time>>

\* remember, of one that is not to be stored: the oldest gives way
Remember(w) ==
    /\ worker[w].at = "remember"
    /\ transient' = LET all == Append(transient, worker[w].record)
                    IN  IF Len(all) > Transient THEN Tail(all) ELSE all
    /\ Become(w, Idle)
    /\ UNCHANGED <<recovered, files, unsynced, created, acked, time>>

\* context_updates::apply, with the revision the client expects
ContextUpdate(w, base, expected, id) ==
    /\ worker[w].at = "idle" /\ ~Locked
    /\ recovered[base] # None
    /\ created[id] = None
    /\ created' = [created EXCEPT ![id] = time]
    /\ Become(w, [at |-> "prune",
                  record |-> [id |-> id, previous |-> base, revision |-> expected + 1]])
    /\ UNCHANGED <<recovered, files, unsynced, transient, acked, time>>

\* The request fails or is stopped before it has published or deleted
Abandon(w) ==
    /\ worker[w].at \in {"read", "prune", "write", "delete"}
    /\ Become(w, Idle)
    /\ UNCHANGED <<recovered, files, unsynced, transient, created, acked, time>>

\* delete, of a response that was not stored
DeleteTransient(w, id) ==
    /\ worker[w].at = "idle"
    /\ InTransient(id)
    /\ transient' = SelectSeq(transient, LAMBDA r : r.id # id)
    /\ UNCHANGED <<recovered, files, unsynced, created, worker, acked, time>>

\* delete, of a stored one that nothing transient continues
DeleteLooksUp(w, id) ==
    /\ worker[w].at = "idle" /\ ~Locked
    /\ ~InTransient(id) /\ recovered[id] # None
    /\ \A i \in DOMAIN transient : transient[i].previous # id
    /\ Become(w, [at |-> "delete", id |-> id])
    /\ UNCHANGED <<recovered, files, unsynced, transient, created, acked, time>>

-----------------------------------------------------------------------------
\* The process ends and open reads the files again: what was not synchronised
\* may be undone, expired files are removed
Restart ==
    \E undone \in SUBSET unsynced :
        LET kept   == [id \in Ids |-> IF id \notin undone THEN files[id]
                                      ELSE IF files[id] # None THEN None ELSE recovered[id]]
            opened == [id \in Ids |-> IF kept[id] # None /\ Expired(id) THEN None ELSE kept[id]]
        IN  /\ recovered' = opened
            /\ files' = opened
            /\ unsynced' = {}
            /\ transient' = <<>>
            /\ worker' = [w \in Workers |-> Idle]
            /\ acked' = {id \in acked : ~Expired(id)}
            /\ UNCHANGED <<created, time>>

Tick ==
    /\ time < MaxTime
    /\ time' = time + 1
    /\ UNCHANGED <<recovered, files, unsynced, transient, created, worker, acked>>

Init ==
    /\ recovered = [id \in Ids |-> None]
    /\ files = [id \in Ids |-> None]
    /\ unsynced = {}
    /\ transient = <<>>
    /\ created = [id \in Ids |-> None]
    /\ worker = [w \in Workers |-> Idle]
    /\ acked = {}
    /\ time = 0
    /\ syncFails \in BOOLEAN

Work(w) ==
    \/ \E base \in Ids \cup {None}, store \in BOOLEAN : Respond(w, base, store)
    \/ ReadLineage(w)
    \/ \E id \in Ids : Generated(w, id)
    \/ \E id, base \in Ids, expected \in 0..MaxRevision : ContextUpdate(w, base, expected, id)
    \/ Remember(w) \/ Put(w) \/ PutSuccessor(w) \/ PutRefused(w) \/ InsertResource(w)
    \/ \E gone \in SUBSET Ids : Prune(w, gone)
    \/ Abandon(w)
    \/ \E id \in Ids : DeleteTransient(w, id) \/ DeleteLooksUp(w, id)
    \/ Delete(w)

Next == ((\E w \in Workers : Work(w)) \/ Restart \/ Tick) /\ UNCHANGED syncFails

Spec == Init /\ [][Next]_vars

-----------------------------------------------------------------------------
(* Properties.                                                             *)

\* A response has one successor, in memory and on disk: requests and context
\* updates that race to continue the same response do not fork its lineage
\* (put_successor), not by a restart between the file and its entry either.
OneSuccessor == \A id \in Ids : Cardinality(SuccessorsIn(files, id)) <= 1

\* A revision is the length of the lineage before it, whoever published it and
\* whatever revision a client of context_updates::apply expected.
RevisionsFollow ==
    \A id \in Stored :
        LET base == recovered[id].previous IN
        IF base = None THEN recovered[id].revision = 0
        ELSE recovered[base] # None => recovered[id].revision = recovered[base].revision + 1

\* What a stored response continues goes only by its own expiry: no delete,
\* however it races with a publication or a restart, takes it out.
BaseKept ==
    \A id \in Stored :
        LET base == recovered[id].previous IN
        base # None => recovered[base] # None \/ Expired(base)

\* Reported publications and reported deletions survive restarts: the directory
\* holds what the memory holds, and what a write has not reported yet.
ReportedIsDurable ==
    /\ acked \subseteq Stored
    /\ \A id \in Ids : recovered[id] # files[id] =>
         \E w \in Workers : worker[w].at = "insert" /\ worker[w].record.id = id

=============================================================================
