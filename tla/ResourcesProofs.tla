-------------------------- MODULE ResourcesProofs ---------------------------
(***************************************************************************)
(* Theorems about what clients refer to later, for every value of the      *)
(* constants: stored responses and their lineages, contexts that several   *)
(* inferences update, and the rate of declarations.                        *)
(***************************************************************************)
EXTENDS MCResources, Sums, Sequences

-----------------------------------------------------------------------------
(* Stored responses.                                                       *)

Record == [id : Ids, previous : Ids \cup {None}, revision : Nat]

\* What a worker does, with a record from prune on
Holds(w) == worker[w].at \in {"prune", "write", "insert", "remember"}

ReadState == [at : {"read"}, store : BOOLEAN, base : Ids \cup {None}, cursor : Ids \cup {None},
              read : Nat, revision : Nat]
RecordState == [at : {"prune", "write", "insert", "remember"}, record : Record]
DeleteState == [at : {"delete"}, id : Ids]
WorkerState == {Responses!Idle} \cup ReadState \cup RecordState \cup DeleteState

ResponsesTypeOK ==
    /\ recovered \in [Ids -> Record \cup {None}] /\ files \in [Ids -> Record \cup {None}]
    /\ \A id \in Ids : \A x \in {recovered[id], files[id]} \ {None} : x.id = id
    /\ created \in [Ids -> Nat \cup {None}]
    /\ worker \in [Workers -> WorkerState]
    /\ time \in Nat

\* Where a lineage begins, revisions do.
FirstIsZero ==
    \A w \in Workers :
        /\ worker[w].at = "read" /\ worker[w].base = None => worker[w].revision = 0
        /\ Holds(w) /\ worker[w].record.previous = None => worker[w].record.revision = 0

\* The records of an id that are kept
RecordsOf(id) == {recovered[id], files[id]} \ {None}

\* The id is not yet that of a record which is kept.
Fresh(id) == created[id] = None \/ \E w \in Workers : /\ worker[w].at \in {"prune", "write", "remember"}
                                                     /\ worker[w].record.id = id

\* Memory and directory hold the same record of an id, but for one written and not
\* yet entered.
Agree == \A id \in Ids : recovered[id] # None /\ files[id] # None => recovered[id] = files[id]

\* A record has the revision after that of what it continues, if that is kept.
Follows ==
    \A id \in Ids : \A x \in RecordsOf(id) :
        IF x.previous = None THEN x.revision = 0
        ELSE \A y \in RecordsOf(x.previous) : x.revision = y.revision + 1

\* Nothing continues an id that has no record yet.
FreshUnseen ==
    \A id \in Ids : Fresh(id) =>
        /\ recovered[id] = None /\ files[id] = None
        /\ \A s \in Ids : \A x \in RecordsOf(s) : x.previous # id
        /\ \A w \in Workers : /\ Holds(w) => worker[w].record.previous # id
                              /\ worker[w].at = "read" => worker[w].base # id

\* A record has one worker, and is made once.
OneHolder ==
    \A w \in Workers : Holds(w) =>
        /\ created[worker[w].record.id] # None
        /\ \A v \in Workers : Holds(v) /\ v # w => worker[v].record.id # worker[w].record.id

\* A worker enters what it has written.
InsertWritten ==
    \A w \in Workers : worker[w].at = "insert" =>
        /\ files[worker[w].record.id] = worker[w].record
        /\ recovered[worker[w].record.id] = None

LineageInv ==
    /\ ResponsesTypeOK /\ FirstIsZero
    /\ Agree /\ Follows /\ FreshUnseen /\ OneHolder /\ InsertWritten

\* Where directories synchronise: the directory is ahead of memory only by what a
\* worker has written ...
AheadOnlyByInsert ==
    \A id \in Ids : recovered[id] # files[id] =>
        \E w \in Workers : worker[w].at = "insert" /\ worker[w].record.id = id

\* ... one successor is written at a time, while its base stays ...
OneWriter ==
    \A w \in Workers : worker[w].at = "insert" /\ worker[w].record.previous # None =>
        /\ recovered[worker[w].record.previous] # None
        /\ \A v \in Workers : worker[v].at = "insert" /\ worker[v].record.previous # None => v = w

\* ... and what a crash may undo is removed already.
UndoneIsGone == \A id \in Ids \cap unsynced : recovered[id] = None /\ files[id] = None

SuccessorsUnique ==
    \A id \in Ids, s, t \in Ids :
        s \in Responses!SuccessorsIn(files, id) /\ t \in Responses!SuccessorsIn(files, id) => s = t

\* What a stored response continues is there, or went when its time was over.
BaseThere ==
    \A id \in Responses!Stored :
        LET base == recovered[id].previous IN
        base # None => recovered[base] # None \/ (created[base] # None /\ Responses!Expired(base))

KeptIsCreated == \A id \in Ids : RecordsOf(id) # {} => created[id] # None

AckedIsStored == acked \subseteq Responses!Stored

DurableInv ==
    /\ AheadOnlyByInsert /\ OneWriter /\ UndoneIsGone /\ SuccessorsUnique /\ BaseThere
    /\ KeptIsCreated /\ AckedIsStored

LEMMA NoneIsNone == None \notin Ids /\ None \notin Nat /\ None \notin Record
  BY ResourcesAssumption DEF Responses!ResponseStoreAssumption, Record

\* The stage of a worker says which fields its state has.
LEMMA Stages ==
    ASSUME NEW s \in WorkerState
    PROVE  /\ s.at = "idle" => s = Responses!Idle
           /\ s.at = "read" => s \in ReadState
           /\ s.at \in {"prune", "write", "insert", "remember"} => s \in RecordState
           /\ s.at = "delete" => s \in DeleteState
  BY DEF WorkerState, ReadState, RecordState, DeleteState, Responses!Idle

LEMMA ReadBegun ==
    ASSUME NEW base \in Ids \cup {None}, NEW store \in BOOLEAN, NEW revision \in Nat
    PROVE  [at |-> "read", store |-> store, base |-> base, cursor |-> base, read |-> 0,
            revision |-> revision] \in ReadState
  BY DEF ReadState

LEMMA ReadOn ==
    ASSUME NEW s \in ReadState, NEW cursor \in Ids \cup {None}
    PROVE  LET t == [s EXCEPT !.cursor = cursor, !.read = @ + 1] IN
           t \in ReadState /\ t.base = s.base /\ t.revision = s.revision
  <1>1. PICK n \in Nat : n = s.read + 1
    BY DEF ReadState
  <1> DEFINE t == [s EXCEPT !.cursor = cursor, !.read = n]
  <1>2. t \in ReadState
    BY Zenon DEF ReadState
  <1>3. t.base = s.base /\ t.revision = s.revision
    BY DEF ReadState
  <1> QED  BY <1>1, <1>2, <1>3

-----------------------------------------------------------------------------
(* Two kinds of steps change nothing that is kept: one that only moves a   *)
(* worker, and one in which a worker begins to hold a record.              *)

Turns(w) ==
    /\ UNCHANGED <<recovered, files, created, unsynced, acked, time>>
    /\ worker[w].at # "insert"
    /\ \E s \in {Responses!Idle} \cup ReadState \cup DeleteState :
         /\ worker' = [worker EXCEPT ![w] = s]
         /\ s.at = "read" => \/ s.base = None /\ s.revision = 0
                             \/ s.base # None /\ recovered[s.base] # None
                             \/ /\ worker[w].at = "read"
                                /\ s.base = worker[w].base /\ s.revision = worker[w].revision

Begins(w) ==
    /\ UNCHANGED <<recovered, files, unsynced, acked, time>>
    /\ worker[w].at \in {"idle", "read"}
    /\ \E s \in RecordState :
         /\ s.at \in {"prune", "remember"}
         /\ worker' = [worker EXCEPT ![w] = s]
         /\ created[s.record.id] = None
         /\ created' = [created EXCEPT ![s.record.id] = time]
         /\ s.record.previous = None => s.record.revision = 0
         /\ s.record.previous # None =>
               \/ recovered[s.record.previous] # None
               \/ worker[w].at = "read" /\ s.record.previous = worker[w].base

\* Every step is one of these, or changes what is kept.
LEMMA KindsOfSteps ==
    ASSUME ResponsesTypeOK, FirstIsZero, Responses!Next
    PROVE  \/ Responses!Restart \/ Responses!Tick
           \/ \E w \in Workers :
                \/ Turns(w) \/ Begins(w)
                \/ \E gone \in SUBSET Ids : Responses!Prune(w, gone)
                \/ Responses!Put(w) \/ Responses!PutSuccessor(w)
                \/ Responses!InsertResource(w) \/ Responses!Delete(w)
  <1> SUFFICES ASSUME NEW w \in Workers, Responses!Work(w)
               PROVE  \/ Turns(w) \/ Begins(w)
                      \/ \E gone \in SUBSET Ids : Responses!Prune(w, gone)
                      \/ Responses!Put(w) \/ Responses!PutSuccessor(w)
                      \/ Responses!InsertResource(w) \/ Responses!Delete(w)
    BY DEF Responses!Next
  <1>0. /\ worker[w] \in WorkerState
        /\ worker[w].at = "idle" => worker[w] = Responses!Idle
        /\ worker[w].at = "read" => worker[w] \in ReadState
        /\ worker[w].at \in {"prune", "write", "insert", "remember"} => worker[w] \in RecordState
    BY Stages DEF ResponsesTypeOK
  <1>i. Responses!Idle \in {Responses!Idle} \cup ReadState \cup DeleteState /\ Responses!Idle.at = "idle"
    BY DEF Responses!Idle
  <1>1. ASSUME NEW base \in Ids \cup {None}, NEW store \in BOOLEAN, Responses!Respond(w, base, store)
        PROVE  Turns(w)
    <2> DEFINE r == IF base = None THEN 0 ELSE recovered[base].revision + 1
               s == [at |-> "read", store |-> store, base |-> base, cursor |-> base, read |-> 0,
                     revision |-> r]
    <2>1. s \in ReadState
      <3>1. r \in Nat
        <4>1. CASE base = None
          BY <4>1
        <4>2. CASE base # None
          <5>1. recovered[base] \in Record
            BY <1>1, <4>2 DEF ResponsesTypeOK, Responses!Respond
          <5> QED  BY <4>2, <5>1 DEF Record
        <4> QED  BY <4>1, <4>2
      <3> HIDE DEF r
      <3>2. [at |-> "read", store |-> store, base |-> base, cursor |-> base, read |-> 0,
             revision |-> r] \in ReadState
        BY <3>1, ReadBegun, Zenon
      <3> QED  BY <3>2
    <2>2. s.base = base /\ s.revision = r /\ (base = None => r = 0)
      OBVIOUS
    <2>3. UNCHANGED <<recovered, files, created, unsynced, acked, time>> /\ worker[w].at = "idle"
          /\ (base # None => recovered[base] # None) /\ worker' = [worker EXCEPT ![w] = s]
      BY <1>1 DEF Responses!Respond, Responses!Become
    <2> HIDE DEF s, r
    <2> s \in {Responses!Idle} \cup ReadState \cup DeleteState
      BY <2>1
    <2>4. \E t \in {Responses!Idle} \cup ReadState \cup DeleteState :
              /\ worker' = [worker EXCEPT ![w] = t]
              /\ t.at = "read" => \/ t.base = None /\ t.revision = 0
                                  \/ t.base # None /\ recovered[t.base] # None
                                  \/ /\ worker[w].at = "read"
                                     /\ t.base = worker[w].base /\ t.revision = worker[w].revision
      <3> WITNESS s \in {Responses!Idle} \cup ReadState \cup DeleteState
      <3> QED  BY <2>2, <2>3
    <2> QED  BY <2>3, <2>4 DEF Turns
  <1>2. ASSUME Responses!ReadLineage(w) PROVE Turns(w)
    <2> DEFINE x == recovered[worker[w].cursor]
               s == [worker[w] EXCEPT !.cursor = x.previous, !.read = @ + 1]
    <2>1. worker[w] \in ReadState /\ worker[w].at = "read" /\ worker[w].cursor \in Ids
      BY <1>2, <1>0 DEF ReadState, Responses!ReadLineage
    <2>2. ASSUME x # None
          PROVE  s \in ReadState /\ s.base = worker[w].base /\ s.revision = worker[w].revision
      <3>1. x.previous \in Ids \cup {None}
        BY <2>1, <2>2 DEF ResponsesTypeOK, Record
      <3> HIDE DEF x
      <3> QED  BY <2>1, <3>1, ReadOn
    <2>3. UNCHANGED <<recovered, files, created, unsynced, acked, time>>
      BY <1>2 DEF Responses!ReadLineage
    <2>4. CASE worker' = [worker EXCEPT ![w] = Responses!Idle]
      BY <2>1, <2>3, <2>4, <1>i DEF Turns
    <2>5. CASE x # None /\ worker' = [worker EXCEPT ![w] = s]
      <3> HIDE DEF s, x
      <3>1. s \in ReadState /\ s.base = worker[w].base /\ s.revision = worker[w].revision
        BY <2>2, <2>5
      <3>2. \E t \in {Responses!Idle} \cup ReadState \cup DeleteState :
              /\ worker' = [worker EXCEPT ![w] = t]
              /\ t.at = "read" => \/ t.base = None /\ t.revision = 0
                                  \/ t.base # None /\ recovered[t.base] # None
                                  \/ /\ worker[w].at = "read"
                                     /\ t.base = worker[w].base /\ t.revision = worker[w].revision
        <4> s \in {Responses!Idle} \cup ReadState \cup DeleteState
          BY <3>1
        <4> WITNESS s \in {Responses!Idle} \cup ReadState \cup DeleteState
        <4> QED  BY <2>1, <2>5, <3>1
      <3> QED  BY <2>1, <2>3, <3>2 DEF Turns
    <2>6. \/ worker' = [worker EXCEPT ![w] = Responses!Idle]
          \/ x # None /\ worker' = [worker EXCEPT ![w] = s]
      BY <1>2 DEF Responses!ReadLineage, Responses!Become
    <2> QED  BY <2>4, <2>5, <2>6
  <1>3. ASSUME NEW id \in Ids, Responses!Generated(w, id) PROVE Begins(w)
    <2> DEFINE s == [at |-> IF worker[w].store THEN "prune" ELSE "remember",
                     record |-> [id |-> id, previous |-> worker[w].base,
                                 revision |-> worker[w].revision]]
    <2>1. s \in RecordState /\ s.at \in {"prune", "remember"} /\ s.record.id = id
          /\ s.record.previous = worker[w].base /\ s.record.revision = worker[w].revision
      BY <1>3, <1>0 DEF ReadState, RecordState, Record, Responses!Generated
    <2>2. s.record.previous = None => s.record.revision = 0
      BY <1>3, <2>1 DEF FirstIsZero, Responses!Generated
    <2> QED  BY <1>3, <2>1, <2>2 DEF Begins, Responses!Generated, Responses!Become
  <1>4. ASSUME NEW id \in Ids, NEW base \in Ids, NEW expected \in 0..MaxRevision,
               Responses!ContextUpdate(w, base, expected, id)
        PROVE  Begins(w)
    <2> DEFINE s == [at |-> "prune",
                     record |-> [id |-> id, previous |-> base, revision |-> expected + 1]]
    <2>1. s \in RecordState /\ s.at = "prune" /\ s.record.id = id /\ s.record.previous = base
      BY ResourcesAssumption DEF RecordState, Record, Responses!ResponseStoreAssumption
    <2>2. base # None
      BY NoneIsNone
    <2> QED  BY <1>4, <2>1, <2>2 DEF Begins, Responses!ContextUpdate, Responses!Become
  <1>5. ASSUME Responses!Remember(w) PROVE Turns(w)
    BY <1>5, <1>i DEF Turns, Responses!Remember, Responses!Become
  <1>6. ASSUME Responses!PutRefused(w) PROVE Turns(w)
    BY <1>6, <1>i DEF Turns, Responses!PutRefused, Responses!Become
  <1>7. ASSUME Responses!Abandon(w) PROVE Turns(w)
    BY <1>7, <1>i DEF Turns, Responses!Abandon, Responses!Become
  <1>8. ASSUME NEW id \in Ids, Responses!DeleteTransient(w, id) PROVE Turns(w)
    <2>1. worker' = [worker EXCEPT ![w] = Responses!Idle]
      BY <1>8, <1>0 DEF Responses!DeleteTransient, ResponsesTypeOK
    <2> QED  BY <1>8, <2>1, <1>i DEF Turns, Responses!DeleteTransient
  <1>9. ASSUME NEW id \in Ids, Responses!DeleteLooksUp(w, id) PROVE Turns(w)
    <2> DEFINE s == [at |-> "delete", id |-> id]
    <2>1. s \in DeleteState /\ s.at = "delete"
      BY DEF DeleteState
    <2> QED  BY <1>9, <2>1 DEF Turns, Responses!DeleteLooksUp, Responses!Become
  <1> QED  BY <1>1, <1>2, <1>3, <1>4, <1>5, <1>6, <1>7, <1>8, <1>9 DEF Responses!Work

-----------------------------------------------------------------------------
(* What is kept of lineages is preserved by each kind of step.             *)

\* Records that go do not disturb those that stay.
LEMMA FewerFollow ==
    ASSUME ResponsesTypeOK, Follows, \A id \in Ids : RecordsOf(id)' \subseteq RecordsOf(id)
    PROVE  Follows'
  <1> SUFFICES ASSUME NEW id \in Ids, NEW x \in RecordsOf(id)'
               PROVE  IF x.previous = None THEN x.revision = 0
                      ELSE \A y \in RecordsOf(x.previous)' : x.revision = y.revision + 1
    BY DEF Follows
  <1>1. x \in RecordsOf(id)
    OBVIOUS
  <1>2. x \in Record
    BY <1>1 DEF RecordsOf, ResponsesTypeOK
  <1>3. x.previous # None => x.previous \in Ids
    BY <1>2 DEF Record
  <1> QED  BY <1>1, <1>3 DEF Follows

\* An id without a record stays unseen when no id becomes fresh, no record comes, and
\* what workers continue has a record or was continued before.
LEMMA FreshStays ==
    ASSUME FreshUnseen,
           \A id \in Ids : RecordsOf(id)' \subseteq RecordsOf(id),
           \A id \in Ids : Fresh(id)' => Fresh(id),
           \A v \in Workers :
               /\ Holds(v)' => \/ Holds(v) /\ worker'[v].record = worker[v].record
                               \/ worker'[v].record.previous = None
                               \/ recovered[worker'[v].record.previous] # None
                               \/ worker[v].at = "read" /\ worker'[v].record.previous = worker[v].base
               /\ worker'[v].at = "read" => \/ worker'[v].base = None
                                            \/ recovered[worker'[v].base] # None
                                            \/ worker[v].at = "read" /\ worker'[v].base = worker[v].base
    PROVE  FreshUnseen'
  <1> SUFFICES ASSUME NEW id \in Ids, Fresh(id)'
               PROVE  /\ recovered'[id] = None /\ files'[id] = None
                      /\ \A t \in Ids : \A x \in RecordsOf(t)' : x.previous # id
                      /\ \A v \in Workers : /\ Holds(v)' => worker'[v].record.previous # id
                                            /\ worker'[v].at = "read" => worker'[v].base # id
    BY DEF FreshUnseen
  <1>0. Fresh(id) /\ id # None
    BY NoneIsNone
  <1>1. recovered[id] = None /\ files[id] = None
    BY <1>0 DEF FreshUnseen
  <1>2. recovered'[id] = None /\ files'[id] = None
    BY <1>1 DEF RecordsOf
  <1>3. \A t \in Ids : \A x \in RecordsOf(t)' : x.previous # id
    BY <1>0 DEF FreshUnseen
  <1>4. ASSUME NEW v \in Workers
        PROVE  /\ Holds(v)' => worker'[v].record.previous # id
               /\ worker'[v].at = "read" => worker'[v].base # id
    BY <1>0, <1>1, <1>4 DEF FreshUnseen
  <1> QED  BY <1>2, <1>3, <1>4

LEMMA TurnsKeep ==
    ASSUME LineageInv, NEW w \in Workers, Turns(w)
    PROVE  LineageInv'
  <1>0. ResponsesTypeOK /\ FirstIsZero /\ Agree /\ Follows /\ FreshUnseen /\ OneHolder /\ InsertWritten
    BY DEF LineageInv
  <1>1. PICK s \in {Responses!Idle} \cup ReadState \cup DeleteState :
           /\ worker' = [worker EXCEPT ![w] = s]
           /\ s.at = "read" => \/ s.base = None /\ s.revision = 0
                               \/ s.base # None /\ recovered[s.base] # None
                               \/ /\ worker[w].at = "read"
                                  /\ s.base = worker[w].base /\ s.revision = worker[w].revision
    BY DEF Turns
  <1>2. UNCHANGED <<recovered, files, created, unsynced, acked, time>>
    BY DEF Turns
  <1>3. /\ worker'[w] = s /\ s \in WorkerState /\ s.at \in {"idle", "read", "delete"}
        /\ \A v \in Workers : v # w => worker'[v] = worker[v]
    BY <1>0, <1>1 DEF ResponsesTypeOK, WorkerState, ReadState, DeleteState, Responses!Idle
  <1>4. ~Holds(w)' /\ \A v \in Workers : Holds(v)' => v # w /\ Holds(v) /\ worker'[v] = worker[v]
    BY <1>3 DEF Holds
  <1>5. \A id \in Ids : RecordsOf(id)' = RecordsOf(id) /\ (Fresh(id)' => Fresh(id))
    BY <1>2, <1>3 DEF RecordsOf, Fresh
  <1>6. ResponsesTypeOK'
    BY <1>0, <1>1, <1>2, <1>3 DEF ResponsesTypeOK
  <1>7. FirstIsZero'
    BY <1>0, <1>1, <1>3, <1>4 DEF FirstIsZero
  <1>8. Agree'
    BY <1>0, <1>2 DEF Agree
  <1>9. Follows'
    BY <1>0, <1>5, FewerFollow
  <1>10. FreshUnseen'
    <2>1. \A v \in Workers :
               /\ Holds(v)' => Holds(v) /\ worker'[v].record = worker[v].record
               /\ worker'[v].at = "read" => \/ worker'[v].base = None
                                            \/ recovered[worker'[v].base] # None
                                            \/ worker[v].at = "read" /\ worker'[v].base = worker[v].base
      BY <1>1, <1>3, <1>4
    <2> QED  BY <1>0, <1>5, <2>1, FreshStays
  <1>11. OneHolder'
    BY <1>0, <1>2, <1>4 DEF OneHolder
  <1>12. InsertWritten'
    BY <1>0, <1>2, <1>3, <1>4 DEF InsertWritten, Holds
  <1> QED  BY <1>6, <1>7, <1>8, <1>9, <1>10, <1>11, <1>12 DEF LineageInv

LEMMA BeginsKeep ==
    ASSUME LineageInv, NEW w \in Workers, Begins(w)
    PROVE  LineageInv'
  <1>0. ResponsesTypeOK /\ FirstIsZero /\ Agree /\ Follows /\ FreshUnseen /\ OneHolder /\ InsertWritten
    BY DEF LineageInv
  <1>1. PICK s \in RecordState :
         /\ s.at \in {"prune", "remember"}
         /\ worker' = [worker EXCEPT ![w] = s]
         /\ created[s.record.id] = None
         /\ created' = [created EXCEPT ![s.record.id] = time]
         /\ s.record.previous = None => s.record.revision = 0
         /\ s.record.previous # None =>
               \/ recovered[s.record.previous] # None
               \/ worker[w].at = "read" /\ s.record.previous = worker[w].base
    BY DEF Begins
  <1>2. UNCHANGED <<recovered, files, unsynced, acked, time>> /\ worker[w].at \in {"idle", "read"}
    BY DEF Begins
  <1>3. /\ worker'[w] = s /\ s \in WorkerState /\ s.record.id \in Ids
        /\ \A v \in Workers : v # w => worker'[v] = worker[v]
    BY <1>0, <1>1 DEF ResponsesTypeOK, WorkerState, RecordState, Record
  <1>4. \A v \in Workers : Holds(v)' /\ v # w => Holds(v) /\ worker'[v] = worker[v]
    BY <1>3 DEF Holds
  <1>a. /\ created' \in [Ids -> Nat \cup {None}] /\ created'[s.record.id] = time /\ time # None
        /\ \A id \in Ids : id # s.record.id => created'[id] = created[id]
    BY <1>0, <1>1, <1>3, NoneIsNone DEF ResponsesTypeOK
  <1>5. \A id \in Ids : RecordsOf(id)' = RecordsOf(id) /\ (Fresh(id)' => Fresh(id))
    <2> SUFFICES ASSUME NEW id \in Ids, Fresh(id)' PROVE Fresh(id)
      BY <1>2 DEF RecordsOf
    <2>1. CASE id = s.record.id
      BY <1>1, <2>1 DEF Fresh
    <2>2. CASE id # s.record.id
      BY <1>3, <1>a, <2>2 DEF Fresh
    <2> QED  BY <2>1, <2>2
  <1>6. ResponsesTypeOK'
    BY <1>0, <1>1, <1>2, <1>3, <1>a DEF ResponsesTypeOK
  <1>7. FirstIsZero'
    BY <1>0, <1>1, <1>3, <1>4 DEF FirstIsZero, Holds
  <1>8. Agree'
    BY <1>0, <1>2 DEF Agree
  <1>9. Follows'
    BY <1>0, <1>5, FewerFollow
  <1>10. FreshUnseen'
    <2>1. \A v \in Workers :
               /\ Holds(v)' => \/ Holds(v) /\ worker'[v].record = worker[v].record
                               \/ worker'[v].record.previous = None
                               \/ recovered[worker'[v].record.previous] # None
                               \/ worker[v].at = "read" /\ worker'[v].record.previous = worker[v].base
               /\ worker'[v].at = "read" => worker[v].at = "read" /\ worker'[v].base = worker[v].base
      BY <1>1, <1>3, <1>4
    <2> QED  BY <1>0, <1>5, <2>1, FreshStays
  <1>11. OneHolder'
    <2>1. \A v \in Workers : Holds(v) => worker[v].record.id # s.record.id
      BY <1>0, <1>1 DEF OneHolder
    <2>2. \A v \in Workers : Holds(v) => worker[v].record.id \in Ids
      BY <1>0, Stages DEF ResponsesTypeOK, Holds, RecordState, Record
    <2>3. ASSUME NEW v \in Workers, Holds(v)'
          PROVE  /\ created'[worker'[v].record.id] # None
                 /\ \A u \in Workers : Holds(u)' /\ u # v => worker'[u].record.id # worker'[v].record.id
      <3>1. created'[worker'[v].record.id] # None
        BY <1>0, <1>3, <1>4, <1>a, <2>1, <2>2, <2>3 DEF OneHolder
      <3>2. ASSUME NEW u \in Workers, Holds(u)', u # v
            PROVE  worker'[u].record.id # worker'[v].record.id
        BY <1>0, <1>3, <1>4, <2>1, <2>3, <3>2 DEF OneHolder
      <3> QED  BY <3>1, <3>2
    <2> QED  BY <2>3 DEF OneHolder
  <1>12. InsertWritten'
    BY <1>0, <1>1, <1>2, <1>3, <1>4 DEF InsertWritten
  <1> QED  BY <1>6, <1>7, <1>8, <1>9, <1>10, <1>11, <1>12 DEF LineageInv

LEMMA PruneKeeps ==
    ASSUME LineageInv, NEW w \in Workers, NEW gone \in SUBSET Ids, Responses!Prune(w, gone)
    PROVE  LineageInv'
  <1>0. ResponsesTypeOK /\ FirstIsZero /\ Agree /\ Follows /\ FreshUnseen /\ OneHolder /\ InsertWritten
    BY DEF LineageInv
  <1>1. /\ files' = [id \in Ids |-> IF id \in gone THEN None ELSE files[id]]
        /\ recovered' = [id \in Ids |-> IF id \in gone THEN None ELSE recovered[id]]
        /\ created' = created /\ time' = time /\ worker[w].at = "prune"
        /\ \A id \in gone : recovered[id] # None
    BY DEF Responses!Prune, Responses!Stored
  <1>2. worker[w] \in RecordState
    BY <1>0, <1>1, Stages DEF ResponsesTypeOK
  <1>3. PICK s \in WorkerState : /\ worker' = [worker EXCEPT ![w] = s]
                                 /\ s.at \in {"idle", "write"}
                                 /\ s.at = "write" => s.record = worker[w].record
    <2>1. Responses!Idle \in WorkerState /\ Responses!Idle.at = "idle"
      BY DEF WorkerState, Responses!Idle
    <2> DEFINE t == [worker[w] EXCEPT !.at = "write"]
    <2>2. t \in WorkerState /\ t.at = "write" /\ t.record = worker[w].record
      BY <1>2 DEF RecordState, WorkerState
    <2>3. worker' = [worker EXCEPT ![w] = Responses!Idle] \/ worker' = [worker EXCEPT ![w] = t]
      BY DEF Responses!Prune, Responses!Become
    <2> QED  BY <2>1, <2>2, <2>3
  <1>4. worker'[w] = s /\ \A v \in Workers : v # w => worker'[v] = worker[v]
    BY <1>0, <1>3 DEF ResponsesTypeOK
  <1>5. \A v \in Workers : Holds(v)' => Holds(v) /\ worker'[v].record = worker[v].record
    BY <1>1, <1>3, <1>4 DEF Holds
  <1>6. \A id \in Ids : RecordsOf(id)' \subseteq RecordsOf(id) /\ (Fresh(id)' => Fresh(id))
    <2>1. \A id \in Ids : RecordsOf(id)' \subseteq RecordsOf(id)
      BY <1>1 DEF RecordsOf
    <2>2. \A id \in Ids : Fresh(id)' => Fresh(id)
      BY <1>1, <1>3, <1>4 DEF Fresh
    <2> QED  BY <2>1, <2>2
  <1>7. ResponsesTypeOK'
    <2>1. /\ files' \in [Ids -> Record \cup {None}] /\ recovered' \in [Ids -> Record \cup {None}]
          /\ \A id \in Ids : files'[id] \in {files[id], None} /\ recovered'[id] \in {recovered[id], None}
      BY <1>0, <1>1 DEF ResponsesTypeOK
    <2> QED  BY <1>0, <1>1, <1>3, <2>1 DEF ResponsesTypeOK
  <1>8. FirstIsZero'
    BY <1>0, <1>3, <1>4, <1>5 DEF FirstIsZero
  <1>9. Agree'
    BY <1>0, <1>1 DEF Agree
  <1>10. Follows'
    BY <1>0, <1>6, FewerFollow
  <1>11. FreshUnseen'
    <2>1. \A v \in Workers :
               /\ Holds(v)' => Holds(v) /\ worker'[v].record = worker[v].record
               /\ worker'[v].at = "read" => worker[v].at = "read" /\ worker'[v].base = worker[v].base
      BY <1>3, <1>4, <1>5
    <2> QED  BY <1>0, <1>6, <2>1, FreshStays
  <1>12. OneHolder'
    BY <1>0, <1>1, <1>5 DEF OneHolder
  <1>13. InsertWritten'
    <2> SUFFICES ASSUME NEW v \in Workers, worker'[v].at = "insert"
                 PROVE  /\ files'[worker'[v].record.id] = worker'[v].record
                        /\ recovered'[worker'[v].record.id] = None
      BY DEF InsertWritten
    <2>1. worker'[v] = worker[v]
      BY <1>3, <1>4
    <2>2. files[worker[v].record.id] = worker[v].record /\ recovered[worker[v].record.id] = None
      BY <1>0, <2>1 DEF InsertWritten
    <2>3. worker[v].record.id \in Ids
      BY <1>0, <2>1, Stages DEF ResponsesTypeOK, RecordState, Record
    <2> QED  BY <1>1, <2>1, <2>2, <2>3
  <1> QED  BY <1>7, <1>8, <1>9, <1>10, <1>11, <1>12, <1>13 DEF LineageInv

\* A file is written: as the first of a lineage, or after a base that is there at the
\* revision before.
LEMMA WriteKeeps ==
    ASSUME LineageInv, NEW w \in Workers, Responses!Put(w) \/ Responses!PutSuccessor(w)
    PROVE  LineageInv'
  <1> DEFINE r == worker[w].record
  <1>0. ResponsesTypeOK /\ FirstIsZero /\ Agree /\ Follows /\ FreshUnseen /\ OneHolder /\ InsertWritten
    BY DEF LineageInv
  <1>1. /\ worker[w].at = "write" /\ Holds(w)
        /\ files' = [files EXCEPT ![r.id] = r]
        /\ UNCHANGED <<recovered, created, time>>
    BY DEF Responses!Put, Responses!PutSuccessor, Responses!WriteResource, Holds
  <1>2. worker[w] \in RecordState /\ r \in Record /\ r.id \in Ids /\ r.previous \in Ids \cup {None}
        /\ r.revision \in Nat /\ r # None
    BY <1>0, <1>1, Stages, NoneIsNone DEF ResponsesTypeOK, RecordState, Record
  <1>3. PICK s \in WorkerState : /\ worker' = [worker EXCEPT ![w] = s]
                                 /\ s.at \in {"idle", "insert"}
                                 /\ s.at = "insert" => s.record = r
    <2>1. Responses!Idle \in WorkerState /\ Responses!Idle.at = "idle"
      BY DEF WorkerState, Responses!Idle
    <2> DEFINE t == [worker[w] EXCEPT !.at = "insert"]
    <2>2. t \in WorkerState /\ t.at = "insert" /\ t.record = r
      BY <1>2 DEF RecordState, WorkerState
    <2>3. worker' = [worker EXCEPT ![w] = Responses!Idle] \/ worker' = [worker EXCEPT ![w] = t]
      BY DEF Responses!Put, Responses!PutSuccessor, Responses!WriteResource, Responses!Become
    <2> QED  BY <2>1, <2>2, <2>3
  <1>4. worker'[w] = s /\ \A v \in Workers : v # w => worker'[v] = worker[v]
    BY <1>0, <1>3 DEF ResponsesTypeOK
  <1>5. \A v \in Workers : Holds(v)' => Holds(v) /\ worker'[v].record = worker[v].record
    BY <1>1, <1>3, <1>4 DEF Holds
  <1>6. /\ Fresh(r.id) /\ recovered[r.id] = None /\ files[r.id] = None
        /\ \A t \in Ids : \A x \in RecordsOf(t) : x.previous # r.id
        /\ r.previous # r.id
        /\ r.previous \in Ids => ~Fresh(r.previous)
    <2>1. Fresh(r.id)
      BY <1>1, <1>2 DEF Fresh
    <2> QED  BY <1>0, <1>1, <1>2, <2>1 DEF FreshUnseen
  <1>7. /\ \A id \in Ids : files'[id] = IF id = r.id THEN r ELSE files[id]
        /\ \A id \in Ids : RecordsOf(id)' = IF id = r.id THEN {r} ELSE RecordsOf(id)
    <2>1. \A id \in Ids : files'[id] = IF id = r.id THEN r ELSE files[id]
      BY <1>0, <1>1, <1>2 DEF ResponsesTypeOK
    <2> QED  BY <1>1, <1>2, <1>6, <2>1 DEF RecordsOf
  <1>8. \A id \in Ids : Fresh(id)' => Fresh(id) /\ id # r.id
    <2> SUFFICES ASSUME NEW id \in Ids, Fresh(id)' PROVE Fresh(id) /\ id # r.id
      OBVIOUS
    <2>1. Fresh(id)
      BY <1>1, <1>3, <1>4 DEF Fresh
    <2>2. created[r.id] # None /\ \A v \in Workers : Holds(v) /\ v # w => worker[v].record.id # r.id
      BY <1>0, <1>1 DEF OneHolder
    <2>3. id # r.id
      BY <1>1, <1>3, <1>4, <2>2 DEF Fresh, Holds
    <2> QED  BY <2>1, <2>3
  <1>9. ResponsesTypeOK'
    <2>1. files' \in [Ids -> Record \cup {None}]
      BY <1>0, <1>1, <1>2 DEF ResponsesTypeOK
    <2> QED  BY <1>0, <1>1, <1>3, <1>7, <2>1 DEF ResponsesTypeOK
  <1>10. FirstIsZero'
    BY <1>0, <1>3, <1>4, <1>5 DEF FirstIsZero
  <1>11. Agree'
    BY <1>0, <1>1, <1>6, <1>7 DEF Agree
  <1>12. Follows'
    <2>1. IF r.previous = None THEN r.revision = 0
          ELSE \A y \in RecordsOf(r.previous) : r.revision = y.revision + 1
      <3>1. CASE r.previous = None
        BY <1>0, <1>1, <3>1 DEF FirstIsZero
      <3>2. CASE r.previous # None
        <4>1. recovered[r.previous] # None /\ recovered[r.previous].revision = r.revision - 1
          BY <3>2 DEF Responses!Put, Responses!PutSuccessor, Responses!Accepts
        <4>2. recovered[r.previous] \in Record /\ recovered[r.previous].revision \in Nat
          BY <1>0, <1>2, <3>2, <4>1 DEF ResponsesTypeOK, Record
        <4>3. RecordsOf(r.previous) = {recovered[r.previous]}
          BY <1>0, <1>2, <3>2, <4>1 DEF RecordsOf, Agree
        <4> HIDE DEF r
        <4> QED  BY <1>2, <3>2, <4>1, <4>2, <4>3
      <3> QED  BY <3>1, <3>2
    <2> SUFFICES ASSUME NEW id \in Ids, NEW x \in RecordsOf(id)'
                 PROVE  IF x.previous = None THEN x.revision = 0
                        ELSE \A y \in RecordsOf(x.previous)' : x.revision = y.revision + 1
      BY DEF Follows
    <2>2. CASE id = r.id
      <3> HIDE DEF r
      <3>1. x = r
        BY <1>7, <2>2
      <3>2. x.previous # None => RecordsOf(x.previous)' = RecordsOf(x.previous)
        BY <1>2, <1>6, <1>7, <3>1
      <3> QED  BY <2>1, <3>1, <3>2
    <2>3. CASE id # r.id
      <3>1. x \in RecordsOf(id) /\ x.previous # r.id
        BY <1>6, <1>7, <2>3
      <3>2. x.previous \in Ids \cup {None}
        BY <1>0, <3>1 DEF RecordsOf, ResponsesTypeOK, Record
      <3>3. x.previous # None => RecordsOf(x.previous)' = RecordsOf(x.previous)
        BY <1>7, <3>1, <3>2
      <3> QED  BY <1>0, <3>1, <3>3 DEF Follows
    <2> QED  BY <2>2, <2>3
  <1>13. FreshUnseen'
    <2> SUFFICES ASSUME NEW id \in Ids, Fresh(id)'
                 PROVE  /\ recovered'[id] = None /\ files'[id] = None
                        /\ \A t \in Ids : \A x \in RecordsOf(t)' : x.previous # id
                        /\ \A v \in Workers : /\ Holds(v)' => worker'[v].record.previous # id
                                              /\ worker'[v].at = "read" => worker'[v].base # id
      BY DEF FreshUnseen
    <2>1. Fresh(id) /\ id # r.id
      BY <1>8
    <2>2. recovered'[id] = None /\ files'[id] = None
      BY <1>0, <1>1, <1>7, <2>1 DEF FreshUnseen
    <2>3. \A t \in Ids : \A x \in RecordsOf(t)' : x.previous # id
      BY <1>0, <1>6, <1>7, <2>1 DEF FreshUnseen
    <2>4. \A v \in Workers : worker'[v].at = "read" => worker'[v] = worker[v]
      BY <1>3, <1>4
    <2> QED  BY <1>0, <1>5, <2>1, <2>2, <2>3, <2>4 DEF FreshUnseen
  <1>14. OneHolder'
    BY <1>0, <1>1, <1>5 DEF OneHolder
  <1>15. InsertWritten'
    <2> SUFFICES ASSUME NEW v \in Workers, worker'[v].at = "insert"
                 PROVE  /\ files'[worker'[v].record.id] = worker'[v].record
                        /\ recovered'[worker'[v].record.id] = None
      BY DEF InsertWritten
    <2>1. CASE v = w
      BY <1>1, <1>2, <1>3, <1>4, <1>6, <1>7, <2>1
    <2>2. CASE v # w
      <3>1. worker'[v] = worker[v] /\ Holds(v)
        BY <1>4, <2>2 DEF Holds
      <3>2. files[worker[v].record.id] = worker[v].record /\ recovered[worker[v].record.id] = None
        BY <1>0, <3>1 DEF InsertWritten
      <3>3. worker[v].record.id \in Ids /\ worker[v].record.id # r.id
        BY <1>0, <1>1, <2>2, <3>1, Stages DEF OneHolder, ResponsesTypeOK, RecordState, Record, Holds
      <3> QED  BY <1>1, <1>7, <3>1, <3>2, <3>3
    <2> QED  BY <2>1, <2>2
  <1> QED  BY <1>9, <1>10, <1>11, <1>12, <1>13, <1>14, <1>15 DEF LineageInv

LEMMA InsertKeeps ==
    ASSUME LineageInv, NEW w \in Workers, Responses!InsertResource(w)
    PROVE  LineageInv'
  <1>0. ResponsesTypeOK /\ FirstIsZero /\ Agree /\ Follows /\ FreshUnseen /\ OneHolder /\ InsertWritten
    BY DEF LineageInv
  <1>1. PICK r : r = worker[w].record
    OBVIOUS
  <1>2. /\ worker[w].at = "insert" /\ Holds(w)
        /\ recovered' = [recovered EXCEPT ![r.id] = r]
        /\ worker' = [worker EXCEPT ![w] = Responses!Idle]
        /\ UNCHANGED <<files, created, time>>
    BY <1>1 DEF Responses!InsertResource, Responses!Become, Holds
  <1>3. r \in Record /\ r.id \in Ids /\ r # None
    BY <1>0, <1>1, <1>2, Stages, NoneIsNone DEF ResponsesTypeOK, RecordState, Record
  <1>4. /\ worker'[w] = Responses!Idle /\ worker'[w].at = "idle" /\ Responses!Idle \in WorkerState
        /\ \A v \in Workers : v # w => worker'[v] = worker[v]
    BY <1>0, <1>2 DEF ResponsesTypeOK, WorkerState, Responses!Idle
  <1>5. \A v \in Workers : Holds(v)' => v # w /\ Holds(v) /\ worker'[v] = worker[v]
    BY <1>4 DEF Holds
  <1>6. files[r.id] = r /\ recovered[r.id] = None
    BY <1>0, <1>1, <1>2 DEF InsertWritten
  <1>7. \A id \in Ids : recovered'[id] = IF id = r.id THEN r ELSE recovered[id]
    BY <1>0, <1>2, <1>3 DEF ResponsesTypeOK
  <1>8. \A id \in Ids : RecordsOf(id)' \subseteq RecordsOf(id) /\ (Fresh(id)' => Fresh(id))
    <2>1. \A id \in Ids : RecordsOf(id)' \subseteq RecordsOf(id)
      BY <1>2, <1>6, <1>7 DEF RecordsOf
    <2>2. \A id \in Ids : Fresh(id)' => Fresh(id)
      BY <1>2, <1>4 DEF Fresh
    <2> QED  BY <2>1, <2>2
  <1>9. ResponsesTypeOK'
    <2>1. recovered' \in [Ids -> Record \cup {None}]
      BY <1>0, <1>2, <1>3 DEF ResponsesTypeOK
    <2> QED  BY <1>0, <1>2, <1>4, <1>7, <2>1 DEF ResponsesTypeOK
  <1>10. FirstIsZero'
    BY <1>0, <1>4, <1>5 DEF FirstIsZero
  <1>11. Agree'
    BY <1>0, <1>2, <1>6, <1>7 DEF Agree
  <1>12. Follows'
    BY <1>0, <1>8, FewerFollow
  <1>13. FreshUnseen'
    <2>1. \A v \in Workers :
               /\ Holds(v)' => Holds(v) /\ worker'[v].record = worker[v].record
               /\ worker'[v].at = "read" => worker[v].at = "read" /\ worker'[v].base = worker[v].base
      BY <1>4, <1>5
    <2> QED  BY <1>0, <1>8, <2>1, FreshStays
  <1>14. OneHolder'
    BY <1>0, <1>2, <1>5 DEF OneHolder
  <1>15. InsertWritten'
    <2> SUFFICES ASSUME NEW v \in Workers, worker'[v].at = "insert"
                 PROVE  /\ files'[worker'[v].record.id] = worker'[v].record
                        /\ recovered'[worker'[v].record.id] = None
      BY DEF InsertWritten
    <2>1. v # w /\ worker'[v] = worker[v] /\ Holds(v)
      BY <1>4 DEF Holds
    <2>2. files[worker[v].record.id] = worker[v].record /\ recovered[worker[v].record.id] = None
      BY <1>0, <2>1 DEF InsertWritten
    <2>3. worker[v].record.id \in Ids /\ worker[v].record.id # r.id
      BY <1>0, <1>1, <1>2, <2>1, Stages DEF OneHolder, ResponsesTypeOK, RecordState, Record, Holds
    <2> QED  BY <1>2, <1>7, <2>1, <2>2, <2>3
  <1> QED  BY <1>9, <1>10, <1>11, <1>12, <1>13, <1>14, <1>15 DEF LineageInv

LEMMA DeleteKeeps ==
    ASSUME LineageInv, NEW w \in Workers, Responses!Delete(w)
    PROVE  LineageInv'
  <1>0. ResponsesTypeOK /\ FirstIsZero /\ Agree /\ Follows /\ FreshUnseen /\ OneHolder /\ InsertWritten
    BY DEF LineageInv
  <1>1. PICK gone : gone = worker[w].id
    OBVIOUS
  <1>2. /\ worker[w].at = "delete"
        /\ files' = [files EXCEPT ![gone] = None]
        /\ recovered' = recovered \/ recovered' = [recovered EXCEPT ![gone] = None]
        /\ worker' = [worker EXCEPT ![w] = Responses!Idle]
        /\ UNCHANGED <<created, time>>
        /\ recovered[gone] # None
    BY <1>1 DEF Responses!Delete, Responses!Become, Responses!NoSuccessor
  <1>3. gone \in Ids
    BY <1>0, <1>1, <1>2, Stages DEF ResponsesTypeOK, DeleteState
  <1>4. /\ worker'[w] = Responses!Idle /\ worker'[w].at = "idle" /\ Responses!Idle \in WorkerState
        /\ \A v \in Workers : v # w => worker'[v] = worker[v]
    BY <1>0, <1>2 DEF ResponsesTypeOK, WorkerState, Responses!Idle
  <1>5. \A v \in Workers : Holds(v)' => v # w /\ Holds(v) /\ worker'[v] = worker[v]
    BY <1>4 DEF Holds
  <1>6. \A id \in Ids : /\ files'[id] = IF id = gone THEN None ELSE files[id]
                        /\ recovered'[id] \in {recovered[id], None}
    <2>1. \A id \in Ids : files'[id] = IF id = gone THEN None ELSE files[id]
      BY <1>0, <1>2, <1>3 DEF ResponsesTypeOK
    <2>2. \A id \in Ids : recovered'[id] \in {recovered[id], None}
      BY <1>0, <1>2, <1>3 DEF ResponsesTypeOK
    <2> QED  BY <2>1, <2>2
  <1>7. \A id \in Ids : RecordsOf(id)' \subseteq RecordsOf(id) /\ (Fresh(id)' => Fresh(id))
    <2>1. \A id \in Ids : RecordsOf(id)' \subseteq RecordsOf(id)
      BY <1>6 DEF RecordsOf
    <2>2. \A id \in Ids : Fresh(id)' => Fresh(id)
      BY <1>2, <1>4 DEF Fresh
    <2> QED  BY <2>1, <2>2
  <1>8. ResponsesTypeOK'
    <2>1. files' \in [Ids -> Record \cup {None}] /\ recovered' \in [Ids -> Record \cup {None}]
      BY <1>0, <1>2, <1>3 DEF ResponsesTypeOK
    <2> QED  BY <1>0, <1>2, <1>4, <1>6, <2>1 DEF ResponsesTypeOK
  <1>9. FirstIsZero'
    BY <1>0, <1>4, <1>5 DEF FirstIsZero
  <1>10. Agree'
    BY <1>0, <1>6 DEF Agree
  <1>11. Follows'
    BY <1>0, <1>7, FewerFollow
  <1>12. FreshUnseen'
    <2>1. \A v \in Workers :
               /\ Holds(v)' => Holds(v) /\ worker'[v].record = worker[v].record
               /\ worker'[v].at = "read" => worker[v].at = "read" /\ worker'[v].base = worker[v].base
      BY <1>4, <1>5
    <2> QED  BY <1>0, <1>7, <2>1, FreshStays
  <1>13. OneHolder'
    BY <1>0, <1>2, <1>5 DEF OneHolder
  <1>14. InsertWritten'
    <2> SUFFICES ASSUME NEW v \in Workers, worker'[v].at = "insert"
                 PROVE  /\ files'[worker'[v].record.id] = worker'[v].record
                        /\ recovered'[worker'[v].record.id] = None
      BY DEF InsertWritten
    <2>1. v # w /\ worker'[v] = worker[v]
      BY <1>4
    <2>2. files[worker[v].record.id] = worker[v].record /\ recovered[worker[v].record.id] = None
      BY <1>0, <2>1 DEF InsertWritten
    <2>3. worker[v].record.id \in Ids /\ worker[v].record.id # gone
      BY <1>0, <1>2, <2>1, <2>2, Stages DEF ResponsesTypeOK, RecordState, Record
    <2> QED  BY <1>6, <2>1, <2>2, <2>3
  <1> QED  BY <1>8, <1>9, <1>10, <1>11, <1>12, <1>13, <1>14 DEF LineageInv

\* A restart brings back at most what one of the two held.
LEMMA RestartHolds ==
    ASSUME ResponsesTypeOK, Responses!Restart
    PROVE  /\ worker' = [w \in Workers |-> Responses!Idle]
           /\ UNCHANGED <<created, time>> /\ unsynced' = {}
           /\ recovered' = files' /\ files' \in [Ids -> Record \cup {None}]
           /\ \A id \in Ids : files'[id] \in {files[id], recovered[id], None}
           /\ acked' = {id \in acked : ~Responses!Expired(id)}
  <1>1. PICK undone \in SUBSET unsynced :
          LET kept   == [id \in Ids |-> IF id \notin undone THEN files[id]
                                        ELSE IF files[id] # None THEN None ELSE recovered[id]]
              opened == [id \in Ids |-> IF kept[id] # None /\ Responses!Expired(id) THEN None ELSE kept[id]]
          IN  recovered' = opened /\ files' = opened
    BY DEF Responses!Restart
  <1>2. \A id \in Ids : files'[id] \in {files[id], recovered[id], None}
    BY <1>1
  <1>3. \A id \in Ids : files[id] \in Record \cup {None} /\ recovered[id] \in Record \cup {None}
    BY DEF ResponsesTypeOK
  <1>4. recovered' = files' /\ files' \in [Ids -> Record \cup {None}]
    BY <1>1, <1>3
  <1> QED  BY <1>2, <1>4 DEF Responses!Restart

LEMMA RestartKeeps ==
    ASSUME LineageInv, Responses!Restart
    PROVE  LineageInv'
  <1>0. ResponsesTypeOK /\ FirstIsZero /\ Agree /\ Follows /\ FreshUnseen /\ OneHolder /\ InsertWritten
    BY DEF LineageInv
  <1>1. /\ worker' = [w \in Workers |-> Responses!Idle]
        /\ UNCHANGED <<created, time>>
        /\ recovered' = files' /\ files' \in [Ids -> Record \cup {None}]
        /\ \A id \in Ids : files'[id] \in {files[id], recovered[id], None}
    BY <1>0, RestartHolds
  <1>2. \A v \in Workers : worker'[v].at = "idle" /\ ~Holds(v)'
    BY <1>1 DEF Responses!Idle, Holds
  <1>3. \A id \in Ids : RecordsOf(id)' \subseteq RecordsOf(id) /\ (Fresh(id)' => Fresh(id))
    <2>1. \A id \in Ids : RecordsOf(id)' \subseteq RecordsOf(id)
      BY <1>1 DEF RecordsOf
    <2>2. \A id \in Ids : Fresh(id)' => Fresh(id)
      BY <1>1, <1>2 DEF Fresh
    <2> QED  BY <2>1, <2>2
  <1>4. ResponsesTypeOK'
    <2>1. worker' \in [Workers -> WorkerState]
      BY <1>1 DEF WorkerState
    <2> QED  BY <1>0, <1>1, <2>1 DEF ResponsesTypeOK
  <1>5. FirstIsZero' /\ OneHolder' /\ InsertWritten'
    BY <1>2 DEF FirstIsZero, OneHolder, InsertWritten
  <1>6. Agree'
    BY <1>1 DEF Agree
  <1>7. Follows'
    BY <1>0, <1>3, FewerFollow
  <1>8. FreshUnseen'
    <2>1. \A v \in Workers : ~Holds(v)' /\ worker'[v].at # "read"
      BY <1>2
    <2> QED  BY <1>0, <1>3, <2>1, FreshStays
  <1> QED  BY <1>4, <1>5, <1>6, <1>7, <1>8 DEF LineageInv

LEMMA LineageUnchanged ==
    ASSUME LineageInv, UNCHANGED <<recovered, files, created, worker>>, time' \in Nat
    PROVE  LineageInv'
  <1>1. \A id \in Ids : RecordsOf(id)' = RecordsOf(id) /\ (Fresh(id)' <=> Fresh(id))
    BY DEF RecordsOf, Fresh
  <1>2. \A w \in Workers : Holds(w)' <=> Holds(w)
    BY DEF Holds
  <1>3. FirstIsZero' /\ Agree' /\ OneHolder' /\ InsertWritten' /\ ResponsesTypeOK'
    BY <1>2 DEF LineageInv, FirstIsZero, Agree, OneHolder, InsertWritten, ResponsesTypeOK
  <1>4. Follows'
    BY <1>1, FewerFollow DEF LineageInv
  <1>5. FreshUnseen'
    BY <1>1, <1>2, FreshStays DEF LineageInv
  <1> QED  BY <1>3, <1>4, <1>5 DEF LineageInv

LEMMA LineageNext ==
    ASSUME LineageInv, Responses!Next
    PROVE  LineageInv'
  <1>1. CASE Responses!Tick
    BY <1>1, LineageUnchanged DEF Responses!Tick, LineageInv, ResponsesTypeOK
  <1>2. CASE Responses!Restart
    BY <1>2, RestartKeeps
  <1>3. CASE \E w \in Workers :
                \/ Turns(w) \/ Begins(w)
                \/ \E gone \in SUBSET Ids : Responses!Prune(w, gone)
                \/ Responses!Put(w) \/ Responses!PutSuccessor(w)
                \/ Responses!InsertResource(w) \/ Responses!Delete(w)
    BY <1>3, TurnsKeep, BeginsKeep, PruneKeeps, WriteKeeps, InsertKeeps, DeleteKeeps
  <1> QED  BY <1>1, <1>2, <1>3, KindsOfSteps DEF LineageInv

-----------------------------------------------------------------------------
(* What was reported, and what is continued, where directories             *)
(* synchronise.                                                            *)

\* What has expired stays so.
LEMMA StaysExpired ==
    ASSUME ResponsesTypeOK, NEW base \in Ids, created[base] # None, Responses!Expired(base),
           created'[base] = created[base], time' \in {time, time + 1}
    PROVE  Responses!Expired(base)'
  <1>1. created[base] \in Nat /\ time \in Nat /\ Retention \in Nat
    BY ResourcesAssumption DEF ResponsesTypeOK, Responses!ResponseStoreAssumption
  <1> QED  BY <1>1 DEF Responses!Expired

LEMMA StoredIs == ASSUME NEW id PROVE id \in Responses!Stored <=> id \in Ids /\ recovered[id] # None
  BY DEF Responses!Stored

\* What stored responses continue, when only records without successors, or of
\* expired responses, go.
LEMMA BasesStay ==
    ASSUME ResponsesTypeOK, BaseThere,
           \A id \in Ids : recovered'[id] \in {recovered[id], None},
           \A id \in Ids : created[id] # None => created'[id] = created[id],
           time' \in {time, time + 1},
           \A base \in Ids : recovered[base] # None /\ recovered'[base] = None =>
               \/ created[base] # None /\ Responses!Expired(base)
               \/ \A id \in Ids : recovered[id] # None => recovered[id].previous # base
    PROVE  BaseThere'
  <1>0. \A id \in Ids : recovered'[id] # None =>
          recovered'[id] = recovered[id] /\ recovered'[id].previous \in Ids \cup {None}
    BY DEF ResponsesTypeOK, Record
  <1> SUFFICES ASSUME NEW id \in Ids, NEW base \in Ids,
                      recovered'[id] # None, recovered'[id].previous = base
               PROVE  recovered'[base] # None \/ (created'[base] # None /\ Responses!Expired(base)')
    BY <1>0 DEF BaseThere, Responses!Stored, Responses!Expired
  <1>1. recovered'[id] = recovered[id]
    BY <1>0
  <1>2. base = recovered[id].previous /\ base # None
    BY <1>1, NoneIsNone
  <1>3. recovered[base] # None \/ (created[base] # None /\ Responses!Expired(base))
    BY <1>1, <1>2, StoredIs DEF BaseThere
  <1>4. CASE created[base] # None /\ Responses!Expired(base)
    BY <1>1, <1>2, <1>4, StaysExpired, NoneIsNone
  <1>5. CASE recovered[base] # None /\ recovered'[base] # None
    BY <1>1, <1>2, <1>5
  <1>6. CASE recovered[base] # None /\ recovered'[base] = None
    BY <1>1, <1>2, <1>4, <1>6
  <1> QED  BY <1>3, <1>4, <1>5, <1>6

LEMMA TurnsDurable ==
    ASSUME LineageInv, DurableInv, NEW w \in Workers, Turns(w)
    PROVE  DurableInv'
  <1>1. ResponsesTypeOK
    BY DEF LineageInv
  <1>2. UNCHANGED <<recovered, files, created, unsynced, acked, time>> /\ worker[w].at # "insert"
    BY DEF Turns
  <1>3. worker'[w].at # "insert" /\ \A v \in Workers : v # w => worker'[v] = worker[v]
    BY <1>1 DEF Turns, ResponsesTypeOK, ReadState, DeleteState, Responses!Idle
  <1>4. \A v \in Workers : worker'[v].at = "insert" <=> worker[v].at = "insert"
    BY <1>2, <1>3
  <1>5. \A v \in Workers : worker[v].at = "insert" => worker'[v] = worker[v]
    BY <1>2, <1>3
  <1>6. AheadOnlyByInsert'
    BY <1>2, <1>4, <1>5 DEF DurableInv, AheadOnlyByInsert
  <1>7. OneWriter'
    BY <1>2, <1>4, <1>5 DEF DurableInv, OneWriter
  <1>8. BaseThere'
    BY <1>2 DEF DurableInv, BaseThere, Responses!Stored, Responses!Expired
  <1>9. UndoneIsGone' /\ SuccessorsUnique' /\ KeptIsCreated' /\ AckedIsStored'
    BY <1>2 DEF DurableInv, UndoneIsGone, SuccessorsUnique, KeptIsCreated, AckedIsStored, RecordsOf,
                Responses!SuccessorsIn, Responses!Stored
  <1> QED  BY <1>6, <1>7, <1>8, <1>9 DEF DurableInv

LEMMA BeginsDurable ==
    ASSUME LineageInv, DurableInv, NEW w \in Workers, Begins(w)
    PROVE  DurableInv'
  <1>1. ResponsesTypeOK
    BY DEF LineageInv
  <1>2. UNCHANGED <<recovered, files, unsynced, acked, time>> /\ worker[w].at # "insert"
    BY DEF Begins
  <1>3. PICK s \in RecordState : /\ s.at \in {"prune", "remember"}
                                 /\ worker' = [worker EXCEPT ![w] = s]
                                 /\ created[s.record.id] = None
                                 /\ created' = [created EXCEPT ![s.record.id] = time]
    BY DEF Begins
  <1>4. worker'[w].at # "insert" /\ \A v \in Workers : v # w => worker'[v] = worker[v]
    BY <1>1, <1>3 DEF ResponsesTypeOK
  <1>5. \A v \in Workers : /\ worker'[v].at = "insert" <=> worker[v].at = "insert"
                           /\ worker[v].at = "insert" => worker'[v] = worker[v]
    BY <1>2, <1>4
  <1>6. \A id \in Ids : created[id] # None => created'[id] = created[id]
    BY <1>1, <1>3 DEF ResponsesTypeOK
  <1>7. AheadOnlyByInsert' /\ OneWriter'
    BY <1>2, <1>5 DEF DurableInv, AheadOnlyByInsert, OneWriter
  <1>8. BaseThere'
    BY <1>1, <1>2, <1>6, BasesStay DEF DurableInv
  <1>9. UndoneIsGone' /\ SuccessorsUnique' /\ AckedIsStored'
    BY <1>2 DEF DurableInv, UndoneIsGone, SuccessorsUnique, AckedIsStored,
                Responses!SuccessorsIn, Responses!Stored
  <1>10. KeptIsCreated'
    BY <1>2, <1>6 DEF DurableInv, KeptIsCreated, RecordsOf
  <1> QED  BY <1>7, <1>8, <1>9, <1>10 DEF DurableInv

\* No worker is between the file and the entry of a successor.
LEMMA NotLocked ==
    ASSUME ~Responses!Locked
    PROVE  \A v \in Workers : worker[v].at = "insert" => worker[v].record.previous = None
  BY DEF Responses!Locked

LEMMA PruneDurable ==
    ASSUME LineageInv, DurableInv, part = "responses",
           NEW w \in Workers, NEW gone \in SUBSET Ids, Responses!Prune(w, gone)
    PROVE  DurableInv'
  <1>1. ResponsesTypeOK
    BY DEF LineageInv
  <1>2. /\ files' = [id \in Ids |-> IF id \in gone THEN None ELSE files[id]]
        /\ recovered' = [id \in Ids |-> IF id \in gone THEN None ELSE recovered[id]]
        /\ created' = created /\ time' = time /\ worker[w].at = "prune" /\ ~Responses!Locked
        /\ \A id \in gone : recovered[id] # None /\ Responses!Expired(id)
        /\ acked' = acked \ gone
        /\ unsynced' = unsynced \ gone \/ unsynced' = unsynced \cup gone
    BY DEF Responses!Prune, Responses!Stored
  <1>3. worker'[w].at # "insert" /\ \A v \in Workers : v # w => worker'[v] = worker[v]
    BY <1>1, <1>2, Stages DEF Responses!Prune, Responses!Become, ResponsesTypeOK, Responses!Idle, RecordState
  <1>4. \A v \in Workers : /\ worker'[v].at = "insert" <=> worker[v].at = "insert"
                           /\ worker[v].at = "insert" => worker'[v] = worker[v]
    BY <1>2, <1>3
  <1>5. \A id \in Ids : /\ files'[id] = IF id \in gone THEN None ELSE files[id]
                        /\ recovered'[id] = IF id \in gone THEN None ELSE recovered[id]
    BY <1>2
  <1>6. AheadOnlyByInsert'
    BY <1>4, <1>5 DEF DurableInv, AheadOnlyByInsert
  <1>7. OneWriter'
    BY <1>2, <1>4, NotLocked DEF OneWriter
  <1>8. UndoneIsGone'
    BY <1>2, <1>5 DEF DurableInv, UndoneIsGone
  <1>9. SuccessorsUnique'
    BY <1>5 DEF DurableInv, SuccessorsUnique, Responses!SuccessorsIn
  <1>10. BaseThere'
    <2>1. \A id \in Ids : recovered[id] # None => created[id] # None
      BY DEF DurableInv, KeptIsCreated, RecordsOf
    <2> QED  BY <1>1, <1>2, <1>5, <2>1, BasesStay DEF DurableInv
  <1>11. KeptIsCreated'
    BY <1>2, <1>5 DEF DurableInv, KeptIsCreated, RecordsOf
  <1>12. AckedIsStored'
    BY <1>2, <1>5 DEF DurableInv, AckedIsStored, Responses!Stored
  <1> QED  BY <1>6, <1>7, <1>8, <1>9, <1>10, <1>11, <1>12 DEF DurableInv

LEMMA WriteDurable ==
    ASSUME LineageInv, DurableInv, part = "responses",
           NEW w \in Workers, Responses!Put(w) \/ Responses!PutSuccessor(w)
    PROVE  DurableInv'
  <1>1. ResponsesTypeOK /\ OneHolder /\ FreshUnseen
    BY DEF LineageInv
  <1>2. PICK r : r = worker[w].record
    OBVIOUS
  <1>3. /\ worker[w].at = "write" /\ Holds(w)
        /\ files' = [files EXCEPT ![r.id] = r]
        /\ UNCHANGED <<recovered, created, acked, time>>
        /\ unsynced' = unsynced \ {r.id}
        /\ worker' = [worker EXCEPT ![w] = [worker[w] EXCEPT !.at = "insert"]]
        /\ r.previous = None \/ (~Responses!Locked /\ r.previous # None /\ Responses!Accepts(r))
    BY <1>2 DEF Responses!Put, Responses!PutSuccessor, Responses!WriteResource, Responses!Become, Holds
  <1>4. worker[w] \in RecordState /\ r \in Record /\ r.id \in Ids /\ r.previous \in Ids \cup {None} /\ r # None
    BY <1>1, <1>2, <1>3, Stages, NoneIsNone DEF ResponsesTypeOK, RecordState, Record
  <1>5. /\ worker'[w].at = "insert" /\ worker'[w].record = r
        /\ \A v \in Workers : v # w => worker'[v] = worker[v]
    BY <1>1, <1>2, <1>3, <1>4 DEF ResponsesTypeOK, RecordState
  <1>6. recovered[r.id] = None /\ files[r.id] = None /\ created[r.id] # None
    BY <1>1, <1>2, <1>3, <1>4 DEF Fresh, FreshUnseen, OneHolder
  <1>7. \A id \in Ids : files'[id] = IF id = r.id THEN r ELSE files[id]
    BY <1>1, <1>3, <1>4 DEF ResponsesTypeOK
  <1>8. AheadOnlyByInsert'
    <2> SUFFICES ASSUME NEW id \in Ids, recovered'[id] # files'[id]
                 PROVE  \E v \in Workers : worker'[v].at = "insert" /\ worker'[v].record.id = id
      BY DEF AheadOnlyByInsert
    <2>1. CASE id = r.id
      BY <1>5, <2>1
    <2>2. CASE id # r.id
      <3>1. recovered[id] # files[id]
        BY <1>3, <1>7, <2>2
      <3>2. PICK v \in Workers : worker[v].at = "insert" /\ worker[v].record.id = id
        BY <3>1 DEF DurableInv, AheadOnlyByInsert
      <3> QED  BY <1>3, <1>5, <3>2
    <2> QED  BY <2>1, <2>2
  <1>9. OneWriter'
    <2>1. CASE r.previous = None
      BY <1>3, <1>5, <2>1 DEF DurableInv, OneWriter
    <2>2. CASE ~Responses!Locked /\ r.previous # None /\ Responses!Accepts(r)
      BY <1>3, <1>5, <2>2, NotLocked DEF OneWriter, Responses!Accepts
    <2> QED  BY <1>3, <2>1, <2>2
  <1>10. UndoneIsGone'
    BY <1>3, <1>7 DEF DurableInv, UndoneIsGone
  <1>11. SuccessorsUnique'
    <2>1. ASSUME NEW id \in Ids, NEW t \in Ids, files[t] # None, files[t].previous = id, r.previous = id
          PROVE  FALSE
      <3>1. ~Responses!Locked /\ Responses!Accepts(r)
        BY <1>3, <2>1, NoneIsNone
      <3>2. recovered[t] # files[t]
        BY <2>1, <3>1 DEF Responses!Accepts, Responses!SuccessorsIn
      <3>3. PICK v \in Workers : worker[v].at = "insert" /\ worker[v].record.id = t
        BY <3>2 DEF DurableInv, AheadOnlyByInsert
      <3>4. worker[v].record = files[t]
        BY <3>3 DEF LineageInv, InsertWritten
      <3> QED  BY <2>1, <3>1, <3>3, <3>4, NotLocked, NoneIsNone
    <2> SUFFICES ASSUME NEW id \in Ids, NEW t \in Ids, NEW u \in Ids,
                        files'[t] # None, files'[t].previous = id, files'[u] # None, files'[u].previous = id
                 PROVE  t = u
      BY DEF SuccessorsUnique, Responses!SuccessorsIn
    <2>2. CASE t # r.id /\ u # r.id
      BY <1>7, <2>2 DEF DurableInv, SuccessorsUnique, Responses!SuccessorsIn
    <2>3. CASE t = r.id /\ u # r.id
      BY <1>7, <2>1, <2>3
    <2>4. CASE t # r.id /\ u = r.id
      BY <1>7, <2>1, <2>4
    <2> QED  BY <2>2, <2>3, <2>4
  <1>12. BaseThere'
    BY <1>3 DEF DurableInv, BaseThere, Responses!Stored, Responses!Expired
  <1>13. KeptIsCreated'
    BY <1>3, <1>6, <1>7 DEF DurableInv, KeptIsCreated, RecordsOf
  <1>14. AckedIsStored'
    BY <1>3 DEF DurableInv, AckedIsStored, Responses!Stored
  <1> QED  BY <1>8, <1>9, <1>10, <1>11, <1>12, <1>13, <1>14 DEF DurableInv

LEMMA InsertDurable ==
    ASSUME LineageInv, DurableInv, NEW w \in Workers, Responses!InsertResource(w)
    PROVE  DurableInv'
  <1>1. ResponsesTypeOK
    BY DEF LineageInv
  <1>2. PICK r : r = worker[w].record
    OBVIOUS
  <1>3. /\ worker[w].at = "insert"
        /\ recovered' = [recovered EXCEPT ![r.id] = r]
        /\ worker' = [worker EXCEPT ![w] = Responses!Idle]
        /\ acked' = acked \cup {r.id}
        /\ UNCHANGED <<files, unsynced, created, time>>
    BY <1>2 DEF Responses!InsertResource, Responses!Become
  <1>4. r \in Record /\ r.id \in Ids /\ r # None /\ r.previous \in Ids \cup {None}
    BY <1>1, <1>2, <1>3, Stages, NoneIsNone DEF ResponsesTypeOK, RecordState, Record
  <1>5. worker'[w].at = "idle" /\ \A v \in Workers : v # w => worker'[v] = worker[v]
    BY <1>1, <1>3 DEF ResponsesTypeOK, Responses!Idle
  <1>6. files[r.id] = r /\ recovered[r.id] = None
    BY <1>2, <1>3 DEF LineageInv, InsertWritten
  <1>7. \A id \in Ids : recovered'[id] = IF id = r.id THEN r ELSE recovered[id]
    BY <1>1, <1>3, <1>4 DEF ResponsesTypeOK
  <1>8. AheadOnlyByInsert'
    <2> SUFFICES ASSUME NEW id \in Ids, recovered'[id] # files'[id]
                 PROVE  \E v \in Workers : worker'[v].at = "insert" /\ worker'[v].record.id = id
      BY DEF AheadOnlyByInsert
    <2>1. id # r.id /\ recovered[id] # files[id]
      BY <1>3, <1>6, <1>7
    <2>2. PICK v \in Workers : worker[v].at = "insert" /\ worker[v].record.id = id
      BY <2>1 DEF DurableInv, AheadOnlyByInsert
    <2> QED  BY <1>2, <1>5, <2>1, <2>2
  <1>9. OneWriter'
    <2>1. ASSUME NEW v \in Workers, worker'[v].at = "insert", worker'[v].record.previous # None
          PROVE  recovered'[worker'[v].record.previous] # None
      <3>1. v # w /\ worker'[v] = worker[v]
        BY <1>5, <2>1
      <3>2. recovered[worker[v].record.previous] # None
        BY <2>1, <3>1 DEF DurableInv, OneWriter
      <3>3. worker[v].record.previous \in Ids
        BY <1>1, <2>1, <3>1, Stages DEF ResponsesTypeOK, RecordState, Record
      <3> QED  BY <1>4, <1>7, <3>1, <3>2, <3>3
    <2>2. \A v, u \in Workers :
             /\ worker'[v].at = "insert" /\ worker'[v].record.previous # None
             /\ worker'[u].at = "insert" /\ worker'[u].record.previous # None
             => v = u
      BY <1>5 DEF DurableInv, OneWriter
    <2> QED  BY <2>1, <2>2 DEF OneWriter
  <1>10. UndoneIsGone'
    BY <1>3, <1>4, <1>6, <1>7 DEF DurableInv, UndoneIsGone
  <1>11. SuccessorsUnique'
    BY <1>3 DEF DurableInv, SuccessorsUnique, Responses!SuccessorsIn
  <1>12. BaseThere'
    <2> SUFFICES ASSUME NEW id \in Ids, NEW base \in Ids, recovered'[id] # None, recovered'[id].previous = base
                 PROVE  recovered'[base] # None \/ (created'[base] # None /\ Responses!Expired(base)')
      <3>1. \A id \in Ids : recovered'[id] # None => recovered'[id].previous \in Ids \cup {None}
        BY <1>1, <1>4, <1>7 DEF ResponsesTypeOK, Record
      <3> QED  BY <3>1 DEF BaseThere, Responses!Stored, Responses!Expired
    <2>1. Responses!Expired(base)' <=> Responses!Expired(base)
      BY <1>3 DEF Responses!Expired
    <2>2. recovered[base] # None => recovered'[base] # None
      BY <1>4, <1>7
    <2>3. CASE id = r.id
      BY <1>2, <1>3, <1>7, <2>2, <2>3, NoneIsNone DEF DurableInv, OneWriter
    <2>4. CASE id # r.id
      BY <1>3, <1>7, <2>1, <2>2, <2>4, NoneIsNone, StoredIs DEF DurableInv, BaseThere
    <2> QED  BY <2>3, <2>4
  <1>13. KeptIsCreated'
    BY <1>3, <1>4, <1>6, <1>7 DEF DurableInv, KeptIsCreated, RecordsOf
  <1>14. AckedIsStored'
    BY <1>3, <1>4, <1>7 DEF DurableInv, AckedIsStored, Responses!Stored
  <1> QED  BY <1>8, <1>9, <1>10, <1>11, <1>12, <1>13, <1>14 DEF DurableInv

LEMMA DeleteDurable ==
    ASSUME LineageInv, DurableInv, part = "responses", NEW w \in Workers, Responses!Delete(w)
    PROVE  DurableInv'
  <1>1. ResponsesTypeOK
    BY DEF LineageInv
  <1>2. PICK gone : gone = worker[w].id
    OBVIOUS
  <1>3. /\ worker[w].at = "delete" /\ ~Responses!Locked
        /\ files' = [files EXCEPT ![gone] = None]
        /\ recovered' = [recovered EXCEPT ![gone] = None]
        /\ worker' = [worker EXCEPT ![w] = Responses!Idle]
        /\ unsynced' = unsynced \ {gone} /\ acked' = acked \ {gone}
        /\ UNCHANGED <<created, time>>
        /\ Responses!SuccessorsIn(recovered, gone) = {}
    BY <1>2 DEF Responses!Delete, Responses!Become, Responses!NoSuccessor
  <1>4. gone \in Ids
    BY <1>1, <1>2, <1>3, Stages DEF ResponsesTypeOK, DeleteState
  <1>5. \A v \in Workers : /\ worker'[v].at = "insert" <=> worker[v].at = "insert"
                           /\ worker[v].at = "insert" => worker'[v] = worker[v]
    BY <1>1, <1>3 DEF ResponsesTypeOK, Responses!Idle
  <1>6. \A id \in Ids : /\ files'[id] = IF id = gone THEN None ELSE files[id]
                        /\ recovered'[id] = IF id = gone THEN None ELSE recovered[id]
    BY <1>1, <1>3, <1>4 DEF ResponsesTypeOK
  <1>7. AheadOnlyByInsert'
    BY <1>5, <1>6 DEF DurableInv, AheadOnlyByInsert
  <1>8. OneWriter'
    BY <1>3, <1>5, NotLocked DEF OneWriter
  <1>9. UndoneIsGone'
    BY <1>3, <1>6 DEF DurableInv, UndoneIsGone
  <1>10. SuccessorsUnique'
    BY <1>6 DEF DurableInv, SuccessorsUnique, Responses!SuccessorsIn
  <1>11. BaseThere'
    <2>1. \A base \in Ids : recovered[base] # None /\ recovered'[base] = None =>
             \A id \in Ids : recovered[id] # None => recovered[id].previous # base
      BY <1>3, <1>6 DEF Responses!SuccessorsIn
    <2> QED  BY <1>1, <1>3, <1>6, <2>1, BasesStay DEF DurableInv
  <1>12. KeptIsCreated'
    BY <1>3, <1>6 DEF DurableInv, KeptIsCreated, RecordsOf
  <1>13. AckedIsStored'
    BY <1>3, <1>6 DEF DurableInv, AckedIsStored, Responses!Stored
  <1> QED  BY <1>7, <1>8, <1>9, <1>10, <1>11, <1>12, <1>13 DEF DurableInv

\* After a restart, memory holds what the directory held and has not expired.
LEMMA RestartOpens ==
    ASSUME ResponsesTypeOK, UndoneIsGone, Responses!Restart
    PROVE  \A id \in Ids : files'[id] = IF files[id] # None /\ Responses!Expired(id) THEN None ELSE files[id]
  <1>1. PICK undone \in SUBSET unsynced :
          files' = [id \in Ids |->
                      LET kept == [i \in Ids |-> IF i \notin undone THEN files[i]
                                                 ELSE IF files[i] # None THEN None ELSE recovered[i]]
                      IN  IF kept[id] # None /\ Responses!Expired(id) THEN None ELSE kept[id]]
    BY DEF Responses!Restart
  <1>2. \A id \in Ids : id \in undone => files[id] = None /\ recovered[id] = None
    BY DEF UndoneIsGone
  <1> QED  BY <1>1, <1>2

LEMMA RestartDurable ==
    ASSUME LineageInv, DurableInv, Responses!Restart
    PROVE  DurableInv'
  <1>1. ResponsesTypeOK
    BY DEF LineageInv
  <1>2. /\ worker' = [w \in Workers |-> Responses!Idle]
        /\ UNCHANGED <<created, time>> /\ unsynced' = {}
        /\ recovered' = files'
        /\ acked' = {id \in acked : ~Responses!Expired(id)}
    BY <1>1, RestartHolds
  <1>3. \A id \in Ids : files'[id] = IF files[id] # None /\ Responses!Expired(id) THEN None ELSE files[id]
    BY <1>1, RestartOpens DEF DurableInv
  <1>4. \A v \in Workers : worker'[v].at = "idle"
    BY <1>2 DEF Responses!Idle
  <1>5. AheadOnlyByInsert' /\ OneWriter' /\ UndoneIsGone'
    BY <1>2, <1>4 DEF AheadOnlyByInsert, OneWriter, UndoneIsGone
  <1>6. SuccessorsUnique'
    BY <1>3 DEF DurableInv, SuccessorsUnique, Responses!SuccessorsIn
  <1>7. \A id \in Ids : recovered[id] # None => recovered[id] = files[id]
    <2> SUFFICES ASSUME NEW id \in Ids, recovered[id] # None, recovered[id] # files[id] PROVE FALSE
      OBVIOUS
    <2>1. PICK v \in Workers : worker[v].at = "insert" /\ worker[v].record.id = id
      BY DEF DurableInv, AheadOnlyByInsert
    <2> QED  BY <2>1 DEF LineageInv, InsertWritten
  <1>8. BaseThere'
    <2> SUFFICES ASSUME NEW id \in Ids, NEW base \in Ids, files'[id] # None, files'[id].previous = base
                 PROVE  files'[base] # None \/ (created'[base] # None /\ Responses!Expired(base)')
      <3>1. \A id \in Ids : files'[id] # None => files'[id].previous \in Ids \cup {None}
        BY <1>1, <1>3 DEF ResponsesTypeOK, Record
      <3> QED  BY <1>2, <3>1 DEF BaseThere, Responses!Stored, Responses!Expired
    <2>1. Responses!Expired(base)' <=> Responses!Expired(base)
      BY <1>2 DEF Responses!Expired
    <2>2. files[id] # None /\ files[id].previous = base /\ base # None
      BY <1>3, NoneIsNone
    <2>3. recovered[base] # None \/ (created[base] # None /\ Responses!Expired(base))
      <3>1. CASE recovered[id] # None
        BY <1>7, <2>2, <3>1, StoredIs DEF DurableInv, BaseThere
      <3>2. CASE recovered[id] = None
        <4>1. PICK v \in Workers : worker[v].at = "insert" /\ worker[v].record.id = id
          BY <2>2, <3>2 DEF DurableInv, AheadOnlyByInsert
        <4>2. worker[v].record = files[id]
          BY <4>1 DEF LineageInv, InsertWritten
        <4> QED  BY <2>2, <4>1, <4>2 DEF DurableInv, OneWriter
      <3> QED  BY <3>1, <3>2
    <2>4. CASE recovered[base] # None
      <3>1. files[base] # None /\ created[base] # None
        BY <1>7, <2>4 DEF DurableInv, KeptIsCreated, RecordsOf
      <3> QED  BY <1>2, <1>3, <2>1, <3>1
    <2> QED  BY <1>2, <2>1, <2>3, <2>4
  <1>9. KeptIsCreated'
    BY <1>2, <1>3 DEF DurableInv, KeptIsCreated, RecordsOf
  <1>10. AckedIsStored'
    BY <1>2, <1>3, <1>7 DEF DurableInv, AckedIsStored, Responses!Stored
  <1> QED  BY <1>5, <1>6, <1>8, <1>9, <1>10 DEF DurableInv

LEMMA TickDurable ==
    ASSUME LineageInv, DurableInv, UNCHANGED <<recovered, files, unsynced, created, worker, acked>>,
           time' \in {time, time + 1}
    PROVE  DurableInv'
  <1>1. BaseThere'
    BY BasesStay DEF LineageInv, DurableInv
  <1>2. AheadOnlyByInsert' /\ OneWriter' /\ UndoneIsGone' /\ SuccessorsUnique' /\ KeptIsCreated' /\ AckedIsStored'
    BY DEF DurableInv, AheadOnlyByInsert, OneWriter, UndoneIsGone, SuccessorsUnique, KeptIsCreated,
           AckedIsStored, RecordsOf, Responses!SuccessorsIn, Responses!Stored
  <1> QED  BY <1>1, <1>2 DEF DurableInv

LEMMA DurableNext ==
    ASSUME LineageInv, DurableInv, part = "responses", Responses!Next
    PROVE  DurableInv'
  <1>1. CASE Responses!Tick
    BY <1>1, TickDurable DEF Responses!Tick
  <1>2. CASE Responses!Restart
    BY <1>2, RestartDurable
  <1>3. CASE \E w \in Workers :
                \/ Turns(w) \/ Begins(w)
                \/ \E gone \in SUBSET Ids : Responses!Prune(w, gone)
                \/ Responses!Put(w) \/ Responses!PutSuccessor(w)
                \/ Responses!InsertResource(w) \/ Responses!Delete(w)
    BY <1>3, TurnsDurable, BeginsDurable, PruneDurable, WriteDurable, InsertDurable, DeleteDurable
  <1> QED  BY <1>1, <1>2, <1>3, KindsOfSteps DEF LineageInv

-----------------------------------------------------------------------------
ResponsesInv == LineageInv /\ (part = "responses" => DurableInv)

LEMMA ResponsesInit == ASSUME Responses!Init PROVE ResponsesInv
  <1>1. \A id \in Ids : recovered[id] = None /\ files[id] = None /\ RecordsOf(id) = {}
    BY DEF Responses!Init, RecordsOf
  <1>2. \A w \in Workers : worker[w] = Responses!Idle /\ worker[w].at = "idle" /\ ~Holds(w)
    BY DEF Responses!Init, Responses!Idle, Holds
  <1>3. ResponsesTypeOK
    BY <1>1 DEF Responses!Init, ResponsesTypeOK, WorkerState
  <1>4. FirstIsZero /\ Agree /\ Follows /\ FreshUnseen /\ OneHolder /\ InsertWritten
    BY <1>1, <1>2 DEF FirstIsZero, Agree, Follows, FreshUnseen, OneHolder, InsertWritten
  <1>5. DurableInv
    BY <1>1, <1>2 DEF DurableInv, AheadOnlyByInsert, OneWriter, UndoneIsGone, SuccessorsUnique, BaseThere,
                      KeptIsCreated, AckedIsStored, Responses!SuccessorsIn, Responses!Stored, Responses!Init
  <1> QED  BY <1>3, <1>4, <1>5 DEF ResponsesInv, LineageInv

LEMMA ResponsesNext == ASSUME ResponsesInv, [Next]_vars PROVE ResponsesInv'
  <1>1. CASE ResponsesStep
    BY <1>1, LineageNext, DurableNext DEF ResponsesStep, ResponsesInv
  <1>2. CASE UNCHANGED <<part, responseVars>>
    <2>1. time' \in Nat
      BY <1>2 DEF ResponsesInv, LineageInv, ResponsesTypeOK, responseVars
    <2> QED  BY <1>2, <2>1, LineageUnchanged, TickDurable DEF ResponsesInv, responseVars
  <1> QED  BY <1>1, <1>2 DEF Next, vars, ContextsStep, CompactedStep, FrontierStep

LEMMA ResponsesCounts == ASSUME NEW S PROVE Responses!Cardinality(S) = Cardinality(S)
  BY DEF Responses!Cardinality, Cardinality

LEMMA ResponsesSafe == ASSUME ResponsesInv PROVE ResponsesAreKept
  <1>1. Responses!RevisionsFollow
    <2> SUFFICES ASSUME NEW id \in Ids, recovered[id] # None
                 PROVE  LET base == recovered[id].previous IN
                        IF base = None THEN recovered[id].revision = 0
                        ELSE recovered[base] # None => recovered[id].revision = recovered[base].revision + 1
      BY DEF Responses!RevisionsFollow, Responses!Stored
    <2> QED  BY DEF ResponsesInv, LineageInv, Follows, RecordsOf
  <1>2. ASSUME part = "responses"
        PROVE  Responses!OneSuccessor /\ Responses!BaseKept /\ Responses!ReportedIsDurable
    <2>0. DurableInv
      BY <1>2 DEF ResponsesInv
    <2>1. Responses!OneSuccessor
      <3> SUFFICES ASSUME NEW id \in Ids PROVE Cardinality(Responses!SuccessorsIn(files, id)) <= 1
        BY ResponsesCounts DEF Responses!OneSuccessor
      <3>1. CASE Responses!SuccessorsIn(files, id) = {}
        BY <3>1, FS_EmptySet
      <3>2. CASE Responses!SuccessorsIn(files, id) # {}
        <4>1. PICK s \in Responses!SuccessorsIn(files, id) : TRUE
          BY <3>2
        <4>2. Responses!SuccessorsIn(files, id) = {s}
          BY <2>0, <4>1 DEF DurableInv, SuccessorsUnique, Responses!SuccessorsIn
        <4>3. Cardinality({s}) = 1
          BY FS_Singleton
        <4> QED  BY <4>2, <4>3
      <3> QED  BY <3>1, <3>2
    <2>2. Responses!BaseKept
      BY <2>0 DEF DurableInv, BaseThere, Responses!BaseKept
    <2>3. Responses!ReportedIsDurable
      BY <2>0 DEF DurableInv, AckedIsStored, AheadOnlyByInsert, Responses!ReportedIsDurable
    <2> QED  BY <2>1, <2>2, <2>3
  <1> QED  BY <1>1, <1>2 DEF ResponsesAreKept

\* What memory, directory and workers hold of responses fits together at every moment,
\* also where directories fail to synchronise: the store and the handlers of
\* response_store.rs, responses.rs and context_updates.rs keep it.
THEOREM ResponsesInvariant == Spec => []ResponsesInv
  <1>1. Init => ResponsesInv
    BY ResponsesInit DEF Init
  <1>2. ResponsesInv /\ [Next]_vars => ResponsesInv'
    BY ResponsesNext
  <1> QED  BY <1>1, <1>2, PTL DEF Spec

\* A response has one successor, what it continues goes only by its own expiry, what was
\* reported survives restarts, and revisions count the lineage: put_successor, delete,
\* prune_expired and open, in whatever order requests and crashes come.
THEOREM ResponsesAlwaysKept == Spec => []ResponsesAreKept
  BY ResponsesInvariant, ResponsesSafe, PTL

-----------------------------------------------------------------------------
(* The rate of declarations.                                               *)

Declaration == [principal : UpdatedBound.principals \cup DeclaredBound.principals,
                context : ContextIds, target : Targets, at : Nat, expires : Nat]

DeclarationsTypeOK ==
    /\ made \in Seq(Declaration)
    /\ creationTimes \in [DeclaredBound.principals -> SUBSET DOMAIN made]
    /\ contextTime \in Nat
    /\ \A d \in DOMAIN made : made[d].at <= contextTime

\* The declarations of a principal in the window that ends at a time
InWindow(p, t) == {d \in DOMAIN made : made[d].principal = p /\ made[d].at <= t /\ t < made[d].at + Window}

\* Of each principal exactly its own declarations are held, and all that still count.
TimesHeld ==
    \A p \in DeclaredBound.principals :
        /\ \A d \in creationTimes[p] : made[d].principal = p
        /\ InWindow(p, contextTime) \subseteq creationTimes[p]

RateInv == DeclarationsTypeOK /\ TimesHeld /\ Declared!RateHolds

-----------------------------------------------------------------------------
(* Contexts that inferences and compactions update.                        *)

Token == {Updated!Imported} \cup [kind : {"turn"}, id : Nat]

ContextRecord == [revision : Nat, tokens : Seq(Token), native : Seq(Token)]

BranchState == [at : {"branch"}, record : ContextRecord]
AskState == [at : {"read"}, context : ContextIds \cup {None}, target : Targets \cup {None}]
InferState == [at : {"compact", "generate", "commit"}, context : ContextIds \cup {None},
               target : Targets \cup {None}, record : ContextRecord]
ContextWorkerState == {Updated!Idle} \cup BranchState \cup AskState \cup InferState

ContextsTypeOK ==
    /\ contexts \in [ContextIds -> ContextRecord \cup {None}]
    /\ turns \in Nat
    /\ contextWorker \in [Workers -> ContextWorkerState]
    /\ made \in Seq(Declaration)
    /\ contextTime \in Nat

Infers(w) == contextWorker[w].at \in {"compact", "generate", "commit"}

\* A context has an id that was given to it.
Entered == \A id \in ContextIds : contexts[id] # None => id \in used

Native(x) == x.tokens = x.native \/ x.tokens = <<Updated!Imported>> \o x.native

\* All that is or will be the record of a context continues from what it says.
AllNative ==
    /\ \A id \in ContextIds : contexts[id] # None => Native(contexts[id])
    /\ \A w \in Workers : contextWorker[w].at = "branch" \/ Infers(w) => Native(contextWorker[w].record)

\* What an inference may build on: the tokens, or those compacted
Bases(ts) == {ts} \cup {Updated!Compacted(ts, target) : target \in Targets}

\* How far an inference has come with the tokens of the context
Builds(state, ts) ==
    \/ state.at = "compact" /\ state.record.tokens = ts
    \/ state.at = "generate" /\ state.record.tokens \in Bases(ts)
    \/ state.at = "commit" /\ Updated!Front(state.record.tokens) \in Bases(ts)

\* A context is at or past the revision an inference has read, and if it is still at
\* that, the inference builds on what it holds.
ReadsCurrent ==
    \A w \in Workers : Infers(w) /\ contextWorker[w].context # None =>
        LET state == contextWorker[w] IN
        /\ state.context \in used
        /\ state.at = "compact" => state.target # None
        /\ contexts[state.context] # None =>
              /\ state.record.revision <= contexts[state.context].revision
              /\ state.record.revision = contexts[state.context].revision =>
                    Builds(state, contexts[state.context].tokens)

UpdatedInv == ContextsTypeOK /\ Entered /\ AllNative /\ ReadsCurrent

-----------------------------------------------------------------------------
(* The rate of declarations is kept.                                       *)

LEMMA DeclaredCounts == ASSUME NEW S PROVE Declared!Cardinality(S) = Cardinality(S)
  BY DEF Declared!Cardinality, Cardinality

LEMMA DeclarationsAre ==
    ASSUME DeclarationsTypeOK
    PROVE  /\ DOMAIN made = 1..Len(made) /\ Len(made) \in Nat
           /\ \A d \in DOMAIN made : made[d] \in Declaration /\ made[d].at \in Nat /\ made[d].at <= contextTime
  <1>1. made \in Seq(Declaration)
    BY DEF DeclarationsTypeOK
  <1>2. DOMAIN made = 1..Len(made) /\ Len(made) \in Nat /\ \A d \in 1..Len(made) : made[d] \in Declaration
    <2> HIDE DEF Declaration
    <2> QED  BY <1>1
  <1>3. \A x \in Declaration : x.at \in Nat
    BY DEF Declaration
  <1> QED  BY <1>2, <1>3 DEF DeclarationsTypeOK

LEMMA DeclarationsFinite ==
    ASSUME DeclarationsTypeOK
    PROVE  \A S \in SUBSET DOMAIN made : IsFiniteSet(S) /\ Cardinality(S) \in Nat
  <1>1. made \in Seq(Declaration) /\ DOMAIN made = 1..Len(made) /\ Len(made) \in Nat
    BY DEF DeclarationsTypeOK
  <1>2. IsFiniteSet(DOMAIN made)
    BY <1>1, FS_Interval
  <1> QED  BY <1>2, FS_Subset, FS_CardinalityType

LEMMA RateIs ==
    Declared!RateHolds <=> \A p \in DeclaredBound.principals, t \in 0..contextTime :
                               Cardinality(InWindow(p, t)) <= Rate
  BY DeclaredCounts DEF Declared!RateHolds, InWindow

LEMMA RateNumbers == Rate \in Nat /\ Window \in Nat /\ None \notin Nat
  BY ResourcesAssumption, NoneIsNone DEF Declared!ContextsAssumption

\* A step that makes no declaration and holds all times keeps the rate.
LEMMA NothingDeclared ==
    ASSUME RateInv, UNCHANGED <<made, creationTimes, contextTime>>
    PROVE  RateInv'
  BY DEF RateInv, DeclarationsTypeOK, TimesHeld, InWindow, RateIs, Declared!RateHolds

\* A later moment has fewer declarations in its window.
LEMMA RateTick ==
    ASSUME RateInv, Declared!Tick
    PROVE  RateInv'
  <1>1. UNCHANGED <<made, creationTimes>> /\ contextTime' = contextTime + 1
    BY DEF Declared!Tick, Declared!declarationVars
  <1>2. DeclarationsTypeOK /\ contextTime \in Nat
    BY DEF RateInv, DeclarationsTypeOK
  <1>3. \A d \in DOMAIN made : made[d].at \in Nat
    BY <1>2, DeclarationsAre
  <1>4. DeclarationsTypeOK'
    BY <1>1, <1>2, <1>3 DEF DeclarationsTypeOK
  <1>5. \A p \in DeclaredBound.principals : InWindow(p, contextTime + 1) \subseteq InWindow(p, contextTime)
    BY <1>2, <1>3, RateNumbers DEF InWindow, DeclarationsTypeOK
  <1>6. TimesHeld'
    <2>1. \A p \in DeclaredBound.principals : InWindow(p, contextTime)' = InWindow(p, contextTime + 1)
      BY <1>1 DEF InWindow
    <2> QED  BY <1>1, <1>5, <2>1 DEF RateInv, TimesHeld
  <1>7. Declared!RateHolds'
    <2> SUFFICES ASSUME NEW p \in DeclaredBound.principals, NEW t \in 0..(contextTime + 1)
                 PROVE  Cardinality(InWindow(p, t)) <= Rate
      BY <1>1, DeclaredCounts DEF Declared!RateHolds, InWindow
    <2>1. CASE t \in 0..contextTime
      BY <2>1, RateIs DEF RateInv
    <2>2. CASE t = contextTime + 1
      <3>1. InWindow(p, contextTime) \subseteq DOMAIN made
        BY DEF InWindow
      <3>2. Cardinality(InWindow(p, t)) <= Cardinality(InWindow(p, contextTime))
        BY <1>2, <1>5, <2>2, <3>1, DeclarationsFinite, FS_Subset
      <3>3. Cardinality(InWindow(p, contextTime)) <= Rate
        BY <1>2, RateIs DEF RateInv
      <3>4. Cardinality(InWindow(p, t)) \in Nat /\ Cardinality(InWindow(p, contextTime)) \in Nat
        BY <1>2, <3>1, DeclarationsFinite DEF InWindow
      <3> QED  BY <3>2, <3>3, <3>4, RateNumbers
    <2> QED  BY <1>2, <2>1, <2>2
  <1> QED  BY <1>4, <1>6, <1>7 DEF RateInv

\* A declaration is made only when fewer than the rate are in the window that ends now.
LEMMA RateCreate ==
    ASSUME RateInv, NEW principal \in DeclaredBound.principals, NEW context \in ContextIds,
           NEW target \in Targets, NEW lifetime \in DeclaredBound.lifetimes,
           Declared!CreateDeclaration(principal, context, target, lifetime)
    PROVE  RateInv'
  <1> DEFINE recent == [p \in DeclaredBound.principals |-> Declared!Recent(creationTimes[p])]
             new == [principal |-> principal, context |-> context, target |-> target, at |-> contextTime,
                     expires |-> contextTime + lifetime]
  <1>0. DeclarationsTypeOK /\ TimesHeld /\ contextTime \in Nat /\ contextTime' = contextTime
    BY DEF RateInv, DeclarationsTypeOK, Declared!CreateDeclaration
  <1>1. /\ \A d \in DOMAIN made : made[d] \in Declaration /\ made[d].at \in Nat /\ made[d].at <= contextTime
        /\ DOMAIN made = 1..Len(made) /\ Len(made) \in Nat
    BY <1>0, DeclarationsAre
  <1>2. \A p \in DeclaredBound.principals : recent[p] = InWindow(p, contextTime)
    <2> TAKE p \in DeclaredBound.principals
    <2>1. creationTimes[p] \subseteq DOMAIN made /\ \A d \in creationTimes[p] : made[d].principal = p
      BY <1>0 DEF DeclarationsTypeOK, TimesHeld
    <2>2. InWindow(p, contextTime) \subseteq creationTimes[p]
      BY <1>0 DEF TimesHeld
    <2> QED  BY <1>1, <2>1, <2>2 DEF Declared!Recent, InWindow
  <1>3. \/ made' = made /\ creationTimes' = recent
        \/ /\ made' = Append(made, new) /\ Cardinality(recent[principal]) < Rate
           /\ creationTimes' = [recent EXCEPT ![principal] = @ \cup {Len(made')}]
    BY DeclaredCounts DEF Declared!CreateDeclaration
  <1>4. CASE made' = made /\ creationTimes' = recent
    <2>1. DeclarationsTypeOK'
      BY <1>0, <1>2, <1>4 DEF DeclarationsTypeOK, InWindow
    <2>2. TimesHeld'
      BY <1>0, <1>2, <1>4 DEF TimesHeld, InWindow
    <2>3. Declared!RateHolds'
      BY <1>0, <1>4 DEF RateInv, Declared!RateHolds
    <2> QED  BY <2>1, <2>2, <2>3 DEF RateInv
  <1>5. CASE /\ made' = Append(made, new) /\ Cardinality(recent[principal]) < Rate
             /\ creationTimes' = [recent EXCEPT ![principal] = @ \cup {Len(made')}]
    <2>1. new \in Declaration /\ new.at = contextTime /\ new.principal = principal
      <3>1. lifetime \in Nat
        BY ResourcesAssumption DEF Declared!ContextsAssumption
      <3> QED  BY <1>0, <3>1 DEF Declaration
    <2> DEFINE n == Len(made) + 1
    <2>2. /\ made' \in Seq(Declaration) /\ Len(made') = n /\ DOMAIN made' = DOMAIN made \cup {n}
          /\ n \notin DOMAIN made
          /\ made'[n] = new /\ \A d \in DOMAIN made : made'[d] = made[d]
      BY <1>0, <1>1, <1>5, <2>1 DEF DeclarationsTypeOK
    <2> HIDE DEF new, n
    <2>3. \A p \in DeclaredBound.principals :
            creationTimes'[p] = IF p = principal THEN recent[p] \cup {n} ELSE recent[p]
      BY <1>5, <2>2
    <2>4. \A p \in DeclaredBound.principals, t \in Nat :
            {d \in DOMAIN made' : made'[d].principal = p /\ made'[d].at <= t /\ t < made'[d].at + Window}
            = IF p = principal /\ contextTime <= t /\ t < contextTime + Window
              THEN InWindow(p, t) \cup {n} ELSE InWindow(p, t)
      BY <1>0, <2>1, <2>2 DEF InWindow
    <2>5. DeclarationsTypeOK'
      <3>1. creationTimes' \in [DeclaredBound.principals -> SUBSET DOMAIN made']
        <4>1. \A p \in DeclaredBound.principals : recent[p] \subseteq DOMAIN made
          BY <1>2 DEF InWindow
        <4>2. \A p \in DeclaredBound.principals : creationTimes'[p] \subseteq DOMAIN made'
          BY <2>2, <2>3, <4>1
        <4>3. DOMAIN creationTimes' = DeclaredBound.principals
              /\ creationTimes' = [p \in DOMAIN creationTimes' |-> creationTimes'[p]]
          BY <1>5
        <4> QED  BY <4>2, <4>3
      <3>2. \A d \in DOMAIN made' : made'[d].at <= contextTime'
        BY <1>0, <1>1, <2>1, <2>2
      <3> QED  BY <1>0, <2>2, <3>1, <3>2 DEF DeclarationsTypeOK
    <2>6. TimesHeld'
      <3> SUFFICES ASSUME NEW p \in DeclaredBound.principals
                   PROVE  /\ \A d \in creationTimes'[p] : made'[d].principal = p
                          /\ {d \in DOMAIN made' : /\ made'[d].principal = p /\ made'[d].at <= contextTime
                                                   /\ contextTime < made'[d].at + Window}
                             \subseteq creationTimes'[p]
        BY <1>0 DEF TimesHeld, InWindow
      <3>0. PICK held : held = recent[p]
        OBVIOUS
      <3>1. \A d \in held : d \in DOMAIN made /\ made[d].principal = p
        BY <1>2, <3>0 DEF InWindow
      <3>2. \A d \in creationTimes'[p] : made'[d].principal = p
        <4> HIDE DEF recent
        <4>1. creationTimes'[p] = IF p = principal THEN held \cup {n} ELSE held
          BY <2>3, <3>0
        <4> QED  BY <2>1, <2>2, <3>1, <4>1
      <3>3. {d \in DOMAIN made' : /\ made'[d].principal = p /\ made'[d].at <= contextTime
                                  /\ contextTime < made'[d].at + Window}
            \subseteq creationTimes'[p]
        <4> HIDE DEF recent
        <4>1. creationTimes'[p] = IF p = principal THEN InWindow(p, contextTime) \cup {n}
                                  ELSE InWindow(p, contextTime)
          BY <1>2, <2>3
        <4>2. {d \in DOMAIN made' : /\ made'[d].principal = p /\ made'[d].at <= contextTime
                                    /\ contextTime < made'[d].at + Window}
              \subseteq InWindow(p, contextTime) \cup (IF p = principal THEN {n} ELSE {})
          BY <1>0, <2>4
        <4> QED  BY <4>1, <4>2
      <3> QED  BY <3>2, <3>3
    <2>7. Declared!RateHolds'
      <3> SUFFICES ASSUME NEW p \in DeclaredBound.principals, NEW t \in 0..contextTime
                   PROVE  Cardinality({d \in DOMAIN made' : /\ made'[d].principal = p /\ made'[d].at <= t
                                                            /\ t < made'[d].at + Window}) <= Rate
        BY <1>0, DeclaredCounts DEF Declared!RateHolds
      <3>0. t \in Nat /\ InWindow(p, t) \subseteq DOMAIN made
        BY <1>0 DEF InWindow
      <3>1. Cardinality(InWindow(p, t)) <= Rate /\ Cardinality(InWindow(p, t)) \in Nat
            /\ IsFiniteSet(InWindow(p, t))
        BY <1>0, <3>0, RateIs, DeclarationsFinite DEF RateInv
      <3>2. CASE ~(p = principal /\ contextTime <= t /\ t < contextTime + Window)
        BY <2>4, <3>0, <3>1, <3>2
      <3>3. CASE p = principal /\ contextTime <= t /\ t < contextTime + Window
        <4>1. t = contextTime
          BY <1>0, <3>3
        <4>2. n \notin InWindow(p, t)
          BY <2>2, <3>0
        <4>3. Cardinality(InWindow(p, t) \cup {n}) = Cardinality(InWindow(p, t)) + 1
          BY <3>1, <4>2, FS_AddElement
        <4>4. Cardinality(InWindow(p, t)) < Rate
          BY <1>2, <1>5, <3>3, <4>1
        <4>5. Cardinality(InWindow(p, t) \cup {n}) <= Rate
          BY <3>1, <4>3, <4>4, RateNumbers
        <4> QED  BY <2>4, <3>0, <3>3, <4>5
      <3> QED  BY <3>2, <3>3
    <2> QED  BY <2>5, <2>6, <2>7 DEF RateInv
  <1> QED  BY <1>3, <1>4, <1>5

LEMMA RateNext == ASSUME RateInv, Declared!Next PROVE RateInv'
  <1>1. CASE Declared!Tick
    BY <1>1, RateTick
  <1>2. CASE \E w \in Workers : Declared!Work(w)
    <2>1. UNCHANGED <<made, creationTimes, contextTime>>
      BY <1>2 DEF Declared!Work, Declared!declarationVars, Declared!CreateContext, Declared!ImportContext,
                  Declared!BranchContext, Declared!EnterBranch, Declared!DeleteContext, Declared!CommitNew,
                  Declared!Infer, Declared!InferDeclared, Declared!ReadContext, Declared!CompactContext,
                  Declared!Generate, Declared!CommitInference, Declared!Fail
    <2> QED  BY <2>1, NothingDeclared
  <1>3. CASE Declared!Declare
    <2>1. ASSUME NEW p \in DeclaredBound.principals, NEW id \in ContextIds, NEW target \in Targets,
                 NEW lifetime \in DeclaredBound.lifetimes,
                 Declared!CreateDeclaration(p, id, target, lifetime)
          PROVE  RateInv'
      BY <2>1, RateCreate
    <2>2. ASSUME NEW p \in DeclaredBound.principals, NEW d \in DOMAIN made, Declared!RevokeDeclaration(p, d)
          PROVE  RateInv'
      BY <2>2, NothingDeclared DEF Declared!RevokeDeclaration
    <2>3. ASSUME NEW d \in DOMAIN made, Declared!DeclarationExpired(d)
          PROVE  RateInv'
      BY <2>3, NothingDeclared DEF Declared!DeclarationExpired
    <2> QED  BY <1>3, <2>1, <2>2, <2>3 DEF Declared!Declare
  <1> QED  BY <1>1, <1>2, <1>3 DEF Declared!Next

LEMMA RateInit == ASSUME Declared!Init PROVE RateInv
  <1>1. DeclarationsTypeOK /\ TimesHeld
    BY DEF Declared!Init, DeclarationsTypeOK, TimesHeld, InWindow
  <1>2. \A p \in DeclaredBound.principals, t \in 0..contextTime : InWindow(p, t) = {}
    BY DEF Declared!Init, InWindow
  <1>3. Cardinality({}) <= Rate
    BY FS_EmptySet, RateNumbers
  <1> QED  BY <1>1, <1>2, <1>3, RateIs DEF RateInv

-----------------------------------------------------------------------------
(* The tokens of a compacted context.                                      *)

LEMMA Greatest ==
    ASSUME NEW n \in Nat, NEW S \in SUBSET (1..n), S # {}
    PROVE  \E m \in S : \A j \in S : j <= m
  <1> DEFINE T == {n - i : i \in S}
  <1>0. \A i \in S : i \in Nat /\ i <= n
    OBVIOUS
  <1>1. T \in SUBSET Nat /\ T # {}
    <2>1. \A i \in S : n - i \in Nat
      BY <1>0
    <2> QED  BY <2>1
  <1>2. PICK t \in T : \A u \in T : t <= u
    <2> HIDE DEF T
    <2> QED  BY <1>1, LeastNumber
  <1>3. PICK m \in S : t = n - m
    BY <1>2
  <1>4. \A j \in S : n - m <= n - j
    BY <1>2, <1>3
  <1> QED  BY <1>0, <1>4

\* A finite set of indices has a k-th element for every k up to its size.
LEMMA RankExists ==
    ASSUME NEW n \in Nat, NEW S \in SUBSET (1..n), NEW k \in 1..Cardinality(S)
    PROVE  \E i \in S : Cardinality({j \in S : j <= i}) = k
  <1> DEFINE UpTo(i) == {j \in S : j <= i}
  <1>1. /\ IsFiniteSet(S) /\ Cardinality(S) \in Nat
        /\ \A B \in SUBSET S : IsFiniteSet(B) /\ Cardinality(B) \in Nat
    <2>1. IsFiniteSet(1..n)
      BY FS_Interval
    <2>2. IsFiniteSet(S)
      BY <2>1, FS_Subset
    <2> QED  BY <2>2, FS_Subset, FS_CardinalityType
  <1>2. k \in Nat /\ 1 <= k /\ k <= Cardinality(S)
    BY <1>1
  <1>3. S # {}
    BY <1>1, <1>2, FS_EmptySet
  <1>4. PICK m \in S : \A j \in S : j <= m
    BY <1>3, Greatest
  <1> DEFINE T == {i \in S : Cardinality(UpTo(i)) >= k}
  <1>0. \A j \in S : j \in Nat
    OBVIOUS
  <1>5. m \in T
    <2>1. UpTo(m) = S
      BY <1>4
    <2> QED  BY <1>2, <2>1
  <1>6. PICK i \in T : \A u \in T : i <= u
    <2>1. T \subseteq S
      OBVIOUS
    <2> HIDE DEF T
    <2>2. T \in SUBSET Nat /\ T # {}
      BY <1>0, <1>5, <2>1
    <2> QED  BY <2>2, LeastNumber
  <1>7. Cardinality(UpTo(i)) = k
    <2> SUFFICES ASSUME Cardinality(UpTo(i)) # k PROVE FALSE
      OBVIOUS
    <2> DEFINE B == UpTo(i) \ {i}
    <2>1. i \in S /\ i \in UpTo(i) /\ UpTo(i) \in SUBSET S /\ B \in SUBSET S /\ i \in Nat
      OBVIOUS
    <2>2. Cardinality(B) = Cardinality(UpTo(i)) - 1
      BY <1>1, <2>1, FS_RemoveElement
    <2>3. Cardinality(B) >= k
      <3>1. Cardinality(UpTo(i)) >= k /\ Cardinality(UpTo(i)) \in Nat
        BY <1>1, <1>6, <2>1
      <3> QED  BY <1>2, <2>2, <3>1
    <2>4. B # {}
      BY <1>2, <2>3, FS_EmptySet
    <2>5. PICK before \in B : \A j \in B : j <= before
      <3> HIDE DEF B
      <3>1. B \in SUBSET (1..n)
        BY <2>1
      <3> QED  BY <2>4, <3>1, Greatest
    <2>6. before \in S /\ before <= i /\ before # i /\ before \in Nat
      BY <1>0, <2>1
    <2>7. UpTo(before) = B
      <3>1. \A j \in S : j <= before <=> j \in B
        <4> TAKE j \in S
        <4>1. j \in Nat
          BY <1>0
        <4>2. j \in B <=> j <= i /\ j # i
          OBVIOUS
        <4>3. j \in B => j <= before
          BY <2>5
        <4> HIDE DEF B, T
        <4> QED  BY <2>1, <2>6, <4>1, <4>2, <4>3
      <3>2. B \subseteq S
        OBVIOUS
      <3> HIDE DEF B, T
      <3> QED  BY <3>1, <3>2
    <2>8. before \in T
      <3>1. Cardinality(UpTo(before)) >= k
        <4> HIDE DEF B, UpTo
        <4> QED  BY <2>3, <2>7
      <3> QED  BY <2>6, <3>1
    <2> QED  BY <1>6, <2>1, <2>6, <2>8
  <1> QED  BY <1>6, <1>7

LEMMA UpdatedCounts == \A S : Updated!Cardinality(S) = Cardinality(S)
  BY DEF Updated!Cardinality, Cardinality

\* What is compacted consists of tokens of the context.
LEMMA CompactedTokens ==
    ASSUME NEW ts \in Seq(Token), NEW target
    PROVE  Updated!Compacted(ts, target) \in Seq(Token)
  <1> DEFINE retained == DOMAIN ts \cap Updated!Retained(ts, target)
             nth(q) == CHOOSE i \in retained : Updated!Cardinality({j \in retained : j <= i}) = q
  <1>1. Updated!Compacted(ts, target) = [q \in 1..Updated!Cardinality(retained) |-> ts[nth(q)]]
    BY DEF Updated!Compacted
  <1>2. PICK n \in Nat : DOMAIN ts = 1..n /\ \A i \in 1..n : ts[i] \in Token
    OBVIOUS
  <1>3. retained \in SUBSET (1..n)
    BY <1>2
  <1>4. Cardinality(retained) \in Nat
    <2>1. IsFiniteSet(1..n)
      BY FS_Interval
    <2> HIDE DEF retained
    <2> QED  BY <1>3, <2>1, FS_Subset, FS_CardinalityType
  <1>5. \A q \in 1..Cardinality(retained) : nth(q) \in retained
    <2> TAKE q \in 1..Cardinality(retained)
    <2> HIDE DEF retained
    <2>1. \E i \in retained : Cardinality({j \in retained : j <= i}) = q
      BY <1>3, RankExists
    <2>2. \E i \in retained : Updated!Cardinality({j \in retained : j <= i}) = q
      BY <2>1, UpdatedCounts, Zenon
    <2> QED  BY <2>2
  <1>6. \A q \in 1..Cardinality(retained) : ts[nth(q)] \in Token
    BY <1>2, <1>3, <1>5
  <1>7. Updated!Cardinality(retained) = Cardinality(retained)
    BY UpdatedCounts
  <1> HIDE DEF retained, nth
  <1> QED  BY <1>1, <1>4, <1>6, <1>7

LEMMA FrontOfAppend ==
    ASSUME NEW ts \in Seq(Token), NEW t \in Token
    PROVE  Updated!Front(Append(ts, t)) = ts /\ Append(ts, t) \in Seq(Token)
  <1> HIDE DEF Token
  <1>1. Len(Append(ts, t)) - 1 = Len(ts) /\ Len(ts) \in Nat
    OBVIOUS
  <1>2. Updated!Front(Append(ts, t)) = SubSeq(Append(ts, t), 1, Len(ts))
    BY <1>1 DEF Updated!Front
  <1>3. SubSeq(Append(ts, t), 1, Len(ts)) = ts
    OBVIOUS
  <1> QED  BY <1>2, <1>3

\* A turn that is added to both keeps them the same, but for an imported beginning.
LEMMA AddedToBoth ==
    ASSUME NEW ts \in Seq(Token), NEW ns \in Seq(Token), NEW t \in Token,
           ts = ns \/ ts = <<Updated!Imported>> \o ns
    PROVE  Append(ts, t) = Append(ns, t) \/ Append(ts, t) = <<Updated!Imported>> \o Append(ns, t)
  <1>1. Updated!Imported \in Token
    BY DEF Token
  <1> HIDE DEF Token
  <1>2. CASE ts = <<Updated!Imported>> \o ns
    <2>1. Append(<<Updated!Imported>> \o ns, t) = <<Updated!Imported>> \o Append(ns, t)
      BY <1>1
    <2> QED  BY <1>2, <2>1
  <1> QED  BY <1>2

-----------------------------------------------------------------------------
(* Contexts are updated from what they hold.                               *)

LEMMA TargetsAreNumbers == Targets \subseteq Nat /\ None \notin Targets /\ UpdatedBound.lifetimes \subseteq Nat
  BY ResourcesAssumption, NoneIsNone DEF Updated!ContextsAssumption

\* What a worker is at, and what it has with it.
LEMMA ContextWorkerIs ==
    ASSUME ContextsTypeOK, NEW w \in Workers
    PROVE  /\ contextWorker[w].at \in {"idle", "branch", "read", "compact", "generate", "commit"}
           /\ contextWorker[w].at = "branch" => contextWorker[w].record \in ContextRecord
           /\ contextWorker[w].at = "read" => /\ contextWorker[w].context \in ContextIds \cup {None}
                                              /\ contextWorker[w].target \in Targets \cup {None}
           /\ Infers(w) => contextWorker[w] \in InferState
  <1>1. contextWorker[w] \in ContextWorkerState
    BY DEF ContextsTypeOK
  <1> HIDE DEF ContextRecord
  <1> QED  BY <1>1 DEF ContextWorkerState, BranchState, AskState, InferState, Updated!Idle, Infers

LEMMA InferFields ==
    ASSUME NEW state \in InferState
    PROVE  /\ state.context \in ContextIds \cup {None} /\ state.target \in Targets \cup {None}
           /\ state.record \in ContextRecord
           /\ state.record.revision \in Nat /\ state.record.tokens \in Seq(Token)
           /\ state.record.native \in Seq(Token)
           /\ state.at \in {"compact", "generate", "commit"}
  <1>1. /\ state.context \in ContextIds \cup {None} /\ state.target \in Targets \cup {None}
        /\ state.record \in ContextRecord /\ state.at \in {"compact", "generate", "commit"}
    <2> HIDE DEF ContextRecord
    <2> QED  BY DEF InferState
  <1> HIDE DEF Token
  <1> QED  BY <1>1 DEF ContextRecord

\* What becomes of one worker disturbs nothing, if it builds on what it has read.
LEMMA WorkerBecomes ==
    ASSUME UpdatedInv, NEW w \in Workers, NEW state \in ContextWorkerState,
           contextWorker' = [contextWorker EXCEPT ![w] = state],
           UNCHANGED <<contexts, used, made, contextTime>>, turns' \in Nat,
           state.at \in {"branch", "compact", "generate", "commit"} => Native(state.record),
           state.at \in {"compact", "generate", "commit"} /\ state.context # None =>
                /\ state.context \in used
                /\ state.at = "compact" => state.target # None
                /\ contexts[state.context] # None =>
                      /\ state.record.revision <= contexts[state.context].revision
                      /\ state.record.revision = contexts[state.context].revision =>
                            Builds(state, contexts[state.context].tokens)
    PROVE  UpdatedInv'
  <1>1. \A v \in Workers : contextWorker'[v] = IF v = w THEN state ELSE contextWorker[v]
    BY DEF UpdatedInv, ContextsTypeOK
  <1>2. ContextsTypeOK'
    <2>1. contextWorker' \in [Workers -> ContextWorkerState]
      <3> HIDE DEF ContextWorkerState
      <3> QED  BY DEF UpdatedInv, ContextsTypeOK
    <2> HIDE DEF ContextRecord, ContextWorkerState, Declaration
    <2> QED  BY <2>1 DEF UpdatedInv, ContextsTypeOK
  <1>3. Entered'
    BY DEF UpdatedInv, Entered
  <1>4. AllNative'
    <2>1. \A v \in Workers : contextWorker'[v].at \in {"branch", "compact", "generate", "commit"}
                             => Native(contextWorker'[v].record)
      BY <1>1 DEF UpdatedInv, AllNative, Infers
    <2>2. \A id \in ContextIds : contexts'[id] # None => Native(contexts'[id])
      BY DEF UpdatedInv, AllNative
    <2> QED  BY <2>1, <2>2 DEF AllNative, Infers, Native
  <1>5. ReadsCurrent'
    <2> SUFFICES ASSUME NEW v \in Workers,
                        contextWorker'[v].at \in {"compact", "generate", "commit"},
                        contextWorker'[v].context # None
                 PROVE  /\ contextWorker'[v].context \in used
                        /\ contextWorker'[v].at = "compact" => contextWorker'[v].target # None
                        /\ contexts[contextWorker'[v].context] # None =>
                              /\ contextWorker'[v].record.revision <= contexts[contextWorker'[v].context].revision
                              /\ contextWorker'[v].record.revision = contexts[contextWorker'[v].context].revision =>
                                    Builds(contextWorker'[v], contexts[contextWorker'[v].context].tokens)
      BY DEF ReadsCurrent, Infers, Builds, Bases
    <2>1. CASE v = w
      BY <1>1, <2>1
    <2>2. CASE v # w
      BY <1>1, <2>2 DEF UpdatedInv, ReadsCurrent, Infers
    <2> QED  BY <2>1, <2>2
  <1> QED  BY <1>2, <1>3, <1>4, <1>5 DEF UpdatedInv

LEMMA IdleAndBranch ==
    /\ Updated!Idle \in ContextWorkerState /\ Updated!Idle.at = "idle"
    /\ \A r \in ContextRecord : [at |-> "branch", record |-> r] \in ContextWorkerState
    /\ \A id \in ContextIds \cup {None}, target \in Targets \cup {None} :
          [at |-> "read", context |-> id, target |-> target] \in ContextWorkerState
    /\ InferState \subseteq ContextWorkerState
  <1> HIDE DEF ContextRecord
  <1> QED  BY DEF ContextWorkerState, Updated!Idle, BranchState, AskState

LEMMA BranchKeeps ==
    ASSUME UpdatedInv, NEW w \in Workers, NEW id \in ContextIds, Updated!BranchContext(w, id)
    PROVE  UpdatedInv'
  <1> DEFINE source == [contexts[id] EXCEPT !.revision = 0]
  <1>1. contexts[id] \in ContextRecord /\ Native(contexts[id])
    <2> HIDE DEF ContextRecord
    <2> QED  BY DEF UpdatedInv, ContextsTypeOK, AllNative, Updated!BranchContext
  <1>2. source \in ContextRecord /\ Native(source)
    <2> HIDE DEF Token
    <2> QED  BY <1>1 DEF ContextRecord, Native
  <1> HIDE DEF source, ContextRecord
  <1> DEFINE state == [at |-> "branch", record |-> source]
  <1>3. state \in ContextWorkerState /\ state.at = "branch" /\ Native(state.record)
    BY <1>2, IdleAndBranch
  <1>4. contextWorker' = [contextWorker EXCEPT ![w] = state]
        /\ UNCHANGED <<contexts, used, made, contextTime>> /\ turns' = turns
    BY DEF Updated!BranchContext, Updated!Become, Updated!declarationVars, source
  <1>5. turns' \in Nat
    BY <1>4 DEF UpdatedInv, ContextsTypeOK
  <1> HIDE DEF state
  <1> QED  BY <1>3, <1>4, <1>5, WorkerBecomes

\* A worker that only asks, or stops, has nothing that could be stale.
LEMMA AskKeeps ==
    ASSUME UpdatedInv, NEW w \in Workers, NEW state \in {Updated!Idle} \cup AskState,
           contextWorker' = [contextWorker EXCEPT ![w] = state],
           UNCHANGED <<contexts, used, turns, made, contextTime>>
    PROVE  UpdatedInv'
  <1>1. state \in ContextWorkerState /\ state.at \in {"idle", "read"}
    BY IdleAndBranch DEF ContextWorkerState, AskState
  <1>2. turns' \in Nat
    BY DEF UpdatedInv, ContextsTypeOK
  <1> QED  BY <1>1, <1>2, WorkerBecomes

LEMMA InferKeeps ==
    ASSUME UpdatedInv, NEW w \in Workers, NEW id \in ContextIds \cup {None},
           NEW target \in Targets \cup {None}, Updated!Infer(w, id, target)
    PROVE  UpdatedInv'
  <1> DEFINE state == [at |-> "read", context |-> id, target |-> target]
  <1>1. state \in AskState
    BY DEF AskState
  <1>2. contextWorker' = [contextWorker EXCEPT ![w] = state]
        /\ UNCHANGED <<contexts, used, turns, made, contextTime>>
    BY DEF Updated!Infer, Updated!Become, Updated!declarationVars
  <1> HIDE DEF state
  <1> QED  BY <1>1, <1>2, AskKeeps

LEMMA InferDeclaredKeeps ==
    ASSUME UpdatedInv, NEW w \in Workers, NEW principal, NEW d \in DOMAIN made,
           Updated!InferDeclared(w, principal, d)
    PROVE  UpdatedInv'
  <1> DEFINE state == [at |-> "read", context |-> made[d].context, target |-> made[d].target]
  <1>1. made[d].context \in ContextIds /\ made[d].target \in Targets
    <2>1. made \in Seq(Declaration)
      BY DEF UpdatedInv, ContextsTypeOK
    <2>2. made[d] \in Declaration
      <3> HIDE DEF Declaration
      <3> QED  BY <2>1
    <2> QED  BY <2>2 DEF Declaration
  <1>2. state \in AskState
    BY <1>1 DEF AskState
  <1>3. contextWorker' = [contextWorker EXCEPT ![w] = state]
        /\ UNCHANGED <<contexts, used, turns, made, contextTime>>
    BY DEF Updated!InferDeclared, Updated!Become, Updated!declarationVars
  <1> HIDE DEF state
  <1> QED  BY <1>2, <1>3, AskKeeps

LEMMA FailKeeps ==
    ASSUME UpdatedInv, NEW w \in Workers, Updated!Fail(w)
    PROVE  UpdatedInv'
  BY AskKeeps DEF Updated!Fail, Updated!Become, Updated!declarationVars

\* What is read is what the context holds.
LEMMA ReadKeeps ==
    ASSUME UpdatedInv, NEW w \in Workers, Updated!ReadContext(w)
    PROVE  UpdatedInv'
  <1>0. PICK id, target : id = contextWorker[w].context /\ target = contextWorker[w].target
    OBVIOUS
  <1>1. id \in ContextIds \cup {None} /\ target \in Targets \cup {None} /\ (target # None => id # None)
        /\ (id # None => contexts[id] # None)
    BY <1>0, ContextWorkerIs DEF Updated!ReadContext, UpdatedInv
  <1>2. PICK record : record = IF id = None THEN [revision |-> 0, tokens |-> <<>>, native |-> <<>>]
                               ELSE contexts[id]
    OBVIOUS
  <1>3. record \in ContextRecord /\ Native(record)
    <2>1. CASE id = None
      <3> HIDE DEF Token
      <3> QED  BY <1>2, <2>1 DEF ContextRecord, Native
    <2>2. CASE id # None
      <3>1. id \in ContextIds /\ record = contexts[id] /\ contexts[id] # None
        BY <1>1, <1>2, <2>2
      <3> HIDE DEF ContextRecord
      <3> QED  BY <3>1 DEF UpdatedInv, ContextsTypeOK, AllNative
    <2> QED  BY <2>1, <2>2
  <1>4. PICK state : state = [at |-> IF target = None THEN "generate" ELSE "compact",
                              context |-> id, target |-> target, record |-> record]
    OBVIOUS
  <1>5. state \in InferState
    <2> HIDE DEF ContextRecord
    <2> QED  BY <1>1, <1>3, <1>4 DEF InferState
  <1>6. contextWorker' = [contextWorker EXCEPT ![w] = state]
        /\ UNCHANGED <<contexts, used, made, contextTime>> /\ turns' = turns
    BY <1>0, <1>2, <1>4 DEF Updated!ReadContext, Updated!Become, Updated!declarationVars
  <1>7. turns' \in Nat
    BY <1>6 DEF UpdatedInv, ContextsTypeOK
  <1>8. state.context = id /\ state.record = record /\ state.target = target
        /\ state.at = IF target = None THEN "generate" ELSE "compact"
    BY <1>4
  <1>9. ASSUME id # None
        PROVE  /\ id \in used
               /\ contexts[id] # None => /\ record.revision <= contexts[id].revision
                                         /\ Builds(state, contexts[id].tokens)
    <2>1. id \in ContextIds /\ record = contexts[id] /\ contexts[id] # None
      BY <1>1, <1>2, <1>9
    <2>2. id \in used
      BY <2>1 DEF UpdatedInv, Entered
    <2>3. record.revision \in Nat
      BY <1>3 DEF ContextRecord
    <2>4. Builds(state, contexts[id].tokens)
      BY <1>8, <2>1 DEF Builds, Bases
    <2> QED  BY <2>1, <2>2, <2>3, <2>4
  <1>10. state \in ContextWorkerState
    BY <1>5, IdleAndBranch
  <1>11. state.context # None => /\ state.context \in used
                                 /\ state.at = "compact" => state.target # None
                                 /\ contexts[state.context] # None =>
                                       /\ state.record.revision <= contexts[state.context].revision
                                       /\ Builds(state, contexts[state.context].tokens)
    BY <1>8, <1>9
  <1> QED  BY <1>3, <1>6, <1>7, <1>8, <1>10, <1>11, WorkerBecomes

\* A compaction starts from what was read and is evaluated anew, if it changes it.
LEMMA CompactKeeps ==
    ASSUME UpdatedInv, NEW w \in Workers, Updated!CompactContext(w)
    PROVE  UpdatedInv'
  <1>0. PICK old : old = contextWorker[w]
    OBVIOUS
  <1>1. PICK tokens0 : tokens0 = Updated!Compacted(old.record.tokens, old.target)
    OBVIOUS
  <1>2. PICK native0 : native0 = Updated!Prior(old.record, tokens0)
    OBVIOUS
  <1>3. PICK state : state = [old EXCEPT !.at = "generate", !.record.tokens = tokens0, !.record.native = native0]
    OBVIOUS
  <1>4. /\ old.at = "compact" /\ contextWorker' = [contextWorker EXCEPT ![w] = state]
        /\ UNCHANGED <<contexts, used, made, contextTime>> /\ turns' = turns
    BY <1>0, <1>1, <1>2, <1>3 DEF Updated!CompactContext, Updated!Become, Updated!declarationVars
  <1>5. old \in InferState
    BY <1>0, <1>4, ContextWorkerIs DEF UpdatedInv, Infers
  <1>6. /\ old.record.tokens \in Seq(Token) /\ old.record.native \in Seq(Token)
        /\ old.record.revision \in Nat /\ old.record \in ContextRecord
        /\ old.context \in ContextIds \cup {None} /\ old.target \in Targets \cup {None}
    BY <1>5, InferFields
  <1>7. tokens0 \in Seq(Token)
    BY <1>1, <1>6, CompactedTokens
  <1>8. native0 = IF tokens0 = old.record.tokens THEN old.record.native ELSE tokens0
    BY <1>2 DEF Updated!Prior
  <1>9. native0 \in Seq(Token)
    BY <1>6, <1>7, <1>8
  <1>10. PICK r : r = [revision |-> old.record.revision, tokens |-> tokens0, native |-> native0]
    OBVIOUS
  <1>11. /\ r \in ContextRecord /\ r.tokens = tokens0 /\ r.native = native0
         /\ r.revision = old.record.revision
    <2> HIDE DEF Token
    <2> QED  BY <1>6, <1>7, <1>9, <1>10 DEF ContextRecord
  <1>12. state = [at |-> "generate", context |-> old.context, target |-> old.target, record |-> r]
    <2> HIDE DEF Token
    <2>1. old.record = [revision |-> old.record.revision, tokens |-> old.record.tokens,
                        native |-> old.record.native]
      BY <1>6 DEF ContextRecord
    <2>2. old = [at |-> old.at, context |-> old.context, target |-> old.target, record |-> old.record]
      <3> HIDE DEF ContextRecord
      <3> QED  BY <1>5 DEF InferState
    <2> QED  BY <1>3, <1>10, <2>1, <2>2
  <1>13. state \in ContextWorkerState
    <2> HIDE DEF ContextRecord
    <2>1. state \in InferState
      BY <1>6, <1>11, <1>12 DEF InferState
    <2> QED  BY <2>1, IdleAndBranch
  <1>14. /\ state.at = "generate" /\ state.context = old.context /\ state.target = old.target
         /\ state.record = r
    BY <1>12
  <1>15. Native(r)
    <2>1. Native(old.record)
      BY <1>0, <1>4 DEF UpdatedInv, AllNative, Infers
    <2> QED  BY <1>8, <1>11, <2>1 DEF Native
  <1>16. ASSUME old.context # None
         PROVE  /\ old.context \in used
                /\ contexts[old.context] # None =>
                      /\ r.revision <= contexts[old.context].revision
                      /\ r.revision = contexts[old.context].revision =>
                            Builds(state, contexts[old.context].tokens)
    <2>1. /\ old.context \in used /\ old.target # None
          /\ contexts[old.context] # None =>
                /\ old.record.revision <= contexts[old.context].revision
                /\ old.record.revision = contexts[old.context].revision =>
                      Builds(old, contexts[old.context].tokens)
      BY <1>0, <1>4, <1>16 DEF UpdatedInv, ReadsCurrent, Infers
    <2>2. ASSUME NEW ts, Builds(old, ts) PROVE Builds(state, ts)
      <3>1. old.record.tokens = ts
        BY <1>4, <2>2 DEF Builds
      <3>2. tokens0 \in Bases(ts)
        BY <1>1, <1>6, <2>1, <3>1 DEF Bases
      <3> QED  BY <1>11, <1>14, <3>2 DEF Builds
    <2> QED  BY <1>11, <2>1, <2>2
  <1>17. turns' \in Nat
    BY <1>4 DEF UpdatedInv, ContextsTypeOK
  <1> QED  BY <1>4, <1>13, <1>14, <1>15, <1>16, <1>17, WorkerBecomes

\* The turn is added to what the inference builds on.
LEMMA GenerateKeeps ==
    ASSUME UpdatedInv, NEW w \in Workers, Updated!Generate(w)
    PROVE  UpdatedInv'
  <1>0. PICK old : old = contextWorker[w]
    OBVIOUS
  <1>1. PICK token : token = [kind |-> "turn", id |-> turns + 1]
    OBVIOUS
  <1>2. PICK r : r = [revision |-> old.record.revision, tokens |-> Append(old.record.tokens, token),
                      native |-> Append(old.record.native, token)]
    OBVIOUS
  <1>3. PICK state : state = [old EXCEPT !.at = "commit", !.record.tokens = Append(@, token),
                                         !.record.native = Append(@, token)]
    OBVIOUS
  <1>4. /\ old.at = "generate" /\ contextWorker' = [contextWorker EXCEPT ![w] = state]
        /\ UNCHANGED <<contexts, used, made, contextTime>> /\ turns' = turns + 1
    BY <1>0, <1>1, <1>3 DEF Updated!Generate, Updated!Become, Updated!declarationVars
  <1>5. old \in InferState
    BY <1>0, <1>4, ContextWorkerIs DEF UpdatedInv, Infers
  <1>6. /\ old.record.tokens \in Seq(Token) /\ old.record.native \in Seq(Token)
        /\ old.record.revision \in Nat /\ old.record \in ContextRecord
        /\ old.context \in ContextIds \cup {None} /\ old.target \in Targets \cup {None}
    BY <1>5, InferFields
  <1>7. turns' \in Nat /\ token \in Token
    BY <1>1, <1>4 DEF UpdatedInv, ContextsTypeOK, Token
  <1>8. /\ Append(old.record.tokens, token) \in Seq(Token) /\ Append(old.record.native, token) \in Seq(Token)
        /\ Updated!Front(Append(old.record.tokens, token)) = old.record.tokens
    BY <1>6, <1>7, FrontOfAppend
  <1>9. /\ r \in ContextRecord /\ r.tokens = Append(old.record.tokens, token)
        /\ r.native = Append(old.record.native, token) /\ r.revision = old.record.revision
    <2> HIDE DEF Token
    <2> QED  BY <1>2, <1>6, <1>8 DEF ContextRecord
  <1>10. state = [at |-> "commit", context |-> old.context, target |-> old.target, record |-> r]
    <2> HIDE DEF Token
    <2>1. old.record = [revision |-> old.record.revision, tokens |-> old.record.tokens,
                        native |-> old.record.native]
      BY <1>6 DEF ContextRecord
    <2>2. old = [at |-> old.at, context |-> old.context, target |-> old.target, record |-> old.record]
      <3> HIDE DEF ContextRecord
      <3> QED  BY <1>5 DEF InferState
    <2> QED  BY <1>2, <1>3, <2>1, <2>2
  <1>11. state \in ContextWorkerState
    <2> HIDE DEF ContextRecord
    <2>1. state \in InferState
      BY <1>6, <1>9, <1>10 DEF InferState
    <2> QED  BY <2>1, IdleAndBranch
  <1>12. /\ state.at = "commit" /\ state.context = old.context /\ state.target = old.target
         /\ state.record = r
    BY <1>10
  <1>13. Native(r)
    <2>1. Native(old.record)
      BY <1>0, <1>4 DEF UpdatedInv, AllNative, Infers
    <2> QED  BY <1>6, <1>7, <1>9, <2>1, AddedToBoth DEF Native
  <1>14. ASSUME old.context # None
         PROVE  /\ old.context \in used
                /\ contexts[old.context] # None =>
                      /\ r.revision <= contexts[old.context].revision
                      /\ r.revision = contexts[old.context].revision =>
                            Builds(state, contexts[old.context].tokens)
    <2>1. /\ old.context \in used
          /\ contexts[old.context] # None =>
                /\ old.record.revision <= contexts[old.context].revision
                /\ old.record.revision = contexts[old.context].revision =>
                      Builds(old, contexts[old.context].tokens)
      BY <1>0, <1>4, <1>14 DEF UpdatedInv, ReadsCurrent, Infers
    <2>2. ASSUME NEW ts, Builds(old, ts) PROVE Builds(state, ts)
      <3>1. old.record.tokens \in Bases(ts)
        BY <1>4, <2>2 DEF Builds
      <3> QED  BY <1>8, <1>9, <1>12, <3>1 DEF Builds
    <2> QED  BY <1>9, <2>1, <2>2
  <1> QED  BY <1>4, <1>7, <1>11, <1>12, <1>13, <1>14, WorkerBecomes

\* A context that is entered has an id nothing has read.
LEMMA EnterKeeps ==
    ASSUME UpdatedInv, NEW id \in ContextIds, NEW record \in ContextRecord, Native(record),
           Updated!Enter(id, record), NEW w \in Workers,
           contextWorker' = contextWorker \/ contextWorker' = [contextWorker EXCEPT ![w] = Updated!Idle],
           UNCHANGED <<turns, made, contextTime>>
    PROVE  UpdatedInv'
  <1>1. \A v \in Workers : contextWorker'[v] = contextWorker[v] \/ contextWorker'[v].at = "idle"
    BY IdleAndBranch DEF UpdatedInv, ContextsTypeOK
  <1>2. /\ id \notin used /\ used' = used \cup {id}
        /\ \A i \in ContextIds : contexts'[i] = IF i = id THEN record ELSE contexts[i]
        /\ contexts' = [contexts EXCEPT ![id] = record]
    BY DEF UpdatedInv, ContextsTypeOK, Updated!Enter
  <1>3. ContextsTypeOK'
    <2>1. contextWorker' \in [Workers -> ContextWorkerState]
      <3> HIDE DEF ContextWorkerState
      <3> QED  BY IdleAndBranch DEF UpdatedInv, ContextsTypeOK
    <2>2. contexts' \in [ContextIds -> ContextRecord \cup {None}]
      <3> HIDE DEF ContextRecord
      <3> QED  BY <1>2 DEF UpdatedInv, ContextsTypeOK
    <2> HIDE DEF ContextRecord, ContextWorkerState, Declaration
    <2> QED  BY <2>1, <2>2 DEF UpdatedInv, ContextsTypeOK
  <1>4. Entered'
    BY <1>2 DEF UpdatedInv, Entered
  <1>5. AllNative'
    <2>1. \A i \in ContextIds : contexts'[i] # None => Native(contexts'[i])
      BY <1>2 DEF UpdatedInv, AllNative
    <2>2. \A v \in Workers : contextWorker'[v].at \in {"branch", "compact", "generate", "commit"}
                             => Native(contextWorker'[v].record)
      BY <1>1 DEF UpdatedInv, AllNative, Infers
    <2> QED  BY <2>1, <2>2 DEF AllNative, Infers, Native
  <1>6. ReadsCurrent'
    <2> SUFFICES ASSUME NEW v \in Workers,
                        contextWorker'[v].at \in {"compact", "generate", "commit"},
                        contextWorker'[v].context # None
                 PROVE  LET state == contextWorker[v] IN
                        /\ contextWorker'[v] = state
                        /\ state.context \in used'
                        /\ state.at = "compact" => state.target # None
                        /\ contexts'[state.context] # None =>
                              /\ state.record.revision <= contexts'[state.context].revision
                              /\ state.record.revision = contexts'[state.context].revision =>
                                    Builds(state, contexts'[state.context].tokens)
      BY DEF ReadsCurrent, Infers, Builds, Bases
    <2>1. contextWorker'[v] = contextWorker[v]
      BY <1>1
    <2>2. Infers(v)
      BY <2>1 DEF Infers
    <2>3. contextWorker[v].context \in ContextIds
      BY <2>1, <2>2, ContextWorkerIs, InferFields DEF UpdatedInv
    <2>4. contextWorker[v].context \in used
      BY <2>1, <2>2 DEF UpdatedInv, ReadsCurrent
    <2>5. contexts'[contextWorker[v].context] = contexts[contextWorker[v].context]
      BY <1>2, <2>3, <2>4
    <2> QED  BY <1>2, <2>1, <2>2, <2>4, <2>5 DEF UpdatedInv, ReadsCurrent
  <1> QED  BY <1>3, <1>4, <1>5, <1>6 DEF UpdatedInv

LEMMA CreateKeeps ==
    ASSUME UpdatedInv, NEW w \in Workers, NEW id \in ContextIds,
           \/ Updated!CreateContext(w, id) \/ Updated!ImportContext(w, id, Updated!Imported)
           \/ Updated!EnterBranch(w, id) \/ Updated!CommitNew(w, id)
    PROVE  UpdatedInv'
  <1>1. CASE Updated!CreateContext(w, id)
    <2> DEFINE record == [revision |-> 0, tokens |-> <<>>, native |-> <<>>]
    <2>1. record \in ContextRecord /\ Native(record)
      <3> HIDE DEF Token
      <3> QED  BY DEF ContextRecord, Native
    <2>2. /\ Updated!Enter(id, record) /\ contextWorker' = contextWorker
          /\ UNCHANGED <<turns, made, contextTime>>
      BY <1>1 DEF Updated!CreateContext, Updated!declarationVars
    <2> HIDE DEF record
    <2> QED  BY <2>1, <2>2, EnterKeeps
  <1>2. CASE Updated!ImportContext(w, id, Updated!Imported)
    <2> DEFINE record == [revision |-> 0, tokens |-> <<Updated!Imported>>, native |-> <<>>]
    <2>1. Updated!Imported \in Token
      BY DEF Token
    <2>2. record \in ContextRecord /\ Native(record)
      <3> HIDE DEF Token
      <3>1. <<Updated!Imported>> = <<Updated!Imported>> \o <<>>
        OBVIOUS
      <3>2. <<Updated!Imported>> \in Seq(Token) /\ <<>> \in Seq(Token)
        BY <2>1
      <3> QED  BY <3>1, <3>2 DEF ContextRecord, Native
    <2>3. /\ Updated!Enter(id, record) /\ contextWorker' = contextWorker
          /\ UNCHANGED <<turns, made, contextTime>>
      BY <1>2 DEF Updated!ImportContext, Updated!declarationVars
    <2> HIDE DEF record
    <2> QED  BY <2>2, <2>3, EnterKeeps
  <1>3. CASE Updated!EnterBranch(w, id)
    <2> DEFINE record == contextWorker[w].record
    <2>1. /\ contextWorker[w].at = "branch"
          /\ Updated!Enter(id, record) /\ contextWorker' = [contextWorker EXCEPT ![w] = Updated!Idle]
          /\ UNCHANGED <<turns, made, contextTime>>
      BY <1>3 DEF Updated!EnterBranch, Updated!Become, Updated!declarationVars
    <2>2. record \in ContextRecord /\ Native(record)
      BY <2>1, ContextWorkerIs DEF UpdatedInv, AllNative
    <2> HIDE DEF record
    <2> QED  BY <2>1, <2>2, EnterKeeps
  <1>4. CASE Updated!CommitNew(w, id)
    <2> DEFINE record == [contextWorker[w].record EXCEPT !.revision = 1]
    <2>1. /\ contextWorker[w].at = "commit"
          /\ Updated!Enter(id, record) /\ contextWorker' = [contextWorker EXCEPT ![w] = Updated!Idle]
          /\ UNCHANGED <<turns, made, contextTime>>
      BY <1>4 DEF Updated!CommitNew, Updated!Become, Updated!declarationVars
    <2>2. contextWorker[w].record \in ContextRecord /\ Native(contextWorker[w].record)
      BY <2>1, ContextWorkerIs, InferFields DEF UpdatedInv, AllNative, Infers
    <2>3. record \in ContextRecord /\ Native(record)
      <3> HIDE DEF Token
      <3> QED  BY <2>2 DEF ContextRecord, Native
    <2> HIDE DEF record
    <2> QED  BY <2>1, <2>3, EnterKeeps
  <1> QED  BY <1>1, <1>2, <1>3, <1>4

LEMMA DeleteContextKeeps ==
    ASSUME UpdatedInv, NEW w \in Workers, NEW id \in ContextIds, Updated!DeleteContext(w, id)
    PROVE  UpdatedInv'
  <1>1. /\ UNCHANGED <<used, turns, contextWorker, made, contextTime>>
        /\ contexts' = [contexts EXCEPT ![id] = None]
        /\ \A i \in ContextIds : contexts'[i] = IF i = id THEN None ELSE contexts[i]
    BY DEF UpdatedInv, ContextsTypeOK, Updated!DeleteContext, Updated!declarationVars
  <1>2. ContextsTypeOK'
    <2> HIDE DEF ContextRecord, ContextWorkerState, Declaration
    <2> QED  BY <1>1 DEF UpdatedInv, ContextsTypeOK
  <1>3. Entered'
    BY <1>1 DEF UpdatedInv, Entered
  <1>4. AllNative'
    BY <1>1 DEF UpdatedInv, AllNative, Native, Infers
  <1>5. ReadsCurrent'
    <2> SUFFICES ASSUME NEW v \in Workers, Infers(v), contextWorker[v].context # None
                 PROVE  LET state == contextWorker[v] IN
                        /\ state.context \in used
                        /\ state.at = "compact" => state.target # None
                        /\ contexts'[state.context] # None =>
                              /\ state.record.revision <= contexts'[state.context].revision
                              /\ state.record.revision = contexts'[state.context].revision =>
                                    Builds(state, contexts'[state.context].tokens)
      BY <1>1 DEF ReadsCurrent, Infers, Builds, Bases
    <2>1. contextWorker[v].context \in ContextIds
      BY ContextWorkerIs, InferFields DEF UpdatedInv
    <2> QED  BY <1>1, <2>1 DEF UpdatedInv, ReadsCurrent
  <1> QED  BY <1>2, <1>3, <1>4, <1>5 DEF UpdatedInv

\* What is written has a revision past all that the others have read.
LEMMA CommitKeeps ==
    ASSUME UpdatedInv, NEW w \in Workers, Updated!CommitInference(w)
    PROVE  UpdatedInv'
  <1>0. PICK id, old : id = contextWorker[w].context /\ old = contextWorker[w].record
    OBVIOUS
  <1>1. PICK record : record = [old EXCEPT !.revision = contexts[id].revision + 1]
    OBVIOUS
  <1>2. /\ contextWorker[w].at = "commit" /\ id # None /\ contexts[id] # None
        /\ contexts' = [contexts EXCEPT ![id] = record]
        /\ contextWorker' = [contextWorker EXCEPT ![w] = Updated!Idle]
        /\ UNCHANGED <<used, turns, made, contextTime>>
    BY <1>0, <1>1 DEF Updated!CommitInference, Updated!Become, Updated!Unchanged, Updated!declarationVars
  <1>3. id \in ContextIds /\ old \in ContextRecord /\ Native(old)
    BY <1>0, <1>2, ContextWorkerIs, InferFields DEF UpdatedInv, AllNative, Infers
  <1>4. contexts[id] \in ContextRecord /\ contexts[id].revision \in Nat
    <2>1. contexts[id] \in ContextRecord
      <3> HIDE DEF ContextRecord
      <3> QED  BY <1>2, <1>3 DEF UpdatedInv, ContextsTypeOK
    <2> QED  BY <2>1 DEF ContextRecord
  <1>5. record \in ContextRecord /\ Native(record) /\ record.revision = contexts[id].revision + 1
    <2> HIDE DEF Token
    <2> QED  BY <1>1, <1>3, <1>4 DEF ContextRecord, Native
  <1>6. \A i \in ContextIds : contexts'[i] = IF i = id THEN record ELSE contexts[i]
    BY <1>2 DEF UpdatedInv, ContextsTypeOK
  <1>7. \A v \in Workers : contextWorker'[v] = contextWorker[v] \/ contextWorker'[v].at = "idle"
    BY <1>2, IdleAndBranch DEF UpdatedInv, ContextsTypeOK
  <1>8. ContextsTypeOK'
    <2>1. contextWorker' \in [Workers -> ContextWorkerState]
      <3> HIDE DEF ContextWorkerState
      <3> QED  BY <1>2, IdleAndBranch DEF UpdatedInv, ContextsTypeOK
    <2>2. contexts' \in [ContextIds -> ContextRecord \cup {None}]
      <3> HIDE DEF ContextRecord
      <3> QED  BY <1>2, <1>5 DEF UpdatedInv, ContextsTypeOK
    <2> HIDE DEF ContextRecord, ContextWorkerState, Declaration
    <2> QED  BY <1>2, <2>1, <2>2 DEF UpdatedInv, ContextsTypeOK
  <1>9. Entered'
    BY <1>2, <1>6 DEF UpdatedInv, Entered
  <1>10. AllNative'
    <2>1. \A i \in ContextIds : contexts'[i] # None => Native(contexts'[i])
      BY <1>5, <1>6 DEF UpdatedInv, AllNative
    <2>2. \A v \in Workers : contextWorker'[v].at \in {"branch", "compact", "generate", "commit"}
                             => Native(contextWorker'[v].record)
      BY <1>7 DEF UpdatedInv, AllNative, Infers
    <2> QED  BY <2>1, <2>2 DEF AllNative, Infers, Native
  <1>11. ReadsCurrent'
    <2> SUFFICES ASSUME NEW v \in Workers,
                        contextWorker'[v].at \in {"compact", "generate", "commit"},
                        contextWorker'[v].context # None
                 PROVE  LET state == contextWorker[v] IN
                        /\ contextWorker'[v] = state
                        /\ state.context \in used
                        /\ state.at = "compact" => state.target # None
                        /\ contexts'[state.context] # None =>
                              /\ state.record.revision <= contexts'[state.context].revision
                              /\ state.record.revision = contexts'[state.context].revision =>
                                    Builds(state, contexts'[state.context].tokens)
      BY <1>2 DEF ReadsCurrent, Infers, Builds, Bases
    <2>1. contextWorker'[v] = contextWorker[v] /\ Infers(v)
      BY <1>7 DEF Infers
    <2>2. contextWorker[v].context \in ContextIds /\ contextWorker[v].record.revision \in Nat
      BY <2>1, ContextWorkerIs, InferFields DEF UpdatedInv
    <2>3. LET state == contextWorker[v] IN
          /\ state.context \in used
          /\ state.at = "compact" => state.target # None
          /\ contexts[state.context] # None =>
                /\ state.record.revision <= contexts[state.context].revision
                /\ state.record.revision = contexts[state.context].revision =>
                      Builds(state, contexts[state.context].tokens)
      BY <2>1 DEF UpdatedInv, ReadsCurrent
    <2>4. CASE contextWorker[v].context = id
      <3>1. contexts'[id] = record /\ contextWorker[v].record.revision <= contexts[id].revision
        BY <1>2, <1>6, <2>2, <2>3, <2>4
      <3>2. /\ contextWorker[v].record.revision <= record.revision
            /\ contextWorker[v].record.revision # record.revision
        BY <1>4, <1>5, <2>2, <3>1
      <3> QED  BY <2>1, <2>3, <2>4, <3>1, <3>2
    <2>5. CASE contextWorker[v].context # id
      BY <1>6, <2>1, <2>2, <2>3, <2>5
    <2> QED  BY <2>4, <2>5
  <1> QED  BY <1>8, <1>9, <1>10, <1>11 DEF UpdatedInv

LEMMA DeclareKeeps ==
    ASSUME UpdatedInv, Updated!Declare \/ Updated!Tick
    PROVE  UpdatedInv'
  <1>0. made \in Seq(Declaration) /\ contextTime \in Nat
    BY DEF UpdatedInv, ContextsTypeOK
  <1>1. UNCHANGED <<contexts, used, turns, contextWorker>>
    BY DEF Updated!Declare, Updated!Tick, Updated!contextVars, Updated!CreateDeclaration,
           Updated!RevokeDeclaration, Updated!DeclarationExpired
  <1>2. made' \in Seq(Declaration) /\ contextTime' \in Nat
    <2>1. CASE Updated!Tick
      <3> HIDE DEF Declaration
      <3> QED  BY <1>0, <2>1 DEF Updated!Tick, Updated!declarationVars
    <2>2. CASE Updated!Declare
      <3>1. ASSUME NEW p \in UpdatedBound.principals, NEW id \in ContextIds, NEW target \in Targets,
                   NEW lifetime \in UpdatedBound.lifetimes,
                   Updated!CreateDeclaration(p, id, target, lifetime)
            PROVE  made' \in Seq(Declaration) /\ contextTime' \in Nat
        <4> DEFINE new == [principal |-> p, context |-> id, target |-> target, at |-> contextTime,
                           expires |-> contextTime + lifetime]
        <4>1. new \in Declaration
          BY <1>0, TargetsAreNumbers DEF Declaration
        <4>2. contextTime' = contextTime /\ (made' = made \/ made' = Append(made, new))
          BY <3>1 DEF Updated!CreateDeclaration
        <4> HIDE DEF new, Declaration
        <4> QED  BY <1>0, <4>1, <4>2
      <3>2. ASSUME NEW p, NEW d, Updated!RevokeDeclaration(p, d) \/ Updated!DeclarationExpired(d)
            PROVE  made' = made /\ contextTime' = contextTime
        BY <3>2 DEF Updated!RevokeDeclaration, Updated!DeclarationExpired
      <3> HIDE DEF Declaration
      <3> QED  BY <1>0, <2>2, <3>1, <3>2 DEF Updated!Declare
    <2> QED  BY <2>1, <2>2
  <1>3. ContextsTypeOK'
    <2> HIDE DEF ContextRecord, ContextWorkerState, Declaration
    <2> QED  BY <1>1, <1>2 DEF UpdatedInv, ContextsTypeOK
  <1>4. (Entered /\ AllNative /\ ReadsCurrent)'
    BY <1>1 DEF UpdatedInv, Entered, AllNative, ReadsCurrent, Infers, Native, Builds, Bases
  <1> QED  BY <1>3, <1>4 DEF UpdatedInv

LEMMA UpdatedNext == ASSUME UpdatedInv, Updated!Next PROVE UpdatedInv'
  <1>1. ASSUME NEW w \in Workers, Updated!Work(w) PROVE UpdatedInv'
    <2>1. ASSUME NEW id \in ContextIds,
                 \/ Updated!CreateContext(w, id) \/ Updated!ImportContext(w, id, Updated!Imported)
                 \/ Updated!BranchContext(w, id) \/ Updated!EnterBranch(w, id)
                 \/ Updated!DeleteContext(w, id) \/ Updated!CommitNew(w, id)
          PROVE  UpdatedInv'
      BY <2>1, CreateKeeps, BranchKeeps, DeleteContextKeeps
    <2>2. ASSUME NEW id \in ContextIds \cup {None}, NEW target \in Targets \cup {None},
                 Updated!Infer(w, id, target)
          PROVE  UpdatedInv'
      BY <2>2, InferKeeps
    <2>3. ASSUME NEW p \in UpdatedBound.principals, NEW d \in DOMAIN made, Updated!InferDeclared(w, p, d)
          PROVE  UpdatedInv'
      BY <2>3, InferDeclaredKeeps
    <2>4. CASE \/ Updated!ReadContext(w) \/ Updated!CompactContext(w) \/ Updated!Generate(w)
               \/ Updated!CommitInference(w) \/ Updated!Fail(w)
      BY <2>4, ReadKeeps, CompactKeeps, GenerateKeeps, CommitKeeps, FailKeeps
    <2> QED  BY <1>1, <2>1, <2>2, <2>3, <2>4 DEF Updated!Work
  <1> QED  BY <1>1, DeclareKeeps DEF Updated!Next

LEMMA UpdatedInit == ASSUME Updated!Init PROVE UpdatedInv
  <1>1. ContextsTypeOK
    <2>1. contextWorker \in [Workers -> ContextWorkerState]
      <3> HIDE DEF ContextWorkerState
      <3> QED  BY IdleAndBranch DEF Updated!Init
    <2> HIDE DEF ContextRecord, ContextWorkerState, Declaration
    <2> QED  BY <2>1 DEF Updated!Init, ContextsTypeOK
  <1>2. \A w \in Workers : contextWorker[w].at = "idle"
    BY DEF Updated!Init, Updated!Idle
  <1>3. Entered /\ AllNative /\ ReadsCurrent
    BY <1>2 DEF Updated!Init, Entered, AllNative, ReadsCurrent, Infers
  <1> QED  BY <1>1, <1>3 DEF UpdatedInv

-----------------------------------------------------------------------------
(* What is proved of contexts.                                             *)

ContextsInv ==
    /\ part = "contexts" => UpdatedInv
    /\ part = "declared" => RateInv

\* Of the contexts that several inferences update, what every worker has read is at
\* most as new as the context, and as long as it is current, what the worker has made
\* of it is what the context holds, or that compacted, and then a turn (infer_admitted,
\* branch_context); of declarations, the times that are held are those in the window
\* (create_compaction_declaration_for).
THEOREM ContextsInvariant == Spec => []ContextsInv
  <1>1. Init => ContextsInv
    <2> SUFFICES ASSUME Init PROVE ContextsInv
      OBVIOUS
    <2>1. CASE part = "declared"
      BY <2>1, RateInit DEF Init, ContextsInv
    <2>2. CASE part = "contexts"
      BY <2>2, UpdatedInit DEF Init, ContextsInv
    <2> QED  BY <2>1, <2>2 DEF ContextsInv
  <1>2. ContextsInv /\ [Next]_vars => ContextsInv'
    <2> SUFFICES ASSUME ContextsInv, [Next]_vars PROVE ContextsInv'
      OBVIOUS
    <2>1. part' = part
      BY DEF Next, vars, ResponsesStep, ContextsStep, CompactedStep, FrontierStep
    <2>2. CASE UNCHANGED contextVars
      <3>1. UNCHANGED <<contexts, used, turns, contextWorker, made, creationTimes, contextTime>>
        BY <2>2 DEF contextVars
      <3>2. CASE part = "contexts"
        <4>1. UpdatedInv
          BY <3>2 DEF ContextsInv
        <4>2. UpdatedInv'
          <5>1. ContextsTypeOK'
            <6> HIDE DEF ContextRecord, ContextWorkerState, Declaration
            <6> QED  BY <3>1, <4>1 DEF UpdatedInv, ContextsTypeOK
          <5>2. (Entered /\ AllNative /\ ReadsCurrent)'
            BY <3>1, <4>1 DEF UpdatedInv, Entered, AllNative, ReadsCurrent, Infers, Native, Builds, Bases
          <5> QED  BY <5>1, <5>2 DEF UpdatedInv
        <4> QED  BY <2>1, <3>2, <4>2 DEF ContextsInv
      <3>3. CASE part = "declared"
        <4>1. RateInv
          BY <3>3 DEF ContextsInv
        <4>2. RateInv'
          BY <3>1, <4>1, NothingDeclared
        <4> QED  BY <2>1, <3>3, <4>2 DEF ContextsInv
      <3> QED  BY <2>1, <3>2, <3>3 DEF ContextsInv
    <2>3. CASE part = "contexts" /\ Updated!Next
      BY <2>1, <2>3, UpdatedNext DEF ContextsInv
    <2>4. CASE part = "declared" /\ Declared!Next
      BY <2>1, <2>4, RateNext DEF ContextsInv
    <2> QED  BY <2>2, <2>3, <2>4 DEF Next, vars, ResponsesStep, ContextsStep, CompactedStep, FrontierStep
  <1> QED  BY <1>1, <1>2, PTL DEF Spec

\* What the engine continues from is what the record of a context says, however
\* many inferences and compactions of it run at once and in whatever order they end
\* (infer_admitted, compact_context_for_request).
THEOREM NativeAlwaysFollows == Spec => []NativeFollows
  <1>1. ContextsInv => NativeFollows
    BY DEF ContextsInv, UpdatedInv, AllNative, Native, NativeFollows, Updated!NativeFollows
  <1> QED  BY <1>1, ContextsInvariant, PTL

\* No principal makes more declarations in any window than its rate, though revoked
\* and expired ones are forgotten (create_compaction_declaration_for).
THEOREM RateAlwaysHolds == Spec => []RateHolds
  <1>1. ContextsInv => RateHolds
    BY DEF ContextsInv, RateInv, RateHolds
  <1> QED  BY <1>1, ContextsInvariant, PTL

\* The only step that changes a context that is there writes the successor of what
\* it holds: Enter takes an id nothing has, and the successor is written only at the
\* revision that was read.
LEMMA OnlySuccessors ==
    ASSUME UpdatedInv, Updated!Next
    PROVE  Updated!OverwritesNothing
  <1> SUFFICES ASSUME NEW id \in ContextIds, contexts[id] # None,
                      contexts'[id] \notin {None, contexts[id]}
               PROVE  /\ contexts'[id].revision = contexts[id].revision + 1
                      /\ \/ Updated!Front(contexts'[id].tokens) = contexts[id].tokens
                         \/ \E target \in Targets : Updated!Front(contexts'[id].tokens)
                                                    = Updated!Compacted(contexts[id].tokens, target)
    BY DEF Updated!OverwritesNothing
  <1>1. id \in used /\ contexts \in [ContextIds -> ContextRecord \cup {None}]
    BY DEF UpdatedInv, Entered, ContextsTypeOK
  <1>2. ASSUME NEW i, NEW record, Updated!Enter(i, record) PROVE FALSE
    BY <1>1, <1>2 DEF Updated!Enter
  <1>3. ASSUME NEW w \in Workers, NEW i, Updated!DeleteContext(w, i) PROVE FALSE
    BY <1>1, <1>3 DEF Updated!DeleteContext
  <1>4. PICK w \in Workers : Updated!CommitInference(w)
    BY <1>2, <1>3 DEF Updated!Next, Updated!Work, Updated!Declare, Updated!Tick, Updated!contextVars,
           Updated!CreateContext, Updated!ImportContext, Updated!BranchContext, Updated!EnterBranch,
           Updated!CommitNew, Updated!Infer, Updated!InferDeclared, Updated!ReadContext,
           Updated!CompactContext, Updated!Generate, Updated!Fail, Updated!CreateDeclaration,
           Updated!RevokeDeclaration, Updated!DeclarationExpired
  <1>5. PICK old : old = contextWorker[w]
    OBVIOUS
  <1>6. /\ old.at = "commit" /\ old.context # None /\ contexts[old.context] # None
        /\ contexts[old.context].revision = old.record.revision
        /\ contexts' = [contexts EXCEPT ![old.context] =
                          [old.record EXCEPT !.revision = contexts[old.context].revision + 1]]
    BY <1>4, <1>5 DEF Updated!CommitInference, Updated!Unchanged
  <1>7. old \in InferState
    BY <1>5, <1>6, ContextWorkerIs DEF UpdatedInv, Infers
  <1>8. old.context \in ContextIds /\ old.record \in ContextRecord
    BY <1>6, <1>7, InferFields
  <1>9. id = old.context
    BY <1>1, <1>6
  <1>10. contexts'[id].tokens = old.record.tokens /\ contexts'[id].revision = contexts[id].revision + 1
    <2>1. contexts'[id] = [old.record EXCEPT !.revision = contexts[id].revision + 1]
      BY <1>1, <1>6, <1>9
    <2> HIDE DEF Token
    <2> QED  BY <1>8, <2>1 DEF ContextRecord
  <1>11. Builds(old, contexts[id].tokens)
    BY <1>5, <1>6, <1>9 DEF UpdatedInv, ReadsCurrent, Infers
  <1> QED  BY <1>6, <1>10, <1>11 DEF Builds, Bases

\* What one inference added to a context is never lost to another that ran at the
\* same time: a context that changes has one turn more than it held, or than that
\* compacted (infer_admitted compares the revision it has read).
THEOREM NothingIsEverOverwritten == Spec => NothingIsOverwritten
  <1>1. ContextsInv /\ [Next]_vars => [part = "contexts" => Updated!OverwritesNothing]_vars
    <2> SUFFICES ASSUME ContextsInv, Next, part = "contexts" PROVE Updated!OverwritesNothing
      OBVIOUS
    <2>1. CASE UNCHANGED contextVars
      BY <2>1 DEF contextVars, Updated!OverwritesNothing
    <2>2. CASE Updated!Next
      BY <2>2, OnlySuccessors DEF ContextsInv
    <2> QED  BY <2>1, <2>2 DEF Next, ResponsesStep, ContextsStep, CompactedStep, FrontierStep
  <1> QED  BY <1>1, ContextsInvariant, PTL DEF Spec, NothingIsOverwritten

=============================================================================
