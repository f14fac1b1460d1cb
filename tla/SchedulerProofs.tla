-------------------------- MODULE SchedulerProofs --------------------------
(***************************************************************************)
(* Core is an inductive invariant of Scheduler, for any number of          *)
(* sessions, slots, flows and quanta, and the safety properties that TLC   *)
(* checks on two sessions follow from it:                                  *)
(*   1. what Append, Tail and RemoveAt do to Has and AtMostOne;            *)
(*   2. types;                                                             *)
(*   3. what the channel operations do to the predicates of the invariant; *)
(*   4. one lemma per action: it preserves SessionCore of any session;     *)
(*   5. the properties, and the two invariants and the action property     *)
(*      that take a further step induction.                                *)
(***************************************************************************)
EXTENDS SchedulerInvariant, FiniteSetTheorems, TLAPS

-----------------------------------------------------------------------------
(* Sequences.                                                              *)

\* Append, element by element.
LEMMA AppendFacts ==
    ASSUME NEW S, NEW s \in Seq(S), NEW e \in S
    PROVE  /\ Append(s, e) \in Seq(S)
           /\ Len(Append(s, e)) = Len(s) + 1
           /\ Append(s, e)[Len(s) + 1] = e
           /\ \A k \in 1..Len(s) : Append(s, e)[k] = s[k]
  OBVIOUS

\* Head and Tail, element by element.
LEMMA TailFacts ==
    ASSUME NEW S, NEW s \in Seq(S), s # <<>>
    PROVE  /\ Tail(s) \in Seq(S)
           /\ Len(s) \in Nat \ {0}
           /\ Len(Tail(s)) = Len(s) - 1
           /\ Head(s) = s[1]
           /\ Head(s) \in S
           /\ \A k \in 1..(Len(s) - 1) : Tail(s)[k] = s[k + 1]
  OBVIOUS

\* RemoveAt, element by element.
LEMMA RemoveAtFacts ==
    ASSUME NEW S, NEW s \in Seq(S), NEW k \in 1..Len(s)
    PROVE  /\ RemoveAt(s, k) \in Seq(S)
           /\ Len(RemoveAt(s, k)) = Len(s) - 1
           /\ \A j \in 1..(Len(s) - 1) :
                RemoveAt(s, k)[j] = IF j < k THEN s[j] ELSE s[j + 1]
  <1> DEFINE a == SubSeq(s, 1, k - 1)
             b == SubSeq(s, k + 1, Len(s))
  <1>0. Len(s) \in Nat /\ k \in Nat /\ 1 <= k /\ k <= Len(s)
    OBVIOUS
  <1>1. a \in Seq(S) /\ Len(a) = k - 1 /\ \A j \in 1..(k - 1) : a[j] = s[j]
    BY <1>0
  <1>2. b \in Seq(S) /\ Len(b) = Len(s) - k
    BY <1>0
  <1>3. \A j \in 1..(Len(s) - k) : b[j] = s[k + j]
    BY <1>0
  <1> HIDE DEF a, b
  <1>4. a \o b \in Seq(S) /\ Len(a \o b) = Len(s) - 1
    BY <1>0, <1>1, <1>2
  <1>5. \A j \in 1..(Len(s) - 1) : (a \o b)[j] = IF j < k THEN s[j] ELSE s[j + 1]
    <2> SUFFICES ASSUME NEW j \in 1..(Len(s) - 1)
                 PROVE  (a \o b)[j] = IF j < k THEN s[j] ELSE s[j + 1]
      OBVIOUS
    <2>1. CASE j < k
      BY <1>0, <1>1, <1>2, <2>1
    <2>2. CASE ~(j < k)
      <3>1. (a \o b)[j] = b[j - (k - 1)]
        BY <1>0, <1>1, <1>2, <2>2
      <3>2. j - (k - 1) \in 1..(Len(s) - k) /\ k + (j - (k - 1)) = j + 1
        BY <1>0, <2>2
      <3> QED  BY <1>3, <2>2, <3>1, <3>2
    <2> QED  BY <2>1, <2>2
  <1> QED  BY <1>4, <1>5 DEF RemoveAt, a, b

\* Membership in the range of a sequence.
LEMMA ToSetMember ==
    ASSUME NEW S, NEW s \in Seq(S), NEW x
    PROVE  x \in ToSet(s) <=> Has(s, {x})
  BY DEF ToSet, Has

\* An empty channel.
LEMMA HasEmpty ==
    ASSUME NEW P
    PROVE  ~Has(<<>>, P) /\ AtMostOne(<<>>, P)
  BY DEF Has, AtMostOne

\* A send.
LEMMA HasAppend ==
    ASSUME NEW S, NEW s \in Seq(S), NEW e \in S, NEW P
    PROVE  /\ Has(Append(s, e), P) <=> Has(s, P) \/ e \in P
           /\ AtMostOne(s, P) /\ ~(e \in P /\ Has(s, P)) => AtMostOne(Append(s, e), P)
  <1>1. Has(Append(s, e), P) <=> Has(s, P) \/ e \in P
    BY AppendFacts DEF Has
  <1>2. ASSUME AtMostOne(s, P), ~(e \in P /\ Has(s, P))
        PROVE  AtMostOne(Append(s, e), P)
    BY <1>2, AppendFacts DEF Has, AtMostOne
  <1> QED  BY <1>1, <1>2

\* A receive.
LEMMA HasTail ==
    ASSUME NEW S, NEW s \in Seq(S), s # <<>>, NEW P
    PROVE  /\ Has(s, P) <=> Has(Tail(s), P) \/ Head(s) \in P
           /\ AtMostOne(s, P) => AtMostOne(Tail(s), P)
           /\ AtMostOne(s, P) /\ Head(s) \in P => ~Has(Tail(s), P)
  <1> DEFINE t == Tail(s)
  <1>0. /\ Len(s) \in Nat \ {0} /\ Len(t) = Len(s) - 1 /\ Head(s) = s[1]
        /\ \A k \in 1..(Len(s) - 1) : t[k] = s[k + 1]
    BY TailFacts
  <1> HIDE DEF t
  <1>1. ASSUME Has(s, P)  PROVE Has(t, P) \/ Head(s) \in P
    <2>1. PICK k \in 1..Len(s) : s[k] \in P
      BY <1>1 DEF Has
    <2>2. CASE k = 1
      BY <1>0, <2>1, <2>2
    <2>3. CASE k # 1
      <3>1. k - 1 \in 1..(Len(s) - 1) /\ (k - 1) + 1 = k
        BY <1>0, <2>3
      <3> QED  BY <1>0, <2>1, <3>1 DEF Has
    <2> QED  BY <2>2, <2>3
  <1>2. ASSUME Has(t, P)  PROVE Has(s, P)
    <2>1. PICK k \in 1..Len(t) : t[k] \in P
      BY <1>2 DEF Has
    <2>2. k \in 1..(Len(s) - 1) /\ k + 1 \in 1..Len(s)
      BY <1>0
    <2> QED  BY <1>0, <2>1, <2>2 DEF Has
  <1>3. ASSUME Head(s) \in P  PROVE Has(s, P)
    BY <1>0, <1>3 DEF Has
  <1>4. ASSUME AtMostOne(s, P)  PROVE AtMostOne(t, P)
    BY <1>0, <1>4 DEF AtMostOne
  <1>5. ASSUME AtMostOne(s, P), Head(s) \in P  PROVE ~Has(t, P)
    BY <1>0, <1>5 DEF AtMostOne, Has
  <1> QED  BY <1>1, <1>2, <1>3, <1>4, <1>5 DEF t

\* The removal of any entry.
LEMMA HasRemoveAt ==
    ASSUME NEW S, NEW s \in Seq(S), NEW k \in 1..Len(s), NEW P
    PROVE  /\ Has(s, P) <=> Has(RemoveAt(s, k), P) \/ s[k] \in P
           /\ AtMostOne(s, P) => AtMostOne(RemoveAt(s, k), P)
           /\ AtMostOne(s, P) /\ s[k] \in P => ~Has(RemoveAt(s, k), P)
  <1> DEFINE t == RemoveAt(s, k)
  <1>a. Len(s) \in Nat \ {0} /\ k \in Nat /\ 1 <= k /\ k <= Len(s)
    OBVIOUS
  <1>b. /\ Len(t) = Len(s) - 1
        /\ \A j \in 1..(Len(s) - 1) : t[j] = IF j < k THEN s[j] ELSE s[j + 1]
    BY RemoveAtFacts
  <1> HIDE DEF t
  <1>0. /\ Len(s) \in Nat \ {0} /\ k \in Nat /\ 1 <= k /\ k <= Len(s)
        /\ Len(t) = Len(s) - 1
        /\ \A j \in 1..(Len(s) - 1) : t[j] = IF j < k THEN s[j] ELSE s[j + 1]
    BY <1>a, <1>b
  <1>1. ASSUME Has(s, P)  PROVE Has(t, P) \/ s[k] \in P
    <2>1. PICK j \in 1..Len(s) : s[j] \in P
      BY <1>1 DEF Has
    <2>2. CASE j < k
      BY <1>0, <2>1, <2>2 DEF Has
    <2>3. CASE j = k
      BY <2>1, <2>3
    <2>4. CASE j > k
      <3>1. j - 1 \in 1..(Len(s) - 1) /\ (j - 1) + 1 = j /\ ~(j - 1 < k)
        BY <1>0, <2>4
      <3> QED  BY <1>0, <2>1, <3>1 DEF Has
    <2> QED  BY <1>0, <2>2, <2>3, <2>4
  <1>2. ASSUME Has(t, P)  PROVE Has(s, P)
    <2>1. PICK j \in 1..Len(t) : t[j] \in P
      BY <1>2 DEF Has
    <2>2. j \in 1..(Len(s) - 1) /\ j \in 1..Len(s) /\ j + 1 \in 1..Len(s)
      BY <1>0
    <2> QED  BY <1>0, <2>1, <2>2 DEF Has
  <1>3. ASSUME s[k] \in P  PROVE Has(s, P)
    BY <1>3 DEF Has
  <1>4. ASSUME AtMostOne(s, P)  PROVE AtMostOne(t, P)
    BY <1>0, <1>4 DEF AtMostOne
  <1>5. ASSUME AtMostOne(s, P), s[k] \in P  PROVE ~Has(t, P)
    BY <1>0, <1>5 DEF AtMostOne, Has
  <1> QED  BY <1>1, <1>2, <1>3, <1>4, <1>5 DEF t

\* FairPolicy::remove, on a queue without duplicates.
LEMMA HasWithout ==
    ASSUME NEW S, NEW s \in Seq(S), NEW i, AtMostOne(s, {i})
    PROVE  /\ Without(s, i) \in Seq(S)
           /\ ~Has(Without(s, i), {i})
           /\ \A j : j # i => (Has(Without(s, i), {j}) <=> Has(s, {j}))
           /\ \A j : AtMostOne(s, {j}) => AtMostOne(Without(s, i), {j})
  <1>1. CASE i \notin ToSet(s)
    BY <1>1, ToSetMember DEF Without
  <1>2. CASE i \in ToSet(s)
    <2> DEFINE k == CHOOSE k \in 1..Len(s) : s[k] = i
    <2>1. k \in 1..Len(s) /\ s[k] = i
      BY <1>2 DEF ToSet
    <2> HIDE DEF k
    <2>2. Without(s, i) = RemoveAt(s, k)
      BY <1>2 DEF Without, k
    <2> QED  BY <2>1, <2>2, RemoveAtFacts, HasRemoveAt
  <1> QED  BY <1>1, <1>2

\* Has splits over a union.
LEMMA HasUnion ==
    ASSUME NEW s, NEW P, NEW Q
    PROVE  Has(s, P \cup Q) <=> Has(s, P) \/ Has(s, Q)
  BY DEF Has

-----------------------------------------------------------------------------
(* Types, and the order in which the loop winds down.                      *)

\* The events and messages that are sent are of their types.
LEMMA CommandType ==
    ASSUME NEW t \in Commands \cup {"Shutdown"}, NEW i \in Sessions
    PROVE  Command(t, i) \in Events
  BY DEF Command, Events, Results

LEMMA CompletionType ==
    ASSUME NEW i \in Sessions, NEW r \in Results
    PROVE  Completion(i, r) \in Events
  BY DEF Completion, Events

LEMMA AnySessionType == AnySession \in Sessions
  BY SessionsAssumption DEF AnySession

LEMMA SendEventType ==
    ASSUME TypeOK, NEW e \in Events, SendEvent(e)
    PROVE  events' \in Seq(Events)
  BY AppendFacts DEF TypeOK, SendEvent

LEMMA TakeType ==
    ASSUME TypeOK, NEW t, NEW i, Take(t, i)
    PROVE  events' \in Seq(Events) /\ Head(events) \in Events
  BY TailFacts DEF TypeOK, Take

LEMMA DeliverType ==
    ASSUME TypeOK, NEW i \in Sessions, NEW m \in Messages, Deliver(i, m)
    PROVE  chan' \in [Sessions -> Seq(Messages)]
  <1>1. chan[i] \in Seq(Messages) /\ Append(chan[i], m) \in Seq(Messages)
    BY DEF TypeOK
  <1> QED  BY <1>1 DEF TypeOK, Deliver

LEMMA SendTaskType ==
    ASSUME TypeOK, NEW i \in jobs, NEW a \in {"Start", "Step", "Finish"}, SendTask(i, a)
    PROVE  /\ slots' \subseteq Slots /\ busy' \subseteq slots'
           /\ tasks' \in [Slots -> Seq(Tasks)]
           /\ inFlight' \subseteq jobs
           /\ holds' \in [Sessions -> {"request", "session", "none"}]
  <1>1. i \in Sessions /\ SlotOf[i] \in Slots /\ Task(i, a) \in Tasks
    BY SlotOfAssumption DEF TypeOK, Task, Tasks
  <1>2. Append(tasks[SlotOf[i]], Task(i, a)) \in Seq(Tasks)
    BY <1>1 DEF TypeOK
  <1> QED  BY <1>1, <1>2 DEF TypeOK, SendTask

LEMMA RemoveJobType ==
    ASSUME TypeOK, NEW i \in jobs, NEW m \in Messages, RemoveJob(i, m)
    PROVE  /\ jobs' \subseteq Sessions
           /\ inFlight' \subseteq jobs' /\ cancelRequested' \subseteq jobs'
           /\ holds' \in [Sessions -> {"request", "session", "none"}]
           /\ chan' \in [Sessions -> Seq(Messages)]
  BY DeliverType DEF TypeOK, RemoveJob

LEMMA WithoutType ==
    ASSUME NEW S, NEW s \in Seq(S), NEW i
    PROVE  Without(s, i) \in Seq(S)
  <1>1. CASE i \notin ToSet(s)
    BY <1>1 DEF Without
  <1>2. CASE i \in ToSet(s)
    <2> DEFINE k == CHOOSE k \in 1..Len(s) : s[k] = i
    <2>1. k \in 1..Len(s)
      BY <1>2 DEF ToSet
    <2> HIDE DEF k
    <2> QED  BY <1>2, <2>1, RemoveAtFacts DEF Without, k
  <1> QED  BY <1>1, <1>2

LEMMA TypeInit == Init => TypeOK /\ WindingDown
  BY MaxQuantaAssumption DEF Init, TypeOK, WindingDown, Phases, Places

\* Types, action by action.
LEMMA ClientType ==
    ASSUME TypeOK, NEW i \in Sessions, Client(i)
    PROVE  TypeOK'
  <1>1. CASE StartSession(i)
    <2>1. events' \in Seq(Events)
      BY <1>1, CommandType, SendEventType DEF StartSession, Commands
    <2> QED  BY <1>1, <2>1 DEF TypeOK, StartSession, schedVars, slotVars, Places
  <1>2. CASE Step(i)
    <2>1. events' \in Seq(Events)
      BY <1>2, CommandType, SendEventType DEF Step, Commands, TypeOK
    <2> QED  BY <1>2, <2>1 DEF TypeOK, Step, schedVars, slotVars, Places
  <1>3. CASE Finish(i)
    <2>1. events' \in Seq(Events)
      BY <1>3, CommandType, SendEventType DEF Finish, Commands
    <2> QED  BY <1>3, <2>1 DEF TypeOK, Finish, schedVars, slotVars, Places
  <1>4. CASE Receive(i)
    <2>1. chan' \in [Sessions -> Seq(Messages)]
      <3>1. chan[i] \in Seq(Messages)
        BY DEF TypeOK
      <3>2. chan[i] # <<>> => Tail(chan[i]) \in Seq(Messages)
        BY <3>1, TailFacts
      <3> QED  BY <1>4, <3>2 DEF TypeOK, Receive
    <2>2. pc' \in [Sessions -> Places]
      BY <1>4 DEF TypeOK, Receive, Places
    <2> QED  BY <1>4, <2>1, <2>2 DEF TypeOK, Receive, schedVars, slotVars
  <1>5. CASE Drop(i)
    <2>1. events' \in Seq(Events)
      BY <1>5, CommandType, SendEventType DEF Drop, Commands
    <2> QED  BY <1>5, <2>1 DEF TypeOK, Drop, schedVars, slotVars, Places
  <1> QED  BY <1>1, <1>2, <1>3, <1>4, <1>5 DEF Client

LEMMA RunTaskType ==
    ASSUME TypeOK, NEW s \in Slots, RunTask(s)
    PROVE  TypeOK'
  <1> DEFINE t == Head(tasks[s])
  <1>1. tasks[s] \in Seq(Tasks) /\ tasks[s] # <<>>
    BY DEF TypeOK, RunTask
  <1>2. t \in Tasks /\ Tail(tasks[s]) \in Seq(Tasks)
    BY <1>1, TailFacts
  <1>3. t.id \in Sessions
    BY <1>2 DEF Tasks
  <1>4. PICK r \in Results :
           /\ r \in CASE t.action = "Start" -> {"Progress", "Err"}
                      [] t.action = "Step" ->
                           (IF quanta[t.id] = 0 THEN {} ELSE {"Progress", "Token"})
                             \cup {"Finished", "Err"}
                      [] t.action = "Finish" -> {"Finished", "Err"}
           /\ events' = Append(events, Completion(t.id, r))
           /\ quanta' = IF t.action = "Step" /\ r \in {"Progress", "Token"}
                        THEN [quanta EXCEPT ![t.id] = @ - 1] ELSE quanta
    BY DEF RunTask
  <1> HIDE DEF t
  <1>5. events' \in Seq(Events)
    BY <1>3, <1>4, CompletionType, AppendFacts DEF TypeOK
  <1>6. quanta' \in [Sessions -> 0..MaxQuanta]
    <2>1. CASE t.action = "Step" /\ r \in {"Progress", "Token"}
      <3>1. quanta[t.id] # 0
        BY <1>4, <2>1
      <3>2. quanta[t.id] - 1 \in 0..MaxQuanta
        BY <1>3, <3>1, MaxQuantaAssumption DEF TypeOK
      <3> QED  BY <1>3, <1>4, <2>1, <3>2 DEF TypeOK
    <2>2. CASE ~(t.action = "Step" /\ r \in {"Progress", "Token"})
      BY <1>4, <2>2 DEF TypeOK
    <2> QED  BY <2>1, <2>2
  <1>7. tasks' \in [Slots -> Seq(Tasks)]
    BY <1>2 DEF TypeOK, RunTask
  <1> QED  BY <1>5, <1>6, <1>7 DEF TypeOK, RunTask, schedVars, clientVars

LEMMA DispatchType ==
    ASSUME TypeOK, Dispatch \/ DispatchSpawnFails
    PROVE  TypeOK'
  <1>1. CASE Dispatch
    <2>1. PICK k \in 1..Len(runnable) :
            /\ Available(runnable[k])
            /\ runnable' = RemoveAt(runnable, k)
            /\ SendTask(runnable[k], IF holds[runnable[k]] = "request" THEN "Start"
                                                                     ELSE "Step")
      BY <1>1 DEF Dispatch, IsFlowHead
    <2>2. runnable[k] \in jobs
      BY <2>1 DEF Available
    <2>3. runnable' \in Seq(Sessions)
      BY <2>1, RemoveAtFacts DEF TypeOK
    <2>4. /\ slots' \subseteq Slots /\ busy' \subseteq slots'
          /\ tasks' \in [Slots -> Seq(Tasks)]
          /\ inFlight' \subseteq jobs
          /\ holds' \in [Sessions -> {"request", "session", "none"}]
      BY <2>1, <2>2, SendTaskType
    <2> QED  BY <1>1, <2>3, <2>4 DEF TypeOK, Dispatch, clientVars
  <1>2. CASE DispatchSpawnFails
    <2>1. PICK k \in 1..Len(runnable) :
            /\ Available(runnable[k])
            /\ runnable' = RemoveAt(runnable, k)
            /\ RemoveJob(runnable[k], "Failed")
      BY <1>2 DEF DispatchSpawnFails, IsFlowHead
    <2>2. runnable[k] \in jobs /\ "Failed" \in Messages
      BY <2>1 DEF Available, Messages
    <2>3. runnable' \in Seq(Sessions)
      BY <2>1, RemoveAtFacts DEF TypeOK
    <2>4. /\ jobs' \subseteq Sessions
          /\ inFlight' \subseteq jobs' /\ cancelRequested' \subseteq jobs'
          /\ holds' \in [Sessions -> {"request", "session", "none"}]
          /\ chan' \in [Sessions -> Seq(Messages)]
      BY <2>1, <2>2, RemoveJobType
    <2> QED  BY <1>2, <2>3, <2>4 DEF TypeOK, DispatchSpawnFails, slotVars
  <1> QED  BY <1>1, <1>2

LEMMA CompletionStepType ==
    ASSUME TypeOK, NEW i \in Sessions, HandleCompletion(i)
    PROVE  TypeOK'
  <1> DEFINE r == Head(events).result
  <1>1. events' \in Seq(Events) /\ r \in Results
    BY TakeType DEF HandleCompletion, Events
  <1> HIDE DEF r
  <1>2. CASE i \notin jobs
    BY <1>1, <1>2 DEF HandleCompletion, TypeOK, schedVars
  <1>3. CASE i \in jobs /\ CompleteTerminal(i, r)
    <2>1. Terminal(i, r) \in Messages
      BY DEF Terminal, Messages
    <2>2. /\ jobs' \subseteq Sessions
          /\ inFlight' \subseteq jobs' /\ cancelRequested' \subseteq jobs'
          /\ holds' \in [Sessions -> {"request", "session", "none"}]
          /\ chan' \in [Sessions -> Seq(Messages)]
      BY <1>3, <2>1, RemoveJobType DEF CompleteTerminal
    <2>3. busy' = busy \ {SlotOf[i]} /\ slots' \in {slots, slots \ {SlotOf[i]}}
      BY <1>3 DEF HandleCompletion, CompleteTerminal, RetireSlotIfIdle
    <2> QED  BY <1>1, <1>3, <2>2, <2>3 DEF TypeOK, HandleCompletion, CompleteTerminal
  <1>4. CASE i \in jobs /\ CompleteToken(i, r)
    <2>1. chan' \in [Sessions -> Seq(Messages)]
      BY <1>4, DeliverType DEF CompleteToken, Messages
    <2>2. busy' = busy \ {SlotOf[i]} /\ UNCHANGED <<phase, tasks, quanta, pc>>
      BY <1>4 DEF HandleCompletion
    <2>3. waiting' \in Int
      BY <1>4 DEF CompleteToken, TypeOK
    <2> QED  BY <1>1, <1>4, <2>1, <2>2, <2>3 DEF TypeOK, CompleteToken
  <1>5. CASE i \in jobs /\ CompleteProgress(i, r)
    <2>1. runnable' \in Seq(Sessions)
      BY <1>5, AppendFacts DEF CompleteProgress, TypeOK
    <2> QED  BY <1>1, <1>5, <2>1 DEF TypeOK, HandleCompletion, CompleteProgress
  <1> QED  BY <1>2, <1>3, <1>4, <1>5 DEF HandleCompletion, r

LEMMA HandleType ==
    ASSUME TypeOK, NEW i \in Sessions, Handle(i)
    PROVE  TypeOK'
  <1>1. CASE HandleSubmit(i)
    BY <1>1, TakeType, AppendFacts DEF HandleSubmit, TypeOK, slotVars, clientVars
  <1>2. CASE HandleContinue(i)
    <2>1. events' \in Seq(Events) /\ runnable' \in Seq(Sessions) /\ waiting' \in Int
      <3>1. events' \in Seq(Events)
        BY <1>2, TakeType DEF HandleContinue
      <3>2. Append(runnable, i) \in Seq(Sessions) /\ waiting - 1 \in Int
        BY AppendFacts DEF TypeOK
      <3> QED  BY <1>2, <3>1, <3>2 DEF HandleContinue, TypeOK
    <2> QED  BY <1>2, <2>1 DEF HandleContinue, TypeOK, slotVars, clientVars
  <1>3. CASE HandleStop(i)
    <2>1. runnable' \in Seq(Sessions) /\ events' \in Seq(Events)
      BY <1>3, TakeType, WithoutType DEF HandleStop, TypeOK
    <2>2. CASE i \in jobs /\ holds[i] = "session"
      <3>1. SendTask(i, "Finish") /\ UNCHANGED cancelRequested
        BY <1>3, <2>2 DEF HandleStop
      <3> QED
        BY <1>3, <2>1, <2>2, <3>1, SendTaskType DEF HandleStop, TypeOK, clientVars
    <2>3. CASE ~(i \in jobs /\ holds[i] = "session")
      BY <1>3, <2>1, <2>3 DEF HandleStop, TypeOK, clientVars
    <2> QED  BY <2>2, <2>3
  <1>4. CASE HandleCancel(i)
    <2>1. runnable' \in Seq(Sessions) /\ events' \in Seq(Events)
      BY <1>4, TakeType, WithoutType DEF HandleCancel, TypeOK
    <2>2. CASE i \in jobs /\ i \notin inFlight
      <3>1. RemoveJob(i, "Cancelled") /\ waiting' \in {waiting, waiting - 1}
        BY <1>4, <2>2 DEF HandleCancel
      <3> QED
        BY <1>4, <2>1, <2>2, <3>1, RemoveJobType
        DEF HandleCancel, TypeOK, slotVars, Messages
    <2>3. CASE ~(i \in jobs /\ i \notin inFlight)
      BY <1>4, <2>1, <2>3 DEF HandleCancel, TypeOK, slotVars
    <2> QED  BY <2>2, <2>3
  <1>5. CASE HandleCompletion(i)
    BY <1>5, CompletionStepType
  <1> QED  BY <1>1, <1>2, <1>3, <1>4, <1>5 DEF Handle

LEMMA ShutdownType ==
    ASSUME TypeOK, WindingDown,
           HandleShutdown \/ DiscardCommand \/ CancelAllJobs \/ JoinSlots \/ DropScheduler
    PROVE  TypeOK'
  <1>1. CASE HandleShutdown
    BY <1>1, TakeType DEF HandleShutdown, TypeOK, slotVars, clientVars, Phases
  <1>2. CASE DiscardCommand
    <2>1. events' \in Seq(Events) /\ Head(events) \in Events
      BY <1>2, TailFacts DEF DiscardCommand, TypeOK
    <2>2. Head(events).id \in Sessions
      BY <2>1 DEF Events
    <2>3. chan' \in [Sessions -> Seq(Messages)]
      BY <1>2, <2>2, DeliverType DEF DiscardCommand, TypeOK, Messages
    <2> QED  BY <1>2, <2>1, <2>3 DEF DiscardCommand, TypeOK, schedVars, slotVars
  <1>3. CASE CancelAllJobs
    <2>1. \A i \in Sessions : Append(chan[i], "Cancelled") \in Seq(Messages)
      BY DEF TypeOK, Messages
    <2> QED  BY <1>3, <2>1 DEF CancelAllJobs, TypeOK, slotVars, Phases
  <1>4. CASE JoinSlots
    BY <1>4 DEF JoinSlots, TypeOK, WindingDown, schedVars, clientVars, Phases
  <1>5. CASE DropScheduler
    <2>1. events' \in Seq(Events)
      BY <1>5, CommandType, AnySessionType, SendEventType DEF DropScheduler
    <2> QED  BY <1>5, <2>1 DEF DropScheduler, TypeOK, schedVars, slotVars, clientVars
  <1> QED  BY <1>1, <1>2, <1>3, <1>4, <1>5

\* The loop never goes back to an earlier phase, and its jobs and busy slots go first.
LEMMA WindingDownStep ==
    ASSUME TypeOK, WindingDown, Next
    PROVE  WindingDown'
  <1>1. ASSUME NEW i \in Sessions, Client(i)  PROVE WindingDown'
    BY <1>1 DEF WindingDown, Client, StartSession, Step, Finish, Receive, Drop,
                schedVars, slotVars
  <1>2. ASSUME NEW s \in Slots, RunTask(s)  PROVE WindingDown'
    BY <1>2 DEF WindingDown, RunTask, schedVars
  <1>3. CASE Dispatch
    BY <1>3 DEF WindingDown, Dispatch
  <1>4. CASE DispatchSpawnFails
    BY <1>4 DEF WindingDown, DispatchSpawnFails
  <1>5. ASSUME NEW i \in Sessions,
               HandleSubmit(i) \/ HandleContinue(i) \/ HandleStop(i) \/ HandleCancel(i)
        PROVE  WindingDown'
    BY <1>5 DEF WindingDown, HandleSubmit, HandleContinue, HandleStop, HandleCancel
  <1>6. ASSUME NEW i \in Sessions, HandleCompletion(i)  PROVE WindingDown'
    <2>1. phase' = phase /\ phase \in {"running", "draining"}
      BY <1>6 DEF HandleCompletion, Draining
    <2>2. jobs \subseteq cancelRequested => jobs' \subseteq cancelRequested'
      BY <1>6 DEF HandleCompletion, CompleteTerminal, CompleteToken, CompleteProgress,
                  RemoveJob, schedVars
    <2> QED  BY <2>1, <2>2 DEF WindingDown
  <1>7. CASE HandleShutdown \/ DiscardCommand \/ CancelAllJobs \/ JoinSlots \/ DropScheduler
    BY <1>7 DEF WindingDown, HandleShutdown, DiscardCommand, CancelAllJobs, JoinSlots,
                DropScheduler, schedVars, slotVars, Draining
  <1>8. CASE Terminated
    BY <1>8 DEF WindingDown, Terminated, vars, schedVars, slotVars
  <1> QED  BY <1>1, <1>2, <1>3, <1>4, <1>5, <1>6, <1>7, <1>8
           DEF Next, SchedulerThread, Handle

LEMMA TypeStep ==
    ASSUME TypeOK, WindingDown, Next
    PROVE  TypeOK' /\ WindingDown'
  <1>1. CASE Terminated
    BY <1>1 DEF Terminated, vars, TypeOK, WindingDown, schedVars, slotVars, clientVars
  <1> QED
    BY <1>1, ClientType, RunTaskType, DispatchType, HandleType, ShutdownType,
       WindingDownStep
    DEF Next, SchedulerThread

\* Every reachable state is well typed: in particular the flags in_flight and
\* cancel_requested belong to jobs in the table, and a busy slot has a worker, when
\* jobs, slots and the loop itself go away in any order.
THEOREM TypeCorrect == Spec => []TypeOK
  <1>1. TypeOK /\ WindingDown /\ UNCHANGED vars => TypeOK' /\ WindingDown'
    BY DEF vars, TypeOK, WindingDown, schedVars, slotVars, clientVars
  <1> QED  BY TypeInit, TypeStep, <1>1, PTL DEF Spec

-----------------------------------------------------------------------------
(* What the operations on the channels do to the predicates of the         *)
(* invariant.                                                              *)

\* The events of a session, by type and id.
LEMMA EventKind ==
    ASSUME NEW e \in Events, NEW types, NEW i
    PROVE  e \in EventsOf(types, i) <=> e.type \in types /\ e.id = i
  BY DEF Events, EventsOf

LEMMA DrivingSplit ==
    ASSUME NEW ev, NEW i
    PROVE  Has(ev, EventsOf(Driving, i)) <=>
             Has(ev, EventsOf({"Submit"}, i)) \/ Has(ev, EventsOf({"Continue", "Stop"}, i))
  <1>1. EventsOf(Driving, i) = EventsOf({"Submit"}, i) \cup EventsOf({"Continue", "Stop"}, i)
    BY DEF EventsOf, Driving
  <1> QED  BY <1>1, HasUnion

\* The event channel after a send.
LEMMA EventSent ==
    ASSUME TypeOK, NEW e \in Events, events' = Append(events, e), NEW i \in Sessions
    PROVE  /\ Submitted(i)' <=> Submitted(i) \/ (e.type = "Submit" /\ e.id = i)
           /\ Answered(i)' <=> Answered(i) \/ (e.type \in {"Continue", "Stop"} /\ e.id = i)
           /\ Cancelling(i)' <=> Cancelling(i) \/ (e.type = "Cancel" /\ e.id = i)
           /\ Completed(i)' <=> Completed(i) \/ (e.type = "Completed" /\ e.id = i)
           /\ OneDriving(i) /\ ~(e.type \in Driving /\ e.id = i /\ (Submitted(i) \/ Answered(i)))
                => OneDriving(i)'
           /\ OneCompletion(i) /\ ~(e.type = "Completed" /\ e.id = i /\ Completed(i))
                => OneCompletion(i)'
  <1>0. events \in Seq(Events)
    BY DEF TypeOK
  <1>1. Submitted(i)' <=> Submitted(i) \/ (e.type = "Submit" /\ e.id = i)
    BY <1>0, HasAppend, EventKind DEF Submitted
  <1>2. Answered(i)' <=> Answered(i) \/ (e.type \in {"Continue", "Stop"} /\ e.id = i)
    BY <1>0, HasAppend, EventKind DEF Answered
  <1>3. Cancelling(i)' <=> Cancelling(i) \/ (e.type = "Cancel" /\ e.id = i)
    BY <1>0, HasAppend, EventKind DEF Cancelling
  <1>4. Completed(i)' <=> Completed(i) \/ (e.type = "Completed" /\ e.id = i)
    BY <1>0, HasAppend, EventKind DEF Completed
  <1>5. OneDriving(i) /\ ~(e.type \in Driving /\ e.id = i /\ (Submitted(i) \/ Answered(i)))
          => OneDriving(i)'
    BY <1>0, HasAppend, EventKind, DrivingSplit DEF OneDriving, Submitted, Answered
  <1>6. OneCompletion(i) /\ ~(e.type = "Completed" /\ e.id = i /\ Completed(i))
          => OneCompletion(i)'
    BY <1>0, HasAppend, EventKind DEF OneCompletion, Completed
  <1> QED  BY <1>1, <1>2, <1>3, <1>4, <1>5, <1>6

\* The event channel after a receive.
LEMMA EventTaken ==
    ASSUME TypeOK, events # <<>>, events' = Tail(events), NEW i \in Sessions
    PROVE  /\ Submitted(i) <=> Submitted(i)' \/ (Head(events).type = "Submit" /\ Head(events).id = i)
           /\ Answered(i) <=> Answered(i)' \/ (Head(events).type \in {"Continue", "Stop"} /\ Head(events).id = i)
           /\ Cancelling(i) <=> Cancelling(i)' \/ (Head(events).type = "Cancel" /\ Head(events).id = i)
           /\ Completed(i) <=> Completed(i)' \/ (Head(events).type = "Completed" /\ Head(events).id = i)
           /\ OneDriving(i) => OneDriving(i)'
           /\ OneDriving(i) /\ Head(events).type \in Driving /\ Head(events).id = i
                => ~Submitted(i)' /\ ~Answered(i)'
           /\ OneCompletion(i) => OneCompletion(i)'
           /\ OneCompletion(i) /\ Head(events).type = "Completed" /\ Head(events).id = i
                => ~Completed(i)'
  <1>0. events \in Seq(Events) /\ Head(events) \in Events
    BY TailFacts DEF TypeOK
  <1>1. Submitted(i) <=> Submitted(i)' \/ (Head(events).type = "Submit" /\ Head(events).id = i)
    BY <1>0, HasTail, EventKind DEF Submitted
  <1>2. Answered(i) <=> Answered(i)' \/ (Head(events).type \in {"Continue", "Stop"} /\ Head(events).id = i)
    BY <1>0, HasTail, EventKind DEF Answered
  <1>3. Cancelling(i) <=> Cancelling(i)' \/ (Head(events).type = "Cancel" /\ Head(events).id = i)
    BY <1>0, HasTail, EventKind DEF Cancelling
  <1>4. Completed(i) <=> Completed(i)' \/ (Head(events).type = "Completed" /\ Head(events).id = i)
    BY <1>0, HasTail, EventKind DEF Completed
  <1>5. /\ OneDriving(i) => OneDriving(i)'
        /\ OneDriving(i) /\ Head(events).type \in Driving /\ Head(events).id = i
              => ~Submitted(i)' /\ ~Answered(i)'
    <2>1. OneDriving(i) => OneDriving(i)'
      BY <1>0, HasTail DEF OneDriving
    <2>2. OneDriving(i) /\ Head(events) \in EventsOf(Driving, i)
            => ~Has(events', EventsOf(Driving, i))
      BY <1>0, HasTail DEF OneDriving
    <2> QED  BY <1>0, <2>1, <2>2, EventKind, DrivingSplit DEF Submitted, Answered
  <1>6. /\ OneCompletion(i) => OneCompletion(i)'
        /\ OneCompletion(i) /\ Head(events).type = "Completed" /\ Head(events).id = i
              => ~Completed(i)'
    BY <1>0, HasTail, EventKind DEF OneCompletion, Completed
  <1> QED  BY <1>1, <1>2, <1>3, <1>4, <1>5, <1>6

LEMMA EventsKept ==
    ASSUME events' = events, NEW i
    PROVE  /\ Submitted(i)' <=> Submitted(i)
           /\ Answered(i)' <=> Answered(i)
           /\ Cancelling(i)' <=> Cancelling(i)
           /\ Completed(i)' <=> Completed(i)
           /\ OneDriving(i)' <=> OneDriving(i)
           /\ OneCompletion(i)' <=> OneCompletion(i)
  BY DEF Submitted, Answered, Cancelling, Completed, OneDriving, OneCompletion

\* A response channel that is empty.
LEMMA ChanEmpty ==
    ASSUME NEW i
    PROVE  /\ chan[i] = <<>> => ~TokenSent(i) /\ ~EndSent(i) /\ OneToken(i) /\ EndIsLast(i)
           /\ chan'[i] = <<>> => ~TokenSent(i)' /\ ~EndSent(i)' /\ OneToken(i)' /\ EndIsLast(i)'
  BY HasEmpty DEF TokenSent, EndSent, OneToken, EndIsLast

LEMMA ChanKept ==
    ASSUME NEW i, chan'[i] = chan[i]
    PROVE  /\ TokenSent(i)' <=> TokenSent(i)
           /\ EndSent(i)' <=> EndSent(i)
           /\ OneToken(i)' <=> OneToken(i)
           /\ EndIsLast(i)' <=> EndIsLast(i)
  BY DEF TokenSent, EndSent, OneToken, EndIsLast

\* A message of a session whose receiver is alive
LEMMA ChanAppended ==
    ASSUME TypeOK, NEW i \in Sessions, NEW m \in Messages,
           chan'[i] = Append(chan[i], m)
    PROVE  /\ TokenSent(i)' <=> TokenSent(i) \/ m = "Token"
           /\ EndSent(i)' <=> EndSent(i) \/ m # "Token"
           /\ OneToken(i) /\ ~(m = "Token" /\ TokenSent(i)) => OneToken(i)'
           /\ ~EndSent(i) => EndIsLast(i)'
           /\ chan'[i] # <<>>
  <1>0. chan[i] \in Seq(Messages)
    BY DEF TypeOK
  <1>1. TokenSent(i)' <=> TokenSent(i) \/ m = "Token"
    BY <1>0, HasAppend DEF TokenSent
  <1>2. EndSent(i)' <=> EndSent(i) \/ m # "Token"
    BY <1>0, HasAppend DEF EndSent, Terminals
  <1>3. OneToken(i) /\ ~(m = "Token" /\ TokenSent(i)) => OneToken(i)'
    BY <1>0, HasAppend DEF OneToken, TokenSent
  <1>4. ~EndSent(i) => EndIsLast(i)'
    BY <1>0, AppendFacts DEF EndSent, EndIsLast, Has
  <1>5. chan'[i] # <<>>
    BY <1>0, AppendFacts
  <1> QED  BY <1>1, <1>2, <1>3, <1>4, <1>5

LEMMA ChanReceived ==
    ASSUME TypeOK, NEW i \in Sessions, chan[i] # <<>>, chan'[i] = Tail(chan[i])
    PROVE  /\ Head(chan[i]) \in Messages
           /\ TokenSent(i) <=> TokenSent(i)' \/ Head(chan[i]) = "Token"
           /\ EndSent(i) <=> EndSent(i)' \/ Head(chan[i]) # "Token"
           /\ OneToken(i) => OneToken(i)'
           /\ OneToken(i) /\ Head(chan[i]) = "Token" => ~TokenSent(i)'
           /\ EndIsLast(i) => EndIsLast(i)'
  <1>0. chan[i] \in Seq(Messages) /\ Head(chan[i]) \in Messages
    BY TailFacts DEF TypeOK
  <1>1. TokenSent(i) <=> TokenSent(i)' \/ Head(chan[i]) = "Token"
    BY <1>0, HasTail DEF TokenSent
  <1>2. EndSent(i) <=> EndSent(i)' \/ Head(chan[i]) # "Token"
    BY <1>0, HasTail DEF EndSent, Terminals
  <1>3. /\ OneToken(i) => OneToken(i)'
        /\ OneToken(i) /\ Head(chan[i]) = "Token" => ~TokenSent(i)'
    BY <1>0, HasTail DEF OneToken, TokenSent
  <1>4. EndIsLast(i) => EndIsLast(i)'
    BY <1>0, TailFacts DEF EndIsLast
  <1> QED  BY <1>0, <1>1, <1>2, <1>3, <1>4

\* The runnable queue.
LEMMA RunnableKept ==
    ASSUME runnable' = runnable, NEW i
    PROVE  (Queued(i)' <=> Queued(i)) /\ (OneEntry(i)' <=> OneEntry(i))
  BY DEF Queued, OneEntry

LEMMA RunnableAppended ==
    ASSUME TypeOK, NEW j \in Sessions, runnable' = Append(runnable, j), NEW i \in Sessions
    PROVE  /\ Queued(i)' <=> Queued(i) \/ i = j
           /\ OneEntry(i) /\ ~(i = j /\ Queued(i)) => OneEntry(i)'
  <1>0. runnable \in Seq(Sessions)
    BY DEF TypeOK
  <1> QED  BY <1>0, HasAppend DEF Queued, OneEntry

LEMMA RunnableTaken ==
    ASSUME TypeOK, NEW k \in 1..Len(runnable), runnable' = RemoveAt(runnable, k),
           NEW i \in Sessions, OneEntry(i)
    PROVE  /\ Queued(i)' <=> Queued(i) /\ i # runnable[k]
           /\ i = runnable[k] => Queued(i)
           /\ OneEntry(i)'
  <1>0. runnable \in Seq(Sessions)
    BY DEF TypeOK
  <1> QED  BY <1>0, HasRemoveAt DEF Queued, OneEntry

LEMMA RunnableWithout ==
    ASSUME TypeOK, NEW j \in Sessions, runnable' = Without(runnable, j), OneEntry(j),
           NEW i \in Sessions, OneEntry(i)
    PROVE  /\ Queued(i)' <=> Queued(i) /\ i # j
           /\ OneEntry(i)'
  <1>0. runnable \in Seq(Sessions)
    BY DEF TypeOK
  <1> QED  BY <1>0, HasWithout DEF Queued, OneEntry

\* The task channels.
LEMMA TasksKept ==
    ASSUME tasks' = tasks, NEW s, NEW i
    PROVE  (TaskIn(s, i)' <=> TaskIn(s, i)) /\ (OneTask(s, i)' <=> OneTask(s, i))
  BY DEF TaskIn, OneTask

\* A task handed to a worker.
LEMMA TaskSent ==
    ASSUME TypeOK, NEW j \in jobs, NEW a \in {"Start", "Step", "Finish"}, SendTask(j, a),
           NEW s \in Slots, NEW i \in Sessions
    PROVE  /\ TaskIn(s, i)' <=> TaskIn(s, i) \/ (i = j /\ s = SlotOf[j])
           /\ OneTask(s, i) /\ ~(i = j /\ TaskIn(s, i)) => OneTask(s, i)'
  <1>0. tasks[s] \in Seq(Tasks) /\ Task(j, a) \in Tasks
    BY DEF TypeOK, Task, Tasks
  <1>1. Task(j, a) \in TasksOf(i) <=> i = j
    BY DEF Task, TasksOf
  <1>2. tasks'[s] = IF s = SlotOf[j] THEN Append(tasks[s], Task(j, a)) ELSE tasks[s]
    BY DEF TypeOK, SendTask
  <1>3. CASE s = SlotOf[j]
    BY <1>0, <1>1, <1>2, <1>3, HasAppend DEF TaskIn, OneTask
  <1>4. CASE s # SlotOf[j]
    BY <1>2, <1>4 DEF TaskIn, OneTask
  <1> QED  BY <1>3, <1>4

\* A task taken by a worker.
LEMMA TaskRun ==
    ASSUME TypeOK, NEW r \in Slots, tasks[r] # <<>>,
           tasks' = [tasks EXCEPT ![r] = Tail(@)], NEW s \in Slots, NEW i \in Sessions
    PROVE  /\ TaskIn(s, i) <=> TaskIn(s, i)' \/ (s = r /\ i = Head(tasks[r]).id)
           /\ OneTask(s, i) => OneTask(s, i)'
           /\ OneTask(s, i) /\ s = r /\ i = Head(tasks[r]).id => ~TaskIn(s, i)'
  <1>0. tasks[r] \in Seq(Tasks) /\ Head(tasks[r]) \in Tasks
    BY TailFacts DEF TypeOK
  <1>1. Head(tasks[r]) \in TasksOf(i) <=> i = Head(tasks[r]).id
    BY <1>0 DEF Tasks, TasksOf
  <1>2. tasks'[s] = IF s = r THEN Tail(tasks[s]) ELSE tasks[s]
    BY DEF TypeOK
  <1>3. CASE s = r
    BY <1>0, <1>1, <1>2, <1>3, HasTail DEF TaskIn, OneTask
  <1>4. CASE s # r
    BY <1>2, <1>4 DEF TaskIn, OneTask
  <1> QED  BY <1>3, <1>4

-----------------------------------------------------------------------------
(* The invariant is inductive.  Each lemma takes one action j and shows    *)
(* what it preserves for an arbitrary session i.                           *)

\* A command that a client sends reaches the channel unless the loop has returned.
LEMMA CommandSent ==
    ASSUME TypeOK, NEW j \in Sessions, NEW t \in Commands, SendEvent(Command(t, j)),
           NEW i \in Sessions
    PROVE  LET sent == phase # "stopped" /\ i = j IN
           /\ Submitted(i)' <=> Submitted(i) \/ (t = "Submit" /\ sent)
           /\ Answered(i)' <=> Answered(i) \/ (t \in {"Continue", "Stop"} /\ sent)
           /\ Cancelling(i)' <=> Cancelling(i) \/ (t = "Cancel" /\ sent)
           /\ Completed(i)' <=> Completed(i)
           /\ OneDriving(i) /\ ~(t \in Driving /\ sent /\ (Submitted(i) \/ Answered(i)))
                => OneDriving(i)'
           /\ OneCompletion(i) => OneCompletion(i)'
  <1> DEFINE e == Command(t, j)
  <1>1. e \in Events /\ e.type = t /\ e.id = j
    BY CommandType DEF Command
  <1>2. t # "Completed"
    BY DEF Commands
  <1> HIDE DEF e
  <1>3. CASE phase = "stopped"
    <2>1. events' = events
      BY <1>3 DEF SendEvent
    <2> QED  BY <1>3, <2>1, EventsKept
  <1>4. CASE phase # "stopped"
    <2>1. events' = Append(events, e)
      BY <1>4 DEF SendEvent, e
    <2> QED  BY <1>1, <1>2, <1>4, <2>1, EventSent
  <1> QED  BY <1>3, <1>4

\* The scheduler's side of a session, and its slots, in a step of a client
LEMMA SchedKept ==
    ASSUME UNCHANGED <<runnable, tasks>>, NEW i \in Sessions
    PROVE  /\ Queued(i)' <=> Queued(i)
           /\ OneEntry(i)' <=> OneEntry(i)
           /\ \A s \in Slots : (TaskIn(s, i)' <=> TaskIn(s, i)) /\ (OneTask(s, i)' <=> OneTask(s, i))
           /\ SlotOf[i] \in Slots
  BY RunnableKept, TasksKept, SlotOfAssumption

LEMMA StartSessionCore ==
    ASSUME Core, NEW j \in Sessions, StartSession(j), NEW i \in Sessions
    PROVE  SessionCore(i)'
  <1>1. TypeOK /\ Owner(i) /\ Exchange(i) /\ Owed(i) /\ Pending(i) /\ pc[j] = "new"
    BY DEF Core, StartSession, Serving
  <1>2. pc'[i] = IF i = j THEN "open" ELSE pc[i]
    BY <1>1 DEF StartSession, TypeOK
  <1>3. UNCHANGED <<phase, jobs, holds, inFlight, cancelRequested, runnable, tasks, chan>>
    BY DEF StartSession, schedVars, slotVars
  <1>4. /\ Submitted(i)' <=> Submitted(i) \/ i = j
        /\ Answered(i)' <=> Answered(i)
        /\ Cancelling(i)' <=> Cancelling(i)
        /\ Completed(i)' <=> Completed(i)
        /\ OneDriving(i) /\ ~(i = j /\ (Submitted(i) \/ Answered(i))) => OneDriving(i)'
        /\ OneCompletion(i) => OneCompletion(i)'
    BY <1>1, CommandSent DEF StartSession, Commands
  <1>5. /\ TokenSent(i)' <=> TokenSent(i)
        /\ EndSent(i)' <=> EndSent(i)
        /\ OneToken(i)' <=> OneToken(i)
        /\ EndIsLast(i)' <=> EndIsLast(i)
        /\ chan[i] = <<>> => ~TokenSent(i) /\ ~EndSent(i)
    BY <1>3, ChanKept, ChanEmpty
  <1>6. /\ Queued(i)' <=> Queued(i)
        /\ OneEntry(i)' <=> OneEntry(i)
        /\ \A s \in Slots : (TaskIn(s, i)' <=> TaskIn(s, i)) /\ (OneTask(s, i)' <=> OneTask(s, i))
        /\ SlotOf[i] \in Slots
    BY <1>3, SchedKept
  <1>a. Owner(i)'
    BY <1>1, <1>3, <1>4, <1>6 DEF Owner
  <1>b. Exchange(i)'
    BY <1>1, <1>2, <1>3, <1>4, <1>5, <1>6 DEF Exchange
  <1>c. Owed(i)'
    BY <1>1, <1>2, <1>3, <1>4, <1>5, <1>6 DEF Owed
  <1>d. Pending(i)'
    BY <1>1, <1>2, <1>3, <1>4, <1>5, <1>6 DEF Pending, Exchange
  <1> QED  BY <1>a, <1>b, <1>c, <1>d DEF SessionCore

LEMMA StepCore ==
    ASSUME Core, NEW j \in Sessions, Step(j), NEW i \in Sessions
    PROVE  SessionCore(i)'
  <1>1. /\ TypeOK /\ Exchange(i) /\ Owed(i)
        /\ Serving => Owner(i)
        /\ phase = "running" => Pending(i)
        /\ phase \in Phases /\ pc[j] \in {"open", "token"}
    BY DEF Core, Step, TypeOK
  <1>2. /\ i # j => pc'[i] = pc[i]
        /\ i = j => pc'[i] = IF pc[i] = "token" /\ phase = "stopped" THEN "failed"
                                                                  ELSE "receiving"
    BY <1>1 DEF Step, TypeOK
  <1>3. UNCHANGED <<phase, jobs, holds, inFlight, cancelRequested, runnable, tasks, chan>>
    BY DEF Step, schedVars, slotVars
  <1>4. LET sent == phase # "stopped" /\ i = j /\ pc[j] = "token" IN
        /\ Submitted(i)' <=> Submitted(i)
        /\ Answered(i)' <=> Answered(i) \/ sent
        /\ Cancelling(i)' <=> Cancelling(i)
        /\ Completed(i)' <=> Completed(i)
        /\ OneDriving(i) /\ ~(sent /\ (Submitted(i) \/ Answered(i))) => OneDriving(i)'
        /\ OneCompletion(i) => OneCompletion(i)'
    <2>1. CASE pc[j] = "open"
      <3>1. events' = events
        BY <2>1 DEF Step
      <3> QED  BY <2>1, <3>1, EventsKept
    <2>2. CASE pc[j] = "token"
      <3>1. SendEvent(Command("Continue", j))
        BY <2>2 DEF Step
      <3> QED  BY <1>1, <2>2, <3>1, CommandSent DEF Commands
    <2> QED  BY <1>1, <2>1, <2>2
  <1>5. /\ TokenSent(i)' <=> TokenSent(i)
        /\ EndSent(i)' <=> EndSent(i)
        /\ OneToken(i)' <=> OneToken(i)
        /\ EndIsLast(i)' <=> EndIsLast(i)
    BY <1>3, ChanKept
  <1>6. /\ Queued(i)' <=> Queued(i)
        /\ OneEntry(i)' <=> OneEntry(i)
        /\ \A s \in Slots : (TaskIn(s, i)' <=> TaskIn(s, i)) /\ (OneTask(s, i)' <=> OneTask(s, i))
        /\ SlotOf[i] \in Slots
    BY <1>3, SchedKept
  <1>a. Serving' => Owner(i)'
    BY <1>1, <1>3, <1>4, <1>6 DEF Owner, Serving
  <1>b. Exchange(i)'
    BY <1>1, <1>2, <1>3, <1>4, <1>5, <1>6 DEF Exchange
  <1>c. Owed(i)'
    BY <1>1, <1>2, <1>3, <1>4, <1>5, <1>6 DEF Owed, Exchange
  <1>d. phase' = "running" => Pending(i)'
    BY <1>1, <1>2, <1>3, <1>4, <1>5, <1>6 DEF Pending, Exchange
  <1> QED  BY <1>a, <1>b, <1>c, <1>d DEF SessionCore

LEMMA FinishCore ==
    ASSUME Core, NEW j \in Sessions, Finish(j), NEW i \in Sessions
    PROVE  SessionCore(i)'
  <1>1. /\ TypeOK /\ Exchange(i) /\ Owed(i)
        /\ Serving => Owner(i)
        /\ phase = "running" => Pending(i)
        /\ phase \in Phases /\ pc[j] \in {"open", "token"}
    BY DEF Core, Finish, TypeOK
  <1>2. /\ i # j => pc'[i] = pc[i]
        /\ i = j => pc'[i] = IF phase = "stopped" THEN "failed" ELSE "finishing"
    BY <1>1 DEF Finish, TypeOK
  <1>3. UNCHANGED <<phase, jobs, holds, inFlight, cancelRequested, runnable, tasks, chan>>
    BY DEF Finish, schedVars, slotVars
  <1>4. LET sent == phase # "stopped" /\ i = j IN
        /\ Submitted(i)' <=> Submitted(i)
        /\ Answered(i)' <=> Answered(i) \/ (sent /\ pc[j] = "token")
        /\ Cancelling(i)' <=> Cancelling(i) \/ (sent /\ pc[j] = "open")
        /\ Completed(i)' <=> Completed(i)
        /\ OneDriving(i) /\ ~(sent /\ pc[j] = "token" /\ (Submitted(i) \/ Answered(i)))
             => OneDriving(i)'
        /\ OneCompletion(i) => OneCompletion(i)'
    <2> DEFINE t == IF pc[j] = "token" THEN "Stop" ELSE "Cancel"
    <2>1. SendEvent(Command(t, j)) /\ t \in Commands
      BY DEF Finish, Commands
    <2>2. /\ pc[j] = "token" => t = "Stop" /\ t \in Driving
          /\ pc[j] = "open" => t = "Cancel" /\ t \notin Driving
      BY DEF Driving
    <2> HIDE DEF t
    <2> QED  BY <1>1, <2>1, <2>2, CommandSent
  <1>5. /\ TokenSent(i)' <=> TokenSent(i)
        /\ EndSent(i)' <=> EndSent(i)
        /\ OneToken(i)' <=> OneToken(i)
        /\ EndIsLast(i)' <=> EndIsLast(i)
    BY <1>3, ChanKept
  <1>6. /\ Queued(i)' <=> Queued(i)
        /\ OneEntry(i)' <=> OneEntry(i)
        /\ \A s \in Slots : (TaskIn(s, i)' <=> TaskIn(s, i)) /\ (OneTask(s, i)' <=> OneTask(s, i))
        /\ SlotOf[i] \in Slots
    BY <1>3, SchedKept
  <1>a. Serving' => Owner(i)'
    BY <1>1, <1>3, <1>4, <1>6 DEF Owner, Serving
  <1>b. Exchange(i)'
    BY <1>1, <1>2, <1>3, <1>4, <1>5, <1>6 DEF Exchange
  <1>c. Owed(i)'
    BY <1>1, <1>2, <1>3, <1>4, <1>5, <1>6 DEF Owed, Exchange
  <1>d. phase' = "running" => Pending(i)'
    BY <1>1, <1>2, <1>3, <1>4, <1>5, <1>6 DEF Pending, Exchange
  <1> QED  BY <1>a, <1>b, <1>c, <1>d DEF SessionCore

LEMMA DropCore ==
    ASSUME Core, NEW j \in Sessions, Drop(j), NEW i \in Sessions
    PROVE  SessionCore(i)'
  <1>1. /\ TypeOK /\ Exchange(i) /\ Owed(i)
        /\ Serving => Owner(i)
        /\ phase = "running" => Pending(i)
        /\ phase \in Phases /\ pc[j] \in {"open", "token", "failed"}
    BY DEF Core, Drop, TypeOK
  <1>2. /\ i # j => pc'[i] = pc[i] /\ chan'[i] = chan[i]
        /\ i = j => pc'[i] = "dropped" /\ chan'[i] = <<>>
    BY <1>1 DEF Drop, TypeOK
  <1>3. UNCHANGED <<phase, jobs, holds, inFlight, cancelRequested, runnable, tasks>>
    BY DEF Drop, schedVars, slotVars
  <1>4. /\ Submitted(i)' <=> Submitted(i)
        /\ Answered(i)' <=> Answered(i)
        /\ Cancelling(i)' <=> Cancelling(i) \/ (phase # "stopped" /\ i = j)
        /\ Completed(i)' <=> Completed(i)
        /\ OneDriving(i) => OneDriving(i)'
        /\ OneCompletion(i) => OneCompletion(i)'
    BY <1>1, CommandSent DEF Drop, Commands, Driving
  <1>5. /\ i # j =>
             /\ TokenSent(i)' <=> TokenSent(i)
             /\ EndSent(i)' <=> EndSent(i)
             /\ OneToken(i)' <=> OneToken(i)
             /\ EndIsLast(i)' <=> EndIsLast(i)
        /\ i = j => ~TokenSent(i)' /\ ~EndSent(i)' /\ OneToken(i)' /\ EndIsLast(i)'
    BY <1>2, ChanKept, ChanEmpty
  <1>6. /\ Queued(i)' <=> Queued(i)
        /\ OneEntry(i)' <=> OneEntry(i)
        /\ \A s \in Slots : (TaskIn(s, i)' <=> TaskIn(s, i)) /\ (OneTask(s, i)' <=> OneTask(s, i))
        /\ SlotOf[i] \in Slots
    BY <1>3, SchedKept
  <1>a. Serving' => Owner(i)'
    BY <1>1, <1>3, <1>4, <1>6 DEF Owner, Serving
  <1>b. Exchange(i)'
    BY <1>1, <1>2, <1>3, <1>4, <1>5, <1>6 DEF Exchange
  <1>c. Owed(i)'
    BY <1>1, <1>2, <1>3, <1>4, <1>5, <1>6 DEF Owed, Exchange
  <1>d. phase' = "running" => Pending(i)'
    BY <1>1, <1>2, <1>3, <1>4, <1>5, <1>6 DEF Pending, Exchange
  <1> QED  BY <1>a, <1>b, <1>c, <1>d DEF SessionCore

\* The sender of a response channel lives in a Submit or in a job.
LEMMA SenderAliveIs ==
    ASSUME TypeOK, NEW i
    PROVE  SenderAlive(i) <=> i \in jobs \/ Submitted(i)
  <1>1. \A k \in 1..Len(events) :
          events[k] \in EventsOf({"Submit"}, i) <=> events[k].type = "Submit" /\ events[k].id = i
    BY EventKind DEF TypeOK
  <1> QED  BY <1>1 DEF SenderAlive, Submitted, Has

LEMMA ReceiveCore ==
    ASSUME Core, NEW j \in Sessions, Receive(j), NEW i \in Sessions
    PROVE  SessionCore(i)'
  <1>1. /\ TypeOK /\ Exchange(i) /\ Owed(i)
        /\ Serving => Owner(i)
        /\ phase = "running" => Pending(i)
        /\ pc[j] \in {"receiving", "finishing"}
        /\ UNCHANGED <<phase, events, jobs, holds, inFlight, cancelRequested, runnable, tasks>>
    BY DEF Core, Receive, schedVars, slotVars
  <1>2. /\ i # j => pc'[i] = pc[i] /\ chan'[i] = chan[i]
        /\ i = j /\ chan[i] # <<>> =>
             /\ chan'[i] = Tail(chan[i])
             /\ pc'[i] \in {"finished", "token", "failed"}
             /\ pc'[i] = "token" => Head(chan[i]) = "Token" /\ pc[i] = "receiving"
        /\ i = j /\ chan[i] = <<>> =>
             chan'[i] = chan[i] /\ pc'[i] = "failed" /\ ~SenderAlive(i)
    BY <1>1 DEF Receive, TypeOK
  <1>3. /\ Submitted(i)' <=> Submitted(i)
        /\ Answered(i)' <=> Answered(i)
        /\ Cancelling(i)' <=> Cancelling(i)
        /\ Completed(i)' <=> Completed(i)
        /\ OneDriving(i)' <=> OneDriving(i)
        /\ OneCompletion(i)' <=> OneCompletion(i)
    BY <1>1, EventsKept
  <1>4. /\ Queued(i)' <=> Queued(i)
        /\ OneEntry(i)' <=> OneEntry(i)
        /\ \A s \in Slots : (TaskIn(s, i)' <=> TaskIn(s, i)) /\ (OneTask(s, i)' <=> OneTask(s, i))
        /\ SlotOf[i] \in Slots
    BY <1>1, SchedKept
  <1>5. chan'[i] = chan[i] =>
           /\ TokenSent(i)' <=> TokenSent(i)
           /\ EndSent(i)' <=> EndSent(i)
           /\ OneToken(i)' <=> OneToken(i)
           /\ EndIsLast(i)' <=> EndIsLast(i)
    BY ChanKept
  <1>6. i = j /\ chan[i] # <<>> =>
           /\ TokenSent(i) <=> TokenSent(i)' \/ Head(chan[i]) = "Token"
           /\ EndSent(i) <=> EndSent(i)' \/ Head(chan[i]) # "Token"
           /\ OneToken(i) => OneToken(i)'
           /\ OneToken(i) /\ Head(chan[i]) = "Token" => ~TokenSent(i)'
           /\ EndIsLast(i) => EndIsLast(i)'
    BY <1>1, <1>2, ChanReceived
  <1>7. ~SenderAlive(i) => i \notin jobs /\ ~Submitted(i)
    BY <1>1, SenderAliveIs
  <1>a. Serving' => Owner(i)'
    BY <1>1, <1>3, <1>4 DEF Owner, Serving
  <1>b. Exchange(i)'
    BY <1>1, <1>2, <1>3, <1>4, <1>5, <1>6 DEF Exchange
  <1>c. Owed(i)'
    BY <1>1, <1>2, <1>3, <1>4 DEF Owed
  <1>d. phase' = "running" => Pending(i)'
    BY <1>1, <1>2, <1>3, <1>4, <1>5, <1>6, <1>7 DEF Pending, Exchange
  <1> QED  BY <1>a, <1>b, <1>c, <1>d DEF SessionCore

LEMMA RunTaskCore ==
    ASSUME Core, NEW r \in Slots, RunTask(r), NEW i \in Sessions
    PROVE  SessionCore(i)'
  <1>1. /\ TypeOK /\ Exchange(i) /\ Owed(i)
        /\ Serving => Owner(i)
        /\ phase = "running" => Pending(i)
        /\ SlotOf[i] \in Slots
    BY SlotOfAssumption DEF Core
  <1>2. UNCHANGED <<phase, jobs, holds, inFlight, cancelRequested, runnable, pc, chan>>
    BY DEF RunTask, schedVars, clientVars
  <1>3. Head(tasks[r]).id \in Sessions /\ tasks[r] # <<>>
    <2>1. tasks[r] # <<>> /\ tasks[r] \in Seq(Tasks)
      BY <1>1 DEF RunTask, TypeOK
    <2>2. Head(tasks[r]) \in Tasks
      BY <2>1, TailFacts
    <2> QED  BY <2>1, <2>2 DEF Tasks
  <1>4. PICK q \in Results : events' = Append(events, Completion(Head(tasks[r]).id, q))
    BY DEF RunTask
  <1>5. LET done == i = Head(tasks[r]).id IN
        /\ Submitted(i)' <=> Submitted(i)
        /\ Answered(i)' <=> Answered(i)
        /\ Cancelling(i)' <=> Cancelling(i)
        /\ Completed(i)' <=> Completed(i) \/ done
        /\ OneDriving(i) => OneDriving(i)'
        /\ OneCompletion(i) /\ ~(done /\ Completed(i)) => OneCompletion(i)'
    <2> DEFINE e == Completion(Head(tasks[r]).id, q)
    <2>1. e \in Events /\ e.type = "Completed" /\ e.id = Head(tasks[r]).id
      BY <1>3, CompletionType DEF Completion
    <2> HIDE DEF e
    <2>2. e.type \notin Driving
      BY <2>1 DEF Driving
    <2> QED  BY <1>1, <1>4, <2>1, <2>2, EventSent DEF e
  <1>6. \A s \in Slots :
          /\ TaskIn(s, i) <=> TaskIn(s, i)' \/ (s = r /\ i = Head(tasks[r]).id)
          /\ OneTask(s, i) => OneTask(s, i)'
          /\ OneTask(s, i) /\ s = r /\ i = Head(tasks[r]).id => ~TaskIn(s, i)'
    BY <1>1, <1>3, TaskRun DEF RunTask
  <1>7. /\ TokenSent(i)' <=> TokenSent(i)
        /\ EndSent(i)' <=> EndSent(i)
        /\ OneToken(i)' <=> OneToken(i)
        /\ EndIsLast(i)' <=> EndIsLast(i)
    BY <1>2, ChanKept
  <1>8. (Queued(i)' <=> Queued(i)) /\ (OneEntry(i)' <=> OneEntry(i))
    BY <1>2, RunnableKept
  <1>a. Serving' => Owner(i)'
    BY <1>1, <1>2, <1>5, <1>6, <1>7, <1>8 DEF Owner, Exchange, Pending, Serving
  <1>b. Exchange(i)'
    BY <1>1, <1>2, <1>5, <1>6, <1>7, <1>8 DEF Exchange, Owner, Pending
  <1>c. Owed(i)'
    BY <1>1, <1>2, <1>5, <1>6, <1>7, <1>8 DEF Owed, Exchange, Pending
  <1>d. phase' = "running" => Pending(i)'
    BY <1>1, <1>2, <1>5, <1>6, <1>7, <1>8 DEF Pending, Exchange, Owner
  <1> QED  BY <1>a, <1>b, <1>c, <1>d DEF SessionCore

LEMMA DispatchCore ==
    ASSUME Core, Dispatch, NEW i \in Sessions
    PROVE  SessionCore(i)'
  <1>1. /\ TypeOK /\ Exchange(i) /\ Owed(i)
        /\ Serving => Owner(i)
        /\ phase = "running" => Pending(i)
        /\ SlotOf[i] \in Slots
    BY SlotOfAssumption DEF Core
  <1>2. PICK k \in 1..Len(runnable) :
          /\ Available(runnable[k])
          /\ runnable' = RemoveAt(runnable, k)
          /\ SendTask(runnable[k], IF holds[runnable[k]] = "request" THEN "Start" ELSE "Step")
    BY DEF Dispatch, IsFlowHead
  <1>3. /\ runnable[k] \in jobs /\ runnable[k] \notin inFlight
        /\ phase = "running" /\ Owner(i) /\ Pending(i)
    BY <1>1, <1>2 DEF Available, Dispatch, Serving
  <1>4. /\ UNCHANGED <<phase, events, jobs, cancelRequested, pc, chan>>
        /\ inFlight' = inFlight \cup {runnable[k]}
        /\ holds'[i] = IF i = runnable[k] THEN "none" ELSE holds[i]
    BY <1>1, <1>2 DEF Dispatch, clientVars, SendTask, TypeOK
  <1>5. /\ Submitted(i)' <=> Submitted(i)
        /\ Answered(i)' <=> Answered(i)
        /\ Cancelling(i)' <=> Cancelling(i)
        /\ Completed(i)' <=> Completed(i)
        /\ OneDriving(i)' <=> OneDriving(i)
        /\ OneCompletion(i)' <=> OneCompletion(i)
    BY <1>4, EventsKept
  <1>6. /\ TokenSent(i)' <=> TokenSent(i)
        /\ EndSent(i)' <=> EndSent(i)
        /\ OneToken(i)' <=> OneToken(i)
        /\ EndIsLast(i)' <=> EndIsLast(i)
    BY <1>4, ChanKept
  <1>7. /\ Queued(i)' <=> Queued(i) /\ i # runnable[k]
        /\ i = runnable[k] => Queued(i)
        /\ OneEntry(i)'
    BY <1>1, <1>2, <1>3, RunnableTaken DEF Owner
  <1>8. \A s \in Slots :
          /\ TaskIn(s, i)' <=> TaskIn(s, i) \/ (i = runnable[k] /\ s = SlotOf[i])
          /\ OneTask(s, i) /\ ~(i = runnable[k] /\ TaskIn(s, i)) => OneTask(s, i)'
    BY <1>1, <1>2, <1>3, TaskSent
  <1>a. Serving' => Owner(i)'
    BY <1>1, <1>3, <1>4, <1>5, <1>6, <1>7, <1>8 DEF Owner, Exchange, Pending, Serving
  <1>b. Exchange(i)'
    BY <1>1, <1>3, <1>4, <1>5, <1>6, <1>7, <1>8 DEF Exchange, Owner, Pending
  <1>c. Owed(i)'
    BY <1>1, <1>3, <1>4, <1>5, <1>6, <1>7, <1>8 DEF Owed, Exchange, Pending
  <1>d. phase' = "running" => Pending(i)'
    BY <1>1, <1>3, <1>4, <1>5, <1>6, <1>7, <1>8 DEF Pending, Exchange, Owner
  <1> QED  BY <1>a, <1>b, <1>c, <1>d DEF SessionCore

\* A message of the scheduler to session j, seen by session i
LEMMA Delivered ==
    ASSUME TypeOK, NEW j \in Sessions, NEW m \in Messages, Deliver(j, m), NEW i \in Sessions
    PROVE  /\ ~(i = j /\ pc[j] # "dropped") =>
                 /\ chan'[i] = chan[i]
                 /\ TokenSent(i)' <=> TokenSent(i)
                 /\ EndSent(i)' <=> EndSent(i)
                 /\ OneToken(i)' <=> OneToken(i)
                 /\ EndIsLast(i)' <=> EndIsLast(i)
           /\ i = j /\ pc[j] # "dropped" =>
                 /\ chan'[i] # <<>>
                 /\ TokenSent(i)' <=> TokenSent(i) \/ m = "Token"
                 /\ EndSent(i)' <=> EndSent(i) \/ m # "Token"
                 /\ OneToken(i) /\ ~(m = "Token" /\ TokenSent(i)) => OneToken(i)'
                 /\ ~EndSent(i) => EndIsLast(i)'
  <1>1. /\ ~(i = j /\ pc[j] # "dropped") => chan'[i] = chan[i]
        /\ i = j /\ pc[j] # "dropped" => chan'[i] = Append(chan[i], m)
    BY DEF TypeOK, Deliver, ReceiverAlive
  <1> QED  BY <1>1, ChanKept, ChanAppended

\* Event (t, j) is taken, seen by session i.
LEMMA Taken ==
    ASSUME TypeOK, NEW j \in Sessions, NEW t, Take(t, j), NEW i \in Sessions,
           OneDriving(i)
    PROVE  /\ Submitted(i) <=> Submitted(i)' \/ (t = "Submit" /\ i = j)
           /\ Answered(i) <=> Answered(i)' \/ (t \in {"Continue", "Stop"} /\ i = j)
           /\ Cancelling(i) <=> Cancelling(i)' \/ (t = "Cancel" /\ i = j)
           /\ Completed(i) <=> Completed(i)' \/ (t = "Completed" /\ i = j)
           /\ OneDriving(i)'
           /\ t \in Driving /\ i = j => ~Submitted(i)' /\ ~Answered(i)'
           /\ OneCompletion(i) => OneCompletion(i)'
           /\ OneCompletion(i) /\ t = "Completed" /\ i = j => ~Completed(i)'
  <1>1. /\ events # <<>> /\ events' = Tail(events)
        /\ Head(events).type = t /\ Head(events).id = j
    BY DEF Take
  <1> QED  BY <1>1, EventTaken

LEMMA DispatchSpawnFailsCore ==
    ASSUME Core, DispatchSpawnFails, NEW i \in Sessions
    PROVE  SessionCore(i)'
  <1>1. /\ TypeOK /\ Exchange(i) /\ Owed(i)
        /\ Serving => Owner(i)
        /\ phase = "running" => Pending(i)
        /\ SlotOf[i] \in Slots
    BY SlotOfAssumption DEF Core
  <1>2. PICK k \in 1..Len(runnable) :
          /\ Available(runnable[k])
          /\ runnable' = RemoveAt(runnable, k)
          /\ RemoveJob(runnable[k], "Failed")
    BY DEF DispatchSpawnFails, IsFlowHead
  <1>3. /\ runnable[k] \in jobs /\ runnable[k] \notin inFlight /\ runnable[k] \in Sessions
        /\ phase = "running" /\ Owner(i) /\ Pending(i)
    BY <1>1, <1>2 DEF Available, DispatchSpawnFails, Serving, TypeOK
  <1>4. /\ UNCHANGED <<phase, events, pc, tasks>>
        /\ jobs' = jobs \ {runnable[k]} /\ inFlight' = inFlight \ {runnable[k]}
        /\ cancelRequested' = cancelRequested \ {runnable[k]}
        /\ i # runnable[k] => holds'[i] = holds[i]
    BY <1>1, <1>2 DEF DispatchSpawnFails, slotVars, RemoveJob, TypeOK
  <1>5. /\ Submitted(i)' <=> Submitted(i)
        /\ Answered(i)' <=> Answered(i)
        /\ Cancelling(i)' <=> Cancelling(i)
        /\ Completed(i)' <=> Completed(i)
        /\ OneDriving(i)' <=> OneDriving(i)
        /\ OneCompletion(i)' <=> OneCompletion(i)
    BY <1>4, EventsKept
  <1>6. LET hit == i = runnable[k] /\ pc[i] # "dropped" IN
        /\ ~hit => /\ chan'[i] = chan[i]
                   /\ TokenSent(i)' <=> TokenSent(i)
                   /\ EndSent(i)' <=> EndSent(i)
                   /\ OneToken(i)' <=> OneToken(i)
                   /\ EndIsLast(i)' <=> EndIsLast(i)
        /\ hit => /\ chan'[i] # <<>>
                  /\ TokenSent(i)' <=> TokenSent(i)
                  /\ OneToken(i) => OneToken(i)'
                  /\ ~EndSent(i) => EndIsLast(i)'
    BY <1>1, <1>2, <1>3, Delivered DEF RemoveJob, Messages
  <1>7. /\ Queued(i)' <=> Queued(i) /\ i # runnable[k]
        /\ i = runnable[k] => Queued(i)
        /\ OneEntry(i)'
    BY <1>1, <1>2, <1>3, RunnableTaken DEF Owner
  <1>8. \A s \in Slots : (TaskIn(s, i)' <=> TaskIn(s, i)) /\ (OneTask(s, i)' <=> OneTask(s, i))
    BY <1>4, TasksKept
  <1>a. Serving' => Owner(i)'
    BY <1>1, <1>3, <1>4, <1>5, <1>6, <1>7, <1>8 DEF Owner, Exchange, Pending, Serving
  <1>b. Exchange(i)'
    BY <1>1, <1>3, <1>4, <1>5, <1>6, <1>7, <1>8 DEF Exchange, Owner, Pending
  <1>c. Owed(i)'
    BY <1>1, <1>3, <1>4, <1>5, <1>6, <1>7, <1>8 DEF Owed, Exchange, Pending
  <1>d. phase' = "running" => Pending(i)'
    BY <1>1, <1>3, <1>4, <1>5, <1>6, <1>7, <1>8 DEF Pending, Exchange, Owner
  <1> QED  BY <1>a, <1>b, <1>c, <1>d DEF SessionCore

LEMMA HandleSubmitCore ==
    ASSUME Core, NEW j \in Sessions, HandleSubmit(j), NEW i \in Sessions
    PROVE  SessionCore(i)'
  <1>1. /\ TypeOK /\ Exchange(i) /\ Owed(i) /\ Owner(i) /\ Pending(i)
        /\ Exchange(j) /\ Owner(j) /\ Pending(j)
        /\ SlotOf[i] \in Slots /\ phase = "running"
    BY SlotOfAssumption DEF Core, Serving, HandleSubmit
  <1>2. /\ UNCHANGED <<phase, inFlight, cancelRequested, tasks, pc, chan>>
        /\ jobs' = jobs \cup {j} /\ runnable' = Append(runnable, j)
        /\ holds'[i] = IF i = j THEN "request" ELSE holds[i]
    BY <1>1 DEF HandleSubmit, slotVars, clientVars, TypeOK
  <1>3. /\ Submitted(i) <=> Submitted(i)' \/ i = j
        /\ Answered(i) <=> Answered(i)'
        /\ Cancelling(i) <=> Cancelling(i)'
        /\ Completed(i) <=> Completed(i)'
        /\ OneDriving(i)'
        /\ OneCompletion(i) => OneCompletion(i)'
        /\ i = j => ~Submitted(i)' /\ ~Answered(i)'
    BY <1>1, Taken DEF HandleSubmit, Exchange, Driving
  <1>4. /\ TokenSent(i)' <=> TokenSent(i)
        /\ EndSent(i)' <=> EndSent(i)
        /\ OneToken(i)' <=> OneToken(i)
        /\ EndIsLast(i)' <=> EndIsLast(i)
    BY <1>2, ChanKept
  <1>5. /\ Queued(i)' <=> Queued(i) \/ i = j
        /\ OneEntry(i) /\ ~(i = j /\ Queued(i)) => OneEntry(i)'
    BY <1>1, <1>2, RunnableAppended
  <1>6. \A s \in Slots : (TaskIn(s, i)' <=> TaskIn(s, i)) /\ (OneTask(s, i)' <=> OneTask(s, i))
    BY <1>2, TasksKept
  <1>7. inFlight \subseteq jobs
    BY <1>1 DEF TypeOK
  <1>a. Serving' => Owner(i)'
    BY <1>1, <1>2, <1>3, <1>4, <1>5, <1>6, <1>7 DEF Owner, Exchange, Pending, Serving
  <1>b. Exchange(i)'
    BY <1>1, <1>2, <1>3, <1>4, <1>5, <1>6, <1>7 DEF Exchange, Owner, Pending
  <1>c. Owed(i)'
    BY <1>1, <1>2, <1>3, <1>4, <1>5, <1>6, <1>7 DEF Owed, Exchange, Pending
  <1>d. phase' = "running" => Pending(i)'
    BY <1>1, <1>2, <1>3, <1>4, <1>5, <1>6, <1>7 DEF Pending, Exchange, Owner
  <1> QED  BY <1>a, <1>b, <1>c, <1>d DEF SessionCore

LEMMA HandleContinueCore ==
    ASSUME Core, NEW j \in Sessions, HandleContinue(j), NEW i \in Sessions
    PROVE  SessionCore(i)'
  <1>1. /\ TypeOK /\ Exchange(i) /\ Owed(i) /\ Owner(i) /\ Pending(i)
        /\ Exchange(j) /\ Owner(j) /\ Pending(j)
        /\ SlotOf[i] \in Slots /\ phase = "running"
    BY SlotOfAssumption DEF Core, Serving, HandleContinue
  <1>2. /\ Submitted(i) <=> Submitted(i)'
        /\ Answered(i) <=> Answered(i)' \/ i = j
        /\ Cancelling(i) <=> Cancelling(i)'
        /\ Completed(i) <=> Completed(i)'
        /\ OneDriving(i)'
        /\ OneCompletion(i) => OneCompletion(i)'
        /\ i = j => ~Submitted(i)' /\ ~Answered(i)'
    BY <1>1, Taken DEF HandleContinue, Exchange, Driving
  <1>3. j \in jobs /\ holds[j] = "session" /\ ~Queued(j)
    <2>1. Answered(j)
      BY <1>1, Taken DEF HandleContinue, Exchange
    <2> QED  BY <1>1, <2>1 DEF Pending
  <1>4. /\ UNCHANGED <<phase, jobs, holds, inFlight, cancelRequested, tasks, pc, chan>>
        /\ runnable' = Append(runnable, j)
    BY <1>3 DEF HandleContinue, slotVars, clientVars
  <1>5. /\ TokenSent(i)' <=> TokenSent(i)
        /\ EndSent(i)' <=> EndSent(i)
        /\ OneToken(i)' <=> OneToken(i)
        /\ EndIsLast(i)' <=> EndIsLast(i)
    BY <1>4, ChanKept
  <1>6. /\ Queued(i)' <=> Queued(i) \/ i = j
        /\ OneEntry(i) /\ ~(i = j /\ Queued(i)) => OneEntry(i)'
    BY <1>1, <1>4, RunnableAppended
  <1>7. \A s \in Slots : (TaskIn(s, i)' <=> TaskIn(s, i)) /\ (OneTask(s, i)' <=> OneTask(s, i))
    BY <1>4, TasksKept
  <1>a. Serving' => Owner(i)'
    BY <1>1, <1>2, <1>3, <1>4, <1>5, <1>6, <1>7 DEF Owner, Exchange, Pending, Serving
  <1>b. Exchange(i)'
    BY <1>1, <1>2, <1>3, <1>4, <1>5, <1>6, <1>7 DEF Exchange, Owner, Pending
  <1>c. Owed(i)'
    BY <1>1, <1>2, <1>3, <1>4, <1>5, <1>6, <1>7 DEF Owed, Exchange, Pending
  <1>d. phase' = "running" => Pending(i)'
    BY <1>1, <1>2, <1>3, <1>4, <1>5, <1>6, <1>7 DEF Pending, Exchange, Owner
  <1> QED  BY <1>a, <1>b, <1>c, <1>d DEF SessionCore

LEMMA HandleStopCore ==
    ASSUME Core, NEW j \in Sessions, HandleStop(j), NEW i \in Sessions
    PROVE  SessionCore(i)'
  <1>1. /\ TypeOK /\ Exchange(i) /\ Owed(i) /\ Owner(i) /\ Pending(i)
        /\ Exchange(j) /\ Owner(j) /\ Pending(j)
        /\ SlotOf[i] \in Slots /\ phase = "running"
    BY SlotOfAssumption DEF Core, Serving, HandleStop
  <1>2. /\ Submitted(i) <=> Submitted(i)'
        /\ Answered(i) <=> Answered(i)' \/ i = j
        /\ Cancelling(i) <=> Cancelling(i)'
        /\ Completed(i) <=> Completed(i)'
        /\ OneDriving(i)'
        /\ OneCompletion(i) => OneCompletion(i)'
        /\ i = j => ~Submitted(i)' /\ ~Answered(i)'
    BY <1>1, Taken DEF HandleStop, Exchange, Driving
  <1>3. j \in jobs /\ holds[j] = "session" /\ ~Queued(j)
    <2>1. Answered(j)
      BY <1>1, Taken DEF HandleStop, Exchange
    <2> QED  BY <1>1, <2>1 DEF Pending
  <1>4. /\ UNCHANGED <<phase, jobs, cancelRequested, pc, chan>>
        /\ runnable' = Without(runnable, j) /\ SendTask(j, "Finish")
    BY <1>3 DEF HandleStop, clientVars
  <1>5. /\ inFlight' = inFlight \cup {j}
        /\ holds'[i] = IF i = j THEN "none" ELSE holds[i]
    BY <1>1, <1>4 DEF SendTask, TypeOK
  <1>6. /\ TokenSent(i)' <=> TokenSent(i)
        /\ EndSent(i)' <=> EndSent(i)
        /\ OneToken(i)' <=> OneToken(i)
        /\ EndIsLast(i)' <=> EndIsLast(i)
    BY <1>4, ChanKept
  <1>7. (Queued(i)' <=> Queued(i) /\ i # j) /\ OneEntry(i)'
    BY <1>1, <1>4, RunnableWithout DEF Owner
  <1>8. \A s \in Slots :
          /\ TaskIn(s, i)' <=> TaskIn(s, i) \/ (i = j /\ s = SlotOf[i])
          /\ OneTask(s, i) /\ ~(i = j /\ TaskIn(s, i)) => OneTask(s, i)'
    BY <1>1, <1>3, <1>4, TaskSent
  <1>a. Serving' => Owner(i)'
    BY <1>1, <1>2, <1>3, <1>4, <1>5, <1>6, <1>7, <1>8 DEF Owner, Exchange, Pending, Serving
  <1>b. Exchange(i)'
    BY <1>1, <1>2, <1>3, <1>4, <1>5, <1>6, <1>7, <1>8 DEF Exchange, Owner, Pending
  <1>c. Owed(i)'
    BY <1>1, <1>2, <1>3, <1>4, <1>5, <1>6, <1>7, <1>8 DEF Owed, Exchange, Pending
  <1>d. phase' = "running" => Pending(i)'
    BY <1>1, <1>2, <1>3, <1>4, <1>5, <1>6, <1>7, <1>8 DEF Pending, Exchange, Owner
  <1> QED  BY <1>a, <1>b, <1>c, <1>d DEF SessionCore

\* A job that is not in flight is cancelled at once ...
LEMMA CancelNowCore ==
    ASSUME Core, NEW j \in Sessions, HandleCancel(j), j \in jobs, j \notin inFlight,
           NEW i \in Sessions
    PROVE  SessionCore(i)'
  <1>1. /\ TypeOK /\ Exchange(i) /\ Owed(i) /\ Owner(i) /\ Pending(i)
        /\ Exchange(j) /\ Owner(j) /\ Pending(j)
        /\ SlotOf[i] \in Slots /\ phase = "running"
    BY SlotOfAssumption DEF Core, Serving, HandleCancel
  <1>2. /\ Submitted(i) <=> Submitted(i)'
        /\ Answered(i) <=> Answered(i)'
        /\ Cancelling(i) <=> Cancelling(i)' \/ i = j
        /\ Completed(i) <=> Completed(i)'
        /\ OneDriving(i)'
        /\ OneCompletion(i) => OneCompletion(i)'
    BY <1>1, Taken DEF HandleCancel, Exchange, Driving
  <1>3. Cancelling(j)
    BY <1>1, Taken DEF HandleCancel, Exchange
  <1>4. /\ UNCHANGED <<phase, tasks, pc>>
        /\ runnable' = Without(runnable, j) /\ RemoveJob(j, "Cancelled")
    BY DEF HandleCancel, slotVars
  <1>5. /\ jobs' = jobs \ {j} /\ inFlight' = inFlight \ {j}
        /\ cancelRequested' = cancelRequested \ {j}
        /\ i # j => holds'[i] = holds[i]
    BY <1>1, <1>4 DEF RemoveJob, TypeOK
  <1>6. LET hit == i = j /\ pc[i] # "dropped" IN
        /\ ~hit => /\ chan'[i] = chan[i]
                   /\ TokenSent(i)' <=> TokenSent(i)
                   /\ EndSent(i)' <=> EndSent(i)
                   /\ OneToken(i)' <=> OneToken(i)
                   /\ EndIsLast(i)' <=> EndIsLast(i)
        /\ hit => /\ chan'[i] # <<>>
                  /\ TokenSent(i)' <=> TokenSent(i)
                  /\ OneToken(i) => OneToken(i)'
                  /\ ~EndSent(i) => EndIsLast(i)'
    BY <1>1, <1>4, Delivered DEF RemoveJob, Messages
  <1>7. (Queued(i)' <=> Queued(i) /\ i # j) /\ OneEntry(i)'
    BY <1>1, <1>4, RunnableWithout DEF Owner
  <1>8. \A s \in Slots : (TaskIn(s, i)' <=> TaskIn(s, i)) /\ (OneTask(s, i)' <=> OneTask(s, i))
    BY <1>4, TasksKept
  <1>a. Serving' => Owner(i)'
    BY <1>1, <1>2, <1>3, <1>4, <1>5, <1>6, <1>7, <1>8 DEF Owner, Exchange, Pending, Serving
  <1>b. Exchange(i)'
    BY <1>1, <1>2, <1>3, <1>4, <1>5, <1>6, <1>7, <1>8 DEF Exchange, Owner, Pending
  <1>c. Owed(i)'
    BY <1>1, <1>2, <1>3, <1>4, <1>5, <1>6, <1>7, <1>8 DEF Owed, Exchange, Pending
  <1>d. phase' = "running" => Pending(i)'
    BY <1>1, <1>2, <1>3, <1>4, <1>5, <1>6, <1>7, <1>8 DEF Pending, Exchange, Owner
  <1> QED  BY <1>a, <1>b, <1>c, <1>d DEF SessionCore

\* ... and any other is marked, or gone already.
LEMMA CancelLaterCore ==
    ASSUME Core, NEW j \in Sessions, HandleCancel(j), ~(j \in jobs /\ j \notin inFlight),
           NEW i \in Sessions
    PROVE  SessionCore(i)'
  <1>1. /\ TypeOK /\ Exchange(i) /\ Owed(i) /\ Owner(i) /\ Pending(i)
        /\ Exchange(j) /\ Owner(j) /\ Pending(j)
        /\ SlotOf[i] \in Slots /\ phase = "running"
    BY SlotOfAssumption DEF Core, Serving, HandleCancel
  <1>2. /\ Submitted(i) <=> Submitted(i)'
        /\ Answered(i) <=> Answered(i)'
        /\ Cancelling(i) <=> Cancelling(i)' \/ i = j
        /\ Completed(i) <=> Completed(i)'
        /\ OneDriving(i)'
        /\ OneCompletion(i) => OneCompletion(i)'
    BY <1>1, Taken DEF HandleCancel, Exchange, Driving
  <1>3. /\ UNCHANGED <<phase, tasks, pc, jobs, holds, inFlight, chan>>
        /\ runnable' = Without(runnable, j)
        /\ cancelRequested' = IF j \in inFlight THEN cancelRequested \cup {j}
                                               ELSE cancelRequested
    BY <1>1 DEF HandleCancel, slotVars, TypeOK
  <1>4. /\ TokenSent(i)' <=> TokenSent(i)
        /\ EndSent(i)' <=> EndSent(i)
        /\ OneToken(i)' <=> OneToken(i)
        /\ EndIsLast(i)' <=> EndIsLast(i)
    BY <1>3, ChanKept
  <1>5. (Queued(i)' <=> Queued(i) /\ i # j) /\ OneEntry(i)'
    BY <1>1, <1>3, RunnableWithout DEF Owner
  <1>6. \A s \in Slots : (TaskIn(s, i)' <=> TaskIn(s, i)) /\ (OneTask(s, i)' <=> OneTask(s, i))
    BY <1>3, TasksKept
  <1>a. Serving' => Owner(i)'
    BY <1>1, <1>2, <1>3, <1>4, <1>5, <1>6 DEF Owner, Exchange, Pending, Serving
  <1>b. Exchange(i)'
    BY <1>1, <1>2, <1>3, <1>4, <1>5, <1>6 DEF Exchange, Owner, Pending
  <1>c. Owed(i)'
    BY <1>1, <1>2, <1>3, <1>4, <1>5, <1>6 DEF Owed, Exchange, Pending
  <1>d. phase' = "running" => Pending(i)'
    BY <1>1, <1>2, <1>3, <1>4, <1>5, <1>6 DEF Pending, Exchange, Owner
  <1> QED  BY <1>a, <1>b, <1>c, <1>d DEF SessionCore

\* The handler of a completion acts on a job in flight that has left its worker.
LEMMA CompletionTaken ==
    ASSUME Core, NEW j \in Sessions, HandleCompletion(j), NEW i \in Sessions
    PROVE  /\ TypeOK /\ Serving /\ Exchange(i) /\ Owed(i) /\ Owner(i) /\ Exchange(j) /\ Owner(j)
           /\ phase = "running" => Pending(i) /\ Pending(j)
           /\ phase # "running" => jobs \subseteq cancelRequested
           /\ j \in jobs /\ j \in inFlight /\ SlotOf[i] \in Slots /\ SlotOf[j] \in Slots
           /\ ~TaskIn(SlotOf[j], j)
           /\ UNCHANGED <<phase, tasks, pc>>
           /\ Submitted(i) <=> Submitted(i)'
           /\ Answered(i) <=> Answered(i)'
           /\ Cancelling(i) <=> Cancelling(i)'
           /\ Completed(i) <=> Completed(i)' \/ i = j
           /\ OneDriving(i)' /\ OneCompletion(i)'
           /\ i = j => ~Completed(i)'
  <1>1. /\ Serving /\ TypeOK /\ Exchange(i) /\ Owed(i) /\ Owner(i) /\ Exchange(j) /\ Owner(j)
        /\ phase = "running" => Pending(i) /\ Pending(j)
        /\ phase # "running" => jobs \subseteq cancelRequested
        /\ SlotOf[i] \in Slots /\ SlotOf[j] \in Slots
        /\ UNCHANGED <<phase, tasks, pc>> /\ Take("Completed", j)
    BY SlotOfAssumption DEF Core, Serving, HandleCompletion, Draining, WindingDown
  <1>2. Completed(j)
    BY <1>1, Taken DEF Exchange
  <1>3. j \in inFlight /\ j \in jobs /\ ~TaskIn(SlotOf[j], j)
    BY <1>1, <1>2 DEF Owner, TypeOK
  <1>4. /\ Submitted(i) <=> Submitted(i)'
        /\ Answered(i) <=> Answered(i)'
        /\ Cancelling(i) <=> Cancelling(i)'
        /\ Completed(i) <=> Completed(i)' \/ i = j
        /\ OneDriving(i)' /\ OneCompletion(i)'
        /\ i = j => ~Completed(i)'
    BY <1>1, Taken DEF Exchange, Owner, Driving
  <1> QED  BY <1>1, <1>3, <1>4

LEMMA CompleteTerminalCore ==
    ASSUME Core, NEW j \in Sessions, HandleCompletion(j), NEW r, CompleteTerminal(j, r), NEW i \in Sessions
    PROVE  SessionCore(i)'
  <1>1. /\ TypeOK /\ Serving /\ Exchange(i) /\ Owed(i) /\ Owner(i) /\ Exchange(j) /\ Owner(j)
        /\ phase = "running" => Pending(i) /\ Pending(j)
        /\ phase # "running" => jobs \subseteq cancelRequested
        /\ j \in jobs /\ j \in inFlight /\ SlotOf[i] \in Slots /\ SlotOf[j] \in Slots
        /\ ~TaskIn(SlotOf[j], j)
        /\ UNCHANGED <<phase, tasks, pc>>
        /\ Submitted(i) <=> Submitted(i)'
        /\ Answered(i) <=> Answered(i)'
        /\ Cancelling(i) <=> Cancelling(i)'
        /\ Completed(i) <=> Completed(i)' \/ i = j
        /\ OneDriving(i)' /\ OneCompletion(i)'
        /\ i = j => ~Completed(i)'
    BY CompletionTaken
  <1>2. Terminal(j, r) \in Messages /\ Terminal(j, r) # "Token"
    BY DEF Terminal, Messages
  <1>3. /\ RemoveJob(j, Terminal(j, r)) /\ runnable' = runnable
        /\ jobs' = jobs \ {j} /\ inFlight' = inFlight \ {j}
        /\ cancelRequested' = cancelRequested \ {j}
        /\ i # j => holds'[i] = holds[i]
    BY <1>1 DEF CompleteTerminal, RemoveJob, TypeOK
  <1>4. LET hit == i = j /\ pc[i] # "dropped" IN
        /\ ~hit => /\ chan'[i] = chan[i]
                   /\ TokenSent(i)' <=> TokenSent(i)
                   /\ EndSent(i)' <=> EndSent(i)
                   /\ OneToken(i)' <=> OneToken(i)
                   /\ EndIsLast(i)' <=> EndIsLast(i)
        /\ hit => /\ chan'[i] # <<>>
                  /\ TokenSent(i)' <=> TokenSent(i)
                  /\ OneToken(i) => OneToken(i)'
                  /\ ~EndSent(i) => EndIsLast(i)'
    BY <1>1, <1>2, <1>3, Delivered DEF RemoveJob
  <1>5. (Queued(i)' <=> Queued(i)) /\ (OneEntry(i)' <=> OneEntry(i))
    BY <1>3, RunnableKept
  <1>6. \A s \in Slots : (TaskIn(s, i)' <=> TaskIn(s, i)) /\ (OneTask(s, i)' <=> OneTask(s, i))
    BY <1>1, TasksKept
  <1>a. Serving' => Owner(i)'
    BY <1>1, <1>3, <1>4, <1>5, <1>6 DEF Owner, Exchange, Pending, Serving
  <1>b. Exchange(i)'
    BY <1>1, <1>3, <1>4, <1>5, <1>6 DEF Exchange, Owner, Pending
  <1>c. Owed(i)'
    BY <1>1, <1>3, <1>4, <1>5, <1>6 DEF Owed, Exchange, Pending
  <1>d. phase' = "running" => Pending(i)'
    BY <1>1, <1>3, <1>4, <1>5, <1>6 DEF Pending, Exchange, Owner
  <1> QED  BY <1>a, <1>b, <1>c, <1>d DEF SessionCore

LEMMA CompleteTokenCore ==
    ASSUME Core, NEW j \in Sessions, HandleCompletion(j), NEW r, CompleteToken(j, r), NEW i \in Sessions
    PROVE  SessionCore(i)'
  <1>1. /\ TypeOK /\ Serving /\ Exchange(i) /\ Owed(i) /\ Owner(i) /\ Exchange(j) /\ Owner(j)
        /\ phase = "running" => Pending(i) /\ Pending(j)
        /\ phase # "running" => jobs \subseteq cancelRequested
        /\ j \in jobs /\ j \in inFlight /\ SlotOf[i] \in Slots /\ SlotOf[j] \in Slots
        /\ ~TaskIn(SlotOf[j], j)
        /\ UNCHANGED <<phase, tasks, pc>>
        /\ Submitted(i) <=> Submitted(i)'
        /\ Answered(i) <=> Answered(i)'
        /\ Cancelling(i) <=> Cancelling(i)'
        /\ Completed(i) <=> Completed(i)' \/ i = j
        /\ OneDriving(i)' /\ OneCompletion(i)'
        /\ i = j => ~Completed(i)'
    BY CompletionTaken
  <1>2. /\ UNCHANGED <<jobs, cancelRequested, runnable>> /\ inFlight' = inFlight \ {j}
        /\ holds'[i] = IF i = j THEN "session" ELSE holds[i]
        /\ Deliver(j, "Token") /\ pc[j] # "dropped"
        /\ j \notin cancelRequested
    BY <1>1 DEF CompleteToken, CompletionEnds, ReceiverAlive, TypeOK
  <1>3. /\ i # j => /\ chan'[i] = chan[i]
                    /\ TokenSent(i)' <=> TokenSent(i)
                    /\ EndSent(i)' <=> EndSent(i)
                    /\ OneToken(i)' <=> OneToken(i)
                    /\ EndIsLast(i)' <=> EndIsLast(i)
        /\ i = j => /\ chan'[i] # <<>>
                    /\ TokenSent(i)'
                    /\ EndSent(i)' <=> EndSent(i)
                    /\ OneToken(i) /\ ~TokenSent(i) => OneToken(i)'
                    /\ ~EndSent(i) => EndIsLast(i)'
    BY <1>1, <1>2, Delivered DEF Messages
  <1>4. (Queued(i)' <=> Queued(i)) /\ (OneEntry(i)' <=> OneEntry(i))
    BY <1>2, RunnableKept
  <1>5. \A s \in Slots : (TaskIn(s, i)' <=> TaskIn(s, i)) /\ (OneTask(s, i)' <=> OneTask(s, i))
    BY <1>1, TasksKept
  <1>6. phase = "running"
    BY <1>1, <1>2
  <1>a. Serving' => Owner(i)'
    BY <1>1, <1>2, <1>3, <1>4, <1>5, <1>6 DEF Owner, Exchange, Pending, Serving
  <1>b. Exchange(i)'
    BY <1>1, <1>2, <1>3, <1>4, <1>5, <1>6 DEF Exchange, Owner, Pending
  <1>c. Owed(i)'
    BY <1>1, <1>2, <1>3, <1>4, <1>5, <1>6 DEF Owed, Exchange, Pending
  <1>d. phase' = "running" => Pending(i)'
    BY <1>1, <1>2, <1>3, <1>4, <1>5, <1>6 DEF Pending, Exchange, Owner
  <1> QED  BY <1>a, <1>b, <1>c, <1>d DEF SessionCore

LEMMA CompleteProgressCore ==
    ASSUME Core, NEW j \in Sessions, HandleCompletion(j), NEW r, CompleteProgress(j, r), NEW i \in Sessions
    PROVE  SessionCore(i)'
  <1>1. /\ TypeOK /\ Serving /\ Exchange(i) /\ Owed(i) /\ Owner(i) /\ Exchange(j) /\ Owner(j)
        /\ phase = "running" => Pending(i) /\ Pending(j)
        /\ phase # "running" => jobs \subseteq cancelRequested
        /\ j \in jobs /\ j \in inFlight /\ SlotOf[i] \in Slots /\ SlotOf[j] \in Slots
        /\ ~TaskIn(SlotOf[j], j)
        /\ UNCHANGED <<phase, tasks, pc>>
        /\ Submitted(i) <=> Submitted(i)'
        /\ Answered(i) <=> Answered(i)'
        /\ Cancelling(i) <=> Cancelling(i)'
        /\ Completed(i) <=> Completed(i)' \/ i = j
        /\ OneDriving(i)' /\ OneCompletion(i)'
        /\ i = j => ~Completed(i)'
    BY CompletionTaken
  <1>2. /\ UNCHANGED <<jobs, cancelRequested, chan>> /\ inFlight' = inFlight \ {j}
        /\ holds'[i] = IF i = j THEN "session" ELSE holds[i]
        /\ runnable' = Append(runnable, j)
        /\ j \notin cancelRequested
    BY <1>1 DEF CompleteProgress, CompletionEnds, TypeOK
  <1>3. /\ TokenSent(i)' <=> TokenSent(i)
        /\ EndSent(i)' <=> EndSent(i)
        /\ OneToken(i)' <=> OneToken(i)
        /\ EndIsLast(i)' <=> EndIsLast(i)
    BY <1>2, ChanKept
  <1>4. /\ Queued(i)' <=> Queued(i) \/ i = j
        /\ OneEntry(i) /\ ~(i = j /\ Queued(i)) => OneEntry(i)'
    BY <1>1, <1>2, RunnableAppended
  <1>5. \A s \in Slots : (TaskIn(s, i)' <=> TaskIn(s, i)) /\ (OneTask(s, i)' <=> OneTask(s, i))
    BY <1>1, TasksKept
  <1>a. Serving' => Owner(i)'
    BY <1>1, <1>2, <1>3, <1>4, <1>5 DEF Owner, Exchange, Pending, Serving
  <1>b. Exchange(i)'
    BY <1>1, <1>2, <1>3, <1>4, <1>5 DEF Exchange, Owner, Pending
  <1>c. Owed(i)'
    BY <1>1, <1>2, <1>3, <1>4, <1>5 DEF Owed, Exchange, Pending
  <1>d. phase' = "running" => Pending(i)'
    BY <1>1, <1>2, <1>3, <1>4, <1>5 DEF Pending, Exchange, Owner
  <1> QED  BY <1>a, <1>b, <1>c, <1>d DEF SessionCore

LEMMA HandleCompletionCore ==
    ASSUME Core, NEW j \in Sessions, HandleCompletion(j), NEW i \in Sessions
    PROVE  SessionCore(i)'
  <1>1. j \in jobs
    BY CompletionTaken
  <1> QED
    BY <1>1, CompleteTerminalCore, CompleteTokenCore, CompleteProgressCore
    DEF HandleCompletion

LEMMA DropSchedulerCore ==
    ASSUME Core, DropScheduler, NEW i \in Sessions
    PROVE  SessionCore(i)'
  <1>1. /\ TypeOK /\ Exchange(i) /\ Owed(i)
        /\ Serving => Owner(i)
        /\ phase = "running" => Pending(i)
        /\ SlotOf[i] \in Slots
    BY SlotOfAssumption DEF Core
  <1>2. UNCHANGED <<phase, jobs, holds, inFlight, cancelRequested, runnable, tasks, pc, chan>>
    BY DEF DropScheduler, schedVars, slotVars, clientVars
  <1>3. /\ Submitted(i)' <=> Submitted(i)
        /\ Answered(i)' <=> Answered(i)
        /\ Cancelling(i)' <=> Cancelling(i)
        /\ Completed(i)' <=> Completed(i)
        /\ OneDriving(i) => OneDriving(i)'
        /\ OneCompletion(i) => OneCompletion(i)'
    <2> DEFINE e == Command("Shutdown", AnySession)
    <2>1. e \in Events /\ e.type = "Shutdown" /\ events' = Append(events, e)
      BY CommandType, AnySessionType DEF Command, DropScheduler, SendEvent
    <2>2. e.type \notin Driving
      BY <2>1 DEF Driving
    <2> HIDE DEF e
    <2> QED  BY <1>1, <2>1, <2>2, EventSent
  <1>4. /\ TokenSent(i)' <=> TokenSent(i)
        /\ EndSent(i)' <=> EndSent(i)
        /\ OneToken(i)' <=> OneToken(i)
        /\ EndIsLast(i)' <=> EndIsLast(i)
    BY <1>2, ChanKept
  <1>5. (Queued(i)' <=> Queued(i)) /\ (OneEntry(i)' <=> OneEntry(i))
    BY <1>2, RunnableKept
  <1>6. \A s \in Slots : (TaskIn(s, i)' <=> TaskIn(s, i)) /\ (OneTask(s, i)' <=> OneTask(s, i))
    BY <1>2, TasksKept
  <1>a. Serving' => Owner(i)'
    BY <1>1, <1>2, <1>3, <1>4, <1>5, <1>6 DEF Owner, Exchange, Pending, Serving
  <1>b. Exchange(i)'
    BY <1>1, <1>2, <1>3, <1>4, <1>5, <1>6 DEF Exchange, Owner, Pending
  <1>c. Owed(i)'
    BY <1>1, <1>2, <1>3, <1>4, <1>5, <1>6 DEF Owed, Exchange, Pending
  <1>d. phase' = "running" => Pending(i)'
    BY <1>1, <1>2, <1>3, <1>4, <1>5, <1>6 DEF Pending, Exchange, Owner
  <1> QED  BY <1>a, <1>b, <1>c, <1>d DEF SessionCore

LEMMA HandleShutdownCore ==
    ASSUME Core, HandleShutdown, NEW i \in Sessions
    PROVE  SessionCore(i)'
  <1>1. /\ TypeOK /\ Exchange(i) /\ Owed(i)
        /\ Serving => Owner(i)
        /\ phase = "running" => Pending(i)
        /\ SlotOf[i] \in Slots
    BY SlotOfAssumption DEF Core
  <1>2. /\ UNCHANGED <<jobs, holds, inFlight, tasks, pc, chan>>
        /\ phase = "running" /\ phase' = "draining" /\ runnable' = <<>>
    BY DEF HandleShutdown, slotVars, clientVars
  <1>3. /\ Submitted(i)' <=> Submitted(i)
        /\ Answered(i)' <=> Answered(i)
        /\ Completed(i)' <=> Completed(i)
        /\ OneDriving(i)'
        /\ OneCompletion(i) => OneCompletion(i)'
    BY <1>1, AnySessionType, Taken DEF HandleShutdown, Exchange
  <1>4. /\ TokenSent(i)' <=> TokenSent(i)
        /\ EndSent(i)' <=> EndSent(i)
        /\ OneToken(i)' <=> OneToken(i)
        /\ EndIsLast(i)' <=> EndIsLast(i)
    BY <1>2, ChanKept
  <1>5. ~Queued(i)' /\ OneEntry(i)'
    BY <1>2, HasEmpty DEF Queued, OneEntry
  <1>6. \A s \in Slots : (TaskIn(s, i)' <=> TaskIn(s, i)) /\ (OneTask(s, i)' <=> OneTask(s, i))
    BY <1>2, TasksKept
  <1>a. Serving' => Owner(i)'
    BY <1>1, <1>2, <1>3, <1>4, <1>5, <1>6 DEF Owner, Exchange, Pending, Serving
  <1>b. Exchange(i)'
    BY <1>1, <1>2, <1>3, <1>4, <1>5, <1>6 DEF Exchange, Owner, Pending
  <1>c. Owed(i)'
    BY <1>1, <1>2, <1>3, <1>4, <1>5, <1>6 DEF Owed, Exchange, Pending
  <1>d. phase' = "running" => Pending(i)'
    BY <1>1, <1>2, <1>3, <1>4, <1>5, <1>6 DEF Pending, Exchange, Owner
  <1> QED  BY <1>a, <1>b, <1>c, <1>d DEF SessionCore

LEMMA DiscardCommandCore ==
    ASSUME Core, DiscardCommand, NEW i \in Sessions
    PROVE  SessionCore(i)'
  <1>1. /\ TypeOK /\ Exchange(i) /\ Owed(i)
        /\ Serving => Owner(i)
        /\ phase = "running" => Pending(i)
        /\ SlotOf[i] \in Slots
    BY SlotOfAssumption DEF Core
  <1>2. /\ UNCHANGED <<phase, jobs, holds, inFlight, cancelRequested, runnable, tasks, pc>>
        /\ phase = "draining" /\ events # <<>> /\ events' = Tail(events)
        /\ Head(events).type \in Commands /\ Head(events).type # "Completed"
    BY DEF DiscardCommand, schedVars, slotVars, Draining, Commands
  <1>3. Head(events).id \in Sessions
    <2>1. Head(events) \in Events
      BY <1>1, <1>2, TailFacts DEF TypeOK
    <2> QED  BY <2>1 DEF Events
  <1>4. LET refused == Head(events).type = "Submit" /\ Head(events).id = i IN
        /\ Submitted(i) <=> Submitted(i)' \/ refused
        /\ Answered(i)' => Answered(i)
        /\ Completed(i) <=> Completed(i)'
        /\ OneDriving(i)'
        /\ refused => ~Submitted(i)'
        /\ OneCompletion(i) => OneCompletion(i)'
    BY <1>1, <1>2, EventTaken DEF Exchange, Driving
  <1>5. LET hit == Head(events).type = "Submit" /\ Head(events).id = i /\ pc[i] # "dropped" IN
        /\ ~hit => /\ chan'[i] = chan[i]
                   /\ TokenSent(i)' <=> TokenSent(i)
                   /\ EndSent(i)' <=> EndSent(i)
                   /\ OneToken(i)' <=> OneToken(i)
                   /\ EndIsLast(i)' <=> EndIsLast(i)
        /\ hit => /\ chan'[i] # <<>>
                  /\ TokenSent(i)' <=> TokenSent(i)
                  /\ OneToken(i) => OneToken(i)'
                  /\ ~EndSent(i) => EndIsLast(i)'
    <2>1. CASE Head(events).type = "Submit"
      <3>1. Deliver(Head(events).id, "Failed")
        BY <2>1 DEF DiscardCommand
      <3> QED  BY <1>1, <1>3, <2>1, <3>1, Delivered DEF Messages
    <2>2. CASE Head(events).type # "Submit"
      <3>1. chan' = chan
        BY <2>2 DEF DiscardCommand
      <3> QED  BY <2>2, <3>1, ChanKept
    <2> QED  BY <2>1, <2>2
  <1>6. (Queued(i)' <=> Queued(i)) /\ (OneEntry(i)' <=> OneEntry(i))
    BY <1>2, RunnableKept
  <1>7. \A s \in Slots : (TaskIn(s, i)' <=> TaskIn(s, i)) /\ (OneTask(s, i)' <=> OneTask(s, i))
    BY <1>2, TasksKept
  <1>a. Serving' => Owner(i)'
    BY <1>1, <1>2, <1>4, <1>5, <1>6, <1>7 DEF Owner, Exchange, Pending, Serving
  <1>b. Exchange(i)'
    BY <1>1, <1>2, <1>4, <1>5, <1>6, <1>7 DEF Exchange, Owner, Pending
  <1>c. Owed(i)'
    BY <1>1, <1>2, <1>4, <1>5, <1>6, <1>7 DEF Owed, Exchange, Pending
  <1>d. phase' = "running" => Pending(i)'
    BY <1>1, <1>2, <1>4, <1>5, <1>6, <1>7 DEF Pending, Exchange, Owner
  <1> QED  BY <1>a, <1>b, <1>c, <1>d DEF SessionCore

LEMMA CancelAllJobsCore ==
    ASSUME Core, CancelAllJobs, NEW i \in Sessions
    PROVE  SessionCore(i)'
  <1>1. /\ TypeOK /\ Exchange(i) /\ Owed(i)
        /\ Serving => Owner(i)
        /\ phase = "running" => Pending(i)
        /\ SlotOf[i] \in Slots
    BY SlotOfAssumption DEF Core
  <1>2. /\ UNCHANGED <<events, runnable, pc>>
        /\ jobs' = {} /\ inFlight' = {} /\ phase' = "joining"
        /\ chan'[i] = IF i \in jobs /\ pc[i] # "dropped" THEN Append(chan[i], "Cancelled")
                                                         ELSE chan[i]
    BY DEF CancelAllJobs, ReceiverAlive
  <1>3. /\ Submitted(i)' <=> Submitted(i)
        /\ Answered(i)' <=> Answered(i)
        /\ Cancelling(i)' <=> Cancelling(i)
        /\ Completed(i)' <=> Completed(i)
        /\ OneDriving(i)' <=> OneDriving(i)
        /\ OneCompletion(i)' <=> OneCompletion(i)
    BY <1>2, EventsKept
  <1>4. LET hit == i \in jobs /\ pc[i] # "dropped" IN
        /\ ~hit => /\ chan'[i] = chan[i]
                   /\ TokenSent(i)' <=> TokenSent(i)
                   /\ EndSent(i)' <=> EndSent(i)
                   /\ OneToken(i)' <=> OneToken(i)
                   /\ EndIsLast(i)' <=> EndIsLast(i)
        /\ hit => /\ TokenSent(i)' <=> TokenSent(i)
                  /\ OneToken(i) => OneToken(i)'
                  /\ ~EndSent(i) => EndIsLast(i)'
    BY <1>1, <1>2, ChanKept, ChanAppended DEF Messages
  <1>5. (Queued(i)' <=> Queued(i)) /\ (OneEntry(i)' <=> OneEntry(i))
    BY <1>2, RunnableKept
  <1>a. Serving' => Owner(i)'
    BY <1>1, <1>2, <1>3, <1>4, <1>5 DEF Owner, Exchange, Pending, Serving
  <1>b. Exchange(i)'
    BY <1>1, <1>2, <1>3, <1>4, <1>5 DEF Exchange, Owner, Pending
  <1>c. Owed(i)'
    BY <1>1, <1>2, <1>3, <1>4, <1>5 DEF Owed, Exchange, Pending
  <1>d. phase' = "running" => Pending(i)'
    BY <1>1, <1>2, <1>3, <1>4, <1>5 DEF Pending, Exchange, Owner
  <1> QED  BY <1>a, <1>b, <1>c, <1>d DEF SessionCore

LEMMA JoinSlotsCore ==
    ASSUME Core, JoinSlots, NEW i \in Sessions
    PROVE  SessionCore(i)'
  <1>1. /\ TypeOK /\ Exchange(i) /\ Owed(i)
        /\ Serving => Owner(i)
        /\ phase = "running" => Pending(i)
        /\ SlotOf[i] \in Slots
    BY SlotOfAssumption DEF Core
  <1>2. /\ UNCHANGED <<jobs, inFlight, runnable, pc, chan>>
        /\ events' = <<>> /\ phase' = "stopped" /\ jobs = {}
    BY DEF JoinSlots, schedVars, clientVars, Core, WindingDown
  <1>3. ~Submitted(i)' /\ ~Answered(i)' /\ OneDriving(i)'
    BY <1>2, HasEmpty DEF Submitted, Answered, OneDriving
  <1>4. /\ TokenSent(i)' <=> TokenSent(i)
        /\ EndSent(i)' <=> EndSent(i)
        /\ OneToken(i)' <=> OneToken(i)
        /\ EndIsLast(i)' <=> EndIsLast(i)
    BY <1>2, ChanKept
  <1>5. (Queued(i)' <=> Queued(i)) /\ (OneEntry(i)' <=> OneEntry(i))
    BY <1>2, RunnableKept
  <1>a. Serving' => Owner(i)'
    BY <1>1, <1>2, <1>3, <1>4, <1>5 DEF Owner, Exchange, Pending, Serving
  <1>b. Exchange(i)'
    BY <1>1, <1>2, <1>3, <1>4, <1>5 DEF Exchange, Owner, Pending
  <1>c. Owed(i)'
    BY <1>1, <1>2, <1>3, <1>4, <1>5 DEF Owed, Exchange, Pending
  <1>d. phase' = "running" => Pending(i)'
    BY <1>1, <1>2, <1>3, <1>4, <1>5 DEF Pending, Exchange, Owner
  <1> QED  BY <1>a, <1>b, <1>c, <1>d DEF SessionCore

LEMMA CoreInit == Init => Core
  <1> SUFFICES ASSUME Init PROVE Core
    OBVIOUS
  <1>1. \A i \in Sessions : /\ Owner(i) /\ Exchange(i) /\ Owed(i) /\ Pending(i)
    <2> TAKE i \in Sessions
    <2>1. chan[i] = <<>> /\ pc[i] = "new" /\ \A s \in Slots : tasks[s] = <<>>
      BY DEF Init
    <2>2. /\ ~Submitted(i) /\ ~Answered(i) /\ ~Cancelling(i) /\ ~Completed(i)
          /\ OneDriving(i) /\ OneCompletion(i)
      BY HasEmpty DEF Init, Submitted, Answered, Cancelling, Completed, OneDriving, OneCompletion
    <2>3. ~Queued(i) /\ OneEntry(i)
      BY HasEmpty DEF Init, Queued, OneEntry
    <2>4. \A s \in Slots : ~TaskIn(s, i) /\ OneTask(s, i)
      BY <2>1, HasEmpty DEF TaskIn, OneTask
    <2>5. ~TokenSent(i) /\ ~EndSent(i) /\ OneToken(i) /\ EndIsLast(i)
      BY <2>1, ChanEmpty
    <2>6. SlotOf[i] \in Slots /\ jobs = {} /\ inFlight = {} /\ cancelRequested = {}
      BY SlotOfAssumption DEF Init
    <2> QED  BY <2>1, <2>2, <2>3, <2>4, <2>5, <2>6 DEF Owner, Exchange, Owed, Pending
  <1> QED  BY <1>1, TypeInit DEF Core

LEMMA CoreKept ==
    ASSUME Core, UNCHANGED vars, NEW i \in Sessions
    PROVE  SessionCore(i)'
  <1>1. UNCHANGED <<phase, events, jobs, holds, inFlight, cancelRequested, runnable, tasks, pc, chan>>
    BY DEF vars, schedVars, slotVars, clientVars
  <1>2. Serving' <=> Serving
    BY <1>1 DEF Serving
  <1>3. \A s \in Slots : (TaskIn(s, i)' <=> TaskIn(s, i)) /\ (OneTask(s, i)' <=> OneTask(s, i))
    BY <1>1, TasksKept
  <1>4. SlotOf[i] \in Slots
    BY SlotOfAssumption
  <1>5. /\ Submitted(i)' <=> Submitted(i)
        /\ Answered(i)' <=> Answered(i)
        /\ Cancelling(i)' <=> Cancelling(i)
        /\ Completed(i)' <=> Completed(i)
        /\ OneDriving(i)' <=> OneDriving(i)
        /\ OneCompletion(i)' <=> OneCompletion(i)
    BY <1>1, EventsKept
  <1>6. /\ TokenSent(i)' <=> TokenSent(i)
        /\ EndSent(i)' <=> EndSent(i)
        /\ OneToken(i)' <=> OneToken(i)
        /\ EndIsLast(i)' <=> EndIsLast(i)
    BY <1>1, ChanKept
  <1>7. (Queued(i)' <=> Queued(i)) /\ (OneEntry(i)' <=> OneEntry(i))
    BY <1>1, RunnableKept
  <1>a. Owner(i) => Owner(i)'
    BY <1>1, <1>3, <1>4, <1>5, <1>7 DEF Owner
  <1>b. Exchange(i) => Exchange(i)'
    BY <1>1, <1>5, <1>6, <1>7 DEF Exchange
  <1>c. Owed(i) => Owed(i)'
    BY <1>1, <1>5, <1>6, <1>7 DEF Owed
  <1>d. Pending(i) => Pending(i)'
    BY <1>1, <1>5, <1>6, <1>7 DEF Pending
  <1> QED  BY <1>1, <1>2, <1>a, <1>b, <1>c, <1>d DEF Core, SessionCore

LEMMA CoreStep ==
    ASSUME Core, [Next]_vars
    PROVE  Core'
  <1>1. TypeOK' /\ WindingDown'
    <2>1. CASE Next
      BY <2>1, TypeStep DEF Core
    <2>2. CASE UNCHANGED vars
      BY <2>2 DEF Core, vars, TypeOK, WindingDown, schedVars, slotVars, clientVars
    <2> QED  BY <2>1, <2>2
  <1>2. ASSUME NEW i \in Sessions  PROVE SessionCore(i)'
    <2>1. ASSUME NEW j \in Sessions, Client(j)  PROVE SessionCore(i)'
      BY <2>1, StartSessionCore, StepCore, FinishCore, ReceiveCore, DropCore DEF Client
    <2>2. ASSUME NEW s \in Slots, RunTask(s)  PROVE SessionCore(i)'
      BY <2>2, RunTaskCore
    <2>3. ASSUME NEW j \in Sessions, Handle(j)  PROVE SessionCore(i)'
      BY <2>3, HandleSubmitCore, HandleContinueCore, HandleStopCore, CancelNowCore,
         CancelLaterCore, HandleCompletionCore DEF Handle
    <2>4. CASE Dispatch \/ DispatchSpawnFails
      BY <2>4, DispatchCore, DispatchSpawnFailsCore
    <2>5. CASE HandleShutdown \/ DiscardCommand \/ CancelAllJobs \/ JoinSlots \/ DropScheduler
      BY <2>5, HandleShutdownCore, DiscardCommandCore, CancelAllJobsCore, JoinSlotsCore,
         DropSchedulerCore
    <2>6. CASE Terminated \/ UNCHANGED vars
      BY <2>6, CoreKept DEF Terminated
    <2> QED  BY <2>1, <2>2, <2>3, <2>4, <2>5, <2>6 DEF Next, SchedulerThread
  <1>3. /\ Serving' => \A i \in Sessions : Owner(i)'
        /\ \A i \in Sessions : Exchange(i)' /\ Owed(i)'
        /\ phase' = "running" => \A i \in Sessions : Pending(i)'
    BY <1>2 DEF SessionCore
  <1> QED  BY <1>1, <1>3 DEF Core

\* The invariant holds in every reachable state: however clients, workers and the
\* scheduler thread interleave, what each handler of run_scheduler assumes about the
\* session it acts for is true.
THEOREM CoreInvariant == Spec => []Core
  BY CoreInit, CoreStep, PTL DEF Spec

-----------------------------------------------------------------------------
(* The properties of Scheduler follow.                                     *)

\* The runnable queue as a set.
LEMMA QueuedIs ==
    ASSUME TypeOK, NEW i
    PROVE  i \in ToSet(runnable) <=> Queued(i)
  BY ToSetMember DEF TypeOK, Queued

\* Owner, for every session, is OneOwner.
LEMMA CoreOneOwner == Core => OneOwner
  <1> SUFFICES ASSUME Core, Serving PROVE
        /\ WorkIsOwned
        /\ WorkIsUnique
        /\ \A i \in inFlight : HasTask(i) \/ HasCompletion(i)
        /\ \A i \in jobs : i \in inFlight <=> holds[i] = "none"
        /\ \A k \in 1..Len(runnable) : runnable[k] \in jobs \ inFlight
        /\ \A k, l \in 1..Len(runnable) : runnable[k] = runnable[l] => k = l
    BY DEF OneOwner
  <1>1. TypeOK /\ (\A i \in Sessions : Owner(i)) /\ jobs \subseteq Sessions /\ inFlight \subseteq jobs
    BY DEF Core, TypeOK
  <1>2. ASSUME NEW s \in Slots, NEW k \in 1..Len(tasks[s])
        PROVE  tasks[s][k].id \in Sessions /\ \A i \in Sessions :
                 tasks[s][k] \in TasksOf(i) <=> tasks[s][k].id = i
    <2>1. tasks[s][k] \in Tasks
      BY <1>1 DEF TypeOK
    <2> QED  BY <2>1 DEF Tasks, TasksOf
  <1>3. ASSUME NEW k \in 1..Len(events)
        PROVE  events[k].id \in Sessions /\ \A i \in Sessions :
                 events[k] \in EventsOf({"Completed"}, i) <=> IsCompletion(k, i)
    <2>1. events[k] \in Events
      BY <1>1 DEF TypeOK
    <2> QED  BY <2>1, EventKind DEF Events, IsCompletion
  <1>4. ASSUME NEW i \in Sessions
        PROVE  /\ HasTask(i) <=> \E s \in Slots : TaskIn(s, i)
               /\ HasCompletion(i) <=> Completed(i)
    <2>1. HasTask(i) <=> \E s \in Slots : TaskIn(s, i)
      BY <1>2 DEF HasTask, TaskIn, Has
    <2>2. HasCompletion(i) <=> Completed(i)
      BY <1>3 DEF HasCompletion, Completed, Has
    <2> QED  BY <2>1, <2>2
  <1>5. WorkIsOwned
    <2>1. ASSUME NEW s \in Slots, NEW k \in 1..Len(tasks[s])
          PROVE  tasks[s][k].id \in inFlight /\ SlotOf[tasks[s][k].id] = s
      <3>1. tasks[s][k].id \in Sessions /\ TaskIn(s, tasks[s][k].id)
        BY <1>2 DEF TaskIn, Has
      <3> QED  BY <1>1, <3>1 DEF Owner
    <2>2. ASSUME NEW k \in 1..Len(events), events[k].type = "Completed"
          PROVE  events[k].id \in inFlight
      <3>1. events[k].id \in Sessions /\ IsCompletion(k, events[k].id)
        BY <1>3, <2>2 DEF IsCompletion
      <3>2. Completed(events[k].id)
        BY <1>3, <3>1 DEF Completed, Has
      <3> QED  BY <1>1, <3>1, <3>2 DEF Owner
    <2> QED  BY <2>1, <2>2 DEF WorkIsOwned
  <1>6. WorkIsUnique
    <2>1. ASSUME NEW s \in Slots, NEW k \in 1..Len(tasks[s]), NEW l \in 1..Len(tasks[s]),
                 tasks[s][k].id = tasks[s][l].id
          PROVE  k = l
      <3>1. OneTask(s, tasks[s][k].id)
        BY <1>1, <1>2 DEF Owner
      <3>2. tasks[s][k] \in TasksOf(tasks[s][k].id) /\ tasks[s][l] \in TasksOf(tasks[s][k].id)
        BY <1>2, <2>1
      <3> QED  BY <3>1, <3>2 DEF OneTask, AtMostOne
    <2>2. ASSUME NEW i \in Sessions, NEW k \in 1..Len(events), NEW l \in 1..Len(events),
                 IsCompletion(k, i), IsCompletion(l, i)
          PROVE  k = l
      <3>1. OneCompletion(i)
        BY <1>1 DEF Owner
      <3> QED  BY <1>3, <2>2, <3>1 DEF OneCompletion, AtMostOne
    <2>3. ASSUME NEW i \in Sessions  PROVE ~(HasTask(i) /\ HasCompletion(i))
      <3>1. Owner(i)
        BY <1>1
      <3> QED  BY <1>4, <3>1 DEF Owner
    <2> QED  BY <2>1, <2>2, <2>3 DEF WorkIsUnique
  <1>7. ASSUME NEW i \in inFlight  PROVE HasTask(i) \/ HasCompletion(i)
    <2>1. i \in Sessions /\ Owner(i) /\ SlotOf[i] \in Slots
      BY <1>1, SlotOfAssumption
    <2> QED  BY <1>4, <2>1 DEF Owner
  <1>8. ASSUME NEW i \in jobs  PROVE i \in inFlight <=> holds[i] = "none"
    BY <1>1 DEF Owner
  <1>9. ASSUME NEW k \in 1..Len(runnable)  PROVE runnable[k] \in jobs \ inFlight
    <2>1. runnable[k] \in Sessions /\ Queued(runnable[k])
      BY <1>1 DEF TypeOK, Queued, Has
    <2> QED  BY <1>1, <2>1 DEF Owner
  <1>10. ASSUME NEW k \in 1..Len(runnable), NEW l \in 1..Len(runnable), runnable[k] = runnable[l]
         PROVE  k = l
    <2>1. OneEntry(runnable[k])
      BY <1>1 DEF TypeOK, Owner
    <2> QED  BY <1>10, <2>1 DEF OneEntry, AtMostOne
  <1> QED  BY <1>5, <1>6, <1>7, <1>8, <1>9, <1>10

LEMMA CoreNoLostWakeup == Core => NoLostWakeup
  <1> SUFFICES ASSUME Core, NEW i \in Sessions, pc[i] \in {"receiving", "finishing"}
               PROVE  \/ chan[i] # <<>>
                      \/ ~SenderAlive(i)
                      \/ i \in ToSet(runnable)
                      \/ i \in inFlight
                      \/ \E k \in 1..Len(events) : events[k].id = i /\ events[k].type \in Commands
                      \/ phase = "draining"
    BY DEF NoLostWakeup
  <1>1. TypeOK /\ Owed(i)
    BY DEF Core
  <1>2. (SenderAlive(i) <=> i \in jobs \/ Submitted(i)) /\ (i \in ToSet(runnable) <=> Queued(i))
    BY <1>1, SenderAliveIs, QueuedIs
  <1>3. Submitted(i) \/ Answered(i) \/ Cancelling(i) =>
          \E k \in 1..Len(events) : events[k].id = i /\ events[k].type \in Commands
    BY DEF Submitted, Answered, Cancelling, Has, EventsOf, Commands
  <1> QED  BY <1>1, <1>2, <1>3 DEF Owed

LEMMA CoreBackpressure == Core => Backpressure
  <1> SUFFICES ASSUME Core, NEW i \in Sessions
               PROVE  /\ Cardinality({k \in 1..Len(chan[i]) : chan[i][k] = "Token"}) <= 1
                      /\ (pc[i] = "token" \/ "Token" \in ToSet(chan[i])) =>
                            i \notin inFlight /\ i \notin ToSet(runnable)
    BY DEF Backpressure
  <1>1. TypeOK /\ Exchange(i) /\ chan[i] \in Seq(Messages)
    BY DEF Core, TypeOK
  <1>2. Cardinality({k \in 1..Len(chan[i]) : chan[i][k] = "Token"}) <= 1
    <2> DEFINE T == {k \in 1..Len(chan[i]) : chan[i][k] = "Token"}
    <2>1. \A k, l \in T : k = l
      BY <1>1 DEF Exchange, OneToken, AtMostOne
    <2> HIDE DEF T
    <2>2. CASE T = {}
      <3>1. Cardinality(T) = 0
        BY <2>2, FS_EmptySet
      <3> QED  BY <3>1 DEF T
    <2>3. CASE T # {}
      <3>1. PICK k : k \in T
        BY <2>3
      <3>2. T = {k}
        BY <2>1, <3>1
      <3>3. Cardinality(T) = 1
        BY <3>2, FS_Singleton
      <3> QED  BY <3>3 DEF T
    <2> QED  BY <2>2, <2>3
  <1>3. ("Token" \in ToSet(chan[i]) <=> TokenSent(i)) /\ (i \in ToSet(runnable) <=> Queued(i))
    BY <1>1, ToSetMember, QueuedIs DEF TokenSent
  <1> QED  BY <1>1, <1>2, <1>3 DEF Exchange

LEMMA CoreTerminalIsLast == Core => TerminalIsLast
  <1> SUFFICES ASSUME Core, NEW i \in Sessions, NEW k \in 1..Len(chan[i]), chan[i][k] # "Token"
               PROVE  k = Len(chan[i]) /\ ~SenderAlive(i)
    BY DEF TerminalIsLast
  <1>1. TypeOK /\ Exchange(i) /\ chan[i] \in Seq(Messages)
    BY DEF Core, TypeOK
  <1>2. chan[i][k] \in Terminals
    BY <1>1 DEF Terminals
  <1>3. EndSent(i) /\ k = Len(chan[i])
    BY <1>1, <1>2 DEF Exchange, EndIsLast, EndSent, Has
  <1> QED  BY <1>1, <1>3, SenderAliveIs DEF Exchange

\* The request or engine session of a job is always in exactly one place, so neither
\* expect in dispatch_one can panic and no session is run twice or lost.
THEOREM OneOwnerHolds == Spec => []OneOwner
  BY CoreInvariant, CoreOneOwner, PTL

\* A request thread blocked in recv is always owed a message or an error.
THEOREM NoLostWakeupHolds == Spec => []NoLostWakeup
  BY CoreInvariant, CoreNoLostWakeup, PTL

\* A session with an unacknowledged token neither runs nor is queued to run, and its
\* response channel never holds a second one.
THEOREM BackpressureHolds == Spec => []Backpressure
  BY CoreInvariant, CoreBackpressure, PTL

\* A session is told its end once: send_terminal is the last send on its channel.
THEOREM TerminalIsLastHolds == Spec => []TerminalIsLast
  BY CoreInvariant, CoreTerminalIsLast, PTL

-----------------------------------------------------------------------------
(* Workers that are retired are idle.                                      *)

LEMMA RetiredStep ==
    ASSUME Core, RetiredWorkersAreIdle, [Next]_vars
    PROVE  RetiredWorkersAreIdle'
  <1>0. TypeOK
    BY DEF Core
  <1>1. ASSUME NEW i \in Sessions, Client(i)  PROVE RetiredWorkersAreIdle'
    BY <1>1 DEF RetiredWorkersAreIdle, Client, StartSession, Step, Finish, Receive, Drop, slotVars
  <1>2. ASSUME NEW r \in Slots, RunTask(r)  PROVE RetiredWorkersAreIdle'
    <2>1. \A s \in Slots : tasks'[s] # <<>> => tasks[s] # <<>>
      BY <1>0, <1>2 DEF RunTask, TypeOK
    <2> QED  BY <1>2, <2>1 DEF RetiredWorkersAreIdle, RunTask
  <1>3. ASSUME NEW i, NEW a, SendTask(i, a)  PROVE RetiredWorkersAreIdle'
    BY <1>0, <1>3 DEF SendTask, RetiredWorkersAreIdle, TypeOK
  <1>4. CASE Dispatch
    BY <1>3, <1>4 DEF Dispatch
  <1>5. CASE DispatchSpawnFails
    BY <1>5 DEF DispatchSpawnFails, slotVars, RetiredWorkersAreIdle
  <1>6. ASSUME NEW i \in Sessions, HandleSubmit(i) \/ HandleContinue(i) \/ HandleCancel(i)
        PROVE  RetiredWorkersAreIdle'
    BY <1>6 DEF HandleSubmit, HandleContinue, HandleCancel, slotVars, RetiredWorkersAreIdle
  <1>7. ASSUME NEW i \in Sessions, HandleStop(i)  PROVE RetiredWorkersAreIdle'
    BY <1>3, <1>7 DEF HandleStop, RetiredWorkersAreIdle
  <1>8. ASSUME NEW i \in Sessions, HandleCompletion(i)  PROVE RetiredWorkersAreIdle'
    <2>1. i \in jobs /\ Serving /\ ~TaskIn(SlotOf[i], i) /\ tasks' = tasks
      BY <1>8, CompletionTaken
    <2>2. ASSUME NEW s \in Slots, tasks[s] # <<>>, s = SlotOf[i]
          PROVE  \E j \in jobs \ {i} : SlotOf[j] = SlotOf[i]
      <3> DEFINE t == Head(tasks[s])
      <3>1. tasks[s] \in Seq(Tasks) /\ t \in Tasks /\ t = tasks[s][1] /\ 1 \in 1..Len(tasks[s])
        BY <1>0, <2>2, TailFacts DEF TypeOK
      <3> HIDE DEF t
      <3>2. t.id \in Sessions /\ t \in TasksOf(t.id)
        BY <3>1 DEF Tasks, TasksOf
      <3>3. TaskIn(s, t.id)
        BY <3>1, <3>2 DEF TaskIn, Has
      <3>4. t.id \in inFlight /\ SlotOf[t.id] = s
        BY <2>1, <3>2, <3>3 DEF Core, Owner
      <3>5. t.id \in jobs /\ t.id # i
        BY <1>0, <2>1, <2>2, <3>3, <3>4 DEF TypeOK
      <3> QED  BY <2>2, <3>4, <3>5
    <2>3. slots' = slots \/ (slots' = slots \ {SlotOf[i]} /\ ~\E j \in jobs \ {i} : SlotOf[j] = SlotOf[i])
      BY <1>8, <2>1 DEF HandleCompletion, CompleteTerminal, CompleteToken, CompleteProgress,
                        RetireSlotIfIdle
    <2> QED  BY <2>1, <2>2, <2>3 DEF RetiredWorkersAreIdle
  <1>9. CASE HandleShutdown \/ DiscardCommand \/ CancelAllJobs \/ DropScheduler
    BY <1>9 DEF HandleShutdown, DiscardCommand, CancelAllJobs, DropScheduler, slotVars,
                RetiredWorkersAreIdle
  <1>10. CASE JoinSlots
    BY <1>10 DEF JoinSlots, RetiredWorkersAreIdle
  <1>11. CASE Terminated \/ UNCHANGED vars
    BY <1>11 DEF Terminated, vars, slotVars, RetiredWorkersAreIdle
  <1> QED  BY <1>1, <1>2, <1>4, <1>5, <1>6, <1>7, <1>8, <1>9, <1>10, <1>11
           DEF Next, SchedulerThread, Handle

\* retire_slot_if_idle only joins a worker whose task channel is empty.
THEOREM RetiredWorkersAreIdleHolds == Spec => []RetiredWorkersAreIdle
  <1>1. Init => RetiredWorkersAreIdle
    BY DEF Init, RetiredWorkersAreIdle
  <1> QED  BY <1>1, CoreInvariant, RetiredStep, PTL DEF Spec

-----------------------------------------------------------------------------
(* The counter of the sessions that wait for their consumer.               *)

Waits(i) == i \in jobs /\ holds[i] = "session" /\ ~Queued(i)
Waiting == {i \in Sessions : Waits(i)}

\* The counter in terms of Waits.
LEMMA WaitingIs ==
    TypeOK => (WaitingIsExact <=> (phase = "running" => waiting = Cardinality(Waiting)))
  <1> SUFFICES ASSUME TypeOK
               PROVE  {i \in jobs : holds[i] = "session" /\ i \notin ToSet(runnable)} = Waiting
    BY DEF WaitingIsExact
  <1> QED  BY QueuedIs DEF Waiting, Waits, TypeOK

LEMMA WaitingFinite == IsFiniteSet(Waiting)
  BY SessionsAssumption, FS_Subset DEF Waiting

\* A step of the running loop keeps the counter exact when it moves it by what it
\* adds to or takes from the set.
LEMMA WaitingMoves ==
    ASSUME TypeOK, TypeOK', WaitingIsExact, phase = "running", NEW j \in Sessions,
           \A i \in Sessions : i # j => (Waits(i)' <=> Waits(i)),
           \/ (Waits(j)' <=> Waits(j)) /\ waiting' = waiting
           \/ Waits(j) /\ ~Waits(j)' /\ waiting' = waiting - 1
           \/ ~Waits(j) /\ Waits(j)' /\ waiting' = waiting + 1
    PROVE  WaitingIsExact'
  <1>1. waiting = Cardinality(Waiting)
    BY WaitingIs
  <1>2. (TypeOK => (WaitingIsExact <=> (phase = "running" => waiting = Cardinality(Waiting))))'
    BY WaitingIs, PTL
  <1>3. waiting' = Cardinality(Waiting')
    <2>1. CASE (Waits(j)' <=> Waits(j)) /\ waiting' = waiting
      <3>1. Waiting' = Waiting
        BY <2>1 DEF Waiting
      <3> QED  BY <1>1, <2>1, <3>1
    <2>2. CASE Waits(j) /\ ~Waits(j)' /\ waiting' = waiting - 1
      <3>1. Waiting' = Waiting \ {j} /\ j \in Waiting
        BY <2>2 DEF Waiting
      <3> QED  BY <1>1, <2>2, <3>1, WaitingFinite, FS_RemoveElement
    <2>3. CASE ~Waits(j) /\ Waits(j)' /\ waiting' = waiting + 1
      <3>1. Waiting' = Waiting \cup {j} /\ j \notin Waiting
        BY <2>3 DEF Waiting
      <3> QED  BY <1>1, <2>3, <3>1, WaitingFinite, FS_AddElement
    <2> QED  BY <2>1, <2>2, <2>3
  <1> QED  BY <1>2, <1>3

LEMMA WaitingHandle ==
    ASSUME Core, TypeOK', WaitingIsExact, NEW j \in Sessions, Handle(j), phase = "running"
    PROVE  WaitingIsExact'
  <1>0. /\ TypeOK /\ Owner(j) /\ Exchange(j) /\ Pending(j) /\ holds \in [Sessions -> {"request", "session", "none"}]
        /\ \A i \in Sessions : OneEntry(i)
    BY DEF Core, Serving, TypeOK, Owner
  <1> SUFFICES
        /\ \A i \in Sessions : i # j => (Waits(i)' <=> Waits(i))
        /\ \/ (Waits(j)' <=> Waits(j)) /\ waiting' = waiting
           \/ Waits(j) /\ ~Waits(j)' /\ waiting' = waiting - 1
           \/ ~Waits(j) /\ Waits(j)' /\ waiting' = waiting + 1
    BY <1>0, WaitingMoves
  <1>1. CASE HandleSubmit(j)
    <2>1. \A i \in Sessions : Queued(i)' <=> Queued(i) \/ i = j
      BY <1>0, <1>1, RunnableAppended DEF HandleSubmit
    <2>2. Submitted(j)
      BY <1>0, <1>1, Taken DEF HandleSubmit, Exchange
    <2> QED  BY <1>0, <1>1, <2>1, <2>2 DEF HandleSubmit, Waits, Exchange
  <1>2. CASE HandleContinue(j)
    <2>1. Answered(j)
      BY <1>0, <1>2, Taken DEF HandleContinue, Exchange
    <2>2. j \in jobs /\ holds[j] = "session" /\ ~Queued(j)
      BY <1>0, <2>1 DEF Pending
    <2>3. runnable' = Append(runnable, j) /\ UNCHANGED <<jobs, holds>> /\ waiting' = waiting - 1
      BY <1>2, <2>2 DEF HandleContinue
    <2>4. \A i \in Sessions : Queued(i)' <=> Queued(i) \/ i = j
      BY <1>0, <2>3, RunnableAppended
    <2> QED  BY <2>2, <2>3, <2>4 DEF Waits
  <1>3. CASE HandleStop(j)
    <2>1. Answered(j)
      BY <1>0, <1>3, Taken DEF HandleStop, Exchange
    <2>2. j \in jobs /\ holds[j] = "session" /\ ~Queued(j)
      BY <1>0, <2>1 DEF Pending
    <2>3. /\ runnable' = Without(runnable, j) /\ jobs' = jobs /\ waiting' = waiting - 1
          /\ holds' = [holds EXCEPT ![j] = "none"]
      BY <1>3, <2>2 DEF HandleStop, SendTask
    <2>4. \A i \in Sessions : Queued(i)' <=> Queued(i) /\ i # j
      BY <1>0, <2>3, RunnableWithout
    <2> QED  BY <1>0, <2>2, <2>3, <2>4 DEF Waits
  <1>4. CASE HandleCancel(j)
    <2>1. runnable' = Without(runnable, j)
      BY <1>4 DEF HandleCancel
    <2>2. \A i \in Sessions : Queued(i)' <=> Queued(i) /\ i # j
      BY <1>0, <2>1, RunnableWithout
    <2>3. CASE j \in jobs /\ j \notin inFlight
      <3>1. /\ jobs' = jobs \ {j} /\ holds' = [holds EXCEPT ![j] = "none"]
            /\ waiting' = IF holds[j] = "session" /\ ~Queued(j) THEN waiting - 1 ELSE waiting
        BY <1>0, <1>4, <2>3, QueuedIs DEF HandleCancel, RemoveJob
      <3> QED  BY <1>0, <2>2, <2>3, <3>1 DEF Waits
    <2>4. CASE ~(j \in jobs /\ j \notin inFlight)
      <3>1. UNCHANGED <<jobs, holds, waiting>>
        BY <1>4, <2>4 DEF HandleCancel
      <3> QED  BY <1>0, <2>2, <2>4, <3>1 DEF Waits, Owner
    <2> QED  BY <2>3, <2>4
  <1>5. CASE HandleCompletion(j)
    <2> DEFINE r == Head(events).result
    <2>1. j \in jobs /\ j \in inFlight
      BY <1>5, CompletionTaken
    <2>2. CompleteTerminal(j, r) \/ CompleteToken(j, r) \/ CompleteProgress(j, r)
      BY <1>5, <2>1 DEF HandleCompletion
    <2> HIDE DEF r
    <2>3. holds[j] = "none" /\ ~Queued(j)
      BY <1>0, <2>1 DEF Owner
    <2>4. CASE CompleteTerminal(j, r)
      <3>1. /\ jobs' = jobs \ {j} /\ holds' = [holds EXCEPT ![j] = "none"]
            /\ runnable' = runnable /\ waiting' = waiting
        BY <2>4 DEF CompleteTerminal, RemoveJob
      <3>2. \A i \in Sessions : Queued(i)' <=> Queued(i)
        BY <3>1, RunnableKept
      <3> QED  BY <1>0, <2>3, <3>1, <3>2 DEF Waits
    <2>5. CASE CompleteToken(j, r)
      <3>1. /\ jobs' = jobs /\ holds' = [holds EXCEPT ![j] = "session"]
            /\ runnable' = runnable /\ waiting' = waiting + 1
        BY <2>5 DEF CompleteToken
      <3>2. \A i \in Sessions : Queued(i)' <=> Queued(i)
        BY <3>1, RunnableKept
      <3> QED  BY <1>0, <2>1, <2>3, <3>1, <3>2 DEF Waits
    <2>6. CASE CompleteProgress(j, r)
      <3>1. /\ jobs' = jobs /\ holds' = [holds EXCEPT ![j] = "session"]
            /\ runnable' = Append(runnable, j) /\ waiting' = waiting
        BY <2>6 DEF CompleteProgress
      <3>2. \A i \in Sessions : Queued(i)' <=> Queued(i) \/ i = j
        BY <1>0, <3>1, RunnableAppended
      <3> QED  BY <1>0, <2>3, <3>1, <3>2 DEF Waits
    <2> QED  BY <2>2, <2>4, <2>5, <2>6
  <1> QED  BY <1>1, <1>2, <1>3, <1>4, <1>5 DEF Handle

LEMMA WaitingDispatch ==
    ASSUME Core, TypeOK', WaitingIsExact, Dispatch \/ DispatchSpawnFails
    PROVE  WaitingIsExact'
  <1>0. /\ phase = "running" /\ TypeOK /\ waiting' = waiting
        /\ holds \in [Sessions -> {"request", "session", "none"}]
        /\ \A i \in Sessions : OneEntry(i)
    BY DEF Core, Serving, TypeOK, Owner, Dispatch, DispatchSpawnFails
  <1>1. PICK k \in 1..Len(runnable) :
          /\ Available(runnable[k]) /\ runnable' = RemoveAt(runnable, k)
          /\ jobs' = jobs \/ jobs' = jobs \ {runnable[k]}
          /\ holds' = [holds EXCEPT ![runnable[k]] = "none"]
    BY DEF Dispatch, DispatchSpawnFails, IsFlowHead, SendTask, RemoveJob
  <1>2. runnable[k] \in Sessions
    BY <1>0 DEF TypeOK
  <1>3. \A i \in Sessions : /\ Queued(i)' <=> Queued(i) /\ i # runnable[k]
                            /\ i = runnable[k] => Queued(i)
    BY <1>0, <1>1, RunnableTaken
  <1>4. \A i \in Sessions : Waits(i)' <=> Waits(i)
    BY <1>0, <1>1, <1>2, <1>3 DEF Waits
  <1> QED  BY <1>0, <1>2, <1>4, WaitingMoves

LEMMA WaitingStep ==
    ASSUME Core, Core', WaitingIsExact, [Next]_vars
    PROVE  WaitingIsExact'
  <1>0. TypeOK /\ TypeOK'
    BY DEF Core
  <1>1. CASE phase' # "running"
    BY <1>1 DEF WaitingIsExact
  <1>2. CASE UNCHANGED <<phase, jobs, holds, runnable, waiting>>
    BY <1>2 DEF WaitingIsExact
  <1>3. ASSUME NEW j \in Sessions, Client(j)  PROVE UNCHANGED <<phase, jobs, holds, runnable, waiting>>
    BY <1>3 DEF Client, StartSession, Step, Finish, Receive, Drop, schedVars
  <1>4. ASSUME NEW s \in Slots, RunTask(s)  PROVE UNCHANGED <<phase, jobs, holds, runnable, waiting>>
    BY <1>4 DEF RunTask, schedVars
  <1>5. ASSUME NEW j \in Sessions, Handle(j), phase' = "running"  PROVE WaitingIsExact'
    <2>1. phase = "running"
      BY <1>5 DEF Handle, HandleSubmit, HandleContinue, HandleStop, HandleCancel, HandleCompletion
    <2> QED  BY <1>0, <1>5, <2>1, WaitingHandle
  <1>6. CASE Dispatch \/ DispatchSpawnFails
    BY <1>0, <1>6, WaitingDispatch
  <1>7. CASE HandleShutdown \/ CancelAllJobs \/ JoinSlots
    BY <1>1, <1>7 DEF HandleShutdown, CancelAllJobs, JoinSlots
  <1>8. CASE DiscardCommand \/ DropScheduler \/ Terminated \/ UNCHANGED vars
    BY <1>2, <1>8 DEF DiscardCommand, DropScheduler, Terminated, vars, schedVars
  <1> QED  BY <1>1, <1>2, <1>3, <1>4, <1>5, <1>6, <1>7, <1>8 DEF Next, SchedulerThread

\* While the loop serves, the waiting counter is the number of started jobs that are
\* neither queued nor in flight: no handler moves it for a job it does not concern.
THEOREM WaitingIsExactHolds == Spec => []WaitingIsExact
  <1>1. Init => WaitingIsExact
    <2> SUFFICES ASSUME Init
                 PROVE  {i \in jobs : holds[i] = "session" /\ i \notin ToSet(runnable)} = {}
      BY FS_EmptySet DEF Init, WaitingIsExact
    <2> QED  BY DEF Init
  <1>2. Core /\ Core' /\ WaitingIsExact /\ [Next]_vars => WaitingIsExact'
    BY WaitingStep
  <1> QED  BY <1>1, <1>2, CoreInvariant, PTL DEF Spec

-----------------------------------------------------------------------------
(* A cancellation that was recorded is what the client is told.            *)

LastSaysCancelled(i) ==
    Len(chan'[i]) > Len(chan[i]) => chan'[i][Len(chan'[i])] = "Cancelled"

\* Nothing is added.
LEMMA ChanQuiet ==
    ASSUME TypeOK, NEW i \in Sessions, chan'[i] \in {chan[i], <<>>}
    PROVE  LastSaysCancelled(i)
  <1>1. Len(chan[i]) \in Nat
    BY DEF TypeOK
  <1> QED  BY <1>1 DEF LastSaysCancelled

\* A cancellation is added.
LEMMA ChanSaysCancelled ==
    ASSUME TypeOK, NEW i \in Sessions, chan'[i] = Append(chan[i], "Cancelled")
    PROVE  LastSaysCancelled(i)
  <1>1. chan[i] \in Seq(Messages) /\ "Cancelled" \in Messages
    BY DEF TypeOK, Messages
  <1> QED  BY <1>1, AppendFacts DEF LastSaysCancelled

LEMMA DeliverQuiet ==
    ASSUME TypeOK, NEW i \in Sessions, NEW j \in Sessions, NEW m, Deliver(j, m),
           i # j \/ m = "Cancelled"
    PROVE  LastSaysCancelled(i)
  <1>1. chan'[i] = chan[i] \/ (i = j /\ chan'[i] = Append(chan[i], m))
    BY DEF Deliver, TypeOK
  <1> QED  BY <1>1, ChanQuiet, ChanSaysCancelled

LEMMA CancelWinsStep ==
    ASSUME Core, [Next]_vars, NEW i \in cancelRequested
    PROVE  LastSaysCancelled(i)
  <1>0. TypeOK /\ i \in jobs /\ i \in Sessions /\ (phase = "running" => i \in inFlight)
    BY DEF Core, TypeOK, Pending
  <1>1. ASSUME NEW j \in Sessions, Client(j)  PROVE LastSaysCancelled(i)
    <2>1. CASE StartSession(j) \/ Step(j) \/ Finish(j)
      BY <1>0, <2>1, ChanQuiet DEF StartSession, Step, Finish
    <2>2. CASE Receive(j)
      <3>1. chan'[i] = chan[i] \/ (chan[i] # <<>> /\ chan'[i] = Tail(chan[i]))
        BY <1>0, <2>2 DEF Receive, TypeOK
      <3>2. CASE chan[i] # <<>> /\ chan'[i] = Tail(chan[i])
        <4>1. chan[i] \in Seq(Messages)
          BY <1>0 DEF TypeOK
        <4>2. Len(chan[i]) \in Nat /\ Len(chan'[i]) = Len(chan[i]) - 1
          BY <3>2, <4>1, TailFacts
        <4> QED  BY <4>2 DEF LastSaysCancelled
      <3> QED  BY <1>0, <3>1, <3>2, ChanQuiet
    <2>3. CASE Drop(j)
      <3>1. chan'[i] \in {chan[i], <<>>}
        BY <1>0, <2>3 DEF Drop, TypeOK
      <3> QED  BY <1>0, <3>1, ChanQuiet
    <2> QED  BY <1>1, <2>1, <2>2, <2>3 DEF Client
  <1>2. ASSUME NEW s \in Slots, RunTask(s)  PROVE LastSaysCancelled(i)
    BY <1>0, <1>2, ChanQuiet DEF RunTask, clientVars
  <1>3. CASE Dispatch
    BY <1>0, <1>3, ChanQuiet DEF Dispatch, clientVars
  <1>4. CASE DispatchSpawnFails
    <2>1. PICK k \in 1..Len(runnable) : Available(runnable[k]) /\ Deliver(runnable[k], "Failed")
      BY <1>4 DEF DispatchSpawnFails, IsFlowHead, RemoveJob
    <2>2. runnable[k] \in Sessions /\ i # runnable[k]
      BY <1>0, <1>4, <2>1 DEF Available, DispatchSpawnFails, TypeOK
    <2> QED  BY <1>0, <2>1, <2>2, DeliverQuiet
  <1>5. ASSUME NEW j \in Sessions, HandleSubmit(j) \/ HandleContinue(j) \/ HandleStop(j)
        PROVE  LastSaysCancelled(i)
    BY <1>0, <1>5, ChanQuiet DEF HandleSubmit, HandleContinue, HandleStop, clientVars
  <1>6. ASSUME NEW j \in Sessions, HandleCancel(j)  PROVE LastSaysCancelled(i)
    <2>1. chan' = chan \/ Deliver(j, "Cancelled")
      BY <1>6 DEF HandleCancel, RemoveJob
    <2> QED  BY <1>0, <2>1, ChanQuiet, DeliverQuiet
  <1>7. ASSUME NEW j \in Sessions, HandleCompletion(j)  PROVE LastSaysCancelled(i)
    <2> DEFINE r == Head(events).result
    <2>1. CompleteTerminal(j, r) \/ CompleteToken(j, r) \/ CompleteProgress(j, r)
      BY <1>7, CompletionTaken DEF HandleCompletion
    <2> HIDE DEF r
    <2>2. CASE CompleteTerminal(j, r)
      <3>1. Deliver(j, Terminal(j, r)) /\ (i = j => Terminal(j, r) = "Cancelled")
        BY <2>2 DEF CompleteTerminal, RemoveJob, Terminal
      <3> QED  BY <1>0, <3>1, DeliverQuiet
    <2>3. CASE CompleteToken(j, r)
      <3>1. Deliver(j, "Token") /\ i # j
        BY <2>3 DEF CompleteToken, CompletionEnds
      <3> QED  BY <1>0, <3>1, DeliverQuiet
    <2>4. CASE CompleteProgress(j, r)
      BY <1>0, <2>4, ChanQuiet DEF CompleteProgress
    <2> QED  BY <2>1, <2>2, <2>3, <2>4
  <1>8. CASE HandleShutdown \/ JoinSlots \/ DropScheduler \/ Terminated \/ UNCHANGED vars
    BY <1>0, <1>8, ChanQuiet
    DEF HandleShutdown, JoinSlots, DropScheduler, Terminated, vars, clientVars
  <1>9. CASE DiscardCommand
    <2>1. CASE Head(events).type = "Submit"
      <3> DEFINE j == Head(events).id
      <3>1. events \in Seq(Events) /\ events # <<>> /\ Head(events) \in Events /\ Deliver(j, "Failed")
        BY <1>0, <1>9, <2>1, TailFacts DEF DiscardCommand, TypeOK
      <3>2. j \in Sessions /\ Head(events) \in EventsOf({"Submit"}, j)
        BY <2>1, <3>1, EventKind DEF Events
      <3> HIDE DEF j
      <3>3. Submitted(j)
        BY <3>1, <3>2, HasTail DEF Submitted
      <3>4. i # j
        BY <1>0, <3>2, <3>3 DEF Core, Exchange
      <3> QED  BY <1>0, <3>1, <3>2, <3>4, DeliverQuiet
    <2>2. CASE Head(events).type # "Submit"
      BY <1>0, <1>9, <2>2, ChanQuiet DEF DiscardCommand
    <2> QED  BY <2>1, <2>2
  <1>10. CASE CancelAllJobs
    <2>1. chan'[i] = chan[i] \/ chan'[i] = Append(chan[i], "Cancelled")
      BY <1>0, <1>10 DEF CancelAllJobs
    <2> QED  BY <1>0, <2>1, ChanQuiet, ChanSaysCancelled
  <1> QED  BY <1>1, <1>2, <1>3, <1>4, <1>5, <1>6, <1>7, <1>8, <1>9, <1>10
           DEF Next, SchedulerThread, Handle

\* A job marked cancel_requested is never reported as anything but cancelled.
THEOREM CancelWinsHolds == Spec => CancelWins
  <1>1. ASSUME Core, [Next]_vars
        PROVE  [\A i \in cancelRequested :
                  Len(chan'[i]) > Len(chan[i]) => chan'[i][Len(chan'[i])] = "Cancelled"]_vars
    BY <1>1, CancelWinsStep DEF LastSaysCancelled
  <1> QED  BY <1>1, CoreInvariant, PTL DEF Spec, CancelWins

=============================================================================
