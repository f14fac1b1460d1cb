---------------------------- MODULE ServingProofs ----------------------------
(***************************************************************************)
(* What serves a request, for any connections and limits of the gate, any  *)
(* jobs, flows and classes of the policy and any requests on one executor: *)
(* permits balance, a deficit that no job answers for is one a failed      *)
(* spawn left, and no stop is lost; and for any text and any channel of a  *)
(* stream: its rows rebuild it.                                            *)
(***************************************************************************)
EXTENDS MCServing, Sequences, Sums

-----------------------------------------------------------------------------
(* Stops.  The invariant follows the signal: from the moment the hook of a *)
(* request is stored until its evaluation takes the abort flag, a stopped  *)
(* request has the flag up or a stopper that will raise it, and nobody     *)
(* else can take the flag away, because the lock of the engine is held.    *)

\* Where a thread has the engine's lock, and where its hook is registered.
Hooked == {"stored", "guarded", "decode", "evaluating", "after", "aborted", "quantum_done"}
Inside == {"check", "reset", "store", "unregister"} \cup Hooked

StopsTypeOK ==
    /\ state \in [Requests -> {"running", "cancelled", "deadline", "complete"}]
    /\ hook \in [Requests -> BOOLEAN]
    /\ stopper \in [Requests -> {"none", "stopping", "hooked", "done"}]
    /\ thread \in [Requests -> Inside \cup {"out", "ended", "lost"}]
    /\ owner \in Requests \cup {None}
    /\ flag \in BOOLEAN

\* The lock: its owner is the one thread inside a quantum.
LockHeld == \A r \in Requests : thread[r] \in Inside <=> owner = r

\* The hook is registered from Stops!StoreHook to Stops!Unregister.
HookRegistered ==
    \A r \in Requests :
        /\ thread[r] \in Hooked => hook[r]
        /\ hook[r] => thread[r] \in Inside

\* From Stops!RunIfStopped on, a stop has raised the flag or is about to.
SignalKept ==
    \A r \in Requests :
        thread[r] \in {"guarded", "decode", "evaluating"} /\ ~Stops!Running(r)
            => flag \/ stopper[r] \in {"stopping", "hooked"}

StopsInv == StopsTypeOK /\ LockHeld /\ HookRegistered /\ SignalKept

LEMMA StopsInit == ASSUME Stops!RequestControlAssumption, Stops!Init PROVE StopsInv
  BY DEF Stops!RequestControlAssumption, Stops!Init, StopsInv, StopsTypeOK, LockHeld, HookRegistered, SignalKept,
         Hooked, Inside, Stops!Running

\* Every step keeps the types.
LEMMA StopsNextType == ASSUME StopsTypeOK, [Stops!Next]_(Stops!vars) PROVE StopsTypeOK'
  <1> USE DEF StopsTypeOK, Inside, Hooked, Stops!Goto, Stops!At, Stops!Running
  <1>1. ASSUME NEW r \in Requests, Stops!Stop(r, "cancelled") \/ Stops!Stop(r, "deadline")
        PROVE  StopsTypeOK'
    BY <1>1 DEF Stops!Stop
  <1>2. ASSUME NEW r \in Requests, Stops!Complete(r)  PROVE StopsTypeOK'
    BY <1>2 DEF Stops!Complete
  <1>3. ASSUME NEW r \in Requests, Stops!CloneHook(r) \/ Stops!RunHook(r)  PROVE StopsTypeOK'
    BY <1>3 DEF Stops!CloneHook, Stops!RunHook
  <1>4. ASSUME NEW r \in Requests, Stops!Lock(r)  PROVE StopsTypeOK'
    BY <1>4 DEF Stops!Lock
  <1>5. ASSUME NEW r \in Requests, Stops!QuantumStep(r)  PROVE StopsTypeOK'
    <2>1. CASE Stops!Check(r, "check", "reset") \/ Stops!Check(r, "guarded", "decode")
                 \/ Stops!Check(r, "after", "quantum_done")
      BY <2>1 DEF Stops!Check
    <2>2. CASE Stops!Reset(r) \/ Stops!StoreHook(r) \/ Stops!RunIfStopped(r)
      BY <2>2 DEF Stops!Reset, Stops!StoreHook, Stops!RunIfStopped
    <2>3. CASE Stops!DecodeBegins(r) \/ Stops!DecodeAborts(r)
      BY <2>3 DEF Stops!DecodeBegins, Stops!DecodeAborts
    <2>4. CASE Stops!Unregister(r)
      BY <2>4 DEF Stops!Unregister
    <2> QED  BY <1>5, <2>1, <2>2, <2>3, <2>4 DEF Stops!QuantumStep
  <1>6. ASSUME NEW r \in Requests, Stops!DecodeEnds(r)  PROVE StopsTypeOK'
    BY <1>6 DEF Stops!DecodeEnds
  <1>7. CASE UNCHANGED Stops!vars
    BY <1>7 DEF Stops!vars
  <1> QED  BY <1>1, <1>2, <1>3, <1>4, <1>5, <1>6, <1>7 DEF Stops!Next

\* Every step keeps the invariant.
LEMMA StopsNext == ASSUME Stops!RequestControlAssumption, StopsInv, [Stops!Next]_(Stops!vars) PROVE StopsInv'
  <1>0. StopsTypeOK /\ StopsTypeOK'
    BY StopsNextType DEF StopsInv
  <1> USE DEF Stops!RequestControlAssumption, StopsInv, LockHeld, HookRegistered, SignalKept,
              StopsTypeOK, Inside, Hooked, Stops!Goto, Stops!At, Stops!Running
  <1>1. ASSUME NEW r \in Requests, Stops!Stop(r, "cancelled") \/ Stops!Stop(r, "deadline")
        PROVE  StopsInv'
    BY <1>0, <1>1 DEF Stops!Stop
  <1>2. ASSUME NEW r \in Requests, Stops!Complete(r)  PROVE StopsInv'
    BY <1>0, <1>2 DEF Stops!Complete
  <1>3. ASSUME NEW r \in Requests, Stops!CloneHook(r)  PROVE StopsInv'
    BY <1>0, <1>3 DEF Stops!CloneHook
  <1>4. ASSUME NEW r \in Requests, Stops!RunHook(r)  PROVE StopsInv'
    BY <1>0, <1>4 DEF Stops!RunHook
  <1>5. ASSUME NEW r \in Requests, Stops!Lock(r)  PROVE StopsInv'
    BY <1>0, <1>5 DEF Stops!Lock
  <1>6. ASSUME NEW r \in Requests, Stops!QuantumStep(r)  PROVE StopsInv'
    <2>1. CASE Stops!Check(r, "check", "reset") \/ Stops!Check(r, "guarded", "decode")
                 \/ Stops!Check(r, "after", "quantum_done")
      BY <1>0, <2>1 DEF Stops!Check
    <2>2. CASE Stops!Reset(r)
      BY <1>0, <2>2 DEF Stops!Reset
    <2>3. CASE Stops!StoreHook(r)
      BY <1>0, <2>3 DEF Stops!StoreHook
    <2>4. CASE Stops!RunIfStopped(r)
      BY <1>0, <2>4 DEF Stops!RunIfStopped
    <2>5. CASE Stops!DecodeBegins(r)
      BY <1>0, <2>5 DEF Stops!DecodeBegins
    <2>6. CASE Stops!DecodeAborts(r)
      BY <1>0, <2>6 DEF Stops!DecodeAborts
    <2>7. CASE Stops!Unregister(r)
      BY <1>0, <2>7 DEF Stops!Unregister
    <2> QED  BY <1>6, <2>1, <2>2, <2>3, <2>4, <2>5, <2>6, <2>7 DEF Stops!QuantumStep
  <1>7. ASSUME NEW r \in Requests, Stops!DecodeEnds(r)  PROVE StopsInv'
    BY <1>0, <1>7 DEF Stops!DecodeEnds
  <1>8. CASE UNCHANGED Stops!vars
    BY <1>0, <1>8 DEF Stops!vars
  <1> QED  BY <1>1, <1>2, <1>3, <1>4, <1>5, <1>6, <1>7, <1>8 DEF Stops!Next

\* The inductive invariant of the stops: the lock, the registration and the signal.
THEOREM StopsInvariant == Spec => []StopsInv
  <1>1. Stops!RequestControlAssumption
    BY ServingAssumption
  <1>2. Init => StopsInv
    BY <1>1, StopsInit DEF Init
  <1>3. StopsInv /\ [Next]_vars => StopsInv'
    <2>1. ASSUME StopsInv, [Next]_vars PROVE [Stops!Next]_(Stops!vars)
      BY <2>1 DEF Next, GateStep, PolicyStep, StopsStep, MappedStep, StreamStep, vars, stopsVars, Stops!vars
    <2> QED  BY <2>1, <1>1, StopsNext
  <1> QED  BY <1>2, <1>3, PTL DEF Spec

\* No order of storing the hook, resetting the flag and stopping loses the signal of a
\* cancel, a disconnect or a deadline, for any number of requests that take turns on
\* one executor; and a hook is registered only while its request has the lock
\* (RequestControl::abort, register_abort, AbortRegistration).
THEOREM NoLostAbortHolds == Spec => []NoLostAbort
  <1>1. StopsInv => NoLostAbort
    BY DEF StopsInv, SignalKept, LockHeld, HookRegistered, NoLostAbort, Stops!NoLostAbort,
           Stops!HookOnlyWhileOwner, Stops!At
  <1> QED  BY <1>1, StopsInvariant, PTL

-----------------------------------------------------------------------------
(* Sequences an entry is taken out of.                                     *)

\* RemoveFirst takes out one place.
LEMMA RemoveFirstIs ==
    ASSUME NEW S, NEW q \in Seq(S), NEW x \in S, \E i \in 1..Len(q) : q[i] = x
    PROVE  \E m \in 1..Len(q) :
             /\ q[m] = x
             /\ Gate!RemoveFirst(q, x) = SubSeq(q, 1, m - 1) \o SubSeq(q, m + 1, Len(q))
             /\ Policy!RemoveFirst(q, x) = SubSeq(q, 1, m - 1) \o SubSeq(q, m + 1, Len(q))
  <1> DEFINE I == {j \in 1..Len(q) : q[j] = x}
  <1>1. I # {} /\ I \in SUBSET Nat
    OBVIOUS
  <1>2. PICK i \in I : \A j \in I : i <= j
    <2> HIDE DEF I
    <2> QED  BY <1>1, LeastNumber
  <1>3. Gate!Min(I) \in I /\ Policy!Min(I) = Gate!Min(I)
    BY <1>2 DEF Gate!Min, Policy!Min
  <1>4. Gate!RemoveFirst(q, x) = Gate!RemoveAt(q, Gate!Min(I))
    BY <1>1 DEF Gate!RemoveFirst, Gate!SelectInSeq
  <1>5. Policy!RemoveFirst(q, x) = Policy!RemoveAt(q, Policy!Min(I))
    BY <1>1 DEF Policy!RemoveFirst, Policy!SelectInSeq
  <1> QED  BY <1>3, <1>4, <1>5 DEF Gate!RemoveAt, Policy!RemoveAt

\* ... and the others move up.
LEMMA TakenOutIs ==
    ASSUME NEW S, NEW q \in Seq(S), NEW m \in 1..Len(q)
    PROVE  LET p == SubSeq(q, 1, m - 1) \o SubSeq(q, m + 1, Len(q))
           IN  /\ p \in Seq(S) /\ Len(p) = Len(q) - 1
               /\ \A j \in 1..(Len(q) - 1) : p[j] = IF j < m THEN q[j] ELSE q[j + 1]
               /\ \A i \in 1..Len(q) : i # m => \E j \in 1..Len(p) : p[j] = q[i]
  <1> DEFINE a == SubSeq(q, 1, m - 1)
             b == SubSeq(q, m + 1, Len(q))
  <1>1. a \in Seq(S) /\ Len(a) = m - 1 /\ \A j \in 1..(m - 1) : a[j] = q[j]
    OBVIOUS
  <1>2. b \in Seq(S) /\ Len(b) = Len(q) - m /\ \A j \in 1..(Len(q) - m) : b[j] = q[m + j]
    OBVIOUS
  <1> HIDE DEF a, b
  <1>3. /\ a \o b \in Seq(S) /\ Len(a \o b) = Len(a) + Len(b)
        /\ \A j \in 1..(Len(a) + Len(b)) : (a \o b)[j] = IF j <= Len(a) THEN a[j] ELSE b[j - Len(a)]
    BY <1>1, <1>2
  <1>4. Len(a \o b) = Len(q) - 1
    BY <1>1, <1>2, <1>3
  <1>5. \A j \in 1..(Len(q) - 1) : (a \o b)[j] = IF j < m THEN q[j] ELSE q[j + 1]
    <2> SUFFICES ASSUME NEW j \in 1..(Len(q) - 1) PROVE (a \o b)[j] = IF j < m THEN q[j] ELSE q[j + 1]
      OBVIOUS
    <2>1. CASE j < m
      BY <2>1, <1>1, <1>2, <1>3
    <2>2. CASE j >= m
      <3>1. j - (m - 1) \in 1..(Len(q) - m) /\ m + (j - (m - 1)) = j + 1
        BY <2>2
      <3>2. b[j - (m - 1)] = q[j + 1]
        BY <3>1, <1>2
      <3> QED  BY <2>2, <3>1, <3>2, <1>1, <1>2, <1>3
    <2>3. j < m \/ j >= m
      OBVIOUS
    <2> QED  BY <2>1, <2>2, <2>3
  <1>6. ASSUME NEW i \in 1..Len(q), i # m PROVE \E j \in 1..Len(a \o b) : (a \o b)[j] = q[i]
    <2>1. CASE i < m
      BY <2>1, <1>4, <1>5
    <2>2. CASE i > m
      <3>1. i - 1 \in 1..(Len(q) - 1) /\ ~(i - 1 < m) /\ (i - 1) + 1 = i
        BY <2>2
      <3>2. (a \o b)[i - 1] = q[i]
        BY <3>1, <1>5
      <3> QED  BY <3>1, <3>2, <1>4
    <2>3. i < m \/ i > m
      BY <1>6
    <2> QED  BY <2>1, <2>2, <2>3
  <1> QED  BY <1>3, <1>4, <1>5, <1>6 DEF a, b

-----------------------------------------------------------------------------
(* The policy.  A job that is alive is in one place: once in the queue, in *)
(* flight or waiting.  So a deficit belongs to a flow with a job: the jobs *)
(* that are alive stay the same when one is dispatched, runs on, waits or  *)
(* is resumed, the flow of a job that ends is cleared with its last one,   *)
(* and that of a job whose worker does not start is written down in left.  *)
(* And a slot keeps its worker while a job that has run there is alive.    *)

PolicyTypeOK ==
    /\ runnable \in Seq(Jobs)
    /\ flying \in [Jobs -> Nat \cup {None}]
    /\ waiting \subseteq Jobs
    /\ deficits = [f \in Flows |-> deficits[f]]
    /\ age \in [Jobs -> Nat]

JobsApart ==
    /\ \A i, k \in 1..Len(runnable) : runnable[i] = runnable[k] => i = k
    /\ \A i \in 1..Len(runnable) : flying[runnable[i]] = None /\ runnable[i] \notin waiting
    /\ \A j \in waiting : flying[j] = None

PolicyInv ==
    PolicyTypeOK /\ JobsApart /\ Policy!DeficitsOfTheLiving /\ Policy!StartedHaveWorkers

LEMMA Smallest == ASSUME NEW i \in Nat, NEW j \in Nat PROVE Policy!Min({i, j}) \in Nat
  <1>1. \E x \in {i, j} : \A y \in {i, j} : x <= y
    <2>1. i <= j \/ j <= i
      OBVIOUS
    <2> QED  BY <2>1
  <1>2. Policy!Min({i, j}) \in {i, j}
    BY <1>1 DEF Policy!Min
  <1> QED  BY <1>2

\* The weight of a job in this round
LEMMA CreditIsNat ==
    ASSUME Policy!FairPolicyAssumption, PolicyTypeOK, NEW j \in Jobs
    PROVE  Policy!Credit(j) \in Nat /\ Policy!Oldest(j) \in Nat
  <1>1. ClassOf[FlowOf[j]] \in 0..2 /\ PromotionRounds \in Nat /\ PromotionRounds > 0 /\ age[j] \in Nat
    BY DEF Policy!FairPolicyAssumption, PolicyTypeOK
  <1>2. age[j] \div PromotionRounds \in Nat
    BY <1>1
  <1>3. ClassOf[FlowOf[j]] = 0 \/ ClassOf[FlowOf[j]] = 1 \/ ClassOf[FlowOf[j]] = 2
    BY <1>1
  <1>4. Policy!Oldest(j) \in Nat
    BY <1>1, <1>3 DEF Policy!Oldest
  <1>5. \A c \in 0..2, n \in Nat : (IF n > c THEN 0 ELSE c - n) \in 0..2
    OBVIOUS
  <1>6. Weight \in [0..2 -> Nat]
    BY DEF Policy!FairPolicyAssumption
  <1>7. Policy!Credit(j) \in Nat
    BY <1>1, <1>2, <1>5, <1>6 DEF Policy!Credit
  <1> QED  BY <1>4, <1>7

LEMMA PolicyInit == ASSUME Policy!FairPolicyAssumption, Policy!Init PROVE PolicyInv
  BY DEF Policy!FairPolicyAssumption, Policy!Init, PolicyInv, PolicyTypeOK, JobsApart, Policy!DeficitsOfTheLiving,
         Policy!StartedHaveWorkers, Policy!InFlight

\* Where a job is alive.
LEMMA AliveIs ==
    ASSUME PolicyTypeOK, NEW j
    PROVE  j \in Policy!Alive <=> \/ \E i \in 1..Len(runnable) : runnable[i] = j
                                  \/ j \in Jobs /\ flying[j] # None
                                  \/ j \in waiting
  BY DEF PolicyTypeOK, Policy!Alive, Policy!InQueue, Policy!InFlight

\* A job that is added at the end of the queue
LEMMA QueuedIs ==
    ASSUME NEW q \in Seq(Jobs), NEW j \in Jobs
    PROVE  /\ Append(q, j) \in Seq(Jobs) /\ Len(Append(q, j)) = Len(q) + 1 /\ Len(q) \in Nat
           /\ \A i \in 1..Len(q) : i \in 1..Len(Append(q, j)) /\ Append(q, j)[i] = q[i]
           /\ \A i \in 1..Len(Append(q, j)) : i \in 1..Len(q) \/ i = Len(q) + 1
           /\ Len(q) + 1 \in 1..Len(Append(q, j)) /\ Append(q, j)[Len(q) + 1] = j
  OBVIOUS

\* ... is there, and nobody else is new.
LEMMA EnqueuedIs ==
    ASSUME PolicyTypeOK, JobsApart, NEW j \in Jobs,
           \A i \in 1..Len(runnable) : runnable[i] # j,
           runnable' = Append(runnable, j), flying' \in [Jobs -> Nat \cup {None}],
           flying'[j] = None, \A k \in Jobs : k # j => flying'[k] = flying[k],
           waiting' = waiting \ {j}
    PROVE  /\ JobsApart' /\ runnable' \in Seq(Jobs)
           /\ Policy!Alive \cup {j} \subseteq Policy!Alive'
           /\ Policy!InFlight' \cup waiting' \subseteq (Policy!InFlight \cup waiting) \ {j}
  <1>1. runnable \in Seq(Jobs) /\ waiting \subseteq Jobs /\ \A i \in 1..Len(runnable) : runnable[i] \in Jobs
    BY DEF PolicyTypeOK
  <1>2. /\ runnable' \in Seq(Jobs) /\ Len(runnable') = Len(runnable) + 1 /\ Len(runnable) \in Nat
        /\ \A i \in 1..Len(runnable) : i \in 1..Len(runnable') /\ runnable'[i] = runnable[i]
        /\ \A i \in 1..Len(runnable') : i \in 1..Len(runnable) \/ i = Len(runnable) + 1
        /\ Len(runnable) + 1 \in 1..Len(runnable') /\ runnable'[Len(runnable) + 1] = j
    BY <1>1, QueuedIs
  <1>3. \A i, k \in 1..Len(runnable') : runnable'[i] = runnable'[k] => i = k
    <2> SUFFICES ASSUME NEW i \in 1..Len(runnable'), NEW k \in 1..Len(runnable'), runnable'[i] = runnable'[k]
                 PROVE  i = k
      OBVIOUS
    <2>1. CASE i \in 1..Len(runnable) /\ k \in 1..Len(runnable)
      BY <2>1, <1>2 DEF JobsApart
    <2>2. CASE i \in 1..Len(runnable) /\ k = Len(runnable) + 1
      <3>1. runnable'[k] = j /\ runnable'[i] = runnable[i] /\ runnable[i] # j
        BY <2>2, <1>2
      <3> QED  BY <3>1
    <2>3. CASE k \in 1..Len(runnable) /\ i = Len(runnable) + 1
      <3>1. runnable'[i] = j /\ runnable'[k] = runnable[k] /\ runnable[k] # j
        BY <2>3, <1>2
      <3> QED  BY <3>1
    <2>4. CASE i = Len(runnable) + 1 /\ k = Len(runnable) + 1
      BY <2>4
    <2>5. (i \in 1..Len(runnable) \/ i = Len(runnable) + 1) /\ (k \in 1..Len(runnable) \/ k = Len(runnable) + 1)
      BY <1>2
    <2> QED  BY <2>1, <2>2, <2>3, <2>4, <2>5
  <1>4. \A i \in 1..Len(runnable') : flying'[runnable'[i]] = None /\ runnable'[i] \notin waiting'
    <2> SUFFICES ASSUME NEW i \in 1..Len(runnable')
                 PROVE  flying'[runnable'[i]] = None /\ runnable'[i] \notin waiting'
      OBVIOUS
    <2>1. CASE i \in 1..Len(runnable)
      <3>1. runnable'[i] = runnable[i] /\ runnable[i] \in Jobs /\ runnable[i] # j
        BY <2>1, <1>1, <1>2
      <3>2. flying[runnable[i]] = None /\ runnable[i] \notin waiting
        BY <2>1 DEF JobsApart
      <3> QED  BY <3>1, <3>2
    <2>2. CASE i = Len(runnable) + 1
      <3>1. runnable'[i] = j
        BY <2>2, <1>2
      <3> QED  BY <3>1
    <2> QED  BY <2>1, <2>2, <1>2
  <1>5. \A k \in waiting' : flying'[k] = None
    BY <1>1 DEF JobsApart
  <1>6. Policy!Alive \cup {j} \subseteq Policy!Alive'
    BY <1>1, <1>2 DEF Policy!Alive, Policy!InQueue, Policy!InFlight
  <1>7. Policy!InFlight' \cup waiting' \subseteq (Policy!InFlight \cup waiting) \ {j}
    BY DEF Policy!InFlight
  <1> QED  BY <1>2, <1>3, <1>4, <1>5, <1>6, <1>7 DEF JobsApart

\* Of a queue without repetitions m is taken out: the others are there, once.
Without(q, m) == SubSeq(q, 1, m - 1) \o SubSeq(q, m + 1, Len(q))

LEMMA OneLess ==
    ASSUME NEW q \in Seq(Jobs), NEW m \in 1..Len(q),
           \A i, k \in 1..Len(q) : q[i] = q[k] => i = k
    PROVE  LET p == Without(q, m) IN
           /\ p \in Seq(Jobs)
           /\ \A i, k \in 1..Len(p) : p[i] = p[k] => i = k
           /\ \A i \in 1..Len(p) : p[i] # q[m] /\ \E k \in 1..Len(q) : q[k] = p[i]
           /\ \A i \in 1..Len(q) : i # m => \E k \in 1..Len(p) : p[k] = q[i]
  <1> DEFINE p == Without(q, m)
             At(i) == IF i < m THEN i ELSE i + 1
  <1>1. /\ p \in Seq(Jobs) /\ Len(p) = Len(q) - 1
        /\ \A i \in 1..(Len(q) - 1) : p[i] = IF i < m THEN q[i] ELSE q[i + 1]
        /\ \A i \in 1..Len(q) : i # m => \E k \in 1..Len(p) : p[k] = q[i]
    BY TakenOutIs DEF Without
  <1> HIDE DEF p
  <1>2. Len(q) \in Nat /\ m \in 1..Len(q)
    OBVIOUS
  <1>3. \A i \in 1..(Len(q) - 1) : At(i) \in 1..Len(q) /\ At(i) # m
    BY <1>2
  <1>4. \A i \in 1..(Len(q) - 1) : p[i] = q[At(i)]
    BY <1>1
  <1>5. \A i, k \in 1..(Len(q) - 1) : At(i) = At(k) => i = k
    BY <1>2
  <1> HIDE DEF At
  <1>6. \A i, k \in 1..Len(p) : p[i] = p[k] => i = k
    BY <1>1, <1>3, <1>4, <1>5
  <1>7. \A i \in 1..Len(p) : p[i] # q[m] /\ \E k \in 1..Len(q) : q[k] = p[i]
    BY <1>1, <1>2, <1>3, <1>4
  <1> QED  BY <1>1, <1>6, <1>7 DEF p

\* The jobs that are not j stay where they are, apart.
LEMMA OthersApart ==
    ASSUME PolicyTypeOK, JobsApart, NEW j \in Jobs, NEW m \in 1..Len(runnable), runnable[m] = j,
           runnable' = Without(runnable, m),
           \A k \in Jobs : k # j => flying'[k] = flying[k],
           waiting' = waiting \ {j}
    PROVE  /\ JobsApart' /\ runnable' \in Seq(Jobs)
           /\ Policy!Alive \ {j} \subseteq Policy!Alive'
  <1>1. runnable \in Seq(Jobs) /\ waiting \subseteq Jobs /\ \A i \in 1..Len(runnable) : runnable[i] \in Jobs
    BY DEF PolicyTypeOK
  <1>2. \A i, k \in 1..Len(runnable) : runnable[i] = runnable[k] => i = k
    BY DEF JobsApart
  <1>3. /\ runnable' \in Seq(Jobs)
        /\ \A i, k \in 1..Len(runnable') : runnable'[i] = runnable'[k] => i = k
        /\ \A i \in 1..Len(runnable') :
              runnable'[i] # j /\ \E k \in 1..Len(runnable) : runnable[k] = runnable'[i]
        /\ \A i \in 1..Len(runnable) : i # m => \E k \in 1..Len(runnable') : runnable'[k] = runnable[i]
    <2> DEFINE p == Without(runnable, m)
    <2>1. /\ p \in Seq(Jobs)
          /\ \A i, k \in 1..Len(p) : p[i] = p[k] => i = k
          /\ \A i \in 1..Len(p) : p[i] # runnable[m] /\ \E k \in 1..Len(runnable) : runnable[k] = p[i]
          /\ \A i \in 1..Len(runnable) : i # m => \E k \in 1..Len(p) : p[k] = runnable[i]
      <3>1. runnable \in Seq(Jobs) /\ m \in 1..Len(runnable)
        BY <1>1
      <3> HIDE DEF p
      <3> QED  BY <3>1, <1>2, OneLess DEF p
    <2>2. runnable' = p /\ runnable[m] = j
      OBVIOUS
    <2> HIDE DEF p
    <2> QED  BY <2>1, <2>2
  <1>4. \A i \in 1..Len(runnable') : flying'[runnable'[i]] = None /\ runnable'[i] \notin waiting'
    <2> SUFFICES ASSUME NEW i \in 1..Len(runnable')
                 PROVE  flying'[runnable'[i]] = None /\ runnable'[i] \notin waiting'
      OBVIOUS
    <2>1. PICK k \in 1..Len(runnable) : runnable[k] = runnable'[i]
      BY <1>3
    <2>2. flying[runnable[k]] = None /\ runnable[k] \notin waiting
      BY DEF JobsApart
    <2>3. runnable[k] \in Jobs /\ runnable[k] # j
      BY <2>1, <1>1, <1>3
    <2>4. flying'[runnable[k]] = flying[runnable[k]] /\ runnable[k] \notin waiting'
      BY <2>2, <2>3
    <2> QED  BY <2>1, <2>2, <2>4
  <1>5. \A k \in waiting' : flying'[k] = None
    BY <1>1 DEF JobsApart
  <1>6. Policy!Alive \ {j} \subseteq Policy!Alive'
    <2>1. ASSUME NEW k \in Policy!InQueue, k # j PROVE k \in Policy!InQueue'
      <3>1. PICK i \in 1..Len(runnable) : runnable[i] = k
        BY <1>1, <2>1 DEF Policy!InQueue
      <3>2. i # m /\ runnable[m] = j
        BY <3>1, <2>1
      <3>3. \E n \in 1..Len(runnable') : runnable'[n] = k
        BY <3>1, <3>2, <1>3
      <3>4. DOMAIN runnable' = 1..Len(runnable')
        BY <1>3
      <3> QED  BY <3>3, <3>4 DEF Policy!InQueue
    <2>2. Policy!InFlight \ {j} \subseteq Policy!InFlight'
      BY DEF Policy!InFlight
    <2> QED  BY <2>1, <2>2 DEF Policy!Alive
  <1> QED  BY <1>3, <1>4, <1>5, <1>6 DEF JobsApart

\* Whoever was alive still is, and no deficit is new.
LEMMA LivingKept ==
    ASSUME Policy!DeficitsOfTheLiving, Policy!Alive \subseteq Policy!Alive', UNCHANGED left,
           \A f \in Flows : deficits'[f] # None => deficits[f] # None \/ \E j \in Policy!Alive' : FlowOf[j] = f
    PROVE  Policy!DeficitsOfTheLiving'
  BY DEF Policy!DeficitsOfTheLiving

\* A job ends, and its flow is cleared if it was the last.
LEMMA LivingLess ==
    ASSUME PolicyTypeOK, Policy!DeficitsOfTheLiving, NEW j \in Jobs, NEW table,
           table = [f \in Flows |-> table[f]],
           \A f \in Flows : f # FlowOf[j] => table[f] = deficits[f],
           Policy!Alive \ {j} \subseteq Policy!Alive', UNCHANGED left,
           deficits' = Policy!ClearedIfIdle(table, FlowOf[j], Policy!Alive \ {j})
    PROVE  Policy!DeficitsOfTheLiving' /\ deficits' = [f \in Flows |-> deficits'[f]]
  <1>1. CASE \E k \in Policy!Alive \ {j} : FlowOf[k] = FlowOf[j]
    <2>1. deficits' = table
      BY <1>1 DEF Policy!ClearedIfIdle
    <2>2. ASSUME NEW f \in Flows, deficits'[f] # None
          PROVE  f \in left' \/ \E k \in Policy!Alive' : FlowOf[k] = f
      <3>1. CASE f = FlowOf[j]
        BY <3>1, <1>1
      <3>2. CASE f # FlowOf[j]
        BY <3>2, <2>1, <2>2 DEF Policy!DeficitsOfTheLiving
      <3> QED  BY <3>1, <3>2
    <2> QED  BY <2>1, <2>2 DEF Policy!DeficitsOfTheLiving
  <1>2. CASE ~\E k \in Policy!Alive \ {j} : FlowOf[k] = FlowOf[j]
    <2>1. deficits' = [table EXCEPT ![FlowOf[j]] = None]
      BY <1>2 DEF Policy!ClearedIfIdle
    <2>2. deficits' = [f \in Flows |-> IF f = FlowOf[j] THEN None ELSE deficits[f]]
      BY <2>1
    <2>3. ASSUME NEW f \in Flows, deficits'[f] # None
          PROVE  f \in left' \/ \E k \in Policy!Alive' : FlowOf[k] = f
      <3>1. f # FlowOf[j] /\ deficits[f] # None
        BY <2>2, <2>3
      <3> QED  BY <3>1 DEF Policy!DeficitsOfTheLiving
    <2> QED  BY <2>2, <2>3 DEF Policy!DeficitsOfTheLiving
  <1> QED  BY <1>1, <1>2

LEMMA SubmitInv == ASSUME PolicyInv, NEW j \in Jobs, Policy!Submit(j) PROVE PolicyInv'
  <1>1. /\ PolicyTypeOK /\ JobsApart /\ Policy!DeficitsOfTheLiving /\ Policy!StartedHaveWorkers
        /\ j \notin Policy!Alive /\ runnable' = Append(runnable, j) /\ left' = left \ {FlowOf[j]}
        /\ UNCHANGED <<flying, slots, waiting, deficits>> /\ age' = [age EXCEPT ![j] = 0]
    BY DEF PolicyInv, Policy!Submit
  <1>2. /\ \A i \in 1..Len(runnable) : runnable[i] # j
        /\ flying'[j] = None /\ waiting' = waiting \ {j} /\ flying' \in [Jobs -> Nat \cup {None}]
    BY <1>1, AliveIs DEF PolicyTypeOK
  <1>3. /\ JobsApart' /\ runnable' \in Seq(Jobs) /\ Policy!Alive \cup {j} \subseteq Policy!Alive'
        /\ Policy!InFlight' \cup waiting' \subseteq (Policy!InFlight \cup waiting) \ {j}
    BY <1>1, <1>2, EnqueuedIs
  <1>4. Policy!DeficitsOfTheLiving'
    BY <1>1, <1>3 DEF Policy!DeficitsOfTheLiving
  <1>5. Policy!StartedHaveWorkers'
    BY <1>1, <1>3 DEF Policy!StartedHaveWorkers
  <1>6. PolicyTypeOK'
    BY <1>1, <1>3 DEF PolicyTypeOK
  <1> QED  BY <1>3, <1>4, <1>5, <1>6 DEF PolicyInv

LEMMA ContinueInv == ASSUME PolicyInv, NEW j \in Jobs, Policy!Continue(j) PROVE PolicyInv'
  <1>1. /\ PolicyTypeOK /\ JobsApart /\ Policy!DeficitsOfTheLiving /\ Policy!StartedHaveWorkers
        /\ j \in waiting /\ runnable' = Append(runnable, j) /\ waiting' = waiting \ {j}
        /\ UNCHANGED <<flying, slots, deficits, age, left>>
    BY DEF PolicyInv, Policy!Continue
  <1>2. /\ \A i \in 1..Len(runnable) : runnable[i] # j
        /\ flying'[j] = None /\ flying' \in [Jobs -> Nat \cup {None}]
    BY <1>1 DEF PolicyTypeOK, JobsApart
  <1>3. /\ JobsApart' /\ runnable' \in Seq(Jobs) /\ Policy!Alive \cup {j} \subseteq Policy!Alive'
        /\ Policy!InFlight' \cup waiting' \subseteq (Policy!InFlight \cup waiting) \ {j}
    BY <1>1, <1>2, EnqueuedIs
  <1>4. Policy!DeficitsOfTheLiving'
    BY <1>1, <1>3, LivingKept
  <1>5. Policy!StartedHaveWorkers'
    BY <1>1, <1>3 DEF Policy!StartedHaveWorkers
  <1>6. PolicyTypeOK'
    BY <1>1, <1>3 DEF PolicyTypeOK
  <1> QED  BY <1>3, <1>4, <1>5, <1>6 DEF PolicyInv

LEMMA StopInv ==
    ASSUME Policy!FairPolicyAssumption, PolicyInv, NEW j \in Jobs, Policy!Stop(j) PROVE PolicyInv'
  <1>1. /\ PolicyTypeOK /\ JobsApart /\ Policy!DeficitsOfTheLiving /\ Policy!StartedHaveWorkers
        /\ j \in waiting /\ waiting' = waiting \ {j} /\ flying' = [flying EXCEPT ![j] = 0]
        /\ UNCHANGED <<runnable, slots, deficits, age, left>>
    BY DEF PolicyInv, Policy!Stop
  <1>2. 0 # None /\ flying \in [Jobs -> Nat \cup {None}] /\ waiting \subseteq Jobs
        /\ \A i \in 1..Len(runnable) : runnable[i] \in Jobs
    BY <1>1 DEF Policy!FairPolicyAssumption, PolicyTypeOK
  <1>3. JobsApart'
    BY <1>1, <1>2 DEF JobsApart
  <1>4. Policy!Alive \subseteq Policy!Alive'
    BY <1>1, <1>2 DEF Policy!Alive, Policy!InQueue, Policy!InFlight
  <1>5. Policy!DeficitsOfTheLiving'
    BY <1>1, <1>4, LivingKept
  <1>6. Policy!StartedHaveWorkers'
    <2>1. Policy!InFlight' \cup waiting' \subseteq Policy!InFlight \cup waiting
      BY <1>1, <1>2 DEF Policy!InFlight
    <2> QED  BY <2>1, <1>1 DEF Policy!StartedHaveWorkers
  <1>7. PolicyTypeOK'
    BY <1>1, <1>2 DEF PolicyTypeOK
  <1> QED  BY <1>3, <1>5, <1>6, <1>7 DEF PolicyInv

LEMMA CancelJobInv == ASSUME PolicyInv, NEW j \in Jobs, Policy!CancelJob(j) PROVE PolicyInv'
  <1>1. /\ PolicyTypeOK /\ JobsApart /\ Policy!DeficitsOfTheLiving /\ Policy!StartedHaveWorkers
        /\ j \in Policy!InQueue \cup waiting
        /\ runnable' = Policy!RemoveFirst(runnable, j) /\ waiting' = waiting \ {j}
        /\ deficits' = Policy!ClearedIfIdle(deficits, FlowOf[j], Policy!Alive \ {j})
        /\ age' = [age EXCEPT ![j] = 0] /\ UNCHANGED <<flying, slots, left>>
    BY DEF PolicyInv, Policy!CancelJob
  <1>2. runnable \in Seq(Jobs) /\ waiting \subseteq Jobs /\ deficits = [f \in Flows |-> deficits[f]]
    BY <1>1 DEF PolicyTypeOK
  <1>3. JobsApart' /\ runnable' \in Seq(Jobs) /\ Policy!Alive \ {j} \subseteq Policy!Alive'
    <2>1. CASE \E i \in 1..Len(runnable) : runnable[i] = j
      <3>1. PICK m \in 1..Len(runnable) : /\ runnable[m] = j
                                          /\ runnable' = Without(runnable, m)
        BY <1>1, <1>2, <2>1, RemoveFirstIs DEF Without
      <3> QED  BY <3>1, <1>1, OthersApart
    <2>2. CASE ~\E i \in 1..Len(runnable) : runnable[i] = j
      <3>1. runnable' = runnable
        BY <1>1, <2>2 DEF Policy!RemoveFirst
      <3>2. JobsApart'
        BY <3>1, <1>1 DEF JobsApart
      <3>3. Policy!Alive \ {j} \subseteq Policy!Alive'
        BY <3>1, <1>1 DEF Policy!Alive, Policy!InQueue, Policy!InFlight
      <3> QED  BY <3>1, <3>2, <3>3, <1>2
    <2> QED  BY <2>1, <2>2
  <1>4. Policy!DeficitsOfTheLiving' /\ deficits' = [f \in Flows |-> deficits'[f]]
    BY <1>1, <1>2, <1>3, LivingLess
  <1>5. Policy!StartedHaveWorkers'
    BY <1>1 DEF Policy!StartedHaveWorkers, Policy!InFlight
  <1>6. PolicyTypeOK'
    BY <1>1, <1>3, <1>4 DEF PolicyTypeOK
  <1> QED  BY <1>3, <1>4, <1>5, <1>6 DEF PolicyInv

LEMMA CompleteInv ==
    ASSUME Policy!FairPolicyAssumption, PolicyInv, NEW j \in Jobs, NEW tokens \in Charges, Policy!Complete(j, tokens)
    PROVE  PolicyInv'
  <1> DEFINE table == Policy!Charged(j, tokens)
  <1>1. /\ PolicyTypeOK /\ JobsApart /\ Policy!DeficitsOfTheLiving /\ Policy!StartedHaveWorkers
        /\ j \in Policy!InFlight /\ flying' = [flying EXCEPT ![j] = None] /\ UNCHANGED left
    BY DEF PolicyInv, Policy!Complete
  <1>2. /\ runnable \in Seq(Jobs) /\ flying \in [Jobs -> Nat \cup {None}] /\ waiting \subseteq Jobs
        /\ deficits = [f \in Flows |-> deficits[f]] /\ age \in [Jobs -> Nat]
        /\ \A i \in 1..Len(runnable) : runnable[i] \in Jobs
    BY <1>1 DEF PolicyTypeOK
  <1>3. /\ flying' \in [Jobs -> Nat \cup {None}] /\ flying'[j] = None
        /\ \A k \in Jobs : k # j => flying'[k] = flying[k]
    BY <1>1, <1>2
  <1>4. j \notin waiting /\ \A i \in 1..Len(runnable) : runnable[i] # j
    BY <1>1 DEF JobsApart, Policy!InFlight
  <1>5. table = [f \in Flows |-> table[f]] /\ \A f \in Flows : f # FlowOf[j] => table[f] = deficits[f]
    BY <1>2 DEF Policy!Charged
  <1> HIDE DEF table
  <1>6. CASE runnable' = Append(runnable, j) /\ deficits' = table /\ UNCHANGED <<waiting, slots, age>>
    <2>1. waiting' = waiting \ {j}
      BY <1>4, <1>6
    <2>2. /\ JobsApart' /\ runnable' \in Seq(Jobs) /\ Policy!Alive \cup {j} \subseteq Policy!Alive'
          /\ Policy!InFlight' \cup waiting' \subseteq (Policy!InFlight \cup waiting) \ {j}
      BY <2>1, <1>1, <1>3, <1>4, <1>6, EnqueuedIs
    <2>3. Policy!DeficitsOfTheLiving'
      BY <2>2, <1>1, <1>5, <1>6 DEF Policy!DeficitsOfTheLiving
    <2>4. Policy!StartedHaveWorkers'
      BY <2>2, <1>1, <1>6 DEF Policy!StartedHaveWorkers
    <2>5. PolicyTypeOK'
      BY <2>2, <1>2, <1>3, <1>5, <1>6 DEF PolicyTypeOK
    <2> QED  BY <2>2, <2>3, <2>4, <2>5 DEF PolicyInv
  <1>7. CASE waiting' = waiting \cup {j} /\ deficits' = table /\ UNCHANGED <<runnable, slots, age>>
    <2>1. Policy!Alive \subseteq Policy!Alive' /\ j \in Policy!Alive'
      BY <1>3, <1>7 DEF Policy!Alive, Policy!InQueue, Policy!InFlight
    <2>2. Policy!DeficitsOfTheLiving'
      BY <2>1, <1>1, <1>5, <1>7 DEF Policy!DeficitsOfTheLiving
    <2>3. JobsApart'
      BY <1>1, <1>2, <1>3, <1>4, <1>7 DEF JobsApart
    <2>4. Policy!StartedHaveWorkers'
      <3>1. Policy!InFlight' \cup waiting' \subseteq Policy!InFlight \cup waiting
        BY <1>1, <1>3, <1>7 DEF Policy!InFlight
      <3> QED  BY <3>1, <1>1, <1>7 DEF Policy!StartedHaveWorkers
    <2>5. PolicyTypeOK'
      BY <1>2, <1>3, <1>5, <1>7 DEF PolicyTypeOK
    <2> QED  BY <2>2, <2>3, <2>4, <2>5 DEF PolicyInv
  <1>8. CASE /\ deficits' = Policy!ClearedIfIdle(table, FlowOf[j], Policy!Alive \ {j})
             /\ age' = [age EXCEPT ![j] = 0] /\ UNCHANGED <<runnable, waiting>>
             /\ slots' = Policy!RetiredIfIdle(SlotOf[j], Policy!Alive \ {j})
    <2>1. Policy!Alive \ {j} \subseteq Policy!Alive'
      BY <1>3, <1>8 DEF Policy!Alive, Policy!InQueue, Policy!InFlight
    <2>2. Policy!DeficitsOfTheLiving' /\ deficits' = [f \in Flows |-> deficits'[f]]
      BY <2>1, <1>1, <1>5, <1>8, LivingLess
    <2>3. JobsApart'
      BY <1>1, <1>2, <1>3, <1>4, <1>8 DEF JobsApart
    <2>4. Policy!StartedHaveWorkers'
      <3>1. Policy!InFlight' \cup waiting' \subseteq (Policy!InFlight \cup waiting) \ {j}
        BY <1>3, <1>4, <1>8 DEF Policy!InFlight
      <3>2. Policy!InFlight \cup waiting \subseteq Policy!Alive
        BY DEF Policy!Alive
      <3>3. ASSUME NEW k \in Policy!InFlight' \cup waiting' PROVE SlotOf[k] \in slots'
        <4>1. k \in Policy!Alive \ {j} /\ SlotOf[k] \in slots
          BY <3>1, <3>2, <3>3, <1>1 DEF Policy!StartedHaveWorkers
        <4> QED  BY <4>1, <1>8 DEF Policy!RetiredIfIdle
      <3> QED  BY <3>3 DEF Policy!StartedHaveWorkers
    <2>5. PolicyTypeOK'
      BY <2>2, <1>2, <1>3, <1>8 DEF PolicyTypeOK
    <2> QED  BY <2>2, <2>3, <2>4, <2>5 DEF PolicyInv
  <1> QED  BY <1>6, <1>7, <1>8 DEF Policy!Complete, table

\* The sum of the credits of the heads
LEMMA TotalCreditIsNat ==
    ASSUME Policy!FairPolicyAssumption, PolicyTypeOK PROVE Policy!TotalCredit \in Nat
  <1> DEFINE credits == [i \in Policy!Heads |-> Policy!Credit(runnable[i])]
  <1>1. Policy!TotalCredit = SumOf(credits, Policy!Heads)
    BY DEF Policy!TotalCredit, SumOf, MapThenSumSet, MapThenFoldSet, Policy!MapThenSumSet, Policy!MapThenFoldSet
  <1>2. Policy!Heads \subseteq 1..Len(runnable) /\ \A i \in 1..Len(runnable) : runnable[i] \in Jobs
    BY DEF PolicyTypeOK, Policy!Heads
  <1>3. IsFiniteSet(1..Len(runnable))
    <2>1. 1 \in Int /\ Len(runnable) \in Int
      BY DEF PolicyTypeOK
    <2> QED  BY <2>1, FS_Interval
  <1>4. IsFiniteSet(Policy!Heads)
    BY <1>2, <1>3, FS_Subset
  <1>5. \A i \in Policy!Heads : credits[i] \in Nat
    BY <1>2, CreditIsNat
  <1> HIDE DEF credits
  <1> QED  BY <1>1, <1>4, <1>5, SumNat

\* What select does to the policy, whoever goes on to the next round.
LEMMA SelectedIs ==
    ASSUME Policy!FairPolicyAssumption, PolicyTypeOK, NEW i, NEW going, Policy!Selected(i, going)
    PROVE  /\ i \in 1..Len(runnable) /\ runnable[i] \in Jobs
           /\ runnable' = Without(runnable, i)
           /\ age' \in [Jobs -> Nat]
           /\ deficits' = [f \in Flows |-> deficits'[f]]
           /\ \A f \in Flows : deficits'[f] # None =>
                deficits[f] # None \/ \E k \in Policy!Alive : FlowOf[k] = f
  <1>1. /\ runnable \in Seq(Jobs) /\ deficits = [f \in Flows |-> deficits[f]] /\ age \in [Jobs -> Nat]
    BY DEF PolicyTypeOK
  <1>2. /\ i \in Policy!Heads
        /\ deficits' = [f \in Flows |->
                          IF \E k \in Policy!Heads : FlowOf[runnable[k]] = f
                          THEN Policy!Refilled(CHOOSE k \in Policy!Heads : FlowOf[runnable[k]] = f)
                          ELSE deficits[f]]
        /\ runnable' = Without(runnable, i)
        /\ age' = [j \in Jobs |-> IF j \in going THEN Policy!Min({age[j] + 1, Policy!Oldest(j)}) ELSE 0]
    BY DEF Policy!Selected, Policy!Eligible, Without
  <1>3. Policy!Heads \subseteq 1..Len(runnable) /\ \A k \in 1..Len(runnable) : runnable[k] \in Jobs
    BY <1>1 DEF Policy!Heads
  <1>4. \A k \in Policy!Heads : runnable[k] \in Policy!Alive
    BY <1>1, <1>3 DEF Policy!Alive, Policy!InQueue
  <1>5. \A f \in Flows : deficits'[f] # None => deficits[f] # None \/ \E k \in Policy!Alive : FlowOf[k] = f
    <2> SUFFICES ASSUME NEW f \in Flows, deficits'[f] # None
                 PROVE  deficits[f] # None \/ \E k \in Policy!Alive : FlowOf[k] = f
      OBVIOUS
    <2>1. CASE \E k \in Policy!Heads : FlowOf[runnable[k]] = f
      BY <2>1, <1>4
    <2>2. CASE ~\E k \in Policy!Heads : FlowOf[runnable[k]] = f
      BY <2>2, <1>2
    <2> QED  BY <2>1, <2>2
  <1>6. age' \in [Jobs -> Nat]
    <2>1. \A j \in Jobs : age[j] + 1 \in Nat /\ Policy!Oldest(j) \in Nat
      BY <1>1, CreditIsNat
    <2>2. \A j \in Jobs : Policy!Min({age[j] + 1, Policy!Oldest(j)}) \in Nat
      BY <2>1, Smallest
    <2> QED  BY <2>2, <1>2
  <1>7. deficits' = [f \in Flows |-> deficits'[f]]
    BY <1>2
  <1> QED  BY <1>2, <1>3, <1>5, <1>6, <1>7

LEMMA DispatchInv == ASSUME Policy!FairPolicyAssumption, PolicyInv, Policy!Dispatch PROVE PolicyInv'
  <1>1. PolicyTypeOK /\ JobsApart /\ Policy!DeficitsOfTheLiving /\ Policy!StartedHaveWorkers
    BY DEF PolicyInv
  <1>2. PICK i \in DOMAIN runnable :
          /\ Policy!Selected(i, Policy!Alive)
          /\ flying' = [flying EXCEPT ![runnable[i]] = Policy!TotalCredit]
          /\ slots' = slots \cup {SlotOf[runnable[i]]}
          /\ UNCHANGED <<waiting, left>>
    BY DEF Policy!Dispatch
  <1> DEFINE j == runnable[i]
             scale == Policy!TotalCredit
  <1>3. /\ i \in 1..Len(runnable) /\ j \in Jobs
        /\ runnable' = Without(runnable, i)
        /\ age' \in [Jobs -> Nat] /\ deficits' = [f \in Flows |-> deficits'[f]]
        /\ \A f \in Flows : deficits'[f] # None =>
             deficits[f] # None \/ \E k \in Policy!Alive : FlowOf[k] = f
    BY <1>1, <1>2, SelectedIs
  <1>4. scale \in Nat /\ scale # None
    BY <1>1, TotalCreditIsNat DEF Policy!FairPolicyAssumption
  <1> HIDE DEF scale
  <1>5. /\ flying' \in [Jobs -> Nat \cup {None}] /\ flying'[j] # None
        /\ \A k \in Jobs : k # j => flying'[k] = flying[k]
    BY <1>1, <1>2, <1>3, <1>4 DEF PolicyTypeOK, scale
  <1>6. j \notin waiting
    BY <1>1, <1>3 DEF JobsApart
  <1>7. JobsApart' /\ runnable' \in Seq(Jobs) /\ Policy!Alive \ {j} \subseteq Policy!Alive'
    <2>1. waiting' = waiting \ {j}
      BY <1>2, <1>6
    <2> QED  BY <2>1, <1>1, <1>3, <1>5, OthersApart
  <1>8. Policy!Alive \subseteq Policy!Alive'
    <2>1. j \in Policy!InFlight'
      BY <1>3, <1>5 DEF Policy!InFlight
    <2> QED  BY <2>1, <1>7 DEF Policy!Alive
  <1>9. Policy!DeficitsOfTheLiving'
    <2>1. \A f \in Flows : deficits'[f] # None => deficits[f] # None \/ \E k \in Policy!Alive' : FlowOf[k] = f
      BY <1>3, <1>8
    <2>2. left' = left
      BY <1>2
    <2> QED  BY <2>1, <2>2, <1>1, <1>8, LivingKept
  <1>10. Policy!StartedHaveWorkers'
    <2>1. Policy!InFlight' \cup waiting' \subseteq (Policy!InFlight \cup waiting) \cup {j}
      BY <1>2, <1>5 DEF Policy!InFlight
    <2> QED  BY <2>1, <1>1, <1>2 DEF Policy!StartedHaveWorkers
  <1>11. PolicyTypeOK'
    BY <1>1, <1>2, <1>3, <1>5, <1>7 DEF PolicyTypeOK
  <1> QED  BY <1>7, <1>9, <1>10, <1>11 DEF PolicyInv

\* The deficit that stays behind is that of a flow that has left.
LEMMA SpawnFailsInv ==
    ASSUME Policy!FairPolicyAssumption, PolicyInv, Policy!DispatchSpawnFails PROVE PolicyInv'
  <1>1. PolicyTypeOK /\ JobsApart /\ Policy!DeficitsOfTheLiving /\ Policy!StartedHaveWorkers
    BY DEF PolicyInv
  <1>2. PICK i \in DOMAIN runnable :
          /\ Policy!Selected(i, Policy!Alive \ {runnable[i]})
          /\ left' = IF \E k \in Policy!Alive \ {runnable[i]} : FlowOf[k] = FlowOf[runnable[i]]
                     THEN left ELSE left \cup {FlowOf[runnable[i]]}
          /\ UNCHANGED <<flying, slots, waiting>>
    BY DEF Policy!DispatchSpawnFails
  <1> DEFINE j == runnable[i]
  <1>3. /\ i \in 1..Len(runnable) /\ j \in Jobs
        /\ runnable' = Without(runnable, i)
        /\ age' \in [Jobs -> Nat] /\ deficits' = [f \in Flows |-> deficits'[f]]
        /\ \A f \in Flows : deficits'[f] # None =>
             deficits[f] # None \/ \E k \in Policy!Alive : FlowOf[k] = f
    BY <1>1, <1>2, SelectedIs
  <1>4. j \notin waiting
    BY <1>1, <1>3 DEF JobsApart
  <1>5. JobsApart' /\ runnable' \in Seq(Jobs) /\ Policy!Alive \ {j} \subseteq Policy!Alive'
    <2>1. waiting' = waiting \ {j} /\ flying' = flying
      BY <1>2, <1>4
    <2> QED  BY <2>1, <1>1, <1>3, OthersApart
  <1>6. Policy!DeficitsOfTheLiving'
    <2> SUFFICES ASSUME NEW f \in Flows, deficits'[f] # None
                 PROVE  f \in left' \/ \E k \in Policy!Alive' : FlowOf[k] = f
      BY DEF Policy!DeficitsOfTheLiving
    <2>1. f \in left \/ \E k \in Policy!Alive : FlowOf[k] = f
      BY <1>1, <1>3 DEF Policy!DeficitsOfTheLiving
    <2>2. left \subseteq left'
      BY <1>2
    <2>3. CASE \E k \in Policy!Alive \ {j} : FlowOf[k] = f
      BY <2>3, <1>5
    <2>4. CASE ~\E k \in Policy!Alive \ {j} : FlowOf[k] = f
      <3>1. f \in left \/ f = FlowOf[j]
        BY <2>1, <2>4
      <3> QED  BY <3>1, <2>2, <2>4, <1>2
    <2> QED  BY <2>3, <2>4
  <1>7. Policy!StartedHaveWorkers'
    BY <1>1, <1>2 DEF Policy!StartedHaveWorkers, Policy!InFlight
  <1>8. PolicyTypeOK'
    BY <1>1, <1>2, <1>3, <1>5 DEF PolicyTypeOK
  <1> QED  BY <1>5, <1>6, <1>7, <1>8 DEF PolicyInv

LEMMA PolicyNext ==
    ASSUME Policy!FairPolicyAssumption, PolicyInv, [Policy!Next]_(Policy!vars) PROVE PolicyInv'
  <1>1. CASE UNCHANGED Policy!vars
    BY <1>1 DEF Policy!vars, PolicyInv, PolicyTypeOK, JobsApart, Policy!DeficitsOfTheLiving,
                Policy!StartedHaveWorkers, Policy!Alive, Policy!InQueue, Policy!InFlight
  <1>2. CASE Policy!Dispatch \/ Policy!DispatchSpawnFails
    BY <1>2, DispatchInv, SpawnFailsInv
  <1>3. ASSUME NEW j \in Jobs, Policy!Submit(j) \/ Policy!Continue(j) \/ Policy!Stop(j) \/ Policy!CancelJob(j)
        PROVE  PolicyInv'
    BY <1>3, SubmitInv, ContinueInv, StopInv, CancelJobInv
  <1>4. ASSUME NEW j \in Jobs, NEW tokens \in Charges, Policy!Complete(j, tokens) PROVE PolicyInv'
    BY <1>4, CompleteInv
  <1> QED  BY <1>1, <1>2, <1>3, <1>4 DEF Policy!Next

-----------------------------------------------------------------------------
(* The gate.  A task is in one place: it waits once, or has a permit, or   *)
(* gives one back; so a permit that is handed over is counted once.        *)

GateTypeOK ==
    /\ available \in Nat /\ owed \in Nat /\ permits \in Nat
    /\ acquiring \in Seq(Tasks)
    /\ held \subseteq Tasks /\ IsFiniteSet(held)
    /\ returning \subseteq Tasks /\ IsFiniteSet(returning)

OnePlace ==
    /\ \A i, j \in 1..Len(acquiring) : acquiring[i] = acquiring[j] => i = j
    /\ \A i \in 1..Len(acquiring) : acquiring[i] \notin held /\ acquiring[i] \notin returning
    /\ held \cap returning = {}

GateInv == GateTypeOK /\ OnePlace /\ Gate!PermitsBalance

\* The gate counts as everybody does.
LEMMA GateCounts == ASSUME NEW S PROVE Gate!Cardinality(S) = Cardinality(S)
  BY DEF Gate!Cardinality, Cardinality

LEMMA GateInit == ASSUME Gate!PrequeueGateAssumption, Gate!Init PROVE GateInv
  <1>1. /\ permits \in Nat /\ available = permits /\ acquiring = <<>> /\ held = {} /\ returning = {} /\ owed = 0
    BY DEF Gate!PrequeueGateAssumption, Gate!Init
  <1>2. IsFiniteSet({}) /\ Cardinality({}) = 0
    BY FS_EmptySet
  <1>3. acquiring \in Seq(Tasks) /\ Len(acquiring) = 0
    BY <1>1
  <1>4. GateTypeOK
    BY <1>1, <1>2, <1>3 DEF GateTypeOK
  <1>5. OnePlace
    BY <1>1, <1>3 DEF OnePlace
  <1>6. Gate!PermitsBalance
    BY <1>1, <1>2, GateCounts DEF Gate!PermitsBalance
  <1> QED  BY <1>4, <1>5, <1>6 DEF GateInv

\* The permits out are numbers.
LEMMA Counts == ASSUME GateTypeOK PROVE Cardinality(held) \in Nat /\ Cardinality(returning) \in Nat
  BY FS_CardinalityType DEF GateTypeOK

\* The first of those who wait, and how many they are
LEMMA FirstOnes ==
    ASSUME GateInv, NEW given \in 0..Len(acquiring)
    PROVE  LET ones == {acquiring[i] : i \in 1..given}
           IN  IsFiniteSet(held \cup ones) /\ Cardinality(held \cup ones) = Cardinality(held) + given
  <1> DEFINE ones == {acquiring[i] : i \in 1..given}
             f == [i \in 1..given |-> acquiring[i]]
  <1>1. acquiring \in Seq(Tasks) /\ Len(acquiring) \in Nat /\ given \in Nat /\ 1 \in Int /\ given \in Int
        /\ 1..given \subseteq 1..Len(acquiring)
    BY DEF GateInv, GateTypeOK
  <1>2. \A i, j \in 1..given : acquiring[i] = acquiring[j] => i = j
    BY <1>1 DEF GateInv, OnePlace
  <1>3. f \in Bijection(1..given, ones)
    BY <1>2 DEF Bijection, Injection, Surjection, IsInjective
  <1>4. IsFiniteSet(1..given) /\ Cardinality(1..given) = given
    <2>1. IsFiniteSet(1..given) /\ Cardinality(1..given) = IF 1 > given THEN 0 ELSE given - 1 + 1
      BY <1>1, FS_Interval
    <2> QED  BY <1>1, <2>1
  <1>5. ExistsBijection(1..given, ones)
    BY <1>3 DEF ExistsBijection
  <1> HIDE DEF ones
  <1>6. IsFiniteSet(ones) /\ Cardinality(ones) = given
    BY <1>4, <1>5, FS_Bijection
  <1>7. held \cap ones = {}
    BY <1>1 DEF ones, GateInv, OnePlace
  <1>8. IsFiniteSet(held) /\ Cardinality(held) \in Nat
    BY Counts DEF GateInv, GateTypeOK
  <1>9. /\ IsFiniteSet(held \cup ones)
        /\ Cardinality(held \cup ones) = Cardinality(held) + Cardinality(ones) - Cardinality(held \cap ones)
    BY <1>6, <1>8, FS_Union
  <1>10. Cardinality(held \cap ones) = 0
    BY <1>7, FS_EmptySet
  <1>11. Cardinality(held \cup ones) = Cardinality(held) + given
    BY <1>1, <1>6, <1>8, <1>9, <1>10
  <1> QED  BY <1>9, <1>11 DEF ones

\* n permits for those who wait and the rest for later
LEMMA AddPermitsIs ==
    ASSUME GateInv, NEW n \in Nat, Gate!AddPermits(n)
    PROVE  /\ available' \in Nat /\ IsFiniteSet(held') /\ acquiring' \in Seq(Tasks)
           /\ available' + Cardinality(held') = available + Cardinality(held) + n
           /\ held' \subseteq held \cup {acquiring[i] : i \in 1..Len(acquiring)}
           /\ \A i, j \in 1..Len(acquiring') : acquiring'[i] = acquiring'[j] => i = j
           /\ \A i \in 1..Len(acquiring') : acquiring'[i] \notin held' /\ acquiring'[i] \notin returning
  <1>0. acquiring \in Seq(Tasks) /\ Len(acquiring) \in Nat /\ available \in Nat /\ Cardinality(held) \in Nat
    BY Counts DEF GateInv, GateTypeOK
  <1>1. PICK given : given = Gate!Smaller(n, Len(acquiring))
    OBVIOUS
  <1>2. given \in 0..Len(acquiring) /\ n - given \in Nat /\ given \in Nat
    BY <1>0, <1>1 DEF Gate!Smaller
  <1>3. /\ held' = held \cup {acquiring[i] : i \in 1..given}
        /\ acquiring' = SubSeq(acquiring, given + 1, Len(acquiring)) /\ available' = available + (n - given)
    BY <1>1 DEF Gate!AddPermits
  <1>4. IsFiniteSet(held') /\ Cardinality(held') = Cardinality(held) + given
    BY <1>2, <1>3, FirstOnes
  <1>5. /\ acquiring' \in Seq(Tasks) /\ Len(acquiring') = Len(acquiring) - given
        /\ \A i \in 1..(Len(acquiring) - given) : acquiring'[i] = acquiring[given + i]
    BY <1>0, <1>2, <1>3
  <1>6. \A i, j \in 1..Len(acquiring) : acquiring[i] = acquiring[j] => i = j
    BY DEF GateInv, OnePlace
  <1>7. \A i \in 1..Len(acquiring) : acquiring[i] \notin held /\ acquiring[i] \notin returning
    BY DEF GateInv, OnePlace
  <1>8. ASSUME NEW i \in 1..Len(acquiring')
        PROVE  /\ acquiring'[i] = acquiring[given + i] /\ given + i \in 1..Len(acquiring)
               /\ ~(given + i <= given)
    BY <1>0, <1>2, <1>5
  <1>9. \A i, j \in 1..Len(acquiring') : acquiring'[i] = acquiring'[j] => i = j
    <2> SUFFICES ASSUME NEW i \in 1..Len(acquiring'), NEW j \in 1..Len(acquiring'), acquiring'[i] = acquiring'[j]
                 PROVE  i = j
      OBVIOUS
    <2>1. given + i = given + j
      BY <1>6, <1>8
    <2> QED  BY <2>1, <1>2, <1>5
  <1>10. \A i \in 1..Len(acquiring') : acquiring'[i] \notin held' /\ acquiring'[i] \notin returning
    <2> SUFFICES ASSUME NEW i \in 1..Len(acquiring')
                 PROVE  acquiring'[i] \notin held' /\ acquiring'[i] \notin returning
      OBVIOUS
    <2>1. acquiring[given + i] \notin held /\ acquiring[given + i] \notin returning
      BY <1>7, <1>8
    <2>2. \A k \in 1..given : k # given + i /\ k \in 1..Len(acquiring)
      BY <1>0, <1>2, <1>8
    <2>3. acquiring[given + i] \notin {acquiring[k] : k \in 1..given}
      BY <2>2, <1>6, <1>8
    <2> QED  BY <2>1, <2>3, <1>3, <1>8
  <1>11. available' \in Nat /\ available' + Cardinality(held') = available + Cardinality(held) + n
    BY <1>0, <1>2, <1>3, <1>4
  <1>12. held' \subseteq held \cup {acquiring[i] : i \in 1..Len(acquiring)}
    BY <1>0, <1>2, <1>3
  <1> QED  BY <1>4, <1>5, <1>9, <1>10, <1>11, <1>12

\* Permits out and permits left
LEMMA Balanced ==
    ASSUME GateInv
    PROVE  /\ available + Cardinality(held) + Cardinality(returning) = permits + owed
           /\ available \in Nat /\ owed \in Nat /\ permits \in Nat
           /\ Cardinality(held) \in Nat /\ Cardinality(returning) \in Nat
           /\ IsFiniteSet(held) /\ IsFiniteSet(returning)
  BY Counts, GateCounts DEF GateInv, GateTypeOK, Gate!PermitsBalance

LEMMA StillBalanced ==
    ASSUME available' + Cardinality(held') + Cardinality(returning') = permits' + owed'
    PROVE  Gate!PermitsBalance'
  BY GateCounts DEF Gate!PermitsBalance

\* A task that comes for a permit gets one ...
LEMMA TakeInv ==
    ASSUME GateInv, NEW t \in Tasks, Gate!Outside(t), available > 0, held' = held \cup {t},
           available' = available - 1, UNCHANGED <<acquiring, returning, permits, owed>>
    PROVE  GateInv'
  <1>1. acquiring \in Seq(Tasks) /\ DOMAIN acquiring = 1..Len(acquiring)
    BY DEF GateInv, GateTypeOK
  <1>2. t \notin held /\ t \notin returning /\ \A i \in 1..Len(acquiring) : acquiring[i] # t
    BY <1>1 DEF Gate!Outside, Gate!IsWaiting
  <1>3. IsFiniteSet(held') /\ Cardinality(held') = Cardinality(held) + 1
    BY <1>2, Balanced, FS_AddElement
  <1>4. available' \in Nat /\ available' + Cardinality(held') + Cardinality(returning') = permits' + owed'
    BY <1>3, Balanced
  <1>5. GateTypeOK'
    BY <1>3, <1>4 DEF GateInv, GateTypeOK
  <1>6. OnePlace'
    BY <1>2 DEF GateInv, OnePlace
  <1>7. Gate!PermitsBalance'
    BY <1>4, StillBalanced
  <1> QED  BY <1>5, <1>6, <1>7 DEF GateInv

\* ... or waits.
LEMMA WaitInv ==
    ASSUME GateInv, NEW t \in Tasks, Gate!Outside(t), acquiring' = Append(acquiring, t),
           UNCHANGED <<held, available, returning, permits, owed>>
    PROVE  GateInv'
  <1>1. acquiring \in Seq(Tasks) /\ DOMAIN acquiring = 1..Len(acquiring) /\ Len(acquiring) \in Nat
    BY DEF GateInv, GateTypeOK
  <1>2. t \notin held /\ t \notin returning /\ \A i \in 1..Len(acquiring) : acquiring[i] # t
    BY <1>1 DEF Gate!Outside, Gate!IsWaiting
  <1>3. /\ acquiring' \in Seq(Tasks) /\ Len(acquiring') = Len(acquiring) + 1 /\ acquiring'[Len(acquiring) + 1] = t
        /\ \A i \in 1..Len(acquiring) : acquiring'[i] = acquiring[i]
    BY <1>1
  <1>4. \A i \in 1..Len(acquiring') : i \in 1..Len(acquiring) \/ i = Len(acquiring) + 1
    BY <1>1, <1>3
  <1>5. OnePlace'
    BY <1>2, <1>3, <1>4 DEF GateInv, OnePlace
  <1>6. Gate!PermitsBalance'
    BY Balanced, StillBalanced
  <1> QED  BY <1>3, <1>5, <1>6 DEF GateInv, GateTypeOK

LEMMA LeaveInv == ASSUME GateInv, NEW t \in Tasks, Gate!Leave(t) PROVE GateInv'
  <1>1. /\ acquiring \in Seq(Tasks) /\ Len(acquiring) \in Nat /\ \E i \in 1..Len(acquiring) : acquiring[i] = t
        /\ UNCHANGED <<available, held, returning, permits, owed>>
    BY DEF GateInv, GateTypeOK, Gate!Leave, Gate!IsWaiting
  <1>2. PICK m \in 1..Len(acquiring) :
          acquiring' = SubSeq(acquiring, 1, m - 1) \o SubSeq(acquiring, m + 1, Len(acquiring))
    BY <1>1, RemoveFirstIs DEF Gate!Leave
  <1>3. acquiring \in Seq(Tasks)
    BY <1>1
  <1>4. /\ acquiring' \in Seq(Tasks) /\ Len(acquiring') = Len(acquiring) - 1
        /\ \A j \in 1..(Len(acquiring) - 1) : acquiring'[j] = IF j < m THEN acquiring[j] ELSE acquiring[j + 1]
    BY <1>2, <1>3, TakenOutIs
  <1>5. ASSUME NEW j \in 1..Len(acquiring')
        PROVE  /\ acquiring'[j] = IF j < m THEN acquiring[j] ELSE acquiring[j + 1]
               /\ j \in 1..Len(acquiring) /\ j + 1 \in 1..Len(acquiring)
    BY <1>1, <1>4
  <1>6. OnePlace'
    <2>1. ASSUME NEW i \in 1..Len(acquiring'), NEW j \in 1..Len(acquiring'), acquiring'[i] = acquiring'[j]
          PROVE  i = j
      <3>1. \A k, l \in 1..Len(acquiring) : acquiring[k] = acquiring[l] => k = l
        BY DEF GateInv, OnePlace
      <3>2. (IF i < m THEN i ELSE i + 1) = (IF j < m THEN j ELSE j + 1)
        BY <1>5, <2>1, <3>1
      <3>3. i \in Nat /\ j \in Nat /\ m \in Nat
        BY <1>1, <1>4
      <3> QED  BY <3>2, <3>3
    <2>2. \A i \in 1..Len(acquiring') : acquiring'[i] \notin held /\ acquiring'[i] \notin returning
      BY <1>5 DEF GateInv, OnePlace
    <2>3. held' = held /\ returning' = returning /\ held \cap returning = {}
      BY <1>1 DEF GateInv, OnePlace
    <2> QED  BY <2>1, <2>2, <2>3 DEF OnePlace
  <1>7. Gate!PermitsBalance'
    BY <1>1, Balanced, StillBalanced
  <1> QED  BY <1>1, <1>4, <1>6, <1>7 DEF GateInv, GateTypeOK

LEMMA LowerInv ==
    ASSUME Gate!PrequeueGateAssumption, GateInv, NEW new \in Limits, Gate!Lower(new) PROVE GateInv'
  <1>1. new \in Nat /\ new < permits /\ permits' = new /\ UNCHANGED <<acquiring, held, returning>>
    BY DEF Gate!PrequeueGateAssumption, Gate!Lower
  <1>2. PICK retired : retired = Gate!Smaller(permits - new, available)
    OBVIOUS
  <1>3. available' = available - retired /\ owed' = owed + ((permits - new) - retired)
    BY <1>2 DEF Gate!Lower
  <1>4. retired \in Nat /\ available - retired \in Nat /\ (permits - new) - retired \in Nat
    BY <1>1, <1>2, Balanced DEF Gate!Smaller
  <1>5. available' + Cardinality(held') + Cardinality(returning') = permits' + owed'
        /\ available' \in Nat /\ owed' \in Nat
    <2>1. Cardinality(held') = Cardinality(held) /\ Cardinality(returning') = Cardinality(returning)
      BY <1>1
    <2>2. available' \in Nat /\ owed' \in Nat
      BY <1>3, <1>4, Balanced
    <2>3. PICK h \in Nat, r \in Nat : h = Cardinality(held) /\ r = Cardinality(returning)
                                    /\ available + h + r = permits + owed
      BY Balanced
    <2>4. (available - retired) + Cardinality(held) + Cardinality(returning)
            = new + (owed + ((permits - new) - retired))
      <3>1. available \in Nat /\ owed \in Nat /\ permits \in Nat
        BY Balanced
      <3>2. (available - retired) + h + r = new + (owed + ((permits - new) - retired))
        BY <2>3, <3>1, <1>1, <1>4
      <3> QED  BY <2>3, <3>2
    <2> QED  BY <2>1, <2>2, <2>4, <1>1, <1>3
  <1>6. Gate!PermitsBalance'
    BY <1>5, StillBalanced
  <1>7. OnePlace'
    BY <1>1 DEF GateInv, OnePlace
  <1> QED  BY <1>1, <1>5, <1>6, <1>7 DEF GateInv, GateTypeOK

LEMMA RaiseInv ==
    ASSUME Gate!PrequeueGateAssumption, GateInv, NEW new \in Limits, Gate!Raise(new) PROVE GateInv'
  <1>1. new \in Nat /\ new >= permits /\ permits' = new /\ returning' = returning
    BY DEF Gate!PrequeueGateAssumption, Gate!Raise
  <1>2. PICK cancelled : cancelled = Gate!Smaller(new - permits, owed)
    OBVIOUS
  <1>3. owed' = owed - cancelled /\ Gate!AddPermits((new - permits) - cancelled)
    BY <1>2 DEF Gate!Raise
  <1>4. cancelled \in Nat /\ owed - cancelled \in Nat /\ (new - permits) - cancelled \in Nat
    BY <1>1, <1>2, Balanced DEF Gate!Smaller
  <1>5. PICK n \in Nat : n = (new - permits) - cancelled /\ Gate!AddPermits(n)
    BY <1>3, <1>4
  <1>6. /\ available' \in Nat /\ IsFiniteSet(held') /\ acquiring' \in Seq(Tasks)
        /\ available' + Cardinality(held') = available + Cardinality(held) + n
        /\ held' \subseteq held \cup {acquiring[i] : i \in 1..Len(acquiring)}
        /\ \A i, j \in 1..Len(acquiring') : acquiring'[i] = acquiring'[j] => i = j
        /\ \A i \in 1..Len(acquiring') : acquiring'[i] \notin held' /\ acquiring'[i] \notin returning
    BY <1>5, AddPermitsIs
  <1>7. Cardinality(held') \in Nat
    BY <1>6, FS_CardinalityType
  <1>8. available' + Cardinality(held') + Cardinality(returning') = permits' + owed'
    <2>1. Cardinality(returning') = Cardinality(returning)
      BY <1>1
    <2>2. PICK h \in Nat, r \in Nat : h = Cardinality(held) /\ r = Cardinality(returning)
                                    /\ available + h + r = permits + owed
      BY Balanced
    <2>3. available' + Cardinality(held') = available + Cardinality(held) + ((new - permits) - cancelled)
      BY <1>5, <1>6
    <2>4. available' + Cardinality(held') + Cardinality(returning) = new + (owed - cancelled)
      <3>1. available \in Nat /\ owed \in Nat /\ permits \in Nat
        BY Balanced
      <3>2. PICK g \in Nat : g = Cardinality(held')
        BY <1>7
      <3>3. available' + g = available + h + ((new - permits) - cancelled)
        BY <2>2, <2>3, <3>2
      <3>4. available' \in Nat
        BY <1>6
      <3>5. available' + g + r = new + (owed - cancelled)
        BY <2>2, <3>1, <3>2, <3>3, <3>4, <1>1, <1>4
      <3> QED  BY <2>2, <3>2, <3>5
    <2> QED  BY <2>1, <2>4, <1>1, <1>3
  <1>9. Gate!PermitsBalance'
    BY <1>8, StillBalanced
  <1>10. held' \subseteq Tasks /\ held' \cap returning = {}
    <2>1. acquiring \in Seq(Tasks) /\ held \subseteq Tasks /\ held \cap returning = {}
          /\ \A i \in 1..Len(acquiring) : acquiring[i] \in Tasks /\ acquiring[i] \notin returning
      BY DEF GateInv, GateTypeOK, OnePlace
    <2> QED  BY <2>1, <1>6
  <1>11. OnePlace'
    BY <1>1, <1>6, <1>10 DEF OnePlace
  <1>12. GateTypeOK'
    BY <1>1, <1>3, <1>4, <1>6, <1>10 DEF GateInv, GateTypeOK
  <1> QED  BY <1>9, <1>11, <1>12 DEF GateInv

LEMMA RetireInv == ASSUME GateInv, NEW t \in Tasks, Gate!Retire(t) PROVE GateInv'
  <1>1. t \in held /\ owed > 0 /\ held' = held \ {t} /\ owed' = owed - 1
        /\ UNCHANGED <<available, acquiring, returning, permits>>
    BY DEF Gate!Retire
  <1>2. IsFiniteSet(held') /\ Cardinality(held') = Cardinality(held) - 1
    BY <1>1, Balanced, FS_RemoveElement
  <1>3. owed' \in Nat /\ available' + Cardinality(held') + Cardinality(returning') = permits' + owed'
    BY <1>1, <1>2, Balanced
  <1>4. Gate!PermitsBalance'
    BY <1>3, StillBalanced
  <1>5. OnePlace'
    BY <1>1 DEF GateInv, OnePlace
  <1> QED  BY <1>1, <1>2, <1>3, <1>4, <1>5 DEF GateInv, GateTypeOK

LEMMA ReleaseInv == ASSUME GateInv, NEW t \in Tasks, Gate!Release(t) PROVE GateInv'
  <1>1. t \in held /\ held' = held \ {t} /\ returning' = returning \cup {t}
        /\ UNCHANGED <<available, acquiring, permits, owed>>
    BY DEF Gate!Release
  <1>2. t \notin returning
    BY <1>1 DEF GateInv, OnePlace
  <1>3. /\ IsFiniteSet(held') /\ Cardinality(held') = Cardinality(held) - 1
        /\ IsFiniteSet(returning') /\ Cardinality(returning') = Cardinality(returning) + 1
    BY <1>1, <1>2, Balanced, FS_RemoveElement, FS_AddElement
  <1>4. available' + Cardinality(held') + Cardinality(returning') = permits' + owed'
    BY <1>1, <1>3, Balanced
  <1>5. Gate!PermitsBalance'
    BY <1>4, StillBalanced
  <1>6. OnePlace'
    BY <1>1, <1>2 DEF GateInv, OnePlace
  <1> QED  BY <1>1, <1>3, <1>5, <1>6 DEF GateInv, GateTypeOK

LEMMA ReturnInv == ASSUME GateInv, NEW t \in Tasks, Gate!Return(t) PROVE GateInv'
  <1>1. t \in returning /\ returning' = returning \ {t} /\ Gate!AddPermits(1) /\ UNCHANGED <<permits, owed>>
    BY DEF Gate!Return
  <1>2. /\ available' \in Nat /\ IsFiniteSet(held') /\ acquiring' \in Seq(Tasks)
        /\ available' + Cardinality(held') = available + Cardinality(held) + 1
        /\ held' \subseteq held \cup {acquiring[i] : i \in 1..Len(acquiring)}
        /\ \A i, j \in 1..Len(acquiring') : acquiring'[i] = acquiring'[j] => i = j
        /\ \A i \in 1..Len(acquiring') : acquiring'[i] \notin held' /\ acquiring'[i] \notin returning
    <2>1. 1 \in Nat
      OBVIOUS
    <2> QED  BY <2>1, <1>1, AddPermitsIs
  <1>3. IsFiniteSet(returning') /\ Cardinality(returning') = Cardinality(returning) - 1 /\ Cardinality(held') \in Nat
    BY <1>1, <1>2, Balanced, FS_RemoveElement, FS_CardinalityType
  <1>4. available' + Cardinality(held') + Cardinality(returning') = permits' + owed'
    BY <1>1, <1>2, <1>3, Balanced
  <1>5. Gate!PermitsBalance'
    BY <1>4, StillBalanced
  <1>6. held' \subseteq Tasks /\ held' \cap returning = {}
    <2>1. acquiring \in Seq(Tasks) /\ held \subseteq Tasks /\ held \cap returning = {}
          /\ \A i \in 1..Len(acquiring) : acquiring[i] \in Tasks /\ acquiring[i] \notin returning
      BY DEF GateInv, GateTypeOK, OnePlace
    <2> QED  BY <2>1, <1>2
  <1>7. OnePlace'
    BY <1>1, <1>2, <1>6 DEF OnePlace
  <1> QED  BY <1>1, <1>2, <1>3, <1>5, <1>6, <1>7 DEF GateInv, GateTypeOK

LEMMA GateNext ==
    ASSUME Gate!PrequeueGateAssumption, GateInv, [Gate!Next]_(Gate!vars) PROVE GateInv'
  <1>1. CASE UNCHANGED Gate!vars
    BY <1>1, GateCounts DEF Gate!vars, GateInv, GateTypeOK, OnePlace, Gate!PermitsBalance
  <1>2. ASSUME NEW t \in Tasks, Gate!Acquire(t) PROVE GateInv'
    <2>1. CASE available > 0
      BY <1>2, <2>1, TakeInv DEF Gate!Acquire
    <2>2. CASE ~(available > 0)
      BY <1>2, <2>2, WaitInv DEF Gate!Acquire
    <2> QED  BY <2>1, <2>2
  <1>3. ASSUME NEW t \in Tasks, Gate!TryAcquire(t) PROVE GateInv'
    BY <1>3, TakeInv DEF Gate!TryAcquire
  <1>4. ASSUME NEW t \in Tasks, Gate!Leave(t) \/ Gate!Retire(t) \/ Gate!Release(t) \/ Gate!Return(t) PROVE GateInv'
    BY <1>4, LeaveInv, RetireInv, ReleaseInv, ReturnInv
  <1>5. ASSUME NEW new \in Limits, Gate!Lower(new) \/ Gate!Raise(new) PROVE GateInv'
    BY <1>5, LowerInv, RaiseInv
  <1> QED  BY <1>1, <1>2, <1>3, <1>4, <1>5 DEF Gate!Next

-----------------------------------------------------------------------------
\* The inductive invariants of the gate and of the policy, in every behaviour of what
\* serves requests.
THEOREM AccountsInvariant == Spec => [](GateInv /\ PolicyInv)
  <1>1. Gate!PrequeueGateAssumption /\ Policy!FairPolicyAssumption
    BY ServingAssumption
  <1>2. Init => GateInv /\ PolicyInv
    BY <1>1, GateInit, PolicyInit DEF Init
  <1>3. GateInv /\ PolicyInv /\ [Next]_vars => (GateInv /\ PolicyInv)'
    <2> SUFFICES ASSUME GateInv, PolicyInv, [Next]_vars PROVE GateInv' /\ PolicyInv'
      OBVIOUS
    <2>1. [Gate!Next]_(Gate!vars)
      BY DEF Next, GateStep, PolicyStep, StopsStep, MappedStep, StreamStep, vars, gateVars, Gate!vars
    <2>2. [Policy!Next]_(Policy!vars)
      BY DEF Next, GateStep, PolicyStep, StopsStep, MappedStep, StreamStep, vars, policyVars, Policy!vars
    <2> QED  BY <2>1, <2>2, <1>1, GateNext, PolicyNext
  <1> QED  BY <1>2, <1>3, PTL DEF Spec

\* However often PrequeueGate::set_limit moves the limit while permits are out, waited
\* for or given back, what is out and what is left is the limit and the debt; a deficit
\* without a job is one that dispatch_one left when it failed, and every other way to
\* end clears it (clear_if_idle); and a job that has run finds its worker: for any
\* connections, limits, jobs, flows, slots, classes, weights and charges.
THEOREM AccountsAlwaysBalance == Spec => []AccountsBalance
  <1>1. GateInv /\ PolicyInv => AccountsBalance
    BY DEF GateInv, PolicyInv, AccountsBalance
  <1> QED  BY <1>1, AccountsInvariant, PTL

-----------------------------------------------------------------------------
(* What rows say together.  FlattenSeq is what its recursive function says: *)

\* One round of the function, with g for the sequences before the i-th
Flat(g, ss, i) == IF i = 1 THEN ss[i] ELSE g[i - 1] \o ss[i]

Flats(ss) == CHOOSE g : g = [i \in 1..Len(ss) |-> Flat(g, ss, i)]

LEMMA FlattenIs ==
    ASSUME NEW ss PROVE Stream!FlattenSeq(ss) = IF Len(ss) = 0 THEN ss ELSE Flats(ss)[Len(ss)]
  BY DEF Stream!FlattenSeq, Flats, Flat

\* There is one such function ...
LEMMA FlatExists ==
    ASSUME NEW T, NEW ss \in Seq(Seq(T))
    PROVE  \E g \in [1..Len(ss) -> Seq(T)] : g = [i \in 1..Len(ss) |-> Flat(g, ss, i)]
  <1> DEFINE Up(k) == {g \in [1..Len(ss) -> Seq(T)] : \A i \in 1..Len(ss) : i <= k => g[i] = Flat(g, ss, i)}
             Bad == {k \in Nat : Up(k) = {}}
  <1>0. Len(ss) \in Nat /\ \A i \in 1..Len(ss) : ss[i] \in Seq(T)
    OBVIOUS
  <1>1. 0 \notin Bad
    <2> DEFINE zero == [i \in 1..Len(ss) |-> <<>>]
    <2>1. zero \in [1..Len(ss) -> Seq(T)]
      OBVIOUS
    <2>2. zero \in Up(0)
      BY <2>1
    <2> QED  BY <2>2
  <1>2. ASSUME NEW k \in Nat, k \notin Bad  PROVE k + 1 \notin Bad
    <2>1. PICK g \in [1..Len(ss) -> Seq(T)] : \A i \in 1..Len(ss) : i <= k => g[i] = Flat(g, ss, i)
      BY <1>2
    <2> DEFINE h == [i \in 1..Len(ss) |-> Flat(g, ss, i)]
    <2>2. h \in [1..Len(ss) -> Seq(T)]
      <3> SUFFICES ASSUME NEW i \in 1..Len(ss) PROVE Flat(g, ss, i) \in Seq(T)
        OBVIOUS
      <3>1. CASE i = 1
        BY <3>1, <1>0 DEF Flat
      <3>2. CASE i # 1
        <4>1. i - 1 \in 1..Len(ss)
          BY <3>2, <1>0
        <4>2. g[i - 1] \in Seq(T) /\ ss[i] \in Seq(T)
          BY <4>1, <2>1, <1>0
        <4>3. g[i - 1] \o ss[i] \in Seq(T)
          BY <4>2
        <4> QED  BY <3>2, <4>3 DEF Flat
      <3> QED  BY <3>1, <3>2
    <2>3. ASSUME NEW i \in 1..Len(ss), i <= k + 1  PROVE h[i] = Flat(h, ss, i)
      <3>1. CASE i = 1
        BY <3>1 DEF Flat
      <3>2. CASE i # 1
        <4>1. i - 1 \in 1..Len(ss) /\ i - 1 <= k
          BY <3>2, <2>3, <1>0
        <4>2. h[i - 1] = g[i - 1]
          BY <4>1, <2>1
        <4>3. h[i] = Flat(g, ss, i)
          OBVIOUS
        <4> HIDE DEF h
        <4> QED  BY <3>2, <4>2, <4>3 DEF Flat
      <3> QED  BY <3>1, <3>2
    <2>4. h \in Up(k + 1)
      <3> HIDE DEF h
      <3> QED  BY <2>2, <2>3
    <2> QED  BY <2>4
  <1>3. Bad \subseteq Nat
    OBVIOUS
  <1>4. Bad = {}
    <2> HIDE DEF Bad
    <2> SUFFICES ASSUME Bad # {} PROVE FALSE
      OBVIOUS
    <2>1. PICK n \in Bad : \A m \in Bad : n <= m
      BY <1>3, LeastNumber
    <2>2. n \in Nat /\ n # 0
      BY <1>1, <1>3
    <2>3. n - 1 \in Nat /\ n - 1 \notin Bad
      BY <2>1, <2>2
    <2>4. (n - 1) + 1 \notin Bad
      BY <1>2, <2>3
    <2> QED  BY <2>2, <2>4
  <1>5. PICK g \in Up(Len(ss)) : TRUE
    BY <1>0, <1>4
  <1>6. g = [i \in 1..Len(ss) |-> Flat(g, ss, i)]
    BY <1>5, <1>0
  <1> QED  BY <1>5, <1>6

IsFlat(g, ss, n) == \A i \in 1..n : g[i] = Flat(g, ss, i)

SameUpTo(f, g, n) == \A i \in 1..n : f[i] = g[i]

\* ... and it depends on what comes before alone.
LEMMA FlatUnique ==
    ASSUME NEW n \in Nat, NEW ss, NEW tt, NEW g, NEW h,
           SameUpTo(ss, tt, n), IsFlat(g, ss, n), IsFlat(h, tt, n)
    PROVE  SameUpTo(g, h, n)
  <1> USE DEF SameUpTo, IsFlat
  <1> DEFINE Bad == {i \in 1..n : g[i] # h[i]}
  <1> SUFFICES ASSUME Bad # {} PROVE FALSE
    OBVIOUS
  <1>1. PICK i \in Bad : \A m \in Bad : i <= m
    <2>1. Bad \in SUBSET Nat
      OBVIOUS
    <2> HIDE DEF Bad
    <2> QED  BY <2>1, LeastNumber
  <1>2. CASE i = 1
    BY <1>2, <1>1 DEF Flat
  <1>3. CASE i # 1
    <2>1. i - 1 \in 1..n /\ i - 1 \notin Bad
      BY <1>3, <1>1
    <2>2. g[i - 1] = h[i - 1]
      BY <2>1
    <2> QED  BY <1>1, <1>3, <2>2 DEF Flat
  <1> QED  BY <1>2, <1>3

LEMMA FlatsAre ==
    ASSUME NEW T, NEW ss \in Seq(Seq(T))
    PROVE  /\ Flats(ss) \in [1..Len(ss) -> Seq(T)]
           /\ IsFlat(Flats(ss), ss, Len(ss))
  <1>1. PICK g \in [1..Len(ss) -> Seq(T)] : g = [i \in 1..Len(ss) |-> Flat(g, ss, i)]
    BY FlatExists
  <1>2. Flats(ss) = [i \in 1..Len(ss) |-> Flat(Flats(ss), ss, i)]
    BY <1>1 DEF Flats
  <1>3. IsFlat(Flats(ss), ss, Len(ss))
    BY <1>2 DEF IsFlat
  <1>4. IsFlat(g, ss, Len(ss))
    BY <1>1 DEF IsFlat
  <1>5. Len(ss) \in Nat /\ SameUpTo(ss, ss, Len(ss))
    BY DEF SameUpTo
  <1>6. SameUpTo(Flats(ss), g, Len(ss))
    BY <1>3, <1>4, <1>5, FlatUnique
  <1>7. Flats(ss) \in [1..Len(ss) -> Seq(T)]
    <2>1. DOMAIN Flats(ss) = 1..Len(ss)
      BY <1>2
    <2>2. Flats(ss) = [i \in 1..Len(ss) |-> Flats(ss)[i]]
      BY <2>1, <1>2
    <2> QED  BY <2>2, <1>1, <1>6 DEF SameUpTo
  <1> QED  BY <1>3, <1>7

\* A flattened sequence of sequences is a sequence, and one more is put behind it.
LEMMA FlattenType ==
    ASSUME NEW T, NEW ss \in Seq(Seq(T)) PROVE Stream!FlattenSeq(ss) \in Seq(T)
  <1>1. CASE Len(ss) = 0
    <2>1. ss = <<>>
      BY <1>1
    <2>2. <<>> \in Seq(T)
      OBVIOUS
    <2> QED  BY <1>1, <2>1, <2>2, FlattenIs
  <1>2. CASE Len(ss) # 0
    <2>1. Len(ss) \in 1..Len(ss)
      BY <1>2
    <2> QED  BY <1>2, <2>1, FlattenIs, FlatsAre
  <1> QED  BY <1>1, <1>2

LEMMA FlattenAppend ==
    ASSUME NEW T, NEW ss \in Seq(Seq(T)), NEW s \in Seq(T)
    PROVE  Stream!FlattenSeq(Append(ss, s)) = Stream!FlattenSeq(ss) \o s
  <1> DEFINE tt == Append(ss, s)
             n == Len(ss)
  <1>1. /\ n \in Nat /\ tt \in Seq(Seq(T)) /\ Len(tt) = n + 1 /\ tt[n + 1] = s
        /\ SameUpTo(ss, tt, n)
    BY DEF SameUpTo
  <1> HIDE DEF tt, n
  <1>2. IsFlat(Flats(ss), ss, n) /\ IsFlat(Flats(tt), tt, n + 1)
    BY <1>1, FlatsAre DEF n
  <1>3. SameUpTo(Flats(ss), Flats(tt), n)
    <2>1. IsFlat(Flats(tt), tt, n)
      BY <1>1, <1>2 DEF IsFlat
    <2> QED  BY <2>1, <1>1, <1>2, FlatUnique
  <1>4. Stream!FlattenSeq(tt) = Flats(tt)[n + 1] /\ Flats(tt)[n + 1] = Flat(Flats(tt), tt, n + 1)
    BY <1>1, <1>2, FlattenIs DEF IsFlat
  <1>5. CASE n = 0
    <2>1. ss = <<>>
      BY <1>5 DEF n
    <2>2. Stream!FlattenSeq(ss) = <<>>
      BY <2>1, <1>5, FlattenIs DEF n
    <2>3. Stream!FlattenSeq(tt) = s
      BY <1>1, <1>4, <1>5 DEF Flat
    <2> QED  BY <2>2, <2>3 DEF tt
  <1>6. CASE n # 0
    <2>1. Stream!FlattenSeq(ss) = Flats(ss)[n]
      BY <1>6, FlattenIs DEF n
    <2>2. Flat(Flats(tt), tt, n + 1) = Flats(tt)[n] \o s
      BY <1>1, <1>6 DEF Flat
    <2>3. Flats(tt)[n] = Flats(ss)[n]
      BY <1>1, <1>3, <1>6 DEF SameUpTo
    <2> QED  BY <1>4, <2>1, <2>2, <2>3 DEF tt
  <1> QED  BY <1>5, <1>6

\* What one row says
Said(row, type) == IF row.type = type THEN row.text ELSE <<>>

RowTypes == {"created", "item_added", "part_added", "delta", "call_added", "call_done", "completed",
             "text_done", "part_done", "item_done", "error", "start", "finish", "DONE", "answer"}

\* Rows before they are numbered, and all rows
Plain == [type : RowTypes, text : Seq(Nat)]

Rows == Plain \cup [type : RowTypes, text : Seq(Nat), sequence : Nat \cup {None}]

LEMMA RowFields == ASSUME NEW row \in Rows PROVE row.text \in Seq(Nat) /\ row.type \in RowTypes
  BY DEF Rows, Plain

LEMMA SaidType == ASSUME NEW row \in Rows, NEW type PROVE Said(row, type) \in Seq(Nat)
  <1>1. <<>> \in Seq(Nat)
    OBVIOUS
  <1> QED  BY <1>1, RowFields DEF Said

LEMMA AsFunction ==
    ASSUME NEW S, NEW s \in Seq(S), NEW n, Len(s) = n PROVE s = [i \in 1..n |-> s[i]]
  OBVIOUS

LEMMA TextInAppend ==
    ASSUME NEW some \in Seq(Rows), NEW row \in Rows, NEW type
    PROVE  /\ Stream!TextIn(some, type) \in Seq(Nat)
           /\ Stream!TextIn(Append(some, row), type) = Stream!TextIn(some, type) \o Said(row, type)
  <1> DEFINE pieces == [i \in DOMAIN some |-> Said(some[i], type)]
             more   == [i \in DOMAIN Append(some, row) |-> Said(Append(some, row)[i], type)]
  <1>1. DOMAIN some = 1..Len(some) /\ Len(some) \in Nat /\ \A i \in DOMAIN some : some[i] \in Rows
    OBVIOUS
  <1>2. /\ Append(some, row) \in Seq(Rows) /\ DOMAIN Append(some, row) = 1..(Len(some) + 1)
        /\ Append(some, row)[Len(some) + 1] = row
        /\ \A i \in DOMAIN some : Append(some, row)[i] = some[i]
    OBVIOUS
  <1>3. pieces \in Seq(Seq(Nat)) /\ Len(pieces) = Len(some)
    <2>1. \A i \in 1..Len(some) : pieces[i] \in Seq(Nat)
      BY <1>1, SaidType
    <2>2. pieces \in [1..Len(some) -> Seq(Nat)]
      BY <1>1, <2>1
    <2> HIDE DEF pieces
    <2> QED  BY <1>1, <2>2
  <1>4. Said(row, type) \in Seq(Nat)
    BY SaidType
  <1>5. more = Append(pieces, Said(row, type))
    <2>1. /\ Append(pieces, Said(row, type)) \in Seq(Seq(Nat))
          /\ DOMAIN Append(pieces, Said(row, type)) = 1..(Len(some) + 1)
          /\ \A i \in 1..Len(some) : Append(pieces, Said(row, type))[i] = pieces[i]
          /\ Append(pieces, Said(row, type))[Len(some) + 1] = Said(row, type)
      <3> HIDE DEF pieces
      <3> QED  BY <1>1, <1>3, <1>4
    <2>2. DOMAIN more = 1..(Len(some) + 1)
      BY <1>2
    <2>3. ASSUME NEW i \in 1..(Len(some) + 1) PROVE more[i] = Append(pieces, Said(row, type))[i]
      <3>1. more[i] = Said(Append(some, row)[i], type)
        BY <1>2
      <3>2. CASE i \in 1..Len(some)
        <4>1. pieces[i] = Said(some[i], type) /\ Append(some, row)[i] = some[i]
          BY <1>1, <1>2, <3>2
        <4> QED  BY <2>1, <3>1, <3>2, <4>1
      <3>3. CASE i = Len(some) + 1
        BY <1>2, <2>1, <3>1, <3>3
      <3> QED  BY <1>1, <3>2, <3>3
    <2>4. more = [i \in 1..(Len(some) + 1) |-> more[i]]
      BY <2>2
    <2>5. Append(pieces, Said(row, type)) = [i \in 1..(Len(some) + 1) |-> Append(pieces, Said(row, type))[i]]
      <3>1. Append(pieces, Said(row, type)) \in Seq(Seq(Nat)) /\ Len(Append(pieces, Said(row, type))) = Len(some) + 1
        <4> HIDE DEF pieces
        <4> QED  BY <1>1, <1>3, <1>4
      <3> HIDE DEF pieces
      <3> QED  BY <3>1, AsFunction
    <2> HIDE DEF more, pieces
    <2> QED  BY <2>3, <2>4, <2>5
  <1>6. Stream!TextIn(some, type) = Stream!FlattenSeq(pieces)
    BY DEF Stream!TextIn, Said
  <1>7. Stream!TextIn(Append(some, row), type) = Stream!FlattenSeq(more)
    BY DEF Stream!TextIn, Said
  <1> HIDE DEF pieces, more
  <1>8. Stream!FlattenSeq(Append(pieces, Said(row, type))) = Stream!FlattenSeq(pieces) \o Said(row, type)
    BY <1>3, <1>4, FlattenAppend
  <1> QED  BY <1>3, <1>5, <1>6, <1>7, <1>8, FlattenType

LEMMA TextInNone == ASSUME NEW type PROVE Stream!TextIn(<<>>, type) = <<>>
  <1> DEFINE pieces == [i \in DOMAIN << >> |-> IF << >>[i].type = type THEN << >>[i].text ELSE <<>>]
  <1>1. Stream!TextIn(<<>>, type) = Stream!FlattenSeq(pieces)
    BY DEF Stream!TextIn
  <1>2. pieces = <<>> /\ Len(pieces) = 0
    OBVIOUS
  <1> HIDE DEF pieces
  <1> QED  BY <1>1, <1>2, FlattenIs

LEMMA EmptyEnd == ASSUME NEW S, NEW a \in Seq(S) PROVE a \o <<>> = a /\ <<>> \o a = a
  OBVIOUS

\* What two sequences of rows say, one behind the other
LEMMA TextInConcat ==
    ASSUME NEW some \in Seq(Rows), NEW others \in Seq(Rows), NEW type
    PROVE  Stream!TextIn(some \o others, type) = Stream!TextIn(some, type) \o Stream!TextIn(others, type)
  <1> DEFINE Up(k) == SubSeq(others, 1, k)
             Bad == {k \in 0..Len(others) :
                       Stream!TextIn(some \o Up(k), type) # Stream!TextIn(some, type) \o Stream!TextIn(Up(k), type)}
  <1>1. Up(0) = <<>> /\ Up(Len(others)) = others
    OBVIOUS
  <1>2. 0 \notin Bad
    <2>1. some \o <<>> = some /\ Stream!TextIn(some, type) \o <<>> = Stream!TextIn(some, type)
      <3>1. \E row \in Rows : TRUE
        <4>1. <<>> \in Seq(Nat)
          OBVIOUS
        <4>2. [type |-> "error", text |-> <<>>] \in Rows
          BY <4>1 DEF Rows, Plain, RowTypes
        <4> QED  BY <4>2
      <3> QED  BY <3>1, TextInAppend, EmptyEnd
    <2> HIDE DEF Up
    <2> QED  BY <1>1, <2>1, TextInNone
  <1>3. ASSUME NEW k \in 1..Len(others), k - 1 \notin Bad  PROVE k \notin Bad
    <2>1. /\ Up(k) = Append(Up(k - 1), others[k]) /\ Up(k - 1) \in Seq(Rows) /\ others[k] \in Rows
          /\ k - 1 \in 0..Len(others)
      OBVIOUS
    <2>2. Stream!TextIn(some \o Up(k - 1), type) = Stream!TextIn(some, type) \o Stream!TextIn(Up(k - 1), type)
      BY <1>3, <2>1
    <2> HIDE DEF Up
    <2>3. some \o Up(k) = Append(some \o Up(k - 1), others[k]) /\ some \o Up(k - 1) \in Seq(Rows)
      BY <2>1
    <2>4. Stream!TextIn(some \o Up(k), type)
            = (Stream!TextIn(some, type) \o Stream!TextIn(Up(k - 1), type)) \o Said(others[k], type)
      <3>1. Stream!TextIn(Append(some \o Up(k - 1), others[k]), type)
              = Stream!TextIn(some \o Up(k - 1), type) \o Said(others[k], type)
        BY <2>1, <2>3, TextInAppend
      <3> QED  BY <3>1, <2>2, <2>3
    <2>5. Stream!TextIn(Up(k), type) = Stream!TextIn(Up(k - 1), type) \o Said(others[k], type)
      <3>1. Stream!TextIn(Append(Up(k - 1), others[k]), type)
              = Stream!TextIn(Up(k - 1), type) \o Said(others[k], type)
        BY <2>1, TextInAppend
      <3> QED  BY <3>1, <2>1
    <2>6. Stream!TextIn(some, type) \in Seq(Nat) /\ Stream!TextIn(Up(k - 1), type) \in Seq(Nat)
          /\ Said(others[k], type) \in Seq(Nat)
      BY <2>1, TextInAppend, SaidType
    <2>7. Stream!TextIn(some \o Up(k), type) = Stream!TextIn(some, type) \o Stream!TextIn(Up(k), type)
      <3> DEFINE a == Stream!TextIn(some, type)
                 b == Stream!TextIn(Up(k - 1), type)
                 c == Said(others[k], type)
      <3>1. a \in Seq(Nat) /\ b \in Seq(Nat) /\ c \in Seq(Nat)
        BY <2>6
      <3>2. Stream!TextIn(some \o Up(k), type) = (a \o b) \o c /\ Stream!TextIn(Up(k), type) = b \o c
        BY <2>4, <2>5
      <3> HIDE DEF a, b, c
      <3>3. (a \o b) \o c = a \o (b \o c)
        BY <3>1
      <3> QED  BY <3>2, <3>3 DEF a
    <2> QED  BY <2>7
  <1>4. Bad \in SUBSET Nat
    OBVIOUS
  <1>5. Bad = {}
    <2>1. \A k \in Bad : k \in 1..Len(others)
      BY <1>2
    <2> HIDE DEF Bad
    <2> SUFFICES ASSUME Bad # {} PROVE FALSE
      OBVIOUS
    <2>2. PICK k \in Bad : \A m \in Bad : k <= m
      BY <1>4, LeastNumber
    <2>3. k \in 1..Len(others) /\ k - 1 \notin Bad
      BY <2>1, <2>2
    <2> QED  BY <1>3, <2>2, <2>3
  <1>6. Len(others) \notin Bad /\ Len(others) \in 0..Len(others)
    BY <1>5
  <1> QED  BY <1>1, <1>6

\* Short sequences, element by element
LEMMA SameElements ==
    ASSUME NEW S, NEW s \in Seq(S), NEW t \in Seq(S), NEW n, Len(s) = n, Len(t) = n,
           \A i \in 1..n : s[i] = t[i]
    PROVE  s = t
  OBVIOUS

LEMMA PairIs == ASSUME NEW S, NEW a \in S, NEW b \in S PROVE Append(<<a>>, b) = <<a, b>>
  <1> DEFINE s == Append(<<a>>, b)
             t == <<a, b>>
  <1>1. t \in Seq(S) /\ t[1] = a /\ t[2] = b /\ Len(t) = 2
    OBVIOUS
  <1>2. s \in Seq(S) /\ Len(s) = 2 /\ s[1] = a /\ s[2] = b
    OBVIOUS
  <1> HIDE DEF s, t
  <1>3. \A i \in 1..2 : s[i] = t[i]
    BY <1>1, <1>2
  <1>4. s = t
    BY <1>1, <1>2, <1>3, SameElements
  <1> QED  BY <1>4 DEF s, t

LEMMA Triple ==
    ASSUME NEW S, NEW a \in S, NEW b \in S, NEW c \in S, NEW s, s = <<a, b, c>>
    PROVE  s \in Seq(S) /\ Len(s) = 3 /\ s[1] = a /\ s[2] = b /\ s[3] = c
  OBVIOUS

LEMMA Four ==
    ASSUME NEW S, NEW a \in S, NEW b \in S, NEW c \in S, NEW d \in S, NEW s, s = <<a, b, c, d>>
    PROVE  s \in Seq(S) /\ Len(s) = 4 /\ s[1] = a /\ s[2] = b /\ s[3] = c /\ s[4] = d
  OBVIOUS

LEMMA TripleIs ==
    ASSUME NEW S, NEW a \in S, NEW b \in S, NEW c \in S PROVE Append(<<a, b>>, c) = <<a, b, c>>
  <1> DEFINE s == Append(<<a, b>>, c)
             t == <<a, b, c>>
  <1>1. t \in Seq(S) /\ t[1] = a /\ t[2] = b /\ t[3] = c /\ Len(t) = 3
    OBVIOUS
  <1>2. s \in Seq(S) /\ Len(s) = 3 /\ s[1] = a /\ s[2] = b /\ s[3] = c
    OBVIOUS
  <1> HIDE DEF s, t
  <1>3. \A i \in 1..3 : s[i] = t[i]
    BY <1>1, <1>2
  <1>4. s = t
    BY <1>1, <1>2, <1>3, SameElements
  <1> QED  BY <1>4 DEF s, t

LEMMA FourIs ==
    ASSUME NEW S, NEW a \in S, NEW b \in S, NEW c \in S, NEW d \in S
    PROVE  Append(<<a, b, c>>, d) = <<a, b, c, d>>
  <1> DEFINE s == Append(<<a, b, c>>, d)
             t == <<a, b, c, d>>
  <1>1. t \in Seq(S) /\ t[1] = a /\ t[2] = b /\ t[3] = c /\ t[4] = d /\ Len(t) = 4
    OBVIOUS
  <1>2. s \in Seq(S) /\ Len(s) = 4 /\ s[1] = a /\ s[2] = b /\ s[3] = c /\ s[4] = d
    OBVIOUS
  <1> HIDE DEF s, t
  <1>3. \A i \in 1..4 : s[i] = t[i]
    BY <1>1, <1>2
  <1>4. s = t
    BY <1>1, <1>2, <1>3, SameElements
  <1> QED  BY <1>4 DEF s, t

LEMMA TextInOne == ASSUME NEW row \in Rows, NEW type PROVE Stream!TextIn(<<row>>, type) = Said(row, type)
  <1>1. <<>> \in Seq(Rows) /\ Append(<<>>, row) = <<row>>
    OBVIOUS
  <1>2. Stream!TextIn(Append(<<>>, row), type) = Stream!TextIn(<<>>, type) \o Said(row, type)
    BY <1>1, TextInAppend
  <1>3. Said(row, type) \in Seq(Nat)
    BY SaidType
  <1>4. <<>> \o Said(row, type) = Said(row, type)
    BY <1>3, EmptyEnd
  <1> QED  BY <1>1, <1>2, <1>4, TextInNone

LEMMA TextInTwo ==
    ASSUME NEW a \in Rows, NEW b \in Rows, NEW type
    PROVE  Stream!TextIn(<<a, b>>, type) = Said(a, type) \o Said(b, type)
  <1>1. <<a>> \in Seq(Rows) /\ Append(<<a>>, b) = <<a, b>>
    BY PairIs
  <1>2. Stream!TextIn(Append(<<a>>, b), type) = Stream!TextIn(<<a>>, type) \o Said(b, type)
    BY <1>1, TextInAppend
  <1> QED  BY <1>1, <1>2, TextInOne

\* One more row, of which or before which nothing is said
LEMMA OneMoreSays ==
    ASSUME NEW s \in Seq(Rows), NEW row \in Rows, NEW type, NEW t, t = Append(s, row)
    PROVE  /\ t \in Seq(Rows)
           /\ Said(row, type) = <<>> => Stream!TextIn(t, type) = Stream!TextIn(s, type)
           /\ Stream!TextIn(s, type) = <<>> => Stream!TextIn(t, type) = Said(row, type)
  <1>1. /\ Stream!TextIn(s, type) \in Seq(Nat)
        /\ Stream!TextIn(Append(s, row), type) = Stream!TextIn(s, type) \o Said(row, type)
    BY TextInAppend
  <1>2. Said(row, type) \in Seq(Nat)
    BY SaidType
  <1>3. Stream!TextIn(s, type) \o <<>> = Stream!TextIn(s, type) /\ <<>> \o Said(row, type) = Said(row, type)
    BY <1>1, <1>2, EmptyEnd
  <1>4. Append(s, row) \in Seq(Rows)
    OBVIOUS
  <1> QED  BY <1>1, <1>3, <1>4

Terminal == {"completed", "error", "DONE", "answer"}

\* Rows after which a stream goes on, and rows that end it
Continuing(events) == \A i \in DOMAIN events : events[i].type \notin Terminal

Closing(events) ==
    /\ events # <<>>
    /\ \A i \in DOMAIN events : events[i].type \in Terminal <=> i = Len(events)

\* What a client of a stream puts together
Rebuilds(events, delta, done, completed) ==
    /\ Stream!TextIn(events, "delta") = delta
    /\ Stream!TextIn(events, "text_done") = done
    /\ Stream!TextIn(events, "completed") = completed

LEMMA ContinuingIs ==
    ASSUME NEW events \in Seq(Plain), NEW n, Len(events) = n, \A i \in 1..n : events[i].type \notin Terminal
    PROVE  Continuing(events)
  BY DEF Continuing

LEMMA ClosingIs ==
    ASSUME NEW events \in Seq(Plain), NEW n \in Nat \ {0}, Len(events) = n,
           \A i \in 1..n : events[i].type \in Terminal <=> i = n
    PROVE  Closing(events)
  BY DEF Closing

\* Rows that go on: one, and two
LEMMA OneGoesOn ==
    ASSUME NEW a \in Plain, a.type \notin Terminal PROVE <<a>> \in Seq(Plain) /\ Continuing(<<a>>)
  <1>1. <<a>> \in Seq(Plain) /\ Len(<<a>>) = 1 /\ <<a>>[1] = a
    OBVIOUS
  <1>2. \A i \in 1..1 : <<a>>[i].type \notin Terminal
    BY <1>1
  <1> QED  BY <1>1, <1>2, ContinuingIs

LEMMA TwoGoOn ==
    ASSUME NEW a \in Plain, NEW b \in Plain, a.type \notin Terminal, b.type \notin Terminal
    PROVE  <<a, b>> \in Seq(Plain) /\ Continuing(<<a, b>>)
  <1>1. <<a, b>> \in Seq(Plain) /\ Len(<<a, b>>) = 2 /\ <<a, b>>[1] = a /\ <<a, b>>[2] = b
    OBVIOUS
  <1>2. \A i \in 1..2 : <<a, b>>[i].type \notin Terminal
    BY <1>1
  <1> QED  BY <1>1, <1>2, ContinuingIs

LEMMA RowIs ==
    ASSUME NEW type \in RowTypes, NEW text \in Seq(Nat)
    PROVE  /\ Stream!Row(type, text) \in Plain /\ Stream!Row(type, text) \in Rows
           /\ Stream!Row(type, text).type = type
           /\ \A other : Said(Stream!Row(type, text), other) = IF other = type THEN text ELSE <<>>
  BY DEF Stream!Row, Plain, Rows, Said

\* One piece of events behind another
LEMMA EventsConcat ==
    ASSUME NEW x \in Seq(Plain), NEW y \in Seq(Plain), Continuing(x)
    PROVE  /\ x \o y \in Seq(Plain)
           /\ Continuing(y) => Continuing(x \o y)
           /\ Closing(y) => Closing(x \o y)
           /\ \A type : Stream!TextIn(x \o y, type) = Stream!TextIn(x, type) \o Stream!TextIn(y, type)
  <1>1. /\ x \o y \in Seq(Plain) /\ Len(x \o y) = Len(x) + Len(y) /\ Len(x) \in Nat /\ Len(y) \in Nat
        /\ \A i \in 1..Len(x) : (x \o y)[i] = x[i]
        /\ \A i \in 1..(Len(x) + Len(y)) : i > Len(x) => i - Len(x) \in 1..Len(y) /\ (x \o y)[i] = y[i - Len(x)]
    OBVIOUS
  <1>2. DOMAIN x = 1..Len(x) /\ DOMAIN y = 1..Len(y) /\ DOMAIN (x \o y) = 1..(Len(x) + Len(y))
    OBVIOUS
  <1>3. Continuing(y) => Continuing(x \o y)
    <2> SUFFICES ASSUME Continuing(y), NEW i \in 1..(Len(x) + Len(y)) PROVE (x \o y)[i].type \notin Terminal
      BY <1>2 DEF Continuing
    <2>1. CASE i \in 1..Len(x)
      BY <2>1, <1>1, <1>2 DEF Continuing
    <2>2. CASE i > Len(x)
      BY <2>2, <1>1, <1>2 DEF Continuing
    <2> QED  BY <2>1, <2>2, <1>1
  <1>4. Closing(y) => Closing(x \o y)
    <2> SUFFICES ASSUME Closing(y) PROVE Closing(x \o y)
      OBVIOUS
    <2>1. Len(y) > 0
      BY DEF Closing
    <2>2. x \o y # <<>>
      BY <1>1, <2>1
    <2>3. ASSUME NEW i \in 1..(Len(x) + Len(y)) PROVE (x \o y)[i].type \in Terminal <=> i = Len(x) + Len(y)
      <3>1. CASE i \in 1..Len(x)
        BY <3>1, <2>1, <1>1, <1>2 DEF Continuing
      <3>2. CASE i > Len(x)
        <4>1. i - Len(x) \in 1..Len(y) /\ (x \o y)[i] = y[i - Len(x)]
          BY <3>2, <1>1
        <4>2. y[i - Len(x)].type \in Terminal <=> i - Len(x) = Len(y)
          BY <4>1, <1>2 DEF Closing
        <4> QED  BY <4>1, <4>2, <1>1
      <3> QED  BY <3>1, <3>2, <1>1
    <2> QED  BY <1>1, <1>2, <2>2, <2>3 DEF Closing
  <1>5. x \in Seq(Rows) /\ y \in Seq(Rows)
    BY DEF Rows
  <1> QED  BY <1>1, <1>3, <1>4, <1>5, TextInConcat

LEMMA StartedEvents ==
    /\ Stream!ProjectStarted \in Seq(Plain) /\ Continuing(Stream!ProjectStarted)
    /\ Rebuilds(Stream!ProjectStarted, <<>>, <<>>, <<>>)
  <1> DEFINE none == <<>>
             a == Stream!Row("created", none)
             b == Stream!Row("item_added", none)
             c == Stream!Row("part_added", none)
             first == <<a>>
             rest == IF Stream!Buffered THEN <<>> ELSE <<b, c>>
  <1>1. none \in Seq(Nat) /\ none \o none = none
    OBVIOUS
  <1>2. /\ a \in Plain /\ b \in Plain /\ c \in Plain /\ a \in Rows /\ b \in Rows /\ c \in Rows
        /\ a.type = "created" /\ b.type = "item_added" /\ c.type = "part_added"
        /\ \A type \in {"delta", "text_done", "completed"} :
              Said(a, type) = none /\ Said(b, type) = none /\ Said(c, type) = none
    <2> HIDE DEF none
    <2>1. "created" \in RowTypes /\ "item_added" \in RowTypes /\ "part_added" \in RowTypes
      BY DEF RowTypes
    <2>2. /\ a \in Plain /\ a \in Rows /\ a.type = "created"
          /\ \A other : Said(a, other) = IF other = "created" THEN none ELSE <<>>
      BY <1>1, <2>1, RowIs
    <2>3. /\ b \in Plain /\ b \in Rows /\ b.type = "item_added"
          /\ \A other : Said(b, other) = IF other = "item_added" THEN none ELSE <<>>
      BY <1>1, <2>1, RowIs
    <2>4. /\ c \in Plain /\ c \in Rows /\ c.type = "part_added"
          /\ \A other : Said(c, other) = IF other = "part_added" THEN none ELSE <<>>
      BY <1>1, <2>1, RowIs
    <2> HIDE DEF a, b, c
    <2> QED  BY <2>2, <2>3, <2>4 DEF none
  <1>3. Stream!ProjectStarted = first \o rest
    BY DEF Stream!ProjectStarted
  <1> HIDE DEF a, b, c, none
  <1>4. first \in Seq(Plain) /\ Continuing(first) /\ rest \in Seq(Plain) /\ Continuing(rest)
    <2>0. a.type \notin Terminal /\ b.type \notin Terminal /\ c.type \notin Terminal
      BY <1>2 DEF Terminal
    <2>1. <<a>> \in Seq(Plain) /\ Continuing(<<a>>)
      BY <1>2, <2>0, OneGoesOn
    <2>2. <<b, c>> \in Seq(Plain) /\ Continuing(<<b, c>>)
      BY <1>2, <2>0, TwoGoOn
    <2>3. <<>> \in Seq(Plain) /\ Continuing(<<>>)
      BY DEF Continuing
    <2> QED  BY <2>1, <2>2, <2>3
  <1>5. ASSUME NEW type \in {"delta", "text_done", "completed"}
        PROVE  Stream!TextIn(first, type) = none /\ Stream!TextIn(rest, type) = none
    <2>1. Said(a, type) = none /\ Said(b, type) = none /\ Said(c, type) = none
      BY <1>2
    <2>2. Stream!TextIn(<<a>>, type) = none
      BY <2>1, <1>2, TextInOne
    <2>3. Stream!TextIn(<<b, c>>, type) = none \o none
      <3>1. Stream!TextIn(<<b, c>>, type) = Said(b, type) \o Said(c, type)
        BY <1>2, TextInTwo
      <3> QED  BY <2>1, <3>1
    <2>4. Stream!TextIn(<<>>, type) = none
      BY TextInNone DEF none
    <2> QED  BY <2>2, <2>3, <2>4, <1>1
  <1> HIDE DEF first, rest
  <1>6. ASSUME NEW type \in {"delta", "text_done", "completed"}
        PROVE  Stream!TextIn(first \o rest, type) = none
    <2>1. Stream!TextIn(first \o rest, type) = Stream!TextIn(first, type) \o Stream!TextIn(rest, type)
      BY <1>4, EventsConcat
    <2> QED  BY <2>1, <1>1, <1>5
  <1>7. first \o rest \in Seq(Plain) /\ Continuing(first \o rest)
    BY <1>4, EventsConcat
  <1> QED  BY <1>3, <1>6, <1>7 DEF Rebuilds, none

LEMMA TokenEvents ==
    ASSUME NEW delta \in Nat
    PROVE  /\ Stream!ProjectToken(delta) \in Seq(Plain) /\ Continuing(Stream!ProjectToken(delta))
           /\ Rebuilds(Stream!ProjectToken(delta), IF Stream!Buffered THEN <<>> ELSE <<delta>>, <<>>, <<>>)
  <1> DEFINE a == Stream!Row("delta", <<delta>>)
  <1>1. <<delta>> \in Seq(Nat) /\ "delta" \in RowTypes
    BY DEF RowTypes
  <1>2. /\ a \in Plain /\ a \in Rows /\ a.type = "delta"
        /\ Said(a, "delta") = <<delta>> /\ Said(a, "text_done") = <<>> /\ Said(a, "completed") = <<>>
    BY <1>1, RowIs
  <1>3. Stream!ProjectToken(delta) = IF Stream!Buffered THEN <<>> ELSE <<a>>
    BY DEF Stream!ProjectToken
  <1> HIDE DEF a
  <1>4. Rebuilds(<<a>>, <<delta>>, <<>>, <<>>)
    BY <1>2, TextInOne DEF Rebuilds
  <1>5. Rebuilds(<<>>, <<>>, <<>>, <<>>)
    BY TextInNone DEF Rebuilds
  <1>6. <<a>> \in Seq(Plain) /\ Continuing(<<a>>) /\ <<>> \in Seq(Plain) /\ Continuing(<<>>)
    <2>1. a.type \notin Terminal
      BY <1>2 DEF Terminal
    <2>2. <<>> \in Seq(Plain) /\ Continuing(<<>>)
      BY DEF Continuing
    <2> QED  BY <1>2, <2>1, <2>2, OneGoesOn
  <1> QED  BY <1>3, <1>4, <1>5, <1>6

\* What three or four rows say, of which at most one says something of a type
LEMMA ThreeSay ==
    ASSUME NEW a \in Rows, NEW b \in Rows, NEW c \in Rows, NEW type, NEW t, t = <<a, b, c>>
    PROVE  /\ t \in Seq(Rows)
           /\ Said(a, type) = <<>> /\ Said(b, type) = <<>> => Stream!TextIn(t, type) = Said(c, type)
           /\ Said(b, type) = <<>> /\ Said(c, type) = <<>> => Stream!TextIn(t, type) = Said(a, type)
  <1> DEFINE two == <<a, b>>
  <1>1. Stream!TextIn(two, type) = Said(a, type) \o Said(b, type)
    BY TextInTwo
  <1>2. two \in Seq(Rows)
    OBVIOUS
  <1>3. t = Append(two, c)
    BY TripleIs
  <1> HIDE DEF two
  <1>4. Said(a, type) \in Seq(Nat) /\ Said(b, type) \in Seq(Nat)
    BY SaidType
  <1>5. Said(a, type) \o <<>> = Said(a, type) /\ <<>> \o Said(b, type) = Said(b, type)
    BY <1>4, EmptyEnd
  <1>6. /\ Said(b, type) = <<>> => Stream!TextIn(two, type) = Said(a, type)
        /\ Said(a, type) = <<>> => Stream!TextIn(two, type) = Said(b, type)
    BY <1>1, <1>5
  <1>7. /\ t \in Seq(Rows)
        /\ Said(c, type) = <<>> => Stream!TextIn(t, type) = Stream!TextIn(two, type)
        /\ Stream!TextIn(two, type) = <<>> => Stream!TextIn(t, type) = Said(c, type)
    BY <1>2, <1>3, OneMoreSays
  <1> QED  BY <1>6, <1>7

LEMMA FourSay ==
    ASSUME NEW a \in Rows, NEW b \in Rows, NEW c \in Rows, NEW d \in Rows, NEW type, NEW t, t = <<a, b, c, d>>,
           Said(b, type) = <<>>, Said(c, type) = <<>>
    PROVE  /\ t \in Seq(Rows)
           /\ Said(a, type) = <<>> => Stream!TextIn(t, type) = Said(d, type)
           /\ Said(d, type) = <<>> => Stream!TextIn(t, type) = Said(a, type)
  <1> DEFINE three == <<a, b, c>>
  <1>1. t = Append(three, d)
    BY FourIs
  <1>2. three = <<a, b, c>>
    OBVIOUS
  <1> HIDE DEF three
  <1>3. three \in Seq(Rows) /\ Stream!TextIn(three, type) = Said(a, type)
    BY <1>2, ThreeSay
  <1>4. /\ t \in Seq(Rows)
        /\ Said(d, type) = <<>> => Stream!TextIn(t, type) = Stream!TextIn(three, type)
        /\ Stream!TextIn(three, type) = <<>> => Stream!TextIn(t, type) = Said(d, type)
    BY <1>1, <1>3, OneMoreSays
  <1> QED  BY <1>3, <1>4

LEMMA FinishedEvents ==
    ASSUME NEW text \in Seq(Nat), NEW call \in BOOLEAN
    PROVE  /\ Stream!ProjectFinished(text, call) \in Seq(Plain)
           /\ Closing(Stream!ProjectFinished(text, call))
           /\ Rebuilds(Stream!ProjectFinished(text, call),
                       IF call \/ ~Stream!Buffered THEN <<>> ELSE text,
                       IF call THEN <<>> ELSE text, IF call THEN <<>> ELSE text)
  <1> DEFINE none == <<>>
             callAdded == Stream!Row("call_added", none)
             callDone  == Stream!Row("call_done", none)
             called    == Stream!Row("completed", none)
             itemAdded == Stream!Row("item_added", text)
             partAdded == Stream!Row("part_added", none)
             delta     == Stream!Row("delta", text)
             textDone  == Stream!Row("text_done", text)
             partDone  == Stream!Row("part_done", text)
             itemDone  == Stream!Row("item_done", text)
             completed == Stream!Row("completed", text)
             calls == <<callAdded, callDone, called>>
             spoken == <<itemAdded, partAdded, delta>>
             before == IF Stream!Buffered THEN spoken ELSE none
             after == <<textDone, partDone, itemDone, completed>>
  <1>1. none \in Seq(Nat) /\ none \o none = none /\ text \o none = text /\ none \o text = text
    OBVIOUS
  <1>2. {"call_added", "call_done", "completed", "item_added", "part_added", "delta", "text_done",
         "part_done", "item_done"} \subseteq RowTypes
    BY DEF RowTypes
  <1>3. ASSUME NEW type \in {"call_added", "call_done", "completed", "item_added", "part_added", "delta",
                             "text_done", "part_done", "item_done"}, NEW t \in {text, none}
        PROVE  /\ Stream!Row(type, t) \in Plain /\ Stream!Row(type, t) \in Rows /\ Stream!Row(type, t).type = type
               /\ \A other : Said(Stream!Row(type, t), other) = IF other = type THEN t ELSE <<>>
    <2>1. type \in RowTypes /\ t \in Seq(Nat)
      BY <1>1, <1>2
    <2> QED  BY <2>1, RowIs
  <1> DEFINE RowSays(row, type, t) == /\ row \in Plain /\ row \in Rows /\ row.type = type
                                      /\ \A other : Said(row, other) = IF other = type THEN t ELSE <<>>
  <1>4. /\ RowSays(callAdded, "call_added", none) /\ RowSays(callDone, "call_done", none)
        /\ RowSays(called, "completed", none)
    <2> HIDE DEF none
    <2> QED  BY <1>3
  <1>5. /\ RowSays(itemAdded, "item_added", text) /\ RowSays(partAdded, "part_added", none)
        /\ RowSays(delta, "delta", text)
    <2> HIDE DEF none
    <2> QED  BY <1>3
  <1>6. /\ RowSays(textDone, "text_done", text) /\ RowSays(partDone, "part_done", text)
        /\ RowSays(itemDone, "item_done", text) /\ RowSays(completed, "completed", text)
    <2> HIDE DEF none
    <2> QED  BY <1>3
  <1>7. Stream!ProjectFinished(text, call) = IF call THEN calls ELSE before \o after
    BY DEF Stream!ProjectFinished
  <1> HIDE DEF callAdded, callDone, called, itemAdded, partAdded, delta, textDone, partDone, itemDone, completed
  <1>8. calls \in Seq(Plain) /\ Closing(calls)
    <2>1. calls \in Seq(Plain) /\ Len(calls) = 3 /\ calls[1] = callAdded /\ calls[2] = callDone /\ calls[3] = called
      <3>1. callAdded \in Plain /\ callDone \in Plain /\ called \in Plain
        BY <1>4
      <3> HIDE DEF RowSays
      <3> QED  BY <3>1, Triple, Zenon
    <2>2. callAdded.type \notin Terminal /\ callDone.type \notin Terminal /\ called.type \in Terminal
      BY <1>4 DEF Terminal
    <2> HIDE DEF calls
    <2>3. \A i \in 1..3 : calls[i].type \in Terminal <=> i = 3
      BY <2>1, <2>2
    <2>4. 3 \in Nat \ {0} /\ 4 \in Nat \ {0}
      OBVIOUS
    <2> QED  BY <2>1, <2>3, <2>4, ClosingIs
  <1>9. after \in Seq(Plain) /\ Closing(after)
    <2>1. /\ after \in Seq(Plain) /\ Len(after) = 4 /\ after[1] = textDone /\ after[2] = partDone
          /\ after[3] = itemDone /\ after[4] = completed
      <3>1. textDone \in Plain /\ partDone \in Plain /\ itemDone \in Plain /\ completed \in Plain
        BY <1>6
      <3> HIDE DEF RowSays
      <3> QED  BY <3>1, Four, Zenon
    <2>2. /\ textDone.type \notin Terminal /\ partDone.type \notin Terminal /\ itemDone.type \notin Terminal
          /\ completed.type \in Terminal
      BY <1>6 DEF Terminal
    <2> HIDE DEF after
    <2>3. \A i \in 1..4 : after[i].type \in Terminal <=> i = 4
      BY <2>1, <2>2
    <2>4. 3 \in Nat \ {0} /\ 4 \in Nat \ {0}
      OBVIOUS
    <2> QED  BY <2>1, <2>3, <2>4, ClosingIs
  <1>10. before \in Seq(Plain) /\ Continuing(before)
    <2>1. spoken \in Seq(Plain) /\ Len(spoken) = 3 /\ spoken[1] = itemAdded /\ spoken[2] = partAdded /\ spoken[3] = delta
      <3>1. itemAdded \in Plain /\ partAdded \in Plain /\ delta \in Plain
        BY <1>5
      <3> HIDE DEF RowSays
      <3> QED  BY <3>1, Triple, Zenon
    <2>2. itemAdded.type \notin Terminal /\ partAdded.type \notin Terminal /\ delta.type \notin Terminal
      BY <1>5 DEF Terminal
    <2>3. none \in Seq(Plain) /\ Continuing(none)
      BY DEF Continuing
    <2> HIDE DEF spoken, none
    <2>4. \A i \in 1..3 : spoken[i].type \notin Terminal
      BY <2>1, <2>2
    <2>5. Continuing(spoken)
      BY <2>1, <2>4, ContinuingIs
    <2> QED  BY <2>1, <2>3, <2>5
  <1>11. Rebuilds(calls, none, none, none)
    <2>1. ASSUME NEW type, Said(callAdded, type) = <<>>, Said(callDone, type) = <<>>
          PROVE  Stream!TextIn(calls, type) = Said(called, type)
      <3>1. calls = <<callAdded, callDone, called>>
        OBVIOUS
      <3>2. callAdded \in Rows /\ callDone \in Rows /\ called \in Rows
        BY <1>4
      <3> HIDE DEF calls
      <3> QED  BY <2>1, <3>1, <3>2, ThreeSay
    <2> HIDE DEF calls
    <2>2. Stream!TextIn(calls, "delta") = none
      BY <1>4, <2>1
    <2>3. Stream!TextIn(calls, "text_done") = none
      BY <1>4, <2>1
    <2>4. Stream!TextIn(calls, "completed") = none
      BY <1>4, <2>1
    <2> QED  BY <2>2, <2>3, <2>4 DEF Rebuilds
  <1>12. Rebuilds(spoken, text, none, none)
    <2>1. ASSUME NEW type, Said(itemAdded, type) = <<>>, Said(partAdded, type) = <<>>
          PROVE  Stream!TextIn(spoken, type) = Said(delta, type)
      <3>1. spoken = <<itemAdded, partAdded, delta>>
        OBVIOUS
      <3>2. itemAdded \in Rows /\ partAdded \in Rows /\ delta \in Rows
        BY <1>5
      <3> HIDE DEF spoken
      <3> QED  BY <2>1, <3>1, <3>2, ThreeSay
    <2> HIDE DEF spoken
    <2>2. Stream!TextIn(spoken, "delta") = text
      BY <1>5, <2>1
    <2>3. Stream!TextIn(spoken, "text_done") = none
      BY <1>5, <2>1
    <2>4. Stream!TextIn(spoken, "completed") = none
      BY <1>5, <2>1
    <2> QED  BY <2>2, <2>3, <2>4 DEF Rebuilds
  <1>13. Rebuilds(after, none, text, text)
    <2>1. ASSUME NEW type, Said(partDone, type) = <<>>, Said(itemDone, type) = <<>>
          PROVE  /\ Said(textDone, type) = <<>> => Stream!TextIn(after, type) = Said(completed, type)
                 /\ Said(completed, type) = <<>> => Stream!TextIn(after, type) = Said(textDone, type)
      <3>1. after = <<textDone, partDone, itemDone, completed>>
        OBVIOUS
      <3>2. textDone \in Rows /\ partDone \in Rows /\ itemDone \in Rows /\ completed \in Rows
        BY <1>6
      <3> HIDE DEF after
      <3> QED  BY <2>1, <3>1, <3>2, FourSay
    <2> HIDE DEF after
    <2>2. Stream!TextIn(after, "delta") = none
      BY <1>6, <2>1
    <2>3. Stream!TextIn(after, "text_done") = text
      BY <1>6, <2>1
    <2>4. Stream!TextIn(after, "completed") = text
      BY <1>6, <2>1
    <2> QED  BY <2>2, <2>3, <2>4 DEF Rebuilds
  <1> HIDE DEF calls, spoken, after
  <1>14. Rebuilds(before, IF Stream!Buffered THEN text ELSE <<>>, <<>>, <<>>)
    BY <1>12, TextInNone DEF Rebuilds
  <1> HIDE DEF before
  <1>15. before \o after \in Seq(Plain) /\ Closing(before \o after)
    BY <1>9, <1>10, EventsConcat
  <1>16. \A type : Stream!TextIn(before \o after, type) = Stream!TextIn(before, type) \o Stream!TextIn(after, type)
    BY <1>9, <1>10, EventsConcat
  <1>17. Rebuilds(before \o after, IF Stream!Buffered THEN text ELSE <<>>, text, text)
    <2>1. Stream!TextIn(before \o after, "delta") = IF Stream!Buffered THEN text ELSE <<>>
      BY <1>1, <1>13, <1>14, <1>16 DEF Rebuilds
    <2>2. Stream!TextIn(before \o after, "text_done") = text
      BY <1>1, <1>13, <1>14, <1>16 DEF Rebuilds
    <2>3. Stream!TextIn(before \o after, "completed") = text
      BY <1>1, <1>13, <1>14, <1>16 DEF Rebuilds
    <2> QED  BY <2>1, <2>2, <2>3 DEF Rebuilds
  <1>18. CASE call
    BY <1>7, <1>8, <1>11, <1>18
  <1>19. CASE ~call
    <2>1. Stream!ProjectFinished(text, call) = before \o after
      BY <1>7, <1>19
    <2> QED  BY <2>1, <1>15, <1>17, <1>19
  <1> QED  BY <1>18, <1>19

-----------------------------------------------------------------------------
(* The stream of a response.  What a client was told so far, what waits in *)
(* the channel and what the inference thread produced fit together: the    *)
(* deltas come in order, one after the other in the rows, the channel and  *)
(* the engine; a terminal event is the last of its channel, a terminal row *)
(* the last of its stream; and until then the rows said what the           *)
(* projection has.                                                         *)

Events == [type : {"token"}, delta : Nat] \cup [type : {"finished", "error"}]

StreamTypeOK ==
    /\ request \in Stream!StreamRequests
    /\ producer \in {"generating", "sending", "checked", "finished", "error", "done", "failed"}
    /\ producer = "sending" => request.streaming
    /\ connection \in {"open", "ended", "dropped"}
    /\ produced \in Seq(Nat)
    /\ channel \in Seq(Events)
    /\ projection \in [text : Seq(Nat), status : {"in_progress", "completed"}, sequence : Nat]
    /\ rows \in Seq(Rows)
    /\ remembered \in BOOLEAN /\ committed \in BOOLEAN

\* The client was told how its stream ended.
Over == \E i \in DOMAIN rows : rows[i].type \in Terminal

\* Only a stream of the responses API has a projection.
Projected == request.protocol = "responses" /\ request.streaming

\* The terminal event is the last one, and there is one or the row made of it.
ChannelKept ==
    /\ \A i \in DOMAIN channel : channel[i].type # "token" =>
          i = Len(channel) /\ producer = IF channel[i].type = "finished" THEN "done" ELSE "failed"
    /\ connection # "open" \/ ~request.streaming => channel = <<>>
    /\ request.streaming /\ connection = "open" /\ Stream!ProducerEnded /\ ~Over =>
          channel # <<>> /\ channel[Len(channel)].type # "token"
    /\ request.streaming /\ Over => Stream!ProducerEnded /\ channel = <<>>

\* The terminal row is the last one, and an ended connection has one.
RowsEnd ==
    /\ \A i \in DOMAIN rows : rows[i].type \in Terminal => i = Len(rows)
    /\ connection = "ended" => Over
    /\ ~request.streaming /\ connection # "ended" => rows = <<>>

\* What was received and what waits in the channel is what was produced.
InOrder ==
    /\ \A i \in DOMAIN produced : produced[i] = i
    /\ Projected =>
          /\ \A i \in DOMAIN projection.text : projection.text[i] = i
          /\ \A i \in DOMAIN channel :
                channel[i].type = "token" => channel[i].delta = Len(projection.text) + i
          /\ connection = "open" /\ ~Over =>
                Len(produced) = Len(projection.text) + Len(channel) - IF Stream!ProducerEnded THEN 1 ELSE 0

\* The rows rebuild the text so far, and in the end the response.
TextRebuilt ==
    /\ Projected /\ ~Over =>
          Rebuilds(rows, IF Stream!Buffered THEN <<>> ELSE projection.text, <<>>, <<>>)
    /\ Stream!Completed =>
          /\ Projected
          /\ \E text : Rebuilds(rows, text, text, text) /\ text = IF Stream!Parsed = "call" THEN <<>> ELSE produced

\* Rows are numbered from zero, but for the errors that have no number.
Sequenced ==
    Projected =>
        /\ \A i \in DOMAIN rows : rows[i].sequence \in {i - 1, None}
        /\ ~Over => projection.sequence = Len(rows)

\* What is shown as complete was committed and can be found.
Published ==
    /\ producer \in {"finished", "done"} => committed
    /\ Stream!CompletedIsPublished

StreamInv ==
    /\ StreamTypeOK /\ ChannelKept /\ RowsEnd /\ InOrder
    /\ TextRebuilt /\ Sequenced /\ Published

-----------------------------------------------------------------------------
(* What is sent.                                                           *)

LEMMA NumberedEvents ==
    ASSUME NEW events \in Seq(Plain), projection.sequence \in Nat
    PROVE  /\ Stream!Numbered(events) \in Seq(Rows) /\ Len(Stream!Numbered(events)) = Len(events)
           /\ \A i \in 1..Len(events) : Stream!Numbered(events)[i].sequence = projection.sequence + i - 1
           /\ \A i \in 1..Len(events) : Stream!Numbered(events)[i].type = events[i].type
           /\ Continuing(events) => Continuing(Stream!Numbered(events))
           /\ Closing(events) => Closing(Stream!Numbered(events))
           /\ \A type : Stream!TextIn(Stream!Numbered(events), type) = Stream!TextIn(events, type)
  <1> DEFINE n == Len(events)
             numbered == Stream!Numbered(events)
  <1>1. n \in Nat /\ DOMAIN events = 1..n /\ \A i \in 1..n : events[i] \in Plain
    OBVIOUS
  <1>2. numbered = [i \in 1..n |-> Stream!NumberedRow(events[i], projection.sequence + i - 1)]
    BY <1>1 DEF Stream!Numbered
  <1> HIDE DEF numbered
  <1>3. \A i \in 1..n : projection.sequence + i - 1 \in Nat
    BY <1>1
  <1>4. ASSUME NEW i \in 1..n
        PROVE  /\ numbered[i] \in Rows /\ numbered[i].type = events[i].type /\ numbered[i].text = events[i].text
               /\ numbered[i].sequence = projection.sequence + i - 1
    <2>1. numbered[i] = [type |-> events[i].type, text |-> events[i].text, sequence |-> projection.sequence + i - 1]
      BY <1>2 DEF Stream!NumberedRow
    <2>2. events[i].type \in RowTypes /\ events[i].text \in Seq(Nat)
      BY <1>1 DEF Plain
    <2>3. projection.sequence + i - 1 \in Nat \cup {None}
      BY <1>3
    <2> QED  BY <2>1, <2>2, <2>3 DEF Rows
  <1>5. numbered \in Seq(Rows) /\ Len(numbered) = n /\ DOMAIN numbered = 1..n
    BY <1>1, <1>2, <1>4
  <1>6. Continuing(events) => Continuing(numbered)
    BY <1>1, <1>4, <1>5 DEF Continuing
  <1>7. Closing(events) => Closing(numbered)
    <2> SUFFICES ASSUME Closing(events) PROVE Closing(numbered)
      OBVIOUS
    <2>1. events # <<>> /\ n # 0
      BY <1>1 DEF Closing
    <2>2. numbered # <<>>
      BY <2>1, <1>5
    <2>3. \A i \in DOMAIN events : events[i].type \in Terminal <=> i = Len(events)
      BY DEF Closing
    <2>4. ASSUME NEW i \in 1..n PROVE numbered[i].type \in Terminal <=> i = n
      <3>1. i \in DOMAIN events
        BY <1>1
      <3>2. events[i].type \in Terminal <=> i = Len(events)
        BY <2>3, <3>1
      <3>3. numbered[i].type = events[i].type
        BY <1>4
      <3> HIDE DEF n
      <3> QED  BY <3>2, <3>3 DEF n
    <2> HIDE DEF n
    <2>5. ASSUME NEW i \in DOMAIN numbered PROVE numbered[i].type \in Terminal <=> i = Len(numbered)
      <3>1. i \in 1..n
        BY <1>5
      <3>2. numbered[i].type \in Terminal <=> i = n
        BY <2>4, <3>1
      <3> QED  BY <3>2, <1>5
    <2> QED  BY <2>2, <2>5 DEF Closing
  <1>8. ASSUME NEW type PROVE Stream!TextIn(numbered, type) = Stream!TextIn(events, type)
    <2>1. [i \in 1..n |-> IF numbered[i].type = type THEN numbered[i].text ELSE <<>>]
            = [i \in 1..n |-> IF events[i].type = type THEN events[i].text ELSE <<>>]
      BY <1>4
    <2> QED  BY <2>1, <1>1, <1>5 DEF Stream!TextIn
  <1> QED  BY <1>4, <1>5, <1>6, <1>7, <1>8 DEF numbered

LEMMA SendRows ==
    ASSUME rows \in Seq(Rows), NEW events \in Seq(Rows), Stream!Send(events)
    PROVE  /\ rows' \in Seq(Rows) /\ Len(rows') = Len(rows) + Len(events) /\ DOMAIN rows' = 1..Len(rows')
           /\ \A i \in 1..Len(rows) : rows'[i] = rows[i]
           /\ \A i \in 1..Len(events) : rows'[Len(rows) + i] = events[i]
           /\ \A i \in 1..Len(rows') : i \notin 1..Len(rows) => i - Len(rows) \in 1..Len(events)
           /\ \A type : Stream!TextIn(rows', type) = Stream!TextIn(rows, type) \o Stream!TextIn(events, type)
  <1>1. rows' = rows \o events
    BY DEF Stream!Send
  <1>2. /\ rows \o events \in Seq(Rows) /\ Len(rows \o events) = Len(rows) + Len(events)
        /\ \A i \in 1..Len(rows) : (rows \o events)[i] = rows[i]
        /\ \A i \in 1..Len(events) : (rows \o events)[Len(rows) + i] = events[i]
    OBVIOUS
  <1>3. Len(rows) \in Nat /\ Len(events) \in Nat
    OBVIOUS
  <1>4. \A type : Stream!TextIn(rows \o events, type) = Stream!TextIn(rows, type) \o Stream!TextIn(events, type)
    BY TextInConcat
  <1> QED  BY <1>1, <1>2, <1>3, <1>4

LEMMA RowsGoOn ==
    ASSUME rows \in Seq(Rows), NEW events \in Seq(Rows), Stream!Send(events), ~Over, Continuing(events)
    PROVE  ~Over'
  <1>1. \A i \in 1..Len(rows) : rows[i].type \notin Terminal
    BY DEF Over
  <1>2. \A i \in 1..Len(events) : events[i].type \notin Terminal
    BY DEF Continuing
  <1>3. ASSUME NEW i \in 1..Len(rows') PROVE rows'[i].type \notin Terminal
    <2>1. CASE i \in 1..Len(rows)
      BY <2>1, <1>1, SendRows
    <2>2. CASE i \notin 1..Len(rows)
      <3>1. i - Len(rows) \in 1..Len(events) /\ Len(rows) + (i - Len(rows)) = i
        BY <2>2, SendRows
      <3>2. rows'[i] = events[i - Len(rows)]
        BY <3>1, SendRows
      <3> QED  BY <3>1, <3>2, <1>2
    <2> QED  BY <2>1, <2>2
  <1> QED  BY <1>3, SendRows DEF Over

LEMMA RowsClose ==
    ASSUME rows \in Seq(Rows), NEW events \in Seq(Rows), Stream!Send(events), ~Over, Closing(events)
    PROVE  /\ Over'
           /\ \A i \in DOMAIN rows' : rows'[i].type \in Terminal => i = Len(rows')
  <1>1. \A i \in 1..Len(rows) : rows[i].type \notin Terminal
    BY DEF Over
  <1>2. /\ Len(events) \in 1..Len(events)
        /\ \A i \in 1..Len(events) : events[i].type \in Terminal <=> i = Len(events)
    <2>1. Len(events) \in Nat /\ events # <<>>
      BY DEF Closing
    <2>2. Len(events) # 0
      BY <2>1
    <2> QED  BY <2>1, <2>2 DEF Closing
  <1>3. ASSUME NEW i \in 1..Len(rows'), rows'[i].type \in Terminal PROVE i = Len(rows')
    <2>1. i \notin 1..Len(rows)
      BY <1>1, <1>3, SendRows
    <2>2. i - Len(rows) \in 1..Len(events) /\ Len(rows) + (i - Len(rows)) = i
      BY <2>1, SendRows
    <2>3. rows'[i] = events[i - Len(rows)]
      BY <2>2, SendRows
    <2>4. i - Len(rows) = Len(events)
      BY <1>2, <1>3, <2>2, <2>3
    <2> QED  BY <2>4, SendRows
  <1>4. Len(rows') \in 1..Len(rows') /\ rows'[Len(rows')] = events[Len(events)]
    BY <1>2, SendRows
  <1> QED  BY <1>2, <1>3, <1>4, SendRows DEF Over

-----------------------------------------------------------------------------
(* Every step of a stream.                                                 *)

LEMMA StreamInit == ASSUME Stream!Init PROVE StreamInv
  <1>1. /\ request \in Stream!StreamRequests /\ producer = "generating" /\ produced = <<>> /\ channel = <<>>
        /\ connection = "open" /\ projection = [text |-> <<>>, status |-> "in_progress", sequence |-> 0]
        /\ rows = <<>> /\ remembered = FALSE /\ committed = FALSE
    BY DEF Stream!Init
  <1>2. StreamTypeOK
    <2>1. <<>> \in Seq(Nat) /\ <<>> \in Seq(Events) /\ <<>> \in Seq(Rows) /\ 0 \in Nat
      OBVIOUS
    <2>2. projection \in [text : Seq(Nat), status : {"in_progress", "completed"}, sequence : Nat]
      BY <1>1, <2>1
    <2> QED  BY <1>1, <2>1, <2>2 DEF StreamTypeOK
  <1>3. ~Over /\ ~Stream!Completed /\ ~(\E i \in DOMAIN rows : rows[i].type = "answer")
    BY <1>1 DEF Over, Stream!Completed
  <1>4. Rebuilds(rows, <<>>, <<>>, <<>>)
    BY <1>1, TextInNone DEF Rebuilds
  <1>5. ~Stream!ProducerEnded
    BY <1>1 DEF Stream!ProducerEnded
  <1>6. ChannelKept /\ RowsEnd
    BY <1>1, <1>3, <1>5 DEF ChannelKept, RowsEnd
  <1>7. InOrder
    <2>1. Len(produced) = 0 /\ Len(channel) = 0 /\ Len(projection.text) = 0 /\ projection.text = <<>>
      BY <1>1
    <2> QED  BY <1>1, <1>5, <2>1 DEF InOrder
  <1>8. TextRebuilt
    <2>1. projection.text = <<>>
      BY <1>1
    <2> QED  BY <2>1, <1>3, <1>4 DEF TextRebuilt
  <1>9. Sequenced
    BY <1>1 DEF Sequenced
  <1>10. Published
    BY <1>1, <1>3 DEF Published, Stream!CompletedIsPublished
  <1> QED  BY <1>2, <1>6, <1>7, <1>8, <1>9, <1>10 DEF StreamInv

\* A client is told the end only when the inference thread is done.
LEMMA OverAtTheEnd ==
    ASSUME StreamInv
    PROVE  /\ request.streaming /\ ~Stream!ProducerEnded => ~Over
           /\ channel # <<>> => request.streaming /\ connection = "open" /\ ~Over
           /\ Stream!Completed => Over /\ Projected /\ Stream!ProducerEnded
  <1>1. Stream!Completed => Over /\ Projected
    BY DEF StreamInv, TextRebuilt, Stream!Completed, Over, Terminal
  <1> QED  BY <1>1 DEF StreamInv, StreamTypeOK, ChannelKept, Projected

\* A step that sends no row keeps what the rows say.
LEMMA NothingSent ==
    ASSUME StreamInv, UNCHANGED <<request, rows, projection, remembered>>,
           Stream!Completed => UNCHANGED <<says, produced>>,
           committed => committed', producer' \in {"finished", "done"} => committed',
           connection' = "ended" => connection = "ended" \/ Over,
           connection = "ended" => connection' = "ended"
    PROVE  RowsEnd' /\ TextRebuilt' /\ Sequenced' /\ Published' /\ (Over' <=> Over)
  <1>1. (Over' <=> Over) /\ (Projected' <=> Projected) /\ (Stream!Completed' <=> Stream!Completed)
        /\ (Stream!Buffered' <=> Stream!Buffered)
    BY DEF Over, Projected, Stream!Completed, Stream!Buffered
  <1>3. RowsEnd'
    BY <1>1 DEF StreamInv, RowsEnd
  <1>4. TextRebuilt'
    <2>1. Stream!Completed => Stream!Parsed' = Stream!Parsed /\ produced' = produced
      BY DEF Stream!Parsed
    <2>2. TextRebuilt
      BY DEF StreamInv
    <2>3. \A a, b, c : Rebuilds(rows, a, b, c)' <=> Rebuilds(rows, a, b, c)
      BY DEF Rebuilds
    <2> QED  BY <2>1, <2>2, <2>3, <1>1 DEF TextRebuilt
  <1>5. Sequenced'
    BY <1>1 DEF StreamInv, Sequenced
  <1>6. Published'
    BY <1>1 DEF StreamInv, Published, Stream!CompletedIsPublished
  <1> QED  BY <1>1, <1>3, <1>4, <1>5, <1>6

LEMMA MoreWaits ==
    ASSUME channel \in Seq(Events), NEW event \in Events, channel' = Append(channel, event)
    PROVE  /\ channel' \in Seq(Events) /\ Len(channel') = Len(channel) + 1 /\ channel' # <<>>
           /\ DOMAIN channel' = 1..(Len(channel) + 1) /\ DOMAIN channel = 1..Len(channel) /\ Len(channel) \in Nat
           /\ \A i \in 1..Len(channel) : channel'[i] = channel[i]
           /\ channel'[Len(channel) + 1] = event
  <1>1. Append(channel, event) # <<>>
    <2>1. Len(Append(channel, event)) = Len(channel) + 1 /\ Len(channel) \in Nat /\ Len(<<>>) = 0
      OBVIOUS
    <2> QED  BY <2>1
  <1> QED  BY <1>1

LEMMA TokenIs ==
    ASSUME NEW n \in Nat PROVE [type |-> "token", delta |-> n] \in Events /\ [type |-> "token", delta |-> n].delta = n
  BY DEF Events

\* A step that leaves rows, channel and connection alone, before the thread is done
LEMMA OnlyProducer ==
    ASSUME StreamInv, UNCHANGED <<request, produced, channel, connection, projection, rows, remembered>>,
           ~Stream!ProducerEnded, producer' \in {"sending", "checked", "finished", "error"},
           producer' = "sending" => request.streaming,
           committed' \in BOOLEAN, committed => committed', producer' = "finished" => committed'
    PROVE  StreamInv'
  <1>1. ~Stream!Completed /\ (Projected' <=> Projected) /\ ~Stream!ProducerEnded'
    BY OverAtTheEnd DEF Projected, Stream!ProducerEnded
  <1>2. RowsEnd' /\ TextRebuilt' /\ Sequenced' /\ Published' /\ (Over' <=> Over)
    BY <1>1, NothingSent
  <1>3. StreamTypeOK'
    BY DEF StreamInv, StreamTypeOK
  <1>4. \A i \in DOMAIN channel : channel[i].type = "token"
    BY DEF StreamInv, ChannelKept, Stream!ProducerEnded
  <1>5. ChannelKept'
    BY <1>1, <1>2, <1>4 DEF StreamInv, ChannelKept
  <1>6. InOrder'
    BY <1>1, <1>2 DEF StreamInv, InOrder
  <1> QED  BY <1>2, <1>3, <1>5, <1>6 DEF StreamInv

\* A delta that is collected, or about to be sent
LEMMA GenerateKeeps == ASSUME StreamInv, Stream!Generate PROVE StreamInv'
  <1>1. CASE request.streaming
    <2>1. /\ UNCHANGED <<request, produced, channel, connection, projection, rows, remembered, committed>>
          /\ ~Stream!ProducerEnded /\ producer' = "sending" /\ committed' \in BOOLEAN
      BY <1>1 DEF Stream!Generate, Stream!ProducerEnded, StreamInv, StreamTypeOK
    <2> QED  BY <2>1, <1>1, OnlyProducer
  <1>2. CASE ~request.streaming
    <2>1. /\ producer = "generating" /\ producer' = producer
          /\ produced' = Append(produced, Len(produced) + 1)
          /\ UNCHANGED <<request, says, channel, connection, projection, rows, remembered, committed>>
      BY <1>2 DEF Stream!Generate
    <2>2. ~Stream!ProducerEnded /\ ~Stream!ProducerEnded'
      BY <2>1 DEF Stream!ProducerEnded
    <2>3. ~Stream!Completed
      BY <2>2, OverAtTheEnd
    <2>4. RowsEnd' /\ TextRebuilt' /\ Sequenced' /\ Published' /\ (Over' <=> Over)
      BY <2>1, <2>3, NothingSent
    <2>5. produced' \in Seq(Nat) /\ \A i \in DOMAIN produced' : produced'[i] = i
      <3>1. produced \in Seq(Nat) /\ \A i \in 1..Len(produced) : produced[i] = i
        BY DEF StreamInv, StreamTypeOK, InOrder
      <3> QED  BY <3>1, <2>1
    <2>6. StreamTypeOK'
      BY <2>1, <2>5 DEF StreamInv, StreamTypeOK
    <2>7. ChannelKept'
      BY <1>2, <2>1, <2>2, <2>4 DEF StreamInv, ChannelKept
    <2>8. InOrder'
      BY <1>2, <2>1, <2>5 DEF InOrder, Projected
    <2> QED  BY <2>4, <2>6, <2>7, <2>8 DEF StreamInv
  <1> QED  BY <1>1, <1>2

LEMMA SendDeltaKeeps == ASSUME StreamInv, Stream!SendDelta PROVE StreamInv'
  <1>1. /\ producer = "sending" /\ producer' = "generating" /\ connection = "open"
        /\ produced' = Append(produced, Len(produced) + 1)
        /\ UNCHANGED <<request, says, connection, projection, rows, remembered, committed>>
    BY DEF Stream!SendDelta
  <1>2. ~Stream!ProducerEnded /\ ~Stream!ProducerEnded'
    BY <1>1 DEF Stream!ProducerEnded
  <1>3. (request.streaming => ~Over) /\ ~Stream!Completed
    BY <1>2, OverAtTheEnd
  <1>4. RowsEnd' /\ TextRebuilt' /\ Sequenced' /\ Published' /\ (Over' <=> Over)
    BY <1>1, <1>3, NothingSent
  <1>5. /\ produced' \in Seq(Nat) /\ Len(produced') = Len(produced) + 1
        /\ \A i \in DOMAIN produced' : produced'[i] = i
    <2>1. produced \in Seq(Nat) /\ \A i \in 1..Len(produced) : produced[i] = i
      BY DEF StreamInv, StreamTypeOK, InOrder
    <2> QED  BY <2>1, <1>1
  <1>6. channel \in Seq(Events) /\ (Projected' <=> Projected) /\ request.streaming \in BOOLEAN
    BY <1>1 DEF StreamInv, StreamTypeOK, Projected, Stream!StreamRequests
  <1>7. request.streaming
    BY <1>1 DEF StreamInv, StreamTypeOK
  <1> QED
    <2> DEFINE event == [type |-> "token", delta |-> Len(produced) + 1]
    <2>1. channel' = Append(channel, event)
      BY DEF Stream!SendDelta
    <2>2. Len(produced) \in Nat
      BY DEF StreamInv, StreamTypeOK
    <2>3. event \in Events /\ event.type = "token" /\ event.delta = Len(produced) + 1
      BY <2>2, TokenIs
    <2> HIDE DEF event
    <2>4. /\ channel' \in Seq(Events) /\ Len(channel') = Len(channel) + 1 /\ channel' # <<>>
          /\ DOMAIN channel' = 1..(Len(channel) + 1) /\ DOMAIN channel = 1..Len(channel) /\ Len(channel) \in Nat
          /\ \A i \in 1..Len(channel) : channel'[i] = channel[i]
          /\ channel'[Len(channel) + 1] = event
      BY <1>6, <2>1, <2>3, MoreWaits
    <2>5. StreamTypeOK'
      BY <1>1, <1>5, <2>4 DEF StreamInv, StreamTypeOK
    <2>6. \A i \in DOMAIN channel : channel[i].type = "token"
      BY <1>1 DEF StreamInv, ChannelKept
    <2>7. \A i \in DOMAIN channel' : channel'[i].type = "token"
      BY <2>3, <2>4, <2>6
    <2>8. connection' = "open" /\ request'.streaming /\ ~Over'
      BY <1>1, <1>3, <1>4, <1>7
    <2>9. ChannelKept'
      BY <1>2, <2>7, <2>8 DEF ChannelKept
    <2>10. ASSUME Projected PROVE Len(produced) = Len(projection.text) + Len(channel)
      BY <1>1, <1>2, <1>3, <1>7, <2>10, <2>2, <2>4 DEF StreamInv, StreamTypeOK, InOrder
    <2>11. Len(projection.text) \in Nat
      BY DEF StreamInv, StreamTypeOK
    <2>12. ASSUME Projected
           PROVE  /\ \A i \in DOMAIN projection.text : projection.text[i] = i
                  /\ \A i \in DOMAIN channel' : channel'[i].delta = Len(projection.text) + i
                  /\ Len(produced') = Len(projection.text) + Len(channel')
      <3>1. /\ \A i \in DOMAIN projection.text : projection.text[i] = i
            /\ \A i \in DOMAIN channel : channel[i].delta = Len(projection.text) + i
        BY <2>12, <2>6 DEF StreamInv, InOrder
      <3> DEFINE k == Len(projection.text)
                 c == Len(channel)
                 n == Len(produced)
      <3>2. /\ n = k + c /\ n \in Nat /\ k \in Nat /\ c \in Nat
            /\ Len(produced') = n + 1 /\ Len(channel') = c + 1 /\ event.delta = n + 1
        BY <2>10, <2>12, <2>2, <2>3, <2>4, <2>11, <1>5
      <3>3. /\ DOMAIN channel' = 1..(c + 1) /\ DOMAIN channel = 1..c /\ channel'[c + 1] = event
            /\ \A i \in 1..c : channel'[i] = channel[i] /\ channel[i].delta = k + i
        BY <3>1, <2>4
      <3> HIDE DEF k, c, n
      <3>4. Len(produced') = k + Len(channel')
        BY <3>2
      <3>5. ASSUME NEW i \in 1..(c + 1) PROVE channel'[i].delta = k + i
        <4>1. CASE i \in 1..c
          BY <4>1, <3>3
        <4>2. CASE i = c + 1
          BY <4>2, <3>2, <3>3
        <4> QED  BY <4>1, <4>2, <3>2
      <3> QED  BY <3>1, <3>3, <3>4, <3>5 DEF k
    <2>13. InOrder'
      BY <1>1, <1>2, <1>5, <1>6, <2>12 DEF InOrder
    <2> QED  BY <1>4, <2>5, <2>9, <2>13 DEF StreamInv

LEMMA SendRefusedKeeps == ASSUME StreamInv, Stream!SendRefused PROVE StreamInv'
  <1>1. /\ UNCHANGED <<request, produced, channel, connection, projection, rows, remembered, committed>>
        /\ ~Stream!ProducerEnded /\ producer' = "error" /\ committed' \in BOOLEAN
    BY DEF Stream!SendRefused, Stream!ProducerEnded, StreamInv, StreamTypeOK
  <1> QED  BY <1>1, OnlyProducer

LEMMA GenerateFailsKeeps == ASSUME StreamInv, Stream!GenerateFails PROVE StreamInv'
  <1>1. /\ UNCHANGED <<request, produced, channel, connection, projection, rows, remembered, committed>>
        /\ ~Stream!ProducerEnded /\ producer' = "error" /\ committed' \in BOOLEAN
    BY DEF Stream!GenerateFails, Stream!ProducerEnded, StreamInv, StreamTypeOK
  <1> QED  BY <1>1, OnlyProducer

LEMMA LastCheckKeeps == ASSUME StreamInv, Stream!LastCheck PROVE StreamInv'
  <1>1. /\ UNCHANGED <<request, produced, channel, connection, projection, rows, remembered, committed>>
        /\ ~Stream!ProducerEnded /\ producer' = "checked" /\ committed' \in BOOLEAN
    BY DEF Stream!LastCheck, Stream!ProducerEnded, StreamInv, StreamTypeOK
  <1> QED  BY <1>1, OnlyProducer

LEMMA CommitKeeps == ASSUME StreamInv, Stream!Commit PROVE StreamInv'
  <1>1. /\ UNCHANGED <<request, produced, channel, connection, projection, rows, remembered>>
        /\ ~Stream!ProducerEnded /\ committed' \in BOOLEAN /\ (committed => committed')
        /\ producer' \in {"finished", "error"} /\ (producer' = "finished" => committed')
    BY DEF Stream!Commit, Stream!ProducerEnded, StreamInv, StreamTypeOK
  <1> QED  BY <1>1, OnlyProducer

LEMMA NothingHappens ==
    ASSUME StreamInv, UNCHANGED <<request, producer, produced, says, channel, connection, projection, rows,
                                  remembered, committed>>
    PROVE  StreamInv'
  <1>1. (Projected' <=> Projected) /\ (Stream!ProducerEnded' <=> Stream!ProducerEnded)
    BY DEF Projected, Stream!ProducerEnded
  <1>2. committed => committed'
    OBVIOUS
  <1>3. producer' \in {"finished", "done"} => committed'
    BY DEF StreamInv, Published
  <1>4. RowsEnd' /\ TextRebuilt' /\ Sequenced' /\ Published' /\ (Over' <=> Over)
    BY <1>2, <1>3, NothingSent
  <1>5. StreamTypeOK'
    BY DEF StreamInv, StreamTypeOK
  <1>6. ChannelKept'
    BY <1>1, <1>4 DEF StreamInv, ChannelKept
  <1>7. InOrder'
    BY <1>1, <1>4 DEF StreamInv, InOrder
  <1> QED  BY <1>4, <1>5, <1>6, <1>7 DEF StreamInv

LEMMA StopKeeps == ASSUME StreamInv, Stream!Stop PROVE StreamInv'
  BY NothingHappens DEF Stream!Stop

LEMMA ProducerEndsKeeps == ASSUME StreamInv, Stream!ProducerEnds PROVE StreamInv'
  <1>1. /\ producer \in {"finished", "error"}
        /\ producer' = IF producer = "finished" THEN "done" ELSE "failed"
        /\ channel' = IF request.streaming /\ connection = "open"
                      THEN Append(channel, [type |-> producer]) ELSE channel
        /\ UNCHANGED <<request, produced, says, connection, projection, rows, remembered, committed>>
    BY DEF Stream!ProducerEnds
  <1>2. ~Stream!ProducerEnded /\ Stream!ProducerEnded' /\ (Projected' <=> Projected)
    BY <1>1 DEF Stream!ProducerEnded, Projected
  <1>3. (request.streaming => ~Over) /\ ~Stream!Completed
    BY <1>2, OverAtTheEnd
  <1>4. producer' \in {"finished", "done"} => committed'
    BY <1>1 DEF StreamInv, Published
  <1>5. RowsEnd' /\ TextRebuilt' /\ Sequenced' /\ Published' /\ (Over' <=> Over)
    BY <1>1, <1>3, <1>4, NothingSent
  <1>6. \A i \in DOMAIN channel : channel[i].type = "token"
    BY <1>1 DEF StreamInv, ChannelKept
  <1>7. channel \in Seq(Events) /\ request.streaming \in BOOLEAN
    BY DEF StreamInv, StreamTypeOK, Stream!StreamRequests
  <1>8. CASE ~(request.streaming /\ connection = "open")
    <2>1. channel' = channel /\ channel = <<>>
      BY <1>1, <1>7, <1>8 DEF StreamInv, ChannelKept
    <2>2. StreamTypeOK'
      BY <1>1, <2>1 DEF StreamInv, StreamTypeOK
    <2>3. ChannelKept'
      BY <1>1, <1>2, <1>8, <2>1 DEF ChannelKept
    <2>4. InOrder'
      BY <1>1, <1>2, <1>8, <2>1 DEF StreamInv, InOrder, Projected
    <2> QED  BY <1>5, <2>2, <2>3, <2>4 DEF StreamInv
  <1>9. CASE request.streaming /\ connection = "open"
    <2> DEFINE event == [type |-> producer]
    <2>1. channel' = Append(channel, event)
      BY <1>1, <1>9
    <2>2. event \in Events /\ event.type = producer
      BY <1>1 DEF Events
    <2> HIDE DEF event
    <2>3. /\ channel' \in Seq(Events) /\ Len(channel') = Len(channel) + 1 /\ channel' # <<>>
          /\ DOMAIN channel' = 1..(Len(channel) + 1) /\ DOMAIN channel = 1..Len(channel) /\ Len(channel) \in Nat
          /\ \A i \in 1..Len(channel) : channel'[i] = channel[i]
          /\ channel'[Len(channel) + 1] = event
      BY <1>7, <2>1, <2>2, MoreWaits
    <2>4. StreamTypeOK'
      BY <1>1, <2>3 DEF StreamInv, StreamTypeOK
    <2>5. ~Over'
      BY <1>3, <1>5, <1>9
    <2>6. \A i \in DOMAIN channel' :
             IF i = Len(channel) + 1 THEN channel'[i].type = producer ELSE channel'[i].type = "token" /\ i \in DOMAIN channel
      BY <1>6, <2>2, <2>3
    <2>7. ChannelKept'
      <3>1. \A i \in DOMAIN channel' : channel'[i].type # "token" =>
               i = Len(channel') /\ producer' = IF channel'[i].type = "finished" THEN "done" ELSE "failed"
        BY <1>1, <2>3, <2>6
      <3>2. channel'[Len(channel')].type # "token"
        BY <1>1, <2>2, <2>3
      <3>3. ~(connection' # "open" \/ ~request'.streaming)
        BY <1>1, <1>9
      <3> QED  BY <2>3, <2>5, <3>1, <3>2, <3>3 DEF ChannelKept
    <2>8. InOrder'
      <3> DEFINE k == Len(projection.text)
                 c == Len(channel)
                 n == Len(produced)
      <3>1. n \in Nat /\ k \in Nat /\ c \in Nat
        BY <2>3 DEF StreamInv, StreamTypeOK
      <3>2. \A i \in DOMAIN produced : produced[i] = i
        BY DEF StreamInv, InOrder
      <3>3. ASSUME Projected
            PROVE  /\ \A i \in DOMAIN projection.text : projection.text[i] = i
                   /\ \A i \in DOMAIN channel' : channel'[i].type = "token" => channel'[i].delta = Len(projection.text) + i
                   /\ Len(produced) = Len(projection.text) + Len(channel') - 1
        <4>1. /\ \A i \in DOMAIN projection.text : projection.text[i] = i
              /\ \A i \in DOMAIN channel : channel[i].delta = Len(projection.text) + i
              /\ Len(produced) = Len(projection.text) + Len(channel) - 0
          BY <1>2, <1>3, <1>6, <1>9, <3>3 DEF StreamInv, InOrder
        <4>2. n = k + c - 0 /\ Len(channel') = c + 1
          BY <4>1, <2>3
        <4> HIDE DEF k, c, n
        <4>3. n = k + Len(channel') - 1
          BY <3>1, <4>2
        <4>4. \A i \in DOMAIN channel' : channel'[i].type = "token" => i \in DOMAIN channel /\ channel'[i] = channel[i]
          BY <1>1, <2>3, <2>6
        <4> QED  BY <4>1, <4>3, <4>4 DEF k, n
      <3> QED  BY <1>1, <1>2, <3>2, <3>3 DEF InOrder
    <2> QED  BY <1>5, <2>4, <2>7, <2>8 DEF StreamInv
  <1> QED  BY <1>7, <1>8, <1>9

LEMMA EndStreamKeeps == ASSUME StreamInv, Stream!EndStream PROVE StreamInv'
  <1>1. /\ request.streaming /\ connection = "open" /\ channel = <<>> /\ Stream!ProducerEnded
        /\ connection' = "ended"
        /\ UNCHANGED <<request, producer, produced, says, channel, projection, rows, remembered, committed>>
    BY DEF Stream!EndStream
  <1>2. Over
    BY <1>1 DEF StreamInv, ChannelKept
  <1>3. producer' \in {"finished", "done"} => committed'
    BY <1>1 DEF StreamInv, Published
  <1>4. RowsEnd' /\ TextRebuilt' /\ Sequenced' /\ Published' /\ (Over' <=> Over)
    BY <1>1, <1>2, <1>3, NothingSent
  <1>5. StreamTypeOK'
    BY <1>1 DEF StreamInv, StreamTypeOK
  <1>6. (Projected' <=> Projected) /\ (Stream!ProducerEnded' <=> Stream!ProducerEnded)
    BY <1>1 DEF Projected, Stream!ProducerEnded
  <1>7. ChannelKept'
    BY <1>1, <1>4, <1>6 DEF StreamInv, ChannelKept
  <1>8. InOrder'
    BY <1>1, <1>6 DEF StreamInv, InOrder
  <1> QED  BY <1>4, <1>5, <1>7, <1>8 DEF StreamInv

LEMMA DisconnectKeeps == ASSUME StreamInv, Stream!Disconnect PROVE StreamInv'
  <1>1. /\ connection = "open" /\ connection' = "dropped" /\ channel' = <<>>
        /\ UNCHANGED <<request, producer, produced, says, projection, rows, remembered, committed>>
    BY DEF Stream!Disconnect
  <1>2. producer' \in {"finished", "done"} => committed'
    BY <1>1 DEF StreamInv, Published
  <1>3. RowsEnd' /\ TextRebuilt' /\ Sequenced' /\ Published' /\ (Over' <=> Over)
    BY <1>1, <1>2, NothingSent
  <1>4. StreamTypeOK'
    <2>1. <<>> \in Seq(Events)
      OBVIOUS
    <2> QED  BY <1>1, <2>1 DEF StreamInv, StreamTypeOK
  <1>5. (Projected' <=> Projected) /\ (Stream!ProducerEnded' <=> Stream!ProducerEnded)
    BY <1>1 DEF Projected, Stream!ProducerEnded
  <1>6. ChannelKept'
    BY <1>1, <1>3, <1>5 DEF StreamInv, ChannelKept
  <1>7. InOrder'
    BY <1>1, <1>5 DEF StreamInv, InOrder
  <1> QED  BY <1>3, <1>4, <1>6, <1>7 DEF StreamInv

LEMMA SaidTogether ==
    ASSUME rows \in Seq(Rows), NEW events \in Seq(Rows), Stream!Send(events),
           NEW a, NEW b, NEW c, NEW d, NEW e, NEW f, Rebuilds(rows, a, b, c), Rebuilds(events, d, e, f)
    PROVE  Rebuilds(rows', a \o d, b \o e, c \o f)
  <1>1. \A type : Stream!TextIn(rows', type) = Stream!TextIn(rows, type) \o Stream!TextIn(events, type)
    BY SendRows
  <1> QED  BY <1>1 DEF Rebuilds

\* Numbers go on from row to row.
LEMMA NumbersGoOn ==
    ASSUME StreamInv, ~Over, Projected, NEW events \in Seq(Rows), Stream!Send(events),
           \A i \in 1..Len(events) : events[i].sequence \in {projection.sequence + i - 1, None}
    PROVE  \A i \in DOMAIN rows' : rows'[i].sequence \in {i - 1, None}
  <1>1. rows \in Seq(Rows) /\ projection.sequence = Len(rows) /\ Len(rows) \in Nat
        /\ \A i \in 1..Len(rows) : rows[i].sequence \in {i - 1, None}
    <2>1. rows \in Seq(Rows) /\ Len(rows) \in Nat /\ DOMAIN rows = 1..Len(rows)
      BY DEF StreamInv, StreamTypeOK
    <2>2. (\A i \in DOMAIN rows : rows[i].sequence \in {i - 1, None}) /\ projection.sequence = Len(rows)
      BY DEF StreamInv, Sequenced
    <2> QED  BY <2>1, <2>2
  <1> DEFINE n == Len(rows)
  <1>2. /\ DOMAIN rows' = 1..Len(rows') /\ \A i \in 1..n : rows'[i] = rows[i]
        /\ \A i \in 1..Len(rows') : i \notin 1..n => i - n \in 1..Len(events) /\ n + (i - n) = i
        /\ \A i \in 1..Len(events) : rows'[n + i] = events[i]
    BY <1>1, SendRows
  <1>3. n \in Nat /\ projection.sequence = n
    BY <1>1
  <1> HIDE DEF n
  <1>4. ASSUME NEW i \in 1..Len(rows') PROVE rows'[i].sequence \in {i - 1, None}
    <2>1. CASE i \in 1..n
      BY <2>1, <1>1, <1>2 DEF n
    <2>2. CASE i \notin 1..n
      <3>1. i - n \in 1..Len(events) /\ n + (i - n) = i
        BY <2>2, <1>2
      <3>2. rows'[i] = events[i - n]
        BY <3>1, <1>2
      <3>3. events[i - n].sequence \in {projection.sequence + (i - n) - 1, None}
        BY <3>1
      <3>4. projection.sequence + (i - n) - 1 = i - 1
        BY <1>3
      <3> QED  BY <3>2, <3>3, <3>4
    <2> QED  BY <2>1, <2>2
  <1> QED  BY <1>2, <1>4

\* Rows after which the stream goes on
LEMMA SentOn ==
    ASSUME StreamInv, ~Over, request.streaming, connection = "open",
           UNCHANGED <<request, producer, produced, says, connection, remembered, committed>>,
           NEW events \in Seq(Rows), Stream!Send(events), Continuing(events), NEW piece \in Seq(Nat),
           Projected =>
               /\ projection'.text = projection.text \o piece
               /\ projection'.sequence = projection.sequence + Len(events)
               /\ Rebuilds(events, IF Stream!Buffered THEN <<>> ELSE piece, <<>>, <<>>)
               /\ \A i \in 1..Len(events) : events[i].sequence \in {projection.sequence + i - 1, None}
    PROVE  rows' \in Seq(Rows) /\ ~Over' /\ RowsEnd' /\ TextRebuilt' /\ Sequenced' /\ Published'
  <1>1. rows \in Seq(Rows)
    BY DEF StreamInv, StreamTypeOK
  <1>2. ~Over' /\ rows' \in Seq(Rows) /\ Len(rows') = Len(rows) + Len(events)
    BY <1>1, RowsGoOn, SendRows
  <1>3. /\ (Projected' <=> Projected) /\ (Stream!Buffered' <=> Stream!Buffered)
        /\ ~Stream!Completed' /\ ~(\E i \in DOMAIN rows' : rows'[i].type = "answer")
    BY <1>2 DEF Projected, Stream!Buffered, Stream!Completed, Over, Terminal
  <1>4. RowsEnd'
    BY <1>2 DEF RowsEnd, Over
  <1>5. TextRebuilt'
    <2> SUFFICES ASSUME Projected
                 PROVE  Rebuilds(rows', IF Stream!Buffered THEN <<>> ELSE projection'.text, <<>>, <<>>)
      BY <1>2, <1>3 DEF TextRebuilt
    <2>1. Rebuilds(rows, IF Stream!Buffered THEN <<>> ELSE projection.text, <<>>, <<>>)
      BY DEF StreamInv, TextRebuilt
    <2>2. Rebuilds(rows', (IF Stream!Buffered THEN <<>> ELSE projection.text)
                            \o (IF Stream!Buffered THEN <<>> ELSE piece), <<>> \o <<>>, <<>> \o <<>>)
      BY <1>1, <2>1, SaidTogether
    <2>3. <<>> \o <<>> = <<>>
      OBVIOUS
    <2> QED  BY <2>2, <2>3
  <1>6. Sequenced'
    <2> SUFFICES ASSUME Projected
                 PROVE  (\A i \in DOMAIN rows' : rows'[i].sequence \in {i - 1, None}) /\ projection'.sequence = Len(rows')
      BY <1>3 DEF Sequenced
    <2>1. \A i \in DOMAIN rows' : rows'[i].sequence \in {i - 1, None}
      BY NumbersGoOn
    <2>2. projection.sequence = Len(rows)
      BY DEF StreamInv, Sequenced
    <2> QED  BY <1>2, <2>1, <2>2
  <1>7. Published'
    BY <1>3 DEF StreamInv, Published, Stream!CompletedIsPublished
  <1> QED  BY <1>2, <1>4, <1>5, <1>6, <1>7

\* Rows that end it
LEMMA SentLast ==
    ASSUME StreamInv, ~Over, request.streaming, connection = "open",
           UNCHANGED <<request, producer, produced, says, connection, committed>>,
           NEW events \in Seq(Rows), Stream!Send(events), Closing(events),
           \A i \in 1..Len(events) : events[i].type # "answer",
           Projected => \A i \in 1..Len(events) : events[i].sequence \in {projection.sequence + i - 1, None},
           Stream!Completed' =>
               /\ Projected /\ committed /\ remembered'
               /\ \E text : Rebuilds(rows', text, text, text)
                            /\ text = IF Stream!Parsed = "call" THEN <<>> ELSE produced
    PROVE  rows' \in Seq(Rows) /\ Over' /\ RowsEnd' /\ TextRebuilt' /\ Sequenced' /\ Published'
  <1>1. rows \in Seq(Rows) /\ \A i \in DOMAIN rows : rows[i].type # "answer"
    BY DEF StreamInv, StreamTypeOK, Over, Terminal
  <1>2. Over' /\ rows' \in Seq(Rows) /\ \A i \in DOMAIN rows' : rows'[i].type \in Terminal => i = Len(rows')
    BY <1>1, RowsClose, SendRows
  <1>3. (Projected' <=> Projected) /\ Stream!Parsed' = Stream!Parsed
    BY DEF Projected, Stream!Parsed
  <1>4. ~(\E i \in DOMAIN rows' : rows'[i].type = "answer")
    <2> SUFFICES ASSUME NEW i \in 1..Len(rows') PROVE rows'[i].type # "answer"
      BY <1>1, SendRows
    <2>1. CASE i \in 1..Len(rows)
      <3>1. rows'[i] = rows[i] /\ i \in DOMAIN rows
        BY <1>1, <2>1, SendRows
      <3> QED  BY <1>1, <3>1
    <2>2. CASE i \notin 1..Len(rows)
      <3>1. i - Len(rows) \in 1..Len(events) /\ Len(rows) + (i - Len(rows)) = i
        BY <2>2, <1>1, SendRows
      <3>2. rows'[i] = events[i - Len(rows)]
        BY <3>1, <1>1, SendRows
      <3> QED  BY <3>1, <3>2
    <2> QED  BY <2>1, <2>2
  <1>5. RowsEnd'
    BY <1>2 DEF RowsEnd
  <1>6. TextRebuilt'
    BY <1>2, <1>3 DEF TextRebuilt
  <1>7. Sequenced'
    BY <1>2, <1>3, NumbersGoOn DEF Sequenced
  <1>8. Published'
    BY <1>4 DEF StreamInv, Published, Stream!CompletedIsPublished
  <1> QED  BY <1>2, <1>5, <1>6, <1>7, <1>8

LEMMA OneBehind == ASSUME NEW S, NEW s \in Seq(S), NEW e \in S PROVE Append(s, e) = s \o <<e>>
  <1> DEFINE a == Append(s, e)
             b == s \o <<e>>
             n == Len(s)
  <1>1. /\ a \in Seq(S) /\ Len(a) = n + 1 /\ n \in Nat /\ a[n + 1] = e
        /\ \A i \in 1..n : a[i] = s[i]
    OBVIOUS
  <1>2. /\ b \in Seq(S) /\ Len(b) = n + 1 /\ b[n + 1] = e
        /\ \A i \in 1..n : b[i] = s[i]
    OBVIOUS
  <1> HIDE DEF a, b, n
  <1>3. \A i \in 1..(n + 1) : a[i] = b[i]
    BY <1>1, <1>2
  <1>4. a = b
    BY <1>1, <1>2, <1>3, SameElements
  <1> QED  BY <1>4 DEF a, b

LEMMA ProjectionMoves ==
    ASSUME NEW T, NEW U, NEW p \in [text : T, status : U, sequence : Nat], NEW t \in T, NEW n \in Nat, NEW q,
           q = [p EXCEPT !.sequence = n, !.text = t]
    PROVE  q \in [text : T, status : U, sequence : Nat] /\ q.text = t /\ q.sequence = n
  OBVIOUS

LEMMA LessWaits ==
    ASSUME channel \in Seq(Events), channel # <<>>, channel' = Tail(channel)
    PROVE  /\ channel' \in Seq(Events) /\ Len(channel') = Len(channel) - 1 /\ Len(channel) \in Nat \ {0}
           /\ DOMAIN channel' = 1..(Len(channel) - 1) /\ DOMAIN channel = 1..Len(channel)
           /\ \A i \in 1..(Len(channel) - 1) : channel'[i] = channel[i + 1]
           /\ Head(channel) = channel[1] /\ channel[1] \in Events /\ 1 \in DOMAIN channel
  OBVIOUS

\* The terminal event is received.
LEMMA LastReceived ==
    ASSUME StreamInv, channel # <<>>, Head(channel).type # "token", channel' = Tail(channel),
           UNCHANGED <<request, producer, produced, connection>>
    PROVE  /\ channel' = <<>> /\ channel' \in Seq(Events) /\ Stream!ProducerEnded
           /\ Head(channel).type = "finished" => producer = "done"
           /\ Projected => projection.text = produced
           /\ Over' => ChannelKept'
           /\ Over' /\ projection'.text = projection.text => InOrder'
  <1>1. channel \in Seq(Events) /\ produced \in Seq(Nat) /\ projection.text \in Seq(Nat)
    BY DEF StreamInv, StreamTypeOK
  <1>2. /\ channel' \in Seq(Events) /\ Len(channel') = Len(channel) - 1 /\ Len(channel) \in Nat \ {0}
        /\ Head(channel) = channel[1] /\ channel[1] \in Events /\ 1 \in DOMAIN channel
    BY <1>1, LessWaits
  <1>3. 1 = Len(channel) /\ producer = IF channel[1].type = "finished" THEN "done" ELSE "failed"
    BY <1>2 DEF StreamInv, ChannelKept
  <1>4. channel' = <<>> /\ Stream!ProducerEnded
    BY <1>2, <1>3 DEF Stream!ProducerEnded
  <1>5. request.streaming /\ connection = "open" /\ ~Over
    BY OverAtTheEnd
  <1>6. ASSUME Projected PROVE projection.text = produced
    <2>1. /\ \A i \in DOMAIN produced : produced[i] = i
          /\ \A i \in DOMAIN projection.text : projection.text[i] = i
          /\ Len(produced) = Len(projection.text) + Len(channel) - 1
      BY <1>4, <1>5, <1>6 DEF StreamInv, InOrder
    <2> DEFINE text == projection.text
               n == Len(produced)
               k == Len(text)
               c == Len(channel)
    <2>2. n = k + c - 1 /\ c = 1 /\ n \in Nat /\ k \in Nat /\ DOMAIN produced = 1..n /\ DOMAIN text = 1..k
      BY <2>1, <1>1, <1>3
    <2>3. /\ text \in Seq(Nat) /\ produced \in Seq(Nat) /\ Len(produced) = n /\ Len(text) = k
          /\ (\A i \in DOMAIN produced : produced[i] = i) /\ (\A i \in DOMAIN text : text[i] = i)
      BY <2>1, <1>1
    <2> HIDE DEF text, n, k, c
    <2>4. n = k
      BY <2>2
    <2>5. \A i \in 1..n : text[i] = produced[i]
      BY <2>2, <2>3, <2>4
    <2>6. text = produced
      BY <2>3, <2>4, <2>5, SameElements
    <2> QED  BY <2>6 DEF text
  <1>7. (Stream!ProducerEnded' <=> Stream!ProducerEnded) /\ (Projected' <=> Projected)
    BY DEF Stream!ProducerEnded, Projected
  <1>8. Over' => ChannelKept'
    BY <1>4, <1>7 DEF ChannelKept
  <1>9. Over' /\ projection'.text = projection.text => InOrder'
    BY <1>4, <1>7 DEF StreamInv, InOrder
  <1> QED  BY <1>2, <1>3, <1>4, <1>6, <1>8, <1>9

\* Rows of the other protocols
LEMMA ChatGoesOn ==
    ASSUME NEW event, event.type = "started" \/ (event.type = "token" /\ event.delta \in Nat)
    PROVE  Stream!ChatRows(event) \in Seq(Plain) /\ Continuing(Stream!ChatRows(event))
  <1>1. <<>> \in Seq(Nat) /\ (event.delta \in Nat => <<event.delta>> \in Seq(Nat))
        /\ "start" \in RowTypes /\ "delta" \in RowTypes
    BY DEF RowTypes
  <1>2. CASE event.type = "started"
    <2>1. Stream!ChatRows(event) = <<Stream!Row("start", <<>>)>>
      BY <1>2 DEF Stream!ChatRows
    <2>2. Stream!Row("start", <<>>) \in Plain /\ Stream!Row("start", <<>>).type = "start"
      BY <1>1, RowIs
    <2>3. Stream!Row("start", <<>>).type \notin Terminal
      BY <2>2 DEF Terminal
    <2> QED  BY <2>1, <2>2, <2>3, OneGoesOn
  <1>3. CASE event.type = "token" /\ event.delta \in Nat
    <2>1. Stream!ChatRows(event) = <<Stream!Row("delta", <<event.delta>>)>>
      BY <1>3 DEF Stream!ChatRows
    <2>2. Stream!Row("delta", <<event.delta>>) \in Plain /\ Stream!Row("delta", <<event.delta>>).type = "delta"
      BY <1>1, <1>3, RowIs
    <2>3. Stream!Row("delta", <<event.delta>>).type \notin Terminal
      BY <2>2 DEF Terminal
    <2> QED  BY <2>1, <2>2, <2>3, OneGoesOn
  <1> QED  BY <1>2, <1>3

\* One row that ends a stream
LEMMA OneCloses ==
    ASSUME NEW a \in Rows, a.type \in Terminal, a.type \notin {"completed", "answer"}
    PROVE  /\ <<a>> \in Seq(Rows) /\ Len(<<a>>) = 1 /\ Closing(<<a>>)
           /\ \A i \in 1..1 : <<a>>[i] = a
           /\ \A i \in 1..1 : <<a>>[i].type \notin {"completed", "answer"}
  <1>1. /\ <<a>> \in Seq(Rows) /\ Len(<<a>>) = 1 /\ DOMAIN <<a>> = 1..1 /\ <<a>> # <<>>
        /\ \A i \in 1..1 : i = 1 /\ <<a>>[i] = a
    OBVIOUS
  <1>2. \A i \in DOMAIN <<a>> : <<a>>[i].type \in Terminal <=> i = Len(<<a>>)
    BY <1>1
  <1> QED  BY <1>1, <1>2 DEF Closing

LEMMA ChatCloses ==
    ASSUME NEW event, event.type \in {"finished", "error"}
    PROVE  /\ Stream!ChatRows(event) \in Seq(Rows) /\ Closing(Stream!ChatRows(event))
           /\ \A i \in 1..Len(Stream!ChatRows(event)) : Stream!ChatRows(event)[i].type \notin {"completed", "answer"}
  <1>1. <<>> \in Seq(Nat) /\ "finish" \in RowTypes /\ "DONE" \in RowTypes /\ "error" \in RowTypes
    BY DEF RowTypes
  <1>2. CASE event.type = "error"
    <2>1. Stream!ChatRows(event) = <<Stream!Row("error", <<>>)>>
      BY <1>2 DEF Stream!ChatRows
    <2>2. Stream!Row("error", <<>>) \in Rows /\ Stream!Row("error", <<>>).type = "error"
      BY <1>1, RowIs
    <2>3. /\ Stream!Row("error", <<>>).type \in Terminal
          /\ Stream!Row("error", <<>>).type \notin {"completed", "answer"}
      BY <2>2 DEF Terminal
    <2> QED  BY <2>1, <2>2, <2>3, OneCloses
  <1>3. CASE event.type = "finished"
    <2> DEFINE a == Stream!Row("finish", <<>>)
               b == Stream!Row("DONE", <<>>)
               both == <<a, b>>
    <2>1. Stream!ChatRows(event) = both
      BY <1>3 DEF Stream!ChatRows
    <2>2. a \in Plain /\ b \in Plain /\ a.type = "finish" /\ b.type = "DONE"
      BY <1>1, RowIs
    <2> HIDE DEF a, b
    <2>3. both \in Seq(Plain) /\ Len(both) = 2 /\ both[1] = a /\ both[2] = b
      BY <2>2
    <2> HIDE DEF both
    <2>4. a.type \notin Terminal /\ b.type \in Terminal
      BY <2>2 DEF Terminal
    <2>5. \A i \in 1..2 : both[i].type \in Terminal <=> i = 2
      BY <2>3, <2>4
    <2>6. 2 \in Nat \ {0}
      OBVIOUS
    <2>7. Closing(both)
      BY <2>3, <2>5, <2>6, ClosingIs
    <2>8. \A i \in 1..2 : both[i].type \notin {"completed", "answer"}
      BY <2>2, <2>3
    <2>9. both \in Seq(Rows)
      BY <2>3 DEF Rows
    <2> QED  BY <2>1, <2>3, <2>7, <2>8, <2>9
  <1> QED  BY <1>2, <1>3

LEMMA PlainAreRows == ASSUME NEW events \in Seq(Plain) PROVE events \in Seq(Rows)
  BY DEF Rows

LEMMA StartKeeps == ASSUME StreamInv, Stream!Start PROVE StreamInv'
  <1>1. /\ request.streaming /\ connection = "open" /\ rows = <<>>
        /\ UNCHANGED <<request, producer, produced, says, channel, connection, remembered, committed>>
    BY DEF Stream!Start
  <1>2. ~Over /\ (Projected' <=> Projected) /\ (Stream!ProducerEnded' <=> Stream!ProducerEnded)
    BY <1>1 DEF Over, Projected, Stream!ProducerEnded
  <1>3. /\ projection \in [text : Seq(Nat), status : {"in_progress", "completed"}, sequence : Nat]
        /\ projection.text \in Seq(Nat) /\ projection.sequence \in Nat
    BY DEF StreamInv, StreamTypeOK
  <1>4. <<>> \in Seq(Nat) /\ projection.text \o <<>> = projection.text
    BY <1>3
  <1>5. /\ rows' \in Seq(Rows) /\ ~Over' /\ RowsEnd' /\ TextRebuilt' /\ Sequenced' /\ Published'
        /\ projection' \in [text : Seq(Nat), status : {"in_progress", "completed"}, sequence : Nat]
        /\ projection'.text = projection.text
    <2>1. CASE request.protocol = "responses"
      <3> DEFINE plain == Stream!ProjectStarted
                 events == Stream!Numbered(plain)
      <3>1. Stream!Send(events) /\ projection' = [projection EXCEPT !.sequence = Len(plain)]
        BY <2>1 DEF Stream!Start
      <3>2. plain \in Seq(Plain) /\ Continuing(plain) /\ Rebuilds(plain, <<>>, <<>>, <<>>)
        BY StartedEvents
      <3>3. /\ events \in Seq(Rows) /\ Len(events) = Len(plain) /\ Continuing(events)
            /\ \A i \in 1..Len(plain) : events[i].sequence = projection.sequence + i - 1
            /\ \A type : Stream!TextIn(events, type) = Stream!TextIn(plain, type)
        BY <1>3, <3>2, NumberedEvents
      <3> HIDE DEF events
      <3>4. Rebuilds(events, <<>>, <<>>, <<>>)
        BY <3>2, <3>3 DEF Rebuilds
      <3>5. Len(plain) \in Nat
        BY <3>2
      <3>6. projection.sequence = 0
        BY <1>1, <1>2, <2>1 DEF StreamInv, Sequenced, Projected
      <3> HIDE DEF plain
      <3>7. /\ projection' \in [text : Seq(Nat), status : {"in_progress", "completed"}, sequence : Nat]
            /\ projection'.text = projection.text /\ projection'.sequence = projection.sequence + Len(events)
        BY <1>3, <3>1, <3>3, <3>5, <3>6
      <3>8. Rebuilds(events, IF Stream!Buffered THEN <<>> ELSE <<>>, <<>>, <<>>)
        BY <3>4
      <3>9. \A i \in 1..Len(events) : events[i].sequence \in {projection.sequence + i - 1, None}
        BY <3>3
      <3>10. projection'.text = projection.text \o <<>>
        BY <1>4, <3>7
      <3>11. rows' \in Seq(Rows) /\ ~Over' /\ RowsEnd' /\ TextRebuilt' /\ Sequenced' /\ Published'
        BY <1>1, <1>2, <1>4, <3>1, <3>3, <3>7, <3>8, <3>9, <3>10, SentOn
      <3> QED  BY <3>7, <3>11
    <2>2. CASE request.protocol # "responses"
      <3> DEFINE events == Stream!ChatRows([type |-> "started"])
      <3>1. Stream!Send(events) /\ projection' = projection
        BY <2>2 DEF Stream!Start
      <3>2. events \in Seq(Plain) /\ Continuing(events)
        BY ChatGoesOn
      <3>3. ~Projected
        BY <2>2 DEF Projected
      <3> HIDE DEF events
      <3>4. events \in Seq(Rows)
        BY <3>2, PlainAreRows
      <3>5. rows' \in Seq(Rows) /\ ~Over' /\ RowsEnd' /\ TextRebuilt' /\ Sequenced' /\ Published'
        BY <1>1, <1>2, <1>4, <3>1, <3>2, <3>3, <3>4, SentOn
      <3> QED  BY <1>3, <3>1, <3>5
    <2> QED  BY <2>1, <2>2
  <1>6. StreamTypeOK'
    BY <1>1, <1>5 DEF StreamInv, StreamTypeOK
  <1>7. ChannelKept'
    BY <1>1, <1>2, <1>5 DEF StreamInv, ChannelKept
  <1>8. InOrder'
    BY <1>1, <1>2, <1>5 DEF StreamInv, InOrder
  <1> QED  BY <1>5, <1>6, <1>7, <1>8 DEF StreamInv

\* A token becomes a delta, or waits in the text.
LEMMA ReceiveTokenKeeps == ASSUME StreamInv, Stream!Receive, Head(channel).type = "token" PROVE StreamInv'
  <1> DEFINE delta == Head(channel).delta
  <1>1. /\ connection = "open" /\ channel # <<>> /\ channel' = Tail(channel)
        /\ UNCHANGED <<request, producer, produced, says, connection, remembered, committed>>
    BY DEF Stream!Receive
  <1>2. request.streaming /\ ~Over /\ (Projected' <=> Projected) /\ (Stream!ProducerEnded' <=> Stream!ProducerEnded)
    BY <1>1, OverAtTheEnd DEF Projected, Stream!ProducerEnded
  <1>3. /\ projection \in [text : Seq(Nat), status : {"in_progress", "completed"}, sequence : Nat]
        /\ projection.text \in Seq(Nat) /\ projection.sequence \in Nat /\ channel \in Seq(Events)
    BY DEF StreamInv, StreamTypeOK
  <1>4. /\ channel' \in Seq(Events) /\ Len(channel') = Len(channel) - 1 /\ Len(channel) \in Nat \ {0}
        /\ DOMAIN channel' = 1..(Len(channel) - 1) /\ DOMAIN channel = 1..Len(channel)
        /\ \A i \in 1..(Len(channel) - 1) : channel'[i] = channel[i + 1]
        /\ Head(channel) = channel[1] /\ channel[1] \in Events /\ 1 \in DOMAIN channel
    BY <1>1, <1>3, LessWaits
  <1>5. delta \in Nat /\ delta = channel[1].delta /\ channel[1].type = "token"
    BY <1>4 DEF Events
  <1>6. <<delta>> \in Seq(Nat) /\ Append(projection.text, delta) = projection.text \o <<delta>>
    <2> HIDE DEF delta
    <2> QED  BY <1>3, <1>5, OneBehind
  <1>7. /\ rows' \in Seq(Rows) /\ ~Over' /\ RowsEnd' /\ TextRebuilt' /\ Sequenced' /\ Published'
        /\ projection' \in [text : Seq(Nat), status : {"in_progress", "completed"}, sequence : Nat]
        /\ Projected => projection'.text = Append(projection.text, delta)
    <2>1. CASE request.protocol = "responses"
      <3> DEFINE plain == Stream!ProjectToken(delta)
                 events == Stream!Numbered(plain)
      <3>1. /\ Stream!Send(events)
            /\ projection' = [projection EXCEPT !.sequence = @ + Len(plain), !.text = Append(@, delta)]
        BY <2>1 DEF Stream!Receive
      <3>2. /\ plain \in Seq(Plain) /\ Continuing(plain)
            /\ Rebuilds(plain, IF Stream!Buffered THEN <<>> ELSE <<delta>>, <<>>, <<>>)
        BY <1>5, TokenEvents
      <3> HIDE DEF plain
      <3>3. /\ events \in Seq(Rows) /\ Len(events) = Len(plain) /\ Continuing(events)
            /\ \A i \in 1..Len(plain) : events[i].sequence = projection.sequence + i - 1
            /\ \A type : Stream!TextIn(events, type) = Stream!TextIn(plain, type)
        BY <1>3, <3>2, NumberedEvents
      <3> HIDE DEF events, delta
      <3>4. Rebuilds(events, IF Stream!Buffered THEN <<>> ELSE <<delta>>, <<>>, <<>>)
        BY <3>2, <3>3 DEF Rebuilds
      <3>5. Len(plain) \in Nat
        BY <3>2
      <3>6. Append(projection.text, delta) \in Seq(Nat)
        BY <1>3, <1>5
      <3>7. /\ projection' \in [text : Seq(Nat), status : {"in_progress", "completed"}, sequence : Nat]
            /\ projection'.text = Append(projection.text, delta)
            /\ projection'.sequence = projection.sequence + Len(events)
        <4> DEFINE text == Append(projection.text, delta)
                   n == Len(plain)
        <4>1. projection' = [projection EXCEPT !.sequence = projection.sequence + n, !.text = text]
          BY <3>1
        <4>2. n \in Nat /\ text \in Seq(Nat) /\ Len(events) = n /\ projection.sequence + n \in Nat
          BY <1>3, <3>3, <3>5, <3>6
        <4> HIDE DEF text, n
        <4>3. /\ projection' \in [text : Seq(Nat), status : {"in_progress", "completed"}, sequence : Nat]
              /\ projection'.text = text /\ projection'.sequence = projection.sequence + n
          BY <1>3, <4>1, <4>2, ProjectionMoves, Zenon
        <4> QED  BY <4>2, <4>3 DEF text
      <3>8. \A i \in 1..Len(events) : events[i].sequence \in {projection.sequence + i - 1, None}
        BY <3>3
      <3>9. projection'.text = projection.text \o <<delta>>
        BY <1>6, <3>7
      <3>10. rows' \in Seq(Rows) /\ ~Over' /\ RowsEnd' /\ TextRebuilt' /\ Sequenced' /\ Published'
        BY <1>1, <1>2, <1>6, <3>1, <3>3, <3>4, <3>7, <3>8, <3>9, SentOn
      <3> QED  BY <3>7, <3>10
    <2>2. CASE request.protocol # "responses"
      <3> DEFINE events == Stream!ChatRows(Head(channel))
      <3>1. Stream!Send(events) /\ projection' = projection
        BY <2>2 DEF Stream!Receive
      <3>2. events \in Seq(Plain) /\ Continuing(events)
        BY <1>5, ChatGoesOn
      <3>3. ~Projected
        BY <2>2 DEF Projected
      <3> HIDE DEF events
      <3>4. events \in Seq(Rows)
        BY <3>2, PlainAreRows
      <3>5. rows' \in Seq(Rows) /\ ~Over' /\ RowsEnd' /\ TextRebuilt' /\ Sequenced' /\ Published'
        BY <1>1, <1>2, <1>6, <3>1, <3>2, <3>3, <3>4, SentOn
      <3> QED  BY <1>3, <3>1, <3>3, <3>5
    <2> QED  BY <2>1, <2>2
  <1>8. StreamTypeOK'
    BY <1>1, <1>4, <1>7 DEF StreamInv, StreamTypeOK
  <1>9. ChannelKept'
    <2> DEFINE c == Len(channel)
    <2>1. /\ c \in Nat \ {0} /\ DOMAIN channel' = 1..(c - 1) /\ DOMAIN channel = 1..c /\ Len(channel') = c - 1
          /\ \A i \in 1..(c - 1) : channel'[i] = channel[i + 1]
      BY <1>4
    <2>2. \A i \in 1..c : channel[i].type # "token" =>
             i = c /\ producer = IF channel[i].type = "finished" THEN "done" ELSE "failed"
      <3>1. \A i \in DOMAIN channel : channel[i].type # "token" =>
               i = c /\ producer = IF channel[i].type = "finished" THEN "done" ELSE "failed"
        BY DEF StreamInv, ChannelKept
      <3> HIDE DEF c
      <3> QED  BY <2>1, <3>1
    <2>3. Stream!ProducerEnded => channel[c].type # "token"
      BY <1>1, <1>2 DEF StreamInv, ChannelKept
    <2>4. channel' \in Seq(Events)
      BY <1>4
    <2> HIDE DEF c
    <2>5. \A i \in DOMAIN channel' : channel'[i].type # "token" =>
             i = Len(channel') /\ producer' = IF channel'[i].type = "finished" THEN "done" ELSE "failed"
      <3> SUFFICES ASSUME NEW i \in 1..(c - 1), channel'[i].type # "token"
                   PROVE  i = c - 1 /\ producer = IF channel'[i].type = "finished" THEN "done" ELSE "failed"
        BY <1>1, <2>1
      <3>1. i + 1 \in 1..c /\ channel'[i] = channel[i + 1]
        BY <2>1
      <3>2. i + 1 = c /\ producer = IF channel[i + 1].type = "finished" THEN "done" ELSE "failed"
        BY <2>2, <3>1
      <3> QED  BY <2>1, <3>1, <3>2
    <2>6. ASSUME Stream!ProducerEnded PROVE channel' # <<>> /\ channel'[Len(channel')].type # "token"
      <3>1. c # 1
        BY <1>5, <2>3, <2>6
      <3>2. c - 1 \in 1..(c - 1) /\ (c - 1) + 1 = c
        BY <2>1, <3>1
      <3>3. channel'[c - 1] = channel[c]
        BY <2>1, <3>2
      <3>4. Len(channel') # 0
        BY <2>1, <3>1
      <3> QED  BY <2>1, <2>3, <2>4, <2>6, <3>3, <3>4
    <2> QED  BY <1>1, <1>2, <1>7, <2>5, <2>6 DEF ChannelKept
  <1>10. InOrder'
    <2> DEFINE k == Len(projection.text)
               c == Len(channel)
               n == Len(produced)
               text == projection.text
    <2>1. \A i \in DOMAIN produced : produced[i] = i
      BY DEF StreamInv, InOrder
    <2>2. ASSUME Projected
          PROVE  /\ \A i \in DOMAIN projection'.text : projection'.text[i] = i
                 /\ \A i \in DOMAIN channel' :
                       channel'[i].type = "token" => channel'[i].delta = Len(projection'.text) + i
                 /\ Len(produced) = Len(projection'.text) + Len(channel') - IF Stream!ProducerEnded THEN 1 ELSE 0
      <3>1. /\ \A i \in DOMAIN text : text[i] = i
            /\ \A i \in DOMAIN channel : channel[i].type = "token" => channel[i].delta = k + i
            /\ n = k + c - IF Stream!ProducerEnded THEN 1 ELSE 0
        BY <1>1, <1>2, <2>2 DEF StreamInv, InOrder
      <3>2. /\ c \in Nat \ {0} /\ DOMAIN channel' = 1..(c - 1) /\ DOMAIN channel = 1..c /\ Len(channel') = c - 1
            /\ (\A i \in 1..(c - 1) : channel'[i] = channel[i + 1]) /\ k \in Nat /\ n \in Nat
        BY <1>3, <1>4 DEF StreamInv, StreamTypeOK
      <3>3. delta = k + 1
        BY <1>4, <1>5, <3>1
      <3>4. projection'.text = Append(text, delta) /\ text \in Seq(Nat) /\ Len(text) = k /\ DOMAIN text = 1..k
        BY <1>3, <1>7, <2>2
      <3> HIDE DEF k, c, n, text, delta
      <3>5. /\ Append(text, delta) \in Seq(Nat) /\ Len(Append(text, delta)) = k + 1
            /\ DOMAIN Append(text, delta) = 1..(k + 1)
            /\ (\A i \in 1..k : Append(text, delta)[i] = text[i]) /\ Append(text, delta)[k + 1] = delta
        BY <3>2, <3>3, <3>4
      <3>6. \A i \in 1..(k + 1) : Append(text, delta)[i] = i
        BY <3>1, <3>2, <3>3, <3>4, <3>5
      <3>7. ASSUME NEW i \in 1..(c - 1), channel'[i].type = "token" PROVE channel'[i].delta = (k + 1) + i
        <4>1. i + 1 \in 1..c /\ channel'[i] = channel[i + 1]
          BY <3>2
        <4>2. channel[i + 1].delta = k + (i + 1)
          BY <3>1, <3>2, <3>7, <4>1
        <4> QED  BY <4>1, <4>2, <3>2
      <3>8. n = (k + 1) + (c - 1) - IF Stream!ProducerEnded THEN 1 ELSE 0
        BY <3>1, <3>2
      <3>9. Len(projection'.text) = k + 1 /\ Len(channel') = c - 1 /\ DOMAIN projection'.text = 1..(k + 1)
        BY <3>2, <3>4, <3>5
      <3>10. \A i \in DOMAIN projection'.text : projection'.text[i] = i
        BY <3>4, <3>6, <3>9
      <3>11. \A i \in DOMAIN channel' : channel'[i].type = "token" => channel'[i].delta = Len(projection'.text) + i
        BY <3>2, <3>7, <3>9
      <3>12. n = Len(projection'.text) + Len(channel') - IF Stream!ProducerEnded THEN 1 ELSE 0
        BY <3>8, <3>9
      <3> QED  BY <3>10, <3>11, <3>12 DEF n
    <2> QED  BY <1>1, <1>2, <1>7, <2>1, <2>2 DEF InOrder
  <1> QED  BY <1>7, <1>8, <1>9, <1>10 DEF StreamInv

\* Nothing that is sent says that the response is complete.
LEMMA NotCompleted ==
    ASSUME StreamInv, ~Over, NEW events \in Seq(Rows), Stream!Send(events),
           \A i \in 1..Len(events) : events[i].type # "completed"
    PROVE  ~Stream!Completed'
  <1>1. rows \in Seq(Rows) /\ \A i \in 1..Len(rows) : rows[i].type # "completed"
    BY DEF StreamInv, StreamTypeOK, Over, Terminal
  <1> SUFFICES ASSUME NEW i \in 1..Len(rows') PROVE rows'[i].type # "completed"
    BY <1>1, SendRows DEF Stream!Completed
  <1>2. CASE i \in 1..Len(rows)
    <2>1. rows'[i] = rows[i]
      BY <1>1, <1>2, SendRows
    <2> QED  BY <1>1, <1>2, <2>1
  <1>3. CASE i \notin 1..Len(rows)
    <2>1. i - Len(rows) \in 1..Len(events) /\ Len(rows) + (i - Len(rows)) = i
      BY <1>1, <1>3, SendRows
    <2>2. rows'[i] = events[i - Len(rows)]
      BY <2>1, <1>1, SendRows
    <2> QED  BY <2>1, <2>2
  <1> QED  BY <1>2, <1>3

\* An error row ends a stream, whether it is numbered or not.
LEMMA ErrorRows ==
    ASSUME projection.sequence \in Nat
    PROVE  /\ <<Stream!AdHoc>> \in Seq(Rows) /\ Closing(<<Stream!AdHoc>>) /\ Len(<<Stream!AdHoc>>) = 1
           /\ \A i \in 1..1 : <<Stream!AdHoc>>[i].sequence = None
                              /\ <<Stream!AdHoc>>[i].type \notin {"completed", "answer"}
           /\ Stream!Numbered(<<Stream!Row("error", <<>>)>>) \in Seq(Rows)
           /\ Closing(Stream!Numbered(<<Stream!Row("error", <<>>)>>))
           /\ Len(Stream!Numbered(<<Stream!Row("error", <<>>)>>)) = 1
           /\ \A i \in 1..1 : /\ Stream!Numbered(<<Stream!Row("error", <<>>)>>)[i].sequence = projection.sequence + i - 1
                              /\ Stream!Numbered(<<Stream!Row("error", <<>>)>>)[i].type \notin {"completed", "answer"}
  <1> DEFINE a == Stream!Row("error", <<>>)
             b == Stream!AdHoc
             one == <<a>>
  <1>1. <<>> \in Seq(Nat) /\ "error" \in RowTypes /\ "error" \in Terminal
    BY DEF RowTypes, Terminal
  <1>2. a \in Plain /\ a \in Rows /\ a.type = "error" /\ a.text = <<>>
    BY <1>1, RowIs DEF Stream!Row
  <1>3. b = [type |-> a.type, text |-> a.text, sequence |-> None]
    BY DEF Stream!AdHoc, Stream!NumberedRow
  <1> HIDE DEF a, b
  <1>4. b \in Rows /\ b.type = "error" /\ b.sequence = None
    BY <1>1, <1>2, <1>3 DEF Rows
  <1>5. /\ <<b>> \in Seq(Rows) /\ Closing(<<b>>) /\ Len(<<b>>) = 1
        /\ \A i \in 1..1 : <<b>>[i] = b /\ <<b>>[i].type \notin {"completed", "answer"}
    BY <1>1, <1>4, OneCloses
  <1>6. /\ one \in Seq(Rows) /\ Closing(one) /\ Len(one) = 1
        /\ \A i \in 1..1 : one[i] = a /\ one[i].type \notin {"completed", "answer"}
    BY <1>1, <1>2, OneCloses
  <1>7. one \in Seq(Plain)
    BY <1>2
  <1> HIDE DEF one
  <1>8. /\ Stream!Numbered(one) \in Seq(Rows) /\ Len(Stream!Numbered(one)) = 1 /\ Closing(Stream!Numbered(one))
        /\ \A i \in 1..1 : Stream!Numbered(one)[i].sequence = projection.sequence + i - 1
        /\ \A i \in 1..1 : Stream!Numbered(one)[i].type = one[i].type
    BY <1>6, <1>7, NumberedEvents
  <1>9. \A i \in 1..1 : Stream!Numbered(one)[i].type \notin {"completed", "answer"}
    BY <1>6, <1>8
  <1>10. \A i \in 1..1 : <<b>>[i].sequence = None
    BY <1>4, <1>5
  <1> QED  BY <1>5, <1>8, <1>9, <1>10 DEF a, b, one

\* What the last row leaves, for whatever it says
LEMMA AllKept ==
    ASSUME StreamInv, channel # <<>>, Head(channel).type # "token", channel' = Tail(channel),
           UNCHANGED <<request, producer, produced, connection, committed>>, remembered' \in BOOLEAN,
           projection' \in [text : Seq(Nat), status : {"in_progress", "completed"}, sequence : Nat],
           projection'.text = projection.text,
           rows' \in Seq(Rows), Over', RowsEnd', TextRebuilt', Sequenced', Published'
    PROVE  StreamInv'
  <1>1. channel' \in Seq(Events) /\ ChannelKept' /\ InOrder'
    BY LastReceived
  <1>2. StreamTypeOK'
    BY <1>1 DEF StreamInv, StreamTypeOK
  <1> QED  BY <1>1, <1>2 DEF StreamInv

LEMMA ReceiveErrorKeeps == ASSUME StreamInv, Stream!Receive, Head(channel).type = "error" PROVE StreamInv'
  <1>1. /\ connection = "open" /\ channel # <<>> /\ channel' = Tail(channel)
        /\ UNCHANGED <<request, producer, produced, says, connection, remembered, committed>>
    BY DEF Stream!Receive
  <1>2. request.streaming /\ ~Over
    BY <1>1, OverAtTheEnd
  <1>3. /\ projection \in [text : Seq(Nat), status : {"in_progress", "completed"}, sequence : Nat]
        /\ projection.text \in Seq(Nat) /\ projection.sequence \in Nat /\ remembered \in BOOLEAN
    BY DEF StreamInv, StreamTypeOK
  <1>4. CASE request.protocol = "responses"
    <2> DEFINE plain == <<Stream!Row("error", <<>>)>>
               events == Stream!Numbered(plain)
    <2>1. Stream!Send(events) /\ projection' = [projection EXCEPT !.sequence = @ + Len(plain), !.text = @]
      BY <1>4 DEF Stream!Receive
    <2>2. /\ events \in Seq(Rows) /\ Closing(events) /\ Len(events) = 1
          /\ \A i \in 1..1 : /\ events[i].sequence = projection.sequence + i - 1
                             /\ events[i].type \notin {"completed", "answer"}
      BY <1>3, ErrorRows
    <2>3. Len(plain) = 1
      OBVIOUS
    <2> HIDE DEF plain, events
    <2>4. /\ projection' \in [text : Seq(Nat), status : {"in_progress", "completed"}, sequence : Nat]
          /\ projection'.text = projection.text
      <3>1. projection.sequence + Len(plain) \in Nat
        BY <1>3, <2>3
      <3>2. projection' = [projection EXCEPT !.sequence = projection.sequence + Len(plain), !.text = projection.text]
        BY <2>1
      <3> QED  BY <1>3, <3>1, <3>2, ProjectionMoves, Zenon
    <2>5. /\ \A i \in 1..Len(events) : events[i].type # "answer" /\ events[i].type # "completed"
          /\ \A i \in 1..Len(events) : events[i].sequence \in {projection.sequence + i - 1, None}
      BY <2>2
    <2>6. ~Stream!Completed'
      BY <1>2, <2>1, <2>2, <2>5, NotCompleted
    <2>7. rows' \in Seq(Rows) /\ Over' /\ RowsEnd' /\ TextRebuilt' /\ Sequenced' /\ Published'
      BY <1>1, <1>2, <2>1, <2>2, <2>5, <2>6, SentLast
    <2> QED  BY <1>1, <1>3, <2>4, <2>7, AllKept
  <1>5. CASE request.protocol # "responses"
    <2> DEFINE events == Stream!ChatRows(Head(channel))
    <2>1. Stream!Send(events) /\ projection' = projection
      BY <1>5 DEF Stream!Receive
    <2>2. /\ events \in Seq(Rows) /\ Closing(events)
          /\ \A i \in 1..Len(events) : events[i].type \notin {"completed", "answer"}
      BY ChatCloses
    <2>3. ~Projected
      BY <1>5 DEF Projected
    <2> HIDE DEF events
    <2>4. \A i \in 1..Len(events) : events[i].type # "answer" /\ events[i].type # "completed"
      BY <2>2
    <2>5. ~Stream!Completed'
      BY <1>2, <2>1, <2>2, <2>4, NotCompleted
    <2>6. rows' \in Seq(Rows) /\ Over' /\ RowsEnd' /\ TextRebuilt' /\ Sequenced' /\ Published'
      BY <1>1, <1>2, <2>1, <2>2, <2>3, <2>4, <2>5, SentLast
    <2> QED  BY <1>1, <1>3, <2>1, <2>6, AllKept
  <1> QED  BY <1>4, <1>5

LEMMA ReceiveKeeps == ASSUME StreamInv, Stream!Receive PROVE StreamInv'
  <1>1. Head(channel).type = "token" \/ Head(channel).type = "error"
    BY DEF Stream!Receive
  <1> QED  BY <1>1, ReceiveTokenKeeps, ReceiveErrorKeeps

LEMMA FinishChatKeeps == ASSUME StreamInv, Stream!FinishChat PROVE StreamInv'
  <1>1. /\ connection = "open" /\ channel # <<>> /\ channel' = Tail(channel) /\ Head(channel).type = "finished"
        /\ UNCHANGED <<request, producer, produced, says, connection, committed, projection, remembered>>
        /\ request.protocol = "chat"
    BY DEF Stream!FinishChat, Stream!ReceiveFinished
  <1>2. request.streaming /\ ~Over /\ ~Projected
    BY <1>1, OverAtTheEnd DEF Projected
  <1>3. /\ projection \in [text : Seq(Nat), status : {"in_progress", "completed"}, sequence : Nat]
        /\ remembered \in BOOLEAN
    BY DEF StreamInv, StreamTypeOK
  <1> DEFINE events == Stream!ChatRows([type |-> "finished"])
  <1>4. Stream!Send(events)
    BY DEF Stream!FinishChat
  <1>5. /\ events \in Seq(Rows) /\ Closing(events)
        /\ \A i \in 1..Len(events) : events[i].type \notin {"completed", "answer"}
    BY ChatCloses
  <1> HIDE DEF events
  <1>6. \A i \in 1..Len(events) : events[i].type # "answer" /\ events[i].type # "completed"
    BY <1>5
  <1>7. ~Stream!Completed'
    BY <1>2, <1>4, <1>5, <1>6, NotCompleted
  <1>8. rows' \in Seq(Rows) /\ Over' /\ RowsEnd' /\ TextRebuilt' /\ Sequenced' /\ Published'
    BY <1>1, <1>2, <1>4, <1>5, <1>6, <1>7, SentLast
  <1> QED  BY <1>1, <1>3, <1>8, AllKept

LEMMA FinishRefusedKeeps == ASSUME StreamInv, Stream!FinishRefused PROVE StreamInv'
  <1>1. /\ connection = "open" /\ channel # <<>> /\ channel' = Tail(channel) /\ Head(channel).type = "finished"
        /\ UNCHANGED <<request, producer, produced, says, connection, committed, projection, remembered>>
    BY DEF Stream!FinishRefused, Stream!ReceiveFinished
  <1>2. request.streaming /\ ~Over
    BY <1>1, OverAtTheEnd
  <1>3. /\ projection \in [text : Seq(Nat), status : {"in_progress", "completed"}, sequence : Nat]
        /\ projection.sequence \in Nat /\ remembered \in BOOLEAN
    BY DEF StreamInv, StreamTypeOK
  <1> DEFINE events == <<Stream!AdHoc>>
  <1>4. Stream!Send(events)
    BY DEF Stream!FinishRefused
  <1>5. /\ events \in Seq(Rows) /\ Closing(events) /\ Len(events) = 1
        /\ \A i \in 1..1 : events[i].sequence = None /\ events[i].type \notin {"completed", "answer"}
    BY <1>3, ErrorRows
  <1> HIDE DEF events
  <1>6. /\ \A i \in 1..Len(events) : events[i].type # "answer" /\ events[i].type # "completed"
        /\ \A i \in 1..Len(events) : events[i].sequence \in {projection.sequence + i - 1, None}
    BY <1>5
  <1>7. ~Stream!Completed'
    BY <1>2, <1>4, <1>5, <1>6, NotCompleted
  <1>8. rows' \in Seq(Rows) /\ Over' /\ RowsEnd' /\ TextRebuilt' /\ Sequenced' /\ Published'
    BY <1>1, <1>2, <1>4, <1>5, <1>6, <1>7, SentLast
  <1> QED  BY <1>1, <1>3, <1>8, AllKept

\* A stream never sends the answer of a request without one.
Streamed == [type : RowTypes \ {"answer"}, text : Seq(Nat)]

LEMMA StreamedIs ==
    ASSUME NEW type \in RowTypes, type # "answer", NEW text \in Seq(Nat)
    PROVE  Stream!Row(type, text) \in Streamed
  BY DEF Stream!Row, Streamed

LEMMA FinishedStreams ==
    ASSUME NEW text \in Seq(Nat), NEW call \in BOOLEAN
    PROVE  \A i \in 1..Len(Stream!ProjectFinished(text, call)) :
              Stream!ProjectFinished(text, call)[i].type # "answer"
  <1> DEFINE none == <<>>
             callAdded == Stream!Row("call_added", none)
             callDone  == Stream!Row("call_done", none)
             called    == Stream!Row("completed", none)
             itemAdded == Stream!Row("item_added", text)
             partAdded == Stream!Row("part_added", none)
             delta     == Stream!Row("delta", text)
             textDone  == Stream!Row("text_done", text)
             partDone  == Stream!Row("part_done", text)
             itemDone  == Stream!Row("item_done", text)
             completed == Stream!Row("completed", text)
             calls == <<callAdded, callDone, called>>
             spoken == <<itemAdded, partAdded, delta>>
             before == IF Stream!Buffered THEN spoken ELSE none
             after == <<textDone, partDone, itemDone, completed>>
  <1>1. none \in Seq(Nat) /\ none \in Seq(Streamed)
    OBVIOUS
  <1>2. {"call_added", "call_done", "completed", "item_added", "part_added", "delta", "text_done",
         "part_done", "item_done"} \subseteq RowTypes \ {"answer"}
    BY DEF RowTypes
  <1>3. /\ callAdded \in Streamed /\ callDone \in Streamed /\ called \in Streamed /\ itemAdded \in Streamed
        /\ partAdded \in Streamed /\ delta \in Streamed /\ textDone \in Streamed /\ partDone \in Streamed
        /\ itemDone \in Streamed /\ completed \in Streamed
    <2> HIDE DEF none
    <2> QED  BY <1>1, <1>2, StreamedIs
  <1>4. Stream!ProjectFinished(text, call) = IF call THEN calls ELSE before \o after
    BY DEF Stream!ProjectFinished
  <1> HIDE DEF callAdded, callDone, called, itemAdded, partAdded, delta, textDone, partDone, itemDone, completed, none
  <1>5. calls \in Seq(Streamed) /\ spoken \in Seq(Streamed)
    BY <1>3, Triple, Zenon
  <1>6. after \in Seq(Streamed)
    BY <1>3, Four, Zenon
  <1>7. before \in Seq(Streamed)
    BY <1>1, <1>5
  <1> HIDE DEF calls, spoken, before, after
  <1>8. before \o after \in Seq(Streamed)
    BY <1>6, <1>7
  <1>9. Stream!ProjectFinished(text, call) \in Seq(Streamed)
    BY <1>4, <1>5, <1>8
  <1>10. ASSUME NEW s \in Seq(Streamed), NEW i \in 1..Len(s) PROVE s[i].type # "answer"
    <2>1. s[i] \in Streamed
      OBVIOUS
    <2> QED  BY <2>1 DEF Streamed
  <1> QED  BY <1>9, <1>10

LEMMA ProjectionEnds ==
    ASSUME NEW T, NEW U, NEW p \in [text : T, status : U, sequence : Nat], NEW u \in U, NEW n \in Nat, NEW q,
           q = [p EXCEPT !.status = u, !.sequence = n]
    PROVE  q \in [text : T, status : U, sequence : Nat] /\ q.text = p.text /\ q.sequence = n
  OBVIOUS

LEMMA FinishResponseKeeps == ASSUME StreamInv, Stream!FinishResponse PROVE StreamInv'
  <1> DEFINE call == Stream!Parsed = "call"
             text == projection.text
             plain == Stream!ProjectFinished(text, call)
             events == Stream!Numbered(plain)
  <1>1. /\ connection = "open" /\ channel # <<>> /\ channel' = Tail(channel) /\ Head(channel).type = "finished"
        /\ UNCHANGED <<request, producer, produced, says, connection, committed>>
        /\ request.protocol = "responses" /\ Stream!Parsed # "refused"
    BY DEF Stream!FinishResponse, Stream!ReceiveFinished
  <1>2. projection' = [projection EXCEPT !.status = "completed", !.sequence = @ + Len(plain)]
    BY DEF Stream!FinishResponse
  <1>3. \/ remembered' = TRUE /\ Stream!Send(events)
        \/ UNCHANGED remembered /\ Stream!Send(<<Stream!AdHoc>>)
    BY DEF Stream!FinishResponse
  <1>4. request.streaming /\ ~Over /\ Projected
    BY <1>1, OverAtTheEnd DEF Projected
  <1>5. /\ projection \in [text : Seq(Nat), status : {"in_progress", "completed"}, sequence : Nat]
        /\ text \in Seq(Nat) /\ projection.sequence \in Nat /\ remembered \in BOOLEAN /\ rows \in Seq(Rows)
    BY DEF StreamInv, StreamTypeOK
  <1>6. text = produced /\ producer = "done"
    BY <1>1, <1>4, LastReceived
  <1>7. committed
    BY <1>6 DEF StreamInv, Published
  <1>8. call \in BOOLEAN /\ (call => Stream!Buffered)
    BY DEF Stream!Parsed, Stream!Buffered
  <1>9. Rebuilds(rows, IF Stream!Buffered THEN <<>> ELSE text, <<>>, <<>>)
    BY <1>4 DEF StreamInv, TextRebuilt
  <1> HIDE DEF call, text
  <1>10. /\ plain \in Seq(Plain) /\ Closing(plain)
         /\ Rebuilds(plain, IF call \/ ~Stream!Buffered THEN <<>> ELSE text,
                     IF call THEN <<>> ELSE text, IF call THEN <<>> ELSE text)
    BY <1>5, <1>8, FinishedEvents
  <1>11. \A i \in 1..Len(plain) : plain[i].type # "answer"
    BY <1>5, <1>8, FinishedStreams
  <1> HIDE DEF plain
  <1>12. /\ events \in Seq(Rows) /\ Len(events) = Len(plain) /\ Closing(events)
         /\ \A i \in 1..Len(plain) : events[i].sequence = projection.sequence + i - 1
         /\ \A i \in 1..Len(plain) : events[i].type = plain[i].type
         /\ \A type : Stream!TextIn(events, type) = Stream!TextIn(plain, type)
    BY <1>5, <1>10, NumberedEvents
  <1> HIDE DEF events
  <1>13. /\ projection' \in [text : Seq(Nat), status : {"in_progress", "completed"}, sequence : Nat]
         /\ projection'.text = projection.text
    <2> DEFINE n == projection.sequence + Len(plain)
    <2>1. n \in Nat /\ "completed" \in {"in_progress", "completed"}
      BY <1>5, <1>10
    <2>2. projection' = [projection EXCEPT !.status = "completed", !.sequence = n]
      BY <1>2
    <2> HIDE DEF n
    <2> QED  BY <1>5, <2>1, <2>2, ProjectionEnds, Zenon
  <1>14. ASSUME Stream!Send(events), remembered' = TRUE
         PROVE  rows' \in Seq(Rows) /\ Over' /\ RowsEnd' /\ TextRebuilt' /\ Sequenced' /\ Published'
    <2> DEFINE all == IF call THEN <<>> ELSE text
    <2>1. \A i \in 1..Len(events) : events[i].type # "answer"
      BY <1>11, <1>12
    <2>2. \A i \in 1..Len(events) : events[i].sequence \in {projection.sequence + i - 1, None}
      BY <1>12
    <2>3. Rebuilds(events, IF call \/ ~Stream!Buffered THEN <<>> ELSE text, all, all)
      BY <1>10, <1>12 DEF Rebuilds
    <2>4. Rebuilds(rows', (IF Stream!Buffered THEN <<>> ELSE text)
                            \o (IF call \/ ~Stream!Buffered THEN <<>> ELSE text), <<>> \o all, <<>> \o all)
      BY <1>5, <1>9, <1>12, <1>14, <2>3, SaidTogether
    <2>5. <<>> \o <<>> = <<>> /\ text \o <<>> = text /\ <<>> \o text = text
      BY <1>5, EmptyEnd
    <2>6. (IF Stream!Buffered THEN <<>> ELSE text) \o (IF call \/ ~Stream!Buffered THEN <<>> ELSE text) = all
      BY <1>8, <2>5
    <2>7. <<>> \o all = all
      BY <2>5
    <2>8. all = IF Stream!Parsed = "call" THEN <<>> ELSE produced
      BY <1>6 DEF call
    <2> HIDE DEF all
    <2>9. Rebuilds(rows', all, all, all)
      BY <2>4, <2>6, <2>7
    <2>10. \E t : Rebuilds(rows', t, t, t) /\ t = IF Stream!Parsed = "call" THEN <<>> ELSE produced
      BY <2>8, <2>9
    <2> QED  BY <1>1, <1>4, <1>7, <1>12, <1>14, <2>1, <2>2, <2>10, SentLast
  <1>15. ASSUME Stream!Send(<<Stream!AdHoc>>), UNCHANGED remembered
         PROVE  rows' \in Seq(Rows) /\ Over' /\ RowsEnd' /\ TextRebuilt' /\ Sequenced' /\ Published'
    <2> DEFINE error == <<Stream!AdHoc>>
    <2>1. /\ error \in Seq(Rows) /\ Closing(error) /\ Len(error) = 1
          /\ \A i \in 1..1 : error[i].sequence = None /\ error[i].type \notin {"completed", "answer"}
      BY <1>5, ErrorRows
    <2>2. Stream!Send(error)
      BY <1>15
    <2> HIDE DEF error
    <2>3. /\ \A i \in 1..Len(error) : error[i].type # "answer" /\ error[i].type # "completed"
          /\ \A i \in 1..Len(error) : error[i].sequence \in {projection.sequence + i - 1, None}
      BY <2>1
    <2>4. ~Stream!Completed'
      BY <1>4, <2>1, <2>2, <2>3, NotCompleted
    <2> QED  BY <1>1, <1>4, <2>1, <2>2, <2>3, <2>4, SentLast
  <1>16. rows' \in Seq(Rows) /\ Over' /\ RowsEnd' /\ TextRebuilt' /\ Sequenced' /\ Published'
         /\ remembered' \in BOOLEAN
    BY <1>3, <1>5, <1>14, <1>15
  <1> QED  BY <1>1, <1>13, <1>16, AllKept

\* A request that does not stream is answered by one row.
LEMMA AnswerKeeps == ASSUME StreamInv, Stream!Answer PROVE StreamInv'
  <1> DEFINE said == IF Stream!Parsed = "call" THEN <<>> ELSE produced
             answer == Stream!Row("answer", said)
             error == Stream!Row("error", <<>>)
  <1>1. /\ ~request.streaming /\ connection = "open" /\ connection' = "ended"
        /\ UNCHANGED <<request, producer, produced, channel, committed, projection>>
    BY DEF Stream!Answer
  <1>2. /\ rows = <<>> /\ channel = <<>> /\ rows \in Seq(Rows) /\ produced \in Seq(Nat)
        /\ remembered \in BOOLEAN
    BY <1>1 DEF StreamInv, StreamTypeOK, ChannelKept, RowsEnd
  <1>3. said \in Seq(Nat) /\ <<>> \in Seq(Nat) /\ "answer" \in RowTypes /\ "error" \in RowTypes
    BY <1>2 DEF RowTypes
  <1>4. \/ /\ producer = "done" /\ remembered' = (request.protocol = "responses") /\ Stream!Send(<<answer>>)
        \/ remembered' = remembered /\ Stream!Send(<<error>>)
    BY DEF Stream!Answer
  <1> HIDE DEF said
  <1>5. answer \in Rows /\ answer.type = "answer" /\ error \in Rows /\ error.type = "error"
    BY <1>3, RowIs
  <1> HIDE DEF answer, error
  <1> DEFINE Fits(row) ==
               /\ \/ row.type = "error"
                  \/ /\ row.type = "answer" /\ producer = "done"
                     /\ request.protocol = "responses" => remembered'
               /\ Stream!Send(<<row>>) /\ remembered' \in BOOLEAN
  <1>6. PICK row \in Rows : Fits(row)
    <2>1. CASE /\ producer = "done" /\ remembered' = (request.protocol = "responses") /\ Stream!Send(<<answer>>)
      <3>1. remembered' \in BOOLEAN /\ (request.protocol = "responses" => remembered')
        BY <2>1, Zenon
      <3>2. Fits(answer)
        BY <2>1, <3>1, <1>5
      <3> HIDE DEF Fits
      <3> QED  BY <3>2, <1>5
    <2>2. CASE remembered' = remembered /\ Stream!Send(<<error>>)
      <3>1. remembered' \in BOOLEAN
        BY <2>2, <1>2
      <3>2. Fits(error)
        BY <2>2, <3>1, <1>5, Zenon
      <3> HIDE DEF Fits
      <3> QED  BY <3>2, <1>5
    <2> QED  BY <1>4, <2>1, <2>2
  <1>7. rows' = <<row>>
    BY <1>2, <1>6 DEF Stream!Send
  <1>8. rows' \in Seq(Rows) /\ DOMAIN rows' = {1} /\ Len(rows') = 1 /\ rows'[1] = row
    BY <1>7
  <1>9. row.type \in Terminal /\ row.type # "completed"
    <2>1. row.type = "error" \/ row.type = "answer"
      BY <1>6, Zenon
    <2> QED  BY <2>1 DEF Terminal
  <1>10. Over' /\ ~Stream!Completed' /\ ~Projected'
    BY <1>1, <1>8, <1>9 DEF Over, Stream!Completed, Projected
  <1>11. StreamTypeOK'
    BY <1>1, <1>6, <1>8 DEF StreamInv, StreamTypeOK
  <1>12. ChannelKept'
    BY <1>1, <1>2 DEF ChannelKept
  <1>13. RowsEnd'
    BY <1>1, <1>8, <1>10 DEF RowsEnd
  <1>14. InOrder'
    BY <1>1, <1>10 DEF StreamInv, InOrder
  <1>15. TextRebuilt' /\ Sequenced'
    BY <1>10 DEF TextRebuilt, Sequenced
  <1>16. Published'
    <2>1. producer \in {"finished", "done"} => committed
      BY DEF StreamInv, Published
    <2>2. (\E i \in DOMAIN rows' : rows'[i].type = "answer") =>
             producer = "done" /\ (request.protocol = "responses" => remembered')
      <3> SUFFICES ASSUME row.type = "answer"
                   PROVE  producer = "done" /\ (request.protocol = "responses" => remembered')
        BY <1>8, Zenon
      <3>1. row.type # "error"
        OBVIOUS
      <3> QED  BY <3>1, <1>6, Zenon
    <2> QED  BY <1>1, <1>10, <2>1, <2>2 DEF Published, Stream!CompletedIsPublished
  <1> QED  BY <1>11, <1>12, <1>13, <1>14, <1>15, <1>16 DEF StreamInv

LEMMA StreamNext == ASSUME StreamInv, [Stream!Next]_(Stream!vars) PROVE StreamInv'
  <1>1. CASE Stream!Produce
    BY <1>1, GenerateKeeps, SendDeltaKeeps, SendRefusedKeeps, GenerateFailsKeeps, LastCheckKeeps,
       CommitKeeps, ProducerEndsKeeps DEF Stream!Produce
  <1>2. CASE Stream!Serve
    BY <1>2, StartKeeps, ReceiveKeeps, FinishChatKeeps, FinishRefusedKeeps, FinishResponseKeeps,
       EndStreamKeeps, AnswerKeeps DEF Stream!Serve
  <1>3. CASE Stream!Disconnect
    BY <1>3, DisconnectKeeps
  <1>4. CASE Stream!Stop
    BY <1>4, StopKeeps
  <1>5. CASE UNCHANGED Stream!vars
    BY <1>5, NothingHappens DEF Stream!vars
  <1> QED  BY <1>1, <1>2, <1>3, <1>4, <1>5 DEF Stream!Next

\* What the invariant says of the rows is what the client relies on.
LEMMA RowsRebuild == ASSUME StreamInv PROVE RowsRebuildResponse
  <1>1. Stream!RowsRebuildResponse
    <2>1. ASSUME Stream!Completed
          PROVE  /\ Stream!TextOf("delta") = Stream!TextOf("completed")
                 /\ Stream!TextOf("text_done") = Stream!TextOf("completed")
                 /\ Stream!TextOf("completed") = IF Stream!Parsed = "call" THEN <<>> ELSE produced
      <3>1. PICK text : Rebuilds(rows, text, text, text) /\ text = IF Stream!Parsed = "call" THEN <<>> ELSE produced
        BY <2>1 DEF StreamInv, TextRebuilt
      <3> QED  BY <3>1 DEF Rebuilds, Stream!TextOf
    <2>2. request.protocol = "responses" /\ request.streaming =>
             \A i \in DOMAIN rows : rows[i].sequence \in {i - 1, None}
      BY DEF StreamInv, Sequenced, Projected
    <2> QED  BY <2>1, <2>2 DEF Stream!RowsRebuildResponse
  <1>2. Stream!CompletedIsPublished
    BY DEF StreamInv, Published
  <1>3. Stream!EndsOnce
    <2> SUFFICES ASSUME connection = "ended"
                 PROVE  {i \in DOMAIN rows : rows[i].type \in Terminal} = {Len(rows)}
      BY DEF Stream!EndsOnce, Terminal
    <2>1. Over /\ \A i \in DOMAIN rows : rows[i].type \in Terminal => i = Len(rows)
      BY DEF StreamInv, RowsEnd
    <2> QED  BY <2>1 DEF Over
  <1> QED  BY <1>1, <1>2, <1>3 DEF RowsRebuildResponse

-----------------------------------------------------------------------------
\* The inductive invariant of a stream, in every behaviour of what serves requests.
THEOREM StreamInvariant == Spec => []StreamInv
  <1>1. Init => StreamInv
    BY StreamInit DEF Init
  <1>2. StreamInv /\ [Next]_vars => StreamInv'
    <2> SUFFICES ASSUME StreamInv, [Next]_vars PROVE StreamInv'
      OBVIOUS
    <2>1. [Stream!Next]_(Stream!vars)
      BY DEF Next, GateStep, PolicyStep, StopsStep, MappedStep, StreamStep, vars, streamVars, Stream!vars
    <2> QED  BY <2>1, StreamNext
  <1> QED  BY <1>1, <1>2, PTL DEF Spec

\* What the client of infer_response puts together from the rows of ResponseProjection
\* is the text the engine produced, a response shown as completed was committed and
\* remembered before, and a stream has one end, its last row: for any text, any size of
\* the channel, any tool choice, and wherever client, watchdog, engine or store stop it.
THEOREM RowsAlwaysRebuild == Spec => []RowsRebuildResponse
  <1>1. StreamInv => RowsRebuildResponse
    BY RowsRebuild
  <1> QED  BY <1>1, StreamInvariant, PTL

=============================================================================
