----------------------------- MODULE MCServing -------------------------------
(***************************************************************************)
(* Small instances of what serves a request: the pre-queue gate and the    *)
(* fair policy, whose liveness is checked in MCTurns; and, under the       *)
(* fairness of the threads and tasks that carry them on, the stops of      *)
(* requests that share an executor, the sessions of the mapped engine, and *)
(* the stream of a response.  `part` is the one at work; the variables of  *)
(* the others keep their initial values, where none of their fair actions  *)
(* is enabled.                                                             *)
(***************************************************************************)
EXTENDS Integers

CONSTANTS
    Parts,               \* the parts to check
    Tasks, Limits,       \* of the gate
    Jobs, Flows, FlowOf, SlotOf, ClassOf, Weight, PromotionRounds, Charges, Floor, \* of the policy
    Requests,            \* of the stops
    StreamBuffer, MaxDeltas,  \* of the stream
    j1, j2,              \* jobs
    standard, interactive,
    s1, s2,              \* sessions
    Root, NoHandle, Garbled, None

VARIABLES
    part,
    available, acquiring, held, returning, permits, owed,
    runnable, flying, slots, busy, waiting, deficits, age, cursor, left,
    state, hook, stopper, thread, owner, flag,
    session, native, activeHandle, logical, resident, files, spill_bytes, spilling,
    request, streamControl, producer, produced, says, channel, connection, projection, rows,
    remembered, committed

Gate == INSTANCE PrequeueGate WITH limit <- permits, waiting <- acquiring

Policy == INSTANCE FairPolicy

Stops == INSTANCE RequestControl WITH pc <- thread

\* Jobs of different classes on one slot
SmallFlowOf == [j \in Jobs |-> IF j = j1 THEN standard ELSE interactive]
OneSlot == [j \in Jobs |-> 1]
SmallClassOf == [f \in {standard, interactive} |-> IF f = standard THEN 1 ELSE 0]
SmallWeight == [class \in 0..2 |-> IF class = 0 THEN 2 ELSE 1]
SmallFloor == -6

\* Two sessions with the same prompt of two blocks.
Mapped == INSTANCE MappedEngine WITH
    active <- activeHandle,
    Sessions <- {s1, s2}, Prompts <- {<<0, 0, 0, 1>>}, Token <- {0}, MaxTokens <- {1},
    BlockSize <- 2, Chunk <- 3, SpillCapacity <- 4

Stream == INSTANCE ResponseStream WITH control <- streamControl

ASSUME ServingAssumption ==
       /\ Gate!PrequeueGateAssumption /\ Policy!FairPolicyAssumption /\ Mapped!EngineAssumption
       /\ Stops!RequestControlAssumption /\ Stream!ResponseStreamAssumption

gateVars == <<available, acquiring, held, returning, permits, owed>>
policyVars == <<runnable, flying, slots, busy, waiting, deficits, age, cursor, left>>
stopsVars == <<state, hook, stopper, thread, owner, flag>>
mappedVars == <<session, native, activeHandle, logical, resident, files, spill_bytes, spilling>>
streamVars == <<request, streamControl, producer, produced, says, channel, connection, projection,
                rows, remembered, committed>>
vars == <<part, gateVars, policyVars, stopsVars, mappedVars, streamVars>>

Init ==
    /\ part \in Parts
    /\ Gate!Init /\ (part # "gate" => permits = CHOOSE l \in Limits : TRUE)
    /\ Policy!Init /\ Stops!Init /\ Mapped!Init
    /\ Stream!Init /\ (part # "stream" => request.protocol = "chat" /\ request.streaming)

GateStep ==
    /\ part = "gate" /\ Gate!Next
    /\ UNCHANGED <<part, policyVars, stopsVars, mappedVars, streamVars>>

PolicyStep ==
    /\ part = "policy" /\ Policy!Next
    /\ UNCHANGED <<part, gateVars, stopsVars, mappedVars, streamVars>>

StopsStep ==
    /\ part = "stops" /\ Stops!Next
    /\ UNCHANGED <<part, gateVars, policyVars, mappedVars, streamVars>>

MappedStep ==
    /\ part = "mapped" /\ Mapped!Next
    /\ UNCHANGED <<part, gateVars, policyVars, stopsVars, streamVars>>

StreamStep ==
    /\ part = "stream" /\ Stream!Next
    /\ UNCHANGED <<part, gateVars, policyVars, stopsVars, mappedVars>>

Next == GateStep \/ PolicyStep \/ StopsStep \/ MappedStep \/ StreamStep

Spec == Init /\ [][Next]_vars

\* The thread of a response is at work from the beginning.  The connection makes a row
\* when the client takes it: nobody makes the client do that, or leave.
StreamFairness == WF_streamVars(part = "stream" /\ Stream!Produce)

FairSpec ==
    /\ Spec
    /\ Stops!Fairness /\ Mapped!Fairness /\ StreamFairness

-----------------------------------------------------------------------------
\* Permits out and permits left are the limit and what is owed of it, however the
\* limit moves while permits are out (PrequeueGate).  A deficit is kept only for a flow
\* that has a job, so that no debt outlives its flow (clear_if_idle), or whose last job
\* ended because the worker of its slot could not be spawned (dispatch_one); and a job
\* that has run keeps its worker until it ends (retire_slot_if_idle).
AccountsBalance ==
    Gate!PermitsBalance /\ Policy!DeficitsOfTheLiving /\ Policy!StartedHaveWorkers

\* Whatever order a stop, the registration of its hook (register_abort) and the reset
\* of the flag take, a stopped request that evaluates has the abort flag up, or its
\* stopper on the way to it; and only the owner of the executor has a hook.
NoLostAbort == Stops!NoLostAbort /\ Stops!HookOnlyWhileOwner

\* A request that is cancelled or out of time while it evaluates gets out of it,
\* wherever the stop met it and however long the evaluation would take.
StoppedGetsOut == Stops!StoppedGetsOut

\* A session that is started ends, whatever mappings are spilled under it, if the
\* scheduler steps it again and again (which MCTurns shows for one slot); and the
\* inference thread of a response ends, through a full channel, a stop or a client that
\* leaves, unless a client that stays and reads nothing more holds it in blocking_send.
RequestsEnd ==
    /\ Mapped!SessionEnds
    /\ part = "stream" => Stream!ThreadEnds

\* "End-to-end deadline from admission through completion" (config.example.yaml:91): a
\* request that is out of time, or cancelled, gives back its thread and with it its
\* admission, whatever its client does.
StoppedRequestEnds == streamControl = "stopped" ~> Stream!ProducerEnded

\* The rows a client received rebuild the response of the engine, what was reported
\* as completed is published, and a stream has one end, through a channel that fills,
\* deadlines, tool choices and clients that go away.
RowsRebuildResponse == Stream!RowsRebuildResponse /\ Stream!CompletedIsPublished /\ Stream!EndsOnce

=============================================================================
