------------------------------- MODULE MCTurns -------------------------------
(***************************************************************************)
(* Small instances of what the same requests wait for, under the fairness  *)
(* of the tasks and threads that carry them on: a permit of the pre-queue  *)
(* gate, admission, and a turn of the fair policy.  `part` is the one at   *)
(* work, as in MCServing.                                                  *)
(***************************************************************************)
EXTENDS MCAdmission

CONSTANTS
    PermitLimits,         \* values the limit of the gate is given
    SlotOf, ClassOf, Weight, PromotionRounds, Charges, Floor, None  \* of the policy

VARIABLES
    part,
    available, acquiring, held, returning, permits, owed,
    runnable, flying, slots, busy, waiting, deficits, age, cursor, left

Gate == INSTANCE PrequeueGate WITH
    Tasks <- Requests, Limits <- PermitLimits, limit <- permits, waiting <- acquiring

\* Requests of as many principals, each a flow of its own: while one is in debt, the
\* others can end and come back as new flows.
Policy == INSTANCE FairPolicy WITH
    Jobs <- Requests, Flows <- Requests, FlowOf <- [r \in Requests |-> r]

OneSlot == [r \in Requests |-> 1]
OneStandard == [r \in Requests |-> IF r = r1 THEN 1 ELSE 0]
EvenWeight == [class \in 0..2 |-> 1]

ASSUME TurnsAssumption == Gate!PrequeueGateAssumption /\ Policy!FairPolicyAssumption

gateVars == <<available, acquiring, held, returning, permits, owed>>
policyVars == <<runnable, flying, slots, busy, waiting, deficits, age, cursor, left>>

TurnsInit ==
    /\ part \in {"gate", "admission", "policy"}
    /\ Gate!Init /\ (part # "gate" => permits = CHOOSE l \in PermitLimits : TRUE)
    /\ Policy!Init
    /\ Init /\ (part # "admission" => limit = CHOOSE l \in Limits : TRUE)

\* Bound: no job waits for its consumer; those that do are not in the queue.
TurnsNext ==
    \/ part = "gate" /\ Gate!Next /\ UNCHANGED <<part, policyVars, vars>>
    \/ part = "admission" /\ Next /\ UNCHANGED <<part, gateVars, policyVars>>
    \/ part = "policy" /\ Policy!Next /\ waiting' = {}
       /\ UNCHANGED <<part, gateVars, vars>>

TurnsSpec ==
    /\ TurnsInit /\ [][TurnsNext]_<<part, gateVars, policyVars, vars>>
    /\ Gate!Fairness /\ Fairness /\ Policy!Fairness

-----------------------------------------------------------------------------
Waits(r) == pc[r] = "waiting" \/ Gate!IsWaiting(r) \/ r \in Policy!InQueue

\* Nobody waits for ever.  A connection gets its permit: a limit is never paid with
\* permits a waiter would have needed.  A request is promoted without relying on a
\* deadline, because those before it end and hand their slots on.  A runnable job is
\* dispatched, or cancelled, however much its flow has been charged and whatever others
\* submit, if all jobs share one slot.  With two slots that is not true: a flow pays for
\* all its jobs with one deficit, and jobs elsewhere can keep it below what others save.
NobodyWaitsForever == \A r \in Requests : Waits(r) ~> ~Waits(r)

=============================================================================
