---------------------------- MODULE MCScheduler ----------------------------
(***************************************************************************)
(* A small instance of Scheduler: two sessions at a time, of different     *)
(* flows on one slot, or of one flow on two slots.                         *)
(***************************************************************************)
EXTENDS SchedulerInvariant

CONSTANTS a, b, c, m1, m2, f1, f2

VARIABLE started  \* the sessions that are started

\* a and b contend for one slot, each in a flow of its own; c has a slot of its own
\* and the flow of a: the later of these may overtake the earlier.
SlotOfSession == [i \in {a, b, c} |-> IF i = c THEN m2 ELSE m1]
FlowOfSession == [i \in {a, b, c} |-> IF i = b THEN f2 ELSE f1]

MCInit ==
    /\ Init
    /\ \/ started = {a, b} /\ quanta = [i \in Sessions |-> 2]
       \/ started = {a, c} /\ quanta = [i \in Sessions |-> IF i = a THEN 1 ELSE 0]

MCNext ==
    /\ Next
    /\ \A i \in Sessions \ started : pc'[i] = "new"
    /\ UNCHANGED started

MCSpec == MCInit /\ [][MCNext]_<<vars, started>> /\ Fairness

=============================================================================
