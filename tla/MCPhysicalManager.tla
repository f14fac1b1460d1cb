------------------------- MODULE MCPhysicalManager -------------------------
(***************************************************************************)
(* Small instances of PhysicalManager: mappings of one component each, and *)
(* mappings of two components on a device too small for all of them.       *)
(***************************************************************************)
EXTENDS PhysicalManager, TLC

CONSTANTS c1, c2, t1, t2, g1

SingleMapping == [r \in Reps |-> r]
SingleComponent == [r \in Reps |-> "kv"]

\* Two components: 1 and 2, or 3 and 2, make up the mapping.
PairMapping == [r \in Reps |-> 1]
PairComponent == [r \in Reps |-> IF r = 2 THEN "swa" ELSE "kv"]

Sizes == [r \in Reps |-> IF r = 2 THEN 2 ELSE 1]

\* Contexts and transition ids are interchangeable.
Symmetry == Permutations(Contexts) \cup Permutations(Transitions)

NoReuse == [r \in Reps |-> 0]

=============================================================================
