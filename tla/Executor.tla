------------------------------ MODULE Executor ------------------------------
(***************************************************************************)
(* The executor (crates/executor/src/lib.rs over native/shim): many        *)
(* mappings lease one native sequence.  The state of the active mapping is *)
(* in the native context, the others' are saved in their representations,  *)
(* and activation swaps the two.  Representations are counted by Rust      *)
(* handles, which any thread may drop, and are reclaimed later, by an      *)
(* operation that has the executor to itself.                              *)
(*                                                                         *)
(* A state is the sequence of tokens decoded into it; llama.cpp is         *)
(* external.  The position of a mapping is where its next decode writes.   *)
(***************************************************************************)
EXTENDS Integers, Sequences, FiniteSets, SequencesExt, FiniteSetsExt

CONSTANTS
    Token,        \* tokens
    MaxLen,       \* bound: tokens of a state
    MaxMappings,  \* bound: mappings ever made, the root not counted
    MaxHandles,   \* bound: handles of one representation
    Garbled       \* what a state with more tokens than its position reads as

\* what a module that instantiates this one assumes of the constants
ExecutorAssumption ==
    /\ {MaxLen, MaxMappings, MaxHandles} \subseteq Nat
    /\ Garbled \notin Seq(Token)

VARIABLES
    live,           \* llama context: the state of the active mapping
    state,          \* cusco_representation::state of the others
    positions,      \* positions of published and prepared mappings
    references,     \* cusco_representation::references of published mappings
    prepared,       \* states of PreparedMappings not committed yet
    active_mapping,
    next_mapping,
    lost            \* a rollback failed: the native context is empty

vars == <<live, state, positions, references, prepared, active_mapping, next_mapping, lost>>

Published == DOMAIN references

\* What a mapping's state is read as: by a fork, an export or an activation
StateOf(m) == IF m = active_mapping THEN live ELSE state[m]

Dropped(f, gone) == [m \in DOMAIN f \ gone |-> f[m]]

Added(f, new, v) == [m \in DOMAIN f \cup {new} |-> IF m = new THEN v ELSE f[m]]

-----------------------------------------------------------------------------
(* Handles.  The root's representation has a native reference of its own.  *)

\* RepresentationHandle::clone
Clone(m) ==
    /\ references[m] \in 1..(MaxHandles - 1)
    /\ references' = [references EXCEPT ![m] = @ + 1]
    /\ UNCHANGED <<live, state, positions, prepared, active_mapping, next_mapping, lost>>

\* RepresentationHandle::drop, on any thread
DropHandle(m) ==
    /\ references[m] > IF m = 0 THEN 1 ELSE 0
    /\ references' = [references EXCEPT ![m] = @ - 1]
    /\ UNCHANGED <<live, state, positions, prepared, active_mapping, next_mapping, lost>>

\* active_representation: also of a mapping nobody else holds any more
ActiveRepresentation ==
    /\ references[active_mapping] < MaxHandles
    /\ references' = [references EXCEPT ![active_mapping] = @ + 1]
    /\ UNCHANGED <<live, state, positions, prepared, active_mapping, next_mapping, lost>>

\* reclaim_unreferenced_representations
Unreferenced == {m \in Published \ {active_mapping} : references[m] = 0}

-----------------------------------------------------------------------------
(* Operations that have the executor to themselves (&mut self).            *)

\* prepare_mapping_fork
PrepareMappingFork(source) ==
    /\ references[source] > 0
    /\ next_mapping <= MaxMappings
    /\ references' = Dropped(references, Unreferenced)
    /\ state' = Dropped(state, Unreferenced)
    /\ prepared' = Added(prepared, next_mapping, StateOf(source))
    /\ positions' = Added(Dropped(positions, Unreferenced), next_mapping, positions[source])
    /\ next_mapping' = next_mapping + 1
    /\ UNCHANGED <<live, active_mapping, lost>>

\* commit_mapping
CommitMapping(m) ==
    /\ references' = Added(references, m, 1)
    /\ state' = Added(state, m, prepared[m])
    /\ prepared' = Dropped(prepared, {m})
    /\ UNCHANGED <<live, positions, active_mapping, next_mapping, lost>>

\* PreparedMapping::drop
FreePreparedMapping(m) ==
    /\ prepared' = Dropped(prepared, {m})
    /\ positions' = Dropped(positions, {m})
    /\ UNCHANGED <<live, state, references, active_mapping, next_mapping, lost>>

\* A slip: what was active is not saved before the native context is cleared.
SavedAlready(m) == [state EXCEPT ![m] = <<>>]

\* The saved states once m is activated: m's is moved out, the prior one saved
Saved(m) == [state EXCEPT ![m] = <<>>, ![active_mapping] = live]

\* activate_mapping; a prior mapping that nobody holds goes at once
ActivateMapping(m) ==
    LET prior == {active_mapping}
        gone  == IF active_mapping # 0 /\ references[active_mapping] = 0 THEN prior ELSE {}
    IN  /\ references[m] > 0
        /\ m # active_mapping
        /\ live' = state[m]
        /\ state' = Dropped(Saved(m), gone)
        /\ positions' = Dropped(positions, gone)
        /\ references' = Dropped(references, gone)
        /\ active_mapping' = m
        /\ UNCHANGED <<prepared, next_mapping, lost>>

\* activate_mapping or import_mapping whose data llama.cpp refuses, and then
\* refuses the prior data as well
RollbackFails ==
    /\ \E m \in Published : references[m] > 0 /\ m # active_mapping
    /\ lost' = TRUE
    /\ live' = <<>>
    /\ UNCHANGED <<state, positions, references, prepared, active_mapping, next_mapping>>

\* import_mapping of what export_mapping gave; the prior state is put back
ImportMapping(tokens) ==
    /\ next_mapping <= MaxMappings
    /\ references' = Added(Dropped(references, Unreferenced), next_mapping, 1)
    /\ state' = Added(Dropped(state, Unreferenced), next_mapping, tokens)
    /\ positions' = Added(Dropped(positions, Unreferenced), next_mapping, Len(tokens))
    /\ next_mapping' = next_mapping + 1
    /\ UNCHANGED <<live, prepared, active_mapping, lost>>

\* decode
Decode(tokens) ==
    /\ tokens # <<>>
    /\ Len(live) + Len(tokens) <= MaxLen
    /\ live' = live \o tokens
    /\ positions' = [positions EXCEPT ![active_mapping] = @ + Len(tokens)]
    /\ UNCHANGED <<state, references, prepared, active_mapping, next_mapping, lost>>

\* decode that is aborted or fails after llama.cpp has decoded some of the
\* tokens: the position stays where it was
DecodeInterrupted(tokens) ==
    /\ tokens # <<>>
    /\ Len(live) + Len(tokens) <= MaxLen
    /\ live' = live \o tokens
    /\ UNCHANGED <<state, positions, references, prepared, active_mapping, next_mapping, lost>>

-----------------------------------------------------------------------------
Init ==
    /\ live = <<>>
    /\ state = [m \in {0} |-> <<>>]
    /\ positions = [m \in {0} |-> 0]
    /\ references = [m \in {0} |-> 2]
    /\ prepared = <<>>
    /\ active_mapping = 0
    /\ next_mapping = 1
    /\ lost = FALSE

Next ==
    /\ ~lost
    /\ \/ \E m \in Published :
            Clone(m) \/ DropHandle(m) \/ PrepareMappingFork(m) \/ ActivateMapping(m)
       \/ ActiveRepresentation
       \/ \E m \in DOMAIN prepared : CommitMapping(m) \/ FreePreparedMapping(m)
       \/ \E tokens \in BoundedSeq(Token, MaxLen) :
            ImportMapping(tokens) \/ Decode(tokens) \/ DecodeInterrupted(tokens)
       \/ RollbackFails

Spec == Init /\ [][Next]_vars

-----------------------------------------------------------------------------
(* Properties.                                                             *)

\* A state as its user sees it
Reading(tokens, m) == IF Len(tokens) = positions[m] THEN tokens ELSE Garbled

Abstract == INSTANCE NativeMappings WITH
    Mappings <- 0..MaxMappings,
    contents <- [m \in Published |-> Reading(StateOf(m), m)],
    forks    <- [m \in DOMAIN prepared |-> Reading(prepared[m], m)],
    held     <- {m \in Published : references[m] > 0},
    active   <- active_mapping

\* As long as no rollback fails, mappings that share one native sequence behave
\* as if each had its own: swapping, forking and reclaiming lose and mix nothing,
\* and "On error the prior binding remains valid".
ImplementsMappings == Abstract!Init /\ [][~lost' => Abstract!Next]_(Abstract!vars)

=============================================================================
