------------------------------ MODULE MCEngine -------------------------------
(***************************************************************************)
(* Small instances of what holds the state of evaluations: one native      *)
(* executor, the mapped engine with two sessions, and a physical manager   *)
(* whose device takes both mappings at once. `part` is the one at work;    *)
(* the variables of the others keep their initial values.                  *)
(***************************************************************************)
EXTENDS Executor, TLC

CONSTANTS
    Parts,           \* the parts to check
    Sessions, Prompts, Sampled, MaxTokens, BlockSize, Chunk, SpillCapacity,   \* of MappedEngine
    Root, NoHandle,
    Transitions      \* prepared transitions

VARIABLES
    part,
    session, native, active, logical, resident, files, spill_bytes, spilling,
    clock, reps, dev, host, sto, logical_refs, active_refs, reservations, transfers,
    lastUsed, binding, table, transitions, detached, growth

\* Only some tokens are sampled.
Mapped == INSTANCE MappedEngine WITH Token <- Sampled

\* The small instance: a prompt that leaves what the other one generates
SmallPrompts == {<<0, 0>>, <<0, 0, 1>>}

\* A context may move from one mapping to the other while a second transition is
\* under way, its own or that of the other context.
Physical == INSTANCE PhysicalManager WITH
    MaxReps <- 2, Contexts <- Sessions,
    Growths <- {"growth"}, GrowthSizes <- {1}, MappingOf <- <<1, 2>>,
    ComponentOf <- <<"kv", "kv">>, Masks <- {{"kv"}}, BytesOf <- <<1, 2>>,
    Reuse <- <<0, 0>>, DeviceBytes <- 3, HostBytes <- 1,
    logical <- logical_refs, active <- active_refs, prepared <- transitions

ASSUME EngineAssumption ==
    /\ ExecutorAssumption /\ Mapped!EngineAssumption
    /\ Physical!SizesAssumption /\ Physical!FiniteAssumption

mappedVars == <<session, native, active, logical, resident, files, spill_bytes, spilling>>
physicalVars == <<clock, reps, dev, host, sto, logical_refs, active_refs, reservations,
                  transfers, lastUsed, binding, table, transitions, detached, growth>>
engineVars == <<part, vars, mappedVars, physicalVars>>

EngineInit == part \in Parts /\ Init /\ Mapped!Init /\ Physical!Init

NativeStep == part = "native" /\ Next /\ UNCHANGED <<part, mappedVars, physicalVars>>
MappedStep == part = "mapped" /\ Mapped!Next /\ UNCHANGED <<part, vars, physicalVars>>
PhysicalStep == part = "physical" /\ Physical!Next /\ UNCHANGED <<part, vars, mappedVars>>

EngineNext == NativeStep \/ MappedStep \/ PhysicalStep

EngineSpec == EngineInit /\ [][EngineNext]_engineVars

\* Nothing tells the sessions apart, nor the transitions.
Symmetry == Permutations(Sessions) \cup Permutations(Transitions)

-----------------------------------------------------------------------------
\* A session that decodes continues exactly the tokens it was given and generated,
\* whatever the other one did to the native context in between.
ExactContinuation == Mapped!ExactContinuation

\* A mapping the store gives out can be brought back on the device, from its native
\* state or from its file, after every shorter one it continues; and the spilled bytes
\* are those of the files.
MappingsRestorable ==
    Mapped!MappingsRestorable /\ Mapped!LineagePublished /\ Mapped!SpillAccounted

\* Two transitions may be prepared for one context, or for two that share a mapping:
\* whichever commits, a visible block table is the one of the binding in force, and
\* its blocks are on the device.
TablesAreCurrent == Physical!TablesAreCurrent

=============================================================================
