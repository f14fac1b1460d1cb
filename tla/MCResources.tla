----------------------------- MODULE MCResources -----------------------------
(***************************************************************************)
(* Small instances of what clients refer to later, and of what they read:  *)
(* stored responses, with and without directories that fail to             *)
(* synchronise; contexts that inferences and compactions update, and their *)
(* declarations; one context that grows and is compacted; and the text of  *)
(* one generation. `part` is the one at work; the variables of the others  *)
(* keep their initial values.                                              *)
(***************************************************************************)
EXTENDS Naturals, FiniteSets, TLC

CONSTANTS
    Parts,                   \* the parts to check
    None,
    Ids, Workers, Retention, Transient, LineageLimit, MaxTime, MaxRevision,   \* of ResponseStore
    Few,                     \* responses made where directories fail to synchronise
    ContextIds, BlockTokens, Targets, Declarations, Rate, Window,   \* of Contexts
    UpdatedBound, DeclaredBound,   \* principals, lifetimes and bounds of Contexts
    a, b, space, lead, cont  \* bytes

VARIABLES
    part,
    recovered, files, unsynced, transient, created, worker, acked, time,
    contexts, used, turns, contextWorker, made, records, creationTimes, contextTime,
    tokens, added, policy,
    stops, pending, pendingOffset, boundaries, visible, stripping, finishReason,
    stopAlignment, sampled, ends

Responses == INSTANCE ResponseStore WITH syncFails <- part = "unsynced"

\* Workers on the same contexts, with one declaration.
Updated == INSTANCE Contexts WITH
    worker <- contextWorker, time <- contextTime, Ids <- ContextIds,
    Principals <- UpdatedBound.principals, Lifetimes <- UpdatedBound.lifetimes,
    MaxTurns <- UpdatedBound.turns, MaxDeclared <- UpdatedBound.made, MaxTime <- UpdatedBound.time

\* Principals who declare, revoke and let expire.
Declared == INSTANCE Contexts WITH
    worker <- contextWorker, time <- contextTime, Ids <- ContextIds,
    Principals <- DeclaredBound.principals, Lifetimes <- DeclaredBound.lifetimes,
    MaxTurns <- DeclaredBound.turns, MaxDeclared <- DeclaredBound.made, MaxTime <- DeclaredBound.time

Compacted == INSTANCE CompactedContext WITH BlockTokens <- 3, Targets <- {0, 2, 4, 5}, MaxTokens <- 6

Bytes == {a, b, space, lead, cont}

\* Two-byte characters, stops that overlap themselves and each other, and lists
\* that are refused.
Frontier == INSTANCE GenerationFrontier WITH
    Letters <- {a, b}, Space <- space, Lead <- lead, Cont <- cont,
    Pieces <- {<<x>> : x \in Bytes} \cup {<<x, y>> : x, y \in Bytes \ {space}},
    StopLists <- {<<>>, << <<a, a, b>> >>, << <<a, b, a>>, <<b, b>> >>,
                  << <<a, lead, cont>>, <<b>> >>, << <<>> >>, << <<a, a, a, a>> >>,
                  << <<a>>, <<b>>, <<a>> >>},
    MaxStops <- 2, MaxStopBytes <- 3, MaxBytes <- 5

ASSUME ResourcesAssumption ==
    /\ Responses!ResponseStoreAssumption
    /\ Updated!ContextsAssumption /\ Declared!ContextsAssumption
    /\ Updated!WindowTailAssumption /\ Compacted!WindowTailAssumption
    /\ Frontier!FrontierAssumption

\* The small instance: two workers that update one context, and two principals who
\* declare
SmallUpdated == [principals |-> {"p"}, lifetimes |-> {1}, turns |-> 4, made |-> 1, time |-> 1]
SmallDeclared == [principals |-> {"p", "q"}, lifetimes |-> {1, 2}, turns |-> 0, made |-> 3, time |-> 4]

responseVars == <<recovered, files, unsynced, transient, created, worker, acked, time>>
contextVars == <<contexts, used, turns, contextWorker, made, records, creationTimes, contextTime>>
compactedVars == <<tokens, added, policy>>
frontierVars == <<stops, pending, pendingOffset, boundaries, visible, stripping, finishReason,
                  stopAlignment, sampled, ends>>
vars == <<part, responseVars, contextVars, compactedVars, frontierVars>>

Init ==
    /\ part \in Parts
    /\ Responses!Init
    /\ IF part = "declared" THEN Declared!Init ELSE Updated!Init
    /\ Compacted!Init
    /\ Frontier!Init /\ (part # "frontier" => stops = <<>> /\ ~stripping)

ResponsesStep ==
    /\ part \in {"responses", "unsynced"}
    /\ UNCHANGED <<part, contextVars, compactedVars, frontierVars>>
    /\ Responses!Next
    /\ part = "unsynced" => Cardinality({id \in Ids : created'[id] # None}) <= Few

ContextsStep ==
    /\ \/ part = "contexts" /\ Updated!Next
       \/ part = "declared" /\ Declared!Next
    /\ UNCHANGED <<part, responseVars, compactedVars, frontierVars>>

CompactedStep ==
    part = "compacted" /\ Compacted!Next /\ UNCHANGED <<part, responseVars, contextVars, frontierVars>>

FrontierStep ==
    part = "frontier" /\ Frontier!Next /\ UNCHANGED <<part, responseVars, contextVars, compactedVars>>

Next == ResponsesStep \/ ContextsStep \/ CompactedStep \/ FrontierStep

Spec == Init /\ [][Next]_vars

Symmetry ==
    Permutations(Ids) \cup Permutations(Workers)

-----------------------------------------------------------------------------
\* Publications and deletions that race, expiry and restarts leave a response with
\* one successor, only its own expiry takes out what a stored response continues, and
\* what publish and delete reported survives a restart. A revision is the length of
\* the lineage before it, also when directories fail to synchronise and a restart
\* brings files back.
ResponsesAreKept ==
    /\ part = "responses" =>
          Responses!OneSuccessor /\ Responses!BaseKept /\ Responses!ReportedIsDurable
    /\ part \in {"responses", "unsynced"} => Responses!RevisionsFollow

\* What the engine continues from is what the record of a context says, also when
\* a compaction and an inference of it finish in either order.
NativeFollows == part = "contexts" => Updated!NativeFollows

\* What one inference added is never lost to another that ran at the same time: a
\* context is written from what it holds at that moment.
NothingIsOverwritten == [][part = "contexts" => Updated!OverwritesNothing]_vars

\* No principal makes more declarations in any window than its rate, whatever it
\* revokes or lets expire.
RateHolds == part = "declared" => Declared!RateHolds

\* No sequence of compactions drops a policy anchor or goes over its budget for
\* anything else than policy or one turn, and a second one to the same target
\* changes nothing.
CompactionSettles == Compacted!PolicyKept /\ Compacted!BudgetKept /\ Compacted!SettlesAtOnce

\* The deltas a client received are the text of the bytes before the stop sequence,
\* wherever tokens split a character or a stop sequence, and no stop sequence is
\* ever among them; and the alignment reported for a stop is the one all token
\* boundaries give, though only those of the held bytes are kept.
TextIsExact ==
    part = "frontier" => Frontier!TextIsExact /\ Frontier!NoStopShown /\ Frontier!AlignmentIsExact

=============================================================================
