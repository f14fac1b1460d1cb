-------------------------- MODULE CompactedContext --------------------------
(***************************************************************************)
(* A context that grows by tokens and is compacted again and again, to a   *)
(* target a client chooses each time.                                      *)
(***************************************************************************)
EXTENDS WindowTail

CONSTANTS Targets, MaxTokens   \* targets a client may choose; bound on tokens added

VARIABLES tokens, added, policy   \* policy: anchors ever added

vars == <<tokens, added, policy>>

Init == tokens = <<>> /\ added = 0 /\ policy = {}

Grow(kind) ==
    /\ added < MaxTokens
    /\ added' = added + 1
    /\ tokens' = Append(tokens, [kind |-> kind, id |-> added'])
    /\ policy' = IF IsAnchor(tokens'[Len(tokens')]) THEN policy \cup {added'} ELSE policy

Compact(target) ==
    /\ tokens' = Compacted(tokens, target)
    /\ UNCHANGED <<added, policy>>

Next == (\E kind \in Kinds : Grow(kind)) \/ (\E target \in Targets : Compact(target))

Spec == Init /\ [][Next]_vars

-----------------------------------------------------------------------------
\* No sequence of compactions drops a policy anchor or changes the order of
\* tokens.
PolicyKept ==
    /\ policy \subseteq {tokens[i].id : i \in DOMAIN tokens}
    /\ \A i, j \in DOMAIN tokens : i < j => tokens[i].id < tokens[j].id

\* A context larger than its budget holds policy only, or one turn and no policy:
\* apply_window_tail_strategy goes over the budget for nothing else.
BudgetKept ==
    \A target \in Targets :
        LET kept == Retained(tokens, target) IN
        Cardinality(kept) > Larger(target, 1) =>
            \/ kept = AnchoredTurns(tokens)
            \/ policy = {} /\ \E s \in TurnStarts(tokens) : kept = Turn(tokens, s)

\* Compacting a compacted context to the same target changes nothing, so a client
\* that asks for it with every request pays for one re-evaluation only.
SettlesAtOnce ==
    \A target \in Targets :
        Compacted(Compacted(tokens, target), target) = Compacted(tokens, target)

=============================================================================
