---------------------------- MODULE WindowTail ----------------------------
(***************************************************************************)
(* Compaction by window_tail: crates/server/src/context_strategy.rs.       *)
(*                                                                         *)
(* A context is a sequence of tokens that fall into turns.  Turns with a   *)
(* policy anchor stay; of the others, from the newest to the oldest, each  *)
(* that still fits the budget.                                             *)
(***************************************************************************)
EXTENDS Naturals, Sequences, FiniteSets, SequencesExt

CONSTANTS BlockTokens   \* COMPACTION_BLOCK_TOKENS

\* what a module that instantiates this one assumes of the constants
WindowTailAssumption == BlockTokens \in Nat \ {0}

\* is_role_boundary and the anchors: a system or tool turn begins with both
Kinds == {"system", "anchor", "turn", "word"}

IsRoleBoundary(token) == token.kind \in {"system", "turn"}

IsAnchor(token) == token.kind \in {"system", "anchor"}

Larger(i, j) == IF i > j THEN i ELSE j

\* split_indexed_turns: where each turn begins
TurnStarts(tokens) ==
    {i \in DOMAIN tokens : i = 1 \/ IsRoleBoundary(tokens[i])}

\* The indices of the turn that begins at start
Turn(tokens, start) ==
    {i \in DOMAIN tokens : start <= i /\ \A s \in TurnStarts(tokens) : s <= i => s <= start}

\* turn_has_policy_anchor
Anchored(tokens, start) == \E i \in Turn(tokens, start) : IsAnchor(tokens[i])

SelectionBudget(budget) ==
    IF budget >= BlockTokens THEN budget - (budget % BlockTokens) ELSE budget

\* A slip: policy turns compete with the others for the budget.
NoTurnIsAnchored(tokens) == {}

AnchoredTurns(tokens) ==
    UNION {Turn(tokens, s) : s \in {t \in TurnStarts(tokens) : Anchored(tokens, t)}}

Fits(kept, turn, budget) == Cardinality(kept) + Cardinality(turn) <= SelectionBudget(budget)

\* Turns taken in after the anchored ones, newest first
WithNewest(tokens, budget) ==
    LET open == {s \in TurnStarts(tokens) : ~Anchored(tokens, s)}
        take(kept, s) == IF s \in open /\ Fits(kept, Turn(tokens, s), budget)
                         THEN kept \cup Turn(tokens, s) ELSE kept
    IN  FoldLeft(take, AnchoredTurns(tokens), [i \in DOMAIN tokens |-> Len(tokens) + 1 - i])

\* The newest n of a set of indices
NewestOf(indices, n) == {i \in indices : Cardinality({j \in indices : j > i}) < n}

\* Nothing fits: the newest turn, or its end
NewestTurn(tokens, budget) ==
    LET start  == CHOOSE s \in TurnStarts(tokens) : \A t \in TurnStarts(tokens) : t <= s
        newest == Turn(tokens, start)
    IN  IF SelectionBudget(budget) < BlockTokens THEN newest
        ELSE NewestOf(newest, SelectionBudget(budget))

\* apply_window_tail_strategy: the indices retained
Retained(tokens, target) ==
    LET budget == Larger(target, 1) IN
    IF Len(tokens) <= budget THEN DOMAIN tokens
    ELSE IF WithNewest(tokens, budget) = {} THEN NewestTurn(tokens, budget)
    ELSE WithNewest(tokens, budget)

\* ... and the tokens at them, in their order
Compacted(tokens, target) ==
    LET retained == DOMAIN tokens \cap Retained(tokens, target)
        nth(n)   == CHOOSE i \in retained : Cardinality({j \in retained : j <= i}) = n
    IN  [n \in 1..Cardinality(retained) |-> tokens[nth(n)]]

=============================================================================
