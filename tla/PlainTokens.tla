---------------------------- MODULE PlainTokens ----------------------------
(***************************************************************************)
(* What a PersistentTokenSequence promises: the value of each variable is  *)
(* a plain sequence of tokens; appending makes a longer one, a prefix is a *)
(* prefix, and neither disturbs any other variable.                        *)
(***************************************************************************)
EXTENDS Naturals, Sequences, SequencesExt

CONSTANTS
    Names,   \* variables that hold a sequence
    Token,   \* tokens
    MaxLen   \* bound: length of a sequence

VARIABLE plain

Init == plain = [x \in Names |-> <<>>]

\* y := x.append(tokens)
Append_(x, y, tokens) == plain' = [plain EXCEPT ![y] = plain[x] \o tokens]

\* y := x.prefix(len)
Prefix_(x, y, len) == plain' = [plain EXCEPT ![y] = SubSeq(plain[x], 1, len)]

Next ==
    \E x, y \in Names :
        \/ \E tokens \in BoundedSeq(Token, MaxLen - Len(plain[x])) : Append_(x, y, tokens)
        \/ \E len \in 0..Len(plain[x]) : Prefix_(x, y, len)

Spec == Init /\ [][Next]_plain

=============================================================================
