------------------------------ MODULE MCStorage ------------------------------
(***************************************************************************)
(* Small instances of the logical storage: two token sequences, a context  *)
(* store with two contexts (the store itself, of which the .cfg gives the  *)
(* constants), and one whose epochs change while two publications are      *)
(* outstanding.  `part` is the one at work; the variables of the others    *)
(* keep their initial values.                                              *)
(***************************************************************************)
EXTENDS ContextStore, TLC

CONSTANT Parts  \* the parts to check

VARIABLES part, heap, tail

Tokens == INSTANCE TokenSequence WITH
    Names <- {"x", "y"}, Token <- {0, 1}, ChunkTokens <- 2, MaxLen <- 3, MaxChunks <- 3

\* One context of two epochs, and mappings of all kinds.
Epochs == INSTANCE ContextStore WITH
    Components <- {"missing", "required", "all"}, Epoch <- {"e1", "e2"}, Token <- {0},
    MaxLen <- 2, MaxContexts <- 1, MaxRevision <- 2, MaxPrepared <- 2

ASSUME Tokens!ChunkAssumption /\ Epochs!StoreAssumption

tokensVars == <<heap, tail>>
vars == <<part, tokensVars, storeVars>>

Init == part \in Parts /\ Tokens!Init /\ StoreInit

TokensStep == part = "tokens" /\ Tokens!Next /\ UNCHANGED <<part, storeVars>>
StoreStep == part = "store" /\ StoreNext /\ UNCHANGED <<part, tokensVars>>
EpochsStep == part = "epochs" /\ Epochs!StoreNext /\ UNCHANGED <<part, tokensVars>>

Next == TokensStep \/ StoreStep \/ EpochsStep

Spec == Init /\ [][Next]_vars

\* Nothing tells the tokens of the store apart.
Symmetry == Permutations(Token)

-----------------------------------------------------------------------------
\* The identity and the equality that the caches use as keys depend on the
\* tokens of a sequence and not on how appends and prefixes cut them
\* (content_identity, PartialEq of PersistentTokenSequence).
KeysAreOfTokens == Tokens!IdentityIsOfTokens /\ Tokens!EqualityIsOfTokens

\* Sequences that share chunks behave as plain sequences do: an append to one
\* never shows in another.
SequencesImplementPlain == Tokens!ImplementsPlain

=============================================================================
