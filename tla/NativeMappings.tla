--------------------------- MODULE NativeMappings ---------------------------
(***************************************************************************)
(* What the executor promises the mapped engine: every mapping has a       *)
(* sequence state of its own, activating one changes none of them, a       *)
(* decode extends the active one only, a fork is a copy from the moment it *)
(* is prepared, and a mapping somebody holds a handle of is never lost.    *)
(***************************************************************************)
EXTENDS Integers, Sequences, SequencesExt

CONSTANTS
    Token,     \* tokens
    MaxLen,    \* bound: tokens of a state
    Mappings,  \* identities of mappings; 0 is the root
    Garbled    \* the state an interrupted decode leaves

VARIABLES
    contents,  \* state of each published mapping
    forks,     \* states of prepared forks
    held,      \* mappings with a handle
    active     \* the mapping decodes extend

vars == <<contents, forks, held, active>>

Without(gone) == [h \in DOMAIN contents \ gone |-> contents[h]]

Added(f, new, v) == [h \in DOMAIN f \cup {new} |-> IF h = new THEN v ELSE f[h]]

Init ==
    /\ contents = [h \in {0} |-> <<>>]
    /\ forks = <<>>
    /\ held = {0}
    /\ active = 0

Extended(state, tokens) == IF state = Garbled THEN Garbled ELSE state \o tokens

\* Mappings nobody holds may go at any of the executor's operations.
Unheld == SUBSET (DOMAIN contents \ (held \cup {active}))

Prepare(source, new) ==
    /\ source \in held
    /\ \E gone \in Unheld : contents' = Without(gone)
    /\ forks' = Added(forks, new, contents[source])
    /\ UNCHANGED <<held, active>>

Commit(new) ==
    /\ contents' = Added(contents, new, forks[new])
    /\ forks' = [f \in DOMAIN forks \ {new} |-> forks[f]]
    /\ held' = held \cup {new}
    /\ UNCHANGED active

Discard(new) ==
    /\ forks' = [f \in DOMAIN forks \ {new} |-> forks[f]]
    /\ UNCHANGED <<contents, held, active>>

Import(new, tokens) ==
    /\ \E gone \in Unheld : contents' = Added(Without(gone), new, tokens)
    /\ held' = held \cup {new}
    /\ UNCHANGED <<forks, active>>

Activate(h) ==
    /\ h \in held
    /\ active' = h
    /\ \E gone \in SUBSET ({active} \ (held \cup {h})) : contents' = Without(gone)
    /\ UNCHANGED <<forks, held>>

Decode(tokens) ==
    /\ contents' = [contents EXCEPT ![active] = Extended(@, tokens)]
    /\ UNCHANGED <<forks, held, active>>

Interrupt ==
    /\ contents' = [contents EXCEPT ![active] = Garbled]
    /\ UNCHANGED <<forks, held, active>>

Hold(hs) ==
    /\ held' = hs
    /\ hs \subseteq DOMAIN contents
    /\ UNCHANGED <<contents, forks, active>>

\* Another handle of a mapping somebody holds already
Clone == UNCHANGED vars

Next ==
    \/ Clone
    \/ \E source, new \in Mappings : new \notin DOMAIN contents /\ Prepare(source, new)
    \/ \E new \in DOMAIN forks : Commit(new) \/ Discard(new)
    \/ \E new \in Mappings, tokens \in BoundedSeq(Token, MaxLen) :
         new \notin DOMAIN contents /\ Import(new, tokens)
    \/ \E h \in held : Activate(h)
    \/ \E tokens \in BoundedSeq(Token, MaxLen) : Decode(tokens)
    \/ Interrupt
    \/ \E h \in held : Hold(held \ {h})
    \/ Hold(held \cup {active})

Spec == Init /\ [][Next]_vars

=============================================================================
