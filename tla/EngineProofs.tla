---------------------------- MODULE EngineProofs ----------------------------
(***************************************************************************)
(* The executor implements NativeMappings, for any tokens and any bounds:  *)
(* every step of the one native sequence, the saved states, the positions  *)
(* and the reference counts is a step of mappings with a state each, or    *)
(* changes none of them.  On that promise the mapped engine continues each *)
(* session exactly and can bring back what it has published, for any       *)
(* sessions, prompts, block sizes and capacities.                          *)
(***************************************************************************)
EXTENDS MCEngine, Sums, SequenceTheorems

\* What the refinement mapping reads off a state
Contents == [m \in Published |-> Reading(StateOf(m), m)]
Forks == [m \in DOMAIN prepared |-> Reading(prepared[m], m)]
Held == {m \in Published : references[m] > 0}

Types ==
    /\ next_mapping \in 1..(MaxMappings + 1)
    /\ Published \subseteq 0..(next_mapping - 1)
    /\ DOMAIN prepared \subseteq 0..(next_mapping - 1)
    /\ Published \cap DOMAIN prepared = {}
    /\ active_mapping \in Published
    /\ references \in [Published -> Nat]
    /\ state \in [Published -> Seq(Token)]
    /\ prepared \in [DOMAIN prepared -> Seq(Token)]
    /\ positions \in [Published \cup DOMAIN prepared -> Nat]
    /\ live \in Seq(Token)

\* A state has at least the tokens its position counts: an interrupted decode
\* leaves more, and nothing leaves fewer.
Decoded ==
    /\ \A m \in Published : positions[m] <= Len(StateOf(m))
    /\ \A m \in DOMAIN prepared : positions[m] <= Len(prepared[m])

Good == Types /\ Decoded

\* A failed rollback ends it all.
Inv == lost \/ Good

-----------------------------------------------------------------------------
LEMMA TokensAreSequences ==
    ASSUME ExecutorAssumption, NEW tokens \in BoundedSeq(Token, MaxLen) PROVE tokens \in Seq(Token)
  <1>1. PICK n \in 0..MaxLen : tokens \in [1..n -> Token]
    BY DEF BoundedSeq, SeqOf
  <1>2. n \in Nat
    BY DEF ExecutorAssumption
  <1> QED  BY <1>1, <1>2

LEMMA StateIsSequence == ASSUME Types, NEW m \in Published PROVE StateOf(m) \in Seq(Token)
  BY DEF Types, StateOf

\* The empty table
LEMMA EmptyTable ==
    ASSUME NEW f(_), NEW S PROVE [m \in DOMAIN <<>> |-> f(m)] = <<>> /\ DOMAIN <<>> = {} /\ <<>> \in [{} -> S]
  OBVIOUS

LEMMA InitGood == ASSUME ExecutorAssumption, Init PROVE Good /\ Abstract!Init
  <1>1. /\ live = <<>> /\ state = [m \in {0} |-> <<>>] /\ positions = [m \in {0} |-> 0]
        /\ references = [m \in {0} |-> 2] /\ prepared = <<>> /\ active_mapping = 0 /\ next_mapping = 1
    BY DEF Init
  <1>2. Published = {0} /\ DOMAIN prepared = {} /\ MaxMappings \in Nat /\ <<>> \in Seq(Token)
    BY <1>1 DEF Published, ExecutorAssumption
  <1>3. prepared \in [DOMAIN prepared -> Seq(Token)]
    BY <1>1
  <1>4. Types
    BY <1>1, <1>2, <1>3 DEF Types
  <1>5. StateOf(0) = <<>> /\ positions[0] = 0 /\ Len(<<>>) = 0
    BY <1>1 DEF StateOf
  <1>6. Decoded
    BY <1>2, <1>5 DEF Decoded
  <1>7. [m \in Published |-> Reading(StateOf(m), m)] = [h \in {0} |-> <<>>]
    BY <1>2, <1>5 DEF Reading
  <1>8. [m \in DOMAIN prepared |-> Reading(prepared[m], m)] = <<>>
    BY <1>1
  <1>9. {m \in Published : references[m] > 0} = {0}
    BY <1>1, <1>2
  <1>10. Abstract!Init
    BY <1>1, <1>7, <1>8, <1>9 DEF Abstract!Init
  <1> QED  BY <1>4, <1>6, <1>10 DEF Good

-----------------------------------------------------------------------------
(* Handles: nobody's state changes.                                        *)

LEMMA ReferencesGood ==
    ASSUME Good, references' \in [Published -> Nat],
           UNCHANGED <<live, state, positions, prepared, active_mapping, next_mapping>>
    PROVE  Good' /\ Published' = Published /\ Contents' = Contents /\ Forks' = Forks
  <1>1. Published' = Published
    BY DEF Published
  <1>2. \A m : StateOf(m)' = StateOf(m)
    BY DEF StateOf
  <1>3. Types' /\ Decoded'
    BY <1>1, <1>2 DEF Good, Types, Decoded
  <1>4. Contents' = Contents /\ Forks' = Forks
    BY <1>1, <1>2 DEF Contents, Forks, Reading
  <1> QED  BY <1>1, <1>3, <1>4 DEF Good

LEMMA CloneStep ==
    ASSUME Good, NEW m \in Published, Clone(m) PROVE Good' /\ Abstract!Next
  <1>1. references' \in [Published -> Nat] /\ references[m] > 0
        /\ \A q \in Published : references'[q] > 0 <=> references[q] > 0
    BY DEF Clone, Good, Types
  <1>2. Good' /\ Published' = Published /\ Contents' = Contents /\ Forks' = Forks
    BY <1>1, ReferencesGood DEF Clone
  <1>3. Held' = Held
    BY <1>1, <1>2 DEF Held
  <1>4. Abstract!Clone
    BY <1>2, <1>3 DEF Abstract!Clone, Abstract!vars, Contents, Forks, Held, Clone
  <1> QED  BY <1>2, <1>4 DEF Abstract!Next

LEMMA DropHandleStep ==
    ASSUME Good, NEW m \in Published, DropHandle(m) PROVE Good' /\ Abstract!Next
  <1>1. references \in [Published -> Nat] /\ references[m] > 0
    BY DEF DropHandle, Good, Types
  <1>2. references' = [references EXCEPT ![m] = @ - 1]
    BY DEF DropHandle
  <1>3. references' \in [Published -> Nat]
    BY <1>1, <1>2
  <1>4. Good' /\ Published' = Published /\ Contents' = Contents /\ Forks' = Forks
    BY <1>3, ReferencesGood DEF DropHandle
  <1>5. active_mapping' = active_mapping /\ DOMAIN Contents = Published /\ Held \subseteq Published /\ m \in Held
    BY <1>1 DEF DropHandle, Contents, Held
  <1>6. CASE references[m] = 1
    <2>1. Held' = Held \ {m}
      BY <1>1, <1>2, <1>4, <1>6 DEF Held
    <2>2. \E h \in Held : /\ Held' = Held \ {h} /\ Held \ {h} \subseteq DOMAIN Contents
                          /\ Contents' = Contents /\ Forks' = Forks /\ active_mapping' = active_mapping
      BY <2>1, <1>4, <1>5
    <2>3. Abstract!Next
      BY <2>2 DEF Abstract!Next, Abstract!Hold, Contents, Forks, Held
    <2> QED  BY <2>3, <1>4
  <1>7. CASE references[m] # 1
    <2>1. Held' = Held
      BY <1>1, <1>2, <1>4, <1>7 DEF Held
    <2>2. Abstract!Clone
      BY <2>1, <1>4, <1>5 DEF Abstract!Clone, Abstract!vars, Contents, Forks, Held
    <2> QED  BY <2>2, <1>4 DEF Abstract!Next
  <1> QED  BY <1>6, <1>7

LEMMA ActiveRepresentationStep ==
    ASSUME Good, ActiveRepresentation PROVE Good' /\ Abstract!Next
  <1>1. references \in [Published -> Nat] /\ active_mapping \in Published
    BY DEF Good, Types
  <1>2. references' = [references EXCEPT ![active_mapping] = @ + 1]
    BY DEF ActiveRepresentation
  <1>3. references' \in [Published -> Nat]
    BY <1>1, <1>2
  <1>4. Good' /\ Published' = Published /\ Contents' = Contents /\ Forks' = Forks
    BY <1>3, ReferencesGood DEF ActiveRepresentation
  <1>5. Held' = Held \cup {active_mapping}
    BY <1>1, <1>2, <1>4 DEF Held
  <1>6. active_mapping' = active_mapping /\ DOMAIN Contents = Published /\ Held \subseteq Published
    BY DEF ActiveRepresentation, Contents, Held
  <1>7. Abstract!Hold(Held \cup {active_mapping})
    BY <1>1, <1>4, <1>5, <1>6 DEF Abstract!Hold, Contents, Forks, Held
  <1> QED  BY <1>4, <1>7 DEF Abstract!Next, Held

-----------------------------------------------------------------------------
(* Forks and imports: a new mapping, and what nobody holds goes.           *)

\* The next identity is free.
LEMMA Fresh ==
    ASSUME ExecutorAssumption, Good, next_mapping <= MaxMappings
    PROVE  /\ next_mapping \in 0..MaxMappings /\ next_mapping + 1 \in 1..(MaxMappings + 1)
           /\ next_mapping \notin Published /\ next_mapping \notin DOMAIN prepared
           /\ \A q \in Published \cup DOMAIN prepared : q \in 0..((next_mapping + 1) - 1)
           /\ next_mapping \in 0..((next_mapping + 1) - 1)
           /\ Published \subseteq 0..MaxMappings
  <1>1. MaxMappings \in Nat /\ next_mapping \in Nat /\ next_mapping >= 1
    BY DEF ExecutorAssumption, Good, Types
  <1>2. \A q \in Published \cup DOMAIN prepared : q \in 0..(next_mapping - 1)
    BY DEF Good, Types
  <1>3. \A q \in Published \cup DOMAIN prepared : q \in Nat /\ q < next_mapping
    BY <1>1, <1>2
  <1> QED  BY <1>1, <1>3

LEMMA UnreferencedAreUnheld ==
    ASSUME Good
    PROVE  /\ Unreferenced \subseteq Published /\ active_mapping \notin Unreferenced
           /\ Unreferenced \cap Held = {}
           /\ Unreferenced \in SUBSET (DOMAIN Contents \ (Held \cup {active_mapping}))
  BY DEF Unreferenced, Held, Contents, Good, Types

LEMMA PrepareStep ==
    ASSUME ExecutorAssumption, Good, NEW source \in Published, PrepareMappingFork(source)
    PROVE  Good' /\ Abstract!Next
  <1> DEFINE new == next_mapping
             gone == Unreferenced
  <1>1. /\ references[source] > 0 /\ next_mapping <= MaxMappings
        /\ references' = [q \in DOMAIN references \ gone |-> references[q]]
        /\ state' = [q \in DOMAIN state \ gone |-> state[q]]
        /\ prepared' = [q \in DOMAIN prepared \cup {new} |-> IF q = new THEN StateOf(source) ELSE prepared[q]]
        /\ positions' = [q \in (DOMAIN positions \ gone) \cup {new} |->
                           IF q = new THEN positions[source] ELSE positions[q]]
        /\ next_mapping' = next_mapping + 1
        /\ UNCHANGED <<live, active_mapping, lost>>
    BY DEF PrepareMappingFork, Added, Dropped
  <1>2. /\ new \in 0..MaxMappings /\ new + 1 \in 1..(MaxMappings + 1)
        /\ new \notin Published /\ new \notin DOMAIN prepared
        /\ \A q \in Published \cup DOMAIN prepared : q \in 0..((new + 1) - 1)
        /\ new \in 0..((new + 1) - 1) /\ Published \subseteq 0..MaxMappings
    BY <1>1, Fresh
  <1>3. /\ gone \subseteq Published /\ active_mapping \notin gone /\ gone \cap Held = {}
        /\ gone \in SUBSET (DOMAIN Contents \ (Held \cup {active_mapping}))
    BY UnreferencedAreUnheld
  <1>4. /\ references \in [Published -> Nat] /\ state \in [Published -> Seq(Token)]
        /\ prepared \in [DOMAIN prepared -> Seq(Token)] /\ active_mapping \in Published
        /\ positions \in [Published \cup DOMAIN prepared -> Nat] /\ live \in Seq(Token)
        /\ Published \cap DOMAIN prepared = {}
    BY DEF Good, Types
  <1> HIDE DEF new, gone
  <1>5. Published' = Published \ gone /\ DOMAIN prepared' = DOMAIN prepared \cup {new}
    BY <1>1 DEF Published
  <1>6. StateOf(source) \in Seq(Token) /\ positions[source] \in Nat /\ positions[source] <= Len(StateOf(source))
    BY <1>4, StateIsSequence DEF Good, Decoded
  <1>7. \A q \in Published' : StateOf(q)' = StateOf(q) /\ positions'[q] = positions[q]
    BY <1>1, <1>2, <1>3, <1>4, <1>5 DEF StateOf
  <1>8. \A q \in DOMAIN prepared : prepared'[q] = prepared[q] /\ positions'[q] = positions[q]
    BY <1>1, <1>2, <1>3, <1>4
  <1>9. prepared'[new] = StateOf(source) /\ positions'[new] = positions[source]
    BY <1>1
  <1>10. Types'
    <2>1. /\ references' \in [Published' -> Nat] /\ state' \in [Published' -> Seq(Token)]
          /\ prepared' \in [DOMAIN prepared' -> Seq(Token)]
      BY <1>1, <1>4, <1>5, <1>6
    <2>2. positions' \in [Published' \cup DOMAIN prepared' -> Nat]
      BY <1>1, <1>2, <1>3, <1>4, <1>5, <1>6
    <2>3. next_mapping' \in 1..(MaxMappings + 1)
      BY <1>1, <1>2 DEF new
    <2>4. Published' \subseteq 0..(next_mapping' - 1) /\ DOMAIN prepared' \subseteq 0..(next_mapping' - 1)
      BY <1>1, <1>2, <1>5 DEF new
    <2>5. Published' \cap DOMAIN prepared' = {} /\ active_mapping' \in Published' /\ live' \in Seq(Token)
      BY <1>1, <1>2, <1>3, <1>4, <1>5
    <2> QED  BY <2>1, <2>2, <2>3, <2>4, <2>5 DEF Types
  <1>11. Decoded'
    BY <1>5, <1>6, <1>7, <1>8, <1>9 DEF Decoded, Good
  <1>12. Contents' = [q \in DOMAIN Contents \ gone |-> Contents[q]]
    BY <1>5, <1>7 DEF Contents, Reading
  <1>13. Forks' = [q \in DOMAIN Forks \cup {new} |-> IF q = new THEN Contents[source] ELSE Forks[q]]
    BY <1>2, <1>5, <1>8, <1>9 DEF Contents, Forks, Reading
  <1>14. Held' = Held /\ source \in Held /\ active_mapping' = active_mapping
    <2>1. \A q \in Published' : references'[q] = references[q]
      BY <1>1, <1>5 DEF Published
    <2>2. \A q \in Published : references[q] > 0 => q \notin gone
      BY <1>3 DEF Held
    <2> QED  BY <1>1, <1>5, <2>1, <2>2 DEF Held
  <1>15. Abstract!Prepare(source, new)
    <2>1. \E g \in Abstract!Unheld : Contents' = [h \in DOMAIN Contents \ g |-> Contents[h]]
      BY <1>3, <1>12 DEF Abstract!Unheld, Contents, Held
    <2> QED  BY <2>1, <1>13, <1>14 DEF Abstract!Prepare, Abstract!Without, Abstract!Added, Contents, Forks, Held
  <1>16. source \in 0..MaxMappings /\ new \notin DOMAIN Contents
    BY <1>2 DEF Contents
  <1>17. Abstract!Next
    BY <1>2, <1>15, <1>16 DEF Abstract!Next, Contents
  <1> QED  BY <1>10, <1>11, <1>17 DEF Good

LEMMA ImportStep ==
    ASSUME ExecutorAssumption, Good, NEW tokens \in BoundedSeq(Token, MaxLen), ImportMapping(tokens)
    PROVE  Good' /\ Abstract!Next
  <1>0. PICK new : new = next_mapping
    OBVIOUS
  <1> DEFINE gone == Unreferenced
  <1>1. /\ next_mapping <= MaxMappings
        /\ references' = [q \in (DOMAIN references \ gone) \cup {new} |-> IF q = new THEN 1 ELSE references[q]]
        /\ state' = [q \in (DOMAIN state \ gone) \cup {new} |-> IF q = new THEN tokens ELSE state[q]]
        /\ positions' = [q \in (DOMAIN positions \ gone) \cup {new} |->
                           IF q = new THEN Len(tokens) ELSE positions[q]]
        /\ next_mapping' = next_mapping + 1
        /\ UNCHANGED <<live, prepared, active_mapping, lost>>
    BY <1>0 DEF ImportMapping, Added, Dropped
  <1>2. /\ new \in 0..MaxMappings /\ new + 1 \in 1..(MaxMappings + 1)
        /\ new \notin Published /\ new \notin DOMAIN prepared
        /\ \A q \in Published \cup DOMAIN prepared : q \in 0..((new + 1) - 1)
        /\ new \in 0..((new + 1) - 1) /\ Published \subseteq 0..MaxMappings
    BY <1>0, <1>1, Fresh
  <1>3. /\ gone \subseteq Published /\ active_mapping \notin gone /\ gone \cap Held = {}
        /\ gone \in SUBSET (DOMAIN Contents \ (Held \cup {active_mapping}))
    BY UnreferencedAreUnheld
  <1>4. /\ references \in [Published -> Nat] /\ state \in [Published -> Seq(Token)]
        /\ prepared \in [DOMAIN prepared -> Seq(Token)] /\ active_mapping \in Published
        /\ positions \in [Published \cup DOMAIN prepared -> Nat] /\ live \in Seq(Token)
        /\ Published \cap DOMAIN prepared = {}
    BY DEF Good, Types
  <1>5. tokens \in Seq(Token) /\ Len(tokens) \in Nat
    BY TokensAreSequences
  <1> HIDE DEF gone
  <1>6. Published' = (Published \ gone) \cup {new} /\ DOMAIN prepared' = DOMAIN prepared
    BY <1>1 DEF Published
  <1>7. \A q \in Published \ gone : StateOf(q)' = StateOf(q) /\ positions'[q] = positions[q]
    BY <1>1, <1>2, <1>3, <1>4 DEF StateOf
  <1>8. \A q \in DOMAIN prepared : prepared'[q] = prepared[q] /\ positions'[q] = positions[q]
    BY <1>1, <1>2, <1>3, <1>4
  <1>9. StateOf(new)' = tokens /\ positions'[new] = Len(tokens)
    BY <1>1, <1>2, <1>4 DEF StateOf
  <1>10. Types'
    <2>1. references' \in [Published' -> Nat] /\ state' \in [Published' -> Seq(Token)]
      BY <1>1, <1>4, <1>5, <1>6
    <2>2. positions' \in [Published' \cup DOMAIN prepared' -> Nat]
      BY <1>1, <1>2, <1>3, <1>4, <1>5, <1>6
    <2>3. next_mapping' \in 1..(MaxMappings + 1)
      BY <1>0, <1>1, <1>2
    <2>4. Published' \subseteq 0..(next_mapping' - 1) /\ DOMAIN prepared' \subseteq 0..(next_mapping' - 1)
      BY <1>1, <1>2, <1>6, <1>0
    <2>5. /\ Published' \cap DOMAIN prepared' = {} /\ active_mapping' \in Published'
          /\ live' \in Seq(Token) /\ prepared' \in [DOMAIN prepared' -> Seq(Token)]
      BY <1>1, <1>2, <1>3, <1>4, <1>6
    <2> QED  BY <2>1, <2>2, <2>3, <2>4, <2>5 DEF Types
  <1>11. Decoded'
    BY <1>5, <1>6, <1>7, <1>8, <1>9 DEF Decoded, Good
  <1>12. Contents' = [q \in (DOMAIN Contents \ gone) \cup {new} |-> IF q = new THEN tokens ELSE Contents[q]]
    BY <1>2, <1>6, <1>7, <1>9 DEF Contents, Reading
  <1>13. Forks' = Forks /\ active_mapping' = active_mapping
    BY <1>1, <1>6, <1>8 DEF Forks, Reading
  <1>14. Held' = Held \cup {new}
    <2>1. \A q \in Published \ gone : references'[q] = references[q]
      BY <1>1, <1>2 DEF Published
    <2>2. \A q \in Published : references[q] > 0 => q \notin gone
      BY <1>3 DEF Held
    <2>3. references'[new] = 1
      BY <1>1
    <2> QED  BY <1>6, <2>1, <2>2, <2>3 DEF Held
  <1>15. Abstract!Import(new, tokens)
    <2>1. \E g \in Abstract!Unheld : Contents' = Abstract!Added([h \in DOMAIN Contents \ g |-> Contents[h]], new, tokens)
      <3>1. Contents' = Abstract!Added([h \in DOMAIN Contents \ gone |-> Contents[h]], new, tokens)
        BY <1>12 DEF Abstract!Added
      <3>2. gone \in Abstract!Unheld
        BY <1>3 DEF Abstract!Unheld, Contents, Held
      <3> QED  BY <3>1, <3>2
    <2> QED  BY <2>1, <1>13, <1>14 DEF Abstract!Import, Abstract!Without, Contents, Forks, Held
  <1>16. new \notin DOMAIN Contents /\ tokens \in Abstract!BoundedSeq(Token, MaxLen)
    BY <1>2 DEF Contents, BoundedSeq, SeqOf, Abstract!BoundedSeq, Abstract!SeqOf
  <1>17. Abstract!Next
    BY <1>2, <1>15, <1>16 DEF Abstract!Next, Contents
  <1> QED  BY <1>10, <1>11, <1>17 DEF Good

-----------------------------------------------------------------------------
(* Prepared forks.                                                         *)

LEMMA CommitStep ==
    ASSUME Good, NEW m \in DOMAIN prepared, CommitMapping(m) PROVE Good' /\ Abstract!Next
  <1>1. /\ references' = [q \in DOMAIN references \cup {m} |-> IF q = m THEN 1 ELSE references[q]]
        /\ state' = [q \in DOMAIN state \cup {m} |-> IF q = m THEN prepared[m] ELSE state[q]]
        /\ prepared' = [q \in DOMAIN prepared \ {m} |-> prepared[q]]
        /\ UNCHANGED <<live, positions, active_mapping, next_mapping, lost>>
    BY DEF CommitMapping, Added, Dropped
  <1>2. /\ references \in [Published -> Nat] /\ state \in [Published -> Seq(Token)]
        /\ prepared \in [DOMAIN prepared -> Seq(Token)] /\ active_mapping \in Published
        /\ positions \in [Published \cup DOMAIN prepared -> Nat] /\ live \in Seq(Token)
        /\ Published \cap DOMAIN prepared = {}
    BY DEF Good, Types
  <1>3. Published' = Published \cup {m} /\ DOMAIN prepared' = DOMAIN prepared \ {m} /\ m \notin Published
    BY <1>1, <1>2 DEF Published
  <1>4. \A q \in Published : StateOf(q)' = StateOf(q)
    BY <1>1, <1>2, <1>3 DEF StateOf
  <1>5. StateOf(m)' = prepared[m] /\ \A q \in DOMAIN prepared' : prepared'[q] = prepared[q]
    BY <1>1, <1>2, <1>3 DEF StateOf
  <1>6. Types'
    <2>1. /\ references' \in [Published' -> Nat] /\ state' \in [Published' -> Seq(Token)]
          /\ prepared' \in [DOMAIN prepared' -> Seq(Token)]
      BY <1>1, <1>2, <1>3
    <2>2. Published' \cup DOMAIN prepared' = Published \cup DOMAIN prepared /\ Published' \cap DOMAIN prepared' = {}
      BY <1>2, <1>3
    <2>3. Published' \subseteq 0..(next_mapping - 1) /\ DOMAIN prepared' \subseteq 0..(next_mapping - 1)
      BY <1>3 DEF Good, Types
    <2>4. next_mapping' \in 1..(MaxMappings + 1) /\ next_mapping' = next_mapping
      BY <1>1 DEF Good, Types
    <2> QED  BY <2>1, <2>2, <2>3, <2>4, <1>1, <1>2, <1>3 DEF Types
  <1>7. Decoded'
    BY <1>1, <1>3, <1>4, <1>5 DEF Decoded, Good
  <1>8. Contents' = [q \in DOMAIN Contents \cup {m} |-> IF q = m THEN Forks[m] ELSE Contents[q]]
    BY <1>1, <1>3, <1>4, <1>5 DEF Contents, Forks, Reading
  <1>9. Forks' = [q \in DOMAIN Forks \ {m} |-> Forks[q]] /\ active_mapping' = active_mapping /\ m \in DOMAIN Forks
    BY <1>1, <1>3, <1>5 DEF Forks, Reading
  <1>10. Held' = Held \cup {m}
    <2>1. references'[m] = 1 /\ \A q \in Published : references'[q] = references[q]
      BY <1>1, <1>3 DEF Published
    <2> QED  BY <2>1, <1>3 DEF Held
  <1>11. Abstract!Commit(m)
    BY <1>8, <1>9, <1>10 DEF Abstract!Commit, Abstract!Added, Contents, Forks, Held
  <1>12. Abstract!Next
    BY <1>9, <1>11 DEF Abstract!Next, Forks
  <1> QED  BY <1>6, <1>7, <1>12 DEF Good

LEMMA FreePreparedStep ==
    ASSUME Good, NEW m \in DOMAIN prepared, FreePreparedMapping(m) PROVE Good' /\ Abstract!Next
  <1>1. /\ prepared' = [q \in DOMAIN prepared \ {m} |-> prepared[q]]
        /\ positions' = [q \in DOMAIN positions \ {m} |-> positions[q]]
        /\ UNCHANGED <<live, state, references, active_mapping, next_mapping, lost>>
    BY DEF FreePreparedMapping, Dropped
  <1>2. /\ references \in [Published -> Nat] /\ state \in [Published -> Seq(Token)]
        /\ prepared \in [DOMAIN prepared -> Seq(Token)] /\ active_mapping \in Published
        /\ positions \in [Published \cup DOMAIN prepared -> Nat] /\ live \in Seq(Token)
        /\ Published \cap DOMAIN prepared = {}
    BY DEF Good, Types
  <1>3. Published' = Published /\ DOMAIN prepared' = DOMAIN prepared \ {m} /\ m \notin Published
    BY <1>1, <1>2 DEF Published
  <1>4. \A q \in Published : StateOf(q)' = StateOf(q) /\ positions'[q] = positions[q]
    BY <1>1, <1>2, <1>3 DEF StateOf
  <1>5. \A q \in DOMAIN prepared' : prepared'[q] = prepared[q] /\ positions'[q] = positions[q]
    BY <1>1, <1>2, <1>3
  <1>6. Types'
    <2>1. /\ prepared' \in [DOMAIN prepared' -> Seq(Token)]
          /\ positions' \in [Published' \cup DOMAIN prepared' -> Nat]
      BY <1>1, <1>2, <1>3
    <2>2. DOMAIN prepared' \subseteq 0..(next_mapping - 1) /\ next_mapping \in 1..(MaxMappings + 1)
          /\ Published \subseteq 0..(next_mapping - 1)
      BY <1>3 DEF Good, Types
    <2> QED  BY <2>1, <2>2, <1>1, <1>2, <1>3 DEF Types
  <1>7. Decoded'
    BY <1>1, <1>3, <1>4, <1>5 DEF Decoded, Good
  <1>8. Contents' = Contents /\ Held' = Held /\ active_mapping' = active_mapping
    BY <1>1, <1>3, <1>4 DEF Contents, Held, Reading
  <1>9. Forks' = [q \in DOMAIN Forks \ {m} |-> Forks[q]] /\ m \in DOMAIN Forks
    BY <1>1, <1>3, <1>5 DEF Forks, Reading
  <1>10. Abstract!Discard(m)
    BY <1>8, <1>9 DEF Abstract!Discard, Contents, Forks, Held
  <1>11. Abstract!Next
    BY <1>9, <1>10 DEF Abstract!Next, Forks
  <1> QED  BY <1>6, <1>7, <1>11 DEF Good

-----------------------------------------------------------------------------
(* The native sequence: lent to another mapping, and extended.             *)

LEMMA ActivateStep ==
    ASSUME Good, NEW m \in Published, ActivateMapping(m) PROVE Good' /\ Abstract!Next
  <1>0. PICK prior : prior = active_mapping
    OBVIOUS
  <1> DEFINE gone == IF active_mapping # 0 /\ references[active_mapping] = 0 THEN {active_mapping} ELSE {}
  <1>1. /\ references[m] > 0 /\ m # prior /\ live' = state[m] /\ active_mapping' = m
        /\ state' = [q \in DOMAIN Saved(m) \ gone |-> Saved(m)[q]]
        /\ positions' = [q \in DOMAIN positions \ gone |-> positions[q]]
        /\ references' = [q \in DOMAIN references \ gone |-> references[q]]
        /\ UNCHANGED <<prepared, next_mapping, lost>>
    BY <1>0 DEF ActivateMapping, Dropped
  <1>2. gone \subseteq {prior} /\ \A q \in gone : references[q] = 0
    BY <1>0
  <1> HIDE DEF gone
  <1>3. /\ references \in [Published -> Nat] /\ state \in [Published -> Seq(Token)]
        /\ prepared \in [DOMAIN prepared -> Seq(Token)] /\ prior \in Published
        /\ positions \in [Published \cup DOMAIN prepared -> Nat] /\ live \in Seq(Token)
        /\ Published \cap DOMAIN prepared = {}
    BY <1>0 DEF Good, Types
  <1>4. /\ Saved(m) \in [Published -> Seq(Token)] /\ Saved(m)[prior] = live
        /\ \A q \in Published \ {m, prior} : Saved(m)[q] = state[q]
    <2>1. <<>> \in Seq(Token)
      OBVIOUS
    <2>2. [state EXCEPT ![m] = <<>>] \in [Published -> Seq(Token)]
      BY <2>1, <1>3
    <2>3. Saved(m) = [[state EXCEPT ![m] = <<>>] EXCEPT ![prior] = live]
      BY <1>0 DEF Saved
    <2>4. Saved(m) \in [Published -> Seq(Token)] /\ Saved(m)[prior] = live
      BY <2>2, <2>3, <1>3
    <2>5. \A q \in Published \ {m, prior} : Saved(m)[q] = state[q]
      BY <2>3, <1>1, <1>3
    <2> QED  BY <2>4, <2>5
  <1>5. Published' = Published \ gone /\ m \in Published' /\ DOMAIN prepared' = DOMAIN prepared
    BY <1>1, <1>2 DEF Published
  <1>6. \A q \in Published' : StateOf(q)' = StateOf(q) /\ positions'[q] = positions[q]
    <2> SUFFICES ASSUME NEW q \in Published' PROVE StateOf(q)' = StateOf(q) /\ positions'[q] = positions[q]
      OBVIOUS
    <2>1. q \in Published \ gone /\ positions'[q] = positions[q] /\ state'[q] = Saved(m)[q]
      BY <1>1, <1>3, <1>4, <1>5
    <2>2. CASE q = m
      BY <2>1, <2>2, <1>0, <1>1 DEF StateOf
    <2>3. CASE q = prior
      BY <2>1, <2>3, <1>0, <1>1, <1>4 DEF StateOf
    <2>4. CASE q # m /\ q # prior
      BY <2>1, <2>4, <1>0, <1>1, <1>4 DEF StateOf
    <2> QED  BY <2>2, <2>3, <2>4
  <1>7. \A q \in DOMAIN prepared : prepared'[q] = prepared[q] /\ positions'[q] = positions[q]
    BY <1>1, <1>2, <1>3
  <1>8. Types'
    <2>1. references' \in [Published' -> Nat] /\ state' \in [Published' -> Seq(Token)] /\ live' \in Seq(Token)
      BY <1>1, <1>3, <1>4, <1>5
    <2>2. positions' \in [Published' \cup DOMAIN prepared' -> Nat]
      BY <1>1, <1>2, <1>3, <1>5
    <2>3. /\ Published' \subseteq 0..(next_mapping - 1) /\ DOMAIN prepared \subseteq 0..(next_mapping - 1)
          /\ next_mapping \in 1..(MaxMappings + 1)
      BY <1>5 DEF Good, Types
    <2> QED  BY <2>1, <2>2, <2>3, <1>1, <1>3, <1>5 DEF Types
  <1>9. Decoded'
    BY <1>5, <1>6, <1>7 DEF Decoded, Good
  <1>10. Contents' = [q \in DOMAIN Contents \ gone |-> Contents[q]]
    BY <1>5, <1>6 DEF Contents, Reading
  <1>11. Forks' = Forks
    BY <1>1, <1>5, <1>7 DEF Forks, Reading
  <1>12. Held' = Held /\ m \in Held
    <2>1. \A q \in Published' : references'[q] = references[q]
      BY <1>1, <1>5 DEF Published
    <2>2. \A q \in Published : references[q] > 0 => q \notin gone
      BY <1>2
    <2> QED  BY <1>1, <1>5, <2>1, <2>2 DEF Held
  <1>13. gone \in SUBSET ({active_mapping} \ (Held \cup {m}))
    BY <1>0, <1>1, <1>2 DEF Held
  <1>14. Abstract!Activate(m)
    <2>1. \E g \in SUBSET ({active_mapping} \ (Held \cup {m})) : Contents' = [h \in DOMAIN Contents \ g |-> Contents[h]]
      BY <1>10, <1>13
    <2> QED  BY <2>1, <1>1, <1>11, <1>12 DEF Abstract!Activate, Abstract!Without, Contents, Forks, Held
  <1>15. Abstract!Next
    BY <1>12, <1>14 DEF Abstract!Next, Held
  <1> QED  BY <1>8, <1>9, <1>15 DEF Good

\* What any decode, whole or interrupted, does to the types
LEMMA DecodesKeepTypes ==
    ASSUME Good, NEW tokens \in Seq(Token), NEW n \in Nat, n <= Len(tokens), live' = live \o tokens,
           positions' = [positions EXCEPT ![active_mapping] = @ + n],
           UNCHANGED <<state, references, prepared, active_mapping, next_mapping>>
    PROVE  /\ Good' /\ Published' = Published /\ Forks' = Forks /\ Held' = Held
           /\ \A q \in Published \ {active_mapping} : StateOf(q)' = StateOf(q) /\ positions'[q] = positions[q]
           /\ positions'[active_mapping] = positions[active_mapping] + n
  <1>1. /\ active_mapping \in Published /\ live \in Seq(Token) /\ Published \cap DOMAIN prepared = {}
        /\ positions \in [Published \cup DOMAIN prepared -> Nat]
    BY DEF Good, Types
  <1>2. Published' = Published
    BY DEF Published
  <1>3. \A q \in Published \ {active_mapping} : StateOf(q)' = StateOf(q) /\ positions'[q] = positions[q]
    BY <1>1 DEF StateOf
  <1>4. \A q \in DOMAIN prepared : positions'[q] = positions[q]
    BY <1>1
  <1>5. positions'[active_mapping] = positions[active_mapping] + n
    BY <1>1
  <1>6. live' \in Seq(Token) /\ Len(live') = Len(live) + Len(tokens)
    BY <1>1
  <1>7. positions' \in [Published \cup DOMAIN prepared -> Nat]
    BY <1>1
  <1>8. Types'
    BY <1>2, <1>6, <1>7 DEF Types, Good
  <1>9. Decoded'
    <2>1. \A q \in DOMAIN prepared' : positions'[q] <= Len(prepared'[q])
      BY <1>4 DEF Good, Decoded
    <2>2. StateOf(active_mapping) = live /\ \A q : q = active_mapping => StateOf(q)' = live'
      BY DEF StateOf
    <2>3. positions[active_mapping] <= Len(live) /\ Len(live) \in Nat /\ positions[active_mapping] \in Nat
          /\ Len(tokens) \in Nat
      BY <2>2, <1>1 DEF Good, Decoded
    <2>4. positions'[active_mapping] <= Len(live')
      BY <2>3, <1>5, <1>6
    <2>5. \A q \in Published' : positions'[q] <= Len(StateOf(q)')
      BY <2>2, <2>4, <1>2, <1>3 DEF Good, Decoded
    <2> QED  BY <2>1, <2>5 DEF Decoded
  <1>10. Forks' = Forks /\ Held' = Held
    BY <1>2, <1>4 DEF Forks, Held, Reading
  <1> QED  BY <1>2, <1>3, <1>5, <1>8, <1>9, <1>10 DEF Good

LEMMA DecodeStep ==
    ASSUME ExecutorAssumption, Good, NEW tokens \in BoundedSeq(Token, MaxLen), Decode(tokens)
    PROVE  Good' /\ Abstract!Next
  <1>0. PICK a : a = active_mapping
    OBVIOUS
  <1>1. tokens \in Seq(Token) /\ Len(tokens) \in Nat
    BY TokensAreSequences
  <1>2. /\ Good' /\ Published' = Published /\ Forks' = Forks /\ Held' = Held
        /\ \A q \in Published \ {active_mapping} : StateOf(q)' = StateOf(q) /\ positions'[q] = positions[q]
        /\ positions'[active_mapping] = positions[active_mapping] + Len(tokens)
    <2>1. /\ live' = live \o tokens /\ positions' = [positions EXCEPT ![active_mapping] = @ + Len(tokens)]
          /\ UNCHANGED <<state, references, prepared, active_mapping, next_mapping>>
      BY DEF Decode
    <2>2. Len(tokens) <= Len(tokens)
      BY <1>1
    <2> QED  BY <1>1, <2>1, <2>2, DecodesKeepTypes, Zenon
  <1>3. /\ a \in Published /\ StateOf(a) = live /\ StateOf(a)' = live' /\ live' = live \o tokens
        /\ active_mapping' = active_mapping /\ live \in Seq(Token) /\ positions[a] \in Nat
    BY <1>0 DEF Good, Types, Decode, StateOf
  <1>4. Len(live') = Len(live) + Len(tokens) /\ Len(live) \in Nat
    BY <1>1, <1>3
  <1>5. Contents[a] = (IF Len(live) = positions[a] THEN live ELSE Garbled)
    BY <1>3 DEF Contents, Reading
  <1>6. Contents'[a] = IF Len(live) = positions[a] THEN live \o tokens ELSE Garbled
    <2>1. Contents'[a] = IF Len(live') = positions'[a] THEN live' ELSE Garbled
      BY <1>2, <1>3 DEF Contents, Reading
    <2>2. positions'[a] = positions[a] + Len(tokens)
      BY <1>0, <1>2
    <2>3. positions[a] \in Nat /\ Len(tokens) \in Nat /\ live' = live \o tokens
      BY <1>1, <1>3
    <2>4. \A i, j, n \in Nat : i + n = j + n <=> i = j
      OBVIOUS
    <2>5. Len(live') = positions'[a] <=> Len(live) = positions[a]
      BY <2>2, <2>3, <2>4, <1>4, Zenon
    <2> QED  BY <2>1, <2>3, <2>5, Zenon
  <1>7. live # Garbled
    BY <1>3 DEF ExecutorAssumption
  <1>8. Contents'[a] = Abstract!Extended(Contents[a], tokens)
    BY <1>5, <1>6, <1>7 DEF Abstract!Extended
  <1>9. Contents' = [Contents EXCEPT ![a] = Abstract!Extended(Contents[a], tokens)]
    <2>1. DOMAIN Contents' = DOMAIN Contents /\ DOMAIN Contents = Published
      BY <1>2 DEF Contents
    <2>2. \A q \in Published \ {a} : Contents'[q] = Contents[q]
      BY <1>0, <1>2 DEF Contents, Reading
    <2>3. Contents = [q \in Published |-> Contents[q]] /\ Contents' = [q \in Published |-> Contents'[q]]
      BY <1>2 DEF Contents
    <2> QED  BY <2>1, <2>2, <2>3, <1>3, <1>8
  <1>10. Abstract!Decode(tokens)
    BY <1>0, <1>2, <1>3, <1>9 DEF Abstract!Decode, Contents, Forks, Held
  <1>11. tokens \in Abstract!BoundedSeq(Token, MaxLen)
    BY DEF BoundedSeq, SeqOf, Abstract!BoundedSeq, Abstract!SeqOf
  <1>12. Abstract!Next
    BY <1>10, <1>11 DEF Abstract!Next
  <1> QED  BY <1>2, <1>12

LEMMA InterruptStep ==
    ASSUME ExecutorAssumption, Good, NEW tokens \in BoundedSeq(Token, MaxLen), DecodeInterrupted(tokens)
    PROVE  Good' /\ Abstract!Next
  <1>0. PICK a : a = active_mapping
    OBVIOUS
  <1>1. tokens \in Seq(Token) /\ Len(tokens) \in Nat /\ Len(tokens) > 0
    BY TokensAreSequences DEF DecodeInterrupted
  <1>2. positions' = [positions EXCEPT ![active_mapping] = @ + 0]
    BY DEF DecodeInterrupted, Good, Types
  <1>3. /\ Good' /\ Published' = Published /\ Forks' = Forks /\ Held' = Held
        /\ \A q \in Published \ {active_mapping} : StateOf(q)' = StateOf(q) /\ positions'[q] = positions[q]
    <2>1. /\ live' = live \o tokens
          /\ UNCHANGED <<state, references, prepared, active_mapping, next_mapping>>
      BY DEF DecodeInterrupted
    <2>2. 0 <= Len(tokens) /\ 0 \in Nat
      BY <1>1
    <2> QED  BY <1>1, <1>2, <2>1, <2>2, DecodesKeepTypes, Zenon
  <1>4. /\ a \in Published /\ StateOf(a) = live /\ StateOf(a)' = live' /\ live' = live \o tokens
        /\ active_mapping' = active_mapping /\ live \in Seq(Token) /\ positions[a] \in Nat /\ positions' = positions
    BY <1>0 DEF Good, Types, DecodeInterrupted, StateOf
  <1>5. Len(live') = Len(live) + Len(tokens) /\ Len(live) \in Nat
    BY <1>1, <1>4
  <1>6. positions[a] <= Len(live)
    BY <1>4 DEF Good, Decoded
  <1>7. Contents'[a] = Garbled
    BY <1>1, <1>3, <1>4, <1>5, <1>6 DEF Contents, Reading
  <1>8. Contents' = [Contents EXCEPT ![a] = Garbled]
    <2>1. DOMAIN Contents' = DOMAIN Contents /\ DOMAIN Contents = Published
      BY <1>3 DEF Contents
    <2>2. \A q \in Published \ {a} : Contents'[q] = Contents[q]
      BY <1>0, <1>3 DEF Contents, Reading
    <2>3. Contents = [q \in Published |-> Contents[q]] /\ Contents' = [q \in Published |-> Contents'[q]]
      BY <1>3 DEF Contents
    <2> QED  BY <2>1, <2>2, <2>3, <1>4, <1>7
  <1>9. Abstract!Interrupt
    BY <1>0, <1>3, <1>4, <1>8 DEF Abstract!Interrupt, Contents, Forks, Held
  <1>10. Abstract!Next
    BY <1>9 DEF Abstract!Next
  <1> QED  BY <1>3, <1>10

-----------------------------------------------------------------------------
(* All of it.                                                              *)

LEMMA Step ==
    ASSUME ExecutorAssumption, Inv, [Next]_vars
    PROVE  Inv' /\ (lost' \/ Abstract!Next \/ UNCHANGED Abstract!vars)
  <1>1. CASE UNCHANGED vars
    <2>1. UNCHANGED <<live, state, positions, references, prepared, active_mapping, next_mapping, lost>>
      BY <1>1 DEF vars
    <2>2. Published' = Published /\ \A q : StateOf(q)' = StateOf(q)
      BY <2>1 DEF Published, StateOf
    <2>3. Inv'
      BY <2>1, <2>2 DEF Inv, Good, Types, Decoded
    <2>4. Contents' = Contents /\ Forks' = Forks /\ Held' = Held
      BY <2>1, <2>2 DEF Contents, Forks, Held, Reading
    <2>5. UNCHANGED Abstract!vars
      BY <2>1, <2>4 DEF Abstract!vars, Contents, Forks, Held
    <2> QED  BY <2>3, <2>5
  <1>2. CASE Next
    <2>1. Good
      BY <1>2, Zenon DEF Next, Inv
    <2>2. ASSUME NEW m \in Published, Clone(m) \/ DropHandle(m) \/ PrepareMappingFork(m) \/ ActivateMapping(m)
          PROVE  Good' /\ Abstract!Next
      BY <2>1, <2>2, CloneStep, DropHandleStep, PrepareStep, ActivateStep
    <2>3. ASSUME ActiveRepresentation PROVE Good' /\ Abstract!Next
      BY <2>1, <2>3, ActiveRepresentationStep
    <2>4. ASSUME NEW m \in DOMAIN prepared, CommitMapping(m) \/ FreePreparedMapping(m)
          PROVE  Good' /\ Abstract!Next
      BY <2>1, <2>4, CommitStep, FreePreparedStep
    <2>5. ASSUME NEW tokens \in BoundedSeq(Token, MaxLen),
                 ImportMapping(tokens) \/ Decode(tokens) \/ DecodeInterrupted(tokens)
          PROVE  Good' /\ Abstract!Next
      BY <2>1, <2>5, ImportStep, DecodeStep, InterruptStep
    <2>6. ASSUME RollbackFails PROVE lost'
      BY <2>6 DEF RollbackFails
    <2> QED  BY <1>2, <2>2, <2>3, <2>4, <2>5, <2>6 DEF Next, Inv
  <1> QED  BY <1>1, <1>2

\* A saved or live state never has fewer tokens than its position counts, published and
\* prepared mappings have identities of their own, and the active one is published,
\* until a rollback fails.
THEOREM Invariant == ASSUME ExecutorAssumption PROVE Spec => []Inv
  <1>1. Init => Inv
    BY InitGood DEF Inv
  <1>2. Inv /\ [Next]_vars => Inv'
    BY Step
  <1> QED  BY <1>1, <1>2, PTL DEF Spec

\* As long as no rollback fails, mappings that share one native sequence behave as if
\* each had its own: activate_mapping, prepare_mapping_fork, import_mapping and the
\* reclaiming of representations lose and mix nothing, for any tokens, any number of
\* mappings and any number of handles.
THEOREM MappingsAreImplemented == ASSUME ExecutorAssumption PROVE Spec => ImplementsMappings
  <1>1. Init => Abstract!Init
    BY InitGood
  <1>2. Inv /\ [Next]_vars => [~lost' => Abstract!Next]_(Abstract!vars)
    BY Step
  <1> QED  BY <1>1, <1>2, Invariant, PTL DEF Spec, ImplementsMappings

-----------------------------------------------------------------------------
(* The mapped engine: each session continues its own tokens, and what is   *)
(* published can be brought back.                                          *)

Text == Seq(Mapped!Words)

\* A published mapping is resident, or spilled.
InMemory(id) == [native |-> id, spill |-> {}, continuation |-> id]
OnDisk(id) == [native |-> NoHandle, spill |-> {Len(id)}, continuation |-> id]

SessionState ==
    [stage : {"none", "preparation", "prefill", "decode", "publication", "failed"},
     tokens : Text, evaluated : Nat, generated : Nat, max : Nat,
     handle : Sessions \cup {NoHandle}, parent : SUBSET Text, next : SUBSET Text]

\* Where the last completed block ends
Reached(n) == BlockSize * (n \div BlockSize)

\* A session that evaluates has a native mapping with what it has evaluated, all
\* blocks of which are published.
Exact(s, self, contents, published) ==
    self.stage \in {"prefill", "decode"} =>
        /\ self.handle = s
        /\ self.evaluated <= Len(self.tokens)
        /\ contents = SubSeq(self.tokens, 1, self.evaluated)
        /\ self.next \subseteq {contents}
        /\ Reached(self.evaluated) # 0 => SubSeq(self.tokens, 1, Reached(self.evaluated)) \in published
        /\ self.stage = "decode" => self.evaluated = Len(self.tokens) /\ (self.max > 0 => self.next # {})

SessionsOK ==
    /\ session \in [Sessions -> SessionState]
    /\ \A s \in Sessions : /\ session[s].handle \in {s, NoHandle}
                           /\ session[s].stage = "none" => session[s].handle = NoHandle
                           /\ Exact(s, session[s], native[s], logical)

Blocks ==
    \A id \in logical : /\ Len(id) # 0 /\ Len(id) % BlockSize = 0
                        /\ Len(id) > BlockSize => SubSeq(id, 1, Len(id) - BlockSize) \in logical

StoreOK ==
    /\ logical \subseteq Text /\ IsFiniteSet(logical) /\ DOMAIN resident = logical
    /\ \A id \in logical : resident[id] \in {InMemory(id), OnDisk(id)}
    /\ \A id \in logical : resident[id] = OnDisk(id) => id \in DOMAIN files /\ files[id] = id
    /\ \A id \in spilling : id \in logical /\ resident[id] = InMemory(id)
    /\ Blocks
    /\ Mapped!SpillAccounted

\* The executor has what somebody has a handle of, and nothing is ever evaluated on
\* the root.
NativeOK ==
    /\ active \in {Root} \cup Sessions \cup logical
    /\ DOMAIN native = Mapped!InUse
    /\ native[Root] = <<>>
    /\ \A id \in logical : resident[id] = InMemory(id) => native[id] = id

MappedInv == SessionsOK /\ StoreOK /\ NativeOK

-----------------------------------------------------------------------------
(* Numbers, sequences and sizes.                                           *)

LEMMA EngineNumbers ==
    /\ BlockSize \in Nat \ {0} /\ Chunk \in Nat \ {0} /\ SpillCapacity \in Nat /\ MaxTokens \subseteq Nat
    /\ Prompts \subseteq Text
  BY EngineAssumption DEF Mapped!EngineAssumption, Text

\* Sessions, the root and the sequences that name mappings are told apart.
LEMMA Names ==
    /\ Garbled \notin Text /\ Root \notin Text /\ NoHandle \notin Text
    /\ Sessions \cap Text = {}
    /\ Root \notin Sessions /\ NoHandle \notin Sessions /\ Root # NoHandle
  BY EngineAssumption DEF Mapped!EngineAssumption, Text

LEMMA Remainders ==
    ASSUME NEW n \in Nat, NEW k \in Nat
    PROVE  /\ n % BlockSize \in 0..(BlockSize - 1) /\ n \div BlockSize \in Nat
           /\ Reached(n) \in Nat /\ Reached(n) <= n /\ n < Reached(n) + BlockSize
           /\ (n \div BlockSize + 1) * BlockSize = Reached(n) + BlockSize
           /\ n % BlockSize = 0 => Reached(n) = n
  <1> DEFINE B == BlockSize
  <1>1. B \in Nat \ {0}
    BY EngineNumbers
  <1> HIDE DEF B
  <1>2. n % B \in 0..(B - 1)
    BY <1>1
  <1>3. n \div B \in Nat
    BY <1>1
  <1>4. B * (n \div B) <= n
    BY <1>1
  <1>5. n < B * (n \div B) + B
    BY <1>1
  <1>6. (n \div B + 1) * B = B * (n \div B) + B
    BY <1>1
  <1>7. n % B = 0 => n = B * (n \div B)
    BY <1>1
  <1>8. B * (n \div B) \in Nat
    BY <1>1, <1>3
  <1> QED  BY <1>2, <1>3, <1>4, <1>5, <1>6, <1>7, <1>8 DEF Reached, B

\* What is reached from one end of a block to the next
LEMMA WithinABlock ==
    ASSUME NEW n \in Nat, NEW m \in Nat, n < m, m <= Reached(n) + BlockSize
    PROVE  IF m % BlockSize = 0 THEN m = Reached(n) + BlockSize /\ Reached(m) = m
           ELSE Reached(m) = Reached(n)
  <1> DEFINE B == BlockSize
             k == n \div BlockSize
  <1>1. B \in Nat \ {0} /\ k \in Nat /\ B * k \in Nat /\ B * k <= n /\ n < B * k + B /\ m <= B * k + B
    BY EngineNumbers, Remainders DEF Reached
  <1> HIDE DEF B, k
  <1>2. m < B * k + B => m \div B = k
    BY <1>1
  <1>3. m % B = 0 => m = B * (m \div B)
    BY <1>1
  <1>4. m = B * k + B => m % B = 0
    <2>1. k + 1 \in Nat /\ B * k + B = B * (k + 1)
      BY <1>1
    <2>2. (B * (k + 1)) % B = 0
      BY <1>1, <2>1
    <2> QED  BY <2>1, <2>2
  <1>5. Reached(n) = B * k /\ Reached(m) = B * (m \div B)
    BY DEF Reached, B, k
  <1>6. CASE m % B = 0
    <2>1. ~(m < B * k + B)
      BY <1>1, <1>2, <1>3, <1>6
    <2> QED  BY <1>1, <1>3, <1>5, <1>6, <2>1 DEF B
  <1>7. CASE m % B # 0
    <2>1. m < B * k + B
      BY <1>1, <1>4, <1>7
    <2> QED  BY <1>2, <1>5, <1>7, <2>1 DEF B
  <1> QED  BY <1>6, <1>7

LEMMA Beginnings ==
    ASSUME NEW ts \in Text, NEW n \in 0..Len(ts)
    PROVE  /\ SubSeq(ts, 1, n) \in Text /\ Len(SubSeq(ts, 1, n)) = n
           /\ \A m \in 0..n : SubSeq(SubSeq(ts, 1, n), 1, m) = SubSeq(ts, 1, m)
           /\ \A m \in n..Len(ts) : SubSeq(ts, 1, n) \o SubSeq(ts, n + 1, m) = SubSeq(ts, 1, m)
           /\ \A t \in Mapped!Words : /\ Append(ts, t) \in Text /\ Len(Append(ts, t)) = Len(ts) + 1
                                      /\ SubSeq(Append(ts, t), 1, n) = SubSeq(ts, 1, n)
  <1> DEFINE W == Mapped!Words
  <1>0. ts \in Seq(W) /\ Len(ts) \in Nat /\ n \in Nat /\ n <= Len(ts)
    BY DEF Text
  <1> HIDE DEF W
  <1>1. SubSeq(ts, 1, n) \in Seq(W) /\ Len(SubSeq(ts, 1, n)) = n
    BY <1>0
  <1>2. \A m \in 0..n : SubSeq(SubSeq(ts, 1, n), 1, m) = SubSeq(ts, 1, m)
    BY <1>0
  <1>3. \A m \in n..Len(ts) : SubSeq(ts, 1, n) \o SubSeq(ts, n + 1, m) = SubSeq(ts, 1, m)
    BY <1>0
  <1>4. \A t \in W : /\ Append(ts, t) \in Seq(W) /\ Len(Append(ts, t)) = Len(ts) + 1
                     /\ SubSeq(Append(ts, t), 1, n) = SubSeq(ts, 1, n)
    BY <1>0
  <1> QED  BY <1>1, <1>2, <1>3, <1>4 DEF Text, W

LEMMA WholeSequence ==
    ASSUME NEW ts \in Text
    PROVE  /\ SubSeq(ts, 1, Len(ts)) = ts /\ SubSeq(ts, 1, 0) = <<>> /\ Len(ts) \in Nat
           /\ \A t \in Mapped!Words : ts \o <<t>> = SubSeq(Append(ts, t), 1, Len(ts) + 1)
  <1> DEFINE W == Mapped!Words
  <1>0. ts \in Seq(W)
    BY DEF Text
  <1> HIDE DEF W
  <1>1. SubSeq(ts, 1, Len(ts)) = ts /\ SubSeq(ts, 1, 0) = <<>> /\ Len(ts) \in Nat
    BY <1>0
  <1>2. \A t \in W : ts \o <<t>> = SubSeq(Append(ts, t), 1, Len(ts) + 1)
    BY <1>0
  <1> QED  BY <1>1, <1>2 DEF W

Sizes(ids) == SumOf([id \in ids |-> Len(id)], ids)

LEMMA BytesAreSizes == \A ids : Mapped!Bytes(ids) = Sizes(ids)
  BY DEF Mapped!Bytes, Sizes, SumOf, Mapped!MapThenSumSet, Mapped!MapThenFoldSet, MapThenSumSet, MapThenFoldSet

LEMMA BytesChange ==
    ASSUME NEW ids \in SUBSET Text, IsFiniteSet(ids), NEW id \in Text
    PROVE  /\ Mapped!Bytes({}) = 0 /\ Mapped!Bytes({id}) = Len(id) /\ Mapped!Bytes(ids) \in Nat
           /\ id \notin ids => Mapped!Bytes(ids \cup {id}) = Mapped!Bytes(ids) + Len(id)
           /\ id \in ids => Mapped!Bytes(ids \ {id}) = Mapped!Bytes(ids) - Len(id)
  <1> DEFINE f == [i \in ids \cup {id} |-> Len(i)]
  <1>1. \A i \in ids \cup {id} : f[i] \in Nat /\ f[i] \in Int /\ f[i] = Len(i)
    BY DEF Text
  <1>2. IsFiniteSet(ids \cup {id}) /\ IsFiniteSet({}) /\ IsFiniteSet({id})
    BY FS_AddElement, FS_EmptySet, FS_Singleton
  <1>3. ASSUME NEW S \in SUBSET (ids \cup {id}) PROVE Mapped!Bytes(S) = SumOf(f, S)
    <2>1. IsFiniteSet(S)
      BY <1>2, FS_Subset
    <2> DEFINE g == [i \in S |-> Len(i)]
    <2>2. \A i \in S : g[i] \in Int /\ g[i] = f[i]
      BY <1>1
    <2> HIDE DEF f, g
    <2>3. SumOf(g, S) = SumOf(f, S)
      BY <2>1, <2>2, SumSame
    <2> QED  BY <2>3, BytesAreSizes DEF Sizes, g
  <1> HIDE DEF f
  <1>4. SumOf(f, {}) = 0
    BY <1>1, <1>2, SumRound
  <1>5. SumOf(f, {id}) = f[id]
    <2>1. SumOf(f, {id}) = f[id] + SumOf(f, {id} \ {id})
      BY <1>1, <1>2, SumRemove
    <2>2. {id} \ {id} = {}
      OBVIOUS
    <2> QED  BY <1>1, <1>4, <2>1, <2>2
  <1>6. SumOf(f, ids) \in Nat
    BY <1>1, SumNat
  <1>7. id \notin ids => SumOf(f, ids \cup {id}) = SumOf(f, ids) + f[id]
    BY <1>1, SumAdd
  <1>8. id \in ids => SumOf(f, ids) = f[id] + SumOf(f, ids \ {id}) /\ SumOf(f, ids \ {id}) \in Nat
    <2>1. IsFiniteSet(ids \ {id})
      BY FS_Subset
    <2> QED  BY <1>1, <2>1, SumRemove, SumNat
  <1>9. id \in ids => SumOf(f, ids \ {id}) = SumOf(f, ids) - f[id]
    BY <1>1, <1>6, <1>8
  <1>10. /\ Mapped!Bytes({}) = SumOf(f, {}) /\ Mapped!Bytes({id}) = SumOf(f, {id})
         /\ Mapped!Bytes(ids) = SumOf(f, ids) /\ Mapped!Bytes(ids \cup {id}) = SumOf(f, ids \cup {id})
         /\ Mapped!Bytes(ids \ {id}) = SumOf(f, ids \ {id})
    BY <1>3
  <1> QED  BY <1>1, <1>4, <1>5, <1>6, <1>7, <1>9, <1>10

-----------------------------------------------------------------------------
(* Handles that are in use, and the states of their mappings.              *)

LEMMA Shapes ==
    ASSUME NEW id \in Text
    PROVE  /\ InMemory(id).native = id /\ InMemory(id).spill = {} /\ InMemory(id).continuation = id
           /\ OnDisk(id).native = NoHandle /\ OnDisk(id).spill = {Len(id)} /\ OnDisk(id).continuation = id
           /\ id # NoHandle /\ InMemory(id) # OnDisk(id)
  BY Names DEF InMemory, OnDisk

\* The executor has what somebody has a handle of, and of the sequences only
\* published ones.
LEMMA InUseNow ==
    ASSUME MappedInv
    PROVE  /\ Root \in DOMAIN native
           /\ \A s \in Sessions : session[s].handle = s => s \in DOMAIN native
           /\ \A id \in logical : resident[id] = InMemory(id) => id \in DOMAIN native
           /\ \A id \in DOMAIN native : id \in Text => id \in logical
  <1>1. /\ DOMAIN native = Mapped!InUse /\ DOMAIN resident = logical /\ logical \subseteq Text
        /\ active \in {Root} \cup Sessions \cup logical
        /\ \A id \in logical : resident[id] \in {InMemory(id), OnDisk(id)}
        /\ \A s \in Sessions : session[s].handle \in {s, NoHandle}
    BY DEF MappedInv, StoreOK, NativeOK, SessionsOK
  <1>2. \A id \in logical : resident[id].native \in {id, NoHandle}
                            /\ (resident[id] = InMemory(id) => resident[id].native = id)
    BY <1>1, Shapes
  <1>3. Root \in Mapped!InUse
    BY Names DEF Mapped!InUse
  <1>4. \A s \in Sessions : session[s].handle = s => s \in Mapped!InUse
    BY Names DEF Mapped!InUse
  <1>5. \A id \in logical : resident[id] = InMemory(id) => id \in Mapped!InUse
    BY <1>1, <1>2, Names DEF Mapped!InUse
  <1>6. ASSUME NEW id \in Mapped!InUse, id \in Text PROVE id \in logical
    <2>1. id # Root /\ id \notin Sessions /\ id # NoHandle
      BY <1>6, Names
    <2>2. CASE id = active
      BY <1>1, <2>1, <2>2
    <2>3. CASE \E s \in Sessions : id = session[s].handle
      BY <1>1, <2>1, <2>3
    <2>4. CASE \E other \in logical : id = resident[other].native
      BY <1>2, <2>1, <2>4
    <2> QED  BY <1>1, <1>6, <2>1, <2>2, <2>3, <2>4 DEF Mapped!InUse
  <1> QED  BY <1>1, <1>3, <1>4, <1>5, <1>6

\* What a step leaves in use, and with which states
Reclaimed(states) ==
    DOMAIN native' = Mapped!InUse' /\ \A h \in Mapped!InUse' : native'[h] = states[h]

LEMMA SettleReclaims == ASSUME NEW states, Mapped!Settle(states) PROVE Reclaimed(states)
  BY DEF Mapped!Settle, Reclaimed

LEMMA Settled ==
    ASSUME NEW states, Reclaimed(states), DOMAIN resident' = logical', logical' \subseteq Text,
           active' \in {Root} \cup Sessions \cup logical', states[Root] = <<>>,
           \A id \in logical' : resident'[id] = InMemory(id) => states[id] = id
    PROVE  /\ NativeOK'
           /\ \A s \in Sessions : session'[s].handle = s => native'[s] = states[s]
  <1>1. DOMAIN native' = Mapped!InUse' /\ \A h \in Mapped!InUse' : native'[h] = states[h]
    BY DEF Reclaimed
  <1>2. Root \in Mapped!InUse'
    BY Names DEF Mapped!InUse
  <1>3. \A s \in Sessions : session'[s].handle = s => s \in Mapped!InUse'
    BY Names DEF Mapped!InUse
  <1>4. ASSUME NEW id \in logical', resident'[id] = InMemory(id) PROVE id \in Mapped!InUse'
    <2>1. resident'[id].native = id /\ id # NoHandle
      BY <1>4, Shapes
    <2> QED  BY <1>4, <2>1 DEF Mapped!InUse
  <1>5. native'[Root] = <<>> /\ \A id \in logical' : resident'[id] = InMemory(id) => native'[id] = id
    BY <1>1, <1>2, <1>4
  <1>6. NativeOK'
    BY <1>1, <1>5 DEF NativeOK, InMemory
  <1> QED  BY <1>1, <1>3, <1>6

\* A step of one session leaves the others as they were.
LEMMA SessionsStep ==
    ASSUME SessionsOK, NEW s \in Sessions, NEW self \in SessionState, self.handle \in {s, NoHandle},
           self.stage = "none" => self.handle = NoHandle,
           session' = [session EXCEPT ![s] = self], logical \subseteq logical',
           \A t \in Sessions \ {s} : session[t].handle = t => native'[t] = native[t],
           Exact(s, self, native'[s], logical')
    PROVE  SessionsOK'
  <1>1. \A t \in Sessions : session'[t] = IF t = s THEN self ELSE session[t]
    BY DEF SessionsOK
  <1>2. session' \in [Sessions -> SessionState]
    <2> HIDE DEF SessionState
    <2> QED  BY DEF SessionsOK
  <1>3. \A t \in Sessions : /\ session'[t].handle \in {t, NoHandle}
                            /\ session'[t].stage = "none" => session'[t].handle = NoHandle
    BY <1>1 DEF SessionsOK
  <1>4. ASSUME NEW t \in Sessions PROVE Exact(t, session'[t], native'[t], logical')
    <2>1. CASE t = s
      BY <1>1, <2>1
    <2>2. CASE t # s
      <3>1. session'[t] = session[t] /\ Exact(t, session[t], native[t], logical)
        BY <1>1, <2>2 DEF SessionsOK
      <3>2. session[t].handle = t => native'[t] = native[t]
        BY <2>2
      <3> QED  BY <3>1, <3>2 DEF Exact
    <2> QED  BY <2>1, <2>2
  <1> QED  BY <1>2, <1>3, <1>4 DEF SessionsOK, Exact

LEMMA StoreUntouched ==
    ASSUME StoreOK, UNCHANGED <<logical, resident, files, spill_bytes, spilling>> PROVE StoreOK'
  <1>1. Mapped!SpillAccounted'
    BY DEF StoreOK, Mapped!SpillAccounted
  <1> QED  BY <1>1 DEF StoreOK, Blocks, InMemory, OnDisk

\* A step of one session that leaves the store alone
LEMMA SessionStep ==
    ASSUME MappedInv, NEW s \in Sessions, NEW self \in SessionState, self.handle \in {s, NoHandle},
           self.stage = "none" => self.handle = NoHandle,
           session' = [session EXCEPT ![s] = self],
           UNCHANGED <<logical, resident, files, spill_bytes, spilling>>,
           active' \in {Root} \cup Sessions \cup logical,
           NEW states, \A h \in DOMAIN native \ {s} : states[h] = native[h],
           Reclaimed(states),
           self.stage \in {"prefill", "decode"} => self.handle = s,
           Exact(s, self, states[s], logical)
    PROVE  MappedInv'
  <1>1. /\ DOMAIN resident = logical /\ logical \subseteq Text /\ s \notin logical /\ s # Root
        /\ native[Root] = <<>> /\ \A id \in logical : resident[id] = InMemory(id) => native[id] = id
    BY Names DEF MappedInv, StoreOK, NativeOK
  <1>2. \A h \in {Root} \cup logical : h \in DOMAIN native => states[h] = native[h]
    BY <1>1
  <1>3. states[Root] = <<>> /\ \A id \in logical : resident[id] = InMemory(id) => states[id] = id
    BY <1>1, <1>2, InUseNow
  <1>4. NativeOK' /\ \A t \in Sessions : session'[t].handle = t => native'[t] = states[t]
    BY <1>1, <1>3, Settled
  <1>5. \A t \in Sessions : session'[t] = IF t = s THEN self ELSE session[t]
    BY DEF MappedInv, SessionsOK
  <1>6. \A t \in Sessions \ {s} : session[t].handle = t => native'[t] = native[t]
    BY <1>4, <1>5, InUseNow
  <1>7. Exact(s, self, native'[s], logical')
    BY <1>4, <1>5 DEF Exact
  <1>8. SessionsOK'
    BY <1>6, <1>7, SessionsStep DEF MappedInv
  <1> QED  BY <1>4, <1>8, StoreUntouched DEF MappedInv

-----------------------------------------------------------------------------
(* Steps that leave the store alone.                                       *)

LEMMA NothingKept ==
    /\ Mapped!Unused \in SessionState
    /\ \A self \in SessionState : /\ Mapped!Failed(self) \in SessionState /\ Mapped!Failed(self).stage = "failed"
                                  /\ Mapped!Failed(self).handle = self.handle
  <1>1. <<>> \in Text
    BY DEF Text
  <1> QED  BY <1>1 DEF Mapped!Unused, Mapped!Failed, SessionState

\* The native mapping of a parent is one of the store.
LEMMA ParentsAreStored ==
    ASSUME MappedInv, NEW parent
    PROVE  /\ Mapped!NativeOf(parent) \subseteq logical
           /\ \A default : Mapped!OneOf(Mapped!NativeOf(parent), default) \in logical \cup {default}
  <1>1. \A id \in logical : resident[id].native \in {id, NoHandle}
    BY Shapes DEF MappedInv, StoreOK
  <1>2. Mapped!NativeOf(parent) \subseteq logical
    BY <1>1 DEF Mapped!NativeOf, MappedInv, StoreOK
  <1> QED  BY <1>2 DEF Mapped!OneOf

LEMMA SessionNow ==
    ASSUME MappedInv, NEW s \in Sessions
    PROVE  /\ session[s] \in SessionState /\ session[s].handle \in {s, NoHandle}
           /\ session[s].stage = "none" => session[s].handle = NoHandle
           /\ Exact(s, session[s], native[s], logical)
           /\ active \in {Root} \cup Sessions \cup logical
           /\ s # NoHandle /\ s # Root
  BY Names DEF MappedInv, SessionsOK, NativeOK

\* A session that does not evaluate any more
LEMMA EndStep ==
    ASSUME MappedInv, NEW s \in Sessions, NEW self \in SessionState, self.handle \in {s, NoHandle},
           self.stage \notin {"prefill", "decode"}, self.stage = "none" => self.handle = NoHandle,
           session' = [session EXCEPT ![s] = self],
           UNCHANGED <<logical, resident, files, spill_bytes, spilling>>,
           active' \in {Root} \cup Sessions \cup logical,
           NEW states, \A h \in DOMAIN native \ {s} : states[h] = native[h],
           Reclaimed(states)
    PROVE  MappedInv'
  <1>1. Exact(s, self, states[s], logical)
    BY DEF Exact
  <1> QED  BY <1>1, SessionStep

LEMMA KeepsNative ==
    ASSUME MappedInv, NEW s \in Sessions, NEW self, self.handle = session[s].handle,
           session' = [session EXCEPT ![s] = self], UNCHANGED <<native, active, resident>>
    PROVE  Reclaimed(native)
  <1>1. \A t \in Sessions : session'[t].handle = session[t].handle
    BY DEF MappedInv, SessionsOK
  <1>2. Mapped!InUse' = Mapped!InUse
    BY <1>1 DEF Mapped!InUse
  <1> QED  BY <1>2 DEF Reclaimed, MappedInv, NativeOK

LEMMA StartSessionStep ==
    ASSUME MappedInv, NEW s \in Sessions, NEW prompt \in Prompts, NEW max \in MaxTokens,
           Mapped!StartSession(s, prompt, max)
    PROVE  MappedInv'
  <1> DEFINE self == [Mapped!Unused EXCEPT !.stage = "preparation", !.tokens = prompt, !.max = max]
  <1>1. self \in SessionState /\ self.handle = NoHandle /\ self.stage = "preparation"
    <2>1. prompt \in Text /\ max \in Nat
      BY EngineNumbers
    <2> QED  BY <2>1, NothingKept DEF Mapped!Unused, SessionState
  <1>2. session[s].handle = NoHandle
    BY SessionNow DEF Mapped!StartSession
  <1>3. /\ session' = [session EXCEPT ![s] = self]
        /\ UNCHANGED <<native, active, logical, resident, files, spill_bytes, spilling>>
    BY DEF Mapped!StartSession
  <1> HIDE DEF self
  <1>4. Reclaimed(native)
    BY <1>1, <1>2, <1>3, KeepsNative
  <1> QED  BY <1>1, <1>3, <1>4, EndStep, SessionNow

LEMMA PrepareFailsStep ==
    ASSUME MappedInv, NEW s \in Sessions, Mapped!PrepareFails(s) PROVE MappedInv'
  <1> DEFINE self == [Mapped!Unused EXCEPT !.stage = "failed"]
  <1>1. self \in SessionState /\ self.handle = NoHandle /\ self.stage = "failed"
    BY NothingKept DEF Mapped!Unused, SessionState
  <1>2. session' = [session EXCEPT ![s] = self] /\ UNCHANGED <<logical, resident, files, spill_bytes, spilling>>
    BY DEF Mapped!PrepareFails
  <1>3. active' \in {Root} \cup Sessions \cup logical
    BY SessionNow, ParentsAreStored DEF Mapped!PrepareFails
  <1>4. Reclaimed(native)
    BY SettleReclaims DEF Mapped!PrepareFails
  <1> HIDE DEF self
  <1> QED  BY <1>1, <1>2, <1>3, <1>4, EndStep

LEMMA PrefillDoneStep ==
    ASSUME MappedInv, NEW s \in Sessions, Mapped!PrefillDone(s) PROVE MappedInv'
  <1> DEFINE now == session[s]
             decodes == [now EXCEPT !.stage = "decode"]
             self == IF now.max > 0 /\ now.next = {} THEN Mapped!Failed(now) ELSE decodes
  <1>1. /\ now \in SessionState /\ now.stage = "prefill" /\ now.handle = s /\ Exact(s, now, native[s], logical)
        /\ now.evaluated = Len(now.tokens)
    <2>1. now.evaluated \in Nat /\ Len(now.tokens) \in Nat
      BY SessionNow, WholeSequence DEF SessionState
    <2> QED  BY <2>1, SessionNow DEF Mapped!PrefillDone, Exact
  <1>2. /\ session' = [session EXCEPT ![s] = self]
        /\ UNCHANGED <<native, active, logical, resident, files, spill_bytes, spilling>>
    BY DEF Mapped!PrefillDone, MappedInv, SessionsOK
  <1>3. /\ decodes \in SessionState /\ decodes.stage = "decode" /\ decodes.handle = s
        /\ (now.max > 0 => now.next # {}) => Exact(s, decodes, native[s], logical)
    <2>1. /\ decodes.tokens = now.tokens /\ decodes.evaluated = now.evaluated /\ decodes.max = now.max
          /\ decodes.next = now.next /\ decodes.handle = s /\ decodes.stage = "decode" /\ decodes \in SessionState
      BY <1>1 DEF SessionState
    <2> HIDE DEF decodes
    <2> QED  BY <1>1, <2>1 DEF Exact
  <1>4. Mapped!Failed(now) \in SessionState /\ Mapped!Failed(now).stage = "failed" /\ Mapped!Failed(now).handle = s
    BY <1>1, NothingKept
  <1> HIDE DEF now, decodes
  <1>5. self \in SessionState /\ self.handle = s /\ self.stage # "none" /\ Exact(s, self, native[s], logical)
    BY <1>3, <1>4 DEF Exact
  <1> HIDE DEF self
  <1>6. Reclaimed(native)
    BY <1>1, <1>2, <1>5, KeepsNative DEF now
  <1> QED  BY <1>2, <1>5, <1>6, SessionStep, SessionNow

LEMMA DecodeLastStep ==
    ASSUME MappedInv, NEW s \in Sessions, NEW token \in Sampled, NEW terminal \in BOOLEAN,
           Mapped!DecodeLast(s, token, terminal)
    PROVE  MappedInv'
  <1> DEFINE now == session[s]
             self == [now EXCEPT !.tokens = Append(@, token), !.generated = @ + 1, !.stage = "publication"]
  <1>1. now \in SessionState /\ now.handle = s
    BY SessionNow DEF Mapped!DecodeLast, Exact
  <1>2. self \in SessionState /\ self.handle = s /\ self.stage = "publication"
    <2>1. token \in Mapped!Words
      BY DEF Mapped!Words
    <2>2. Append(now.tokens, token) \in Text /\ now.generated + 1 \in Nat
      <3>1. now.tokens \in Text /\ now.generated \in Nat
        BY <1>1 DEF SessionState
      <3> QED  BY <2>1, <3>1 DEF Text
    <2> QED  BY <1>1, <2>2 DEF SessionState
  <1>3. session' = [session EXCEPT ![s] = self]
    BY DEF Mapped!DecodeLast, MappedInv, SessionsOK, SessionState
  <1>4. /\ active' \in {Root} \cup Sessions \cup logical
        /\ UNCHANGED <<logical, resident, files, spill_bytes, spilling>>
    BY <1>1 DEF Mapped!DecodeLast
  <1>5. Reclaimed(native)
    BY SettleReclaims DEF Mapped!DecodeLast
  <1> HIDE DEF now, self
  <1> QED  BY <1>2, <1>3, <1>4, <1>5, EndStep

LEMMA QuantumFailsStep ==
    ASSUME MappedInv, NEW s \in Sessions, Mapped!QuantumFails(s) PROVE MappedInv'
  <1> DEFINE now == session[s]
             self == Mapped!Failed(now)
  <1>1. now \in SessionState /\ now.handle = s
    BY SessionNow DEF Mapped!QuantumFails, Exact
  <1>2. self \in SessionState /\ self.handle = s /\ self.stage = "failed"
    BY <1>1, NothingKept
  <1>3. session' = [session EXCEPT ![s] = self]
    BY DEF Mapped!QuantumFails
  <1>4. /\ active' \in {Root} \cup Sessions \cup logical
        /\ UNCHANGED <<logical, resident, files, spill_bytes, spilling>>
    BY <1>1 DEF Mapped!QuantumFails
  <1>5. PICK states : Reclaimed(states) /\ states \in {[native EXCEPT ![s] = Garbled], native}
    BY <1>1, SettleReclaims DEF Mapped!QuantumFails
  <1>6. \A h \in DOMAIN native \ {s} : states[h] = native[h]
    BY <1>5
  <1> HIDE DEF now, self
  <1> QED  BY <1>2, <1>3, <1>4, <1>5, <1>6, EndStep

\* The end of a session, whatever is active then
LEMMA UnusedStep ==
    ASSUME MappedInv, NEW s \in Sessions, session' = [session EXCEPT ![s] = Mapped!Unused],
           active' \in {active, Mapped!OneOf(Mapped!NativeOf(session[s].parent), active),
                        Mapped!OneOf(Mapped!NativeOf(session[s].parent), Root)},
           UNCHANGED <<logical, resident, files, spill_bytes, spilling>>, Mapped!Settle(native)
    PROVE  MappedInv'
  <1>1. Mapped!Unused \in SessionState /\ Mapped!Unused.handle = NoHandle /\ Mapped!Unused.stage = "none"
    BY NothingKept DEF Mapped!Unused
  <1>2. active' \in {Root} \cup Sessions \cup logical
    BY SessionNow, ParentsAreStored
  <1>3. Reclaimed(native)
    BY SettleReclaims
  <1> QED  BY <1>1, <1>2, <1>3, EndStep

LEMMA PublishStep ==
    ASSUME MappedInv, NEW s \in Sessions, Mapped!Complete(s) \/ Mapped!Finish(s) \/ Mapped!DropSession(s)
    PROVE  MappedInv'
  <1>1. CASE Mapped!Publish(s)
    BY <1>1, UnusedStep DEF Mapped!Publish
  <1>2. CASE Mapped!DropSession(s)
    BY <1>2, UnusedStep DEF Mapped!DropSession
  <1> QED  BY <1>1, <1>2 DEF Mapped!Complete, Mapped!Finish

-----------------------------------------------------------------------------
(* The steps that evaluate.                                                *)

\* The session has `self` with its native states: it has evaluated more of its
\* tokens, up to the end of a block.
Evaluates(s, self, states) ==
    /\ self \in SessionState /\ self.stage \in {"prefill", "decode"} /\ self.handle = s
    /\ self.evaluated \in 1..Len(self.tokens)
    /\ self.next = {SubSeq(self.tokens, 1, self.evaluated)}
    /\ self.stage = "decode" => self.evaluated = Len(self.tokens)
    /\ states = [native EXCEPT ![s] = SubSeq(self.tokens, 1, self.evaluated)]
    /\ session[s].handle = s /\ session[s].evaluated \in Nat
    /\ session[s].evaluated < self.evaluated
    /\ self.evaluated <= Reached(session[s].evaluated) + BlockSize
    /\ Reached(session[s].evaluated) # 0 =>
           SubSeq(self.tokens, 1, Reached(session[s].evaluated)) \in logical

LEMMA LeastOfThree ==
    ASSUME NEW a \in Nat, NEW b \in Nat, NEW c \in Nat
    PROVE  LET m == Mapped!Min({a, b, c}) IN m \in {a, b, c} /\ m <= a /\ m <= b /\ m <= c
  <1>1. \E m \in {a, b, c} : \A n \in {a, b, c} : m <= n
    <2>1. CASE a <= b /\ a <= c
      BY <2>1
    <2>2. CASE b <= a /\ b <= c
      BY <2>2
    <2>3. CASE c <= a /\ c <= b
      BY <2>3
    <2> QED  BY <2>1, <2>2, <2>3
  <1>2. Mapped!Min({a, b, c}) = CHOOSE m \in {a, b, c} : \A n \in {a, b, c} : m <= n
    BY DEF Mapped!Min
  <1> QED  BY <1>1, <1>2

LEMMA PrefillEvaluates ==
    ASSUME MappedInv, NEW s \in Sessions, Mapped!Prefill(s)
    PROVE  \E self, states : /\ Evaluates(s, self, states)
                             /\ Mapped!Advance(s, self, states) \/ Mapped!PublishFails(s, self, states)
  <1> DEFINE now == session[s]
             end == Mapped!PrefillEnd(s)
             tokens == SubSeq(now.tokens, now.evaluated + 1, end)
             states == Mapped!Decoded(s, tokens)
             self == [now EXCEPT !.evaluated = end, !.next = {states[Mapped!Owned(now.handle)]}]
  <1>1. /\ now \in SessionState /\ now.handle = s /\ now.stage = "prefill" /\ Exact(s, now, native[s], logical)
        /\ now.evaluated \in Nat /\ now.tokens \in Text /\ Len(now.tokens) \in Nat
        /\ now.evaluated < Len(now.tokens) /\ s \in DOMAIN native
    BY SessionNow, InUseNow, WholeSequence DEF Mapped!Prefill, Exact, SessionState
  <1>2. end \in Nat /\ now.evaluated < end /\ end <= Len(now.tokens) /\ end <= Reached(now.evaluated) + BlockSize
    <2>1. /\ Reached(now.evaluated) \in Nat /\ now.evaluated < Reached(now.evaluated) + BlockSize
          /\ (now.evaluated \div BlockSize + 1) * BlockSize = Reached(now.evaluated) + BlockSize
          /\ BlockSize \in Nat \ {0} /\ Chunk \in Nat \ {0}
      BY <1>1, Remainders, EngineNumbers
    <2>2. end = Mapped!Min({Len(now.tokens), Reached(now.evaluated) + BlockSize, now.evaluated + Chunk})
      BY <2>1 DEF Mapped!PrefillEnd
    <2> HIDE DEF end, now
    <2>3. Reached(now.evaluated) + BlockSize \in Nat /\ now.evaluated + Chunk \in Nat
      BY <1>1, <2>1
    <2>4. /\ end \in {Len(now.tokens), Reached(now.evaluated) + BlockSize, now.evaluated + Chunk}
          /\ end <= Len(now.tokens) /\ end <= Reached(now.evaluated) + BlockSize
      BY <1>1, <2>2, <2>3, LeastOfThree
    <2> QED  BY <1>1, <2>1, <2>3, <2>4
  <1>3. /\ native[s] = SubSeq(now.tokens, 1, now.evaluated) /\ native[s] \in Text
        /\ native[s] \o tokens = SubSeq(now.tokens, 1, end)
        /\ Reached(now.evaluated) # 0 => SubSeq(now.tokens, 1, Reached(now.evaluated)) \in logical
    <2>1. native[s] = SubSeq(now.tokens, 1, now.evaluated)
          /\ (Reached(now.evaluated) # 0 => SubSeq(now.tokens, 1, Reached(now.evaluated)) \in logical)
      BY <1>1 DEF Exact
    <2>2. now.evaluated \in 0..Len(now.tokens) /\ end \in now.evaluated..Len(now.tokens)
      BY <1>1, <1>2
    <2> HIDE DEF end, now
    <2>3. SubSeq(now.tokens, 1, now.evaluated) \in Text
      BY <1>1, <2>2, Beginnings
    <2>4. \A m \in now.evaluated..Len(now.tokens) :
              SubSeq(now.tokens, 1, now.evaluated) \o SubSeq(now.tokens, now.evaluated + 1, m) = SubSeq(now.tokens, 1, m)
      BY <1>1, <2>2, Beginnings
    <2>5. native[s] \o tokens = SubSeq(now.tokens, 1, end)
      BY <2>1, <2>2, <2>4 DEF tokens
    <2> QED  BY <2>1, <2>3, <2>5
  <1>4. states = [native EXCEPT ![s] = SubSeq(now.tokens, 1, end)]
    <2>1. native[s] # Garbled
      BY <1>3, Names
    <2> QED  BY <1>1, <1>3, <2>1 DEF Mapped!Decoded, Mapped!Owned, Mapped!Extended
  <1>5. states[s] = SubSeq(now.tokens, 1, end)
    BY <1>1, <1>4
  <1>6. SubSeq(now.tokens, 1, end) \in Text
    BY <1>1, <1>2, Beginnings
  <1>7. /\ self \in SessionState /\ self.handle = s /\ self.stage = "prefill" /\ self.evaluated = end
        /\ self.tokens = now.tokens /\ self.next = {SubSeq(now.tokens, 1, end)}
    BY <1>1, <1>2, <1>5, <1>6 DEF SessionState, Mapped!Owned
  <1>8. Mapped!Advance(s, self, states) \/ Mapped!PublishFails(s, self, states)
    BY DEF Mapped!Prefill
  <1> HIDE DEF self, states, end
  <1>9. Evaluates(s, self, states)
    BY <1>1, <1>2, <1>3, <1>4, <1>7 DEF Evaluates
  <1> QED  BY <1>8, <1>9

LEMMA DecodeEvaluates ==
    ASSUME MappedInv, NEW s \in Sessions, NEW token \in Sampled, Mapped!DecodeToken(s, token)
    PROVE  \E self, states : /\ Evaluates(s, self, states)
                             /\ Mapped!Advance(s, self, states) \/ Mapped!PublishFails(s, self, states)
  <1> DEFINE now == session[s]
             more == Append(now.tokens, token)
             states == Mapped!Decoded(s, <<token>>)
             self == [now EXCEPT !.tokens = Append(@, token), !.generated = @ + 1, !.evaluated = @ + 1,
                                 !.next = {states[Mapped!Owned(now.handle)]}]
  <1>1. /\ now \in SessionState /\ now.handle = s /\ now.stage = "decode" /\ Exact(s, now, native[s], logical)
        /\ now.evaluated \in Nat /\ now.tokens \in Text /\ now.evaluated = Len(now.tokens)
        /\ now.generated \in Nat /\ s \in DOMAIN native
    BY SessionNow, InUseNow DEF Mapped!DecodeToken, Exact, SessionState
  <1>2. token \in Mapped!Words
    BY DEF Mapped!Words
  <1> HIDE DEF now
  <1>3. /\ more \in Text /\ Len(more) = now.evaluated + 1
        /\ SubSeq(more, 1, now.evaluated + 1) = now.tokens \o <<token>>
        /\ SubSeq(now.tokens, 1, now.evaluated) = now.tokens
        /\ SubSeq(more, 1, now.evaluated + 1) \in Text
    <2>1. more \in Text /\ Len(more) = now.evaluated + 1
      BY <1>1, <1>2, Beginnings DEF more
    <2>2. now.tokens \o <<token>> = SubSeq(more, 1, now.evaluated + 1)
      BY <1>1, <1>2, WholeSequence DEF more
    <2>3. SubSeq(now.tokens, 1, now.evaluated) = now.tokens
      BY <1>1, WholeSequence
    <2>4. SubSeq(more, 1, now.evaluated + 1) = more
      BY <2>1, WholeSequence
    <2> QED  BY <2>1, <2>2, <2>3, <2>4
  <1>4. /\ Reached(now.evaluated) \in 0..now.evaluated /\ now.evaluated + 1 <= Reached(now.evaluated) + BlockSize
        /\ Reached(now.evaluated) # 0 => SubSeq(more, 1, Reached(now.evaluated)) \in logical
    <2>1. /\ Reached(now.evaluated) \in Nat /\ Reached(now.evaluated) <= now.evaluated
          /\ now.evaluated < Reached(now.evaluated) + BlockSize /\ BlockSize \in Nat
      BY <1>1, Remainders, EngineNumbers
    <2>2. Reached(now.evaluated) \in 0..Len(now.tokens)
      BY <1>1, <2>1
    <2>3. SubSeq(more, 1, Reached(now.evaluated)) = SubSeq(now.tokens, 1, Reached(now.evaluated))
      BY <1>1, <1>2, <2>2, Beginnings DEF more
    <2>4. Reached(now.evaluated) # 0 => SubSeq(now.tokens, 1, Reached(now.evaluated)) \in logical
      BY <1>1 DEF Exact
    <2>5. Reached(now.evaluated) \in 0..now.evaluated /\ now.evaluated + 1 <= Reached(now.evaluated) + BlockSize
      BY <1>1, <2>1
    <2> HIDE DEF more
    <2> QED  BY <2>3, <2>4, <2>5
  <1>5. states = [native EXCEPT ![s] = SubSeq(more, 1, now.evaluated + 1)]
    <2>1. native[s] = now.tokens /\ native[s] # Garbled
      BY <1>1, <1>3, Names DEF Exact
    <2> QED  BY <1>1, <1>3, <2>1 DEF Mapped!Decoded, Mapped!Owned, Mapped!Extended, now
  <1>6. states[s] = SubSeq(more, 1, now.evaluated + 1)
    BY <1>1, <1>5
  <1>7. /\ self \in SessionState /\ self.handle = s /\ self.stage = "decode"
        /\ self.evaluated = now.evaluated + 1 /\ self.tokens = more
        /\ self.next = {SubSeq(more, 1, now.evaluated + 1)}
    <2>1. now.evaluated + 1 \in Nat /\ now.generated + 1 \in Nat
      BY <1>1
    <2> QED  BY <1>1, <1>3, <1>6, <2>1 DEF SessionState, Mapped!Owned, more
  <1>8. Mapped!Advance(s, self, states) \/ Mapped!PublishFails(s, self, states)
    BY DEF Mapped!DecodeToken, now
  <1> HIDE DEF self, states, more
  <1>9. Evaluates(s, self, states)
    <2>1. session[s].handle = s /\ session[s].evaluated = now.evaluated
      BY <1>1 DEF now
    <2>2. now.evaluated + 1 \in 1..Len(more) /\ now.evaluated < now.evaluated + 1
      BY <1>1, <1>3
    <2> QED  BY <1>1, <1>3, <1>4, <1>5, <1>7, <2>1, <2>2 DEF Evaluates
  <1> QED  BY <1>8, <1>9

LEMMA OthersKept ==
    ASSUME MappedInv, NEW s \in Sessions, NEW self, NEW states, Evaluates(s, self, states)
    PROVE  /\ \A h \in DOMAIN native \ {s} : states[h] = native[h]
           /\ DOMAIN states = DOMAIN native
           /\ s \in DOMAIN native /\ states[s] = SubSeq(self.tokens, 1, self.evaluated)
  <1>1. s \in DOMAIN native
    BY InUseNow DEF Evaluates
  <1> QED  BY <1>1 DEF Evaluates

LEMMA PublishFailsStep ==
    ASSUME MappedInv, NEW s \in Sessions, NEW self, NEW states, Evaluates(s, self, states),
           Mapped!PublishFails(s, self, states)
    PROVE  MappedInv'
  <1> DEFINE failed == Mapped!Failed(self)
  <1>1. failed \in SessionState /\ failed.handle = s /\ failed.stage = "failed"
    BY NothingKept DEF Evaluates
  <1>2. /\ session' = [session EXCEPT ![s] = failed]
        /\ UNCHANGED <<logical, resident, files, spill_bytes, spilling>>
    BY DEF Mapped!PublishFails
  <1>3. active' \in {Root} \cup Sessions \cup logical
    BY ParentsAreStored DEF Mapped!PublishFails, Evaluates
  <1>4. Reclaimed(states)
    BY SettleReclaims DEF Mapped!PublishFails
  <1>5. \A h \in DOMAIN native \ {s} : states[h] = native[h]
    BY OthersKept
  <1> HIDE DEF failed
  <1> QED  BY <1>1, <1>2, <1>3, <1>4, <1>5, EndStep

\* A quantum that ends inside a block
LEMMA InsideBlockStep ==
    ASSUME MappedInv, NEW s \in Sessions, NEW self, NEW states, Evaluates(s, self, states),
           Mapped!Advance(s, self, states), self.evaluated % BlockSize # 0
    PROVE  MappedInv'
  <1>1. /\ session' = [session EXCEPT ![s] = self] /\ active' = s
        /\ UNCHANGED <<logical, resident, files, spill_bytes, spilling>> /\ Mapped!Settle(states)
    BY DEF Mapped!Advance, Evaluates
  <1>2. Reached(self.evaluated) = Reached(session[s].evaluated) /\ self.evaluated <= Len(self.tokens)
    <2>1. self.evaluated \in Nat /\ self.tokens \in Text /\ Len(self.tokens) \in Nat
      BY WholeSequence DEF Evaluates, SessionState
    <2> QED  BY <2>1, WithinABlock DEF Evaluates
  <1>3. Exact(s, self, states[s], logical)
    BY <1>2, OthersKept DEF Exact, Evaluates
  <1>4. Reclaimed(states)
    BY <1>1, SettleReclaims
  <1>5. /\ self \in SessionState /\ self.handle = s /\ self.stage \in {"prefill", "decode"}
    BY DEF Evaluates
  <1>6. \A h \in DOMAIN native \ {s} : states[h] = native[h]
    BY OthersKept
  <1>7. active' \in {Root} \cup Sessions \cup logical
    BY <1>1
  <1>8. UNCHANGED <<logical, resident, files, spill_bytes, spilling>>
    BY <1>1
  <1> QED  BY <1>1, <1>3, <1>4, <1>5, <1>6, <1>7, <1>8, SessionStep, SessionNow

\* The store after a block `id` is published: with the mapping that was there, or a
\* new one.
LEMMA PublishedStore ==
    ASSUME MappedInv, NEW id \in Text, Len(id) # 0, Len(id) % BlockSize = 0,
           Len(id) > BlockSize => SubSeq(id, 1, Len(id) - BlockSize) \in logical,
           logical' = logical \cup {id}, resident' = Mapped!PublishedAs(id, id, id),
           UNCHANGED <<files, spill_bytes, spilling>>
    PROVE  /\ StoreOK'
           /\ \A other \in logical : resident'[other] = resident[other]
           /\ id \notin logical => resident'[id] = InMemory(id)
  <1>1. /\ logical \subseteq Text /\ IsFiniteSet(logical) /\ DOMAIN resident = logical /\ Blocks
        /\ \A other \in logical : resident[other] \in {InMemory(other), OnDisk(other)}
        /\ \A other \in logical : resident[other] = OnDisk(other) => other \in DOMAIN files /\ files[other] = other
        /\ \A other \in spilling : other \in logical /\ resident[other] = InMemory(other)
        /\ Mapped!SpillAccounted
    BY DEF MappedInv, StoreOK
  <1>2. /\ DOMAIN resident' = logical'
        /\ \A other \in logical : resident'[other] = resident[other]
        /\ id \notin logical => resident'[id] = InMemory(id)
    BY <1>1 DEF Mapped!PublishedAs, Mapped!Added, InMemory
  <1>3. logical' \subseteq Text /\ IsFiniteSet(logical')
    BY <1>1, FS_AddElement
  <1>4. Blocks'
    BY <1>1 DEF Blocks
  <1>5. /\ \A other \in logical' : resident'[other] \in {InMemory(other), OnDisk(other)}
        /\ \A other \in logical' : resident'[other] = OnDisk(other) => other \in DOMAIN files /\ files[other] = other
        /\ \A other \in spilling : other \in logical' /\ resident'[other] = InMemory(other)
    BY <1>1, <1>2, Shapes
  <1>6. {other \in DOMAIN resident' : resident'[other].spill # {}} = {other \in DOMAIN resident : resident[other].spill # {}}
    BY <1>1, <1>2, Shapes
  <1>7. Mapped!SpillAccounted'
    BY <1>1, <1>6 DEF Mapped!SpillAccounted
  <1> QED  BY <1>2, <1>3, <1>4, <1>5, <1>7 DEF StoreOK, InMemory, OnDisk

\* A quantum that completes a block
LEMMA BlockStep ==
    ASSUME MappedInv, NEW s \in Sessions, NEW self, NEW states, Evaluates(s, self, states),
           Mapped!Advance(s, self, states), self.evaluated % BlockSize = 0
    PROVE  MappedInv'
  <1> DEFINE id == SubSeq(self.tokens, 1, self.evaluated)
             then == [self EXCEPT !.parent = {id}]
             all == Mapped!Saved(states, id, s)
             last == Reached(session[s].evaluated)
  <1>1. /\ self \in SessionState /\ self.stage \in {"prefill", "decode"} /\ self.handle = s
        /\ self.evaluated \in Nat /\ self.evaluated # 0 /\ self.evaluated <= Len(self.tokens)
        /\ self.tokens \in Text /\ Len(self.tokens) \in Nat /\ self.next = {id}
        /\ self.stage = "decode" => self.evaluated = Len(self.tokens)
        /\ session[s].handle = s /\ session[s].evaluated \in Nat
    BY WholeSequence DEF Evaluates, SessionState
  <1>2. /\ last \in Nat /\ self.evaluated = last + BlockSize /\ Reached(self.evaluated) = self.evaluated
        /\ last # 0 => SubSeq(self.tokens, 1, last) \in logical
    <2>1. self.evaluated = last + BlockSize /\ Reached(self.evaluated) = self.evaluated
      BY <1>1, WithinABlock DEF Evaluates
    <2>2. last \in Nat
      BY <1>1, Remainders
    <2> QED  BY <2>1, <2>2 DEF Evaluates
  <1>3. id \in Text /\ Len(id) = self.evaluated /\ \A m \in 0..self.evaluated : SubSeq(id, 1, m) = SubSeq(self.tokens, 1, m)
    BY <1>1, Beginnings
  <1>4. /\ session' = [session EXCEPT ![s] = then] /\ active' = s /\ logical' = logical \cup {id}
        /\ Mapped!Settle(all) /\ UNCHANGED <<files, spill_bytes, spilling>>
    BY <1>1 DEF Mapped!Advance
  <1>5. resident' = Mapped!PublishedAs(id, id, id)
    <2>1. Mapped!OneOf({id}, <<>>) = id
      BY DEF Mapped!OneOf
    <2> QED  BY <1>1, <2>1 DEF Mapped!Advance, Mapped!Snapshot
  <1>6. /\ \A h \in DOMAIN native \ {s} : states[h] = native[h]
        /\ DOMAIN states = DOMAIN native /\ s \in DOMAIN native /\ states[s] = id
    BY OthersKept
  <1>7. /\ then \in SessionState /\ then.handle = s /\ then.stage \in {"prefill", "decode"}
        /\ then.evaluated = self.evaluated /\ then.tokens = self.tokens /\ then.next = {id}
        /\ then.stage = "decode" => self.evaluated = Len(self.tokens)
    BY <1>1, <1>3 DEF SessionState
  <1> HIDE DEF id, then, all
  <1>8. Len(id) > BlockSize => SubSeq(id, 1, Len(id) - BlockSize) \in logical
    <2>1. Len(id) - BlockSize = last /\ last \in 0..self.evaluated /\ (Len(id) > BlockSize => last # 0)
      BY <1>1, <1>2, <1>3, EngineNumbers
    <2> HIDE DEF last
    <2> QED  BY <1>2, <1>3, <2>1
  <1>9. /\ StoreOK' /\ \A other \in logical : resident'[other] = resident[other]
        /\ id \notin logical => resident'[id] = InMemory(id)
    BY <1>1, <1>3, <1>4, <1>5, <1>8, PublishedStore
  <1>10. /\ \A h \in DOMAIN states : all[h] = states[h]
         /\ id \notin DOMAIN states => all[id] = id
    BY <1>6 DEF all, Mapped!Saved, Mapped!Added
  <1>11. /\ s # Root /\ s \notin logical /\ native[Root] = <<>> /\ Root \in DOMAIN native
         /\ \A other \in logical : resident[other] = InMemory(other) => native[other] = other /\ other \in DOMAIN native
         /\ id \notin logical => id \notin DOMAIN native
    BY <1>3, InUseNow, Names DEF MappedInv, StoreOK, NativeOK
  <1>12. all[Root] = <<>>
    BY <1>6, <1>10, <1>11
  <1>13. ASSUME NEW other \in logical', resident'[other] = InMemory(other) PROVE all[other] = other
    <2>1. CASE other \in logical
      <3>1. other \in DOMAIN native \ {s} /\ native[other] = other
        BY <1>9, <1>11, <1>13, <2>1
      <3> QED  BY <1>6, <1>10, <3>1
    <2>2. CASE other \notin logical
      BY <1>4, <1>6, <1>10, <1>11, <2>2
    <2> QED  BY <2>1, <2>2
  <1>14. NativeOK' /\ \A t \in Sessions : session'[t].handle = t => native'[t] = all[t]
    <2>1. Reclaimed(all)
      BY <1>4, SettleReclaims
    <2>2. DOMAIN resident' = logical' /\ logical' \subseteq Text
      BY <1>9 DEF StoreOK
    <2>3. active' \in {Root} \cup Sessions \cup logical'
      BY <1>4
    <2> QED  BY <1>12, <1>13, <2>1, <2>2, <2>3, Settled
  <1>15. \A t \in Sessions : session'[t] = IF t = s THEN then ELSE session[t]
    BY <1>4 DEF MappedInv, SessionsOK
  <1>16. \A t \in Sessions \ {s} : session[t].handle = t => native'[t] = native[t]
    <2>1. \A t \in Sessions \ {s} : session[t].handle = t => t \in DOMAIN native \ {s}
      BY InUseNow
    <2> QED  BY <1>6, <1>10, <1>14, <1>15, <2>1
  <1>17. Exact(s, then, native'[s], logical')
    <2>1. native'[s] = id
      BY <1>6, <1>7, <1>10, <1>14, <1>15
    <2> QED  BY <1>1, <1>2, <1>4, <1>7, <2>1 DEF Exact, id
  <1>18. SessionsOK'
    BY <1>4, <1>7, <1>16, <1>17, SessionNow, SessionsStep DEF MappedInv
  <1> QED  BY <1>9, <1>14, <1>18 DEF MappedInv

LEMMA EvaluateStep ==
    ASSUME MappedInv, NEW s \in Sessions,
           Mapped!Prefill(s) \/ \E token \in Sampled : Mapped!DecodeToken(s, token)
    PROVE  MappedInv'
  <1>1. PICK self, states : /\ Evaluates(s, self, states)
                            /\ Mapped!Advance(s, self, states) \/ Mapped!PublishFails(s, self, states)
    BY PrefillEvaluates, DecodeEvaluates
  <1> QED  BY <1>1, PublishFailsStep, InsideBlockStep, BlockStep

-----------------------------------------------------------------------------
(* prepare.                                                                *)

\* The store gives out one mapping, of the request's first tokens, or none.
LEMMA LongestIsOne ==
    ASSUME MappedInv, NEW ts \in Text
    PROVE  \/ Mapped!LongestPrefix(ts) = {}
           \/ \E id \in logical : /\ Mapped!LongestPrefix(ts) = {id}
                                  /\ Len(id) \in 0..Len(ts) /\ id = SubSeq(ts, 1, Len(id))
  <1> DEFINE hit == Mapped!LongestPrefix(ts)
  <1>1. logical \subseteq Text
    BY DEF MappedInv, StoreOK
  <1>2. ASSUME NEW id \in hit
        PROVE  /\ id \in logical /\ Len(id) \in Nat /\ Len(id) <= Len(ts) /\ id = SubSeq(ts, 1, Len(id))
               /\ \A other \in hit : Len(other) <= Len(id)
    <2>1. id \in logical /\ Mapped!IsPrefix(id, ts)
          /\ \A other \in hit : Len(other) <= Len(id)
      BY DEF Mapped!LongestPrefix
    <2>2. SubSeq(id, 1, Len(id)) = id /\ Len(id) \in Nat
      BY <1>1, <2>1, WholeSequence
    <2> QED  BY <2>1, <2>2 DEF Mapped!IsPrefix
  <1>3. ASSUME NEW id \in hit, NEW other \in hit PROVE id = other
    <2>1. Len(id) = Len(other)
      BY <1>2
    <2>2. id = SubSeq(ts, 1, Len(id)) /\ other = SubSeq(ts, 1, Len(other))
      BY <1>2
    <2> QED  BY <2>1, <2>2
  <1>4. ASSUME NEW id \in hit
        PROVE  hit = {id} /\ id \in logical /\ Len(id) \in 0..Len(ts) /\ id = SubSeq(ts, 1, Len(id))
    <2>1. Len(ts) \in Nat
      BY WholeSequence
    <2>2. hit = {id}
      BY <1>3
    <2> QED  BY <1>2, <2>1, <2>2
  <1> QED  BY <1>4

LEMMA Fewer == \A a, b, c \in Nat : a <= c => a - b <= c
  OBVIOUS

\* The store after a spilled mapping is imported from its file
LEMMA RestoredStore ==
    ASSUME MappedInv, NEW id \in logical, resident[id] = OnDisk(id), Mapped!Unlocked,
           resident' = [other \in DOMAIN resident |->
                          IF other \in {id} THEN [native |-> other, spill |-> {}, continuation |-> resident[other].continuation]
                          ELSE resident[other]],
           files' = [other \in DOMAIN files \ {id} |-> files[other]],
           spill_bytes' = spill_bytes - Mapped!Bytes({id}), UNCHANGED <<logical, spilling>>
    PROVE  /\ StoreOK'
           /\ \A other \in logical : resident'[other] = IF other = id THEN InMemory(id) ELSE resident[other]
  <1> DEFINE spilled == {other \in DOMAIN resident : resident[other].spill # {}}
  <1>1. /\ logical \subseteq Text /\ IsFiniteSet(logical) /\ DOMAIN resident = logical /\ Blocks
        /\ \A other \in logical : resident[other] \in {InMemory(other), OnDisk(other)}
        /\ \A other \in logical : resident[other] = OnDisk(other) => other \in DOMAIN files /\ files[other] = other
        /\ Mapped!SpillAccounted
    BY DEF MappedInv, StoreOK
  <1>2. /\ DOMAIN resident' = logical
        /\ \A other \in logical : resident'[other] = IF other = id THEN InMemory(id) ELSE resident[other]
    <2>1. resident[id].continuation = id
      BY <1>1, Shapes
    <2>2. DOMAIN resident' = logical /\ resident'[id] = InMemory(id)
      BY <1>1, <2>1 DEF InMemory
    <2>3. \A other \in logical \ {id} : resident'[other] = resident[other]
      BY <1>1
    <2> QED  BY <2>2, <2>3
  <1>3. spilling' = {}
    BY DEF Mapped!Unlocked
  <1>4. /\ \A other \in logical : resident'[other] \in {InMemory(other), OnDisk(other)}
        /\ \A other \in logical : resident'[other] = OnDisk(other) => other \in DOMAIN files' /\ files'[other] = other
    BY <1>1, <1>2, Shapes
  <1>5. {other \in DOMAIN resident' : resident'[other].spill # {}} = spilled \ {id}
    <2>1. resident'[id].spill = {}
      BY <1>1, <1>2, Shapes
    <2>2. \A other \in logical : resident'[other].spill # {} <=> other \in spilled \ {id}
      BY <1>1, <1>2, <2>1
    <2> QED  BY <1>1, <1>2, <2>2
  <1>6. spilled \in SUBSET Text /\ IsFiniteSet(spilled) /\ id \in spilled /\ id \in Text /\ Len(id) \in Nat
    <2>1. spilled \subseteq logical /\ id \in Text
      BY <1>1
    <2>2. IsFiniteSet(spilled)
      BY <1>1, <2>1, FS_Subset
    <2>3. id \in spilled
      BY <1>1, <2>1, Shapes
    <2> QED  BY <1>1, <2>1, <2>2, <2>3, WholeSequence
  <1>7. /\ Mapped!Bytes(spilled \ {id}) = Mapped!Bytes(spilled) - Len(id) /\ Mapped!Bytes({id}) = Len(id)
        /\ Mapped!Bytes(spilled) \in Nat
    BY <1>6, BytesChange
  <1>8. Mapped!SpillAccounted'
    <2>1. spill_bytes = Mapped!Bytes(spilled) /\ spill_bytes <= SpillCapacity
      BY <1>1 DEF Mapped!SpillAccounted
    <2> HIDE DEF spilled
    <2>2. spill_bytes' = Mapped!Bytes(spilled) - Len(id)
      BY <1>7, <2>1
    <2>3. SpillCapacity \in Nat /\ Len(id) \in Nat
      BY <1>6, EngineNumbers
    <2>4. Mapped!Bytes(spilled) - Len(id) <= SpillCapacity
      BY <1>7, <2>1, <2>3, Fewer
    <2> QED  BY <1>5, <1>7, <2>2, <2>4 DEF Mapped!SpillAccounted
  <1>9. Blocks'
    BY <1>1 DEF Blocks
  <1> QED  BY <1>1, <1>2, <1>3, <1>4, <1>8, <1>9 DEF StoreOK, InMemory, OnDisk

LEMMA RestoreNothing ==
    ASSUME MappedInv, Mapped!Unlocked,
           resident' = [other \in DOMAIN resident |->
                          IF other \in {} THEN [native |-> other, spill |-> {}, continuation |-> resident[other].continuation]
                          ELSE resident[other]],
           files' = [other \in DOMAIN files \ {} |-> files[other]],
           spill_bytes' = spill_bytes - Mapped!Bytes({}), UNCHANGED <<logical, spilling>>
    PROVE  StoreOK' /\ \A other \in logical : resident'[other] = resident[other]
  <1>1. /\ logical \subseteq Text /\ IsFiniteSet(logical) /\ DOMAIN resident = logical /\ Blocks
        /\ \A other \in logical : resident[other] \in {InMemory(other), OnDisk(other)}
        /\ \A other \in logical : resident[other] = OnDisk(other) => other \in DOMAIN files /\ files[other] = other
        /\ Mapped!SpillAccounted
    BY DEF MappedInv, StoreOK
  <1>2. DOMAIN resident' = logical /\ \A other \in logical : resident'[other] = resident[other]
    BY <1>1
  <1>3. spilling' = {}
    BY DEF Mapped!Unlocked
  <1>4. \A other \in logical : resident'[other] = OnDisk(other) => other \in DOMAIN files' /\ files'[other] = other
    BY <1>1, <1>2
  <1>5. {other \in DOMAIN resident' : resident'[other].spill # {}} = {other \in DOMAIN resident : resident[other].spill # {}}
    BY <1>1, <1>2
  <1>6. spill_bytes' = spill_bytes
    <2>1. Mapped!Bytes({}) = 0 /\ spill_bytes \in Nat
      <3>1. /\ {other \in DOMAIN resident : resident[other].spill # {}} \in SUBSET Text
            /\ IsFiniteSet({other \in DOMAIN resident : resident[other].spill # {}})
        BY <1>1, FS_Subset
      <3>2. <<>> \in Text
        BY DEF Text
      <3> QED  BY <1>1, <3>1, <3>2, BytesChange DEF Mapped!SpillAccounted
    <2> QED  BY <2>1
  <1>7. Mapped!SpillAccounted'
    BY <1>1, <1>5, <1>6 DEF Mapped!SpillAccounted
  <1>8. Blocks'
    BY <1>1 DEF Blocks
  <1> QED  BY <1>1, <1>2, <1>3, <1>4, <1>7, <1>8 DEF StoreOK, InMemory, OnDisk

\* What the request gets a fork of: the mapping that is given out, with exactly its
\* tokens, or the root
LEMMA SourceIsExact ==
    ASSUME MappedInv, NEW id \in logical
    PROVE  /\ resident[id] = OnDisk(id) => /\ Mapped!Restored({id}) = {id} /\ Mapped!NativeOf({id}) = {}
                                           /\ files[id] = id
           /\ resident[id] # OnDisk(id) => /\ Mapped!Restored({id}) = {} /\ Mapped!NativeOf({id}) = {id}
                                           /\ resident[id] = InMemory(id) /\ native[id] = id
           /\ resident[id].continuation = id
  <1>1. /\ DOMAIN resident = logical /\ id \in Text /\ id # NoHandle /\ resident[id] \in {InMemory(id), OnDisk(id)}
        /\ InMemory(id) # OnDisk(id) /\ InMemory(id).native = id /\ OnDisk(id).native = NoHandle
        /\ InMemory(id).continuation = id /\ OnDisk(id).continuation = id
        /\ resident[id] = OnDisk(id) => files[id] = id
        /\ resident[id] = InMemory(id) => native[id] = id
    BY Shapes DEF MappedInv, StoreOK, NativeOK
  <1>2. Mapped!NativeOf({id}) = {resident[id].native} \ {NoHandle}
    BY <1>1 DEF Mapped!NativeOf
  <1>3. Mapped!Restored({id}) = IF resident[id].native = NoHandle THEN {id} ELSE {}
    BY DEF Mapped!Restored
  <1> QED  BY <1>1, <1>2, <1>3

\* The session `self` has a fork with state `from`, which is what it takes for
\* evaluated; `states` has the other mappings.
ForkHas(s, self, states, from) ==
    /\ self \in SessionState /\ self.handle = s /\ self.stage = "prefill"
    /\ from = SubSeq(self.tokens, 1, self.evaluated) /\ self.next \subseteq {from}
    /\ self.evaluated \in 0..Len(self.tokens)
    /\ Reached(self.evaluated) # 0 => SubSeq(self.tokens, 1, Reached(self.evaluated)) \in logical
    /\ \A h \in DOMAIN native : h \notin logical => h \in DOMAIN states /\ states[h] = native[h]
    /\ \A id \in logical : resident'[id] = InMemory(id) => id \in DOMAIN states /\ states[id] = id

LEMMA ForkedStep ==
    ASSUME MappedInv, StoreOK', logical' = logical, NEW s \in Sessions, NEW self, NEW states, NEW from,
           ForkHas(s, self, states, from), session' = [session EXCEPT ![s] = self], active' = s,
           Mapped!Settle(Mapped!Added(states, s, from))
    PROVE  MappedInv'
  <1> DEFINE all == Mapped!Added(states, s, from)
  <1> USE DEF ForkHas
  <1>1. /\ s # Root /\ s \notin logical /\ Root \notin logical /\ native[Root] = <<>> /\ Root \in DOMAIN native
        /\ DOMAIN resident' = logical' /\ logical' \subseteq Text /\ logical \subseteq Text
        /\ \A t \in Sessions : t \notin logical /\ (session[t].handle = t => t \in DOMAIN native)
    BY Names, InUseNow DEF MappedInv, StoreOK, NativeOK
  <1>2. all[s] = from /\ \A h \in DOMAIN states \ {s} : all[h] = states[h]
    BY DEF Mapped!Added
  <1>3. Reclaimed(all)
    BY SettleReclaims
  <1> HIDE DEF all
  <1>4. all[Root] = <<>> /\ \A id \in logical' : resident'[id] = InMemory(id) => all[id] = id
    BY <1>1, <1>2
  <1>5. active' \in {Root} \cup Sessions \cup logical'
    OBVIOUS
  <1>6. NativeOK' /\ \A t \in Sessions : session'[t].handle = t => native'[t] = all[t]
    BY <1>1, <1>3, <1>4, <1>5, Settled
  <1>7. \A t \in Sessions : session'[t] = IF t = s THEN self ELSE session[t]
    BY DEF MappedInv, SessionsOK
  <1>8. \A t \in Sessions \ {s} : session[t].handle = t => native'[t] = native[t]
    <2> TAKE t \in Sessions \ {s}
    <2> HAVE session[t].handle = t
    <2>1. t \in DOMAIN native /\ t \notin logical /\ session'[t].handle = t
      BY <1>1, <1>7
    <2>2. t \in DOMAIN states \ {s} /\ states[t] = native[t]
      BY <2>1
    <2> QED  BY <1>2, <1>6, <2>1, <2>2
  <1>9. native'[s] = from
    BY <1>2, <1>6, <1>7
  <1>10. Exact(s, self, native'[s], logical')
    BY <1>9 DEF Exact
  <1>11. SessionsOK'
    BY <1>7, <1>8, <1>10, SessionsStep DEF MappedInv
  <1> QED  BY <1>6, <1>11 DEF MappedInv

LEMMA PrepareSessionStep ==
    ASSUME MappedInv, NEW s \in Sessions, Mapped!Prepare(s) PROVE MappedInv'
  <1> DEFINE now == session[s]
             hit == Mapped!LongestPrefix(now.tokens)
             back == Mapped!Restored(hit)
             source == Mapped!OneOf(hit, Root)
             name == IF hit = {} THEN Root ELSE Mapped!OneOf(back \cup Mapped!NativeOf(hit), Root)
             states == [h \in DOMAIN native \cup back |-> IF h \in back THEN files[h] ELSE native[h]]
             from == states[name]
             size == IF hit = {} THEN 0 ELSE Len(source)
             next == {resident[id].continuation : id \in hit}
             self == [now EXCEPT !.stage = "prefill", !.handle = s, !.parent = hit,
                                 !.evaluated = size, !.next = next]
  <1>0. session' = [session EXCEPT ![s] = self] /\ active' = s /\ Mapped!Settle(Mapped!Added(states, s, from))
    BY DEF Mapped!Prepare, Mapped!Imported, Mapped!Activated
  <1>1. /\ Mapped!Unlocked
        /\ resident' = [id \in DOMAIN resident |->
                          IF id \in back
                          THEN [native |-> id, spill |-> {}, continuation |-> resident[id].continuation]
                          ELSE resident[id]]
        /\ files' = [id \in DOMAIN files \ back |-> files[id]]
        /\ spill_bytes' = spill_bytes - Mapped!Bytes(back)
        /\ UNCHANGED <<logical, spilling>>
    BY DEF Mapped!Prepare, Mapped!MadeResident
  <1>2. now \in SessionState /\ now.tokens \in Text /\ Len(now.tokens) \in Nat
    BY SessionNow, WholeSequence DEF SessionState
  <1>3. /\ logical \subseteq Text /\ DOMAIN resident = logical
        /\ \A id \in logical : id \in DOMAIN native => native[id] = id \/ resident[id] = OnDisk(id)
        /\ \A id \in logical : resident[id] = InMemory(id) => id \in DOMAIN native /\ native[id] = id
        /\ \A id \in logical : resident[id] \in {InMemory(id), OnDisk(id)} /\ InMemory(id) # OnDisk(id)
        /\ Root \notin logical /\ Root \in DOMAIN native /\ native[Root] = <<>>
    BY InUseNow, Names, Shapes DEF MappedInv, StoreOK, NativeOK
  <1>4. hit \subseteq Text /\ next \subseteq Text /\ size \in Nat
          => self \in SessionState /\ self.stage = "prefill" /\ self.handle = s /\ self.tokens = now.tokens
             /\ self.evaluated = size /\ self.next = next
    BY <1>2 DEF SessionState
  <1>5. CASE hit = {}
    <2>1. back = {} /\ name = Root /\ size = 0 /\ next = {}
      BY <1>5 DEF Mapped!Restored
    <2>2. from = <<>> /\ DOMAIN states = DOMAIN native /\ \A h \in DOMAIN native : states[h] = native[h]
      BY <1>3, <2>1
    <2>3. self \in SessionState /\ self.stage = "prefill" /\ self.handle = s /\ self.tokens = now.tokens
          /\ self.evaluated = 0 /\ self.next = {}
      BY <1>4, <1>5, <2>1
    <2> HIDE DEF hit, back, name, states, from, size, next, self, now
    <2>4. StoreOK' /\ \A id \in logical : resident'[id] = resident[id]
      BY <1>1, <2>1, RestoreNothing
    <2>5. SubSeq(self.tokens, 1, self.evaluated) = <<>> /\ self.evaluated \in 0..Len(self.tokens)
      BY <1>2, <2>3, WholeSequence
    <2>6. Reached(self.evaluated) = 0
      BY <2>3, Remainders
    <2>7. \A id \in logical : resident'[id] = InMemory(id) => id \in DOMAIN states /\ states[id] = id
      BY <1>3, <2>2, <2>4
    <2>8. \A h \in DOMAIN native : h \notin logical => h \in DOMAIN states /\ states[h] = native[h]
      BY <2>2
    <2>9. from = SubSeq(self.tokens, 1, self.evaluated) /\ self.next \subseteq {from}
      BY <2>2, <2>3, <2>5
    <2>10. logical' = logical
      BY <1>1
    <2>11. ForkHas(s, self, states, from)
      BY <2>3, <2>5, <2>6, <2>7, <2>8, <2>9 DEF ForkHas
    <2> QED  BY <1>0, <2>4, <2>10, <2>11, ForkedStep
  <1>6. CASE hit # {}
    <2>1. PICK id \in logical : hit = {id} /\ Len(id) \in 0..Len(now.tokens) /\ id = SubSeq(now.tokens, 1, Len(id))
      BY <1>2, <1>6, LongestIsOne
    <2>2. source = id /\ size = Len(id) /\ next = {resident[id].continuation}
      BY <2>1 DEF Mapped!OneOf
    <2>3. /\ resident[id] = OnDisk(id) => back = {id} /\ Mapped!NativeOf(hit) = {} /\ files[id] = id
          /\ resident[id] # OnDisk(id) => /\ back = {} /\ Mapped!NativeOf(hit) = {id}
                                          /\ resident[id] = InMemory(id) /\ native[id] = id
          /\ resident[id].continuation = id
      BY <2>1, SourceIsExact
    <2>4. name = id
      BY <2>1, <2>3 DEF Mapped!OneOf
    <2>5. from = id
      BY <1>3, <2>3, <2>4
    <2>6. /\ \A h \in DOMAIN native : h \notin logical => h \in DOMAIN states /\ states[h] = native[h]
          /\ DOMAIN states = DOMAIN native \cup back
          /\ \A h \in DOMAIN native \ back : states[h] = native[h]
          /\ id \in back => states[id] = files[id]
      BY <2>3
    <2>7. /\ self \in SessionState /\ self.stage = "prefill" /\ self.handle = s /\ self.tokens = now.tokens
          /\ self.evaluated = Len(id) /\ self.next = {id}
      BY <1>3, <1>4, <2>1, <2>2, <2>3, WholeSequence
    <2>8. Len(id) % BlockSize = 0 /\ Reached(Len(id)) = Len(id)
      <3>1. Len(id) \in Nat /\ Len(id) % BlockSize = 0
        BY <1>2, <2>1 DEF MappedInv, StoreOK, Blocks
      <3> QED  BY <3>1, Remainders
    <2> HIDE DEF hit, back, name, states, from, size, next, self, now
    <2>9. StoreOK' /\ \A other \in logical : resident'[other] = IF other \in back THEN InMemory(other) ELSE resident[other]
      <3>1. CASE back = {id}
        <4>1. resident[id] = OnDisk(id)
          BY <2>3, <3>1
        <4> QED  BY <1>1, <3>1, <4>1, RestoredStore
      <3>2. CASE back = {}
        BY <1>1, <3>2, RestoreNothing
      <3> QED  BY <2>3, <3>1, <3>2
    <2>10. ASSUME NEW other \in logical, resident'[other] = InMemory(other)
           PROVE  other \in DOMAIN states /\ states[other] = other
      <3>1. CASE other \in back
        <4>1. other = id /\ files[id] = id
          BY <2>3, <3>1
        <4> QED  BY <2>6, <3>1, <4>1
      <3>2. CASE other \notin back
        <4>1. other \in DOMAIN native /\ native[other] = other
          BY <1>3, <2>9, <2>10, <3>2
        <4> QED  BY <2>6, <3>2, <4>1
      <3> QED  BY <3>1, <3>2
    <2>11. /\ from = SubSeq(self.tokens, 1, self.evaluated) /\ self.evaluated \in 0..Len(self.tokens)
           /\ self.next \subseteq {from}
           /\ SubSeq(self.tokens, 1, Reached(self.evaluated)) \in logical
      BY <2>1, <2>5, <2>7, <2>8
    <2>12. logical' = logical
      BY <1>1
    <2>13. ForkHas(s, self, states, from)
      BY <2>6, <2>7, <2>10, <2>11 DEF ForkHas
    <2> QED  BY <1>0, <2>9, <2>12, <2>13, ForkedStep
  <1> QED  BY <1>5, <1>6

\* What activate_prefix restores is as it was, whatever becomes of the request.
LEMMA ActivatedIs ==
    ASSUME MappedInv, Mapped!Unlocked, NEW tokens \in Text, NEW hit, hit = Mapped!LongestPrefix(tokens),
           NEW back, back = Mapped!Restored(hit), NEW states, states = Mapped!Imported(back),
           Mapped!MadeResident(back), UNCHANGED <<logical, spilling>>
    PROVE  /\ StoreOK' /\ Mapped!Activated(hit) \in {Root} \cup logical
           /\ \A h \in DOMAIN native : h \notin logical => states[h] = native[h]
           /\ \A id \in logical : resident'[id] = InMemory(id) => states[id] = id
  <1>1. /\ resident' = [id \in DOMAIN resident |->
                          IF id \in back
                          THEN [native |-> id, spill |-> {}, continuation |-> resident[id].continuation]
                          ELSE resident[id]]
        /\ files' = [id \in DOMAIN files \ back |-> files[id]]
        /\ spill_bytes' = spill_bytes - Mapped!Bytes(back)
    BY DEF Mapped!MadeResident
  <1>2. /\ DOMAIN resident = logical
        /\ \A id \in logical : resident[id] = InMemory(id) => id \in DOMAIN native /\ native[id] = id
    BY InUseNow DEF MappedInv, StoreOK, NativeOK
  <1>3. \A h \in DOMAIN native \cup back : states[h] = IF h \in back THEN files[h] ELSE native[h]
    BY DEF Mapped!Imported
  <1>4. CASE hit = {}
    <2>1. back = {} /\ Mapped!Activated(hit) = Root
      BY <1>4 DEF Mapped!Restored, Mapped!Activated
    <2>2. StoreOK' /\ \A id \in logical : resident'[id] = resident[id]
      BY <1>1, <2>1, RestoreNothing
    <2> QED  BY <1>2, <1>3, <2>1, <2>2
  <1>5. CASE hit # {}
    <2>1. PICK id \in logical : hit = {id}
      BY <1>5, LongestIsOne
    <2>2. /\ resident[id] = OnDisk(id) => back = {id} /\ Mapped!NativeOf(hit) = {} /\ files[id] = id
          /\ resident[id] # OnDisk(id) => back = {} /\ Mapped!NativeOf(hit) = {id}
      BY <2>1, SourceIsExact
    <2>3. Mapped!Activated(hit) = id
      BY <2>1, <2>2 DEF Mapped!Activated, Mapped!OneOf
    <2>4. CASE resident[id] = OnDisk(id)
      <3>1. back = {id} /\ files[id] = id
        BY <2>2, <2>4
      <3>2. StoreOK' /\ \A other \in logical : resident'[other] = IF other = id THEN InMemory(id) ELSE resident[other]
        BY <1>1, <2>4, <3>1, RestoredStore
      <3> QED  BY <1>2, <1>3, <2>3, <3>1, <3>2
    <2>5. CASE resident[id] # OnDisk(id)
      <3>1. back = {}
        BY <2>2, <2>5
      <3>2. StoreOK' /\ \A other \in logical : resident'[other] = resident[other]
        BY <1>1, <3>1, RestoreNothing
      <3> QED  BY <1>2, <1>3, <2>3, <3>1, <3>2
    <2> QED  BY <2>4, <2>5
  <1> QED  BY <1>4, <1>5

LEMMA ForkFailsStep ==
    ASSUME MappedInv, NEW s \in Sessions, Mapped!ForkFails(s) PROVE MappedInv'
  <1> DEFINE self == [Mapped!Unused EXCEPT !.stage = "failed"]
             tokens == session[s].tokens
             hit == Mapped!LongestPrefix(tokens)
             back == Mapped!Restored(hit)
             states == Mapped!Imported(back)
  <1>1. self \in SessionState /\ self.handle = NoHandle /\ self.stage = "failed"
    BY NothingKept DEF Mapped!Unused, SessionState
  <1>2. /\ Mapped!Unlocked /\ session' = [session EXCEPT ![s] = self] /\ active' = Mapped!Activated(hit)
        /\ Mapped!MadeResident(back) /\ UNCHANGED <<logical, spilling>> /\ Mapped!Settle(states)
    BY DEF Mapped!ForkFails
  <1>3. tokens \in Text
    BY SessionNow DEF SessionState
  <1>4. /\ StoreOK' /\ Mapped!Activated(hit) \in {Root} \cup logical
        /\ \A h \in DOMAIN native : h \notin logical => states[h] = native[h]
        /\ \A id \in logical : resident'[id] = InMemory(id) => states[id] = id
    BY <1>2, <1>3, ActivatedIs
  <1> HIDE DEF self, hit, back, states
  <1>5. /\ native[Root] = <<>> /\ Root \in DOMAIN native /\ Root \notin logical
        /\ \A t \in Sessions : t \notin logical /\ (session[t].handle = t => t \in DOMAIN native)
    BY InUseNow, Names DEF MappedInv, StoreOK, NativeOK
  <1>6. NativeOK' /\ \A t \in Sessions : session'[t].handle = t => native'[t] = states[t]
    <2>1. DOMAIN resident' = logical' /\ logical' \subseteq Text
      BY <1>4 DEF StoreOK
    <2>2. states[Root] = <<>> /\ \A id \in logical' : resident'[id] = InMemory(id) => states[id] = id
      BY <1>2, <1>4, <1>5
    <2>3. active' \in {Root} \cup Sessions \cup logical' /\ Reclaimed(states)
      BY <1>2, <1>4, SettleReclaims
    <2> QED  BY <2>1, <2>2, <2>3, Settled
  <1>7. \A t \in Sessions \ {s} : session[t].handle = t => native'[t] = native[t]
    <2>1. \A t \in Sessions : session'[t] = IF t = s THEN self ELSE session[t]
      BY <1>2 DEF MappedInv, SessionsOK
    <2> QED  BY <2>1, <1>4, <1>5, <1>6
  <1>8. SessionsOK'
    <2>1. Exact(s, self, native'[s], logical')
      BY <1>1 DEF Exact
    <2>2. logical \subseteq logical'
      BY <1>2
    <2>3. SessionsOK
      BY DEF MappedInv
    <2> QED  BY <1>1, <1>2, <1>7, <2>1, <2>2, <2>3, SessionsStep
  <1> QED  BY <1>4, <1>6, <1>8 DEF MappedInv

-----------------------------------------------------------------------------
(* spill_inactive_mappings.                                                *)

\* While a spill goes on nothing of the sessions or the native states changes, but
\* what nobody has a handle of any more is reclaimed.
LEMMA UnderSpill ==
    ASSUME MappedInv, StoreOK', UNCHANGED <<session, active, logical>>, Reclaimed(native),
           \A id \in logical : resident'[id] = InMemory(id) => resident[id] = InMemory(id)
    PROVE  MappedInv'
  <1>1. /\ native[Root] = <<>> /\ DOMAIN resident' = logical' /\ logical' \subseteq Text
        /\ active' \in {Root} \cup Sessions \cup logical'
        /\ \A id \in logical' : resident'[id] = InMemory(id) => native[id] = id
    BY DEF MappedInv, StoreOK, NativeOK
  <1>2. NativeOK' /\ \A t \in Sessions : session'[t].handle = t => native'[t] = native[t]
    BY <1>1, Settled
  <1>3. ASSUME NEW t \in Sessions PROVE Exact(t, session[t], native'[t], logical)
    <2>1. Exact(t, session[t], native[t], logical) /\ (session[t].handle = t => native'[t] = native[t])
      BY <1>2 DEF MappedInv, SessionsOK
    <2> QED  BY <2>1 DEF Exact
  <1>4. SessionsOK'
    BY <1>3 DEF MappedInv, SessionsOK, Exact
  <1> QED  BY <1>2, <1>4 DEF MappedInv

LEMMA NativeKept ==
    ASSUME MappedInv, UNCHANGED <<session, native, active, resident>> PROVE Reclaimed(native)
  <1>1. Mapped!InUse' = Mapped!InUse
    BY DEF Mapped!InUse
  <1> QED  BY <1>1 DEF Reclaimed, MappedInv, NativeOK

\* Begin, skip and fail: the resident mappings stay, and no file of a spilled one
\* is lost.
LEMMA SpillKeepsStep ==
    ASSUME MappedInv,
           Mapped!SpillBegin \/ \E id \in spilling : Mapped!SpillSkip(id) \/ Mapped!SpillFails(id)
    PROVE  MappedInv'
  <1>1. UNCHANGED <<session, native, active, logical, resident, spill_bytes>>
    BY DEF Mapped!SpillBegin, Mapped!SpillSkip, Mapped!SpillFails
  <1>2. \A id \in logical : resident[id] = OnDisk(id) => id \in DOMAIN files' /\ files'[id] = id
    <2>1. \A id \in logical : resident[id] = OnDisk(id) => id \in DOMAIN files /\ files[id] = id
      BY DEF MappedInv, StoreOK
    <2>2. CASE UNCHANGED files
      BY <2>1, <2>2
    <2>3. ASSUME NEW id \in spilling, files' = Mapped!Added(files, id, native[resident[id].native])
          PROVE  \A other \in logical : resident[other] = OnDisk(other) => other \in DOMAIN files' /\ files'[other] = other
      <3>1. id \in logical /\ resident[id] = InMemory(id) /\ id \in Text
        BY DEF MappedInv, StoreOK
      <3>2. resident[id] # OnDisk(id)
        BY <3>1, Shapes
      <3> QED  BY <2>1, <2>3, <3>2 DEF Mapped!Added
    <2> QED  BY <2>2, <2>3 DEF Mapped!SpillBegin, Mapped!SpillSkip, Mapped!SpillFails
  <1>3. \A id \in spilling' : id \in logical /\ resident[id] = InMemory(id)
    <2>1. /\ \A id \in spilling : id \in logical /\ resident[id] = InMemory(id)
          /\ DOMAIN resident = logical /\ \A id \in logical : resident[id] \in {InMemory(id), OnDisk(id)}
      BY DEF MappedInv, StoreOK
    <2>2. \A id \in Mapped!SpillCandidates : id \in logical /\ resident[id] = InMemory(id)
      BY <2>1, Shapes DEF Mapped!SpillCandidates, OnDisk
    <2>3. spilling' \subseteq spilling \/ spilling' = Mapped!SpillCandidates
      BY DEF Mapped!SpillBegin, Mapped!SpillSkip, Mapped!SpillFails
    <2> QED  BY <2>1, <2>2, <2>3
  <1>4. Mapped!SpillAccounted'
    BY <1>1 DEF MappedInv, StoreOK, Mapped!SpillAccounted
  <1>5. StoreOK'
    BY <1>1, <1>2, <1>3, <1>4 DEF MappedInv, StoreOK, Blocks, InMemory, OnDisk
  <1> QED  BY <1>1, <1>5, NativeKept, UnderSpill

LEMMA SpillOneStep ==
    ASSUME MappedInv, NEW id \in spilling, Mapped!SpillOne(id) PROVE MappedInv'
  <1> DEFINE spilled == {other \in DOMAIN resident : resident[other].spill # {}}
  <1>1. /\ logical \subseteq Text /\ IsFiniteSet(logical) /\ DOMAIN resident = logical /\ Blocks
        /\ \A other \in logical : resident[other] \in {InMemory(other), OnDisk(other)}
        /\ \A other \in logical : resident[other] = OnDisk(other) => other \in DOMAIN files /\ files[other] = other
        /\ \A other \in spilling : other \in logical /\ resident[other] = InMemory(other)
        /\ Mapped!SpillAccounted
        /\ id \in logical /\ resident[id] = InMemory(id) /\ native[id] = id
    BY DEF MappedInv, StoreOK, NativeOK
  <1>2. id \in Text /\ Len(id) \in Nat /\ InMemory(id).native = id /\ InMemory(id).continuation = id
    BY <1>1, Shapes, WholeSequence
  <1>3. /\ files' = Mapped!Added(files, id, id) /\ spill_bytes' = spill_bytes + Len(id)
        /\ spill_bytes + Len(id) <= SpillCapacity /\ spilling' = spilling \ {id}
        /\ UNCHANGED <<session, active, logical>> /\ Mapped!Settle(native)
        /\ resident' = [resident EXCEPT ![id] = OnDisk(id)]
    BY <1>1, <1>2 DEF Mapped!SpillOne, Mapped!Fits, OnDisk
  <1>4. /\ DOMAIN resident' = logical
        /\ \A other \in logical : resident'[other] = IF other = id THEN OnDisk(id) ELSE resident[other]
    BY <1>1, <1>3
  <1>5. /\ \A other \in logical : resident'[other] \in {InMemory(other), OnDisk(other)}
        /\ \A other \in logical : resident'[other] = OnDisk(other) => other \in DOMAIN files' /\ files'[other] = other
        /\ \A other \in spilling' : other \in logical /\ resident'[other] = InMemory(other)
    BY <1>1, <1>3, <1>4 DEF Mapped!Added
  <1>6. {other \in DOMAIN resident' : resident'[other].spill # {}} = spilled \cup {id}
    <2>1. resident'[id].spill # {}
      BY <1>1, <1>2, <1>4, Shapes
    <2>2. \A other \in logical : resident'[other].spill # {} <=> other \in spilled \cup {id}
      BY <1>1, <1>4, <2>1
    <2> QED  BY <1>1, <1>4, <2>2
  <1>7. spilled \in SUBSET Text /\ IsFiniteSet(spilled) /\ id \notin spilled
    <2>1. spilled \subseteq logical
      BY <1>1
    <2>2. id \notin spilled
      BY <1>1, <1>2, Shapes
    <2> QED  BY <1>1, <2>1, <2>2, FS_Subset
  <1>8. Mapped!SpillAccounted'
    <2>1. spill_bytes = Mapped!Bytes(spilled)
      BY <1>1 DEF Mapped!SpillAccounted
    <2> HIDE DEF spilled
    <2>2. Mapped!Bytes(spilled \cup {id}) = Mapped!Bytes(spilled) + Len(id)
      BY <1>2, <1>7, BytesChange
    <2>3. spill_bytes' = Mapped!Bytes(spilled \cup {id}) /\ spill_bytes' <= SpillCapacity
      BY <1>3, <2>1, <2>2
    <2> QED  BY <1>6, <2>3 DEF Mapped!SpillAccounted
  <1>9. Blocks'
    BY <1>1, <1>3 DEF Blocks
  <1>10. StoreOK'
    BY <1>1, <1>3, <1>4, <1>5, <1>8, <1>9 DEF StoreOK, InMemory, OnDisk
  <1>11. \A other \in logical : resident'[other] = InMemory(other) => resident[other] = InMemory(other)
    BY <1>1, <1>4
  <1> QED  BY <1>3, <1>10, <1>11, SettleReclaims, UnderSpill

-----------------------------------------------------------------------------
(* Every step, and the theorems.                                           *)

LEMMA MappedInit == ASSUME Mapped!Init PROVE MappedInv
  <1>1. /\ session = [s \in Sessions |-> Mapped!Unused] /\ native = [h \in {Root} |-> <<>>] /\ active = Root
        /\ logical = {} /\ DOMAIN resident = {} /\ spill_bytes = 0 /\ spilling = {}
    BY DEF Mapped!Init
  <1>2. SessionsOK
    <2>1. session \in [Sessions -> SessionState]
      BY <1>1, NothingKept
    <2>2. Mapped!Unused.handle = NoHandle /\ Mapped!Unused.stage = "none"
      BY DEF Mapped!Unused
    <2> QED  BY <1>1, <2>1, <2>2 DEF SessionsOK, Exact
  <1>3. Mapped!SpillAccounted
    <2>1. {id \in DOMAIN resident : resident[id].spill # {}} = {}
      BY <1>1
    <2>2. Mapped!Bytes({}) = 0
      <3>1. <<>> \in Text
        BY DEF Text
      <3> QED  BY <3>1, FS_EmptySet, BytesChange
    <2> QED  BY <1>1, <2>1, <2>2, EngineNumbers DEF Mapped!SpillAccounted
  <1>4. StoreOK
    BY <1>1, <1>3, FS_EmptySet DEF StoreOK, Blocks
  <1>5. Mapped!InUse = {Root}
    <2>1. \A s \in Sessions : session[s].handle = NoHandle
      BY <1>1 DEF Mapped!Unused
    <2> QED  BY <1>1, <2>1, Names DEF Mapped!InUse
  <1>6. NativeOK
    BY <1>1, <1>5 DEF NativeOK
  <1> QED  BY <1>2, <1>4, <1>6 DEF MappedInv

LEMMA MappedStays == ASSUME MappedInv, UNCHANGED mappedVars PROVE MappedInv'
  <1>1. /\ session' = session /\ native' = native /\ active' = active /\ logical' = logical
        /\ resident' = resident /\ files' = files /\ spill_bytes' = spill_bytes /\ spilling' = spilling
    BY DEF mappedVars
  <1>2. SessionsOK'
    BY <1>1 DEF MappedInv, SessionsOK, Exact
  <1>3. StoreOK'
    BY <1>1, StoreUntouched DEF MappedInv
  <1>4. Mapped!InUse' = Mapped!InUse
    BY <1>1 DEF Mapped!InUse
  <1>5. NativeOK'
    BY <1>1, <1>4 DEF MappedInv, NativeOK, InMemory
  <1> QED  BY <1>2, <1>3, <1>5 DEF MappedInv

LEMMA MappedNext == ASSUME MappedInv, Mapped!Next PROVE MappedInv'
  <1>1. CASE \E s \in Sessions, prompt \in Prompts, max \in MaxTokens : Mapped!StartSession(s, prompt, max)
    BY <1>1, StartSessionStep
  <1>2. ASSUME NEW s \in Sessions, Mapped!Quantum(s) PROVE MappedInv'
    <2>1. CASE Mapped!Prepare(s)
      BY <2>1, PrepareSessionStep
    <2>2. CASE Mapped!Prefill(s) \/ \E token \in Sampled : Mapped!DecodeToken(s, token)
      BY <2>2, EvaluateStep
    <2>3. CASE Mapped!PrefillDone(s)
      BY <2>3, PrefillDoneStep
    <2>4. CASE \E token \in Sampled, terminal \in BOOLEAN : Mapped!DecodeLast(s, token, terminal)
      BY <2>4, DecodeLastStep
    <2>5. CASE Mapped!Complete(s)
      BY <2>5, PublishStep
    <2> QED  BY <1>2, <2>1, <2>2, <2>3, <2>4, <2>5 DEF Mapped!Quantum
  <1>3. ASSUME NEW s \in Sessions, Mapped!QuantumError(s) PROVE MappedInv'
    BY <1>3, PrepareFailsStep, ForkFailsStep, QuantumFailsStep DEF Mapped!QuantumError
  <1>4. ASSUME NEW s \in Sessions, Mapped!Finish(s) \/ Mapped!DropSession(s) PROVE MappedInv'
    BY <1>4, PublishStep
  <1>5. CASE Mapped!Spill
    BY <1>5, SpillKeepsStep, SpillOneStep DEF Mapped!Spill
  <1> QED  BY <1>1, <1>2, <1>3, <1>4, <1>5 DEF Mapped!Next

\* Whatever the executor, the mapped engine and the physical manager do: sessions
\* evaluate their own tokens on a native mapping of their own, and what is published
\* is resident or on disk (MappedEngine's sessions, ResidentMapping and spill).
THEOREM EngineInvariant == EngineSpec => []MappedInv
  <1>1. EngineInit => MappedInv
    BY MappedInit DEF EngineInit
  <1>2. MappedInv /\ [EngineNext]_engineVars => MappedInv'
    <2> SUFFICES ASSUME MappedInv, [EngineNext]_engineVars PROVE MappedInv'
      OBVIOUS
    <2>1. CASE MappedStep
      BY <2>1, MappedNext DEF MappedStep
    <2>2. CASE NativeStep \/ PhysicalStep
      BY <2>2, MappedStays DEF NativeStep, PhysicalStep
    <2>3. CASE UNCHANGED engineVars
      BY <2>3, MappedStays DEF engineVars
    <2> QED  BY <2>1, <2>2, <2>3 DEF EngineNext
  <1> QED  BY <1>1, <1>2, PTL DEF EngineSpec

\* Between two quanta of a session other sessions decode on the same executor and
\* spills demote mappings: activate_owned and the fork prepare made still leave it
\* exactly the tokens it has evaluated, and logits that continue those.
THEOREM ContinuesExactly == EngineSpec => []ExactContinuation
  <1>1. MappedInv => ExactContinuation
    BY DEF MappedInv, SessionsOK, Exact, ExactContinuation, Mapped!ExactContinuation
  <1> QED  BY <1>1, EngineInvariant, PTL

\* publish_block, spill_inactive_mappings and the import of activate_prefix: what the
\* store gives out has a native mapping or a file of exactly its tokens, its shorter
\* blocks are there as well, and spill_bytes is what the files of spilled ones take.
THEOREM AlwaysRestorable == EngineSpec => []MappingsRestorable
  <1>1. MappedInv => MappingsRestorable
    <2> SUFFICES ASSUME MappedInv PROVE MappingsRestorable
      OBVIOUS
    <2>1. Mapped!SpillAccounted
      BY DEF MappedInv, StoreOK
    <2>2. Mapped!LineagePublished
      BY DEF MappedInv, StoreOK, Blocks, Mapped!LineagePublished
    <2>3. ASSUME NEW id \in logical
          PROVE  /\ resident[id].continuation = id
                 /\ resident[id].native # NoHandle => native[resident[id].native] = id
                 /\ resident[id].native = NoHandle <=> resident[id].spill # {}
                 /\ resident[id].spill # {} => id \in DOMAIN files /\ files[id] = id
      <3>1. /\ id \in Text /\ resident[id] \in {InMemory(id), OnDisk(id)}
            /\ resident[id] = InMemory(id) => native[id] = id
            /\ resident[id] = OnDisk(id) => id \in DOMAIN files /\ files[id] = id
        BY DEF MappedInv, StoreOK, NativeOK
      <3>2. CASE resident[id] = InMemory(id)
        BY <3>1, <3>2, Shapes
      <3>3. CASE resident[id] = OnDisk(id)
        <4>1. resident[id].native = NoHandle /\ resident[id].spill = {Len(id)} /\ resident[id].continuation = id
          BY <3>1, <3>3, Shapes
        <4>2. {Len(id)} # {}
          OBVIOUS
        <4> QED  BY <3>1, <3>3, <4>1, <4>2
      <3> QED  BY <3>1, <3>2, <3>3
    <2>4. Mapped!MappingsRestorable
      BY <2>3 DEF Mapped!MappingsRestorable, MappedInv, StoreOK
    <2> QED  BY <2>1, <2>2, <2>4 DEF MappingsRestorable
  <1> QED  BY <1>1, EngineInvariant, PTL

=============================================================================
