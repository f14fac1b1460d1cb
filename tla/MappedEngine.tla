---------------------------- MODULE MappedEngine ----------------------------
(***************************************************************************)
(* MappedEngine of crates/server/src/mapped.rs: sessions that prefill and  *)
(* decode in quanta over one executor, publish every completed block of    *)
(* tokens as a mapping others can start from, and a spill that moves       *)
(* mappings nobody executes to files and back.                             *)
(*                                                                         *)
(* Every quantum, the end of a session and the whole of a spill hold the   *)
(* lock of MappedState.  The executor is the one module NativeMappings     *)
(* promises.  A logical mapping is named by its tokens: blocks are         *)
(* published in order, so the lineage of a mapping is all its shorter      *)
(* blocks (module ContextStore has the store itself, of which the engine   *)
(* never releases a mapping).  Whether the physical manager finds room is  *)
(* an open choice.  Logits are the tokens they continue.  A native mapping *)
(* is named by who made it: a session, or the logical mapping it is for.   *)
(***************************************************************************)
EXTENDS Integers, Sequences, FiniteSets, SequencesExt, FiniteSetsExt

CONSTANTS
    Sessions,       \* sessions at a time
    Prompts,        \* prompts with the prior tokens in front
    Token,          \* tokens the model may sample
    MaxTokens,      \* max_tokens a request may ask for
    BlockSize,      \* ExecutionProfile::block_size
    Chunk,          \* prefill_chunk_tokens
    SpillCapacity,  \* spill_capacity, in tokens
    Root,           \* the executor's root mapping
    NoHandle,       \* no native mapping
    Garbled         \* the state an interrupted decode leaves

\* Tokens of prompts and of answers
Words == Token \cup UNION {{prompt[i] : i \in DOMAIN prompt} : prompt \in Prompts}

\* what a module that instantiates this one assumes of the constants: sessions, the
\* root and the sequences that name mappings are told apart
EngineAssumption ==
    /\ BlockSize \in Nat \ {0} /\ Chunk \in Nat \ {0}
    /\ SpillCapacity \in Nat
    /\ MaxTokens \subseteq Nat
    /\ Prompts \subseteq Seq(Words) /\ Garbled \notin Seq(Words)
    /\ \A h \in Sessions \cup {Root, NoHandle} : h \notin Seq(Words)
    /\ Root \notin Sessions /\ NoHandle \notin Sessions \cup {Root}

VARIABLES
    session,      \* MappedSession of each slot
    native,       \* executor: state of each native mapping in use
    active,       \* executor: the active handle
    logical,      \* mappings the context store has
    resident,     \* ResidentMapping by mapping
    files,        \* *.seq files of the spill directory
    spill_bytes,  \* MappedState::spill_bytes
    spilling      \* candidates a spill has not come to yet; it holds the lock

vars == <<session, native, active, logical, resident, files, spill_bytes, spilling>>

\* A slot without a session, or with one that has ended
Unused == [stage |-> "none", tokens |-> <<>>, evaluated |-> 0, generated |-> 0, max |-> 0,
           handle |-> NoHandle, parent |-> {}, next |-> {}]

Unlocked == spilling = {}

\* Handles somebody owns; the executor reclaims the others
InUse == ({Root, active} \cup {session[s].handle : s \in Sessions}
                         \cup {resident[id].native : id \in DOMAIN resident}) \ {NoHandle}

\* The native states once unowned ones are reclaimed
Settle(states) == native' = [h \in InUse' |-> states[h]]

\* What the files of spilled mappings take
Bytes(ids) == LET size == [id \in ids |-> Len(id)] IN MapThenSumSet(LAMBDA id : size[id], ids)

\* A session whose quantum failed is only dropped any more
Failed(self) == [Unused EXCEPT !.stage = "failed", !.handle = self.handle, !.parent = self.parent]

\* The resident native mapping of a session's parent, if there is one
NativeOf(parent) == {resident[id].native : id \in parent \cap DOMAIN resident} \ {NoHandle}

\* A table with one more entry, or another one
Added(f, new, v) == [h \in DOMAIN f \cup {new} |-> IF h = new THEN v ELSE f[h]]

OneOf(set, default) == IF set = {} THEN default ELSE CHOOSE x \in set : TRUE

-----------------------------------------------------------------------------
(* start_session and the Preparation quantum.                              *)

StartSession(s, prompt, max) ==
    /\ session[s].stage = "none"
    /\ session' = [session EXCEPT ![s] =
                     [Unused EXCEPT !.stage = "preparation", !.tokens = prompt, !.max = max]]
    /\ UNCHANGED <<native, active, logical, resident, files, spill_bytes, spilling>>

\* The mapping longest_valid_prefix finds
LongestPrefix(tokens) ==
    LET found == {id \in logical : IsPrefix(id, tokens)}
    IN  {id \in found : \A other \in found : Len(other) <= Len(id)}

\* activate_prefix: spilled mappings are imported from their file and are
\* resident again, others are only activated
Restored(hit) == {id \in hit : resident[id].native = NoHandle}

\* What activate_prefix imported is resident, and its file is gone
MadeResident(back) ==
    /\ resident' = [id \in DOMAIN resident |->
                      IF id \in back
                      THEN [native |-> id, spill |-> {}, continuation |-> resident[id].continuation]
                      ELSE resident[id]]
    /\ files' = [id \in DOMAIN files \ back |-> files[id]]
    /\ spill_bytes' = spill_bytes - Bytes(back)

Imported(back) == [h \in DOMAIN native \cup back |-> IF h \in back THEN files[h] ELSE native[h]]

\* What activate_prefix made active
Activated(hit) == IF hit = {} THEN Root ELSE OneOf(Restored(hit) \cup NativeOf(hit), Root)

\* prepare: the request gets a fork of what activate_prefix activated
Prepare(s) ==
    LET hit    == LongestPrefix(session[s].tokens)
        source == OneOf(hit, Root)
        states == Imported(Restored(hit))
    IN  /\ Unlocked
        /\ session[s].stage = "preparation"
        /\ session' = [session EXCEPT ![s] =
                         [@ EXCEPT !.stage = "prefill", !.handle = s, !.parent = hit,
                                   !.evaluated = IF hit = {} THEN 0 ELSE Len(source),
                                   !.next = {resident[id].continuation : id \in hit}]]
        /\ active' = s
        /\ MadeResident(Restored(hit))
        /\ UNCHANGED <<logical, spilling>>
        /\ Settle(Added(states, s, states[Activated(hit)]))

\* prepare that is cancelled, refused, or finds no room to activate
PrepareFails(s) ==
    /\ Unlocked
    /\ session[s].stage = "preparation"
    /\ session' = [session EXCEPT ![s] = [Unused EXCEPT !.stage = "failed"]]
    /\ active' \in {active, Root} \cup NativeOf(LongestPrefix(session[s].tokens))
    /\ UNCHANGED <<logical, resident, files, spill_bytes, spilling>>
    /\ Settle(native)

\* prepare that fails to fork what it activated, and may have restored
ForkFails(s) ==
    LET hit == LongestPrefix(session[s].tokens)
    IN  /\ Unlocked
        /\ session[s].stage = "preparation"
        /\ session' = [session EXCEPT ![s] = [Unused EXCEPT !.stage = "failed"]]
        /\ active' = Activated(hit)
        /\ MadeResident(Restored(hit))
        /\ UNCHANGED <<logical, spilling>>
        /\ Settle(Imported(Restored(hit)))

-----------------------------------------------------------------------------
(* publish_block.                                                          *)

\* A slip: the mapping is published with the session's own native mapping.
SnapshotIsOwn(own, copy) == own

\* snapshot_active_mapping
Snapshot(own, copy) == copy

\* A mapping that is resident already, spilled or not, stays as it is
PublishedAs(id, h, next) ==
    IF id \in DOMAIN resident THEN resident
    ELSE Added(resident, id, [native |-> h, spill |-> {}, continuation |-> next])

\* The native states with the snapshot of h for it, which is dropped when there is
\* one already
Saved(states, id, h) == IF id \in DOMAIN states THEN states ELSE Added(states, id, states[h])

\* After a decode: the session has `self` with its native states, and publishes
\* what it has evaluated when that completes a block
Advance(s, self, states) ==
    LET id   == SubSeq(self.tokens, 1, self.evaluated)
        kept == Snapshot(self.handle, id)
    IN  /\ active' = self.handle
        /\ IF self.evaluated % BlockSize # 0
           THEN /\ session' = [session EXCEPT ![s] = self]
                /\ UNCHANGED <<logical, resident>>
                /\ Settle(states)
           ELSE /\ session' = [session EXCEPT ![s] = [self EXCEPT !.parent = {id}]]
                /\ logical' = logical \cup {id}
                /\ resident' = PublishedAs(id, kept, OneOf(self.next, <<>>))
                /\ Settle(Saved(states, id, self.handle))
        /\ UNCHANGED <<files, spill_bytes, spilling>>

\* publish_block refused: the parent's mapping is active again, or still the
\* session's own
PublishFails(s, self, states) ==
    /\ self.evaluated % BlockSize = 0
    /\ session' = [session EXCEPT ![s] = Failed(self)]
    /\ active' \in {self.handle} \cup NativeOf(self.parent)
    /\ UNCHANGED <<logical, resident, files, spill_bytes, spilling>>
    /\ Settle(states)

-----------------------------------------------------------------------------
(* The Prefill and Decode quanta.                                          *)

\* A slip: the decode extends whatever mapping is active.
DecodeActive(h) == active

\* activate_owned: the decode extends the session's own mapping
Owned(h) == h

Extended(state, tokens) == IF state = Garbled THEN Garbled ELSE state \o tokens

\* The native states when the executor decodes tokens for the session
Decoded(s, tokens) ==
    LET h == Owned(session[s].handle)
    IN  [native EXCEPT ![h] = Extended(native[h], tokens)]

\* A slip: the end of the last completed block, not of the next one.
PrefillEndOfLastBlock(s) ==
    Min({Len(session[s].tokens),
         Max({session[s].evaluated, (session[s].evaluated \div BlockSize) * BlockSize}),
         session[s].evaluated + Chunk})

\* Where the next prefill quantum ends
PrefillEnd(s) ==
    Min({Len(session[s].tokens),
         (session[s].evaluated \div BlockSize + 1) * BlockSize,
         session[s].evaluated + Chunk})

\* prefill: a chunk, up to the end of a block
Prefill(s) ==
    LET tokens == SubSeq(session[s].tokens, session[s].evaluated + 1, PrefillEnd(s))
        states == Decoded(s, tokens)
        self   == [session[s] EXCEPT !.evaluated = PrefillEnd(s),
                                     !.next = {states[Owned(session[s].handle)]}]
    IN  /\ Unlocked
        /\ session[s].stage = "prefill"
        /\ session[s].evaluated < Len(session[s].tokens)
        /\ Advance(s, self, states) \/ PublishFails(s, self, states)

\* prefill when all of the prompt is evaluated
PrefillDone(s) ==
    /\ Unlocked
    /\ session[s].stage = "prefill"
    /\ session[s].evaluated >= Len(session[s].tokens)
    /\ session' = [session EXCEPT ![s] =
                     IF @.max > 0 /\ @.next = {} THEN Failed(@) ELSE [@ EXCEPT !.stage = "decode"]]
    /\ UNCHANGED <<native, active, logical, resident, files, spill_bytes, spilling>>

\* decode: the last token, which ends the request, is not evaluated
DecodeLast(s, token, terminal) ==
    /\ Unlocked
    /\ session[s].stage = "decode"
    /\ session[s].generated < session[s].max
    /\ terminal \/ session[s].generated + 1 = session[s].max
    /\ session' = [session EXCEPT ![s].tokens = Append(@, token), ![s].generated = @ + 1,
                                  ![s].stage = "publication"]
    /\ active' = session[s].handle
    /\ UNCHANGED <<logical, resident, files, spill_bytes, spilling>>
    /\ Settle(native)

\* decode: any other token is
DecodeToken(s, token) ==
    LET states == Decoded(s, <<token>>)
        self   == [session[s] EXCEPT !.tokens = Append(@, token), !.generated = @ + 1,
                                     !.evaluated = @ + 1,
                                     !.next = {states[Owned(session[s].handle)]}]
    IN  /\ Unlocked
        /\ session[s].stage = "decode"
        /\ session[s].generated + 1 < session[s].max
        /\ Advance(s, self, states) \/ PublishFails(s, self, states)

\* prefill or decode that is cancelled before, inside or after the native decode
QuantumFails(s) ==
    /\ Unlocked
    /\ session[s].stage \in {"prefill", "decode"}
    /\ session' = [session EXCEPT ![s] = Failed(@)]
    /\ active' = session[s].handle
    /\ UNCHANGED <<logical, resident, files, spill_bytes, spilling>>
    /\ Settle([native EXCEPT ![session[s].handle] = Garbled]) \/ Settle(native)

-----------------------------------------------------------------------------
(* The end of a session.                                                   *)

\* publish
Publish(s) ==
    LET h == session[s].handle IN
    /\ Unlocked
    /\ session' = [session EXCEPT ![s] = Unused]
    /\ active' = IF h = NoHandle THEN active ELSE OneOf(NativeOf(session[s].parent), active)
    /\ UNCHANGED <<logical, resident, files, spill_bytes, spilling>>
    /\ Settle(native)

\* step in the Publication stage, or with nothing left to generate
Complete(s) ==
    /\ \/ session[s].stage = "publication"
       \/ session[s].stage = "decode" /\ session[s].generated >= session[s].max
    /\ Publish(s)

\* finish: the caller stops the generation early
Finish(s) ==
    /\ session[s].stage \in {"preparation", "prefill", "decode"}
    /\ Publish(s)

\* MappedSession::drop; its activation may fail unnoticed
DropSession(s) ==
    LET h == session[s].handle IN
    /\ Unlocked
    /\ session[s].stage # "none"
    /\ session' = [session EXCEPT ![s] = Unused]
    /\ active' \in IF h = NoHandle THEN {active}
                   ELSE {active, OneOf(NativeOf(session[s].parent), Root)}
    /\ UNCHANGED <<logical, resident, files, spill_bytes, spilling>>
    /\ Settle(native)

-----------------------------------------------------------------------------
(* spill_inactive_mappings.                                                *)

\* The resident mappings that are not active
SpillCandidates == {id \in DOMAIN resident : resident[id].native \notin {NoHandle, active}}

SpillBegin ==
    /\ Unlocked
    /\ SpillCandidates # {}
    /\ spilling' = SpillCandidates
    /\ UNCHANGED <<session, native, active, logical, resident, files, spill_bytes>>

Fits(bytes) == spill_bytes + bytes <= SpillCapacity

\* The next candidate in the order of the hash map: no room for it
SpillSkip(id) ==
    /\ id \in spilling
    /\ ~Fits(Len(id))
    /\ spilling' = spilling \ {id}
    /\ UNCHANGED <<session, native, active, logical, resident, files, spill_bytes>>

\* ... or written, renamed, demoted and recorded
SpillOne(id) ==
    /\ id \in spilling
    /\ Fits(Len(id))
    /\ files' = Added(files, id, native[resident[id].native])
    /\ resident' = [resident EXCEPT ![id] =
                      [native |-> NoHandle, spill |-> {Len(id)}, continuation |-> @.continuation]]
    /\ spill_bytes' = spill_bytes + Len(id)
    /\ spilling' = spilling \ {id}
    /\ UNCHANGED <<session, active, logical>>
    /\ Settle(native)

\* ... or the spill ends with an error, with the file written or not
SpillFails(id) ==
    /\ id \in spilling
    /\ files' \in {files, Added(files, id, native[resident[id].native])}
    /\ spilling' = {}
    /\ UNCHANGED <<session, native, active, logical, resident, spill_bytes>>

-----------------------------------------------------------------------------
\* open_at_epoch_with_spill: what an earlier process left in the spill directory
\* is removed
Init ==
    /\ session = [s \in Sessions |-> Unused]
    /\ native = [h \in {Root} |-> <<>>]
    /\ active = Root
    /\ logical = {}
    /\ resident = <<>>
    /\ files = <<>>
    /\ spill_bytes = 0
    /\ spilling = {}

\* ExecutionSession::step that returns no error
Quantum(s) ==
    \/ Prepare(s)
    \/ Prefill(s)
    \/ PrefillDone(s)
    \/ \E token \in Token : DecodeToken(s, token)
    \/ \E token \in Token, terminal \in BOOLEAN : DecodeLast(s, token, terminal)
    \/ Complete(s)

\* ... or does
QuantumError(s) == PrepareFails(s) \/ ForkFails(s) \/ QuantumFails(s)

Spill ==
    \/ SpillBegin
    \/ \E id \in spilling : SpillSkip(id) \/ SpillOne(id) \/ SpillFails(id)

Next ==
    \/ \E s \in Sessions, prompt \in Prompts, max \in MaxTokens : StartSession(s, prompt, max)
    \/ \E s \in Sessions : Quantum(s) \/ QuantumError(s) \/ Finish(s) \/ DropSession(s)
    \/ Spill

Spec == Init /\ [][Next]_vars

\* The scheduler steps every session it has and drops one whose step failed; a
\* spill goes on while it has the lock, and the mutex (parking_lot) is eventually
\* fair
Fairness ==
    /\ \A s \in Sessions :
          SF_vars(Quantum(s) \/ (session[s].stage = "failed" /\ DropSession(s)))
    /\ WF_vars(\E id \in spilling : SpillSkip(id) \/ SpillOne(id) \/ SpillFails(id))

-----------------------------------------------------------------------------
(* Properties.                                                             *)

\* "exact continuation": whatever other sessions and spills do between two quanta
\* of a session, its native mapping has exactly the tokens it has evaluated, and
\* the logits it samples from continue exactly those.
ExactContinuation ==
    \A s \in Sessions : session[s].stage \in {"prefill", "decode"} =>
        LET evaluated == SubSeq(session[s].tokens, 1, session[s].evaluated) IN
        /\ native[session[s].handle] = evaluated
        /\ session[s].next \subseteq {evaluated}
        /\ session[s].stage = "decode" /\ session[s].max > 0 => session[s].next # {}

\* Every mapping the store may find for a request can be activated exactly: it
\* has either a native mapping or a spill file, of exactly its tokens, and the
\* logits that continue them.
MappingsRestorable ==
    /\ logical = DOMAIN resident
    /\ \A id \in logical :
          /\ resident[id].continuation = id
          /\ resident[id].native # NoHandle => native[resident[id].native] = id
          /\ resident[id].native = NoHandle <=> resident[id].spill # {}
          /\ resident[id].spill # {} => id \in DOMAIN files /\ files[id] = id

\* A lookup finds a mapping's parent as well: no mapping is published before the
\* shorter blocks it continues.
LineagePublished ==
    \A id \in logical : Len(id) > BlockSize => SubSeq(id, 1, Len(id) - BlockSize) \in logical

\* The bytes counted against spill_capacity are those of the spilled mappings, and
\* never more than the capacity.
SpillAccounted ==
    /\ spill_bytes = Bytes({id \in DOMAIN resident : resident[id].spill # {}})
    /\ spill_bytes <= SpillCapacity

\* A session that is started ends, whatever mappings are spilled under it.
SessionEnds ==
    \A s \in Sessions :
        session[s].stage = "preparation" ~> session[s].stage = "none"

=============================================================================
