---------------------------- MODULE ContextStore ----------------------------
(***************************************************************************)
(* ContextStore of crates/context-store/src/lib.rs: logical contexts, the  *)
(* evaluated prefixes ("mappings") published for them, who refers to each  *)
(* mapping, and publications prepared against one state of a context and   *)
(* committed against a later one.                                          *)
(*                                                                         *)
(* A token sequence is a plain one (module TokenSequence shows that the    *)
(* chunked ones are).  SHA-256 is taken to be injective, so the identity   *)
(* of a mapping is what mapping_id and dependency_hash hash: its epoch     *)
(* (model and adapter as one), its tokens, and where it and each of its    *)
(* ancestors end.  Components and evaluation parameters that are the same  *)
(* for every mapping are left out of it.                                   *)
(***************************************************************************)
EXTENDS Integers, Sequences, FiniteSets, SequencesExt, FiniteSetsExt

CONSTANTS
    Components,   \* complete_components against the required: "missing", "required", "all"
    Epoch,        \* pairs of a model and an adapter epoch
    Token,        \* tokens
    MaxLen,       \* bound: tokens of a context
    MaxContexts,  \* bound: contexts ever created
    MaxRevision,  \* bound: revisions of a context
    MaxPrepared   \* bound: prepared publications outstanding

\* what this module, and one that instantiates it, assumes of the constants
StoreAssumption ==
    /\ {MaxLen, MaxContexts, MaxRevision, MaxPrepared} \subseteq Nat
    /\ Components \subseteq {"missing", "required", "all"}

ASSUME StoreBounds == StoreAssumption

VARIABLES
    next_context,  \* next LogicalContextId
    contexts,      \* logical contexts by id
    mappings,      \* stored mappings: components and ReferenceCounts by id
    prefix_index,  \* ids in the index that longest_valid_prefix searches
    publications,  \* PreparedPublications that callers hold
    panicked       \* commit_publication panicked

storeVars == <<next_context, contexts, mappings, prefix_index, publications, panicked>>

-----------------------------------------------------------------------------
(* Identities.                                                             *)

MappingId(epoch, tokens, ends) == [epoch |-> epoch, tokens |-> tokens, ends |-> ends]

RepresentedEnd(id) == Max(id.ends)

HasParent(id) == Cardinality(id.ends) > 1

\* The ancestor of a mapping that ends where its k-th shortest ancestor does
Lineage(id) ==
    {MappingId(id.epoch, SubSeq(id.tokens, 1, e), {f \in id.ends : f <= e}) : e \in id.ends}

Parent(id) == LET ends == id.ends \ {RepresentedEnd(id)}
              IN  MappingId(id.epoch, SubSeq(id.tokens, 1, Max(ends)), ends)

\* mapping_valid_for_context
ValidForContext(id, context) ==
    /\ id.epoch = context.epoch
    /\ RepresentedEnd(id) <= Len(context.tokens)
    /\ SubSeq(context.tokens, 1, RepresentedEnd(id)) = id.tokens
    /\ Lineage(id) \subseteq DOMAIN mappings

\* longest_valid_prefix: the ids it may return (min_by_key picks one of equal
\* length by hash), none when it returns None
LongestValidPrefix(c) ==
    LET valid == {id \in prefix_index \cap DOMAIN mappings : ValidForContext(id, contexts[c])}
    IN  {id \in valid : \A other \in valid : RepresentedEnd(other) <= RepresentedEnd(id)}

-----------------------------------------------------------------------------
(* Reference counting, on a table m of mappings.                           *)

\* reclaim: from id towards the root, what its loop removes
Reclaimed(m, id) ==
    {a \in Lineage(id) \cap DOMAIN m :
        \A b \in Lineage(id) : a.ends \subseteq b.ends =>
            /\ b \in DOMAIN m
            /\ m[b].catalog = 0
            /\ m[b].contexts = 0
            /\ m[b].dependents <= IF b = id THEN 0 ELSE 1}

\* ... and the table it leaves: the last one removed no longer depends on its
\* parent
Reclaim(m, id) ==
    LET gone == Reclaimed(m, id)
        lost == {Parent(a) : a \in {a \in gone : HasParent(a)}}
    IN  [b \in DOMAIN m \ gone |->
            IF b \in lost THEN [m[b] EXCEPT !.dependents = Max({0, @ - 1})] ELSE m[b]]

\* adjust_context_refs(id, true)
AddContextRef(m, id) ==
    IF id \in DOMAIN m THEN [m EXCEPT ![id].contexts = @ + 1] ELSE m

\* adjust_context_refs(id, false), for the mapping a context may have had
DropContextRef(m, evaluated) ==
    IF evaluated \cap DOMAIN m = {} THEN m
    ELSE LET id == CHOOSE i \in evaluated : TRUE
         IN  Reclaim([m EXCEPT ![id].contexts = Max({0, @ - 1})], id)

\* The index follows the table: reclaim removes an id from both
StoreMappings(m) ==
    /\ mappings' = m
    /\ prefix_index' = prefix_index \ (DOMAIN mappings \ DOMAIN m)

-----------------------------------------------------------------------------
(* Operations on contexts.                                                 *)

\* create
Create(tokens, epoch) ==
    /\ next_context < MaxContexts
    /\ contexts' = [c \in DOMAIN contexts \cup {next_context} |->
                       IF c = next_context
                       THEN [tokens |-> tokens, epoch |-> epoch, evaluated |-> {}, revision |-> 0]
                       ELSE contexts[c]]
    /\ next_context' = next_context + 1
    /\ UNCHANGED <<mappings, prefix_index, publications, panicked>>

\* branch
Branch(source, at) ==
    /\ at <= Len(contexts[source].tokens)
    /\ Create(SubSeq(contexts[source].tokens, 1, at), contexts[source].epoch)

\* append
AppendTokens(c, tokens) ==
    /\ contexts[c].revision < MaxRevision
    /\ contexts' = [contexts EXCEPT ![c].tokens = @ \o tokens, ![c].revision = @ + 1]
    /\ UNCHANGED <<next_context, mappings, prefix_index, publications, panicked>>

\* remove_context
RemoveContext(c) ==
    /\ contexts' = [d \in DOMAIN contexts \ {c} |-> contexts[d]]
    /\ StoreMappings(DropContextRef(mappings, contexts[c].evaluated))
    /\ UNCHANGED <<next_context, publications, panicked>>

\* set_epochs
SetEpochs(c, epoch) ==
    /\ contexts[c].epoch # epoch
    /\ contexts[c].revision < MaxRevision
    /\ contexts' = [contexts EXCEPT ![c].epoch = epoch, ![c].evaluated = {}, ![c].revision = @ + 1]
    /\ StoreMappings(DropContextRef(mappings, contexts[c].evaluated))
    /\ UNCHANGED <<next_context, publications, panicked>>

-----------------------------------------------------------------------------
(* Publications.                                                           *)

\* prepare_publication; `seen` remembers the context for the properties
PreparePublication(c, end, parent, complete) ==
    LET context == contexts[c]
        ends    == {end} \cup UNION {p.ends : p \in parent}
        id      == MappingId(context.epoch, SubSeq(context.tokens, 1, end), ends)
    IN  /\ Cardinality(publications) < MaxPrepared
        /\ end <= Len(context.tokens)
        /\ complete # "missing"
        /\ \A p \in parent : /\ p \in DOMAIN mappings
                             /\ RepresentedEnd(p) < end
                             /\ ValidForContext(p, context)
        /\ publications' = publications \cup
               {[context |-> c, expected_revision |-> context.revision,
                 expected_current |-> context.evaluated, id |-> id,
                 complete |-> complete, seen |-> context]}
        /\ UNCHANGED <<next_context, contexts, mappings, prefix_index, panicked>>

\* A slip: a parent that went away since prepare_publication is not noticed.
ValidateOwnEntry(p) ==
    /\ p.context \in DOMAIN contexts
    /\ contexts[p.context].evaluated = p.expected_current
    /\ contexts[p.context].revision = p.expected_revision
    /\ contexts[p.context].epoch = p.id.epoch
    /\ SubSeq(contexts[p.context].tokens, 1, RepresentedEnd(p.id)) = p.id.tokens
    /\ p.id \in DOMAIN mappings => mappings[p.id].complete = p.complete

\* validate_publication
ValidatePublication(p) ==
    /\ p.context \in DOMAIN contexts
    /\ contexts[p.context].evaluated = p.expected_current
    /\ contexts[p.context].revision = p.expected_revision
    /\ contexts[p.context].epoch = p.id.epoch
    /\ SubSeq(contexts[p.context].tokens, 1, RepresentedEnd(p.id)) = p.id.tokens
    /\ IF p.id \in DOMAIN mappings THEN mappings[p.id].complete = p.complete
       ELSE HasParent(p.id) => Parent(p.id) \in DOMAIN mappings

\* The table with a new mapping: the catalog owns it and its parent, if still
\* there, has one more dependent
Inserted(id, complete) ==
    [b \in DOMAIN mappings \cup {id} |->
        IF b = id
        THEN [complete |-> complete, catalog |-> 1, contexts |-> 0, dependents |-> 0]
        ELSE IF HasParent(id) /\ b = Parent(id)
             THEN [mappings[b] EXCEPT !.dependents = @ + 1] ELSE mappings[b]]

\* commit_publication that passes its validation.  The last line reads
\* mappings[&id], which panics when the old mapping took the new one with it.
CommitPublication(p) ==
    LET c        == p.context
        inserted == IF p.id \in DOMAIN mappings THEN mappings ELSE Inserted(p.id, p.complete)
        dropped  == DropContextRef(inserted, contexts[c].evaluated)
    IN  /\ ValidatePublication(p)
        /\ publications' = publications \ {p}
        /\ IF contexts[c].evaluated = {p.id}
           THEN UNCHANGED <<contexts, mappings, prefix_index, panicked>>
           ELSE /\ contexts[c].revision < MaxRevision
                /\ contexts' = [contexts EXCEPT ![c].evaluated = {p.id}, ![c].revision = @ + 1]
                /\ mappings' = AddContextRef(dropped, p.id)
                /\ prefix_index' = (prefix_index \cup {p.id}) \ (DOMAIN inserted \ DOMAIN dropped)
                /\ panicked' = (p.id \notin DOMAIN dropped)
        /\ UNCHANGED next_context

\* commit_publication refused (or the publication just dropped)
RefusePublication(p) ==
    /\ ~ValidatePublication(p)
    /\ publications' = publications \ {p}
    /\ UNCHANGED <<next_context, contexts, mappings, prefix_index, panicked>>

\* release_mapping
ReleaseMapping(id) ==
    /\ StoreMappings(Reclaim([mappings EXCEPT ![id].catalog = Max({0, @ - 1})], id))
    /\ UNCHANGED <<next_context, contexts, publications, panicked>>

-----------------------------------------------------------------------------
StoreInit ==
    /\ next_context = 0
    /\ contexts = <<>>
    /\ mappings = <<>>
    /\ prefix_index = {}
    /\ publications = {}
    /\ panicked = FALSE

StoreNext ==
    /\ ~panicked
    /\ \/ \E tokens \in BoundedSeq(Token, MaxLen), epoch \in Epoch : Create(tokens, epoch)
       \/ \E c \in DOMAIN contexts :
            \/ \E at \in 0..MaxLen : Branch(c, at)
            \/ \E tokens \in BoundedSeq(Token, MaxLen - Len(contexts[c].tokens)) \ {<<>>} :
                 AppendTokens(c, tokens)
            \/ RemoveContext(c)
            \/ \E epoch \in Epoch : SetEpochs(c, epoch)
            \/ \E end \in 0..MaxLen, complete \in Components,
                 parent \in {{}} \cup {{id} : id \in DOMAIN mappings} :
                 PreparePublication(c, end, parent, complete)
       \/ \E p \in publications : CommitPublication(p) \/ RefusePublication(p)
       \/ \E id \in DOMAIN mappings : ReleaseMapping(id)

StoreSpec == StoreInit /\ [][StoreNext]_storeVars

-----------------------------------------------------------------------------
(* Properties.                                                             *)

\* The reference counts of a mapping are its owners: the contexts evaluated to
\* it and the mappings that depend on it.  None is stored that nobody owns, and
\* the index has exactly the stored ones.
OwnersExact ==
    ~panicked =>
        /\ prefix_index = DOMAIN mappings
        /\ \A id \in DOMAIN mappings :
              /\ mappings[id].contexts =
                   Cardinality({c \in DOMAIN contexts : contexts[c].evaluated = {id}})
              /\ mappings[id].dependents =
                   Cardinality({k \in DOMAIN mappings : HasParent(k) /\ Parent(k) = id})
              /\ mappings[id].catalog + mappings[id].contexts + mappings[id].dependents > 0

\* What a context is evaluated to stays usable for it, whatever is appended,
\* released, reclaimed or reconfigured since: a lookup finds it or a longer one.
EvaluatedIsFound ==
    ~panicked =>
        \A c \in DOMAIN contexts : \A id \in contexts[c].evaluated :
            \E found \in LongestValidPrefix(c) : RepresentedEnd(found) >= RepresentedEnd(id)

\* A lookup never returns an evaluation of other tokens or of other epochs, and
\* every mapping on the way from what it returns to the root is still stored.
FoundIsExact ==
    \A c \in DOMAIN contexts : \A id \in LongestValidPrefix(c) :
        /\ IsPrefix(id.tokens, contexts[c].tokens)
        /\ id.epoch = contexts[c].epoch
        /\ HasParent(id) => Parent(id) \in DOMAIN mappings

\* "Monotonic semantic revision used to reject stale prepared publications": a
\* context whose revision is the one a publication expects has not changed since
\* the publication was prepared, nor changed and changed back.
RevisionIdentifies ==
    \A p \in publications :
        p.context \in DOMAIN contexts /\ contexts[p.context].revision = p.expected_revision
        => contexts[p.context] = p.seen

\* A mapping whose ancestor is gone is gone too: no lineage has a hole.
LineageComplete == \A id \in DOMAIN mappings : Lineage(id) \subseteq DOMAIN mappings

\* Between prepare_publication and commit_publication of one mapping others are
\* published, branched and released, and the epochs change: reference counts stay
\* the numbers of owners, a found prefix was evaluated for exactly these tokens, no
\* stored lineage has a hole, nothing evaluated and owned is lost to a lookup, and a
\* revision stands for one state of a context.
StoreIsConsistent ==
    OwnersExact /\ EvaluatedIsFound /\ FoundIsExact /\ RevisionIdentifies /\ LineageComplete

=============================================================================
