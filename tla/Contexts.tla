------------------------------ MODULE Contexts ------------------------------
(***************************************************************************)
(* Context records, compaction declarations and the inference between      *)
(* them: create_context to revoke_compaction_declaration_for and           *)
(* infer_admitted of crates/server/src/lib.rs.                             *)
(*                                                                         *)
(* An inference reads a context under the lock of the server, works        *)
(* without it for as long as it takes, and writes the successor if the     *)
(* revision is still the one it read.  A token stands for what one request *)
(* added, or for an imported text.                                         *)
(***************************************************************************)
EXTENDS WindowTail

CONSTANTS
    Ids,           \* context ids, each used once
    Workers,       \* threads that run requests
    Principals,
    None,
    Targets,       \* target_tokens of a compaction
    Declarations,  \* config.compaction_declarations
    Rate,          \* config.compaction_declaration_rate_per_minute
    Window,        \* the 60 000 ms of the rate
    Lifetimes,     \* expires_in_ms, up to config.compaction_declaration_lifetime_ms
    MaxTurns,      \* bound: inferences
    MaxDeclared,   \* bound: declarations made
    MaxTime        \* bound: time

\* what a module that instantiates this one assumes of the constants
ContextsAssumption ==
    /\ {Declarations, Rate, Window, MaxTurns, MaxDeclared, MaxTime} \subseteq Nat
    /\ Targets \subseteq Nat /\ Lifetimes \subseteq Nat \ {0}

VARIABLES
    contexts,       \* RuntimeState::contexts: revision, tokens and native_tokens, or None
    used,           \* ids given to contexts
    turns,          \* inferences that generated
    worker,         \* what each worker does
    made,           \* every declaration made
    records,        \* DeclarationState::records: indices of `made`
    creationTimes,  \* DeclarationState::creation_times: of each principal, whose times
                    \* are held, as indices of `made`
    time

contextVars == <<contexts, used, turns, worker>>
declarationVars == <<made, records, creationTimes>>
vars == <<contextVars, declarationVars, time>>

Idle == [at |-> "idle"]

Become(w, state) == worker' = [worker EXCEPT ![w] = state]

Enter(id, record) ==
    /\ id \notin used
    /\ used' = used \cup {id}
    /\ contexts' = [contexts EXCEPT ![id] = record]

-----------------------------------------------------------------------------
(* Contexts.                                                               *)

CreateContext(w, id) ==
    /\ worker[w].at = "idle"
    /\ Enter(id, [revision |-> 0, tokens |-> <<>>, native |-> <<>>])
    /\ UNCHANGED <<turns, worker, declarationVars, time>>

\* The text of an import is not evaluated
ImportContext(w, id, token) ==
    /\ worker[w].at = "idle"
    /\ Enter(id, [revision |-> 0, tokens |-> <<token>>, native |-> <<>>])
    /\ UNCHANGED <<turns, worker, declarationVars, time>>

\* branch_context: the source is read ...
BranchContext(w, source) ==
    /\ worker[w].at = "idle" /\ contexts[source] # None
    /\ Become(w, [at |-> "branch", record |-> [contexts[source] EXCEPT !.revision = 0]])
    /\ UNCHANGED <<contexts, used, turns, declarationVars, time>>

\* ... and its copy entered, whatever became of it
EnterBranch(w, id) ==
    /\ worker[w].at = "branch"
    /\ Enter(id, worker[w].record)
    /\ Become(w, Idle)
    /\ UNCHANGED <<turns, declarationVars, time>>

DeleteContext(w, id) ==
    /\ worker[w].at = "idle" /\ contexts[id] # None
    /\ contexts' = [contexts EXCEPT ![id] = None]
    /\ UNCHANGED <<used, turns, worker, declarationVars, time>>

-----------------------------------------------------------------------------
(* infer_admitted.                                                         *)

Infer(w, context, target) ==
    /\ worker[w].at = "idle"
    /\ turns < MaxTurns
    /\ Become(w, [at |-> "read", context |-> context, target |-> target])
    /\ UNCHANGED <<contexts, used, turns, declarationVars, time>>

\* compaction_declaration_for: of the same principal and not expired; the request
\* is about the context the declaration names
InferDeclared(w, principal, d) ==
    /\ worker[w].at = "idle"
    /\ turns < MaxTurns
    /\ d \in records /\ made[d].expires > time /\ made[d].principal = principal
    /\ Become(w, [at |-> "read", context |-> made[d].context, target |-> made[d].target])
    /\ UNCHANGED <<contexts, used, turns, declarationVars, time>>

\* An expired one is forgotten when it is asked for
DeclarationExpired(d) ==
    /\ d \in records /\ made[d].expires <= time
    /\ records' = records \ {d}
    /\ UNCHANGED <<contextVars, made, creationTimes, time>>

\* The record the inference builds on
ReadContext(w) ==
    LET id     == worker[w].context
        record == IF id = None THEN [revision |-> 0, tokens |-> <<>>, native |-> <<>>]
                  ELSE contexts[id]
    IN  /\ worker[w].at = "read" /\ (id # None => contexts[id] # None)
        /\ worker[w].target # None => id # None
        /\ Become(w, [at |-> IF worker[w].target = None THEN "generate" ELSE "compact",
                      context |-> id, target |-> worker[w].target, record |-> record])
        /\ UNCHANGED <<contexts, used, turns, declarationVars, time>>

\* A slip: a compacted context goes on from what was evaluated before.
PriorAsBefore(record, tokens) == record.native

\* What the engine continues: a compacted context is evaluated anew
Prior(record, tokens) == IF tokens = record.tokens THEN record.native ELSE tokens

CompactContext(w) ==
    LET record == worker[w].record
        tokens == Compacted(record.tokens, worker[w].target)
    IN  /\ worker[w].at = "compact"
        /\ Become(w, [worker[w] EXCEPT !.at = "generate",
                                       !.record.tokens = tokens,
                                       !.record.native = Prior(record, tokens)])
        /\ UNCHANGED <<contexts, used, turns, declarationVars, time>>

\* Prompt and answer are added to both
Generate(w) ==
    LET token == [kind |-> "turn", id |-> turns + 1] IN
    /\ worker[w].at = "generate" /\ turns < MaxTurns
    /\ turns' = turns + 1
    /\ Become(w, [worker[w] EXCEPT !.at = "commit",
                                   !.record.tokens = Append(@, token),
                                   !.record.native = Append(@, token)])
    /\ UNCHANGED <<contexts, used, declarationVars, time>>

\* A slip: the context has only to be there.
StillThere(id, record) == contexts[id] # None

Unchanged(id, record) == contexts[id] # None /\ contexts[id].revision = record.revision

\* The successor of the context that was read
CommitInference(w) ==
    LET id == worker[w].context
        record == worker[w].record
    IN  /\ worker[w].at = "commit" /\ id # None /\ Unchanged(id, record)
        /\ contexts' = [contexts EXCEPT ![id] =
                          [record EXCEPT !.revision = contexts[id].revision + 1]]
        /\ Become(w, Idle)
        /\ UNCHANGED <<used, turns, declarationVars, time>>

\* An inference without context makes one
CommitNew(w, id) ==
    /\ worker[w].at = "commit" /\ worker[w].context = None
    /\ Enter(id, [worker[w].record EXCEPT !.revision = 1])
    /\ Become(w, Idle)
    /\ UNCHANGED <<turns, declarationVars, time>>

\* Not found, changed meanwhile, stopped, expired or failed
Fail(w) ==
    /\ worker[w].at \notin {"idle", "branch"}
    /\ Become(w, Idle)
    /\ UNCHANGED <<contexts, used, turns, declarationVars, time>>

-----------------------------------------------------------------------------
(* Declarations.                                                           *)

Live == {d \in records : made[d].expires > time}

Recent(held) == {d \in held : time < made[d].at + Window}

CreateDeclaration(principal, context, target, lifetime) ==
    LET recent == [p \in Principals |-> Recent(creationTimes[p])] IN
    /\ Len(made) < MaxDeclared
    /\ IF Cardinality(Live) < Declarations /\ Cardinality(recent[principal]) < Rate
       THEN /\ made' = Append(made, [principal |-> principal, context |-> context,
                                     target |-> target, at |-> time,
                                     expires |-> time + lifetime])
            /\ records' = Live \cup {Len(made')}
            /\ creationTimes' = [recent EXCEPT ![principal] = @ \cup {Len(made')}]
       ELSE made' = made /\ records' = Live /\ creationTimes' = recent
    /\ UNCHANGED <<contextVars, time>>

\* A slip: a revoked declaration no longer counts.
RevokeForgets(principal, d) ==
    /\ d \in records /\ made[d].principal = principal
    /\ records' = records \ {d}
    /\ creationTimes' = [creationTimes EXCEPT ![principal] = @ \ {d}]
    /\ UNCHANGED <<contextVars, made, time>>

RevokeDeclaration(principal, d) ==
    /\ d \in records /\ made[d].principal = principal
    /\ records' = records \ {d}
    /\ UNCHANGED <<contextVars, made, creationTimes, time>>

Tick ==
    /\ time < MaxTime
    /\ time' = time + 1
    /\ UNCHANGED <<contextVars, declarationVars>>

Init ==
    /\ contexts = [id \in Ids |-> None]
    /\ used = {}
    /\ turns = 0
    /\ worker = [w \in Workers |-> Idle]
    /\ made = <<>>
    /\ records = {}
    /\ creationTimes = [p \in Principals |-> {}]
    /\ time = 0

Imported == [kind |-> "word", id |-> 0]

Work(w) ==
    \/ \E id \in Ids : \/ CreateContext(w, id) \/ ImportContext(w, id, Imported)
                       \/ BranchContext(w, id) \/ EnterBranch(w, id) \/ DeleteContext(w, id)
                       \/ CommitNew(w, id)
    \/ \E id \in Ids \cup {None}, target \in Targets \cup {None} : Infer(w, id, target)
    \/ \E p \in Principals, d \in DOMAIN made : InferDeclared(w, p, d)
    \/ ReadContext(w) \/ CompactContext(w) \/ Generate(w) \/ CommitInference(w) \/ Fail(w)

Declare ==
    \/ \E p \in Principals, id \in Ids, target \in Targets, lifetime \in Lifetimes :
           CreateDeclaration(p, id, target, lifetime)
    \/ \E p \in Principals, d \in DOMAIN made : RevokeDeclaration(p, d)
    \/ \E d \in DOMAIN made : DeclarationExpired(d)

Next == (\E w \in Workers : Work(w)) \/ Declare \/ Tick

Spec == Init /\ [][Next]_vars

-----------------------------------------------------------------------------
(* Properties.                                                             *)

\* What one inference added is never lost to another that ran at the same time:
\* a context changes only by one turn added to what it holds at that moment, or
\* to that compacted.
OverwritesNothing ==
    \A id \in Ids :
        contexts[id] # None /\ contexts'[id] \notin {None, contexts[id]} =>
            LET tokens == contexts'[id].tokens IN
            /\ contexts'[id].revision = contexts[id].revision + 1
            /\ \/ Front(tokens) = contexts[id].tokens
               \/ \E target \in Targets : Front(tokens) = Compacted(contexts[id].tokens, target)

\* What the engine continues from is what the record says: the native tokens of a
\* context are its tokens, but for an imported text that it begins with and that was
\* never evaluated.
NativeFollows ==
    \A id \in Ids : contexts[id] # None =>
        LET tokens == contexts[id].tokens
            native == contexts[id].native
        IN  tokens = native \/ tokens = <<Imported>> \o native

\* No principal makes more declarations in any minute than its rate, whatever it
\* revokes or lets expire.
RateHolds ==
    \A p \in Principals, t \in 0..time :
        Cardinality({d \in DOMAIN made : /\ made[d].principal = p
                                         /\ made[d].at <= t /\ t < made[d].at + Window}) <= Rate

=============================================================================
