----------------------------- MODULE ModelFetch -----------------------------
(***************************************************************************)
(* The download cache of the model registry: fetch_hf_with_progress and    *)
(* what it calls in crates/model-registry/src/lib.rs.  Pulls of one file   *)
(* of a Hub repository run in threads of the daemon; the process may end   *)
(* at any moment, and what is in the cache directory stays.                *)
(*                                                                         *)
(* The content of a file is a sequence of blocks, and its digest is its    *)
(* content.  A name of the cache directory refers to an inode, which an    *)
(* open file goes on writing after the name has changed.  Of the time a    *)
(* file was modified, a stamp keeps whether it is still the same.          *)
(***************************************************************************)
EXTENDS Integers, Sequences, FiniteSets

CONSTANTS
    Fetchers,
    Versions,    \* immutable revisions of the repository
    Blocks,      \* of the file in every revision
    Inodes,      \* bound: enough for every name and every open file
    Main,        \* the symbolic revision main
    None,        \* no file, no stamp, no reference, nothing expected
    Expectable,  \* digests a pull may ask for, or None
    MayMove,     \* bound: whether main moves to another revision
    MayCrash     \* bound: whether the process ends

\* what a module that instantiates this one assumes of the constants
FetchAssumption ==
    /\ Blocks \in Nat \ {0} /\ Expectable # {}
    /\ IsFiniteSet(Versions) /\ IsFiniteSet(Inodes) /\ None \notin Inodes
    /\ Cardinality(Inodes) >= 2 * Cardinality(Versions) + Cardinality(Fetchers)

VARIABLES
    hub,      \* the revision main refers to
    ref,      \* refs/<repo>/main, the cached answer
    content,  \* of inodes
    partial,  \* the inode of <file>.partial, per revision directory
    dest,     \* the inode of <file>, per revision directory
    stamp,    \* <file>.cache.json, per revision directory
    fetch     \* the pulls

vars == <<hub, ref, content, partial, dest, stamp, fetch>>

Content(v) == [k \in 1..Blocks |-> <<v, k>>]

Idle == [pc |-> "idle", uri |-> Main, expected |-> None, rev |-> None, offset |-> 0,
         append |-> FALSE, file |-> None, next |-> 0, sha |-> None]

At(f, pc) == fetch[f].pc = pc
Become(f, state) == fetch' = [fetch EXCEPT ![f] = state]
Goto(f, pc) == fetch' = [fetch EXCEPT ![f].pc = pc]
Fail(f, why) == Become(f, [Idle EXCEPT !.pc = why])

\* An inode no name and no open file refers to
Unused == CHOOSE i \in Inodes :
             /\ \A v \in Versions : i \notin {partial[v], dest[v]}
             /\ \A f \in Fetchers : fetch[f].file # i

\* The bytes of inode i change
Write(i, bytes) ==
    /\ content' = [content EXCEPT ![i] = bytes]
    /\ stamp' = [v \in Versions |->
                   IF stamp[v] # None /\ dest[v] = i THEN [stamp[v] EXCEPT !.same = FALSE] ELSE stamp[v]]

-----------------------------------------------------------------------------

Fetch(f, uri, expected) ==
    /\ fetch[f].pc \in {"idle", "done", "failed", "range"}
    /\ Become(f, [Idle EXCEPT !.pc = "resolve", !.uri = uri, !.expected = expected])
    /\ UNCHANGED <<hub, ref, content, partial, dest, stamp>>

\* resolve_revision: a revision, the cached answer of an earlier pull, or the Hub's
ResolveRevision(f) ==
    /\ At(f, "resolve")
    /\ LET uri == fetch[f].uri
           rev == IF uri # Main THEN uri ELSE IF ref # None THEN ref ELSE hub
       IN  /\ fetch' = [fetch EXCEPT ![f].rev = rev, ![f].pc = "look"]
           /\ ref' = IF uri = Main THEN rev ELSE ref
    /\ UNCHANGED <<hub, content, partial, dest, stamp>>

\* cached_record: the file has the size and time of its stamp
Cached(v, expected) ==
    /\ dest[v] # None /\ stamp[v] # None
    /\ stamp[v].same
    /\ expected \in {None, stamp[v].sha}

\* register_local: any content will do unless a digest is expected
Registrable(v, expected) == dest[v] # None /\ expected \in {None, content[dest[v]]}

\* The file is there, or it must be loaded; one of another digest is removed
Look(f) ==
    LET v    == fetch[f].rev
        keep == Cached(v, fetch[f].expected) \/ Registrable(v, fetch[f].expected)
    IN  /\ At(f, "look")
        /\ dest' = [dest EXCEPT ![v] = IF keep THEN @ ELSE None]
        /\ Goto(f, IF keep THEN "verify" ELSE "ask")
        /\ UNCHANGED <<hub, ref, content, partial, stamp>>

\* The length of the partial file decides the range to ask for
Ask(f) ==
    LET i == partial[fetch[f].rev]
    IN  /\ At(f, "ask")
        /\ fetch' = [fetch EXCEPT ![f].offset = IF i = None THEN 0 ELSE Len(content[i]),
                                  ![f].pc = "open"]
        /\ UNCHANGED <<hub, ref, content, partial, dest, stamp>>

\* The first block of the answer: the range that was asked for, or the whole file
AnswerFrom(f, ranged) == IF ranged THEN fetch[f].offset + 1 ELSE 1

\* A slip: what is there is continued although the answer is the whole file.
ResumesAnyway(f, ranged) == fetch[f].offset > 0

\* 206 with the range that was asked for
Resumes(f, ranged) == ranged /\ fetch[f].offset > 0

\* destination.with_extension("partial")
PartialOf(v) == v

\* The partial file is opened for appending, or created: an existing one is truncated
Open(f, ranged) ==
    LET v == PartialOf(fetch[f].rev)
        i == IF partial[v] = None THEN Unused ELSE partial[v]
    IN  /\ At(f, "open")
        /\ ~(ranged /\ fetch[f].offset >= Blocks)
        /\ fetch' = [fetch EXCEPT ![f].pc = "load", ![f].file = i, ![f].append = Resumes(f, ranged),
                                  ![f].next = AnswerFrom(f, ranged)]
        /\ \/ Resumes(f, ranged) /\ partial[v] # None /\ UNCHANGED <<content, partial, stamp>>
           \/ ~Resumes(f, ranged) /\ partial' = [partial EXCEPT ![v] = i] /\ Write(i, <<>>)
        /\ UNCHANGED <<hub, ref, dest>>

\* The Hub refuses a range that begins at the end of the file (416)
RangeRefused(f) ==
    /\ At(f, "open")
    /\ fetch[f].offset >= Blocks
    /\ Fail(f, "range")
    /\ UNCHANGED <<hub, ref, content, partial, dest, stamp>>

\* The bytes of a file after a write at a position; what it skips is a hole
WrittenAt(bytes, k, block) ==
    [n \in 1..(IF k > Len(bytes) THEN k ELSE Len(bytes)) |->
        IF n = k THEN block ELSE IF n <= Len(bytes) THEN bytes[n] ELSE <<0, 0>>]

Load(f) ==
    LET self  == fetch[f]
        bytes == content[self.file]
        block == <<self.rev, self.next>>
    IN  /\ At(f, "load")
        /\ self.next <= Blocks
        /\ Write(self.file, IF self.append THEN Append(bytes, block)
                            ELSE WrittenAt(bytes, self.next, block))
        /\ fetch' = [fetch EXCEPT ![f].next = self.next + 1]
        /\ UNCHANGED <<hub, ref, partial, dest>>

\* fs::rename of whatever the partial file is by now
Rename(f) ==
    LET v == fetch[f].rev
        p == PartialOf(v)
    IN  /\ At(f, "load")
        /\ fetch[f].next > Blocks
        /\ partial[p] # None
        /\ dest' = [dest EXCEPT ![v] = partial[p]]
        /\ partial' = [partial EXCEPT ![p] = None]
        /\ stamp' = [stamp EXCEPT ![v] = IF @ = None THEN None ELSE [@ EXCEPT !.same = FALSE]]
        /\ fetch' = [fetch EXCEPT ![f].pc = "verify", ![f].file = None]
        /\ UNCHANGED <<hub, ref, content>>

\* The record of the stamp, or the digest of the file
Verify(f) ==
    LET v    == fetch[f].rev
        self == fetch[f]
    IN  /\ At(f, "verify")
        /\ \/ /\ Cached(v, self.expected)
              /\ fetch' = [fetch EXCEPT ![f].pc = "done", ![f].sha = stamp[v].sha]
           \/ /\ ~Cached(v, self.expected)
              /\ Registrable(v, self.expected)
              /\ fetch' = [fetch EXCEPT ![f].pc = "stamp", ![f].sha = content[dest[v]]]
        /\ UNCHANGED <<hub, ref, content, partial, dest, stamp>>

\* The stamp has the digest that was computed and the time the file has now
Stamp(f) ==
    LET v == fetch[f].rev
    IN  /\ At(f, "stamp")
        /\ dest[v] # None
        /\ stamp' = [stamp EXCEPT ![v] = [sha |-> fetch[f].sha,
                                          same |-> Len(fetch[f].sha) = Len(content[dest[v]])]]
        /\ Goto(f, "done")
        /\ UNCHANGED <<hub, ref, content, partial, dest>>

\* The Hub cannot be reached or the connection breaks; a file is not there any
\* more; the digest is not the expected one
FetchFails(f) ==
    /\ \/ /\ fetch[f].pc \in {"open", "load"}
          /\ fetch[f].next <= Blocks
       \/ At(f, "resolve") /\ fetch[f].uri = Main /\ ref = None
       \/ At(f, "open") /\ partial[PartialOf(fetch[f].rev)] = None /\ fetch[f].offset > 0
       \/ At(f, "load") /\ partial[PartialOf(fetch[f].rev)] = None /\ fetch[f].next > Blocks
       \/ /\ At(f, "verify")
          /\ ~Cached(fetch[f].rev, fetch[f].expected)
          /\ ~Registrable(fetch[f].rev, fetch[f].expected)
       \/ At(f, "stamp") /\ dest[fetch[f].rev] = None
    /\ Fail(f, "failed")
    /\ UNCHANGED <<hub, ref, content, partial, dest, stamp>>

\* main refers to another revision
HubMoves(v) ==
    /\ MayMove
    /\ v # hub
    /\ hub' = v
    /\ UNCHANGED <<ref, content, partial, dest, stamp, fetch>>

\* The process ends, and with it every pull
Crash ==
    /\ MayCrash
    /\ fetch' = [f \in Fetchers |-> Idle]
    /\ UNCHANGED <<hub, ref, content, partial, dest, stamp>>

Init ==
    /\ hub \in Versions
    /\ ref = None
    /\ content = [i \in Inodes |-> <<>>]
    /\ partial = [v \in Versions |-> None]
    /\ dest = [v \in Versions |-> None]
    /\ stamp = [v \in Versions |-> None]
    /\ fetch = [f \in Fetchers |-> Idle]

Work(f) ==
    \/ \E uri \in Versions \cup {Main}, expected \in Expectable : Fetch(f, uri, expected)
    \/ ResolveRevision(f) \/ Look(f) \/ Ask(f)
    \/ \E ranged \in BOOLEAN : Open(f, ranged)
    \/ RangeRefused(f) \/ Load(f) \/ Rename(f) \/ Verify(f) \/ Stamp(f) \/ FetchFails(f)

Next ==
    \/ \E f \in Fetchers : Work(f)
    \/ \E v \in Versions : HubMoves(v)
    \/ Crash

Spec == Init /\ [][Next]_vars

-----------------------------------------------------------------------------
(* Properties.                                                             *)

\* What a pull returns is what the Hub has: after connections that broke, answers
\* that ignored the range and processes that ended at any moment, the digest of a
\* record is that of its whole revision, and the one the caller expected.
FetchedIsWhole ==
    \A f \in Fetchers : At(f, "done") =>
        /\ fetch[f].sha = Content(fetch[f].rev)
        /\ fetch[f].expected \in {None, fetch[f].sha}

\* What a later pull resumes from is a beginning of the file it is resumed for.
PartialIsPrefix ==
    \A v \in Versions : partial[v] # None =>
        content[partial[v]] = SubSeq(Content(v), 1, Len(content[partial[v]]))

=============================================================================
