--------------------------- MODULE TokenSequence ---------------------------
(***************************************************************************)
(* PersistentTokenSequence of crates/context-store/src/lib.rs: a sequence  *)
(* of tokens as a tail, which sees the first tokens of an immutable chunk, *)
(* whose parent is again a tail.  Sequences share chunks, and a branch in  *)
(* the middle of a chunk sees only part of it.                             *)
(*                                                                         *)
(* A reference (Arc) to a chunk is its place in `heap`; 0 is no chunk.     *)
(* SHA-256 is external and taken to be injective: a hash state, and the    *)
(* identity it ends in, is the sequence of the tokens hashed so far.       *)
(***************************************************************************)
EXTENDS Integers, Sequences, SequencesExt

CONSTANTS
    Names,        \* variables that hold a sequence
    Token,        \* tokens
    ChunkTokens,  \* LOGICAL_CHUNK_TOKENS
    MaxLen,       \* bound: length of a sequence
    MaxChunks     \* bound: chunks ever allocated

\* what a module that instantiates this one assumes of the constants
ChunkAssumption == ChunkTokens \in Nat \ {0} /\ MaxLen \in Nat /\ MaxChunks \in Nat

VARIABLES
    heap,  \* chunks allocated so far
    tail   \* PersistentTokenSequence::tail of each variable

vars == <<heap, tail>>

-----------------------------------------------------------------------------
None == [chunk |-> 0, visible |-> 0]

\* The visible tokens of a tail in its own chunk
Visible(s) == SubSeq(heap[s.chunk].tokens, 1, s.visible)

\* len
Length(s) == IF s.chunk = 0 THEN 0 ELSE heap[s.chunk].startLen + s.visible

\* hash_state
HashState(s) == IF s.chunk = 0 THEN <<>> ELSE heap[s.chunk].startHash \o Visible(s)

\* A slip: the identity of the whole chunk, however much of it is visible.
IdOfChunk(s) == IF s.chunk = 0 THEN <<>> ELSE heap[s.chunk].endHash

\* id: the stored identity when the whole chunk is visible
Id(s) ==
    IF s.chunk # 0 /\ s.visible = Len(heap[s.chunk].tokens)
    THEN heap[s.chunk].endHash ELSE HashState(s)

\* tokens(), collected by ReverseTokens from the tail to the root: first what
\* is before each chunk ...
TokensBefore ==
    LET before[c \in 1..Len(heap)] ==
            LET p == heap[c].parent
            IN  IF p.chunk = 0 THEN <<>> ELSE before[p.chunk] \o Visible(p)
    IN  before

\* ... then the visible part of the last one
TokensOf(s) == IF s.chunk = 0 THEN <<>> ELSE TokensBefore[s.chunk] \o Visible(s)

\* PartialEq::eq
Eq(s, r) ==
    /\ Length(s) = Length(r)
    /\ (s.chunk = r.chunk /\ s.visible = r.visible) \/ TokensOf(s) = TokensOf(r)

-----------------------------------------------------------------------------
(* append and prefix.                                                      *)

Pieces(tokens) == (Len(tokens) + ChunkTokens - 1) \div ChunkTokens
PieceEnd(tokens, k) == IF k * ChunkTokens < Len(tokens) THEN k * ChunkTokens ELSE Len(tokens)

\* A slip: the chunk starts where the parent's chunk ends, not where the parent
\* stops seeing it.
ChunkAfterWholeParent(s, tokens, k) ==
    LET first == (k - 1) * ChunkTokens IN
    [parent    |-> IF k = 1 THEN s ELSE [chunk |-> Len(heap) + k - 1, visible |-> ChunkTokens],
     startLen  |-> first + IF s.chunk = 0 THEN 0
                           ELSE heap[s.chunk].startLen + Len(heap[s.chunk].tokens),
     tokens    |-> SubSeq(tokens, first + 1, PieceEnd(tokens, k)),
     startHash |-> HashState(s) \o SubSeq(tokens, 1, first),
     endHash   |-> HashState(s) \o SubSeq(tokens, 1, PieceEnd(tokens, k))]

\* The k-th chunk that s.append(tokens) allocates
NewChunk(s, tokens, k) ==
    LET first == (k - 1) * ChunkTokens IN
    [parent    |-> IF k = 1 THEN s ELSE [chunk |-> Len(heap) + k - 1, visible |-> ChunkTokens],
     startLen  |-> Length(s) + first,
     tokens    |-> SubSeq(tokens, first + 1, PieceEnd(tokens, k)),
     startHash |-> HashState(s) \o SubSeq(tokens, 1, first),
     endHash   |-> HashState(s) \o SubSeq(tokens, 1, PieceEnd(tokens, k))]

\* y := x.append(tokens)
AppendTokens(x, y, tokens) ==
    LET n == Pieces(tokens) IN
    /\ Len(heap) + n <= MaxChunks
    /\ heap' = heap \o [k \in 1..n |-> NewChunk(tail[x], tokens, k)]
    /\ tail' = [tail EXCEPT ![y] =
                  IF n = 0 THEN tail[x]
                  ELSE [chunk   |-> Len(heap) + n,
                        visible |-> Len(tokens) - (n - 1) * ChunkTokens]]

\* The chunk in which prefix(len) stops, on the way from chunk c to the root
StopAt(len, c) ==
    LET stop[d \in 0..Len(heap)] ==
            IF d = 0 \/ len > heap[d].startLen THEN d ELSE stop[heap[d].parent.chunk]
    IN  stop[c]

\* y := x.prefix(len), for a len within x
Prefix(x, y, len) ==
    LET c == StopAt(len, tail[x].chunk) IN
    /\ len <= Length(tail[x])
    /\ tail' = [tail EXCEPT ![y] =
                  IF c = 0 THEN None
                  ELSE [chunk |-> c, visible |-> len - heap[c].startLen]]
    /\ UNCHANGED heap

Init ==
    /\ heap = <<>>
    /\ tail = [x \in Names |-> None]

Next ==
    \E x, y \in Names :
        \/ \E tokens \in BoundedSeq(Token, MaxLen - Length(tail[x])) : AppendTokens(x, y, tokens)
        \/ \E len \in 0..MaxLen : Prefix(x, y, len)

Spec == Init /\ [][Next]_vars

-----------------------------------------------------------------------------
(* Properties.                                                             *)

\* Chunked sequences implement plain ones: appends and prefixes in any order,
\* through shared and partly visible chunks, read back as the tokens they stand
\* for, and no operation changes what another sequence reads.
Plain == INSTANCE PlainTokens WITH plain <- [x \in Names |-> TokensOf(tail[x])]
ImplementsPlain == Plain!Spec

\* "identity is append-segmentation independent" (the name of a test): the
\* identity of a sequence, put together from hash states cached in chunks, is the
\* hash of its tokens, however they were split, cut and shared.
IdentityIsOfTokens == \A x \in Names : Id(tail[x]) = TokensOf(tail[x])

\* Equality, which looks at lengths and chunk references first, is equality of
\* the tokens.
EqualityIsOfTokens ==
    \A x, y \in Names : Eq(tail[x], tail[y]) <=> TokensOf(tail[x]) = TokensOf(tail[y])

=============================================================================
