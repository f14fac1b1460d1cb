------------------------ MODULE GenerationFrontier ------------------------
(***************************************************************************)
(* The generation frontier of crates/server/src/generation.rs: the bytes   *)
(* of sampled tokens become the text a client sees.  What may still become *)
(* a stop sequence or the rest of a character is held back; leading        *)
(* whitespace is not shown, unless the continuation is raw.                *)
(*                                                                         *)
(* A byte is a letter, a space, or one half of a character of two bytes.   *)
(* The variables `sampled` and `ends` are history: all bytes, and where    *)
(* each token ended.                                                       *)
(***************************************************************************)
EXTENDS Naturals, Sequences, SequencesExt, FiniteSetsExt

CONSTANTS
    Letters,       \* bytes that are a character each
    Space,         \* whitespace
    Lead, Cont,    \* the two bytes of a longer character
    Pieces,        \* the bytes a token may stand for
    StopLists,     \* the stop sequences a request may come with
    MaxStops,      \* MAX_EFFECTIVE_STOP_SEQUENCES
    MaxStopBytes,  \* MAX_STOP_BYTES
    None,          \* not finished, or no stop sequence
    MaxBytes       \* bound: bytes generated

\* what a module that instantiates this one assumes of the constants
FrontierAssumption ==
    /\ {MaxStops, MaxStopBytes, MaxBytes} \subseteq Nat
    /\ Pieces \subseteq Seq(Letters \cup {Space, Lead, Cont})

VARIABLES
    stops, pending, pendingOffset, boundaries, visible, stripping, finishReason,
    stopAlignment, sampled, ends

vars == <<stops, pending, pendingOffset, boundaries, visible, stripping, finishReason,
          stopAlignment, sampled, ends>>

Replacement == "replacement"
Wide == "wide"

Take(s, n) == SubSeq(s, 1, n)

\* with_limit
Accepted(list) ==
    /\ Len(list) <= MaxStops
    /\ \A i \in DOMAIN list : Len(list[i]) \in 1..MaxStopBytes

-----------------------------------------------------------------------------
(* UTF-8, as from_utf8 and from_utf8_lossy see it.                         *)

\* Whether byte i belongs to no character
Broken(bytes, i) ==
    \/ bytes[i] = Lead /\ ~(i < Len(bytes) /\ bytes[i + 1] = Cont)
    \/ bytes[i] = Cont /\ ~(i > 1 /\ bytes[i - 1] = Lead)

WellFormed(bytes) == \A i \in DOMAIN bytes : ~Broken(bytes, i)

\* The characters of bytes, in order
Rendered(bytes) ==
    LET char(i) == IF Broken(bytes, i) THEN <<Replacement>>
                   ELSE IF bytes[i] = Lead THEN <<Wide>>
                   ELSE IF bytes[i] = Cont THEN <<>>
                   ELSE <<bytes[i]>>
    IN  FlattenSeq([i \in DOMAIN bytes |-> char(i)])

\* utf8_complete_prefix: waits only if what is incomplete is all that is wrong
CompletePrefix(bytes) ==
    LET broken == {i \in DOMAIN bytes : Broken(bytes, i)}
    IN  IF broken = {Len(bytes)} /\ bytes[Len(bytes)] = Lead THEN Len(bytes) - 1
        ELSE Len(bytes)

-----------------------------------------------------------------------------
(* Stop sequences.                                                         *)

StartsIn(stop, bytes) ==
    {n \in 0..(Len(bytes) - Len(stop)) : SubSeq(bytes, n + 1, n + Len(stop)) = stop}

Matches(bytes) ==
    {<<Min(StartsIn(stops[i], bytes)), i>> :
        i \in {j \in DOMAIN stops : Len(stops[j]) <= Len(bytes) /\ StartsIn(stops[j], bytes) # {}}}

\* stop_match: the one that starts first, of these the first of the list
StopMatch(bytes) ==
    LET first == CHOOSE m \in Matches(bytes) :
                    \A n \in Matches(bytes) : m[1] < n[1] \/ (m[1] = n[1] /\ m[2] <= n[2])
    IN  [start |-> first[1], end |-> first[1] + Len(stops[first[2]])]

\* A slip: of the stop sequences the shortest candidate is held back.
ShortestStopSuffix(bytes) ==
    LET suffixes(stop) == {n \in 1..(Len(stop) - 1) :
                              n <= Len(bytes) /\ IsSuffix(Take(stop, n), bytes)}
        longest(stop)  == IF suffixes(stop) = {} THEN 0 ELSE Max(suffixes(stop))
    IN  IF stops = <<>> THEN 0 ELSE Min({longest(stops[i]) : i \in DOMAIN stops})

\* longest_possible_stop_suffix
LongestStopSuffix(bytes) ==
    LET suffixes(stop) == {n \in 1..(Len(stop) - 1) :
                              n <= Len(bytes) /\ IsSuffix(Take(stop, n), bytes)}
    IN  Max({0} \cup UNION {suffixes(stops[i]) : i \in DOMAIN stops})

\* classify_stop
Classified(at, start, end) ==
    IF start \in at /\ end \in at THEN "token_aligned"
    ELSE IF \E b \in at : start < b /\ b < end THEN "cross_token" ELSE "intra_token"

-----------------------------------------------------------------------------
(* push and finish.                                                        *)

Trimmed(text) ==
    LET kept == {i \in DOMAIN text : text[i] # Space}
    IN  IF kept = {} THEN <<>> ELSE SubSeq(text, Min(kept), Len(text))

\* emit_prefix, of the first n bytes of `bytes`
Emit(bytes, n) ==
    LET text  == Rendered(Take(bytes, n))
        delta == IF stripping THEN Trimmed(text) ELSE text
    IN  /\ visible' = visible \o delta
        /\ stripping' = (stripping /\ delta = <<>>)

TokenStart == IF boundaries = {} THEN pendingOffset ELSE Max(boundaries)

\* A terminal or control token: its own bytes are not shown
PushTerminal(piece) ==
    /\ finishReason = None
    /\ Emit(pending, Len(pending))
    /\ pending' = <<>>
    /\ pendingOffset' = pendingOffset + Len(pending)
    /\ boundaries' = boundaries \cup {TokenStart + Len(piece)}
    /\ finishReason' = "stop"
    /\ UNCHANGED <<stops, stopAlignment, sampled, ends>>

\* A token that completes a stop sequence
PushStop(piece) ==
    LET bytes == pending \o piece
        at    == boundaries \cup {TokenStart + Len(piece)}
        match == StopMatch(bytes)
    IN  /\ finishReason = None
        /\ Matches(bytes) # {}
        /\ Emit(bytes, match.start)
        /\ pending' = <<>>
        /\ pendingOffset' = pendingOffset + match.end
        /\ boundaries' = at
        /\ stopAlignment' = Classified(at, pendingOffset + match.start, pendingOffset + match.end)
        /\ finishReason' = "stop"
        /\ sampled' = sampled \o piece
        /\ ends' = ends \cup {Len(sampled')}
        /\ UNCHANGED stops

BoundariesFrom(at, offset) == {b \in at : b >= offset}

\* Any other token: what cannot be part of a stop sequence is shown
PushText(piece) ==
    LET bytes == pending \o piece
        safe  == Len(bytes) - LongestStopSuffix(bytes)
        shown == CompletePrefix(Take(bytes, safe))
    IN  /\ finishReason = None
        /\ Matches(bytes) = {}
        /\ Emit(bytes, shown)
        /\ pending' = SubSeq(bytes, shown + 1, Len(bytes))
        /\ pendingOffset' = pendingOffset + shown
        /\ boundaries' = BoundariesFrom(boundaries \cup {TokenStart + Len(piece)},
                                        pendingOffset')
        /\ sampled' = sampled \o piece
        /\ ends' = ends \cup {Len(sampled')}
        /\ UNCHANGED <<stops, finishReason, stopAlignment>>

\* finish, when the engine ends without a stop
Finish ==
    /\ finishReason = None
    /\ Emit(pending, Len(pending))
    /\ pending' = <<>>
    /\ pendingOffset' = pendingOffset + Len(pending)
    /\ finishReason' = "length"
    /\ UNCHANGED <<stops, boundaries, stopAlignment, sampled, ends>>

\* GenerationFrontier::new
Init ==
    /\ stops \in {list \in StopLists : Accepted(list)}
    /\ stripping \in BOOLEAN
    /\ pending = <<>> /\ pendingOffset = 0 /\ boundaries = {0}
    /\ visible = <<>>
    /\ finishReason = None /\ stopAlignment = None
    /\ sampled = <<>> /\ ends = {0}

Push(piece) == PushTerminal(piece) \/ PushStop(piece) \/ PushText(piece)

Next ==
    \/ \E piece \in Pieces : Len(sampled) + Len(piece) <= MaxBytes /\ Push(piece)
    \/ Finish

Spec == Init /\ [][Next]_vars

-----------------------------------------------------------------------------
(* Properties.                                                             *)

\* The bytes shown so far, of all that were sampled
Shown == Take(sampled, IF finishReason = "stop" /\ stopAlignment # None
                       THEN Min(UNION {StartsIn(stops[i], sampled) :
                                   i \in {j \in DOMAIN stops : Len(stops[j]) <= Len(sampled)}})
                       ELSE pendingOffset)

\* The deltas a client received are, put together, the text of the bytes shown:
\* wherever tokens split a character or a stop sequence, nothing is lost,
\* doubled or replaced, and only whitespace at the beginning is left out.
TextIsExact ==
    WellFormed(Shown) =>
        \E n \in 0..Len(Rendered(Shown)) :
            /\ visible = SubSeq(Rendered(Shown), n + 1, Len(Rendered(Shown)))
            /\ \A i \in 1..n : Rendered(Shown)[i] = Space
            /\ stripping => visible = <<>>

\* No stop sequence is ever shown, however tokens cut it into pieces.
NoStopShown ==
    \A i \in DOMAIN stops : Len(stops[i]) <= Len(Shown) => StartsIn(stops[i], Shown) = {}

\* The alignment reported for a stop is the one all token boundaries of the
\* generation give, though the frontier keeps only those of the held bytes.
AlignmentIsExact ==
    stopAlignment # None =>
        LET here == {i \in DOMAIN stops : Len(Shown) + Len(stops[i]) <= Len(sampled)
                                          /\ Len(Shown) \in StartsIn(stops[i], sampled)}
        IN  stopAlignment = Classified(ends, Len(Shown), Len(Shown) + Len(stops[Min(here)]))

=============================================================================
