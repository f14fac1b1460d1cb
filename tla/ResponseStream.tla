--------------------------- MODULE ResponseStream ---------------------------
(***************************************************************************)
(* One inference request on its way to the client: infer_response,         *)
(* infer_reserved, infer_stream_reserved, stream_row_with_state,           *)
(* completed_response and parse_function_call of crates/server/src/lib.rs  *)
(* and ResponseProjection of responses.rs.                                 *)
(*                                                                         *)
(* A blocking thread generates and sends events into a bounded channel;    *)
(* the task of the connection takes them out, makes the rows of the wire   *)
(* protocol and publishes the response before its last row.  Client,       *)
(* watchdogs and engine may stop each at any point.  Deltas are numbers in *)
(* order of generation; what the whole text says is decided when it is     *)
(* complete.                                                               *)
(***************************************************************************)
EXTENDS Naturals, Sequences, FiniteSets, SequencesExt

CONSTANTS
    StreamBuffer,  \* ServerConfig::stream_buffer
    None,
    MaxDeltas      \* bound: deltas handed on

\* what a module that instantiates this one assumes of the constants
ResponseStreamAssumption == StreamBuffer \in Nat \ {0} /\ MaxDeltas \in Nat

VARIABLES
    request,     \* protocol, streaming, tools and tool_choice
    control,     \* RequestControl: running, stopped or completed
    producer,    \* the blocking thread
    produced,    \* deltas handed on: sent, or collected for the answer
    says,        \* what the complete text is: plain, a call, a call of another function
    channel,     \* events sent and not received
    connection,  \* the task: open, ended or dropped by a disconnect
    projection,  \* ResponseProjection: text, status, sequence
    rows,        \* rows sent
    remembered,  \* whether ResponseService::remember has the response
    committed    \* whether the successor context was written

vars == <<request, control, producer, produced, says, channel, connection, projection, rows,
          remembered, committed>>

StreamRequests ==
    [protocol : {"chat"}, streaming : BOOLEAN, tools : {FALSE}, choice : {"auto"}]
    \cup [protocol : {"responses"}, streaming : BOOLEAN, tools : {TRUE},
          choice : {"auto", "none", "required"}]
    \cup [protocol : {"responses"}, streaming : BOOLEAN, tools : {FALSE}, choice : {"auto"}]

Texts == {"plain", "call", "undeclared"}

-----------------------------------------------------------------------------
(* Projections.                                                            *)

\* parse_function_call: a call, none, or a refusal
Parsed ==
    IF ~request.tools \/ request.choice = "none" THEN "none"
    ELSE IF says = "call" THEN "call"
    ELSE IF request.choice = "required" THEN "refused" ELSE "none"

\* A slip: text is held back only if a call is required.
BufferedIfRequired == request.choice = "required"

\* StreamResponse::buffer_output
Buffered == request.tools

Row(type, text) == [type |-> type, text |-> text]

\* project, of Started, Token, Finished and Error
ProjectStarted ==
    <<Row("created", <<>>)>>
    \o IF Buffered THEN <<>> ELSE <<Row("item_added", <<>>), Row("part_added", <<>>)>>

ProjectToken(delta) == IF Buffered THEN <<>> ELSE <<Row("delta", <<delta>>)>>

ProjectFinished(text, call) ==
    IF call
    THEN <<Row("call_added", <<>>), Row("call_done", <<>>), Row("completed", <<>>)>>
    ELSE (IF Buffered
          THEN <<Row("item_added", text), Row("part_added", <<>>), Row("delta", text)>>
          ELSE <<>>)
         \o <<Row("text_done", text), Row("part_done", text), Row("item_done", text),
              Row("completed", text)>>

\* project_event: every row takes the next sequence number
NumberedRow(row, n) == [type |-> row.type, text |-> row.text, sequence |-> n]

Numbered(events) ==
    [i \in DOMAIN events |-> NumberedRow(events[i], projection.sequence + i - 1)]

\* An error the stream makes up itself has none
AdHoc == NumberedRow(Row("error", <<>>), None)

\* stream_row_with_state, of the other protocols
ChatRows(event) ==
    CASE event.type = "started"  -> <<Row("start", <<>>)>>
      [] event.type = "token"    -> <<Row("delta", <<event.delta>>)>>
      [] event.type = "finished" -> <<Row("finish", <<>>), Row("DONE", <<>>)>>
      [] event.type = "error"    -> <<Row("error", <<>>)>>

Send(events) == rows' = rows \o events

-----------------------------------------------------------------------------
(* The blocking thread: infer_admitted.                                    *)

\* A slip: that the receiver is gone wakes nobody.
HasRoomForReceiver == connection = "open" /\ Len(channel) < StreamBuffer

\* blocking_send does not block: there is room, or nobody receives
HasRoom == connection # "open" \/ Len(channel) < StreamBuffer

\* A token becomes a delta: a stream begins to send it
Generate ==
    /\ producer = "generating" /\ control = "running"
    /\ Len(produced) < MaxDeltas
    /\ IF request.streaming
       THEN producer' = "sending" /\ UNCHANGED produced
       ELSE produced' = Append(produced, Len(produced) + 1) /\ UNCHANGED producer
    /\ UNCHANGED <<request, control, says, channel, connection, projection, rows, remembered,
                   committed>>

\* Inside blocking_send the thread waits for room, and looks at nothing else
SendDelta ==
    /\ producer = "sending" /\ connection = "open" /\ HasRoom
    /\ producer' = "generating"
    /\ produced' = Append(produced, Len(produced) + 1)
    /\ channel' = Append(channel, [type |-> "token", delta |-> Len(produced) + 1])
    /\ UNCHANGED <<request, control, says, connection, projection, rows, remembered, committed>>

\* The receiver is gone: the stream cancels itself
SendRefused ==
    /\ producer = "sending" /\ connection # "open"
    /\ control' = "stopped"
    /\ producer' = "error"
    /\ UNCHANGED <<request, produced, says, channel, connection, projection, rows, remembered,
                   committed>>

\* The engine fails, or the control is found stopped
GenerateFails ==
    /\ producer = "generating"
    /\ producer' = "error"
    /\ UNCHANGED <<request, control, produced, says, channel, connection, projection, rows,
                   remembered, committed>>

\* The last look at the control ...
LastCheck ==
    /\ producer = "generating" /\ control = "running"
    /\ producer' = "checked"
    /\ says' \in Texts
    /\ UNCHANGED <<request, control, produced, channel, connection, projection, rows, remembered,
                   committed>>

\* ... and the successor context, whose revision may have moved
Commit ==
    /\ producer = "checked"
    /\ \/ producer' = "finished" /\ committed' = TRUE
       \/ producer' = "error" /\ UNCHANGED committed
    /\ UNCHANGED <<request, control, produced, says, channel, connection, projection, rows,
                   remembered>>

\* The terminal event is sent, if there is room and somebody to receive it; the
\* admission and the sender are dropped
ProducerEnds ==
    /\ producer \in {"finished", "error"}
    /\ request.streaming => HasRoom
    /\ channel' = IF request.streaming /\ connection = "open"
                  THEN Append(channel, [type |-> producer]) ELSE channel
    /\ control' = IF control = "running" THEN "completed" ELSE control
    /\ producer' = IF producer = "finished" THEN "done" ELSE "failed"
    /\ UNCHANGED <<request, produced, says, connection, projection, rows, remembered, committed>>

ProducerEnded == producer \in {"done", "failed"}

-----------------------------------------------------------------------------
(* The connection: infer_response.  It makes the next row when the client  *)
(* takes it, and nothing bounds how long a client that stays may wait.     *)

Start ==
    /\ request.streaming /\ connection = "open" /\ rows = <<>>
    /\ IF request.protocol = "responses"
       THEN /\ Send(Numbered(ProjectStarted))
            /\ projection' = [projection EXCEPT !.sequence = Len(ProjectStarted)]
       ELSE Send(ChatRows([type |-> "started"])) /\ UNCHANGED projection
    /\ UNCHANGED <<request, control, producer, produced, says, channel, connection, remembered,
                   committed>>

\* A row for a token, of whatever protocol
Receive ==
    /\ connection = "open" /\ rows # <<>> /\ channel # <<>>
    /\ Head(channel).type \in {"token", "error"}
    /\ LET event  == Head(channel)
           events == IF event.type = "token" THEN ProjectToken(event.delta)
                     ELSE <<Row("error", <<>>)>>
       IN  IF request.protocol = "responses"
           THEN /\ Send(Numbered(events))
                /\ projection' =
                     [projection EXCEPT !.sequence = @ + Len(events),
                                        !.text = IF event.type = "token"
                                                 THEN Append(@, event.delta) ELSE @]
           ELSE Send(ChatRows(event)) /\ UNCHANGED projection
    /\ channel' = Tail(channel)
    /\ UNCHANGED <<request, control, producer, produced, says, connection, remembered, committed>>

ReceiveFinished ==
    /\ connection = "open" /\ rows # <<>> /\ channel # <<>>
    /\ Head(channel).type = "finished"
    /\ channel' = Tail(channel)
    /\ UNCHANGED <<request, control, producer, produced, says, connection, committed>>

\* The end of a chat or completion
FinishChat ==
    /\ request.protocol = "chat"
    /\ ReceiveFinished
    /\ Send(ChatRows([type |-> "finished"]))
    /\ UNCHANGED <<projection, remembered>>

\* What was generated is not what tool_choice requires
FinishRefused ==
    /\ request.protocol = "responses" /\ Parsed = "refused"
    /\ ReceiveFinished
    /\ Send(<<AdHoc>>)
    /\ UNCHANGED <<projection, remembered>>

\* The response is completed, remembered, and only then shown as completed; the
\* store may refuse it
FinishResponse ==
    LET events == ProjectFinished(projection.text, Parsed = "call") IN
    /\ request.protocol = "responses" /\ Parsed # "refused"
    /\ ReceiveFinished
    /\ projection' = [projection EXCEPT !.status = "completed", !.sequence = @ + Len(events)]
    /\ \/ remembered' = TRUE /\ Send(Numbered(events))
       \/ UNCHANGED remembered /\ Send(<<AdHoc>>)

\* The channel is empty and its sender gone: the guard is disarmed
EndStream ==
    /\ request.streaming /\ connection = "open" /\ rows # <<>>
    /\ channel = <<>> /\ ProducerEnded
    /\ connection' = "ended"
    /\ UNCHANGED <<request, control, producer, produced, says, channel, projection, rows,
                   remembered, committed>>

\* Without streaming the handler waits for the thread and answers at once
Answer ==
    /\ ~request.streaming /\ connection = "open" /\ ProducerEnded
    /\ connection' = "ended"
    /\ \/ /\ producer = "done"
          /\ request.protocol = "responses" => Parsed # "refused"
          /\ remembered' = (request.protocol = "responses")
          /\ Send(<<Row("answer", IF Parsed = "call" THEN <<>> ELSE produced)>>)
       \/ /\ producer = "failed" \/ request.protocol = "responses"
          /\ Send(<<Row("error", <<>>)>>)
          /\ UNCHANGED remembered
    /\ UNCHANGED <<request, control, producer, produced, says, channel, projection, committed>>

\* The client goes away: the receiver and an armed DisconnectGuard are dropped
Disconnect ==
    /\ connection = "open"
    /\ connection' = "dropped"
    /\ channel' = <<>>
    /\ control' = IF control = "running" THEN "stopped" ELSE control
    /\ UNCHANGED <<request, producer, produced, says, projection, rows, remembered, committed>>

\* A watchdog or a cancel request
Stop ==
    /\ control = "running"
    /\ control' = "stopped"
    /\ UNCHANGED <<request, producer, produced, says, channel, connection, projection, rows,
                   remembered, committed>>

Init ==
    /\ request \in StreamRequests
    /\ control = "running"
    /\ producer = "generating"
    /\ produced = <<>>
    /\ says = None
    /\ channel = <<>>
    /\ connection = "open"
    /\ projection = [text |-> <<>>, status |-> "in_progress", sequence |-> 0]
    /\ rows = <<>>
    /\ remembered = FALSE
    /\ committed = FALSE

Produce == Generate \/ SendDelta \/ SendRefused \/ GenerateFails \/ LastCheck \/ Commit \/ ProducerEnds

Serve == Start \/ Receive \/ FinishChat \/ FinishRefused \/ FinishResponse \/ EndStream \/ Answer

Next == Produce \/ Serve \/ Disconnect \/ Stop

Spec == Init /\ [][Next]_vars

-----------------------------------------------------------------------------
(* Properties.                                                             *)

\* The thread is inside blocking_send, of a delta or of the terminal event, and the
\* channel is full
Held ==
    /\ request.streaming /\ producer \in {"sending", "finished", "error"}
    /\ connection = "open" /\ Len(channel) = StreamBuffer

\* The inference thread ends, whatever fails, stops or goes away, or a client that
\* stays and takes nothing more holds it for good.
ThreadEnds == <>ProducerEnded \/ <>[]Held

\* What the rows of a type say together
TextIn(some, type) ==
    FlattenSeq([i \in DOMAIN some |-> IF some[i].type = type THEN some[i].text ELSE <<>>])

TextOf(type) == TextIn(rows, type)

Completed == \E i \in DOMAIN rows : rows[i].type = "completed"

\* "Terminal response reconstruction is consistent with the deltas and completed
\* output items": what a client of a stream put together from the deltas is the
\* completed response, of a function call it saw no text, and the sequence numbers
\* tell it that it missed nothing.
RowsRebuildResponse ==
    /\ Completed => /\ TextOf("delta") = TextOf("completed")
                    /\ TextOf("text_done") = TextOf("completed")
                    /\ TextOf("completed") = IF Parsed = "call" THEN <<>> ELSE produced
    /\ request.protocol = "responses" /\ request.streaming =>
         \A i \in DOMAIN rows : rows[i].sequence \in {i - 1, None}

\* A client that was told the response is complete finds it when it asks for it
\* or continues it, and its context was written.
CompletedIsPublished ==
    Completed \/ (\E i \in DOMAIN rows : rows[i].type = "answer") =>
        committed /\ (request.protocol = "responses" => remembered)

\* A stream that has ended told the client how: its last row, and no row before
\* it, is terminal.
EndsOnce ==
    connection = "ended" =>
        {i \in DOMAIN rows : rows[i].type \in {"completed", "error", "DONE", "answer"}} =
            {Len(rows)}

=============================================================================
