---------------------------- MODULE Diagnostics -----------------------------
(***************************************************************************)
(* The diagnostics of the workload scheduler: SchedulerDiagnostics of      *)
(* crates/server/src/scheduler.rs.  The scheduler thread emits a record    *)
(* per decision into a bounded channel and never waits: what does not fit  *)
(* is counted as lost and reported in a summary record once there is room. *)
(* A thread of its own writes the records out; flush_diagnostics waits for *)
(* it.  Every step that another thread may come in between is an action.   *)
(* Records can always be serialized.                                       *)
(***************************************************************************)
EXTENDS Integers, Sequences, FiniteSetsExt

CONSTANTS
    Capacity,    \* of the channel
    MaxRecords   \* bound: decisions

\* what a module that instantiates this one assumes of the constants
DiagnosticsAssumption == Capacity \in Nat \ {0} /\ MaxRecords \in Nat

VARIABLES
    channel,    \* records sent: the losses a summary reports, 0 in a decision
    emitted, delivered, lost,  \* the counters
    pending,    \* DiagnosticLoss::pending_total
    emitter,    \* the scheduler thread, in emit
    decisions,  \* decisions so far
    worker,     \* the diagnostics thread and the record it has
    written,    \* records the sink was given
    sent,       \* records the channel took, so far
    flush       \* flush_diagnostics

vars == <<channel, emitted, delivered, lost, pending, emitter, decisions, worker, written, sent, flush>>

Room == Len(channel) < Capacity

Sends(record) ==
    /\ channel' = Append(channel, record)
    /\ sent' = Append(sent, record)

-----------------------------------------------------------------------------
(* The scheduler thread.                                                   *)

Emit ==
    /\ emitter = "idle"
    /\ decisions < MaxRecords
    /\ decisions' = decisions + 1
    /\ emitter' = IF pending = 0 THEN "send" ELSE "summary"
    /\ UNCHANGED <<channel, emitted, delivered, lost, pending, worker, written, sent, flush>>

\* flush_loss_summary: the losses are reported if the channel takes the summary
SendSummary ==
    /\ emitter = "summary"
    /\ \/ Room /\ Sends(pending) /\ emitter' = "count_summary"
       \/ ~Room /\ emitter' = "send" /\ UNCHANGED <<channel, sent>>
    /\ UNCHANGED <<emitted, delivered, lost, pending, decisions, worker, written, flush>>

CountSummary ==
    /\ emitter = "count_summary"
    /\ emitted' = emitted + 1
    /\ emitter' = "clear"
    /\ UNCHANGED <<channel, delivered, lost, pending, decisions, worker, written, sent, flush>>

ClearLosses ==
    /\ emitter = "clear"
    /\ pending' = 0
    /\ emitter' = "send"
    /\ UNCHANGED <<channel, emitted, delivered, lost, decisions, worker, written, sent, flush>>

\* try_send of the record, or record_loss
Send ==
    /\ emitter = "send"
    /\ \/ /\ Room
          /\ Sends(0)
          /\ emitter' = "count"
          /\ UNCHANGED <<lost, pending>>
       \/ /\ ~Room
          /\ lost' = lost + 1
          /\ pending' = pending + 1
          /\ emitter' = "idle"
          /\ UNCHANGED <<channel, sent>>
    /\ UNCHANGED <<emitted, delivered, decisions, worker, written, flush>>

Count ==
    /\ emitter = "count"
    /\ emitted' = emitted + 1
    /\ emitter' = "idle"
    /\ UNCHANGED <<channel, delivered, lost, pending, decisions, worker, written, sent, flush>>

-----------------------------------------------------------------------------
(* The diagnostics thread.                                                 *)

\* A slip: a record is counted when it is received.
ReceiveCounted ==
    /\ worker.pc = "recv"
    /\ channel # <<>>
    /\ worker' = [pc |-> "sink", record |-> Head(channel)]
    /\ channel' = Tail(channel)
    /\ delivered' = delivered + 1
    /\ UNCHANGED <<emitted, lost, pending, emitter, decisions, written, sent, flush>>

Receive ==
    /\ worker.pc = "recv"
    /\ channel # <<>>
    /\ worker' = [pc |-> "sink", record |-> Head(channel)]
    /\ channel' = Tail(channel)
    /\ UNCHANGED <<emitted, delivered, lost, pending, emitter, decisions, written, sent, flush>>

Sink ==
    /\ worker.pc = "sink"
    /\ written' = Append(written, worker.record)
    /\ worker' = [worker EXCEPT !.pc = "count"]
    /\ UNCHANGED <<channel, emitted, delivered, lost, pending, emitter, decisions, sent, flush>>

CountDelivered ==
    /\ worker.pc = "count"
    /\ delivered' = delivered + 1
    /\ worker' = [worker EXCEPT !.pc = "recv"]
    /\ UNCHANGED <<channel, emitted, lost, pending, emitter, decisions, written, sent, flush>>

-----------------------------------------------------------------------------
(* flush_diagnostics.                                                      *)

\* The records whose emit has returned by now
Emitted == Len(sent) - IF emitter \in {"count", "count_summary"} THEN 1 ELSE 0

FlushBegin ==
    /\ flush.pc # "waits"
    /\ flush' = [pc |-> "waits", target |-> emitted, owed |-> Emitted]
    /\ UNCHANGED <<channel, emitted, delivered, lost, pending, emitter, decisions, worker, written, sent>>

\* All that was counted is delivered, or the time is over
FlushEnds ==
    /\ flush.pc = "waits"
    /\ \/ delivered >= flush.target /\ flush' = [flush EXCEPT !.pc = "flushed"]
       \/ delivered < flush.target /\ flush' = [flush EXCEPT !.pc = "timed_out"]
    /\ UNCHANGED <<channel, emitted, delivered, lost, pending, emitter, decisions, worker, written, sent>>

Init ==
    /\ channel = <<>> /\ sent = <<>> /\ written = <<>>
    /\ emitted = 0 /\ delivered = 0 /\ lost = 0 /\ pending = 0
    /\ emitter = "idle" /\ decisions = 0
    /\ worker = [pc |-> "recv", record |-> 0]
    /\ flush = [pc |-> "none", target |-> 0, owed |-> 0]

Next ==
    \/ Emit \/ SendSummary \/ CountSummary \/ ClearLosses \/ Send \/ Count
    \/ Receive \/ Sink \/ CountDelivered
    \/ FlushBegin \/ FlushEnds

Spec == Init /\ [][Next]_vars

-----------------------------------------------------------------------------
(* Properties.                                                             *)

\* No record disappears unreported and none is reported twice: what summaries have
\* reported and what is pending add up to the records lost.
LossesReported ==
    lost = MapThenSumSet(LAMBDA i : sent[i], DOMAIN sent)
           + IF emitter \in {"count_summary", "clear"} THEN 0 ELSE pending

\* A flush that says so has seen every record written whose emit had returned when
\* it began, although sending a record and counting it are two steps.
FlushDelivers == flush.pc = "flushed" => Len(written) >= flush.owed

=============================================================================
