----------------------------- MODULE Scheduler -----------------------------
(***************************************************************************)
(* The workload scheduler of crates/server/src/scheduler.rs: client        *)
(* sessions on request threads, one scheduler thread that owns the job     *)
(* table and the runnable queue, and one worker thread per model slot.     *)
(* They share nothing but channels:                                        *)
(*   - events: commands of the clients and completions of the workers;     *)
(*   - chan[i]: the response channel of session i;                         *)
(*   - tasks[s]: the task channel of the worker of slot s.                 *)
(* Every handler of the scheduler thread is one action: it owns its state, *)
(* and all it does for others is to send.                                  *)
(*                                                                         *)
(* Abstractions.  A job is the identifier of its session.  The choice the  *)
(* deficit round robin makes is any head of a flow.  Token text,           *)
(* diagnostics and metrics other than `waiting` are left out.  What a      *)
(* quantum returns is chosen by the engine, which is external here.        *)
(***************************************************************************)
EXTENDS Integers, Sequences, FiniteSets, SequencesExt

CONSTANTS
    Sessions,     \* session ids (next_id: never reused)
    Slots,        \* model slots: (model id, model epoch)
    Flows,        \* flows: (principal, class)
    SlotOf,       \* the slot of a session's model
    FlowOf,       \* the flow of a session's request
    MaxQuanta     \* bound: quanta an engine session may run before it ends

ASSUME SessionsAssumption == IsFiniteSet(Sessions) /\ Sessions # {}
ASSUME SlotOfAssumption == SlotOf \in [Sessions -> Slots]
ASSUME FlowOfAssumption == FlowOf \in [Sessions -> Flows]
ASSUME MaxQuantaAssumption == MaxQuanta \in Nat

VARIABLES
    phase,            \* the loop of the scheduler thread
    events,           \* its event channel
    jobs,             \* ids in the job table
    holds,            \* what the job of an id holds: request, session, none
    inFlight,         \* Job::in_flight
    cancelRequested,  \* Job::cancel_requested
    runnable,         \* FairPolicy::runnable
    slots,            \* slots with a worker
    busy,             \* SlotWorker::busy
    tasks,            \* task channels of the workers
    waiting,          \* SchedulerCounters::waiting
    pc,               \* where the owner of a client session is
    chan,             \* response channels
    quanta            \* engine: quanta left of a session (bound)

schedVars == <<jobs, holds, inFlight, cancelRequested, runnable, waiting>>
slotVars == <<slots, busy, tasks, quanta>>
clientVars == <<pc, chan>>
vars == <<phase, events, schedVars, slotVars, clientVars>>

-----------------------------------------------------------------------------
Commands == {"Submit", "Continue", "Stop", "Cancel"}
Results == {"Progress", "Token", "Finished", "Err"}
Messages == {"Token", "Finished", "Cancelled", "Failed"}

\* SchedulerEvent.  The result of a command and the session of the shutdown
\* mean nothing.
Command(type, i) == [type |-> type, id |-> i, result |-> "Progress"]
AnySession == CHOOSE i \in Sessions : TRUE
Completion(i, r) == [type |-> "Completed", id |-> i, result |-> r]
Events == [type : Commands \cup {"Shutdown", "Completed"},
           id : Sessions, result : Results]

\* SlotTask: Start takes the request, Step and Finish the engine session.
Task(i, action) == [id |-> i, action |-> action]
Tasks == [id : Sessions, action : {"Start", "Step", "Finish"}]

Phases == {"running", "draining", "joining", "stopped"}
Places == {"new", "open", "receiving", "token", "finishing", "failed",
           "finished", "dropped"}

\* FairPolicy::remove.  It drops every entry of a session; no session ever has
\* two (OneOwner), so it is the entry of the session.
Without(s, i) ==
    IF i \in ToSet(s) THEN RemoveAt(s, CHOOSE k \in 1..Len(s) : s[k] = i) ELSE s

\* The scheduler's end of a response channel: it lives in the Submit command,
\* then in the job.  A receive on an empty channel without it is an error.
SenderAlive(i) ==
    \/ i \in jobs
    \/ \E k \in 1..Len(events) : events[k].type = "Submit" /\ events[k].id = i

\* Sender::send on a response channel: an error once the receiver is dropped.
ReceiverAlive(i) == pc[i] # "dropped"
Deliver(i, m) ==
    chan' = IF ReceiverAlive(i) THEN [chan EXCEPT ![i] = Append(@, m)] ELSE chan

\* Sender::send of a client on the event channel: its receiver is gone once
\* the scheduler thread has returned.
SendEvent(e) == events' = IF phase = "stopped" THEN events ELSE Append(events, e)

-----------------------------------------------------------------------------
(* Client sessions: SchedulerClientSession, driven by the generate loop.   *)

\* start_session: a fresh id, and a Submit that carries the response sender.
\* It borrows the scheduler, so it never overlaps or follows its drop.
StartSession(i) ==
    /\ pc[i] = "new"
    /\ phase = "running"
    /\ \A k \in 1..Len(events) : events[k].type # "Shutdown"
    /\ SendEvent(Command("Submit", i))
    /\ pc' = [pc EXCEPT ![i] = "open"]
    /\ UNCHANGED <<phase, schedVars, slotVars, chan>>

\* step: the acknowledgement of the last token, if any, then a receive.
Step(i) ==
    /\ \/ /\ pc[i] = "open"
          /\ pc' = [pc EXCEPT ![i] = "receiving"]
          /\ UNCHANGED events
       \/ /\ pc[i] = "token"
          /\ pc' = [pc EXCEPT ![i] = IF phase = "stopped" THEN "failed"
                                                          ELSE "receiving"]
          /\ SendEvent(Command("Continue", i))
    /\ UNCHANGED <<phase, schedVars, slotVars, chan>>

\* finish: Stop while a token is unacknowledged, Cancel otherwise.
Finish(i) ==
    /\ pc[i] \in {"open", "token"}
    /\ SendEvent(Command(IF pc[i] = "token" THEN "Stop" ELSE "Cancel", i))
    /\ pc' = [pc EXCEPT ![i] = IF phase = "stopped" THEN "failed" ELSE "finishing"]
    /\ UNCHANGED <<phase, schedVars, slotVars, chan>>

\* receive: one message, or an error when the sender is gone.  finish takes
\* nothing but Finished: "scheduler returned work after stop".
Receive(i) ==
    /\ pc[i] \in {"receiving", "finishing"}
    /\ \/ /\ chan[i] # <<>>
          /\ pc' = [pc EXCEPT ![i] =
                      CASE Head(chan[i]) = "Finished" -> "finished"
                        [] Head(chan[i]) = "Token" /\ pc[i] = "receiving" -> "token"
                        [] OTHER -> "failed"]
          /\ chan' = [chan EXCEPT ![i] = Tail(@)]
       \/ /\ chan[i] = <<>>
          /\ ~SenderAlive(i)
          /\ pc' = [pc EXCEPT ![i] = "failed"]
          /\ UNCHANGED chan
    /\ UNCHANGED <<phase, events, schedVars, slotVars>>

\* Drop of an unfinished session: after an error of step or finish, or when
\* the token sink fails.  It cancels the request and drops the receiver.
Drop(i) ==
    /\ pc[i] \in {"open", "token", "failed"}
    /\ SendEvent(Command("Cancel", i))
    /\ pc' = [pc EXCEPT ![i] = "dropped"]
    /\ chan' = [chan EXCEPT ![i] = <<>>]
    /\ UNCHANGED <<phase, schedVars, slotVars>>

-----------------------------------------------------------------------------
(* Slot workers: spawn_slot.                                               *)

\* One task: the engine starts, steps or finishes the session (a panic is an
\* error), and the completion goes back to the scheduler.
RunTask(s) ==
    /\ tasks[s] # <<>>
    /\ LET t == Head(tasks[s])
           more == IF quanta[t.id] = 0 THEN {} ELSE {"Progress", "Token"}
       IN \E r \in Results :
            /\ r \in CASE t.action = "Start" -> {"Progress", "Err"}
                       [] t.action = "Step" -> more \cup {"Finished", "Err"}
                       [] t.action = "Finish" -> {"Finished", "Err"}
            /\ events' = Append(events, Completion(t.id, r))
            /\ quanta' = IF t.action = "Step" /\ r \in {"Progress", "Token"}
                         THEN [quanta EXCEPT ![t.id] = @ - 1]
                         ELSE quanta
    /\ tasks' = [tasks EXCEPT ![s] = Tail(@)]
    /\ UNCHANGED <<phase, schedVars, slots, busy, clientVars>>

-----------------------------------------------------------------------------
(* The scheduler thread: run_scheduler.                                    *)

\* The filter dispatch_one gives to the policy.
Available(i) == i \in jobs /\ i \notin inFlight /\ SlotOf[i] \notin busy

\* FairPolicy::select keeps one candidate per flow, its first available entry.
IsFlowHead(k) ==
    /\ Available(runnable[k])
    /\ \A l \in 1..(k - 1) :
         FlowOf[runnable[l]] = FlowOf[runnable[k]] => ~Available(runnable[l])

\* `while dispatch_one {}`: an event is received only when nothing is left
\* to dispatch.
Dispatchable == \E k \in 1..Len(runnable) : IsFlowHead(k)

\* send_terminal and the removal of the job that precedes it.
RemoveJob(i, m) ==
    /\ jobs' = jobs \ {i}
    /\ holds' = [holds EXCEPT ![i] = "none"]
    /\ inFlight' = inFlight \ {i}
    /\ cancelRequested' = cancelRequested \ {i}
    /\ Deliver(i, m)

\* The slot worker gets a task, and is spawned first if there is none.
SendTask(i, action) ==
    /\ slots' = slots \cup {SlotOf[i]}
    /\ busy' = busy \cup {SlotOf[i]}
    /\ tasks' = [tasks EXCEPT ![SlotOf[i]] = Append(@, Task(i, action))]
    /\ inFlight' = inFlight \cup {i}
    /\ holds' = [holds EXCEPT ![i] = "none"]

\* dispatch_one: the request starts a session, a session runs a quantum.
Dispatch ==
    /\ phase = "running"
    /\ \E k \in 1..Len(runnable) :
         LET i == runnable[k] IN
         /\ IsFlowHead(k)
         /\ runnable' = RemoveAt(runnable, k)
         /\ SendTask(i, IF holds[i] = "request" THEN "Start" ELSE "Step")
    /\ UNCHANGED <<phase, events, jobs, cancelRequested, waiting, quanta, clientVars>>

\* dispatch_one when the thread of the slot cannot be spawned: the job ends.
DispatchSpawnFails ==
    /\ phase = "running"
    /\ \E k \in 1..Len(runnable) :
         LET i == runnable[k] IN
         /\ IsFlowHead(k)
         /\ SlotOf[i] \notin slots
         /\ runnable' = RemoveAt(runnable, k)
         /\ RemoveJob(i, "Failed")
    /\ UNCHANGED <<phase, events, waiting, slotVars, pc>>

\* recv in the loop, for an event of this type
Take(type, i) ==
    /\ ~Dispatchable
    /\ events # <<>>
    /\ Head(events).type = type
    /\ Head(events).id = i
    /\ events' = Tail(events)

\* Command::Submit
HandleSubmit(i) ==
    /\ phase = "running"
    /\ Take("Submit", i)
    /\ jobs' = jobs \cup {i}
    /\ holds' = [holds EXCEPT ![i] = "request"]
    /\ runnable' = Append(runnable, i)
    /\ UNCHANGED <<phase, inFlight, cancelRequested, waiting, slotVars, clientVars>>

\* Command::Continue
HandleContinue(i) ==
    /\ phase = "running"
    /\ Take("Continue", i)
    /\ IF i \in jobs
       THEN /\ runnable' = Append(runnable, i)
            /\ waiting' = waiting - 1
       ELSE UNCHANGED <<runnable, waiting>>
    /\ UNCHANGED <<phase, jobs, holds, inFlight, cancelRequested, slotVars, clientVars>>

\* Command::Stop.  The counter goes down whether or not the job is there.  The
\* task is sent whatever the slot is doing: it may queue behind another one.
HandleStop(i) ==
    /\ phase = "running"
    /\ Take("Stop", i)
    /\ waiting' = waiting - 1
    /\ runnable' = Without(runnable, i)
    /\ IF i \in jobs
       THEN IF holds[i] = "session"
            THEN SendTask(i, "Finish") /\ UNCHANGED cancelRequested
            ELSE /\ cancelRequested' = cancelRequested \cup {i}
                 /\ UNCHANGED <<slots, busy, tasks, inFlight, holds>>
       ELSE UNCHANGED <<slots, busy, tasks, inFlight, holds, cancelRequested>>
    /\ UNCHANGED <<phase, jobs, quanta, clientVars>>

\* A slip: the counter goes down for a job that was queued to run, too.
HandleCancelMiscounts(i) ==
    /\ phase = "running"
    /\ Take("Cancel", i)
    /\ runnable' = Without(runnable, i)
    /\ \/ /\ i \in jobs /\ i \notin inFlight
          /\ waiting' = IF holds[i] = "session" THEN waiting - 1 ELSE waiting
          /\ RemoveJob(i, "Cancelled")
       \/ /\ i \in jobs /\ i \in inFlight
          /\ cancelRequested' = cancelRequested \cup {i}
          /\ UNCHANGED <<jobs, holds, inFlight, waiting, chan>>
       \/ /\ i \notin jobs
          /\ UNCHANGED <<jobs, holds, inFlight, cancelRequested, waiting, chan>>
    /\ UNCHANGED <<phase, slotVars, pc>>

\* A slip: the client of a job in flight is answered before its quantum is back.
HandleCancelAnswersEarly(i) ==
    /\ phase = "running"
    /\ Take("Cancel", i)
    /\ runnable' = Without(runnable, i)
    /\ IF i \in jobs
       THEN /\ Deliver(i, "Cancelled")
            /\ waiting' = IF holds[i] = "session" /\ i \notin ToSet(runnable)
                          THEN waiting - 1 ELSE waiting
            /\ IF i \in inFlight
               THEN /\ cancelRequested' = cancelRequested \cup {i}
                    /\ UNCHANGED <<jobs, holds, inFlight>>
               ELSE /\ jobs' = jobs \ {i}
                    /\ holds' = [holds EXCEPT ![i] = "none"]
                    /\ UNCHANGED <<inFlight, cancelRequested>>
       ELSE UNCHANGED <<jobs, holds, inFlight, cancelRequested, waiting, chan>>
    /\ UNCHANGED <<phase, slotVars, pc>>

\* Command::Cancel: a job in flight is cancelled when its quantum is back.
\* The worker of the slot stays, even when this was its last job.
HandleCancel(i) ==
    /\ phase = "running"
    /\ Take("Cancel", i)
    /\ runnable' = Without(runnable, i)
    /\ \/ /\ i \in jobs /\ i \notin inFlight
          /\ waiting' = IF holds[i] = "session" /\ i \notin ToSet(runnable)
                        THEN waiting - 1 ELSE waiting
          /\ RemoveJob(i, "Cancelled")
       \/ /\ i \in jobs /\ i \in inFlight
          /\ cancelRequested' = cancelRequested \cup {i}
          /\ UNCHANGED <<jobs, holds, inFlight, waiting, chan>>
       \/ /\ i \notin jobs
          /\ UNCHANGED <<jobs, holds, inFlight, cancelRequested, waiting, chan>>
    /\ UNCHANGED <<phase, slotVars, pc>>

\* retire_slot_if_idle, after job i is gone: the worker is told to stop and
\* joined by the scheduler thread.
RetireSlotIfIdle(i) ==
    slots' = IF \E j \in jobs \ {i} : SlotOf[j] = SlotOf[i]
             THEN slots ELSE slots \ {SlotOf[i]}

\* handle_completion for a job that goes on or ends
CompletionEnds(i, r) ==
    \/ i \in cancelRequested
    \/ r \in {"Finished", "Err"}
    \/ r = "Token" /\ ~ReceiverAlive(i)

\* A slip: a quantum that finished is reported although it was cancelled.
TerminalIgnoresCancel(i, r) ==
    IF r = "Finished" THEN "Finished"
    ELSE IF i \in cancelRequested \/ r = "Token" THEN "Cancelled" ELSE "Failed"

\* What the client of a job that ends is told
Terminal(i, r) ==
    IF i \in cancelRequested \/ r = "Token" THEN "Cancelled"
    ELSE IF r = "Finished" THEN "Finished" ELSE "Failed"

CompleteTerminal(i, r) ==
    /\ CompletionEnds(i, r)
    /\ RemoveJob(i, Terminal(i, r))
    /\ RetireSlotIfIdle(i)
    /\ UNCHANGED <<runnable, waiting>>

\* A slip: the job is queued again although its consumer has not answered.
CompleteTokenRunsAhead(i, r) ==
    /\ ~CompletionEnds(i, r)
    /\ r = "Token"
    /\ Deliver(i, "Token")
    /\ waiting' = waiting + 1
    /\ runnable' = Append(runnable, i)
    /\ inFlight' = inFlight \ {i}
    /\ holds' = [holds EXCEPT ![i] = "session"]
    /\ UNCHANGED <<jobs, cancelRequested, slots>>

\* wait_for_consumer: the token goes out and the job waits to be continued.
CompleteToken(i, r) ==
    /\ ~CompletionEnds(i, r)
    /\ r = "Token"
    /\ Deliver(i, "Token")
    /\ waiting' = waiting + 1
    /\ inFlight' = inFlight \ {i}
    /\ holds' = [holds EXCEPT ![i] = "session"]
    /\ UNCHANGED <<jobs, cancelRequested, runnable, slots>>

\* A slip: a job that made progress is not queued again.
CompleteProgressForgets(i, r) ==
    /\ ~CompletionEnds(i, r)
    /\ r = "Progress"
    /\ inFlight' = inFlight \ {i}
    /\ holds' = [holds EXCEPT ![i] = "session"]
    /\ UNCHANGED <<jobs, cancelRequested, runnable, waiting, chan, slots>>

CompleteProgress(i, r) ==
    /\ ~CompletionEnds(i, r)
    /\ r = "Progress"
    /\ runnable' = Append(runnable, i)
    /\ inFlight' = inFlight \ {i}
    /\ holds' = [holds EXCEPT ![i] = "session"]
    /\ UNCHANGED <<jobs, cancelRequested, waiting, chan, slots>>

\* The scheduler may handle an event while it drains, until the slots are idle.
Draining == phase = "draining" /\ busy # {}

\* A slip: the slot is never marked idle again.
HandleCompletionStaysBusy(i) ==
    /\ phase = "running" \/ Draining
    /\ Take("Completed", i)
    /\ IF i \in jobs
       THEN \/ CompleteTerminal(i, Head(events).result)
            \/ CompleteToken(i, Head(events).result)
            \/ CompleteProgress(i, Head(events).result)
       ELSE UNCHANGED <<slots, schedVars, chan>>
    /\ UNCHANGED <<phase, busy, tasks, quanta, pc>>

\* handle_completion
HandleCompletion(i) ==
    /\ phase = "running" \/ Draining
    /\ Take("Completed", i)
    /\ IF i \in jobs
       THEN /\ busy' = busy \ {SlotOf[i]}
            /\ \/ CompleteTerminal(i, Head(events).result)
               \/ CompleteToken(i, Head(events).result)
               \/ CompleteProgress(i, Head(events).result)
       ELSE UNCHANGED <<busy, slots, schedVars, chan>>
    /\ UNCHANGED <<phase, tasks, quanta, pc>>

-----------------------------------------------------------------------------
(* Shutdown: Drop of WorkloadScheduler and the end of run_scheduler.       *)

\* Drop sends Shutdown and joins.
DropScheduler ==
    /\ phase = "running"
    /\ \A k \in 1..Len(events) : events[k].type # "Shutdown"
    /\ SendEvent(Command("Shutdown", AnySession))
    /\ UNCHANGED <<phase, schedVars, slotVars, clientVars>>

\* Command::Shutdown
HandleShutdown ==
    /\ phase = "running"
    /\ Take("Shutdown", AnySession)
    /\ phase' = "draining"
    /\ runnable' = <<>>
    /\ cancelRequested' = jobs
    /\ UNCHANGED <<jobs, holds, inFlight, waiting, slotVars, clientVars>>

\* A command that arrives while the scheduler drains: a Submit is refused,
\* the others are ignored.
DiscardCommand ==
    /\ Draining
    /\ events # <<>>
    /\ Head(events).type \in Commands
    /\ events' = Tail(events)
    /\ IF Head(events).type = "Submit"
       THEN Deliver(Head(events).id, "Failed") ELSE UNCHANGED chan
    /\ UNCHANGED <<phase, schedVars, slotVars, pc>>

\* A slip: the loop waits for the jobs to end instead of for the slots.
CancelAllJobsWaits ==
    /\ phase = "draining"
    /\ jobs = {}
    /\ phase' = "joining"
    /\ UNCHANGED <<events, schedVars, slotVars, clientVars>>

\* No slot is busy: cancel_all_jobs, then shutdown_slots closes the workers.
CancelAllJobs ==
    /\ phase = "draining"
    /\ busy = {}
    /\ phase' = "joining"
    /\ chan' = [i \in Sessions |-> IF i \in jobs /\ ReceiverAlive(i)
                                   THEN Append(chan[i], "Cancelled") ELSE chan[i]]
    /\ jobs' = {}
    /\ holds' = [i \in Sessions |-> "none"]
    /\ inFlight' = {}
    /\ cancelRequested' = {}
    /\ UNCHANGED <<events, runnable, waiting, slotVars, pc>>

\* The last worker is joined and run_scheduler returns: the event channel goes
\* with it, and so does what is still in it.
JoinSlots ==
    /\ phase = "joining"
    /\ \A s \in Slots : tasks[s] = <<>>
    /\ phase' = "stopped"
    /\ slots' = {}
    /\ events' = <<>>
    /\ UNCHANGED <<schedVars, busy, tasks, quanta, clientVars>>

-----------------------------------------------------------------------------
Init ==
    /\ phase = "running"
    /\ events = <<>>
    /\ jobs = {}
    /\ holds = [i \in Sessions |-> "none"]
    /\ inFlight = {}
    /\ cancelRequested = {}
    /\ runnable = <<>>
    /\ slots = {}
    /\ busy = {}
    /\ tasks = [s \in Slots |-> <<>>]
    /\ waiting = 0
    /\ pc = [i \in Sessions |-> "new"]
    /\ chan = [i \in Sessions |-> <<>>]
    /\ quanta \in [Sessions -> 0..MaxQuanta]

Client(i) == StartSession(i) \/ Step(i) \/ Finish(i) \/ Receive(i) \/ Drop(i)

Handle(i) ==
    \/ HandleSubmit(i) \/ HandleContinue(i) \/ HandleStop(i)
    \/ HandleCancel(i) \/ HandleCompletion(i)

SchedulerThread ==
    \/ Dispatch \/ DispatchSpawnFails
    \/ \E i \in Sessions : Handle(i)
    \/ HandleShutdown \/ DiscardCommand \/ CancelAllJobs \/ JoinSlots

\* Everything has been dropped and joined.
Terminated ==
    /\ phase = "stopped"
    /\ \A i \in Sessions : pc[i] \in {"new", "finished", "dropped"}
    /\ UNCHANGED vars

Next ==
    \/ \E i \in Sessions : Client(i)
    \/ \E s \in Slots : RunTask(s)
    \/ SchedulerThread
    \/ DropScheduler
    \/ Terminated

Spec == Init /\ [][Next]_vars

\* Threads that can run do run, and a client that has a message takes it.  Nothing
\* makes a client call step, finish or drop, or the daemon drop its scheduler.
Fairness ==
    /\ WF_vars(SchedulerThread)
    /\ \A s \in Slots : WF_vars(RunTask(s))
    /\ \A i \in Sessions : WF_vars(Receive(i))

-----------------------------------------------------------------------------
(* Properties.                                                             *)

TypeOK ==
    /\ phase \in Phases
    /\ events \in Seq(Events)
    /\ jobs \subseteq Sessions
    /\ holds \in [Sessions -> {"request", "session", "none"}]
    /\ inFlight \subseteq jobs
    /\ cancelRequested \subseteq jobs
    /\ runnable \in Seq(Sessions)
    /\ slots \subseteq Slots
    /\ busy \subseteq slots
    /\ tasks \in [Slots -> Seq(Tasks)]
    /\ waiting \in Int
    /\ pc \in [Sessions -> Places]
    /\ chan \in [Sessions -> Seq(Messages)]
    /\ quanta \in [Sessions -> 0..MaxQuanta]

\* The loop still handles events.
Serving == phase \in {"running", "draining"}

HasTask(i) ==
    \E s \in Slots : \E k \in 1..Len(tasks[s]) : tasks[s][k].id = i

IsCompletion(k, i) == events[k].type = "Completed" /\ events[k].id = i
HasCompletion(i) == \E k \in 1..Len(events) : IsCompletion(k, i)

\* Work that has left the job table belongs to a job in flight, of that slot ...
WorkIsOwned ==
    /\ \A s \in Slots : \A k \in 1..Len(tasks[s]) :
         tasks[s][k].id \in inFlight /\ SlotOf[tasks[s][k].id] = s
    /\ \A k \in 1..Len(events) :
         events[k].type = "Completed" => events[k].id \in inFlight

\* ... and is in one place only.
WorkIsUnique ==
    /\ \A s \in Slots : \A k, l \in 1..Len(tasks[s]) :
         tasks[s][k].id = tasks[s][l].id => k = l
    /\ \A i \in Sessions : \A k, l \in 1..Len(events) :
         IsCompletion(k, i) /\ IsCompletion(l, i) => k = l
    /\ \A i \in Sessions : ~(HasTask(i) /\ HasCompletion(i))

\* The request or engine session of a job is in exactly one place: in the job
\* table, or, while the job is in flight, in one task of its own slot's worker
\* or in one completion.  It is what `expect("started job retains session")` and
\* "policy only selects retained jobs" in dispatch_one rely on: without it the
\* scheduler thread panics, or a session is lost or run twice.
OneOwner ==
    Serving =>
        /\ WorkIsOwned
        /\ WorkIsUnique
        /\ \A i \in inFlight : HasTask(i) \/ HasCompletion(i)
        /\ \A i \in jobs : i \in inFlight <=> holds[i] = "none"
        /\ \A k \in 1..Len(runnable) : runnable[k] \in jobs \ inFlight
        /\ \A k, l \in 1..Len(runnable) : runnable[k] = runnable[l] => k = l

\* The waiting_for_consumer metric, which four handlers move by one, is the number
\* of started jobs that neither run nor are queued to run; a client that
\* acknowledges, stops or drops at any moment never drives the counter (a usize)
\* below it or counts twice.
WaitingIsExact ==
    phase = "running" =>
        waiting = Cardinality({i \in jobs : holds[i] = "session"
                                            /\ i \notin ToSet(runnable)})

\* A client blocked in recv is owed a message: its channel has one, or its sender
\* is gone (recv fails), or its job is queued, in flight or named by a command
\* still in the channel, or the scheduler is about to cancel every job.
NoLostWakeup ==
    \A i \in Sessions :
        pc[i] \in {"receiving", "finishing"} =>
            \/ chan[i] # <<>>
            \/ ~SenderAlive(i)
            \/ i \in ToSet(runnable)
            \/ i \in inFlight
            \/ \E k \in 1..Len(events) : events[k].id = i /\ events[k].type \in Commands
            \/ phase = "draining"

\* Backpressure: while a token is unacknowledged (in the channel, or taken by a
\* client that has not answered) its session runs no further quantum, so a slow
\* consumer never has more than one token outstanding.
Backpressure ==
    \A i \in Sessions :
        /\ Cardinality({k \in 1..Len(chan[i]) : chan[i][k] = "Token"}) <= 1
        /\ (pc[i] = "token" \/ "Token" \in ToSet(chan[i])) =>
              i \notin inFlight /\ i \notin ToSet(runnable)

\* A session hears the end once: a terminal message is the last of its channel,
\* and by then the job is gone, so no later event can produce another one.
TerminalIsLast ==
    \A i \in Sessions : \A k \in 1..Len(chan[i]) :
        chan[i][k] # "Token" => k = Len(chan[i]) /\ ~SenderAlive(i)

\* A worker that retire_slot_if_idle joins has nothing left to run: the scheduler
\* thread, which joins it inline, never waits for a quantum of the engine.  In
\* particular a worker with work is always one the scheduler still knows.
RetiredWorkersAreIdle ==
    \A s \in Slots : tasks[s] # <<>> => s \in slots

\* A session whose cancellation the scheduler has recorded is never told
\* Finished, whatever the quantum in flight returns.
CancelWins ==
    [][\A i \in cancelRequested :
          Len(chan'[i]) > Len(chan[i]) => chan'[i][Len(chan'[i])] = "Cancelled"]_vars

\* Every step and every finish returns: no interleaving of acknowledgements,
\* cancellations, completions and shutdown leaves a request thread in recv.
RecvReturns ==
    \A i \in Sessions :
        pc[i] \in {"receiving", "finishing"} ~> pc[i] \notin {"receiving", "finishing"}

\* Dropping the scheduler returns: its thread leaves the loop and joins every
\* worker, whatever the sessions do.
ShutdownCompletes == (phase = "draining") ~> (phase = "stopped")

=============================================================================
