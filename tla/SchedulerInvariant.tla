------------------------ MODULE SchedulerInvariant ------------------------
(***************************************************************************)
(* The inductive invariant of Scheduler: who owns the work of a session    *)
(* (Owner), which messages of a session can be under way together          *)
(* (Exchange), and what a command still in the event channel says about    *)
(* its session while the scheduler serves (Pending).  SchedulerProofs      *)
(* shows it inductive and derives the properties of Scheduler from it.     *)
(*                                                                         *)
(* A channel enters only through two questions: does it hold an element of *)
(* a set, and at most one?                                                 *)
(***************************************************************************)
EXTENDS Scheduler

Has(s, P) == \E k \in 1..Len(s) : s[k] \in P
AtMostOne(s, P) == \A k, l \in 1..Len(s) : s[k] \in P /\ s[l] \in P => k = l

\* The events of some types, and the tasks, that name a session
EventsOf(types, i) == [type : types, id : {i}, result : Results]
TasksOf(i) == [id : {i}, action : {"Start", "Step", "Finish"}]

\* The events that set a job going: a session sends one at a time.
Driving == {"Submit", "Continue", "Stop"}
Terminals == Messages \ {"Token"}

Submitted(i) == Has(events, EventsOf({"Submit"}, i))
Answered(i) == Has(events, EventsOf({"Continue", "Stop"}, i))
Cancelling(i) == Has(events, EventsOf({"Cancel"}, i))
Completed(i) == Has(events, EventsOf({"Completed"}, i))
Queued(i) == Has(runnable, {i})
TaskIn(s, i) == Has(tasks[s], TasksOf(i))
TokenSent(i) == Has(chan[i], {"Token"})
EndSent(i) == Has(chan[i], Terminals)

OneDriving(i) == AtMostOne(events, EventsOf(Driving, i))
OneCompletion(i) == AtMostOne(events, EventsOf({"Completed"}, i))
OneEntry(i) == AtMostOne(runnable, {i})
OneTask(s, i) == AtMostOne(tasks[s], TasksOf(i))
OneToken(i) == AtMostOne(chan[i], {"Token"})
EndIsLast(i) == \A k \in 1..Len(chan[i]) : chan[i][k] \in Terminals => k = Len(chan[i])

-----------------------------------------------------------------------------
\* OneOwner, session by session
Owner(i) ==
    /\ \A s \in Slots : TaskIn(s, i) => i \in inFlight /\ SlotOf[i] = s
    /\ \A s \in Slots : OneTask(s, i)
    /\ Completed(i) => i \in inFlight /\ ~TaskIn(SlotOf[i], i)
    /\ OneCompletion(i)
    /\ i \in inFlight => Completed(i) \/ TaskIn(SlotOf[i], i)
    /\ i \in jobs => (i \in inFlight <=> holds[i] = "none")
    /\ Queued(i) => i \in jobs /\ i \notin inFlight
    /\ OneEntry(i)

\* What can be under way for one session at once, in every phase
Exchange(i) ==
    /\ OneDriving(i)
    /\ OneToken(i)
    /\ Submitted(i) => i \notin jobs
    /\ pc[i] = "new" => i \notin jobs /\ ~Submitted(i) /\ ~Answered(i) /\ chan[i] = <<>>
    /\ pc[i] = "token" => ~TokenSent(i)
    /\ pc[i] = "token" \/ TokenSent(i) =>
         i \notin inFlight /\ ~Queued(i) /\ ~Submitted(i) /\ ~Answered(i)
    /\ EndSent(i) => i \notin jobs /\ ~Submitted(i)
    /\ EndIsLast(i)

\* What a command or a token under way says while the scheduler serves
Pending(i) ==
    /\ Answered(i) =>
         /\ i \in jobs /\ holds[i] = "session" /\ ~Queued(i) /\ ~Cancelling(i)
         /\ pc[i] \in {"receiving", "finishing"}
    /\ pc[i] = "token" \/ (TokenSent(i) /\ pc[i] \in {"open", "receiving"}) =>
         i \in jobs /\ holds[i] = "session"
    /\ Cancelling(i) => pc[i] \in {"finishing", "finished", "failed", "dropped"}
    /\ i \in cancelRequested => i \in inFlight

\* A client that is, or is about to be, in recv is owed a message (NoLostWakeup).
Owed(i) ==
    pc[i] \in {"open", "receiving", "finishing"} =>
        \/ chan[i] # <<>>
        \/ i \notin jobs /\ ~Submitted(i)
        \/ Queued(i) \/ i \in inFlight
        \/ Submitted(i) \/ Answered(i) \/ Cancelling(i)
        \/ phase = "draining"

\* The loop winds down in order.
WindingDown ==
    /\ phase = "draining" => jobs \subseteq cancelRequested
    /\ phase \in {"joining", "stopped"} => jobs = {} /\ busy = {}

\* The invariant of the scheduler, its clients and its workers.  Its heart is that a
\* client's commands, tokens and terminal messages never cross: it has one
\* acknowledgement under way at most, only for a job that waits for it, and none
\* together with a cancellation or an end.  It is what lets the handlers of
\* Continue and Stop act without looking at the state of the job.
Core ==
    /\ TypeOK /\ WindingDown
    /\ Serving => \A i \in Sessions : Owner(i)
    /\ \A i \in Sessions : Exchange(i) /\ Owed(i)
    /\ phase = "running" => \A i \in Sessions : Pending(i)

\* The part of Core that is about one session
SessionCore(i) ==
    /\ Serving => Owner(i)
    /\ Exchange(i)
    /\ Owed(i)
    /\ phase = "running" => Pending(i)

=============================================================================
