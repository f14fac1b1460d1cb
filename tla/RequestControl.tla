--------------------------- MODULE RequestControl ---------------------------
(***************************************************************************)
(* How a request is stopped: RequestControl of crates/server/src/lib.rs,   *)
(* and the quanta of mapped.rs that register an abort hook with it.        *)
(*                                                                         *)
(* Requests of one model take turns on its executor, one quantum at a time *)
(* under the engine's lock.  The executor has a single abort flag.  Who    *)
(* stops a request (a cancel, a disconnect, one of two deadline watchdogs, *)
(* the scheduler) does not take that lock: it changes the request's state, *)
(* clones the hook registered at that moment and then runs the clone.  Of  *)
(* all who try, only the one that changes the state does the rest, so that *)
(* one stopper for each request is enough.                                 *)
(***************************************************************************)
EXTENDS Naturals

CONSTANTS
    Requests,   \* requests on one executor
    None        \* not a request

\* what a module that instantiates this one assumes of the constants
RequestControlAssumption == None \notin Requests

VARIABLES
    state,    \* RequestControl::state
    hook,     \* RequestControl::abort: an abort hook is registered
    stopper,  \* where the one that stopped the request is
    pc,       \* where the request's thread is in its quantum
    owner,    \* who has the engine's lock
    flag      \* the executor's abort flag

vars == <<state, hook, stopper, pc, owner, flag>>

Running(r) == state[r] = "running"

At(r, here) == pc[r] = here

Goto(r, there) == pc' = [pc EXCEPT ![r] = there]

-----------------------------------------------------------------------------
(* Stopping.                                                               *)

\* cancel and expire: a compare-exchange that succeeds for one caller
Stop(r, as) ==
    /\ Running(r)
    /\ state' = [state EXCEPT ![r] = as]
    /\ stopper' = [stopper EXCEPT ![r] = "stopping"]
    /\ UNCHANGED <<hook, pc, owner, flag>>

\* complete: the request's entry in `controls` is taken out, at its end
Complete(r) ==
    /\ Running(r)
    /\ pc[r] \in {"out", "ended"}
    /\ state' = [state EXCEPT ![r] = "complete"]
    /\ Goto(r, "ended")
    /\ UNCHANGED <<hook, stopper, owner, flag>>

\* abort: clones the hook, ...
CloneHook(r) ==
    /\ stopper[r] = "stopping"
    /\ stopper' = [stopper EXCEPT ![r] = IF hook[r] THEN "hooked" ELSE "done"]
    /\ UNCHANGED <<state, hook, pc, owner, flag>>

\* A slip: a hook is run only for a cancel, not for a deadline.
RunHookOfCancel(r) ==
    /\ stopper[r] = "hooked"
    /\ stopper' = [stopper EXCEPT ![r] = "done"]
    /\ flag' = (flag \/ state[r] = "cancelled")
    /\ UNCHANGED <<state, hook, pc, owner>>

\* ... and runs it without any lock
RunHook(r) ==
    /\ stopper[r] = "hooked"
    /\ stopper' = [stopper EXCEPT ![r] = "done"]
    /\ flag' = TRUE
    /\ UNCHANGED <<state, hook, pc, owner>>

-----------------------------------------------------------------------------
(* A quantum.                                                              *)

Lock(r) ==
    /\ At(r, "out") /\ owner = None
    /\ owner' = r
    /\ Goto(r, "check")
    /\ UNCHANGED <<state, hook, stopper, flag>>

\* A check that fails ends the quantum and the request
Check(r, here, there) ==
    /\ At(r, here)
    /\ Goto(r, IF Running(r) THEN there ELSE "unregister")
    /\ UNCHANGED <<state, hook, stopper, owner, flag>>

\* reset_cancellation
Reset(r) ==
    /\ At(r, "reset")
    /\ flag' = FALSE
    /\ Goto(r, "store")
    /\ UNCHANGED <<state, hook, stopper, owner>>

\* register_abort: the hook is stored ...
StoreHook(r) ==
    /\ At(r, "store")
    /\ hook' = [hook EXCEPT ![r] = TRUE]
    /\ Goto(r, "stored")
    /\ UNCHANGED <<state, stopper, owner, flag>>

\* ... and run at once for a request that was stopped before that
RunIfStopped(r) ==
    /\ At(r, "stored")
    /\ flag' = (flag \/ ~Running(r))
    /\ Goto(r, "guarded")
    /\ UNCHANGED <<state, hook, stopper, owner>>

\* A slip: decode resets the flag instead of taking it.
DecodeResets(r) ==
    /\ At(r, "decode")
    /\ flag' = FALSE
    /\ Goto(r, "evaluating")
    /\ UNCHANGED <<state, hook, stopper, owner>>

\* Executor::decode begins by taking the flag ...
DecodeBegins(r) ==
    /\ At(r, "decode")
    /\ flag' = FALSE
    /\ Goto(r, IF flag THEN "aborted" ELSE "evaluating")
    /\ UNCHANGED <<state, hook, stopper, owner>>

\* ... and llama.cpp takes it again whenever it calls back
DecodeAborts(r) ==
    /\ At(r, "evaluating") /\ flag
    /\ flag' = FALSE
    /\ Goto(r, "aborted")
    /\ UNCHANGED <<state, hook, stopper, owner>>

DecodeEnds(r) ==
    /\ At(r, "evaluating")
    /\ Goto(r, "after")
    /\ UNCHANGED <<state, hook, stopper, owner, flag>>

\* AbortRegistration is dropped, then the lock.  Of a quantum that did not fail
\* the request goes on
Unregister(r) ==
    /\ pc[r] \in {"aborted", "unregister", "quantum_done"}
    /\ hook' = [hook EXCEPT ![r] = FALSE]
    /\ owner' = None
    /\ Goto(r, IF At(r, "quantum_done") THEN "out"
               ELSE IF At(r, "aborted") /\ Running(r) THEN "lost" ELSE "ended")
    /\ UNCHANGED <<state, stopper, flag>>

-----------------------------------------------------------------------------
Init ==
    /\ state = [r \in Requests |-> "running"]
    /\ hook = [r \in Requests |-> FALSE]
    /\ stopper = [r \in Requests |-> "none"]
    /\ pc = [r \in Requests |-> "out"]
    /\ owner = None
    /\ flag = FALSE

\* What a quantum does by itself, apart from the evaluation
QuantumStep(r) ==
    \/ Check(r, "check", "reset") \/ Reset(r) \/ StoreHook(r) \/ RunIfStopped(r)
    \/ Check(r, "guarded", "decode") \/ DecodeBegins(r) \/ DecodeAborts(r)
    \/ Check(r, "after", "quantum_done") \/ Unregister(r)

Next ==
    \E r \in Requests :
        \/ Stop(r, "cancelled") \/ Stop(r, "deadline") \/ Complete(r)
        \/ CloneHook(r) \/ RunHook(r)
        \/ Lock(r) \/ QuantumStep(r) \/ DecodeEnds(r)

Spec == Init /\ [][Next]_vars

\* Threads go on and llama.cpp calls back, but nothing says that an evaluation
\* ends by itself, that anybody stops a request or begins another quantum.
Fairness ==
    \A r \in Requests :
        WF_vars(CloneHook(r)) /\ WF_vars(RunHook(r)) /\ WF_vars(QuantumStep(r))

-----------------------------------------------------------------------------
(* Properties.                                                             *)

\* No order of storing the hook, resetting the flag and stopping loses the
\* signal: a stopped request that evaluates has the flag up, or its stopper is
\* on the way to it.
NoLostAbort ==
    \A r \in Requests :
        At(r, "evaluating") /\ ~Running(r) => flag \/ stopper[r] \in {"stopping", "hooked"}

\* The hook is registered for exactly as long as the request may evaluate, so
\* that nobody can start to abort a request that does not own the executor.
HookOnlyWhileOwner == \A r \in Requests : hook[r] => owner = r

\* A request that is stopped while it evaluates gets out of it, however long the
\* evaluation would take.
StoppedGetsOut ==
    \A r \in Requests :
        At(r, "evaluating") /\ ~Running(r) ~> ~At(r, "evaluating")

=============================================================================
