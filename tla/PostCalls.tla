----------------------------- MODULE PostCalls -----------------------------
(***************************************************************************)
(* What EventLoop::post() promises its callers (proxy-io.h:261-272): a     *)
(* call made by any thread runs its function exactly once, on the one      *)
(* event loop thread, and the call returns only after the function has     *)
(* completed.  Nothing is said of the order in which waiting calls are     *)
(* served: EventLoop has a one-element slot and no queue, so it does not   *)
(* promise any.                                                            *)
(***************************************************************************)
CONSTANT Callers

VARIABLE call \* the phase each caller's current call is in

CallPhases == {"none", "waiting", "running", "returning"}

CallsTypeOK == call \in [Callers -> CallPhases]

CallsInit == call = [t \in Callers |-> "none"]

Call(t) == /\ call[t] = "none"
           /\ call' = [call EXCEPT ![t] = "waiting"]

\* At most one function runs at a time: there is one event loop thread.
Run(t) == /\ call[t] = "waiting"
          /\ \A u \in Callers : call[u] # "running"
          /\ call' = [call EXCEPT ![t] = "running"]

Complete(t) == /\ call[t] = "running"
               /\ call' = [call EXCEPT ![t] = "returning"]

Return(t) == /\ call[t] = "returning"
             /\ call' = [call EXCEPT ![t] = "none"]

RunSome == \E t \in Callers : Run(t)

CallsNext == \E t \in Callers : Call(t) \/ Run(t) \/ Complete(t) \/ Return(t)

\* What never happens: a function run twice, or with another one, or a call that
\* returns early.
CallsSafety == CallsInit /\ [][CallsNext]_call

\* Waiting calls may overtake each other, so fairness is on serving some
\* caller; a call that was served completes and returns.
CallsSpec == /\ CallsSafety
             /\ WF_call(RunSome)
             /\ \A t \in Callers : WF_call(Complete(t)) /\ WF_call(Return(t))
=============================================================================
