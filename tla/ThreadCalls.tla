----------------------------- MODULE ThreadCalls -----------------------------
(***************************************************************************)
(* What ProxyServer<Thread>::post promises its callers (proxy-io.h:102-107 *)
(* and 743-805): requests sent to a thread are started in the order they   *)
(* were sent, each at most once; a request may start while an earlier one  *)
(* is still running, because that one is waiting for an answer itself;     *)
(* only requests that have not started can be cancelled without running;   *)
(* and the thread is stopped when nothing is left to run.                  *)
(***************************************************************************)
EXTENDS Integers, Sequences

CONSTANT Requests

VARIABLES request,  \* how far each request is
          order,    \* requests in the order they were sent
          stopped   \* whether the thread has been told to exit

vars == <<request, order, stopped>>

States == {"none", "waiting", "running", "answered", "cancelled"}

In(state) == {r \in Requests : request[r] = state}

Oldest(r) ==
    \E i \in DOMAIN order :
        /\ order[i] = r
        /\ \A j \in 1..(i - 1) : request[order[j]] # "waiting"

Init ==
    /\ request = [r \in Requests |-> "none"]
    /\ order = <<>>
    /\ stopped = FALSE

Send(r) ==
    /\ ~stopped
    /\ request[r] = "none"
    /\ request' = [request EXCEPT ![r] = "waiting"]
    /\ order' = Append(order, r)
    /\ UNCHANGED stopped

Start(r) ==
    /\ request[r] = "waiting"
    /\ Oldest(r)
    /\ request' = [request EXCEPT ![r] = "running"]
    /\ UNCHANGED <<order, stopped>>

Answer(r) ==
    /\ request[r] = "running"
    /\ request' = [request EXCEPT ![r] = "answered"]
    /\ UNCHANGED <<order, stopped>>

\* Cancel some requests that have not started, stop the thread, or both (the
\* connection may be the only thing that keeps it).
CancelAndStop(S) ==
    /\ S \subseteq In("waiting")
    /\ request' = [r \in Requests |-> IF r \in S THEN "cancelled" ELSE request[r]]
    /\ stopped' \in BOOLEAN
    /\ stopped => stopped'
    /\ stopped' => In("waiting") = S /\ In("running") = {}
    /\ UNCHANGED order

Next ==
    \/ \E r \in Requests : Send(r) \/ Start(r) \/ Answer(r)
    \/ \E S \in SUBSET In("waiting") : CancelAndStop(S)

\* The order, and what may be cancelled and when.
ThreadSafety == Init /\ [][Next]_vars

\* Requests keep being started and answered.
ThreadSpec ==
    /\ ThreadSafety
    /\ \A r \in Requests : WF_vars(Start(r)) /\ WF_vars(Answer(r))
=============================================================================
