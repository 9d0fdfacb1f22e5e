-------------------------- MODULE RequestCancelProofs --------------------------
(***************************************************************************)
(* Proofs about RequestCancel, for any number of requests, with and        *)
(* without reference parameters.                                           *)
(*                                                                         *)
(* DataSafe is not inductive.  What makes it true is that a worker between *)
(* its first and its last sync() has a callback registered (Registration), *)
(* that a request whose data was freed with a callback registered has its  *)
(* flag set (Noticed), and that the disconnect frees every request in      *)
(* flight before the Connection goes (Sweep).                              *)
(***************************************************************************)
EXTENDS RequestCancel, TLAPS

\* Where a worker is, the callback is registered.
Registration ==
    \A r \in Requests :
        /\ pc[r] \in {"args", "method", "relock", "results", "param"} => r \in m_on_cancel
        /\ r \in m_on_cancel => pc[r] \notin {"new", "start", "register", "answer", "done"}
        /\ pc[r] = "param" => r \in RefArgs

\* Data is freed after the monitor has been told, and the callback with it.
Noticed ==
    /\ freed \subseteq m_canceled
    /\ cancelling # None => cancelling \in m_canceled
    /\ freed \intersect m_on_cancel \subseteq request_canceled

\* How far ~Connection is.
Sweep ==
    /\ connection = "open" => m_canceled = {} /\ to_cancel = {} /\ cancelling = None
    /\ connection = "closing" => InFlight \subseteq freed \union to_cancel
    /\ connection = "gone" => InFlight \subseteq freed /\ to_cancel = {}

IInv == TypeOK /\ DataSafe /\ EntryLifetime /\ Registration /\ Noticed /\ Sweep

\* The strengthened invariant holds in every reachable state.
THEOREM Inductive == Spec => []IInv
<1>1. Init => IInv
  BY RequestsAssumption DEF Init, IInv, TypeOK, DataSafe, EntryLifetime, Registration,
     Noticed, Sweep, InFlight, Phases
<1>2. IInv /\ [Next]_vars => IInv'
  <2> SUFFICES ASSUME IInv, [Next]_vars PROVE IInv'
    OBVIOUS
  <2> USE RequestsAssumption, RefArgsAssumption
          DEF IInv, TypeOK, DataSafe, EntryLifetime, Registration, Noticed, Sweep, InFlight,
              Phases, Set, LoopIdle, monitorVars, loopVars
  <2>1. ASSUME NEW r \in Requests, Arrive(r) PROVE IInv'
    BY <2>1 DEF Arrive
  <2>2. ASSUME NEW r \in Requests, Lock(r) PROVE IInv'
    BY <2>2 DEF Lock
  <2>3. ASSUME NEW r \in Requests, SyncRegister(r) PROVE IInv'
    BY <2>3 DEF SyncRegister, Registered
  <2>4. ASSUME NEW r \in Requests, CallMethod(r) PROVE IInv'
    BY <2>4 DEF CallMethod
  <2>5. ASSUME NEW r \in Requests, ReadFails(r) PROVE IInv'
    BY <2>5 DEF ReadFails, Unwind
  <2>6. ASSUME NEW r \in Requests, MethodReturn(r) PROVE IInv'
    BY <2>6 DEF MethodReturn
  <2>7. ASSUME NEW r \in Requests, Relock(r) PROVE IInv'
    BY <2>7 DEF Relock, AfterRelock, Unwind
  <2>8. ASSUME NEW r \in Requests, BuildResults(r) PROVE IInv'
    BY <2>8 DEF BuildResults, Unwind
  <2>9. ASSUME NEW r \in Requests, SyncParam(r) PROVE IInv'
    BY <2>9 DEF SyncParam
  <2>10. ASSUME NEW r \in Requests, Unlock(r) PROVE IInv'
    BY <2>10 DEF Unlock
  <2>11. ASSUME NEW r \in Requests, SyncExit(r) PROVE IInv'
    BY <2>11 DEF SyncExit, Unregister
  <2>12. ASSUME NEW r \in Requests, SyncAnswer(r) PROVE IInv'
    BY <2>12 DEF SyncAnswer
  <2>13. ASSUME NEW r \in Requests, CancelBegin(r) PROVE IInv'
    BY <2>13 DEF CancelBegin
  <2>14. ASSUME NEW r \in Requests, CancelEnd(r) PROVE IInv'
    BY <2>14 DEF CancelEnd, OnCancel, Locked
  <2>15. ASSUME Disconnect PROVE IInv'
    BY <2>15 DEF Disconnect, Wrapped
  <2>16. ASSUME Disconnected PROVE IInv'
    BY <2>16 DEF Disconnected
  <2>17. ASSUME UNCHANGED vars PROVE IInv'
    BY <2>17 DEF vars
  <2>18. QED
    BY <2>1, <2>2, <2>3, <2>4, <2>5, <2>6, <2>7, <2>8, <2>9, <2>10, <2>11, <2>12,
       <2>13, <2>14, <2>15, <2>16, <2>17 DEF Next, Terminated
<1>3. QED
  BY <1>1, <1>2, PTL DEF Spec

\* Type correctness.
THEOREM TypeCorrect == Spec => []TypeOK
BY Inductive, PTL DEF IInv

\* Workers only touch parameters and results that exist, however a
\* disconnect is interleaved with them (the comments on cancel_mutex in
\* type-context.h).
THEOREM DataIsSafe == Spec => []DataSafe
BY Inductive, PTL DEF IInv

\* No request_threads entry outlives its Connection or its request.
THEOREM EntriesScoped == Spec => []EntryLifetime
BY Inductive, PTL DEF IInv

\* The cancellation callback never outlives the lambda it refers to.
THEOREM CallbacksScoped == Spec => []CallbackScoped
<1>1. IInv => CallbackScoped
  BY DEF IInv, TypeOK, Registration, CallbackScoped, InFlight
<1>2. QED
  BY <1>1, Inductive, PTL

\* Without reference parameters, no worker waits for the event loop while it
\* holds a cancel_mutex that the event loop waits for.
THEOREM NoWaitingInCircles == ASSUME RefArgs = {} PROVE Spec => []NoCircularWait
<1>1. RefArgs = {}
  OBVIOUS
<1>2. IInv => NoCircularWait
  BY <1>1 DEF IInv, Registration, NoCircularWait, Locked
<1>3. QED
  BY <1>2, Inductive, PTL
=============================================================================
