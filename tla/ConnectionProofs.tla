--------------------------- MODULE ConnectionProofs ---------------------------
(***************************************************************************)
(* Proofs about Connection, for any number of objects, threads and server  *)
(* objects.                                                                *)
(*                                                                         *)
(* That an object finds its m_context.connection set only while the        *)
(* Connection exists follows from three facts: ~Connection occupies the    *)
(* event loop thread (Busy); the cleanup list holds the callback of every  *)
(* linked object (ListMatches), so that it is empty only when no object is *)
(* linked; and the callback that erases a thread entry comes before the    *)
(* one that would unlink it (Order).                                       *)
(***************************************************************************)
EXTENDS Connection, TLAPS

\* ~Connection runs on the event loop thread from beginning to end.
Busy == connection = "closing" <=> loop_pc # "idle"

\* Objects are linked to a connection that exists.
Linked ==
    /\ linked # {} => connection \in {"open", "closing"}
    /\ pc[Owner] = "connecting" => connection # "none"

\* SetThread's callback is in front of the disconnect_cb of its entry.
Order == \A t \in cb_set : t \in linked /\ release_at[t] < erase_at[t]

IInv == TypeOK /\ Busy /\ Linked /\ ListMatches /\ Order /\ EntriesValid

\* Actions that leave the proxy objects alone.
Aside == UNCHANGED <<linkVars, listVars, failed>>

LEMMA InitIInv == Init => IInv
BY ProxiesAssumption DEF Init, IInv, TypeOK, Busy, Linked, ListMatches, Order, EntriesValid, Proxies

\* A server object joins the list of those to be destroyed.
LEMMA Queued ==
    ASSUME TypeOK, NEW s \in Servers, DestroyServer(s)
    PROVE  /\ m_async_fns' \in Seq(Servers)
           /\ server' \in [Servers -> {"none", "live", "busy", "released", "queued",
                                       "running", "destroyed"}]
BY DEF TypeOK, DestroyServer

\* Steps of server objects and of the handler, which leave the proxy objects
\* alone.
LEMMA AsideStep ==
    ASSUME IInv, Aside, TypeOK', Busy', Linked' PROVE IInv'
BY DEF IInv, Aside, linkVars, listVars, ListMatches, Order, EntriesValid

LEMMA ServerStep ==
    ASSUME IInv, NEW s \in Servers,
           RpcReset(s) \/ ServerNew(s) \/ ServerCall(s) \/ ServerReturn(s) \/ ServerRelease(s)
           \/ InvokeDestroy(s)
    PROVE  IInv'
<1>1. /\ Aside
      /\ UNCHANGED <<connection, handler, loop_pc, running>>
  BY DEF RpcReset, ServerNew, ServerCall, ServerReturn, ServerRelease, InvokeDestroy, Aside
<1>2. /\ m_async_fns' \in Seq(Servers)
      /\ server' \in [Servers -> {"none", "live", "busy", "released", "queued",
                                  "running", "destroyed"}]
  <2>1. CASE DestroyServer(s)
    BY <2>1, Queued DEF IInv
  <2>2. CASE ~DestroyServer(s)
    BY <2>2 DEF RpcReset, ServerNew, ServerCall, ServerReturn, ServerRelease, InvokeDestroy, IInv, TypeOK
  <2>3. QED
    BY <2>1, <2>2
<1>3. TypeOK'
  BY <1>1, <1>2 DEF IInv, TypeOK, Aside, linkVars, listVars
<1>4. Busy' /\ Linked'
  BY <1>1 DEF IInv, Busy, Linked, Aside, linkVars
<1>5. QED
  BY <1>1, <1>3, <1>4, AsideStep

LEMMA AsyncStep == ASSUME IInv, AsyncBegin \/ AsyncEnd PROVE IInv'
<1>1. Aside /\ UNCHANGED <<connection, handler, loop_pc>>
  BY DEF AsyncBegin, AsyncEnd, Aside
<1>2. /\ m_async_fns' \in Seq(Servers) /\ running' \in Servers \union {None}
      /\ server' \in [Servers -> {"none", "live", "busy", "released", "queued",
                                  "running", "destroyed"}]
  <2>1. CASE AsyncBegin
    <3>1. Head(m_async_fns) \in Servers /\ Tail(m_async_fns) \in Seq(Servers)
      BY <2>1 DEF AsyncBegin, IInv, TypeOK
    <3>2. QED
      BY <2>1, <3>1 DEF AsyncBegin, IInv, TypeOK
  <2>2. CASE AsyncEnd
    BY <2>2 DEF AsyncEnd, IInv, TypeOK
  <2>3. QED
    BY <2>1, <2>2
<1>3. TypeOK'
  BY <1>1, <1>2 DEF IInv, TypeOK, Aside, linkVars, listVars
<1>4. QED
  BY <1>1, <1>3, AsideStep DEF IInv, Busy, Linked, Aside, linkVars

\* Steps that move the connection or the handler only.
LEMMA HandlerStep ==
    ASSUME IInv, Cancelled \/ RpcGone \/ CleanupDone \/ PeerCloses
    PROVE  IInv'
<1>1. Aside /\ UNCHANGED serverVars
  BY DEF Cancelled, RpcGone, CleanupDone, PeerCloses, Aside
<1>2. Busy' /\ Linked'
  BY <1>1 DEF IInv, Busy, Linked, Aside, linkVars, Cancelled, RpcGone, CleanupDone, PeerCloses,
     ListEmpty, ListMatches, TypeOK, LoopIdle
<1>3. TypeOK'
  BY <1>1 DEF IInv, TypeOK, Aside, linkVars, listVars, serverVars, Cancelled, RpcGone,
     CleanupDone, CancelHandler, PeerCloses
<1>4. QED
  BY <1>1, <1>2, <1>3, AsideStep

LEMMA StepIInv == IInv /\ [Next]_vars => IInv'
<1> SUFFICES ASSUME IInv, [Next]_vars PROVE IInv'
  OBVIOUS
<1> USE ProxiesAssumption
        DEF IInv, TypeOK, Busy, Linked, ListMatches, Order, EntriesValid, Proxies, SetPc,
            LoopIdle, linkVars, listVars, serverVars
<1>1. CASE Connect \/ Serve
  BY <1>1 DEF Connect, Serve
<1>2. CASE ConstructOwner
  <2>1. CASE failed' = "construct" /\ UNCHANGED <<pc, linked, listVars>>
    BY <1>2, <2>1 DEF ConstructOwner
  <2>2. CASE connection # "deleted" /\ AddRelease(Owner)
    <3>1. /\ UNCHANGED <<connection, handler, loop_pc, cb_set, serverVars, erase_at, failed>>
          /\ pc' = [pc EXCEPT ![Owner] = "live"] /\ linked' = linked \union {Owner}
          /\ release_at' = [release_at EXCEPT ![Owner] = added + 1] /\ added' = added + 1
      BY <1>2, <2>2 DEF ConstructOwner, AddRelease
    <3>2. connection \in {"open", "closing"} /\ Owner \notin Threads
      BY <1>2, <2>2 DEF ConstructOwner
    <3>3. TypeOK'
      BY <3>1
    <3>4. Busy' /\ Linked' /\ ListMatches'
      BY <3>1, <3>2
    <3>5. Order' /\ EntriesValid'
      BY <3>1, <3>2
    <3>6. QED
      BY <3>3, <3>4, <3>5
  <2>3. QED
    BY <1>2, <2>1, <2>2 DEF ConstructOwner
<1>3. ASSUME NEW o \in Objects, NewObject(o) PROVE IInv'
  BY <1>3 DEF NewObject, AddRelease, Receiving
<1>4. ASSUME NEW o \in {Owner} \union Objects, DropObject(o) PROVE IInv'
  BY <1>4 DEF DropObject
<1>5. ASSUME NEW o \in Proxies, SyncDestroy(o) PROVE IInv'
  BY <1>5 DEF SyncDestroy, RemoveRelease, Unlisted, BeginClose
<1>6. ASSUME NEW t \in Threads, SetThread(t) PROVE IInv'
  BY <1>6 DEF SetThread, AddThread, Receiving
<1>7. ASSUME NEW t \in Threads, ThreadExit(t) PROVE IInv'
  BY <1>7 DEF ThreadExit
<1>8. ASSUME NEW t \in Threads, SyncUnregister(t) PROVE IInv'
  BY <1>8 DEF SyncUnregister, Unlisted
<1>9. ASSUME NEW t \in Threads, EraseEntry(t) PROVE IInv'
  BY <1>9 DEF EraseEntry, DestroyEntry, RemoveRelease, Unlisted
<1>10. ASSUME NEW o \in Proxies, CleanupRelease(o) PROVE IInv'
  BY <1>10 DEF CleanupRelease, Front, Unlink, Unlisted
<1>11. ASSUME NEW t \in Threads, CleanupErase(t) PROVE IInv'
  <2>1. CASE failed' = "entry" /\ UNCHANGED <<linkVars, erase_at, release_at>>
    BY <1>11, <2>1 DEF CleanupErase
  <2>2. CASE pc[t] = "live" /\ DestroyEntry(t)
    <3>1. /\ UNCHANGED <<connection, handler, loop_pc, added, serverVars, failed>>
          /\ pc' = [pc EXCEPT ![t] = "gone"] /\ linked' = linked \ {t}
          /\ cb_set' = cb_set \ {t}
      BY <1>11, <2>2 DEF CleanupErase, DestroyEntry
    <3>2. /\ release_at' = [release_at EXCEPT ![t] = 0]
          /\ erase_at' = [erase_at EXCEPT ![t] = 0]
      BY <1>11, <2>2 DEF CleanupErase, DestroyEntry, RemoveRelease, Unlisted
    <3>3. TypeOK'
      BY <3>1, <3>2
    <3>4. Busy' /\ Linked' /\ ListMatches'
      BY <3>1, <3>2
    <3>5. Order' /\ EntriesValid'
      BY <3>1, <3>2
    <3>6. QED
      BY <3>3, <3>4, <3>5
  <2>3. QED
    BY <1>11, <2>1, <2>2 DEF CleanupErase
<1>12. CASE RunHandler
  BY <1>12 DEF RunHandler, BeginClose
<1>13. CASE UNCHANGED vars
  BY <1>13 DEF vars
<1>14. QED
  BY <1>1, <1>2, <1>3, <1>4, <1>5, <1>6, <1>7, <1>8, <1>9, <1>10, <1>11, <1>12, <1>13,
     HandlerStep, ServerStep, AsyncStep DEF Next, CloseStep, Terminated

LEMMA Inductive == Spec => []IInv
BY InitIInv, StepIInv, PTL DEF Spec

\* Type correctness.
THEOREM TypeCorrect == Spec => []TypeOK
BY Inductive, PTL DEF IInv

\* No object is left with a pointer to a Connection that is gone, whichever
\* thread creates or destroys it and whoever closes the connection.
THEOREM LinkedOnlyWhileOpen == Spec => []LinkedMeansOpen
<1>1. IInv => LinkedMeansOpen
  BY DEF IInv, Busy, Linked, LinkedMeansOpen
<1>2. QED
  BY <1>1, Inductive, PTL

\* Every cleanup function is run once or removed once, while its object
\* exists.
THEOREM CleanupListExact == Spec => []ListMatches
BY Inductive, PTL DEF IInv

\* An entry that is in a thread map can be used.
THEOREM EntriesUsable == Spec => []EntriesValid
BY Inductive, PTL DEF IInv
=============================================================================
