-------------------------- MODULE ThreadServerProofs --------------------------
(***************************************************************************)
(* Proofs about ThreadServer, for any number of requests.                  *)
(*                                                                         *)
(* The assertions of the code follow from the shape of the promise chain:  *)
(* a request is past the queue only if every request sent before it has    *)
(* been picked up by the worker (Chain), so at most one is in the slot;    *)
(* and the object is referenced until the last request has been answered   *)
(* (Kept), so the loop joins an idle worker.                               *)
(***************************************************************************)
EXTENDS ThreadServer, TLAPS

\* The slot holds the posted request, and no other request is posted.
Slot == \A r \in Requests : phase[r] = "posted" <=> m_fn = r

\* Every request is sent once.
Sent ==
    /\ \A r \in Requests : phase[r] = "new" <=> \A i \in 1..Len(accepted) : accepted[i] # r
    /\ \A i, j \in 1..Len(accepted) : accepted[i] = accepted[j] => i = j

\* The m_thread_ready chain.
Chain ==
    \A i, j \in 1..Len(accepted) :
        i < j /\ phase[accepted[j]] \notin {"queued", "dropped"}
            => ReadyAfter(accepted[i])

\* The object lives until nothing refers to it.
Kept == LoopIdle <=> Referenced

NoPostFails == \A r \in Requests : phase[r] # "failed"
Queue == NoPostFails /\ Slot /\ Sent /\ Chain

\* The destructor does not run before the thread waits for the first time.
Starts == worker # "crashed" /\ (worker = "starting" => waiter)

IInv == TypeOK /\ Queue /\ Kept /\ Starts

LEMMA InitIInv == Init => IInv
<1> SUFFICES ASSUME Init PROVE IInv
  OBVIOUS
<1>1. TypeOK
  <2>1. <<>> \in Seq(Requests)
    OBVIOUS
  <2>2. accepted = <<>> /\ stack = <<>>
    BY DEF Init
  <2>3. QED
    BY <2>1, <2>2 DEF Init, TypeOK, Phases
<1>2. Len(accepted) = 0 /\ NoPostFails
  BY DEF Init, NoPostFails
<1>3. Slot
  BY RequestsAssumption DEF Init, Slot
<1>4. Sent /\ Chain
  <2>1. 1..Len(accepted) = {}
    BY <1>2
  <2>2. \A r \in Requests : phase[r] = "new"
    BY DEF Init
  <2>3. QED
    BY <2>1, <2>2 DEF Sent, Chain
<1>5. Kept /\ Starts
  BY DEF Init, Kept, LoopIdle, Referenced, Starts
<1>6. QED
  BY <1>1, <1>2, <1>3, <1>4, <1>5 DEF IInv, Queue

----------------------------------------------------------------------------
(* Type correctness.                                                       *)

LEMMA TypeStep == TypeOK /\ [Next]_vars => TypeOK'
<1> SUFFICES ASSUME TypeOK, [Next]_vars PROVE TypeOK'
  OBVIOUS
<1> USE RequestsAssumption DEF TypeOK, Phases, Set, workerVars, peerVars
<1>0. stack # <<>> => Top \in Requests
  BY DEF Top
<1>1. ASSUME NEW r \in Requests, LoopRunThen(r) PROVE TypeOK'
  BY <1>1 DEF LoopRunThen
<1>2. ASSUME NEW r \in Requests, LoopSyncReady(r) PROVE TypeOK'
  BY <1>2 DEF LoopSyncReady
<1>3. ASSUME NEW r \in Requests, LoopSend(r) PROVE TypeOK'
  BY <1>3 DEF LoopSend
<1>4. ASSUME NEW r \in Requests, LoopSyncDone(r) PROVE TypeOK'
  BY <1>4 DEF LoopSyncDone, ReleaseSelf
<1>5. ASSUME NEW r \in Requests, LoopDropSelf(r) PROVE TypeOK'
  BY <1>5 DEF LoopDropSelf, DropRef, Destroy
<1>6. ASSUME NEW r \in Requests, LoopReply(r) PROVE TypeOK'
  BY <1>6 DEF LoopReply
<1>7. ASSUME NEW r \in Requests, WorkerCall(r) PROVE TypeOK'
  BY <1>7 DEF WorkerCall
<1>8. ASSUME NEW r \in Requests, WorkerReturn(r) PROVE TypeOK'
  BY <1>8 DEF WorkerReturn
<1>9. ASSUME NEW r \in Requests, WorkerPop(r) PROVE TypeOK'
  BY <1>9 DEF WorkerPop, WaitAgain, Running
<1>10. ASSUME NEW r \in Requests, NEW p \in Requests \union {None}, LoopPost(r, p)
       PROVE TypeOK'
  BY <1>10 DEF LoopPost
<1>11. ASSUME WorkerPickUp PROVE TypeOK'
  BY <1>11 DEF WorkerPickUp, HasFn
<1>12. ASSUME WorkerWait PROVE TypeOK'
  BY <1>0, <1>12 DEF WorkerWait
<1>13. ASSUME WorkerSpuriousWakeup PROVE TypeOK'
  BY <1>13 DEF WorkerSpuriousWakeup
<1>14. ASSUME LoopRelease PROVE TypeOK'
  BY <1>14 DEF LoopRelease, DropRef, Destroy
<1>15. ASSUME LoopDisconnect PROVE TypeOK'
  BY <1>15 DEF LoopDisconnect, DropRef, Destroy
<1>16. ASSUME LoopJoined PROVE TypeOK'
  BY <1>16 DEF LoopJoined
<1>17. ASSUME WorkerStart PROVE TypeOK'
  BY <1>17 DEF WorkerStart
<1>18. ASSUME UNCHANGED vars PROVE TypeOK'
  BY <1>18 DEF vars
<1>19. QED
  BY <1>1, <1>2, <1>3, <1>4, <1>5, <1>6, <1>7, <1>8, <1>9, <1>10, <1>11, <1>12,
     <1>13, <1>14, <1>15, <1>16, <1>17, <1>18 DEF Next, Terminated

----------------------------------------------------------------------------
(* The chain.                                                              *)


\* Steps that leave the queue alone.
LEMMA QueueSame ==
    ASSUME Queue, UNCHANGED <<phase, accepted, m_fn>>
    PROVE  Queue'
BY DEF Queue, NoPostFails, Slot, Sent, Chain, ReadyAfter

\* Steps of a request that the worker has picked up.
LEMMA QueueAdvance ==
    ASSUME TypeOK, Queue, NEW r \in Requests, NEW p,
           phase[r] \in {"ready", "fn", "send", "call", "result", "returning"},
           p \in {"fn", "send", "call", "result", "returning", "finished"},
           Set(r, p), UNCHANGED <<accepted, m_fn>>
    PROVE  Queue'
<1>1. \A q \in Requests : phase'[q] = IF q = r THEN p ELSE phase[q]
  BY DEF Set, TypeOK
<1>2. \A i \in 1..Len(accepted) : accepted[i] \in Requests
  BY DEF TypeOK
<1>3. NoPostFails' /\ Slot'
  BY <1>1 DEF Queue, NoPostFails, Slot
<1>4. Sent'
  BY <1>1, <1>2 DEF Queue, Sent
<1>5. \A q \in Requests : ReadyAfter(q) => ReadyAfter(q)'
  BY <1>1 DEF ReadyAfter
<1>6. Chain'
  BY <1>1, <1>2, <1>5 DEF Queue, Chain
<1>7. QED
  BY <1>3, <1>4, <1>6 DEF Queue

\* A new request goes to the end of the chain.
LEMMA QueuePost ==
    ASSUME TypeOK, Queue, NEW r \in Requests, NEW p \in Requests \union {None},
           LoopPost(r, p)
    PROVE  Queue'
<1>1. /\ phase[r] = "new"
      /\ \A q \in Requests : phase'[q] = IF q = r THEN "queued" ELSE phase[q]
      /\ accepted' = Append(accepted, r)
      /\ m_fn' = m_fn
  BY DEF LoopPost, Set, TypeOK
<1>2. /\ Len(accepted) \in Nat
      /\ Len(accepted') = Len(accepted) + 1
      /\ accepted'[Len(accepted')] = r
      /\ \A i \in 1..Len(accepted) : accepted'[i] = accepted[i] /\ accepted[i] \in Requests
  BY <1>1 DEF TypeOK
<1>3. NoPostFails' /\ Slot'
  BY <1>1 DEF Queue, NoPostFails, Slot
<1>4. \A i \in 1..Len(accepted) : accepted[i] # r
  BY <1>1 DEF Queue, Sent
<1>5. Sent'
  BY <1>1, <1>2, <1>4 DEF Queue, Sent
<1>6. Chain'
  <2> SUFFICES ASSUME NEW i \in 1..Len(accepted'), NEW j \in 1..Len(accepted'),
                      i < j, phase'[accepted'[j]] \notin {"queued", "dropped"}
               PROVE  ReadyAfter(accepted[i])'
    BY DEF Chain
  <2>1. j # Len(accepted')
    BY <1>1, <1>2
  <2>2. i \in 1..Len(accepted) /\ j \in 1..Len(accepted)
    BY <1>2, <2>1
  <2>3. /\ accepted[i] # r /\ accepted'[i] = accepted[i]
        /\ accepted[j] # r /\ accepted'[j] = accepted[j]
    BY <1>2, <1>4, <2>2
  <2>4. phase'[accepted'[i]] = phase[accepted[i]] /\ phase'[accepted'[j]] = phase[accepted[j]]
    BY <1>1, <1>2, <2>2, <2>3
  <2>5. QED
    BY <2>2, <2>4 DEF Queue, Chain, ReadyAfter
<1>7. QED
  BY <1>3, <1>5, <1>6 DEF Queue

\* A request whose turn has come finds the slot free: any posted request
\* would be before it in the chain, and picked up, or after it, and queued.
LEMMA SlotFree ==
    ASSUME TypeOK, Queue, NEW r \in Requests, phase[r] = "queued", ThreadReady(r)
    PROVE  /\ m_fn = None
           /\ \A i, j \in 1..Len(accepted) :
                  i < j /\ accepted[j] = r => ReadyAfter(accepted[i])
<1>1. PICK k \in 1..Len(accepted) :
          accepted[k] = r /\ (k > 1 => ReadyAfter(accepted[k - 1]))
  BY DEF ThreadReady, TypeOK
<1>2. Len(accepted) \in Nat /\ \A i \in 1..Len(accepted) : accepted[i] \in Requests
  BY DEF TypeOK
<1>3. \A i \in 1..Len(accepted) : i < k => ReadyAfter(accepted[i])
  <2> SUFFICES ASSUME NEW i \in 1..Len(accepted), i < k PROVE ReadyAfter(accepted[i])
    OBVIOUS
  <2>1. k - 1 \in 1..Len(accepted) /\ ReadyAfter(accepted[k - 1])
    BY <1>1, <1>2
  <2>2. CASE i = k - 1
    BY <2>1, <2>2
  <2>3. CASE i < k - 1
    <3>1. phase[accepted[k - 1]] \notin {"queued", "dropped"}
      BY <2>1 DEF ReadyAfter
    <3>2. QED
      BY <2>1, <2>3, <3>1 DEF Queue, Chain
  <2>4. QED
    BY <1>2, <2>2, <2>3
<1>4. m_fn = None
  <2> SUFFICES ASSUME m_fn \in Requests PROVE FALSE
    BY DEF TypeOK
  <2>1. phase[m_fn] = "posted"
    BY DEF Queue, Slot
  <2>2. PICK i \in 1..Len(accepted) : accepted[i] = m_fn
    BY <2>1 DEF Queue, Sent
  <2>3. ~ReadyAfter(accepted[i]) /\ ~ReadyAfter(accepted[k])
    BY <1>1, <2>1, <2>2 DEF ReadyAfter
  <2>4. i # k
    BY <1>1, <2>1, <2>2
  <2>5. ~(i < k) /\ ~(k < i)
    BY <1>3, <2>1, <2>2, <2>3 DEF Queue, Chain
  <2>6. QED
    BY <2>4, <2>5, <1>2
<1>5. QED
  BY <1>1, <1>2, <1>3, <1>4 DEF Queue, Sent

LEMMA QueueRunThen ==
    ASSUME TypeOK, Queue, NEW r \in Requests, LoopRunThen(r)
    PROVE  Queue' /\ phase'[r] = "posted"
<1>1. /\ m_fn = None
      /\ \A i, j \in 1..Len(accepted) :
             i < j /\ accepted[j] = r => ReadyAfter(accepted[i])
  BY SlotFree DEF LoopRunThen
<1>2. /\ phase[r] = "queued"
      /\ \A q \in Requests : phase'[q] = IF q = r THEN "posted" ELSE phase[q]
      /\ m_fn' = r
      /\ accepted' = accepted
  BY <1>1 DEF LoopRunThen, Set, TypeOK, peerVars
<1>3. \A i \in 1..Len(accepted) : accepted[i] \in Requests
  BY DEF TypeOK
<1>4. NoPostFails' /\ Slot'
  BY <1>1, <1>2, RequestsAssumption DEF Queue, NoPostFails, Slot
<1>5. Sent'
  BY <1>2, <1>3 DEF Queue, Sent
<1>6. \A q \in Requests : ReadyAfter(q) => ReadyAfter(q)'
  BY <1>2 DEF ReadyAfter
<1>7. Chain'
  BY <1>1, <1>2, <1>3, <1>6 DEF Queue, Chain
<1>8. QED
  BY <1>2, <1>4, <1>5, <1>7 DEF Queue

LEMMA QueuePickUp ==
    ASSUME TypeOK, Queue, WorkerPickUp
    PROVE  Queue' /\ m_fn \in Requests /\ phase'[m_fn] = "ready"
<1>1. /\ m_fn \in Requests
      /\ phase[m_fn] = "posted"
      /\ \A q \in Requests : phase'[q] = IF q = m_fn THEN "ready" ELSE phase[q]
      /\ m_fn' = None
      /\ accepted' = accepted
  BY DEF WorkerPickUp, HasFn, Set, TypeOK, peerVars, Queue, Slot
<1>2. \A i \in 1..Len(accepted) : accepted[i] \in Requests
  BY DEF TypeOK
<1>3. NoPostFails' /\ Slot'
  BY <1>1, RequestsAssumption DEF Queue, NoPostFails, Slot
<1>4. Sent'
  BY <1>1, <1>2 DEF Queue, Sent
<1>5. \A q \in Requests : ReadyAfter(q) => ReadyAfter(q)'
  BY <1>1 DEF ReadyAfter
<1>6. Chain'
  BY <1>1, <1>2, <1>5 DEF Queue, Chain
<1>7. QED
  BY <1>1, <1>3, <1>4, <1>6 DEF Queue

LEMMA QueueDisconnect == ASSUME TypeOK, Queue, LoopDisconnect PROVE Queue'
<1>1. /\ \A q \in Requests :
             phase'[q] = IF phase[q] = "queued" THEN "dropped" ELSE phase[q]
      /\ m_fn' = m_fn /\ accepted' = accepted
  BY DEF LoopDisconnect
<1>2. \A i \in 1..Len(accepted) : accepted[i] \in Requests
  BY DEF TypeOK
<1>3. NoPostFails' /\ Slot'
  BY <1>1 DEF Queue, NoPostFails, Slot
<1>4. Sent'
  BY <1>1, <1>2 DEF Queue, Sent
<1>5. Chain'
  BY <1>1, <1>2 DEF Queue, Chain, ReadyAfter
<1>6. QED
  BY <1>3, <1>4, <1>5 DEF Queue

----------------------------------------------------------------------------
(* References, and the invariant.                                          *)

LEMMA StartsStep == Starts /\ [Next]_vars => Starts'
<1> SUFFICES ASSUME Starts, [Next]_vars PROVE Starts'
  OBVIOUS
<1> USE DEF Starts, workerVars, peerVars
<1>1. CASE UNCHANGED <<worker, waiter>>
  BY <1>1
<1>2. ASSUME DropRef, UNCHANGED worker PROVE Starts'
  BY <1>2 DEF DropRef, Destroy, Unlocked
<1>3. CASE WorkerStart \/ WorkerWait
  BY <1>3 DEF WorkerStart, WorkerWait, Waiting
<1>4. CASE LoopRelease \/ LoopDisconnect \/ \E r \in Requests : LoopDropSelf(r)
  BY <1>2, <1>4 DEF LoopRelease, LoopDisconnect, LoopDropSelf
<1>5. QED
  BY <1>1, <1>3, <1>4
     DEF Next, vars, Terminated, LoopRunThen, LoopSyncReady, LoopSend, LoopSyncDone, ReleaseSelf,
         LoopReply, WorkerCall, WorkerReturn, WorkerPop, LoopPost, WorkerPickUp,
         WorkerSpuriousWakeup, LoopJoined

\* Steps of the worker, and functions it has passed to sync().
LEMMA Advance ==
    ASSUME TypeOK, Queue, Kept, NEW r \in Requests, NEW p,
           phase[r] \in {"ready", "fn", "send", "call", "result", "returning"},
           p \in {"fn", "send", "call", "result", "returning", "finished"},
           phase[r] = "returning" <=> p = "finished",
           p # "returning",
           Set(r, p), UNCHANGED <<accepted, m_fn, client_ref, later, loop_pc>>
    PROVE  Queue' /\ Kept'
<1>1. Queue'
  BY QueueAdvance
<1>2. \A q \in Requests : phase'[q] = IF q = r THEN p ELSE phase[q]
  BY DEF Set, TypeOK
<1>3. Referenced' <=> Referenced
  BY <1>2 DEF Referenced, Holding
<1>4. QED
  BY <1>1, <1>3 DEF Kept, LoopIdle

\* Dropping a reference keeps the loop idle exactly if others are left.
LEMMA Dropped == ASSUME DropRef, LoopIdle PROVE Kept'
BY DEF DropRef, Destroy, Kept, LoopIdle

LEMMA StepIInv == IInv /\ [Next]_vars => IInv'
<1> SUFFICES ASSUME IInv, [Next]_vars PROVE IInv'
  OBVIOUS
<1>0. TypeOK /\ TypeOK' /\ Queue /\ Kept /\ Starts'
  BY TypeStep, StartsStep DEF IInv
<1>00. ASSUME Queue', Kept' PROVE IInv'
  BY <1>0, <1>00 DEF IInv
<1>1. ASSUME NEW r \in Requests, LoopRunThen(r) PROVE IInv'
  <2>1. Queue' /\ phase'[r] = "posted"
    BY <1>0, <1>1, QueueRunThen
  <2>2. Kept'
    BY <1>1, <2>1 DEF Kept, LoopRunThen, LoopIdle, Referenced, Holding
  <2>3. QED
    BY <1>00, <2>1, <2>2
<1>2. ASSUME NEW r \in Requests, LoopSyncReady(r) PROVE IInv'
  BY <1>0, <1>00, <1>2, Advance DEF LoopSyncReady, peerVars
<1>3. ASSUME NEW r \in Requests, LoopSend(r) PROVE IInv'
  BY <1>0, <1>00, <1>3, Advance DEF LoopSend, peerVars
<1>4. ASSUME NEW r \in Requests, LoopSyncDone(r) PROVE IInv'
  <2>1. Queue'
    BY <1>0, <1>4, QueueAdvance DEF LoopSyncDone, ReleaseSelf, peerVars
  <2>2. Kept'
    BY <1>4 DEF LoopSyncDone, ReleaseSelf, Kept, LoopIdle, Referenced
  <2>3. QED
    BY <1>00, <2>1, <2>2
<1>5. ASSUME NEW r \in Requests, LoopDropSelf(r) PROVE IInv'
  BY <1>0, <1>00, <1>5, QueueSame, Dropped DEF LoopDropSelf, peerVars
<1>6. ASSUME NEW r \in Requests, LoopReply(r) PROVE IInv'
  <2>1. Queue'
    BY <1>0, <1>6, QueueSame DEF LoopReply, peerVars
  <2>2. Kept'
    BY <1>0, <1>6 DEF LoopReply, peerVars, Kept, LoopIdle, Referenced
  <2>3. QED
    BY <1>00, <2>1, <2>2
<1>7. ASSUME NEW r \in Requests, WorkerCall(r) PROVE IInv'
  BY <1>0, <1>00, <1>7, Advance DEF WorkerCall, peerVars
<1>8. ASSUME NEW r \in Requests, WorkerReturn(r) PROVE IInv'
  BY <1>0, <1>00, <1>8, Advance DEF WorkerReturn, peerVars
<1>9. ASSUME NEW r \in Requests, WorkerPop(r) PROVE IInv'
  BY <1>0, <1>00, <1>9, Advance DEF WorkerPop, peerVars
<1>10. ASSUME NEW r \in Requests, NEW p \in Requests \union {None}, LoopPost(r, p)
       PROVE IInv'
  <2>1. Queue'
    BY <1>0, <1>10, QueuePost
  <2>2. Kept'
    BY <1>10 DEF LoopPost, Kept, LoopIdle, Referenced
  <2>3. QED
    BY <1>00, <2>1, <2>2
<1>11. ASSUME WorkerPickUp PROVE IInv'
  <2>1. Queue' /\ m_fn \in Requests /\ phase'[m_fn] = "ready"
    BY <1>0, <1>11, QueuePickUp
  <2>2. phase[m_fn] = "posted"
    BY <1>0, <2>1 DEF Queue, Slot
  <2>3. LoopIdle /\ UNCHANGED loop_pc
    BY <1>0, <1>11, <2>1, <2>2 DEF Kept, Referenced, Holding, WorkerPickUp
  <2>4. Kept'
    BY <2>1, <2>3 DEF Kept, LoopIdle, Referenced, Holding
  <2>5. QED
    BY <1>00, <2>1, <2>4
<1>12. ASSUME WorkerWait PROVE IInv'
  <2>1. CASE UNCHANGED phase
    <3>1. Queue'
      BY <1>0, <1>12, <2>1, QueueSame DEF WorkerWait, peerVars
    <3>2. Kept'
      BY <1>0, <1>12, <2>1 DEF WorkerWait, peerVars, Kept, LoopIdle, Referenced
    <3>3. QED
      BY <1>00, <3>1, <3>2
  <2>2. CASE stack # <<>> /\ Set(Top, "fn")
    <3>1. Top \in Requests /\ phase[Top] = "call"
      BY <1>0, <1>12, <2>2 DEF WorkerWait, Waiting, Top, TypeOK
    <3>2. QED
      BY <1>0, <1>00, <1>12, <2>2, <3>1, Advance DEF WorkerWait, peerVars
  <2>3. QED
    BY <1>12, <2>1, <2>2 DEF WorkerWait
<1>13. ASSUME WorkerSpuriousWakeup PROVE IInv'
  <2>1. Queue'
    BY <1>0, <1>13, QueueSame DEF WorkerSpuriousWakeup, peerVars
  <2>2. Kept'
    BY <1>0, <1>13 DEF WorkerSpuriousWakeup, peerVars, Kept, LoopIdle, Referenced
  <2>3. QED
    BY <1>00, <2>1, <2>2
<1>14. ASSUME LoopRelease PROVE IInv'
  BY <1>0, <1>00, <1>14, QueueSame, Dropped DEF LoopRelease
<1>15. ASSUME LoopDisconnect PROVE IInv'
  BY <1>0, <1>00, <1>15, QueueDisconnect, Dropped DEF LoopDisconnect
<1>16. ASSUME LoopJoined PROVE IInv'
  <2>1. Queue'
    BY <1>0, <1>16, QueueSame DEF LoopJoined, peerVars
  <2>2. Kept'
    BY <1>0, <1>16 DEF LoopJoined, peerVars, Kept, LoopIdle, Referenced
  <2>3. QED
    BY <1>00, <2>1, <2>2
<1>17. ASSUME WorkerStart \/ UNCHANGED vars PROVE IInv'
  <2>1. Queue'
    BY <1>0, <1>17, QueueSame DEF vars, WorkerStart, peerVars
  <2>2. Kept'
    BY <1>0, <1>17 DEF vars, WorkerStart, peerVars, Kept, LoopIdle, Referenced
  <2>3. QED
    BY <1>00, <2>1, <2>2
<1>18. QED
  BY <1>1, <1>2, <1>3, <1>4, <1>5, <1>6, <1>7, <1>8, <1>9, <1>10, <1>11, <1>12,
     <1>13, <1>14, <1>15, <1>16, <1>17 DEF Next, Terminated

\* The strengthened invariant holds in every reachable state.
THEOREM Inductive == Spec => []IInv
BY InitIInv, StepIInv, PTL DEF Spec

\* Type correctness.
THEOREM TypeCorrect == Spec => []TypeOK
BY Inductive, PTL DEF IInv

\* assert(posted) in ProxyServer<Thread>::post holds for any number of
\* requests, nested or not, and whenever the connection breaks.
THEOREM PostNeverFails == Spec => []NeverFails
<1>1. IInv => NeverFails
  BY DEF IInv, Queue, NoPostFails, Starts, NeverFails
<1>2. QED
  BY <1>1, Inductive, PTL

\* ~ProxyServer<Thread> never joins a worker that still needs the event loop.
THEOREM JoinsOnlyIdleWorkers == Spec => []JoinsIdleWorker
<1>1. IInv => JoinsIdleWorker
  BY DEF IInv, TypeOK, Queue, NoPostFails, Slot, Kept, Referenced, Holding, JoinsIdleWorker, Phases,
         Over
<1>2. QED
  BY <1>1, Inductive, PTL

----------------------------------------------------------------------------
(* Sleeping.                                                               *)

\* A sleeping worker is in Waiter::wait: idle, or in the nested call of the
\* innermost request.  With the types this makes NoLostWakeup inductive.
Sleeps == asleep => Waiting /\ m_fn = None /\ ~Predicate

\* Steps of requests other than the innermost one, which leave the worker alone.
LEMMA SleepsSame ==
    ASSUME TypeOK, Sleeps, UNCHANGED <<m_fn, waiter, stack, asleep, worker, replied>>,
           \A r \in Requests : phase[r] = "call" => phase'[r] = "call"
    PROVE  Sleeps'
<1>1. stack # <<>> => Top \in Requests /\ Top' = Top
  BY DEF TypeOK, Top
<1>2. QED
  BY <1>1 DEF Sleeps, Waiting, Predicate

LEMMA SleepsStep == TypeOK /\ Sleeps /\ [Next]_vars => Sleeps'
<1> SUFFICES ASSUME TypeOK, Sleeps, [Next]_vars PROVE Sleeps'
  OBVIOUS
<1> USE DEF workerVars, peerVars
<1>1. CASE asleep' = FALSE
  BY <1>1 DEF Sleeps
<1>2. ASSUME NEW r \in Requests, NEW p \in Requests \union {None}, LoopPost(r, p)
      PROVE  Sleeps'
  BY <1>2, SleepsSame DEF LoopPost, Set, TypeOK
<1>3. ASSUME NEW r \in Requests, LoopRunThen(r) PROVE Sleeps'
  BY <1>1, <1>3, SleepsSame DEF LoopRunThen, Set, TypeOK
<1>4. ASSUME NEW r \in Requests, LoopSyncReady(r) \/ LoopSyncDone(r) PROVE Sleeps'
  BY <1>4, SleepsSame DEF LoopSyncReady, LoopSyncDone, ReleaseSelf, Set, TypeOK
<1>5. ASSUME NEW r \in Requests, LoopSend(r) \/ LoopReply(r) PROVE Sleeps'
  BY <1>1, <1>5, SleepsSame DEF LoopSend, LoopReply, Set, TypeOK
<1>6. ASSUME DropRef, UNCHANGED <<m_fn, stack, worker, replied>>,
             \A r \in Requests : phase[r] = "call" => phase'[r] = "call"
      PROVE  Sleeps'
  BY <1>1, <1>6, SleepsSame DEF DropRef, Destroy
<1>7. CASE LoopRelease \/ LoopDisconnect \/ \E r \in Requests : LoopDropSelf(r)
  BY <1>6, <1>7 DEF LoopRelease, LoopDisconnect, LoopDropSelf
<1>8. ASSUME NEW r \in Requests, WorkerCall(r) \/ WorkerReturn(r) \/ WorkerPop(r)
      PROVE  Sleeps'
  <2>1. ~asleep
    BY <1>8 DEF Sleeps, Waiting, Running, WorkerCall, WorkerReturn, WorkerPop
  <2>2. QED
    BY <1>1, <1>8, <2>1 DEF WorkerCall, WorkerReturn, WorkerPop, WaitAgain, TypeOK
<1>9. CASE WorkerWait
  BY <1>1, <1>9 DEF WorkerWait, Sleeps, Waiting, Predicate, Top, TypeOK
<1>10. CASE WorkerPickUp \/ WorkerSpuriousWakeup
  BY <1>1, <1>10 DEF WorkerPickUp, WorkerSpuriousWakeup, TypeOK
<1>11. CASE WorkerStart
  BY <1>11 DEF WorkerStart, Sleeps, Waiting
<1>12. CASE LoopJoined \/ UNCHANGED vars
  BY <1>12, SleepsSame DEF LoopJoined, vars
<1>13. QED
  BY <1>2, <1>3, <1>4, <1>5, <1>7, <1>8, <1>9, <1>10, <1>11, <1>12 DEF Next, Terminated

\* Waiter::wait never sleeps on a posted function, nor once its predicate holds,
\* however the posts, answers, disconnects and spurious wake-ups interleave.
THEOREM WorkerNotLost == Spec => []NoLostWakeup
<1>1. Init => Sleeps
  BY DEF Init, Sleeps
<1>2. Sleeps => NoLostWakeup
  BY DEF Sleeps, NoLostWakeup
<1>3. QED
  BY <1>1, <1>2, SleepsStep, TypeCorrect, PTL DEF Spec

----------------------------------------------------------------------------
(* The thread keeps the promise of ThreadCalls: every step is one of its   *)
(* steps or changes nothing that the peer can tell.                        *)

\* The abstract state after one request has changed its phase.
LEMMA MovesRequest ==
    ASSUME TypeOK, NEW r \in Requests, NEW p \in Phases, Set(r, p)
    PROVE  /\ \A q \in Requests \ {r} : (RequestState(q))' = RequestState(q)
           /\ RequestStates' = [RequestStates EXCEPT ![r] = (RequestState(r))']
           /\ phase'[r] = p
<1>1. \A q \in Requests : phase'[q] = IF q = r THEN p ELSE phase[q]
  BY DEF TypeOK, Set
<1>2. \A q \in Requests \ {r} : (RequestState(q))' = RequestState(q)
  BY <1>1 DEF RequestState
<1>3. RequestStates' = [RequestStates EXCEPT ![r] = (RequestState(r))']
  BY <1>2 DEF RequestStates
<1> QED
  BY <1>1, <1>2, <1>3

\* A step that moves a request between phases the peer cannot tell apart.
LEMMA Unseen ==
    ASSUME TypeOK, NEW r \in Requests, NEW p \in Phases, Set(r, p),
           \/ {phase[r], p} \subseteq Holding \ {"queued", "posted"}
           \/ {phase[r], p} \subseteq {"queued", "posted"}
           \/ {phase[r], p} \subseteq {"returning", "finished"},
           UNCHANGED <<accepted, loop_pc>>
    PROVE  UNCHANGED Calls!vars
<1>1. (RequestState(r))' = RequestState(r)
  BY MovesRequest DEF RequestState, Holding
<1>2. UNCHANGED RequestStates
  BY <1>1, MovesRequest DEF RequestStates
<1> QED
  BY <1>2 DEF Calls!vars, Stopped, LoopIdle

LEMMA UnseenFrame ==
    ASSUME UNCHANGED <<phase, accepted>>, loop_pc' = "idle" <=> loop_pc = "idle"
    PROVE  UNCHANGED Calls!vars
BY DEF RequestStates, RequestState, Calls!vars, Stopped, LoopIdle

\* The peer sends a request.
LEMMA PostIsSend ==
    ASSUME TypeOK, NEW r \in Requests, NEW p \in Requests \union {None}, LoopPost(r, p)
    PROVE  Calls!Send(r)
<1>1. phase[r] = "new" /\ Set(r, "queued") /\ LoopIdle /\ UNCHANGED loop_pc
      /\ accepted' = Append(accepted, r)
  BY DEF LoopPost
<1>2. RequestState(r) = "none" /\ (RequestState(r))' = "waiting"
  BY <1>1, MovesRequest DEF RequestState, Holding, Phases
<1>3. RequestStates' = [RequestStates EXCEPT ![r] = "waiting"] /\ RequestStates[r] = "none"
  BY <1>1, <1>2, MovesRequest DEF RequestStates, Phases
<1> QED
  BY <1>1, <1>3 DEF Calls!Send, Stopped, LoopIdle

\* The worker takes the function out of the slot: no request sent before it
\* waits any more, by Chain.
LEMMA PickUpIsStart ==
    ASSUME IInv, WorkerPickUp
    PROVE  \E r \in Requests : Calls!Start(r)
<1>1. TypeOK /\ Queue
  BY DEF IInv
<1>2. PICK r \in Requests : r = m_fn /\ phase[r] = "posted"
  BY <1>1, QueuePickUp DEF Queue, Slot
<1>3. Set(r, "ready") /\ UNCHANGED <<accepted, loop_pc>>
  BY <1>2 DEF WorkerPickUp, peerVars
<1>4. RequestState(r) = "waiting" /\ (RequestState(r))' = "running"
  BY <1>1, <1>2, <1>3, MovesRequest DEF RequestState, Holding, Phases
<1>5. RequestStates' = [RequestStates EXCEPT ![r] = "running"] /\ RequestStates[r] = "waiting"
  BY <1>1, <1>3, <1>4, MovesRequest DEF RequestStates, Phases
<1>6. Calls!Oldest(r)
  <2>1. PICK i \in 1..Len(accepted) : accepted[i] = r
    BY <1>1, <1>2 DEF Queue, Sent
  <2>2. Len(accepted) \in Nat /\ DOMAIN accepted = 1..Len(accepted)
        /\ \A j \in 1..Len(accepted) : accepted[j] \in Requests
    BY <1>1 DEF TypeOK
  <2>3. ASSUME NEW j \in 1..(i - 1) PROVE RequestStates[accepted[j]] # "waiting"
    <3>1. j \in 1..Len(accepted) /\ j < i
      BY <2>2
    <3>2. ReadyAfter(accepted[j])
      BY <1>1, <1>2, <2>1, <3>1 DEF Queue, Chain
    <3>3. phase[accepted[j]] \notin {"queued", "posted"} /\ accepted[j] \in Requests
      BY <2>2, <3>1, <3>2 DEF ReadyAfter
    <3>4. RequestState(accepted[j]) # "waiting"
      BY <3>3 DEF RequestState, Holding
    <3> QED
      BY <3>3, <3>4 DEF RequestStates
  <2> QED
    BY <2>1, <2>2, <2>3 DEF Calls!Oldest
<1> QED
  BY <1>3, <1>5, <1>6 DEF Calls!Start, Stopped, LoopIdle

LEMMA DoneIsAnswer ==
    ASSUME TypeOK, NEW r \in Requests, LoopSyncDone(r)
    PROVE  Calls!Answer(r)
<1>1. phase[r] = "result" /\ Set(r, "returning") /\ UNCHANGED <<accepted, loop_pc>>
  BY DEF LoopSyncDone, ReleaseSelf, peerVars
<1>2. RequestState(r) = "running" /\ (RequestState(r))' = "answered"
  BY <1>1, MovesRequest DEF RequestState, Holding, Phases
<1>3. RequestStates' = [RequestStates EXCEPT ![r] = "answered"] /\ RequestStates[r] = "running"
  BY <1>1, <1>2, MovesRequest DEF RequestStates, Phases
<1> QED
  BY <1>1, <1>3 DEF Calls!Answer, Stopped, LoopIdle

\* What drops references cancels requests that have not been posted, and stops
\* the thread only if that leaves nothing waiting or running.
LEMMA DropIsCancelAndStop ==
    ASSUME TypeOK, LoopIdle, DropRef, UNCHANGED accepted, NEW S \in SUBSET Requests,
           \A r \in Requests : /\ r \in S => phase[r] = "queued" /\ phase'[r] = "dropped"
                               /\ r \notin S => phase'[r] = phase[r]
    PROVE  \E T \in SUBSET Calls!In("waiting") : Calls!CancelAndStop(T)
<1>1. \A r \in Requests : /\ r \in S => RequestState(r) = "waiting"
                          /\ (RequestState(r))' = IF r \in S THEN "cancelled" ELSE RequestState(r)
  BY DEF RequestState, Holding
<1>2. RequestStates' = [r \in Requests |-> IF r \in S THEN "cancelled" ELSE RequestStates[r]]
  BY <1>1 DEF RequestStates
<1>3. S \subseteq Calls!In("waiting")
  BY <1>1 DEF Calls!In, RequestStates
<1>4. Stopped' \in BOOLEAN /\ ~Stopped
  BY DEF Stopped, LoopIdle
<1>5. ASSUME Stopped' PROVE Calls!In("waiting") = S /\ Calls!In("running") = {}
  <2>1. \A r \in Requests : phase'[r] \notin Holding
    BY <1>5 DEF DropRef, Stopped, LoopIdle, Referenced
  <2>2. \A r \in Requests : r \in S \/ RequestState(r) \notin {"waiting", "running"}
    BY <2>1 DEF RequestState, Holding
  <2>3. \A r \in S : RequestState(r) = "waiting"
    BY <1>1
  <2> QED
    BY <2>2, <2>3 DEF Calls!In, RequestStates
<1>6. Calls!CancelAndStop(S)
  BY <1>2, <1>3, <1>4, <1>5 DEF Calls!CancelAndStop
<1> QED
  BY <1>3, <1>6

LEMMA StepImplements ==
    ASSUME IInv, [Next]_vars
    PROVE  Calls!Next \/ UNCHANGED Calls!vars
<1>0. TypeOK /\ Queue /\ Kept
  BY DEF IInv
<1>1. ASSUME NEW r \in Requests, LoopRunThen(r) PROVE UNCHANGED Calls!vars
  <2>1. Set(r, "posted") /\ phase[r] = "queued" /\ UNCHANGED <<accepted, loop_pc>>
    BY <1>0, <1>1, SlotFree DEF LoopRunThen, peerVars
  <2> QED
    BY <1>0, <2>1, Unseen DEF Phases
<1>2. ASSUME NEW r \in Requests,
             LoopSyncReady(r) \/ LoopSend(r) \/ WorkerCall(r) \/ WorkerReturn(r) \/ WorkerPop(r)
      PROVE  UNCHANGED Calls!vars
  <2>1. PICK p \in {"fn", "call", "send", "result", "finished"} :
            /\ Set(r, p) /\ UNCHANGED <<accepted, loop_pc>>
            /\ IF p = "finished" THEN phase[r] = "returning"
               ELSE phase[r] \in {"ready", "send", "fn"}
    BY <1>2 DEF LoopSyncReady, LoopSend, WorkerCall, WorkerReturn, WorkerPop, peerVars
  <2> QED
    BY <1>0, <2>1, Unseen DEF Phases, Holding
<1>3. ASSUME NEW r \in Requests, LoopReply(r) PROVE UNCHANGED Calls!vars
  BY <1>3, UnseenFrame DEF LoopReply, peerVars
<1>4. CASE \/ WorkerStart \/ WorkerSpuriousWakeup \/ LoopJoined \/ Terminated \/ UNCHANGED vars
  BY <1>4, UnseenFrame DEF WorkerStart, WorkerSpuriousWakeup, LoopJoined, Terminated, peerVars, vars
<1>5. CASE WorkerWait
  <2>1. CASE UNCHANGED phase
    BY <1>5, <2>1, UnseenFrame DEF WorkerWait, peerVars
  <2>2. CASE stack # <<>> /\ Set(Top, "fn")
    <3>1. Top \in Requests /\ phase[Top] = "call"
      BY <1>0, <1>5, <2>2 DEF WorkerWait, Waiting, Top, TypeOK
    <3> QED
      BY <1>0, <1>5, <2>2, <3>1, Unseen DEF WorkerWait, peerVars, Phases, Holding
  <2> QED
    BY <1>5, <2>1, <2>2 DEF WorkerWait
<1>6. ASSUME LoopIdle, DropRef, UNCHANGED <<phase, accepted>>
      PROVE  \E T \in SUBSET Calls!In("waiting") : Calls!CancelAndStop(T)
  <2> DEFINE S == {r \in Requests : FALSE}
  <2>1. /\ S \in SUBSET Requests
        /\ \A r \in Requests : /\ r \in S => phase[r] = "queued" /\ phase'[r] = "dropped"
                              /\ r \notin S => phase'[r] = phase[r]
    BY <1>6
  <2>2. LoopIdle /\ DropRef /\ UNCHANGED accepted
    BY <1>6
  <2> QED
    BY <1>0, <2>1, <2>2, DropIsCancelAndStop
<1>7. CASE LoopRelease \/ \E r \in Requests : LoopDropSelf(r)
  <2>1. LoopIdle /\ DropRef /\ UNCHANGED <<phase, accepted>>
    BY <1>7 DEF LoopRelease, LoopDropSelf, peerVars
  <2> QED
    BY <1>6, <2>1 DEF Calls!Next
<1>8. CASE LoopDisconnect
  <2> DEFINE S == {r \in Requests : phase[r] = "queued"}
  <2>1. LoopIdle /\ DropRef /\ UNCHANGED accepted
    BY <1>8 DEF LoopDisconnect
  <2>2. \A r \in Requests : /\ r \in S => phase[r] = "queued" /\ phase'[r] = "dropped"
                            /\ r \notin S => phase'[r] = phase[r]
    BY <1>8 DEF LoopDisconnect
  <2>3. \E T \in SUBSET Calls!In("waiting") : Calls!CancelAndStop(T)
    BY <1>0, <2>1, <2>2, DropIsCancelAndStop
  <2> QED
    BY <2>3 DEF Calls!Next
<1>9. CASE WorkerPickUp
  BY <1>9, PickUpIsStart DEF Calls!Next
<1>10. ASSUME NEW r \in Requests,
              \/ LoopSyncDone(r)
              \/ \E p \in Requests \union {None} : LoopPost(r, p)
       PROVE  Calls!Next
  BY <1>0, <1>10, PostIsSend, DoneIsAnswer DEF Calls!Next
<1> QED
  BY <1>1, <1>2, <1>3, <1>4, <1>5, <1>7, <1>8, <1>9, <1>10 DEF Next

\* ProxyServer<Thread> keeps its promise for any number of requests: they start
\* in the order they were sent, each at most once; only a request that has not
\* started is cancelled; and the thread is stopped when none is left to run
\* (the comments at proxy-io.h:102-107 and the chain of m_thread_ready).
THEOREM RequestsRunInOrder == Spec => Calls!ThreadSafety
<1>1. Init => Calls!Init
  <2> SUFFICES ASSUME Init PROVE Calls!Init
    OBVIOUS
  <2>1. \A r \in Requests : RequestState(r) = "none"
    BY DEF Init, RequestState, Holding
  <2> QED
    BY <2>1 DEF Init, Calls!Init, RequestStates, Stopped, LoopIdle
<1>2. IInv /\ [Next]_vars => [Calls!Next]_(Calls!vars)
  BY StepImplements
<1> QED
  BY <1>1, <1>2, Inductive, PTL DEF Spec, Calls!ThreadSafety
=============================================================================
