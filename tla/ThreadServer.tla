----------------------------- MODULE ThreadServer -----------------------------
(***************************************************************************)
(* A worker thread created by ProxyServer<ThreadMap>::makeThread, and the  *)
(* requests its ProxyServer<Thread> object is asked to run on it: the      *)
(* chain of m_thread_ready promises, the one-element queue Waiter::m_fn,   *)
(* requests run on top of a request that is itself waiting for an answer   *)
(* from the client (Waiter::wait inside clientInvoke), a disconnect that   *)
(* cancels requests, and the destructor that joins the thread.             *)
(*                                                                         *)
(* Functions run on the event loop thread are one action each: EventLoop   *)
(* implements PostCalls, so sync() runs its function alone and returns     *)
(* when it is done.  While the destructor joins the thread, the event loop *)
(* runs nothing.  `asleep' says that the worker is blocked in m_cv.wait.   *)
(*                                                                         *)
(* A new thread holds Waiter::m_mutex, which Waiter::post and the          *)
(* destructor lock, until it waits for the first time.                     *)
(***************************************************************************)
EXTENDS Integers, Sequences, FiniteSets

CONSTANTS Requests,  \* requests the peer may send to this thread
          None       \* no request

ASSUME RequestsAssumption == IsFiniteSet(Requests) /\ None \notin Requests

VARIABLES
    phase,       \* how far each request is
    accepted,    \* requests in the order post() was called for them
    parent,      \* the request in whose nested call the peer sent this one
    replied,     \* requests whose nested call has `done' set
    m_fn,        \* Waiter::m_fn: the request posted to the worker
    waiter,      \* whether m_thread_context.waiter is set
    stack,       \* requests on the worker's stack, innermost last
    asleep,      \* whether the worker is blocked in m_cv.wait
    worker,      \* "starting", "live" or "exited"; "crashed" had no waiter
    connected,   \* whether the Connection exists
    client_ref,  \* whether the peer holds a reference to the Thread object
    later,       \* evalLater tasks holding a `self' reference
    loop_pc      \* what the event loop thread is doing

workerVars == <<stack, asleep, worker>>
peerVars == <<accepted, parent, connected, client_ref>>
vars == <<phase, accepted, parent, replied, m_fn, waiter, stack, asleep,
          worker, connected, client_ref, later, loop_pc>>

\* queued: in m_thread_ready.then; posted: in m_fn; ready: in the first
\* sync(); fn: running; send, call: making a nested call; result: in the
\* second sync(); returning: answered, the lambda has still to return.
Phases == {"new", "queued", "posted", "ready", "fn", "send", "call", "result",
           "returning", "finished", "dropped", "failed"}

\* Phases in which the lambda of the request owns a `self' reference.
Holding == {"queued", "posted", "ready", "fn", "send", "call", "result"}
Over == {"returning", "finished", "dropped"}

Set(r, p) == phase' = [phase EXCEPT ![r] = p]
Top == stack[Len(stack)]
Running(r) == stack # <<>> /\ Top = r
LoopIdle == loop_pc = "idle"

----------------------------------------------------------------------------
(* References to the ProxyServer<Thread> object and its destructor.        *)

Referenced == \/ client_ref
              \/ later # {}
              \/ \E r \in Requests : phase[r] \in Holding

\* Variant of Unlocked: the new thread publishes its context before it has the
\* lock.
UnlockedEarly == TRUE

\* Whether m_mutex can be locked from outside the worker.
Unlocked == worker # "starting"

\* Variant of Destroy: the worker is not notified.
DestroyQuietly == waiter' = FALSE /\ loop_pc' = "joining" /\ UNCHANGED asleep

\* ~ProxyServer<Thread>: clear the waiter pointer, wake the worker, join.
Destroy ==
    /\ waiter' = FALSE
    /\ asleep' = FALSE
    /\ loop_pc' = IF m_fn = None THEN "joining" ELSE "failed"

\* After a step that may have dropped the last reference.
DropRef ==
    \/ Referenced' /\ UNCHANGED <<waiter, asleep, loop_pc>>
    \/ ~Referenced' /\ Unlocked /\ Destroy

LoopJoined ==
    /\ loop_pc = "joining"
    /\ worker = "exited"
    /\ loop_pc' = "joined"
    /\ UNCHANGED <<phase, replied, m_fn, waiter, workerVars, peerVars, later>>

----------------------------------------------------------------------------
(* ProxyServer<Thread>::post on the event loop thread.                     *)

\* The peer sends request r, on its own (p = None) or while it handles the
\* nested call that request p made.
LoopPost(r, p) ==
    /\ LoopIdle /\ connected /\ client_ref
    /\ phase[r] = "new"
    /\ p # None => phase[p] = "call" /\ p \notin replied
    /\ Set(r, "queued")
    /\ accepted' = Append(accepted, r)
    /\ parent' = [parent EXCEPT ![r] = p]
    /\ UNCHANGED <<replied, m_fn, waiter, workerVars, connected, client_ref, later, loop_pc>>

\* Variant of ReadyAfter: the next request need not wait for the worker to
\* pick up q.
ReadyWhenPosted(q) == phase[q] \notin {"new", "queued", "dropped"}

\* Variant of ReadyAfter: the next request waits until q has been answered.
ReadyWhenAnswered(q) == phase[q] \in {"returning", "finished"}

\* Whether ready.promise of request q has been fulfilled, by its first sync().
ReadyAfter(q) == phase[q] \notin {"new", "queued", "posted", "ready", "dropped"}

\* m_thread_ready as r found it: of the previous request, or READY_NOW.
ThreadReady(r) ==
    \E i \in DOMAIN accepted :
        /\ accepted[i] = r
        /\ i > 1 => ReadyAfter(accepted[i - 1])

\* m_thread_ready.then(...): Waiter::post, which must not fail.
LoopRunThen(r) ==
    /\ LoopIdle
    /\ phase[r] = "queued"
    /\ ThreadReady(r)
    /\ Unlocked
    /\ \/ m_fn = None /\ m_fn' = r /\ Set(r, "posted") /\ asleep' = FALSE
       \/ m_fn # None /\ Set(r, "failed") /\ UNCHANGED <<m_fn, asleep>>
    /\ UNCHANGED <<replied, waiter, stack, worker, peerVars, later, loop_pc>>

\* The first sync(): fulfil ready.promise.
LoopSyncReady(r) ==
    /\ LoopIdle
    /\ phase[r] = "ready"
    /\ Set(r, "fn")
    /\ UNCHANGED <<replied, m_fn, waiter, workerVars, peerVars, later, loop_pc>>

\* Variant of ReleaseSelf: the reference is dropped inside the sync() call,
\* whose caller then waits for a loop that is joining it.
ReleaseSelfInSync(r) ==
    /\ UNCHANGED later
    /\ Set(r, IF client_ref \/ \E q \in Requests \ {r} : phase[q] \in Holding
              THEN "returning" ELSE "result")
    /\ \/ phase'[r] = "returning" /\ UNCHANGED <<waiter, asleep, loop_pc>>
       \/ phase'[r] = "result" /\ Destroy

\* `self' is moved to an evalLater task.
ReleaseSelf(r) ==
    /\ later' = later \union {r}
    /\ Set(r, "returning")
    /\ UNCHANGED <<waiter, asleep, loop_pc>>

\* The second sync(): answer the request.
LoopSyncDone(r) ==
    /\ LoopIdle
    /\ phase[r] = "result"
    /\ ReleaseSelf(r)
    /\ UNCHANGED <<replied, m_fn, stack, worker, peerVars>>

LoopDropSelf(r) ==
    /\ LoopIdle
    /\ r \in later
    /\ later' = later \ {r}
    /\ UNCHANGED <<phase, replied, m_fn, stack, worker, peerVars>>
    /\ DropRef

----------------------------------------------------------------------------
(* Nested calls, the peer, and the connection.                             *)

\* clientInvoke's sync(): send the request, or fail when disconnected.
LoopSend(r) ==
    /\ LoopIdle
    /\ phase[r] = "send"
    /\ Set(r, "call")
    /\ \/ connected /\ UNCHANGED <<replied, asleep>>
       \/ ~connected /\ replied' = replied \union {r} /\ asleep' = FALSE
    /\ UNCHANGED <<m_fn, waiter, stack, worker, peerVars, later, loop_pc>>

\* The response to r's nested call, or the exception after a disconnect.  The
\* peer answers after the requests it made while handling the call.
LoopReply(r) ==
    /\ LoopIdle
    /\ phase[r] = "call" /\ r \notin replied
    /\ connected => \A q \in Requests : parent[q] = r => phase[q] \in Over
    /\ replied' = replied \union {r}
    /\ asleep' = FALSE
    /\ UNCHANGED <<phase, m_fn, waiter, stack, worker, peerVars, later, loop_pc>>

\* The peer releases the Thread object, as its own thread exits.
LoopRelease ==
    /\ LoopIdle /\ connected /\ client_ref
    /\ client_ref' = FALSE
    /\ UNCHANGED <<phase, replied, m_fn, stack, worker, accepted, parent, connected, later>>
    /\ DropRef

\* ~Connection: m_canceler drops the continuations that have not run (a
\* posted request has left its own and keeps running), then m_rpc_system
\* releases the peer's reference.
LoopDisconnect ==
    /\ LoopIdle /\ connected
    /\ connected' = FALSE
    /\ client_ref' = FALSE
    /\ phase' = [r \in Requests |-> IF phase[r] = "queued" THEN "dropped" ELSE phase[r]]
    /\ UNCHANGED <<replied, m_fn, stack, worker, accepted, parent, later>>
    /\ DropRef

----------------------------------------------------------------------------
(* The worker thread.                                                      *)

\* The lambda of makeThread, which has published the thread context and calls
\* waiter->wait() through the pointer that the destructor clears.
WorkerStart ==
    /\ worker = "starting"
    /\ worker' = IF waiter THEN "live" ELSE "crashed"
    /\ UNCHANGED <<phase, replied, m_fn, waiter, stack, asleep, peerVars, later, loop_pc>>

\* Waiter::wait with the predicate of makeThread or of clientInvoke.
Waiting == worker = "live" /\ (stack # <<>> => phase[Top] = "call")
Predicate == IF stack = <<>> THEN ~waiter ELSE Top \in replied

\* Variant of HasFn: every wake-up is taken for a posted function.
AnyWakeup == TRUE

HasFn == m_fn # None

WorkerPickUp ==
    /\ Waiting /\ ~asleep
    /\ HasFn
    /\ stack' = Append(stack, m_fn)
    /\ Set(m_fn, "ready")
    /\ m_fn' = None
    /\ UNCHANGED <<replied, waiter, asleep, worker, peerVars, later, loop_pc>>

\* No function to run: leave if the predicate holds, else sleep.
WorkerWait ==
    /\ Waiting /\ ~asleep
    /\ m_fn = None
    /\ \/ /\ ~Predicate
          /\ asleep' = TRUE
          /\ UNCHANGED <<phase, replied, worker>>
       \/ /\ Predicate /\ stack = <<>>
          /\ worker' = "exited"
          /\ UNCHANGED <<phase, replied, asleep>>
       \/ /\ Predicate /\ stack # <<>>
          /\ Set(Top, "fn")
          /\ replied' = replied \ {Top}
          /\ UNCHANGED <<asleep, worker>>
    /\ UNCHANGED <<m_fn, waiter, stack, peerVars, later, loop_pc>>

WorkerSpuriousWakeup ==
    /\ asleep
    /\ asleep' = FALSE
    /\ UNCHANGED <<phase, replied, m_fn, waiter, stack, worker, peerVars, later, loop_pc>>

\* The function makes a call to the client.
WorkerCall(r) ==
    /\ Running(r)
    /\ phase[r] = "fn"
    /\ Set(r, "send")
    /\ UNCHANGED <<replied, m_fn, waiter, workerVars, peerVars, later, loop_pc>>

WorkerReturn(r) ==
    /\ Running(r)
    /\ phase[r] = "fn"
    /\ Set(r, "result")
    /\ UNCHANGED <<replied, m_fn, waiter, workerVars, peerVars, later, loop_pc>>

\* Variant of WaitAgain: "if (m_fn)" instead of "while (m_fn)".  Below, s is
\* the stack once the function has returned.
WaitOnce(s) ==
    asleep' = ~(IF s = <<>> THEN ~waiter ELSE s[Len(s)] \in replied)

\* Once a function returns, Waiter::wait looks at m_fn again.
WaitAgain(s) == UNCHANGED asleep

WorkerPop(r) ==
    /\ Running(r)
    /\ phase[r] = "returning"
    /\ Set(r, "finished")
    /\ stack' = SubSeq(stack, 1, Len(stack) - 1)
    /\ WaitAgain(stack')
    /\ UNCHANGED <<replied, m_fn, waiter, worker, peerVars, later, loop_pc>>

----------------------------------------------------------------------------

\* makeThread has returned: it has met the new thread, and the peer has a
\* reference.
Init ==
    /\ phase = [r \in Requests |-> "new"]
    /\ accepted = <<>>
    /\ parent = [r \in Requests |-> None]
    /\ replied = {}
    /\ m_fn = None
    /\ waiter = TRUE
    /\ stack = <<>>
    /\ asleep = FALSE
    /\ worker = "starting"
    /\ connected = TRUE
    /\ client_ref = TRUE
    /\ later = {}
    /\ loop_pc = "idle"

\* The object is gone, or an assertion failed.
Terminated ==
    /\ \/ loop_pc \in {"joined", "failed"} \/ worker = "crashed"
       \/ \E r \in Requests : phase[r] = "failed"
    /\ UNCHANGED vars

LoopStep(r) == LoopRunThen(r) \/ LoopSyncReady(r) \/ LoopSend(r) \/ LoopSyncDone(r)
WorkerStep == WorkerStart \/ WorkerPickUp \/ WorkerWait \/ \E r \in Requests : WorkerPop(r)

Next ==
    \/ \E r \in Requests :
        \/ LoopRunThen(r) \/ LoopSyncReady(r) \/ LoopSend(r) \/ LoopSyncDone(r)
        \/ LoopDropSelf(r) \/ LoopReply(r)
        \/ WorkerCall(r) \/ WorkerReturn(r) \/ WorkerPop(r)
        \/ \E p \in Requests \union {None} : LoopPost(r, p)
    \/ WorkerStart \/ WorkerPickUp \/ WorkerWait \/ WorkerSpuriousWakeup
    \/ LoopRelease \/ LoopDisconnect \/ LoopJoined
    \/ Terminated

\* The event loop runs every event it is given, the worker runs when it can,
\* the peer answers, and a function makes finitely many calls and returns.
Fairness ==
    /\ WF_vars(WorkerStep)
    /\ WF_vars(LoopJoined)
    /\ \A r \in Requests : /\ WF_vars(LoopStep(r))
                           /\ WF_vars(LoopDropSelf(r))
                           /\ WF_vars(LoopReply(r))
                           /\ SF_vars(WorkerReturn(r))

Spec == Init /\ [][Next]_vars
FairSpec == Spec /\ Fairness

----------------------------------------------------------------------------
(* Properties.                                                             *)

\* The values the variables range over.
TypeOK ==
    /\ phase \in [Requests -> Phases]
    /\ accepted \in Seq(Requests)
    /\ parent \in [Requests -> Requests \union {None}]
    /\ replied \in SUBSET Requests
    /\ m_fn \in Requests \union {None}
    /\ waiter \in BOOLEAN
    /\ stack \in Seq(Requests)
    /\ asleep \in BOOLEAN
    /\ worker \in {"starting", "live", "exited", "crashed"}
    /\ connected \in BOOLEAN
    /\ client_ref \in BOOLEAN
    /\ later \in SUBSET Requests
    /\ loop_pc \in {"idle", "joining", "joined", "failed"}

\* assert(posted) in post(): Waiter::post never finds a function waiting,
\* although a request is handed over as soon as the one before it starts.  A
\* thread whose object is destroyed before it first waits still has a waiter.
NeverFails == (\A r \in Requests : phase[r] # "failed") /\ worker # "crashed"

\* The event loop thread joins the worker only when the worker has no need of
\* the event loop any more: every function has been answered, and none is
\* waiting (the assertion in ~ProxyServer<Thread>, "This destructor shouldn't
\* be getting called if it is busy").
JoinsIdleWorker ==
    ~LoopIdle => /\ m_fn = None
                 /\ \A r \in Requests : phase[r] \in Over \union {"new"}

\* Waiter::wait does not sleep on a posted function or a true predicate (the
\* comment "to avoid a lost-wakeup bug").
NoLostWakeup == asleep => m_fn = None /\ ~Predicate

\* How far each request is, as the peer can tell.
RequestState(r) ==
    CASE phase[r] \in {"queued", "posted"} -> "waiting"
      [] phase[r] \in Holding \ {"queued", "posted"} -> "running"
      [] phase[r] \in {"returning", "finished"} -> "answered"
      [] phase[r] = "dropped" -> "cancelled"
      [] OTHER -> "none"

RequestStates == [r \in Requests |-> RequestState(r)]
Stopped == ~LoopIdle

Calls == INSTANCE ThreadCalls
    WITH request <- RequestStates, order <- accepted, stopped <- Stopped

\* Requests run in the order they were sent, each at most once, and are
\* answered; a request sent by the peer while it serves a nested call is not
\* blocked by the request that waits for that call.
ThreadImplementsCalls == Calls!ThreadSpec

\* Once the peer has let go of the Thread object, by releasing it or by
\* disconnecting, its thread exits and is joined.
ThreadExits == ~client_ref ~> (loop_pc = "joined")
=============================================================================
