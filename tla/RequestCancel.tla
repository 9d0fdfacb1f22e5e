---------------------------- MODULE RequestCancel ----------------------------
(***************************************************************************)
(* Requests of one connection that execute on worker threads while the     *)
(* connection is destroyed by the event loop thread: the lambda built by   *)
(* PassField for mp.Context (type-context.h), CancelMonitor and            *)
(* CancelProbe (util.h), and the way ServerCall releases the cancel lock   *)
(* while the method runs (proxy-types.h).                                  *)
(*                                                                         *)
(* Each request runs on a worker of its own, handed to it by               *)
(* ProxyServer<Thread>::post (module ThreadServer).  Functions passed to   *)
(* sync() are one action each, taken when the event loop thread is free;   *)
(* while it destroys the connection it runs none.                          *)
(***************************************************************************)
EXTENDS FiniteSets

CONSTANTS Requests,  \* requests that may be executed
          RefArgs,   \* those with a parameter that is an interface reference
          None       \* no request

ASSUME RequestsAssumption == IsFiniteSet(Requests) /\ None \notin Requests
ASSUME RefArgsAssumption == RefArgs \subseteq Requests

VARIABLES
    pc,                \* what the worker of each request is doing
    m_canceled,        \* requests whose CancelMonitor saw its promise destroyed
    m_on_cancel,       \* requests whose CancelMonitor has a callback
    request_canceled,  \* requests whose ServerContext has the flag set
    freed,             \* canceled requests whose params and results are freed
    entry,             \* requests with an entry in the worker's request_threads
    connection,        \* "open", "closing" (in ~Connection) or "gone"
    to_cancel,         \* promises m_canceler.cancel() has still to destroy
    cancelling         \* the one whose promise it is destroying

monitorVars == <<m_canceled, m_on_cancel, request_canceled, freed>>
loopVars == <<connection, to_cancel, cancelling>>
vars == <<pc, monitorVars, entry, loopVars>>

\* start: picked up by the worker; register: in sync() to set m_on_cancel;
\* args: reading the parameters; method: in the C++ method; relock: about to
\* lock cancel_mutex again; results: writing the results; param: in sync() to
\* destroy a reference parameter's ProxyClient; exit: in sync() to clear
\* m_on_cancel; answer: in the second sync() of post().
Phases == {"new", "start", "register", "args", "method", "relock", "results",
           "param", "unlock", "exit", "answer", "done"}

Set(r, p) == pc' = [pc EXCEPT ![r] = p]
LoopIdle == connection # "closing"
InFlight == {r \in Requests : pc[r] \notin {"new", "done"}}

----------------------------------------------------------------------------
(* cancel_mutex.                                                           *)

\* Variant of Locked: the lock is kept while the method runs.
LockedInMethod(r) == pc[r] \in {"register", "args", "method", "results", "param", "unlock"}

\* Variant of Locked: the lock is kept in the last sync() of the lambda.
LockedAtExit(r) == pc[r] \in {"register", "args", "results", "param", "unlock", "exit"}

\* Whether the worker of r holds cancel_mutex: from before the first sync()
\* until the end, except while the method runs.
Locked(r) == pc[r] \in {"register", "args", "results", "param", "unlock"}

----------------------------------------------------------------------------
(* The worker, and what sync() runs for it on the event loop thread.       *)

Arrive(r) ==
    /\ LoopIdle /\ connection = "open"
    /\ pc[r] = "new"
    /\ Set(r, "start")
    /\ UNCHANGED <<monitorVars, entry, loopVars>>

Lock(r) ==
    /\ pc[r] = "start"
    /\ Set(r, "register")
    /\ UNCHANGED <<monitorVars, entry, loopVars>>

\* Variant of Registered: a request is executed even if canceled.
RegisterAlways(r) ==
    /\ m_on_cancel' = m_on_cancel \union {r}
    /\ entry' = entry \union {r}
    /\ Set(r, "args")
    /\ UNCHANGED request_canceled

\* The body of the first sync(): notice a cancellation, else ask to be told
\* of one and add the client's callback thread to request_threads.
Registered(r) ==
    \/ /\ r \in m_canceled
       /\ request_canceled' = request_canceled \union {r}
       /\ Set(r, "unlock")
       /\ UNCHANGED <<m_on_cancel, entry>>
    \/ /\ r \notin m_canceled
       /\ m_on_cancel' = m_on_cancel \union {r}
       /\ entry' = entry \union {r}
       /\ Set(r, "args")
       /\ UNCHANGED request_canceled

SyncRegister(r) ==
    /\ LoopIdle
    /\ pc[r] = "register"
    /\ Registered(r)
    /\ UNCHANGED <<m_canceled, freed, loopVars>>

\* Leaving fn.invoke: reference parameters are destroyed, with the lock held.
Unwind(r) == IF r \in RefArgs THEN "param" ELSE "unlock"

\* Parameters have been read; ServerCall::invoke unlocks and calls the method.
CallMethod(r) ==
    /\ pc[r] = "args"
    /\ Set(r, "method")
    /\ UNCHANGED <<monitorVars, entry, loopVars>>

\* A conversion throws, before or after the reference parameter was made.
ReadFails(r) ==
    /\ pc[r] = "args"
    /\ \E p \in {Unwind(r), "unlock"} : Set(r, p)
    /\ UNCHANGED <<monitorVars, entry, loopVars>>

\* The method returns or throws.
MethodReturn(r) ==
    /\ pc[r] = "method"
    /\ Set(r, "relock")
    /\ UNCHANGED <<monitorVars, entry, loopVars>>

\* Variant of AfterRelock: the flag is not looked at.
AfterRelockAlways(r) == "results"

\* After locking again: InterruptException if canceled.
AfterRelock(r) == IF r \in request_canceled THEN Unwind(r) ELSE "results"

\* The event loop holds the mutex only within one of its own steps.
Relock(r) ==
    /\ pc[r] = "relock"
    /\ Set(r, AfterRelock(r))
    /\ UNCHANGED <<monitorVars, entry, loopVars>>

\* The results have been written.
BuildResults(r) ==
    /\ pc[r] = "results"
    /\ Set(r, Unwind(r))
    /\ UNCHANGED <<monitorVars, entry, loopVars>>

\* ~ProxyClient of the temporary made for a reference parameter.
SyncParam(r) ==
    /\ LoopIdle
    /\ pc[r] = "param"
    /\ Set(r, "unlock")
    /\ UNCHANGED <<monitorVars, entry, loopVars>>

\* KJ_DEFER: unlock, then sync().
Unlock(r) ==
    /\ pc[r] = "unlock"
    /\ Set(r, "exit")
    /\ UNCHANGED <<monitorVars, entry, loopVars>>

\* Variant of Unregister: the callback, which refers to the lambda's local
\* variables, stays.
KeepCallback(r) == UNCHANGED m_on_cancel

Unregister(r) == m_on_cancel' = m_on_cancel \ {r}

SyncExit(r) ==
    /\ LoopIdle
    /\ pc[r] = "exit"
    /\ Unregister(r)
    /\ entry' = entry \ {r}
    /\ Set(r, "answer")
    /\ UNCHANGED <<m_canceled, request_canceled, freed, loopVars>>

\* The monitor is destroyed, so that its promise may go, and the promise is
\* fulfilled.
SyncAnswer(r) ==
    /\ LoopIdle
    /\ pc[r] = "answer"
    /\ Set(r, "done")
    /\ UNCHANGED <<monitorVars, entry, loopVars>>

----------------------------------------------------------------------------
(* ~Connection on the event loop thread.                                   *)

\* Variant of Wrapped: promises stay in the canceler after they are fulfilled.
WrappedForever == {r \in Requests : pc[r] # "new"}

\* The promises m_canceler wraps.
Wrapped == InFlight

Disconnect ==
    /\ connection = "open"
    /\ connection' = "closing"
    /\ to_cancel' = Wrapped
    /\ UNCHANGED <<pc, monitorVars, entry, cancelling>>

\* Destroying the promise of r runs ~CancelProbe and promiseDestroyed().
CancelBegin(r) ==
    /\ connection = "closing"
    /\ cancelling = None
    /\ r \in to_cancel
    /\ cancelling' = r
    /\ m_canceled' = m_canceled \union {r}
    /\ UNCHANGED <<pc, m_on_cancel, request_canceled, freed, entry, connection, to_cancel>>

\* Variant of OnCancel: the callback does not lock cancel_mutex.
OnCancelUnlocked(r) == request_canceled' = request_canceled \union {r}

\* The m_on_cancel callback: lock cancel_mutex, set the flag, unlock.
OnCancel(r) == ~Locked(r) /\ request_canceled' = request_canceled \union {r}

\* Then the params and results of the request are deleted.
CancelEnd(r) ==
    /\ cancelling = r
    /\ \/ r \in m_on_cancel /\ OnCancel(r)
       \/ r \notin m_on_cancel /\ UNCHANGED request_canceled
    /\ freed' = freed \union {r}
    /\ to_cancel' = to_cancel \ {r}
    /\ cancelling' = None
    /\ UNCHANGED <<pc, m_canceled, m_on_cancel, entry, connection>>

\* The disconnect callbacks set by SetThread erase the map entries, and the
\* Connection is deleted.
Disconnected ==
    /\ connection = "closing"
    /\ cancelling = None
    /\ to_cancel = {}
    /\ entry' = {}
    /\ connection' = "gone"
    /\ UNCHANGED <<pc, monitorVars, to_cancel, cancelling>>

----------------------------------------------------------------------------

Init ==
    /\ pc = [r \in Requests |-> "new"]
    /\ m_canceled = {}
    /\ m_on_cancel = {}
    /\ request_canceled = {}
    /\ freed = {}
    /\ entry = {}
    /\ connection = "open"
    /\ to_cancel = {}
    /\ cancelling = None

\* Nothing left to do.
Terminated ==
    /\ connection = "gone"
    /\ InFlight = {}
    /\ UNCHANGED vars

WorkerStep(r) ==
    \/ Lock(r) \/ SyncRegister(r) \/ CallMethod(r) \/ Relock(r) \/ BuildResults(r)
    \/ ReadFails(r) \/ SyncParam(r) \/ Unlock(r) \/ SyncExit(r) \/ SyncAnswer(r)

CancelStep == Disconnected \/ \E r \in Requests : CancelBegin(r) \/ CancelEnd(r)

Next ==
    \/ \E r \in Requests :
        \/ Arrive(r)
        \/ Lock(r) \/ SyncRegister(r) \/ CallMethod(r) \/ ReadFails(r) \/ MethodReturn(r)
        \/ Relock(r) \/ BuildResults(r) \/ SyncParam(r)
        \/ Unlock(r) \/ SyncExit(r) \/ SyncAnswer(r)
        \/ CancelBegin(r) \/ CancelEnd(r)
    \/ Disconnect \/ Disconnected
    \/ Terminated

\* Threads that can run do.  Nothing is said of methods: "the method can take
\* arbitrarily long to return".
Fairness == WF_vars(CancelStep) /\ \A r \in Requests : WF_vars(WorkerStep(r))

Spec == Init /\ [][Next]_vars
FairSpec == Spec /\ Fairness

----------------------------------------------------------------------------
(* Properties.                                                             *)

\* The values the variables range over; m_canceler holds promises of
\* requests in flight only.
TypeOK ==
    /\ pc \in [Requests -> Phases]
    /\ \A s \in {m_canceled, m_on_cancel, request_canceled, freed, entry} :
           s \subseteq Requests
    /\ connection \in {"open", "closing", "gone"}
    /\ to_cancel \subseteq InFlight
    /\ cancelling \in to_cancel \union {None}

\* A worker reads parameters and writes results only while they, and the
\* Connection the conversions refer to, exist (the comments on cancel_mutex
\* and on the InterruptException in ServerCall::invoke).
DataSafe ==
    \A r \in Requests :
        pc[r] \in {"args", "results"} => r \notin freed /\ connection # "gone"

\* request_threads never maps a Connection that has been deleted, and the
\* entry is there for as long as the method may use it.
EntryLifetime ==
    \A r \in Requests :
        /\ r \in entry => connection # "gone"
        /\ pc[r] \in {"args", "method"} /\ connection = "open" => r \in entry
        /\ pc[r] \in {"answer", "done"} => r \notin entry

\* The callback is only set while the local variables it refers to exist.
CallbackScoped == m_on_cancel \subseteq InFlight \ {r \in Requests : pc[r] = "answer"}

\* The event loop thread never waits for a cancel_mutex whose holder waits
\* for the event loop thread ("Release the cancel lock before calling
\* loop->sync").
NoCircularWait ==
    \A r \in Requests :
        cancelling = r /\ r \in m_on_cancel /\ Locked(r)
            => pc[r] \notin {"register", "param", "exit"}

\* A disconnect completes even if no method ever returns.
DisconnectCompletes == (connection = "closing") ~> (connection = "gone")

\* A worker is never stuck outside the method it runs: it reaches the method,
\* or is done with the request, whatever the connection does.
WorkersProgress ==
    \A r \in Requests :
        (pc[r] \notin {"new", "method", "done"}) ~> (pc[r] \in {"method", "done"})
=============================================================================
