-------------------------------- MODULE Calls --------------------------------
(***************************************************************************)
(* Calls between two processes over any number of connections              *)
(* (proxy-types.h, type-context.h): clientInvoke on the calling thread,    *)
(* the request that executes on a thread of the other process, calls that  *)
(* the method makes back, which execute on the thread that waits for it,   *)
(* and the ways a call can end when either side disconnects.               *)
(*                                                                         *)
(* A connection has a Connection object on each side.  The maps of a       *)
(* thread are keyed by its address, which a later one may get.             *)
(*                                                                         *)
(* Functions passed to sync() and continuations run by an event loop are   *)
(* one action each.  What a thread does with the requests posted to it is  *)
(* refined in ThreadServer, the cancellation of one request in             *)
(* RequestCancel, and ~Connection in Connection: here it is one step.      *)
(***************************************************************************)
EXTENDS Integers, Sequences, FiniteSets

CONSTANTS Users,            \* threads of the client process that hold proxy objects
          Workers,          \* threads that makeThread may create, on either side
          MaxConnections, MaxCalls, \* bounds: connections and calls made in a run,
          MaxClosed,                \* and Connection objects destroyed
          None              \* no thread

ASSUME ThreadsAssumption == Users \intersect Workers = {}
ASSUME NoneAssumption == None \notin Users \union Workers \union {"client", "server"}
ASSUME BoundsAssumption == {MaxConnections, MaxCalls, MaxClosed} \subseteq Nat

\* Numbered as they are made; the n-th Connection object of a side needs no more
\* than n addresses.  0 is no connection and no address.
Calls == 1..MaxCalls
Connections == 1..MaxConnections
Addresses == 1..MaxConnections

OSThreads == Users \union Workers
Sides == {"client", "server"}
Peer(s) == IF s = "client" THEN "server" ELSE "client"

VARIABLES
    connected,        \* ends of connections whose Connection object exists
    address,          \* the address of that object, also when it is gone
    made,             \* the side each worker was created on
    request_threads,  \* each thread's map: the thread for an address, or None
    stack,            \* per thread: calls it has made or executes, innermost last
    caller,           \* how far clientInvoke is
    request,          \* how far the request is on the other side
    at, via,          \* the thread that made each call, and the connection
    to,               \* the thread its request names
    inserted,         \* requests executing that inserted an entry
    executed,         \* calls whose method has returned or thrown
    outcome,          \* what clientInvoke returned or threw
    failed            \* results were read through a deleted Connection

sideVars == <<connected, address, made>>
callVars == <<caller, at, via, outcome>>
requestVars == <<request, to, inserted, executed>>
vars == <<sideVars, request_threads, stack, callVars, requestVars, failed>>

Side(o) == IF o \in Users THEN "client" ELSE made[o]
Ends == Connections \X Sides

\* Whether the Connection exists on the side of the call, and of the request.
Here(c) == <<via[c], Side(at[c])>> \in connected
There(c) == <<via[c], Peer(Side(at[c]))>> \in connected

\* The entry of thread o for connection k.
Entry(o, k) == request_threads[o][address[<<k, Side(o)>>]]
SetEntry(o, k, w) ==
    request_threads' = [request_threads EXCEPT ![o][address[<<k, Side(o)>>]] = w]

Top(o) == stack[o][Len(stack[o])]
Makes(o) == stack[o] # <<>> /\ at[Top(o)] = o
Executes(o, c) == stack[o] # <<>> /\ Top(o) = c /\ to[c] = o
Push(o, c) == stack' = [stack EXCEPT ![o] = Append(@, c)]
Pop(o) == stack' = [stack EXCEPT ![o] = SubSeq(@, 1, Len(@) - 1)]

SetCaller(c, p) == caller' = [caller EXCEPT ![c] = p]
SetRequest(c, p) == request' = [request EXCEPT ![c] = p]

\* Whether thread o runs the program's own code, and may make a call.
UserCode(o) ==
    IF stack[o] = <<>> THEN o \in Users
    ELSE Executes(o, Top(o)) /\ request[Top(o)] = "running"

\* Whether it is in Waiter::wait.
Waiting(o) ==
    IF stack[o] = <<>> THEN o \in Workers /\ made[o] # None
    ELSE Makes(o) /\ caller[Top(o)] \in {"waiting", "resolved", "done"}

----------------------------------------------------------------------------
(* clientInvoke.                                                           *)

\* The call reaches sync().
Invoke(c, o, k) ==
    /\ ~failed
    /\ caller[c] = "new"
    /\ \A d \in 1..(c - 1) : caller[d] # "new"
    /\ UserCode(o)
    /\ address[<<k, Side(o)>>] # 0
    /\ SetCaller(c, "posting")
    /\ at' = [at EXCEPT ![c] = o]
    /\ via' = [via EXCEPT ![c] = k]
    /\ Push(o, c)
    /\ UNCHANGED <<sideVars, request_threads, outcome, requestVars, failed>>

\* The entry of the calling thread in request_threads: the one it has, or a
\* thread that makeThread creates on the other side.
RequestThread(o, k, w) ==
    \/ /\ Entry(o, k) # None
       /\ w = Entry(o, k)
       /\ UNCHANGED <<made, request_threads>>
    \/ /\ Entry(o, k) = None
       /\ \E v \in Workers : made[v] = None
       /\ w = CHOOSE v \in Workers : made[v] = None
       /\ made' = [made EXCEPT ![w] = Peer(Side(o))]
       /\ SetEntry(o, k, w)

\* The function passed to sync(): send the request.
LoopSend(c) ==
    /\ ~failed
    /\ caller[c] = "posting"
    /\ Here(c)
    /\ \E w \in OSThreads :
        /\ RequestThread(at[c], via[c], w)
        /\ to' = [to EXCEPT ![c] = w]
    /\ SetCaller(c, "waiting")
    /\ SetRequest(c, "sent")
    /\ UNCHANGED <<connected, address, stack, at, via, outcome, inserted, executed, failed>>

\* Variant of NotSent: a call after a disconnect returns without an error.
NotSentQuietly(c) == outcome' = [outcome EXCEPT ![c] = "answered"]

NotSent(c) == outcome' = [outcome EXCEPT ![c] = "not_sent"]

\* "IPC client method called after disconnect."
LoopNotSent(c) ==
    /\ ~failed
    /\ caller[c] = "posting"
    /\ ~Here(c)
    /\ SetCaller(c, "done")
    /\ NotSent(c)
    /\ UNCHANGED <<sideVars, request_threads, stack, at, via, requestVars, failed>>

\* The response has been received, and the continuation will run.
LoopResolve(c) ==
    /\ ~failed
    /\ caller[c] = "waiting"
    /\ request[c] = "answered"
    /\ Here(c)
    /\ SetCaller(c, "resolved")
    /\ UNCHANGED <<sideVars, request_threads, stack, at, via, outcome, requestVars, failed>>

\* The continuation of a response reads the results, and keeps what reading
\* them throws.  An interface in them is given the Connection, which may be gone.
LoopAnswer(c) ==
    /\ ~failed
    /\ caller[c] = "resolved"
    /\ \/ /\ SetCaller(c, "done")
          /\ outcome' = [outcome EXCEPT ![c] = "answered"]
          /\ UNCHANGED failed
       \/ /\ ~Here(c)
          /\ failed' = TRUE
          /\ UNCHANGED <<caller, outcome>>
    /\ UNCHANGED <<sideVars, request_threads, stack, at, via, requestVars>>

\* Variant of Rejected: a call fails only with the caller's own Connection.
RejectedLocally(c) == ~Here(c)

\* Whether capnp rejects the pending call: this side has disconnected, or it
\* reads the end of the stream after everything the other side has sent.  We
\* assume that requests read before that have reached their threads.
Rejected(c) ==
    \/ ~Here(c)
    \/ /\ ~There(c)
       /\ request[c] # "answered"
       /\ \A d \in Calls : via[d] = via[c] /\ request[d] \in {"sent", "queued"}
                             => Side(to[d]) # Side(at[c])

\* "IPC client method call interrupted by disconnect."
LoopReject(c) ==
    /\ ~failed
    /\ caller[c] = "waiting"
    /\ Rejected(c)
    /\ SetCaller(c, "done")
    /\ outcome' = [outcome EXCEPT ![c] = "disconnected"]
    /\ UNCHANGED <<sideVars, request_threads, stack, at, via, requestVars, failed>>

\* What a side has sent, and is waited for, may be lost when it disconnects.
Lose(c) ==
    /\ ~failed
    /\ \/ request[c] = "sent" /\ ~Here(c)
       \/ request[c] = "answered" /\ caller[c] = "waiting" /\ ~There(c)
    /\ SetRequest(c, "lost")
    /\ UNCHANGED <<sideVars, request_threads, stack, callVars, to, inserted, executed, failed>>

----------------------------------------------------------------------------
(* Waiter::wait.                                                           *)

Posted(o) == {c \in Calls : to[c] = o /\ request[c] = "posted"}

PickUp(o, c) ==
    /\ ~failed
    /\ c \in Posted(o)
    /\ Waiting(o)
    /\ Push(o, c)
    /\ SetRequest(c, "picked")
    /\ UNCHANGED <<sideVars, request_threads, callVars, to, inserted, executed, failed>>

\* Variants of WaitOver: the predicate is looked at before m_fn; or m_fn alone
\* ends the wait.
DoneFirst(o) == caller[Top(o)] = "done"
AnyNotify(o) == Posted(o) = {}

\* Functions come first, then the predicate of clientInvoke.
WaitOver(o) == Posted(o) = {} /\ caller[Top(o)] = "done"

\* clientInvoke returns or throws.
Return(o) ==
    /\ ~failed
    /\ Makes(o) /\ Waiting(o)
    /\ WaitOver(o)
    /\ SetCaller(Top(o), "returned")
    /\ Pop(o)
    /\ UNCHANGED <<sideVars, request_threads, at, via, outcome, requestVars, failed>>

----------------------------------------------------------------------------
(* The request on the other side: serverInvoke and PassField.              *)

\* serverInvoke, up to ProxyServer<Thread>::post.
LoopReceive(c) ==
    /\ ~failed
    /\ request[c] = "sent"
    /\ There(c)
    /\ SetRequest(c, "queued")
    /\ UNCHANGED <<sideVars, request_threads, stack, callVars, to, inserted, executed, failed>>

\* The continuation of m_thread_ready, which waits for requests posted before
\* through the same Thread object.  A thread has one for each connection.
LoopPost(c) ==
    /\ ~failed
    /\ request[c] = "queued"
    /\ \A d \in Posted(to[c]) : via[d] # via[c]
    /\ SetRequest(c, "posted")
    /\ UNCHANGED <<sideVars, request_threads, stack, callVars, to, inserted, executed, failed>>

\* Variant of Register: the caller's callbackThread is not stored.
RegisterNothing(o, c) == UNCHANGED <<request_threads, inserted>>

\* SetThread with the callbackThread of the request, unless there is an entry.
Register(o, c) ==
    \/ /\ Entry(o, via[c]) = None
       /\ SetEntry(o, via[c], at[c])
       /\ inserted' = inserted \union {c}
    \/ /\ Entry(o, via[c]) # None
       /\ UNCHANGED <<request_threads, inserted>>

\* The sync() call before the method, which finds out about a cancellation.
SyncRegister(c) ==
    /\ ~failed
    /\ request[c] = "picked"
    /\ \/ /\ There(c)
          /\ Register(to[c], c)
          /\ SetRequest(c, "running")
       \/ /\ ~There(c)
          /\ SetRequest(c, "returning")
          /\ UNCHANGED <<request_threads, inserted>>
    /\ UNCHANGED <<sideVars, stack, callVars, to, executed, failed>>

\* The method returns or throws.
MethodReturn(c) ==
    /\ ~failed
    /\ request[c] = "running"
    /\ Executes(to[c], c)
    /\ executed' = executed \union {c}
    /\ SetRequest(c, "returning")
    /\ UNCHANGED <<sideVars, request_threads, stack, callVars, to, inserted, failed>>

\* Variant of Unregister: the entry is removed even if it was there before.
UnregisterAlways(c) == SetEntry(to[c], via[c], None)

\* If this request inserted an entry, the one at that address is removed.
Unregister(c) ==
    IF c \in inserted THEN SetEntry(to[c], via[c], None) ELSE UNCHANGED request_threads

\* The sync() call after the method.
SyncExit(c) ==
    /\ ~failed
    /\ request[c] = "returning"
    /\ Unregister(c)
    /\ inserted' = inserted \ {c}
    /\ SetRequest(c, "answering")
    /\ UNCHANGED <<sideVars, stack, callVars, to, executed, failed>>

\* The last sync() call: the response goes out, unless the call was cancelled.
SyncAnswer(c) ==
    /\ ~failed
    /\ request[c] = "answering"
    /\ SetRequest(c, IF There(c) THEN "answered" ELSE "lost")
    /\ Pop(to[c])
    /\ UNCHANGED <<sideVars, request_threads, callVars, to, inserted, executed, failed>>

----------------------------------------------------------------------------

\* Variant of EraseEntries: the entries stay.
KeepEntries(k, s) == UNCHANGED request_threads

\* The callbacks of SetThread remove the entries of the threads on this side.
EraseEntries(k, s) ==
    request_threads' = [o \in OSThreads |->
        IF Side(o) = s THEN [request_threads[o] EXCEPT ![address[<<k, s>>]] = None]
        ELSE request_threads[o]]

\* Two processes are connected.  Each Connection object is allocated where there
\* is no other.
Connect(k) ==
    /\ ~failed
    /\ \A j \in Connections, s \in Sides : (j < k) <=> (address[<<j, s>>] # 0)
    /\ \E a \in [Sides -> 1..k] :
        /\ \A e \in connected : address[e] # a[e[2]]
        /\ address' = [e \in Ends |-> IF e[1] = k THEN a[e[2]] ELSE address[e]]
    /\ connected' = connected \union ({k} \X Sides)
    /\ UNCHANGED <<made, request_threads, stack, callVars, requestVars, failed>>

\* A Connection is destroyed, by its owner or because the other one was:
\* m_canceler drops requests that have not been posted.
Disconnect(k, s) ==
    /\ ~failed
    /\ <<k, s>> \in connected
    /\ Cardinality({e \in Ends \ connected : address[e] # 0}) < MaxClosed
    /\ connected' = connected \ {<<k, s>>}
    /\ request' = [c \in Calls |->
            IF request[c] = "queued" /\ via[c] = k /\ Side(to[c]) = s THEN "lost" ELSE request[c]]
    /\ EraseEntries(k, s)
    /\ UNCHANGED <<address, made, stack, callVars, to, inserted, executed, failed>>

Init ==
    /\ connected = {}
    /\ address = [e \in Ends |-> 0]
    /\ made = [w \in Workers |-> None]
    /\ request_threads = [o \in OSThreads |-> [a \in Addresses |-> None]]
    /\ stack = [o \in OSThreads |-> <<>>]
    /\ caller = [c \in Calls |-> "new"]
    /\ request = [c \in Calls |-> "none"]
    /\ at = [c \in Calls |-> None]
    /\ via = [c \in Calls |-> 0]
    /\ to = [c \in Calls |-> None]
    /\ inserted = {}
    /\ executed = {}
    /\ outcome = [c \in Calls |-> "none"]
    /\ failed = FALSE

\* No call is in progress, or the program has used a deleted Connection.
Terminated ==
    /\ failed \/ \A o \in OSThreads : stack[o] = <<>>
    /\ UNCHANGED vars

CallerStep(c) ==
    LoopSend(c) \/ LoopNotSent(c) \/ LoopResolve(c) \/ LoopAnswer(c) \/ LoopReject(c)

RequestStep(c) ==
    \/ LoopReceive(c) \/ LoopPost(c)
    \/ SyncRegister(c) \/ MethodReturn(c) \/ SyncExit(c) \/ SyncAnswer(c)

ThreadStep(o) == Return(o) \/ \E c \in Calls : PickUp(o, c)

Next ==
    \/ \E k \in Connections : Connect(k) \/ \E s \in Sides : Disconnect(k, s)
    \/ \E c \in Calls, o \in OSThreads, k \in Connections : Invoke(c, o, k)
    \/ \E c \in Calls : CallerStep(c) \/ RequestStep(c) \/ Lose(c)
    \/ \E o \in OSThreads : ThreadStep(o)
    \/ Terminated

\* Whatever an event loop or a thread that waits can do, some of it is done, and
\* methods return.  One condition is enough, as no step can be taken for ever.
Fairness ==
    WF_vars(\/ \E c \in Calls : CallerStep(c) \/ RequestStep(c)
            \/ \E o \in OSThreads : ThreadStep(o))

Spec == Init /\ [][Next]_vars
FairSpec == Spec /\ Fairness

----------------------------------------------------------------------------
(* Properties.                                                             *)

\* The values the variables range over.  A thread has an entry only for the
\* address of a Connection that exists on its side, and the objects of two
\* connections on one side are not at one address.
TypeOK ==
    /\ connected \subseteq Ends
    /\ address \in [Ends -> Addresses \union {0}]
    /\ made \in [Workers -> Sides \union {None}]
    /\ request_threads \in [OSThreads -> [Addresses -> OSThreads \union {None}]]
    /\ stack \in [OSThreads -> Seq(Calls)]
    /\ caller \in [Calls -> {"new", "posting", "waiting", "resolved", "done", "returned"}]
    /\ request \in [Calls -> {"none", "sent", "queued", "posted", "picked", "running",
                              "returning", "answering", "answered", "lost"}]
    /\ at \in [Calls -> OSThreads \union {None}]
    /\ via \in [Calls -> Connections \union {0}]
    /\ to \in [Calls -> OSThreads \union {None}]
    /\ inserted \subseteq Calls
    /\ executed \subseteq Calls
    /\ outcome \in [Calls -> {"none", "not_sent", "disconnected", "answered"}]
    /\ failed \in BOOLEAN
    /\ \A o \in OSThreads, a \in Addresses :
           request_threads[o][a] # None => \E e \in connected : e[2] = Side(o) /\ address[e] = a
    /\ \A d, e \in connected : d[2] = e[2] /\ address[d] = address[e] => d = e

\* The thread that thread o calls, or is called by, in c.
Partner(o, c) == IF at[c] = o THEN to[c] ELSE at[c]

\* Calls that a thread makes and executes inside each other over one connection
\* are all from and to the thread that waits for it, or it waits for, there:
\* "just like what would happen if this were a normal function call made on the
\* local stack" (PassField), at any depth, and whatever calls over other
\* connections are between them.
CallsBackToCaller ==
    \A o \in OSThreads : \A i, j \in DOMAIN stack[o] :
        LET c == stack[o][i]
            d == stack[o][j]
        IN via[c] = via[d] /\ None \notin {Partner(o, c), Partner(o, d)}
               => Partner(o, c) = Partner(o, d)

\* All calls a client thread makes on its own over one connection execute on one
\* worker (CustomBuildField: "subsequent calls will use the existing request
\* thread"), whatever callbacks it has executed in between, and wherever earlier
\* Connection objects have been.
OneWorker ==
    \A c, d \in Calls :
        at[c] \in Users /\ at[c] = at[d] /\ via[c] = via[d] /\ None \notin {to[c], to[d]}
            => to[c] = to[d]

\* While their connection is up, a thread and the worker executing its call
\* never run at once: they are one logical thread.
OneRuns ==
    \A c \in Calls :
        request[c] = "running" /\ Here(c) /\ There(c) => ~(UserCode(at[c]) /\ UserCode(to[c]))

\* A posted request finds its thread in Waiter::wait, and does not stay behind
\* when the call that thread waits for ends, even by a disconnect.  No other
\* has been posted to the thread, also not through the Thread object of another
\* connection (ProxyServer<Thread>::post: "assert(posted)").
PostedIsRun ==
    \A o \in OSThreads : Posted(o) # {} => Waiting(o) /\ \A c, d \in Posted(o) : c = d

\* The call, its method and its connection as the caller knows them.
CallState(c) ==
    CASE caller[c] = "new" -> "none"
      [] caller[c] = "returned" -> "returned"
      [] OTHER -> "made"

MethodState(c) ==
    IF request[c] = "running" THEN "running" ELSE IF c \in executed THEN "executed" ELSE "none"

CallStates == [c \in Calls |-> CallState(c)]
MethodStates == [c \in Calls |-> MethodState(c)]
Broken == {c \in Calls : at[c] # None /\ ~(Here(c) /\ There(c))}

Remote == INSTANCE RemoteCalls
    WITH call <- CallStates, method <- MethodStates, result <- outcome, broken <- Broken

\* A call does not return before a continuation has ended it, as they refer to
\* its variables ("Must outlive waiter->wait()"), and what it reports is what
\* happened: an answer comes from the method, executed once, and an error means
\* that an end of the connection is gone, a call made after that is not sent.
KeepsPromise == Remote!RemoteSafety

\* Every call returns, whoever disconnects when: again and again none is in
\* progress.
CallsReturn == []<>(failed \/ \A c \in Calls : caller[c] \in {"new", "returned"})
=============================================================================
