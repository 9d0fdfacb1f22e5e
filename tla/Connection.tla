------------------------------ MODULE Connection ------------------------------
(***************************************************************************)
(* The life of one Connection and of the objects that point to it          *)
(* (src/mp/proxy.cpp, mp/proxy-io.h): ConnectStream and _Serve, the        *)
(* ProxyClient objects user threads own, the ProxyClient<Thread> entries   *)
(* of their thread maps (SetThread), the list of synchronous cleanup       *)
(* functions ~Connection runs, the disconnect handler, and the server      *)
(* objects that are destroyed on the asynchronous cleanup thread.          *)
(*                                                                         *)
(* What runs on the event loop thread is one action each, taken when no    *)
(* Connection is being destroyed; ~Connection is several, as other threads *)
(* may register cleanup functions between two of them.  Where the program  *)
(* would use a deleted object the model stops with `failed' set.           *)
(***************************************************************************)
EXTENDS Integers, Sequences, FiniteSets

CONSTANTS Owner,    \* the ProxyClient with destroy_connection set
          Objects,  \* other ProxyClient objects
          Threads,  \* threads, standing for their ProxyClient<Thread>
          Servers,  \* ProxyServer objects of the connection
          None      \* no server

Proxies == {Owner} \union Objects \union Threads

ASSUME ProxiesAssumption ==
    /\ IsFiniteSet(Proxies)
    /\ Owner \notin Objects \union Threads
    /\ Objects \intersect Threads = {}
ASSUME ServersAssumption == IsFiniteSet(Servers) /\ None \notin Servers

VARIABLES
    connection,  \* "none", "open", "closing" (in ~Connection) or "deleted"
    handler,     \* the function passed to onDisconnect
    loop_pc,     \* what the event loop thread is doing
    pc,          \* the life of each proxy object
    linked,      \* objects whose m_context.connection is set
    cb_set,      \* threads whose m_disconnect_cb has a value
    release_at,  \* position of each object's disconnect_cb, 0 if not listed
    erase_at,    \* position of each thread's SetThread callback, 0 if not listed
    added,       \* number of cleanup functions added so far
    server,      \* the life of each server object and its m_impl
    m_async_fns, \* servers waiting to be destroyed
    running,     \* the server the asynchronous thread is destroying
    failed       \* how the program came to use a deleted object, or "no"

\* m_sync_cleanup_fns: functions are added to the front, so a larger position
\* means further to the front; a position serves as the iterator.
listVars == <<release_at, erase_at, added>>
linkVars == <<pc, linked, cb_set>>
serverVars == <<server, m_async_fns, running>>
vars == <<connection, handler, loop_pc, linkVars, listVars, serverVars, failed>>

LoopIdle == loop_pc = "idle" /\ failed = "no"
SetPc(o, p) == pc' = [pc EXCEPT ![o] = p]

\* Calls are made over the connection: by the peer of an incoming one, or
\* through an object of this side.
Receiving ==
    /\ connection = "open"
    /\ pc[Owner] = "gone" \/ \E o \in linked : pc[o] = "live"

----------------------------------------------------------------------------
(* m_sync_cleanup_fns.                                                     *)

\* addSyncCleanup for the disconnect_cb of a ProxyClientBase.
AddRelease(o) ==
    /\ release_at' = [release_at EXCEPT ![o] = added + 1]
    /\ added' = added + 1
    /\ UNCHANGED erase_at

\* Variant of AddThread: addSyncCleanup adds to the end of the list.
AddThreadBehind(t) ==
    /\ release_at' = [release_at EXCEPT ![t] = added + 2]
    /\ erase_at' = [erase_at EXCEPT ![t] = added + 1]
    /\ added' = added + 2

\* SetThread: the entry's ProxyClientBase is constructed first, so that its
\* own callback is behind the one that erases the entry.
AddThread(t) ==
    /\ release_at' = [release_at EXCEPT ![t] = added + 1]
    /\ erase_at' = [erase_at EXCEPT ![t] = added + 2]
    /\ added' = added + 2

Unlisted(at, o) == [at EXCEPT ![o] = 0]

\* Variant of RemoveRelease: the callback stays in the list.
ForgetRelease(o) == UNCHANGED release_at

\* removeSyncCleanup(disconnect_cb), if m_context.connection is set.
RemoveRelease(o) ==
    release_at' = IF o \in linked THEN Unlisted(release_at, o) ELSE release_at

ListEmpty == /\ \A o \in Proxies : release_at[o] = 0
             /\ \A t \in Threads : erase_at[t] = 0

Front(n) == /\ n > 0
            /\ \A o \in Proxies : release_at[o] <= n
            /\ \A t \in Threads : erase_at[t] <= n

----------------------------------------------------------------------------
(* Opening a connection, and creating objects on it.                       *)

\* The sync() call of ConnectStream.
Connect ==
    /\ LoopIdle /\ connection = "none"
    /\ connection' = "open"
    /\ handler' = "armed"
    /\ SetPc(Owner, "connecting")
    /\ UNCHANGED <<loop_pc, linked, cb_set, listVars, serverVars, failed>>

\* _Serve: an incoming connection has no owner, and calls may come in.
Serve ==
    /\ LoopIdle /\ connection = "none"
    /\ connection' = "open"
    /\ handler' = "armed"
    /\ SetPc(Owner, "gone")
    /\ UNCHANGED <<loop_pc, linked, cb_set, listVars, serverVars, failed>>

\* ConnectStream constructs the ProxyClient after sync() has returned.
ConstructOwner ==
    /\ failed = "no"
    /\ pc[Owner] = "connecting"
    /\ \/ /\ connection # "deleted"
          /\ AddRelease(Owner)
          /\ SetPc(Owner, "live")
          /\ linked' = linked \union {Owner}
          /\ UNCHANGED failed
       \/ /\ connection = "deleted"
          /\ failed' = "construct"
          /\ UNCHANGED <<pc, linked, listVars>>
    /\ UNCHANGED <<connection, handler, loop_pc, cb_set, serverVars>>

\* A response, or a request of the peer, brings an object.  A worker may make
\* one of a parameter while ~Connection waits to cancel its request.
NewObject(o) ==
    /\ failed = "no"
    /\ \/ loop_pc = "idle" /\ Receiving
       \/ loop_pc = "cancel" /\ \E s \in Servers : server[s] \in {"busy", "released"}
    /\ pc[o] = "none"
    /\ AddRelease(o)
    /\ SetPc(o, "live")
    /\ linked' = linked \union {o}
    /\ UNCHANGED <<connection, handler, loop_pc, cb_set, serverVars, failed>>

\* SetThread inserts an entry into the map of thread t.
SetThread(t) ==
    /\ LoopIdle /\ Receiving
    /\ pc[t] = "none"
    /\ AddThread(t)
    /\ SetPc(t, "live")
    /\ linked' = linked \union {t}
    /\ cb_set' = cb_set \union {t}
    /\ UNCHANGED <<connection, handler, loop_pc, serverVars, failed>>

----------------------------------------------------------------------------
(* ~Connection: calls are cancelled, then the RPC system is shut down, then *)
(* the cleanup functions run.                                               *)

BeginClose == connection' = "closing" /\ loop_pc' = "cancel"

\* m_canceler.cancel() has returned (module RequestCancel).
Cancelled ==
    /\ loop_pc = "cancel" /\ failed = "no"
    /\ loop_pc' = "rpc"
    /\ UNCHANGED <<connection, handler, linkVars, listVars, serverVars, failed>>

\* A server object is destroyed while m_impl is set: addAsyncCleanup.
DestroyServer(s) ==
    /\ server' = [server EXCEPT ![s] = "queued"]
    /\ m_async_fns' = Append(m_async_fns, s)

\* m_rpc_system.reset() destroys the server objects no call is executing on.
RpcReset(s) ==
    /\ loop_pc = "rpc" /\ failed = "no"
    /\ server[s] = "live"
    /\ DestroyServer(s)
    /\ UNCHANGED <<connection, handler, loop_pc, linkVars, listVars, running, failed>>

\* Variant of RpcDone: wait for calls that are executing.
RpcDoneWhenIdle == \A s \in Servers : server[s] \notin {"live", "busy", "released"}

RpcDone == \A s \in Servers : server[s] # "live"

RpcGone ==
    /\ loop_pc = "rpc" /\ failed = "no"
    /\ RpcDone
    /\ loop_pc' = "cleanup"
    /\ UNCHANGED <<connection, handler, linkVars, listVars, serverVars, failed>>

\* Variant of Unlink: the callback releases m_client only.
KeepLink(o) == UNCHANGED linked

\* disconnect_cb: "m_context.connection = nullptr".
Unlink(o) == linked' = linked \ {o}

CleanupRelease(o) ==
    /\ loop_pc = "cleanup" /\ failed = "no"
    /\ Front(release_at[o])
    /\ release_at' = Unlisted(release_at, o)
    /\ Unlink(o)
    /\ UNCHANGED <<connection, handler, loop_pc, pc, cb_set, erase_at, added>>
    /\ UNCHANGED <<serverVars, failed>>

\* The entry's ProxyClient<Thread> is destroyed on the event loop thread.
DestroyEntry(t) ==
    /\ SetPc(t, "gone")
    /\ linked' = linked \ {t}
    /\ RemoveRelease(t)

\* The callback of SetThread: reset m_disconnect_cb and erase the entry,
\* which the thread itself may be destroying already.
CleanupErase(t) ==
    /\ loop_pc = "cleanup" /\ failed = "no"
    /\ Front(erase_at[t])
    /\ \/ /\ pc[t] = "live"
          /\ erase_at' = Unlisted(erase_at, t)
          /\ cb_set' = cb_set \ {t}
          /\ DestroyEntry(t)
          /\ UNCHANGED failed
       \/ /\ pc[t] # "live"
          /\ failed' = "entry"
          /\ UNCHANGED <<linkVars, erase_at, release_at>>
    /\ UNCHANGED <<connection, handler, loop_pc, added, serverVars>>

\* Variant of CancelHandler: the handler is not tied to the connection.
KeepHandler == UNCHANGED handler

\* ~TaskSet of m_on_disconnect.
CancelHandler == handler' = IF handler = "armed" THEN "cancelled" ELSE handler

CleanupDone ==
    /\ loop_pc = "cleanup" /\ failed = "no"
    /\ ListEmpty
    /\ connection' = "deleted"
    /\ loop_pc' = "idle"
    /\ CancelHandler
    /\ UNCHANGED <<linkVars, listVars, serverVars, failed>>

----------------------------------------------------------------------------
(* onDisconnect.                                                           *)

\* The network promise resolves and its continuation moves the handler to the
\* task set of the event loop.
PeerCloses ==
    /\ LoopIdle /\ connection = "open"
    /\ handler = "armed"
    /\ handler' = "scheduled"
    /\ UNCHANGED <<connection, loop_pc, linkVars, listVars, serverVars, failed>>

\* The handler deletes the Connection.
RunHandler ==
    /\ LoopIdle
    /\ handler = "scheduled"
    /\ handler' = "ran"
    /\ \/ connection = "open" /\ BeginClose /\ UNCHANGED failed
       \/ connection = "deleted" /\ failed' = "handler" /\ UNCHANGED <<connection, loop_pc>>
    /\ UNCHANGED <<linkVars, listVars, serverVars>>

----------------------------------------------------------------------------
(* Destroying proxy objects.                                               *)

\* A thread destroys object o; a remote destroy() call takes any time.
DropObject(o) ==
    /\ failed = "no"
    /\ pc[o] = "live"
    /\ SetPc(o, "base")
    /\ UNCHANGED <<connection, handler, loop_pc, linked, cb_set, listVars, serverVars, failed>>

\* The sync() call of the cleanup function of ProxyClientBase.
SyncDestroy(o) ==
    /\ LoopIdle
    /\ pc[o] = "base"
    /\ RemoveRelease(o)
    /\ SetPc(o, "gone")
    /\ linked' = linked \ {o}
    /\ IF o = Owner /\ o \in linked THEN BeginClose ELSE UNCHANGED <<connection, loop_pc>>
    /\ UNCHANGED <<handler, cb_set, erase_at, added, serverVars, failed>>

\* Thread t exits: ~ProxyClient<Thread> finds m_disconnect_cb set.
ThreadExit(t) ==
    /\ failed = "no"
    /\ pc[t] = "live"
    /\ SetPc(t, "exiting")
    /\ UNCHANGED <<connection, handler, loop_pc, linked, cb_set, listVars, serverVars, failed>>

\* Its sync() call: unregister the callback if it is still set.
SyncUnregister(t) ==
    /\ LoopIdle
    /\ pc[t] = "exiting"
    /\ erase_at' = IF t \in cb_set THEN Unlisted(erase_at, t) ELSE erase_at
    /\ cb_set' = cb_set \ {t}
    /\ SetPc(t, "base")
    /\ UNCHANGED <<connection, handler, loop_pc, linked, release_at, added, serverVars, failed>>

\* The event loop thread itself destroys the entry: the request it was made
\* for is over, or ~ProxyServer<Thread> clears the maps.
EraseEntry(t) ==
    /\ failed = "no"
    /\ loop_pc \in {"idle", "rpc"}
    /\ pc[t] = "live"
    /\ erase_at' = Unlisted(erase_at, t)
    /\ cb_set' = cb_set \ {t}
    /\ DestroyEntry(t)
    /\ UNCHANGED <<connection, handler, loop_pc, added, serverVars, failed>>

----------------------------------------------------------------------------
(* Server objects.                                                         *)

ServerNew(s) ==
    /\ LoopIdle /\ connection = "open"
    /\ server[s] = "none"
    /\ server' = [server EXCEPT ![s] = "live"]
    /\ UNCHANGED <<connection, handler, loop_pc, linkVars, listVars, m_async_fns, running, failed>>

\* A call executes on s, and holds a reference to it.
ServerCall(s) ==
    /\ LoopIdle /\ connection = "open"
    /\ server[s] = "live"
    /\ server' = [server EXCEPT ![s] = "busy"]
    /\ UNCHANGED <<connection, handler, loop_pc, linkVars, listVars, m_async_fns, running, failed>>

\* Variant of LastReference: a disconnect leaves the object to the peer.
LastIfReleased(s) == server[s] = "released"

\* Whether the call's reference is the only one left.
LastReference(s) == server[s] = "released" \/ connection = "deleted"

ServerReturn(s) ==
    /\ LoopIdle
    /\ server[s] \in {"busy", "released"}
    /\ \/ LastReference(s) /\ DestroyServer(s)
       \/ /\ ~LastReference(s)
          /\ server' = [server EXCEPT ![s] = "live"]
          /\ UNCHANGED m_async_fns
    /\ UNCHANGED <<connection, handler, loop_pc, linkVars, listVars, running, failed>>

\* The call is of the destroy() method: m_impl is destroyed by the thread that
\* executes it.
InvokeDestroy(s) ==
    /\ failed = "no"
    /\ server[s] \in {"busy", "released"}
    /\ server' = [server EXCEPT ![s] = "destroyed"]
    /\ UNCHANGED <<connection, handler, loop_pc, linkVars, listVars, m_async_fns, running, failed>>

\* The peer releases its reference.
ServerRelease(s) ==
    /\ LoopIdle /\ connection = "open"
    /\ \/ server[s] = "live" /\ DestroyServer(s)
       \/ /\ server[s] = "busy"
          /\ server' = [server EXCEPT ![s] = "released"]
          /\ UNCHANGED m_async_fns
    /\ UNCHANGED <<connection, handler, loop_pc, linkVars, listVars, running, failed>>

\* The asynchronous thread destroys m_impl, which may take any time.
AsyncBegin ==
    /\ failed = "no"
    /\ running = None
    /\ m_async_fns # <<>>
    /\ running' = Head(m_async_fns)
    /\ m_async_fns' = Tail(m_async_fns)
    /\ server' = [server EXCEPT ![running'] = "running"]
    /\ UNCHANGED <<connection, handler, loop_pc, linkVars, listVars, failed>>

AsyncEnd ==
    /\ failed = "no"
    /\ running # None
    /\ server' = [server EXCEPT ![running] = "destroyed"]
    /\ running' = None
    /\ UNCHANGED <<connection, handler, loop_pc, linkVars, listVars, m_async_fns, failed>>

----------------------------------------------------------------------------

Init ==
    /\ connection = "none"
    /\ handler = "none"
    /\ loop_pc = "idle"
    /\ pc = [o \in Proxies |-> "none"]
    /\ linked = {}
    /\ cb_set = {}
    /\ release_at = [o \in Proxies |-> 0]
    /\ erase_at = [t \in Threads |-> 0]
    /\ added = 0
    /\ server = [s \in Servers |-> "none"]
    /\ m_async_fns = <<>>
    /\ running = None
    /\ failed = "no"

CloseStep ==
    \/ Cancelled \/ RpcGone \/ CleanupDone
    \/ \E s \in Servers : RpcReset(s)
    \/ \E o \in Proxies : CleanupRelease(o)
    \/ \E t \in Threads : CleanupErase(t)

\* Everything is gone, or the program has used a deleted object.
Terminated ==
    /\ \/ failed # "no"
       \/ /\ connection = "deleted"
          /\ \A o \in Proxies : pc[o] \in {"none", "gone"}
          /\ \A s \in Servers : server[s] \in {"none", "destroyed"}
    /\ UNCHANGED vars

Next ==
    \/ Connect \/ Serve \/ ConstructOwner
    \/ \E o \in Objects : NewObject(o)
    \/ \E o \in {Owner} \union Objects : DropObject(o)
    \/ \E o \in Proxies : SyncDestroy(o)
    \/ \E t \in Threads :
        SetThread(t) \/ ThreadExit(t) \/ SyncUnregister(t) \/ EraseEntry(t)
    \/ PeerCloses \/ RunHandler
    \/ CloseStep
    \/ \E s \in Servers :
        ServerNew(s) \/ ServerCall(s) \/ ServerReturn(s) \/ ServerRelease(s)
        \/ InvokeDestroy(s)
    \/ AsyncBegin \/ AsyncEnd
    \/ Terminated

\* The event loop handles what it is given, the asynchronous thread runs, a
\* server method and a destructor return, and ConnectStream goes on.
Fairness ==
    /\ WF_vars(CloseStep)
    /\ WF_vars(RunHandler)
    /\ WF_vars(ConstructOwner)
    /\ WF_vars(AsyncBegin) /\ WF_vars(AsyncEnd)
    /\ \A o \in Proxies : WF_vars(SyncDestroy(o))
    /\ \A t \in Threads : WF_vars(SyncUnregister(t))
    /\ \A s \in Servers : WF_vars(ServerReturn(s))

Spec == Init /\ [][Next]_vars
FairSpec == Spec /\ Fairness

----------------------------------------------------------------------------
(* Properties.                                                             *)

\* The values the variables range over.  An armed handler belongs to a
\* connection that exists.
TypeOK ==
    /\ connection \in {"none", "open", "closing", "deleted"}
    /\ handler \in {"none", "armed", "scheduled", "cancelled", "ran"}
    /\ handler = "armed" => connection \in {"open", "closing"}
    /\ loop_pc \in {"idle", "cancel", "rpc", "cleanup"}
    /\ pc \in [Proxies -> {"none", "connecting", "live", "exiting", "base", "gone"}]
    /\ linked \subseteq Proxies
    /\ cb_set \subseteq Threads
    /\ release_at \in [Proxies -> 0..added]
    /\ erase_at \in [Threads -> 0..added]
    /\ added \in Nat
    /\ server \in [Servers -> {"none", "live", "busy", "released", "queued",
                              "running", "destroyed"}]
    /\ m_async_fns \in Seq(Servers)
    /\ running \in Servers \union {None}
    /\ failed \in {"no", "construct", "entry", "handler"}

\* A function that runs on the event loop thread and finds m_context.connection
\* set finds the connection open, so a request made by the destructor of a
\* server object after a disconnect fails at once (~Connection's comment);
\* while ~Connection runs, only its own callbacks look at the pointer.
LinkedMeansOpen ==
    linked # {} => IF loop_pc = "idle" THEN connection = "open"
                   ELSE connection = "closing"

\* The list holds one disconnect_cb per linked object and one SetThread
\* callback per thread with m_disconnect_cb set, and no function whose object
\* has been destroyed: each is run once or removed once.
ListMatches ==
    /\ \A o \in Proxies :
        /\ release_at[o] > 0 <=> o \in linked
        /\ o \in linked => pc[o] \in {"live", "exiting", "base"}
    /\ \A t \in Threads :
        /\ erase_at[t] > 0 <=> t \in cb_set
        /\ t \in cb_set => pc[t] \in {"live", "exiting"}

\* An entry of a thread map can be used as long as it is there: its m_client
\* has not been released and the connection that is its key has not been
\* deleted.
EntriesValid ==
    \A t \in Threads : pc[t] = "live" => t \in linked \intersect cb_set

\* A disconnect handler never runs after the Connection was destroyed
\* (onDisconnect: "ensure it is canceled and will never run after connection
\* object is destroyed").
HandlerScoped == failed # "handler"

\* The callback of SetThread only runs while the entry it erases is not being
\* destroyed by its thread (SetThread: "it is safe to use the `thread'
\* iterator in this cleanup function").
EntryErasedOnce == failed # "entry"

\* A disconnect is noticed and completes, whatever calls are executing.
DisconnectCompletes ==
    (handler = "scheduled" \/ connection = "closing")
        ~> (connection = "deleted" \/ failed # "no")

\* Destroying an object returns, with or without a disconnect under way.
DestroyReturns ==
    \A o \in Proxies : (pc[o] \in {"exiting", "base"}) ~> (pc[o] = "gone" \/ failed # "no")

\* Every server object is destroyed after a disconnect, those with calls in
\* progress included.
ServersDestroyed ==
    \A s \in Servers :
        (connection = "deleted")
            ~> (server[s] \in {"none", "destroyed"} \/ failed # "no")
=============================================================================
