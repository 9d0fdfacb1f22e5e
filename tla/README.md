# A verification development for libmultiprocess

TLA+ modules for libmultiprocess: its runtime (`src/src/mp/proxy.cpp`,
`util.cpp`, and in `src/include/mp/` `proxy-io.h`, `proxy.h`, `util.h`), the
passing of arguments and results (`proxy-types.h`, `type-context.h`,
`type-number.h`, `type-optional.h`, `type-pointer.h`, `type-interface.h`) and
the part of the code generator `src/src/mp/gen.cpp` that they meet; TLC
configurations that check them on small instances, and proofs that TLAPS checks
for every size. Source lines below are those of the repository; `proxy.cpp`
stands for `src/src/mp/proxy.cpp` and headers for `src/include/mp/`.

## The system

libmultiprocess lets a C++ program call objects in another process. `mpgen`
generates proxy classes; the runtime runs one *event loop thread* on which all
Cap'n Proto objects live, and lets any other thread make calls by posting
functions to it. A call that arrives runs on a *worker thread* the peer chose.

| Component | State | Operations | Hard behaviour | What makes it correct |
|---|---|---|---|---|
| Event loop (`EventLoop`, `EventLoopRef`) | `m_post_fn`, `m_num_clients`, `m_cv`, the wake-up socket pair | `loop`, `post`, `sync`, `EventLoopRef::reset`, `done` | a one-element slot shared by all threads; a wake-up byte written after unlocking; exit when the last reference goes | each function runs once and alone; no wake-up lost; no write to a closed pipe; the loop leaves nothing behind |
| Cleanup thread | `m_async_fns`, `m_async_thread` | `addAsyncCleanup`, `startAsyncThread` | shares `m_cv`; runs destructors that call `post` themselves | in order, all run, and the loop waits for them |
| Worker (`ProxyServer<Thread>`, `Waiter`) | `m_fn`, `m_thread_ready`, `waiter` | `makeThread`, `post`, `Waiter::wait`, destructor | requests on top of a request that waits; joined by the loop thread | in order; a nested request is not blocked; only an idle worker is joined |
| Executing a request (`PassField` for `mp.Context`, `ServerCall`, `CancelMonitor`) | `m_canceled`, `m_on_cancel`, `request_canceled`, `cancel_mutex`, `request_threads` | register, call, write results, unregister | a disconnect frees parameters and results at any point | freed data is not touched; a disconnect does not wait for a method of `ServerCall`, nor in a circle |
| Connection | `m_sync_cleanup_fns`, `m_on_disconnect`, `m_canceler`, `m_rpc_system` | `addSyncCleanup`, `removeSyncCleanup`, `onDisconnect`, destructor | closed by the peer or by its owner, while other threads create and destroy objects | a pointer to it never survives it; each cleanup function runs or is removed once |
| Opening and accepting (`ConnectStream`, `ServeStream`, `ListenConnections`) | `m_incoming_connections`, the accept task | connect, serve, listen | the disconnect handler deletes the connection | deleted once, and no reference is leaked |
| Thread maps (`ThreadContext`, `SetThread`, `ProxyClient<Thread>`) | `callback_threads`, `request_threads`, `m_disconnect_cb` | insert, erase, thread exit | an entry has three destroyers: its thread, a request that ends, a disconnect | destroyed once; an entry never outlives its connection |
| Proxy objects (`ProxyClientBase`, `ProxyServerBase`) | `m_client`, `m_context`, `cleanup_fns`, `m_impl` | construct, destroy, `invokeDestroy` | destroyed by one thread while the other disconnects | released once, on the right thread |
| Calls (`clientInvoke`, `serverInvoke`) | `done`, `exception`, `disconnected` | build, send, wait, read | failure after sending; callbacks while waiting | `done` is set once and the caller learns what happened |
| Field conversions (`proxy-types.h`, `type-*.h`) | the request and the response; variables on both sides | build and read fields | integer widths; optional and null values; exceptions that unwind half-written results | a call does what a local call does; no number changes |
| Processes, logging (`util.cpp`) | descriptors | `SpawnProcess`, `WaitProcess`, `LogEscape` | descriptor limits, truncation | the child has its socket and no other descriptor |
| Code generator (`gen.cpp`) | the list of fields of a method | `addField`, `mergeFields`, `Generate` | a field in parameters and results is one argument; a flag is none | every method argument meets its field, in client and server |
| Logger (`util.h`, `proxy-io.h`) | options | formats and filters messages | none | no state the other parts read |
| Build files and tests | | | | no part of the running program |

Interaction: every thread reaches the event loop through `post`, so the modules
above it take a posted function as one action. The event loop thread runs
`~Connection`, hands requests to workers, runs their `sync` functions and their
last steps; workers call `sync` to register, unregister and answer. A worker
waiting for the answer to a call of its own runs further requests meanwhile.
References (`EventLoopRef` in every `ProxyContext` and `Connection`) keep the
loop alive.

## Modules

| Module | Models |
|---|---|
| `PostCalls` | what `post` promises: each call runs its function once, alone, and returns after it |
| `EventLoop` | `EventLoop`, `EventLoopRef` and the cleanup thread; implements `PostCalls` |
| `ThreadCalls` | what `ProxyServer<Thread>::post` promises: requests start in order, once, also inside a nested call |
| `ThreadServer` | one worker and its `ProxyServer<Thread>`; implements `ThreadCalls` |
| `RequestCancel` | requests executing while their connection is destroyed |
| `Connection` | one connection, the objects on it and its threads' map entries |
| `RemoteCalls` | what `clientInvoke` promises: one execution, and an error only when the connection is broken |
| `Calls` | calls between two processes, nested and called back, over connections that either side may close; implements `RemoteCalls` |
| `Fields` | one method: the pairing of its fields by `mpgen`, and the arguments, results and exceptions of a call |
| `Numbers` | integers in fields: which types are accepted, building, reading and the range check |
| `SpawnProcess` | child processes and the descriptors they inherit |
| `MC...` | for TLC: symmetry sets, widths of integers, the methods looked at |
| `...Proofs` | theorems |

`PostCalls` and `ThreadCalls` state safety and fairness apart (`CallsSafety` and
`ThreadSafety`; `CallsSpec` and `ThreadSpec` add the fairness): that the safety
part is implemented is proved, the whole is checked by TLC.

The modules compose by abstraction. `EventLoop` shows that a posted function
runs once and alone (`PostCalls`); the others use this by making each function
passed to `sync` one action, taken when the loop thread is free. `ThreadServer`
shows that a worker runs the requests it is given (`ThreadCalls`);
`RequestCancel` takes a request from there. In `Connection` the step
`Cancelled` stands for the return of `m_canceler.cancel()`, which
`RequestCancel` shows to return. `Calls` puts both ends together: a thread
takes posted requests as `ThreadServer` shows, a request's three `sync` calls
are the ones of `RequestCancel`, and `~Connection` is one step. What the
messages of a call carry is in `Fields`, which extends `Numbers` and follows a
call that no disconnect interrupts.

### EventLoop

One action per critical section of `m_mutex`, with the same order as the code:
`PostBegin` / `PostSlotWait` / `PostWrite` / `PostWaitFn` are `post`
(proxy.cpp:277-293), the actions named `Loop...` are `loop` and what the loop
thread's tasks do with references, `Async...` is the thread of
`startAsyncThread`. `pc[t]` is where a thread is in `post` or in
`EventLoopRef::reset`, `asleep` the wait set of `m_cv`; a spurious wake-up may
remove any thread from it. `bytes` counts bytes in the socket pair. Writing to
the pipe is a step of its own, as in the code (proxy.cpp:57-80), and may meet a
closed descriptor. With `Listening` the loop may accept a connection while it
holds no reference. Precondition kept from the code: references are dropped
after `loop()` has been entered (`done()` reads `*m_async_fns`).

### ThreadServer

`phase[r]` follows a request: queued behind `m_thread_ready`, posted in
`m_fn`, running, inside a nested call, returning, finished, or dropped by a
disconnect. `stack` is the worker's C++ stack of requests; `Waiter::wait` is
split at the point where it releases the mutex, and runs a function unlocked.
The worker starts with `m_mutex` held (`makeThread`,
proxy.cpp:424-433): it has already published its context, so requests and even
the destructor may come before it waits, and `Unlocked` makes them wait for it.
`later` holds the `evalLater` tasks that carry the last `self` reference
(proxy-io.h:789-793). While the destructor joins (`loop_pc = "joining"`) the
loop thread runs nothing else.

### RequestCancel

`pc[r]` follows the lambda of `PassField` (type-context.h:96-181) and
`ServerCall::invoke` (proxy-types.h:498-528): lock, register, read parameters,
unlock for the method, lock, write results, unlock, unregister, answer. The
loop side is `m_canceler.cancel()`, which destroys one promise at a time:
`CancelBegin` runs `CancelMonitor::promiseDestroyed`, whose callback needs
`cancel_mutex`; `CancelEnd` frees parameters and results. `RefArgs` are the
requests with an interface reference parameter, whose temporary `ProxyClient`
calls `sync` in its destructor (`SyncParam`).

### Connection

`connection` and `loop_pc` follow `~Connection` (proxy.cpp:84-152) through its
four stages: calls are cancelled, the RPC system goes, the cleanup functions
run one by one, the object is deleted. `release_at` and `erase_at` are positions
in `m_sync_cleanup_fns`: `disconnect_cb` of an object and the callback of
`SetThread`; a larger position is nearer the front, and a position serves as
the iterator a destructor keeps. `linked` is "`m_context.connection` is set",
`cb_set` "`m_disconnect_cb` has a value". Objects may be created while
`~Connection` waits for a worker (`NewObject`). Server objects that execute a
call outlive the connection. Three places can meet a deleted object;
there the model stops with `failed` set: a `ProxyClient` constructed after the
connection is gone, a map entry erased while its thread destroys it, a
disconnect handler that runs after the connection has been deleted.

### Calls

A call is a number; `caller[c]` is how far `clientInvoke` is
(proxy-types.h:670-751), `request[c]` how far the request is on the other side
(type-context.h:96-181, proxy-io.h:744-805). `at[c]` is the thread that made
it and `to[c]` the thread named in its context. A thread's C++ stack is a
sequence of calls: those it made (`at`) and those it executes (`to`), and only
the innermost one runs. A connection `k` (`via[c]`) has a Connection
object on each side; `connected` holds the ends that exist and `address` where
they are, or were: a new object may get the address of one that is gone.
`request_threads` maps addresses, as the code maps `Connection*`, to the worker
made by `CustomBuildField`, or to the caller's `callbackThread` stored while a
method executes (`Register`) and removed if that request stored it
(`Unregister`, by address: type-context.h:177). A thread has one `Waiter` but a
`ProxyServer<Thread>` for each connection, so requests posted over one
connection do not wait for those of another (`LoopPost`). `Disconnect` removes
the entries of the threads on its side and drops requests that wait in
`m_thread_ready`; those already posted are executed, notice the cancellation in
their first `sync`, and
answer nobody. What one side sent may be lost when it disconnects (`Lose`).
`Rejected` says when Cap'n Proto ends a pending call: this side is gone, or it
reads the end of the stream, by when requests read before have been posted.
The results of a resolved call may be read after the Connection has gone
(proxy-types.h:723); there the model stops with `failed` set.

What all this amounts to for a caller is in `RemoteCalls`: a call is made, its
method starts and finishes, the call ends with an answer or an error, and
returns; a connection may break, and only that makes a call fail. `Calls` is
mapped to it by `CallStates`, `MethodStates`, `outcome` and `Broken`, the calls
that have lost an end of their own connection (`KeepsPromise`). A method that
runs twice, an answer before it has finished, an execution after "called after
disconnect" or an error because of another connection would each be a step that
`RemoteCalls` does not have.

### Fields

`method` is a declaration: its arguments with their directions, kinds and flag
fields, the exceptions and the result. `AddField` and `MergeFields` are
`FieldList` (gen.cpp:142-206); code is generated for the fields that are not
skipped (gen.cpp:564), which each action steps over, and `ClientArgs` and
`ServerArgs` say how many C++ values a field stands for, which is how both sides
split the list of arguments. `WellNamed` is what `capnp` asks of names, and that
no field has a name that makes it the flag of a flag. `order` is that of the
Results struct, whose fields are added as they are declared (gen.cpp:544): an
exception may come before or after the outputs. `Compiles` is what the C++
compiler asks: the static assertions for integers; that pure outputs come last,
as `addField` puts them after all parameters; and that each wrapper of the
server's call fits around the next (`Wraps`). `ServerExcept::invoke` and
`ServerRet::invoke` take an empty `TypeList` (proxy-types.h:546, 562), so every
argument of the method must have been split off outside of them: an exception may
be declared before a result, another exception or an output of no parameter
(`count(0)`), but the server of one declared before an output argument does not
compile. Nothing but a skipped field is inside a result, as only the call of the
method has its value (proxy-types.h:548). Then one action per
field: `BuildParams` on the client; `PassField`, from the outside in, on the
server; `Call`, in which the method writes to its arguments and returns or
throws; `Unwind`, from the inside out, which is the rest of `PassField`,
`ServerRet` and `ServerExcept`; `ReadResults` on the client. A message maps
field names to a value and whether it was set, which is what `has` of a boxed
field or of a flag sees. Arguments the server makes are value-initialised
(proxy-types.h:355), except what an output pointer points to, which is not
initialised (type-pointer.h:100): it may be any value (`Fresh`). `LikeLocalCall`
compares the call with one to the method itself; it is stated for declarations that can carry the values
(`Transparent`), the others are under *Findings*.

### Numbers

An integer type is a signedness and a width. `Accepted` is the pair of static
assertions in `BuildPrimitive`, `OutOfBound` the range check of
`CustomReadField` (type-number.h:64-75). Both compare values of two types, so
`Less` converts them first as C++ does (`Promote`, `Common`, `Convert`). `Half`
gives the widths their sizes: TLC takes 2 bits, 3 bits and 4 bits, the proofs
any.

### SpawnProcess

`open` is the parent's descriptor table and `kept[t]` that of the child thread
`t` has started, a copy at the time of the fork, so that it holds other
threads' sockets too. The child closes `fds[1]`, then everything below `MaxFd`
but `fds[0]` (util.cpp:142-161).

## Runs

| Run | Instance | Shows |
|---|---|---|
| `EventLoopLife` | 2 clients, 2 loop references, 3 cleanup functions | counts, wake-ups, pipe and cleanup order; `PostCalls` is implemented, the loop exits, cleanups finish |
| `EventLoopListen` | 1 client, 1 accepted connection | *violation* of `WriteSafe` |
| `ThreadServerLife` | 3 requests, a worker that starts | the code's assertions hold, no lost wake-up; `ThreadCalls` is implemented, the thread exits |
| `RequestCancelSafety` | 3 requests, all with reference parameters | no use of freed data, map entries and callbacks scoped |
| `RequestCancelLive` | 3 requests through `ServerCall`, plain parameters | no circular wait, disconnects and workers progress |
| `RequestCancelRefArg` | 1 request with a reference parameter | *violation* of `NoCircularWait` |
| `ConnectionLife` | owner, 1 object, 2 threads, 1 server object | cleanup list, pointers and entries; every destruction completes |
| `ConnectionHandler` | owner, 1 thread | *violation* of `HandlerScoped` |
| `ConnectionThreadExit` | owner, 1 thread | *violation* of `EntryErasedOnce` |
| `CallsReturn` | 1 client thread, 4 workers, 4 calls, 2 connections, 1 end closed | calls reach the thread that waits for them, report what happened, and return whoever disconnects |
| `FieldsRoundTrip` | methods with one argument of every declaration, or two; exceptions; results; integers of all types | a call through proxies does what a local call does, and no integer changes |
| `SpawnDescriptors` | 2 threads, 7 descriptors | *violation* of `OnlyOwnSocket` |

Why the bounds are enough. `post` has three roles at once: one function in the
slot, one thread waiting for the slot, one waiting for its function; two clients
and the cleanup thread fill them. The slot of a worker is contended by two
requests, one running and one nested on it or behind it in the chain; the third
is posted while the second is in either place. Requests of `RequestCancel`
interact only through the loop thread: one is being cancelled, one has been, one
is still to be. In `Connection` each kind of object appears, and two threads so that the
order of the callbacks of different entries matters. In `Calls` client threads
share nothing but the connections, so one is enough; three calls give a callback
that calls back, and a second call after one that was called back, which is
what the map entries depend on, and a fourth allows two peers to call one
thread over two connections. Four workers serve four calls. `MaxClosed = 1` lets
one Connection object go and another one take its address; with 2 closed, or
more calls, the run does not end in five minutes. In `Fields` a declaration acts
on others only through the positions of their values, for which pairs are
enough, in every order of the Results struct for values, skipped arguments and
those of no parameter, which decide how wrappers fit;
samples of integers are the extreme values of their types, where the
range checks decide; the proofs are for any number of arguments, in any order
that compiles, and for any integers. In
`SpawnProcess` the two socket pairs fill the table. `MaxCleanups`,
`MaxLoopRefs`, `MaxBytes`, `MaxConnections`, `MaxCalls` and `MaxClosed` bound
counters that are unbounded in the program. Symmetry is used in
`RequestCancelSafety` only. Deadlock is checked in all of them but
`RequestCancelSafety`, whose instance contains the circular wait that
`RequestCancelRefArg` shows, and `SpawnDescriptors`, where every `fork` may
fail; terminal states stutter explicitly.

## Fairness

Safety runs use `Spec`. `FairSpec` adds weak fairness of each thread's own
steps (the operating system schedules every runnable thread, and the loop reads
its socket). Threads are not obliged to make new calls, and peers not to send
or release anything. Strong fairness is used in two places, where a step of
the program is enabled again and again between others of the same thread:
that a cleanup function, which may post any number of functions first,
eventually returns (`AsyncFnReturn`), and that a method, which may make nested
calls first, eventually returns (`WorkerReturn`). In `Calls` one condition
stands for that of each thread and call: none of its steps can be taken for
ever, as every one brings a call further. In `RequestCancel` methods
are *not* assumed to return: a disconnect completes while they run. In
`Connection` and `Calls` destructors and methods are assumed to return (a
thread that waits takes the functions posted to it); whether the peer or a user
closes anything, and whether anything is lost, is left open.

## Findings

1. `WriteSafe` with a listener (`EventLoopListen`). The comment
   proxy.cpp:258-261 says the wake-up write "always succeeds"; a listener's
   accept handler holds no `EventLoopRef`, so the loop may see `done()` and
   close the descriptor between the decision to write and the write.
2. `NoCircularWait` with reference parameters (`RequestCancelRefArg`).
   type-context.h:143-147 releases `cancel_lock` before `sync`, but the
   temporary `ProxyClient` of an interface reference parameter is destroyed,
   and calls `sync`, with the lock held (proxy-types.h:303-304).
3. `HandlerScoped` (`ConnectionHandler`). proxy-io.h:453-454 says the
   disconnect handler "will never run after connection object is destroyed";
   after line 459 has moved it to the loop's task set nothing cancels it.
4. `EntryErasedOnce` (`ConnectionThreadExit`). proxy.cpp:339-342 says the
   iterator is safe in the callback; an exiting thread blocked in
   `~ProxyClient<Thread>` is destroying the entry the callback erases.

5. `OnlyOwnSocket` (`SpawnDescriptors`). util.cpp:154-155 says a child closes
   all open descriptors but socket 0; the loop stops before `MaxFd()`, which is
   the highest descriptor and not one more than it. A child that keeps the
   parent's end of another child's socket delays that child's end of file. With
   `Limit = 8` and the same threads the property holds (`OnlyOwnWithRoom`).

Without a run of their own, because no comment promises otherwise:
`ConnectStream` leaves `sync` before its `ProxyClient` has registered
(proxy-io.h:825-827), so a disconnect in between deletes the connection it is
constructed with (`ConstructOwner`); results may be read through a deleted
Connection (`LoopAnswer`); a failing `fork` leaves two descriptors open
(`ForkFails`). A request of a worker that ends after a disconnect removes the
entry at the address its Connection had, which may by then be that of a new one
(type-context.h:177): the worker's next call over it goes to another thread.
Client threads are not concerned, as `OneWorker` shows. And two that depend on
others: were a pending call rejected before a request received earlier is posted
(proxy-io.h:757), that request would execute inside a later call of the thread,
which `Rejected` excludes; and a peer that is not this library may call a thread
over one connection while another peer does so over a second, which neither
`m_thread_ready` chain knows of (`assert(posted)`, proxy-io.h:800).

The comment proxy.cpp:117-120 says that asynchronous cleanup functions are not
started until the synchronous ones have run. `addAsyncCleanup` starts the thread
at once, so in `Connection` one may begin before them (`AsyncBegin` after
`RpcReset`). No state of the modules depends on the order, so no property states
it.

Of declarations, which `Transparent` or `SeenLocally` in `Fields` sets aside:

- a signed C++ type with an unsigned field of `UInt32` or more passes the static
  assertions of `BuildPrimitive`, but comparing with its negative lower bound
  makes every read throw (`UnreadableRefusesAll`);
- `std::shared_ptr` tests a `has` flag that building it never sets
  (type-pointer.h:22-65), so it needs a boxed field;
- a null raw pointer without a `want` field reaches the method as a pointer to a
  default value; a field that is annotated `skip` is dropped, though its
  documentation calls it a synonym for `count(0)`;
- output arguments reach the method as new variables, not with the caller's
  value; the integer behind an output pointer is uninitialised
  (type-pointer.h:100), and is sent back (line 108) if the method leaves it so;
- an exception declared before one derived from it is caught in its
  place.

## Proofs

All theorems but three about integers and two about `SpawnProcess` are of the
form `Spec => []P` or
`Spec => S` for the safety part `S` of an abstract specification, and hold for
every finite set of threads, requests, objects and servers and every value of
the bounds. The assumptions are those stated with the constants: sets are finite and disjoint,
`None` is in none of them.

- `EventLoopProofs`. `CountInv` combines types, `RefCount` and
  `ExitedAtZero` (a loop that has exited has no reference, call or cleanup
  function left): the count stays natural because of what it counts, and a
  thread with a reference never meets a loop that has gone.
  `NoLostWakeup` is inductive with the types alone. `OneWakeup` needs to know
  whose the slot is (`SlotOwned`) and that `done()` once true stays so
  (`DoneIsFinal`), which a listener breaks: `WakeupsDistinct` and
  `WritesFindPipeOpen` assume `~Listening`. `CleanupsInOrder` follows from
  the numbering of the list (`CleanupInv`).
  `PostRunsOnceAlone` is the refinement: `Spec` implements the safety part of
  `PostCalls`. Each step of `post` and of the loop maps to a step of a call or
  to none, which needs `SlotInv`: the types and `SlotOwned`.
- `ThreadServerProofs`. `Chain`: a request has left the queue only if all
  before it have been picked up, hence at most one in the slot and
  `assert(posted)` cannot fail. `Kept`: the destructor runs exactly when
  nothing refers to the object, hence when every request has been answered.
  `Starts`: no request is posted, nor the destructor run, before the new thread
  waits. `Sleeps`, for `NoLostWakeup`: a sleeping worker is in `Waiter::wait`
  with nothing posted and its predicate false. `RequestsRunInOrder`: `Spec`
  implements the safety part of `ThreadCalls`, from the same invariant.
- `RequestCancelProofs`. `DataSafe` is not inductive; with `Registration` (a
  worker between its first and last `sync` has its callback set), `Noticed`
  (freed with a callback set means flagged) and `Sweep` (the disconnect frees
  all in flight before the connection goes) it is. `NoWaitingInCircles`
  assumes `RefArgs = {}`, as finding 2 shows it must.
- `ConnectionProofs`. `Busy` (`~Connection` occupies the loop thread),
  `Linked` (a linked object's connection exists) and `Order` (the erasing
  callback precedes the releasing one of the same entry) make `ListMatches`
  and `EntriesValid` inductive; `LinkedMeansOpen` follows.
- `CallsProofs`. `Maps` says what entries are: they name a thread of the other
  side (`EntriesOpposite`), a client thread that has called over a connection
  has the entry for it (`UserEntries`), and a thread names a client thread only
  after that has called it (`EntryOrigin`, `CallOrigin`); hence a request on a
  client thread never inserts an entry, nor removes one (`InsertedByWorkers`),
  and `OneWorker` is inductive with them. That no two existing objects are at
  one address is part of `TypeOK`. `CallsKeepPromise`, the refinement, follows
  the abstract states of a call (lemmas `CallMoves`, `MethodMoves`): it needs
  `Control`, which relates the two ends of a call, and `Promise` (a method is
  executed only after the request has been running, a call fails only when its
  connection is broken). That no step repairs a broken call rests on numbers of
  connections not being used again, and on new threads being in no call.
- `CallsNestedProofs` relates the stacks of different threads. A worker is
  created by one call, so threads that call each other form a tree; `up`, over
  which `NestedInv` quantifies, gives the thread and the connection that each
  worker comes from. `Shape`: the calls on a stack are numbered upwards and
  alternate between made and executed, a made one only below a call back from
  the same thread over the same connection. `Tree` and `Bottom`: calls, entries
  and the first call of a stack follow the links of the tree. `Entries`: while
  the connection is up, a call on the stack still has its map entry
  (`StackEntries`), a request on its way finds none for another thread
  (`FreeEntries`), and removing an inserted one takes it from no call below
  (`InsertedAlone`). `Awaited`, `Expected` and `OneComing`: whoever sent an
  unanswered request waits, and the thread a request comes to is new or waits
  for a call to the sender, and gets no other. From these (lemma `Token`), of
  two threads joined by a live connection the innermost call over it says which
  runs. The theorems `CallsGoBack`, `NeverBothRun` and `PostedFindsWaiting`
  state `CallsBackToCaller`, `OneRuns` and `PostedIsRun`; each fails alone to be
  inductive, as where a call goes depends on entries stored by calls below it.
- `FieldsProofs`, for every set of methods that `MethodsAssumption` admits, any
  samples of the integer types (`SampleAssumption`) and any three widths that
  grow at least twofold (`HalfAssumption`). It has four parts.
  *Lists*: the recursive functions (`First`, and `FlattenSeq` of the community
  modules) exist and give the elements of their lists in order; the induction is
  over sets of numbers (`SetInduction`), as theorems that take an operator
  cannot be used. *Generator*: `Generating` says what `fields` is after part of
  the schema has been added, and `Paired` what it is in the end: each
  declaration has one field that code is generated for, in an order that agrees
  with the method's parameters. The orders of the Results struct enter by
  `Sequenced`: what `Wraps` forbids for two outputs is forbidden for their fields.
  *Integers*: what is read is what was built, or
  it is refused, if the reader can read the field at all
  (`ReadIsBuiltOrRefused`); with one type on both sides it arrives
  (`SameTypeArrives`). The cases follow the comparisons' common type. *Call*:
  `CallInv` has a part for each phase, which says what the fields that have been
  dealt with carry and that the others are untouched: `ParamsOK` while the
  request is built, `PassedOK` for the arguments of the method, `ResultsOK` while
  the server unwinds, `ReadOK` for the caller's variables. The exception in
  flight at a field is computed from the one that was thrown (`Flying`), so that
  at most one field catches it. `FieldsTypeOK`, `IntegersNeverAltered` and
  `CallsLikeLocalCalls` state `TypeOK`, `NeverAltered` and `LikeLocalCall`;
  the last needs that the catching field is of the class thrown or its base
  (`CatcherIs`) and that every argument with a parameter is read before an
  exception, which can only be around what has none.
- `SpawnProcessProofs`, which state their hypotheses on the constants
  (`Constants`, `Room`). `Owned`: every open descriptor belongs to a thread that
  has not closed it. A child keeps nothing below `MaxFd` but its own
  (`LoopClosesOthers`). New descriptors are the lowest free ones, so the ones
  below are held by other threads, two each: with `Room` above that the last
  descriptor is never used, and nothing leaks (`OnlyOwnWithRoom`).

Only model-checked: the liveness properties, among them the fairness of
`PostImplementsCalls` and `ThreadImplementsCalls`, whose safety is proved.
`RemoteCalls` asks for safety alone. Every invariant that a passing run checks
is stated by a theorem.

## Not modelled

Cap'n Proto's own scheduling (the order of resolved continuations and tasks),
formatting and the logger, build files and tests; of the code generator the
writing of files, the running of `capnp` and the accessors of structs. Left out
of the modules: fields that are strings, containers, structs, functions or
times, which are built and read element by element like those in `Fields`, and
overloads of the conversions that users add; bodies of user methods; methods
without `mp.Context` (they run on the event loop thread); cleanup functions
users add; several connections in `Connection`, whose objects and entries of
different connections do not meet but in the maps, which `Calls` has; errors of
`close` and `waitpid`; the connections of one listener. `RequestCancel` has
requests that are executed through `ServerCall`: `ServerDestroy`
(proxy-types.h:531-538), which serves a `destroy(context)` request, does not
release `cancel_lock` while it destroys the object, so a disconnect waits for
that destructor, and for ever if the destructor calls `sync` in its turn. What
the runs and theorems say of circular waits, and of disconnects that need not
wait for methods, is not said of such requests.

## Plan

Done: the event loop, workers, requests under cancellation, connections, calls
between two processes, process start, then several connections per thread,
fields and numbers, the start of workers, the abstract specification of a call;
the proofs of every safety invariant, and of the safety of the three
refinements.

1. Listeners: the accept task and the incoming connections of one loop.
2. Fields: containers, as the elements of one field, and struct fields, which
   nest the traversal.
3. `RequestCancel`: requests of `destroy(context)`, with `ServerDestroy`.
