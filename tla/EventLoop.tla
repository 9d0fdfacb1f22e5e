----------------------------- MODULE EventLoop -----------------------------
(***************************************************************************)
(* The event loop of libmultiprocess (src/mp/proxy.cpp, mp/proxy-io.h):    *)
(* the thread that runs loop(), the threads that call post() to run a      *)
(* function there, the asynchronous cleanup thread that destroys server    *)
(* objects, and the reference count m_num_clients (EventLoopRef) that      *)
(* decides when the loop exits.                                            *)
(*                                                                         *)
(* Each critical section of m_mutex is one action; what happens between    *)
(* two sections (a write to the wake-up pipe, the body of a posted         *)
(* function) is interleaved with the other threads.  `asleep' is the wait  *)
(* set of m_cv: notify_all empties it, and a spurious wake-up may remove   *)
(* any thread from it.                                                     *)
(***************************************************************************)
EXTENDS Integers, Sequences, FiniteSets

CONSTANTS Clients,      \* threads that hold and use proxy objects
          Async,        \* the asynchronous cleanup thread
          None,         \* m_post_fn == nullptr
          Listening,    \* whether a _Listen() task accepts connections
          MaxLoopRefs,  \* bound: objects of the loop thread holding a reference
          MaxCleanups,  \* bound: cleanup functions registered in a run
          MaxBytes      \* bound: bytes in the pipe when a connection is accepted

Posters == Clients \union {Async}

ASSUME ClientsAssumption == IsFiniteSet(Clients) /\ Async \notin Clients
ASSUME NoneAssumption == None \notin Posters
ASSUME BoundsAssumption == /\ Listening \in BOOLEAN
                           /\ MaxLoopRefs \in Nat
                           /\ MaxCleanups \in Nat
                           /\ MaxBytes \in Nat

VARIABLES
    m_post_fn,      \* the poster whose function occupies the one-element slot
    m_num_clients,  \* EventLoopRef count
    m_async_fns,    \* registered cleanup functions, numbered as registered
    emplaced,       \* whether the optional m_async_fns has a value
    bytes,          \* bytes in the socket pair, not yet read by the loop
    post_open,      \* whether m_post_fd is an open descriptor
    asleep,         \* threads blocked in m_cv.wait
    pc,             \* what each poster is doing
    loop_pc,        \* what the loop thread is doing
    loop_todo,      \* what is left of the loop thread's current handler
    held,           \* clients that own an EventLoopRef
    loop_refs,      \* EventLoopRefs owned by objects of the loop thread
    registered,     \* number of cleanup functions registered so far
    async_fn,       \* the cleanup function the async thread runs, 0 if none
    finished        \* cleanup functions completed, in order

postVars == <<m_post_fn, bytes, post_open>>
refVars == <<held, loop_refs>>
asyncVars == <<m_async_fns, emplaced, registered, async_fn, finished>>
vars == <<m_post_fn, m_num_clients, m_async_fns, emplaced, bytes, post_open,
          asleep, pc, loop_pc, loop_todo, held, loop_refs, registered,
          async_fn, finished>>

\* The phases of a call of post(): waiting for the slot, between setting
\* m_post_fn and writing the wake-up byte, and waiting for completion.
PostPhases == {"slot", "post_write", "wait_fn"}
ClientPhases == PostPhases \union {"idle", "done_write", "failed"}
AsyncPhases == PostPhases \union
               {"unstarted", "top", "fn", "done_write", "exited", "failed"}
LoopPhases == {"start", "read", "woken", "fn", "break", "closed", "bye",
               "destroyed"}

Posting == {t \in Posters : pc[t] \in PostPhases}
AsyncHolds == pc[Async] \in PostPhases \union {"fn"}

----------------------------------------------------------------------------
(* EventLoopRef, done() and m_cv.                                          *)

\* Variant of Done: a loop that does not wait for cleanup functions.
DoneDespiteCleanups(n) == n = 0

\* EventLoop::done(), for a count n of references.
Done(n) == n = 0 /\ m_async_fns = <<>>

\* Variant of NotifyAll: the notification is forgotten.
NotifyNobody == asleep' = asleep

\* m_cv.notify_all()
NotifyAll == asleep' = {}

\* Variant of AcquireRef: the reference is not counted.
UncountedRef == UNCHANGED m_num_clients

\* EventLoopRef::EventLoopRef, under the lock.
AcquireRef == m_num_clients' = m_num_clients + 1

\* Variant of ResetRef: the last reference does not wake the loop.
ResetRefNoWake(t, next) ==
    /\ m_num_clients' = m_num_clients - 1
    /\ UNCHANGED asleep
    /\ pc' = [pc EXCEPT ![t] = next]

\* EventLoopRef::reset, the critical section of thread t.  When the count
\* says the loop is done, the lock is released and the byte is written
\* afterwards (DoneWrite); otherwise t goes on at `next'.
ResetRef(t, next) ==
    /\ m_num_clients' = m_num_clients - 1
    /\ \/ /\ Done(m_num_clients - 1)
          /\ NotifyAll
          /\ pc' = [pc EXCEPT ![t] = "done_write"]
       \/ /\ ~Done(m_num_clients - 1)
          /\ UNCHANGED asleep
          /\ pc' = [pc EXCEPT ![t] = next]

\* write(post_fd, &buffer, 1) by t: on a closed descriptor KJ_SYSCALL throws
\* out of a destructor.
WriteByte(t, next) ==
    \/ /\ post_open
       /\ bytes' = bytes + 1
       /\ pc' = [pc EXCEPT ![t] = next]
    \/ /\ ~post_open
       /\ UNCHANGED bytes
       /\ pc' = [pc EXCEPT ![t] = "failed"]

DoneWrite(t) ==
    /\ pc[t] = "done_write"
    /\ WriteByte(t, IF t = Async THEN "top" ELSE "idle")
    /\ UNCHANGED <<m_post_fn, post_open, m_num_clients, asleep, loop_pc, loop_todo>>
    /\ UNCHANGED <<refVars, asyncVars>>

SpuriousWakeup(t) ==
    /\ t \in asleep
    /\ asleep' = asleep \ {t}
    /\ UNCHANGED <<postVars, m_num_clients, pc, loop_pc, loop_todo, refVars, asyncVars>>

----------------------------------------------------------------------------
(* EventLoop::post, called by a thread other than the loop thread.         *)

\* Variant of TakeSlotOrSleep: an occupied slot is overwritten.
TakeSlotAlways(t) ==
    /\ m_post_fn' = t
    /\ pc' = [pc EXCEPT ![t] = "post_write"]
    /\ UNCHANGED asleep

\* The slot predicate of the first m_cv.wait: take the slot or sleep.
TakeSlotOrSleep(t) ==
    \/ /\ m_post_fn = None
       /\ m_post_fn' = t
       /\ pc' = [pc EXCEPT ![t] = "post_write"]
       /\ UNCHANGED asleep
    \/ /\ m_post_fn # None
       /\ asleep' = asleep \union {t}
       /\ pc' = [pc EXCEPT ![t] = "slot"]
       /\ UNCHANGED m_post_fn

\* "Must be called while the loop() function is active" (proxy-io.h:262): the
\* caller or somebody it relies on holds a reference.
PostBegin(t) ==
    /\ pc[t] = IF t = Async THEN "fn" ELSE "idle"
    /\ m_num_clients > 0
    /\ AcquireRef
    /\ TakeSlotOrSleep(t)
    /\ UNCHANGED <<bytes, post_open, loop_pc, loop_todo, refVars, asyncVars>>

PostSlotWait(t) ==
    /\ pc[t] = "slot"
    /\ t \notin asleep
    /\ TakeSlotOrSleep(t)
    /\ UNCHANGED <<bytes, post_open, m_num_clients, loop_pc, loop_todo, refVars, asyncVars>>

PostWrite(t) ==
    /\ pc[t] = "post_write"
    /\ WriteByte(t, "wait_fn")
    /\ UNCHANGED <<m_post_fn, post_open, m_num_clients, asleep, loop_pc, loop_todo>>
    /\ UNCHANGED <<refVars, asyncVars>>

\* The second m_cv.wait; once m_post_fn != &fn the call returns, and the
\* destructor of its EventLoopRef runs under the same lock.
PostWaitFn(t) ==
    /\ pc[t] = "wait_fn"
    /\ t \notin asleep
    /\ \/ /\ m_post_fn = t
          /\ asleep' = asleep \union {t}
          /\ UNCHANGED <<m_num_clients, pc>>
       \/ /\ m_post_fn # t
          /\ ResetRef(t, IF t = Async THEN "fn" ELSE "idle")
    /\ UNCHANGED <<postVars, loop_pc, loop_todo, refVars, asyncVars>>

----------------------------------------------------------------------------
(* Client threads.                                                         *)

\* Client c destroys the object that owns its EventLoopRef.  A reference that
\* is dropped before loop() is entered is the caller's error.
ClientDrop(c) ==
    /\ pc[c] = "idle"
    /\ c \in held
    /\ loop_pc # "start"
    /\ held' = held \ {c}
    /\ ResetRef(c, "idle")
    /\ UNCHANGED <<postVars, loop_pc, loop_todo, loop_refs, asyncVars>>

----------------------------------------------------------------------------
(* The loop thread: EventLoop::loop() and ~EventLoop().                    *)

LoopStart ==
    /\ loop_pc = "start"
    /\ emplaced' = TRUE
    /\ loop_pc' = "read"
    /\ UNCHANGED <<postVars, m_num_clients, asleep, pc, loop_todo, refVars>>
    /\ UNCHANGED <<m_async_fns, registered, async_fn, finished>>

LoopRead ==
    /\ loop_pc = "read"
    /\ loop_todo = "nothing"
    /\ bytes > 0
    /\ bytes' = bytes - 1
    /\ loop_pc' = "woken"
    /\ UNCHANGED <<m_post_fn, post_open, m_num_clients, asleep, pc, loop_todo>>
    /\ UNCHANGED <<refVars, asyncVars>>

\* Where the critical section after a read leads: a posted function is run
\* even if done() holds, and only a wake-up without one may end the loop.
AfterRead ==
    IF m_post_fn # None THEN "fn"
    ELSE IF Done(m_num_clients) THEN "break" ELSE "read"

LoopDispatch ==
    /\ loop_pc = "woken"
    /\ loop_pc' = AfterRead
    /\ UNCHANGED <<postVars, m_num_clients, asleep, pc, loop_todo, refVars, asyncVars>>

\* The posted function returned (or threw, which is logged and ignored).
LoopFnReturn ==
    /\ loop_pc = "fn"
    /\ loop_todo = "nothing"
    /\ m_post_fn' = None
    /\ NotifyAll
    /\ loop_pc' = "read"
    /\ UNCHANGED <<bytes, post_open, m_num_clients, pc, loop_todo, refVars, asyncVars>>

\* m_task_set.reset(), wait_stream = nullptr, close(post_fd)
LoopClose ==
    /\ loop_pc = "break"
    /\ post_open' = FALSE
    /\ loop_pc' = "closed"
    /\ UNCHANGED <<m_post_fn, bytes, m_num_clients, asleep, pc, loop_todo>>
    /\ UNCHANGED <<refVars, asyncVars>>

\* The last critical section of loop().
LoopBye ==
    /\ loop_pc = "closed"
    /\ emplaced' = FALSE
    /\ m_async_fns' = <<>>
    /\ NotifyAll
    /\ loop_pc' = "bye"
    /\ UNCHANGED <<postVars, m_num_clients, pc, loop_todo, refVars>>
    /\ UNCHANGED <<registered, async_fn, finished>>

\* ~EventLoop joins the asynchronous thread.
LoopDestroy ==
    /\ loop_pc = "bye"
    /\ pc[Async] \in {"unstarted", "exited"}
    /\ loop_pc' = "destroyed"
    /\ UNCHANGED <<postVars, m_num_clients, asleep, pc, loop_todo, refVars, asyncVars>>

----------------------------------------------------------------------------
(* What code run on the loop thread does to the loop: posted functions, and *)
(* event handlers run while loop() waits for a byte.                        *)

InHandler == loop_pc \in {"read", "fn"} /\ loop_todo = "nothing"

\* A connection, or an object on a connection, is created.  Handlers belong
\* to connections, which hold references, except the accept handler of a
\* listener, which holds none.
LoopNewRef ==
    /\ InHandler
    /\ loop_refs < MaxLoopRefs
    /\ \/ loop_pc = "fn"
       \/ loop_refs > 0
       \/ Listening /\ bytes < MaxBytes
    /\ AcquireRef
    /\ loop_refs' = loop_refs + 1
    /\ UNCHANGED <<postVars, asleep, pc, loop_pc, loop_todo, held, asyncVars>>

\* An object with a reference is created and handed to client c.
LoopGiveRef(c) ==
    /\ InHandler
    /\ loop_refs > 0
    /\ c \notin held
    /\ AcquireRef
    /\ held' = held \union {c}
    /\ UNCHANGED <<postVars, asleep, pc, loop_pc, loop_todo, loop_refs, asyncVars>>

\* EventLoopRef::reset on the loop thread.
LoopReset ==
    /\ loop_refs > 0
    /\ loop_refs' = loop_refs - 1
    /\ m_num_clients' = m_num_clients - 1
    /\ \/ /\ Done(m_num_clients - 1)
          /\ NotifyAll
          /\ loop_todo' = "done_write"
       \/ /\ ~Done(m_num_clients - 1)
          /\ UNCHANGED asleep
          /\ loop_todo' = "nothing"

LoopDropRef ==
    /\ InHandler
    /\ LoopReset
    /\ UNCHANGED <<postVars, pc, loop_pc, held, asyncVars>>

LoopDoneWrite ==
    /\ loop_todo = "done_write"
    /\ bytes' = bytes + 1
    /\ loop_todo' = "nothing"
    /\ UNCHANGED <<m_post_fn, post_open, m_num_clients, asleep, pc, loop_pc>>
    /\ UNCHANGED <<refVars, asyncVars>>

\* Variant of StartAsyncThread: a running thread is not notified.
StartAsyncOnce ==
    /\ UNCHANGED asleep
    /\ pc' = IF pc[Async] = "unstarted" THEN [pc EXCEPT ![Async] = "top"] ELSE pc

\* EventLoop::startAsyncThread
StartAsyncThread ==
    \/ /\ pc[Async] = "unstarted"
       /\ pc' = [pc EXCEPT ![Async] = "top"]
       /\ UNCHANGED asleep
    \/ /\ pc[Async] # "unstarted"
       /\ NotifyAll
       /\ UNCHANGED pc

\* Variant of AddAsyncCleanup: last registered, first run.
AddToFront(i) == m_async_fns' = <<i>> \o m_async_fns

\* EventLoop::addAsyncCleanup appends, so that cleanup functions run in the
\* order the server objects were destroyed.
AddAsyncCleanup(i) == m_async_fns' = Append(m_async_fns, i)

\* ~ProxyServerBase of an object whose m_impl is still set: register its
\* destruction, then, still on the loop thread, drop its EventLoopRef.
LoopDestroyServer ==
    /\ InHandler
    /\ loop_refs > 0
    /\ registered < MaxCleanups
    /\ registered' = registered + 1
    /\ AddAsyncCleanup(registered')
    /\ StartAsyncThread
    /\ loop_todo' = "drop"
    /\ UNCHANGED <<postVars, m_num_clients, loop_pc, refVars, emplaced, async_fn, finished>>

LoopDestroyServerDrop ==
    /\ loop_todo = "drop"
    /\ LoopReset
    /\ UNCHANGED <<postVars, pc, loop_pc, held, asyncVars>>

----------------------------------------------------------------------------
(* The asynchronous cleanup thread.                                        *)

\* With a function in the list: take a reference, pop it, unlock, run it.
AsyncPop ==
    /\ AcquireRef
    /\ m_async_fns' = Tail(m_async_fns)

AsyncTop ==
    /\ pc[Async] = "top"
    /\ Async \notin asleep
    /\ \/ /\ ~emplaced
          /\ pc' = [pc EXCEPT ![Async] = "exited"]
          /\ UNCHANGED <<asleep, m_num_clients, m_async_fns, async_fn>>
       \/ /\ emplaced
          /\ m_async_fns # <<>>
          /\ AsyncPop
          /\ async_fn' = Head(m_async_fns)
          /\ pc' = [pc EXCEPT ![Async] = "fn"]
          /\ UNCHANGED asleep
       \/ /\ emplaced
          /\ m_async_fns = <<>>
          /\ asleep' = asleep \union {Async}
          /\ UNCHANGED <<pc, m_num_clients, m_async_fns, async_fn>>
    /\ UNCHANGED <<postVars, loop_pc, loop_todo, refVars, emplaced, registered, finished>>

\* The function returned; ref.reset(/*relock=*/true).
AsyncFnReturn ==
    /\ pc[Async] = "fn"
    /\ finished' = Append(finished, async_fn)
    /\ async_fn' = 0
    /\ ResetRef(Async, "top")
    /\ UNCHANGED <<postVars, loop_pc, loop_todo, refVars, m_async_fns, emplaced, registered>>

----------------------------------------------------------------------------

\* Before loop() is entered the loop thread may have created connections and
\* handed objects to clients; somebody holds a reference or may connect.
Init ==
    /\ m_post_fn = None
    /\ held \in SUBSET Clients
    /\ loop_refs \in 0..MaxLoopRefs
    /\ m_num_clients = loop_refs + Cardinality(held)
    /\ Listening \/ m_num_clients > 0
    /\ m_async_fns = <<>>
    /\ emplaced = FALSE
    /\ bytes = 0
    /\ post_open = TRUE
    /\ asleep = {}
    /\ pc = [t \in Posters |-> IF t = Async THEN "unstarted" ELSE "idle"]
    /\ loop_pc = "start"
    /\ loop_todo = "nothing"
    /\ registered = 0
    /\ async_fn = 0
    /\ finished = <<>>

\* loop() returned and the object was destroyed, or a failed write ended the
\* process.
Terminated ==
    /\ \/ loop_pc = "destroyed"
       \/ \E t \in Posters : pc[t] = "failed"
    /\ UNCHANGED vars

PosterStep(t) == PostSlotWait(t) \/ PostWrite(t) \/ PostWaitFn(t) \/ DoneWrite(t)

LoopStep ==
    \/ LoopStart \/ LoopRead \/ LoopDispatch \/ LoopFnReturn
    \/ LoopClose \/ LoopBye \/ LoopDestroy
    \/ LoopDoneWrite \/ LoopDestroyServerDrop

Next ==
    \/ LoopStep
    \/ LoopNewRef \/ LoopDropRef \/ LoopDestroyServer
    \/ AsyncTop \/ AsyncFnReturn
    \/ \E c \in Clients : ClientDrop(c) \/ LoopGiveRef(c)
    \/ \E t \in Posters : PosterStep(t) \/ PostBegin(t) \/ SpuriousWakeup(t)
    \/ Terminated

\* Every thread that can run does; a cleanup function makes finitely many
\* calls and returns.
Fairness ==
    /\ WF_vars(LoopStep)
    /\ WF_vars(AsyncTop)
    /\ SF_vars(AsyncFnReturn)
    /\ \A t \in Posters : WF_vars(PosterStep(t))

Spec == Init /\ [][Next]_vars
FairSpec == Spec /\ Fairness

----------------------------------------------------------------------------
(* Properties.                                                             *)

\* The values the variables range over.
TypeOK ==
    /\ m_post_fn \in Posters \union {None}
    /\ m_num_clients \in Nat
    /\ m_async_fns \in Seq(Nat)
    /\ emplaced \in BOOLEAN
    /\ bytes \in Nat
    /\ post_open \in BOOLEAN
    /\ asleep \in SUBSET Posters
    /\ pc \in [Posters -> ClientPhases \union AsyncPhases]
    /\ pc[Async] \in AsyncPhases
    /\ \A c \in Clients : pc[c] \in ClientPhases
    /\ loop_pc \in LoopPhases
    /\ loop_todo \in {"nothing", "done_write", "drop"}
    /\ held \in SUBSET Clients
    /\ loop_refs \in Nat
    /\ registered \in Nat
    /\ async_fn \in Nat
    /\ finished \in Seq(Nat)

\* m_num_clients counts exactly the references that exist: the ones of loop
\* thread objects, of clients, of posts in progress and of the cleanup
\* function being run.  It never goes below zero (the asserts of
\* EventLoopRef::reset and done()).
RefCount ==
    m_num_clients = loop_refs + Cardinality(held) + Cardinality(Posting)
                    + (IF AsyncHolds THEN 1 ELSE 0)

\* Nobody sleeps on m_cv while what it waits for has already happened: the
\* slot is taken, the own function has not completed, or there is nothing to
\* clean up and the loop has not exited.
NoLostWakeup ==
    \A t \in asleep :
        \/ pc[t] = "slot" /\ m_post_fn # None
        \/ pc[t] = "wait_fn" /\ m_post_fn = t
        \/ t = Async /\ pc[t] = "top" /\ emplaced /\ m_async_fns = <<>>

\* Threads between deciding to write to the pipe and having written, and
\* everything else that tells the loop to look at the state.
Writers == {t \in Posters : pc[t] \in {"post_write", "done_write"}}
LoopWrites == loop_todo = "done_write"
Signalled == Writers # {} \/ LoopWrites \/ bytes > 0 \/ loop_pc = "woken"

\* At most one wake-up is under way at any time, and only while a posted
\* function waits to be run or the loop is done: the loop never takes a byte
\* for another one.  Without this a left-over byte would let the loop see
\* done() and exit before the thread that made it true has written.
OneWakeup ==
    /\ Signalled => (m_post_fn # None /\ loop_pc # "fn") \/ Done(m_num_clients)
    /\ \A t, u \in Writers : t = u
    /\ Writers # {} => ~LoopWrites
    /\ Writers # {} \/ LoopWrites => bytes = 0 /\ loop_pc \in {"start", "read"}
    /\ bytes > 0 => bytes = 1 /\ loop_pc \in {"start", "read"}

\* Every write to m_post_fd finds the descriptor open: the loop does not exit
\* between the critical section that decides to write and the write
\* (proxy.cpp:258-261).  This holds as long as no listener accepts
\* connections without holding a reference.
WriteSafe == Writers # {} => post_open

\* When loop() leaves its for loop nothing is left behind: no posted
\* function, no reference, no post in progress, and every cleanup function
\* that was registered has completed.  The assertions of ~EventLoop follow.
ExitClean ==
    loop_pc \in {"break", "closed", "bye", "destroyed"} =>
        /\ m_post_fn = None
        /\ m_num_clients = 0
        /\ held = {} /\ Posting = {}
        /\ Len(finished) = registered

\* Cleanup functions are run one at a time, in the order they were
\* registered, and none is lost or run twice (addAsyncCleanup's comment).
CleanupsInOrder ==
    finished \o (IF async_fn = 0 THEN <<>> ELSE <<async_fn>>) \o m_async_fns
        = [i \in 1..registered |-> i]

\* How far each call of post() is, as its caller can tell.
CallPhase(t) ==
    IF pc[t] \notin PostPhases THEN "none"
    ELSE IF pc[t] = "slot" THEN "waiting"
    ELSE IF m_post_fn # t THEN "returning"
    ELSE IF loop_pc = "fn" THEN "running" ELSE "waiting"

CallOf == [t \in Posters |-> CallPhase(t)]

Calls == INSTANCE PostCalls WITH Callers <- Posters, call <- CallOf

\* post() keeps its promise: each call's function is run once, alone, on the
\* loop thread, before the call returns; and calls keep being served.
PostImplementsCalls == Calls!CallsSpec

\* Once done() holds the loop exits and the EventLoop can be destroyed.
LoopExits == (emplaced /\ Done(m_num_clients)) ~> (loop_pc = "destroyed")

\* When the clients stop making calls, every registered cleanup function is
\* eventually run to completion, the calls it makes itself included.
CleanupsFinish ==
    <>[](\A c \in Clients : pc[c] \notin PostPhases) =>
        \A i \in 1..MaxCleanups : (registered >= i) ~> (Len(finished) >= i)
=============================================================================
