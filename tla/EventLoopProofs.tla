-------------------------- MODULE EventLoopProofs --------------------------
(***************************************************************************)
(* Proofs about EventLoop for any number of clients, objects and cleanup   *)
(* functions.                                                              *)
(***************************************************************************)
EXTENDS EventLoop, FiniteSetTheorems, SequenceTheorems, TLAPS

USE ClientsAssumption, NoneAssumption, BoundsAssumption

----------------------------------------------------------------------------
(* The set of posting threads and its size.                                *)

LEMMA PostersFinite == IsFiniteSet(Posters)
BY FS_AddElement DEF Posters

LEMMA PostingFinite ==
    /\ IsFiniteSet(Posting)
    /\ Cardinality(Posting) \in Nat
    /\ Cardinality(Posting) = 0 <=> Posting = {}
<1>1. Posting \in SUBSET Posters
  BY DEF Posting
<1>2. IsFiniteSet(Posting)
  BY <1>1, PostersFinite, FS_Subset
<1> QED
  BY <1>2, FS_CardinalityType, FS_EmptySet

LEMMA HeldFinite ==
    ASSUME held \in SUBSET Clients
    PROVE  /\ IsFiniteSet(held)
           /\ Cardinality(held) \in Nat
           /\ Cardinality(held) = 0 <=> held = {}
<1>1. IsFiniteSet(held)
  BY FS_Subset
<1> QED
  BY <1>1, FS_CardinalityType, FS_EmptySet

\* What moving one thread to another phase does to Posting.
LEMMA PostingChange ==
    ASSUME NEW t \in Posters, NEW s, DOMAIN pc = Posters,
           pc' = [pc EXCEPT ![t] = s]
    PROVE  /\ Cardinality(Posting') \in Nat
           /\ s \in PostPhases /\ pc[t] \notin PostPhases =>
                  Cardinality(Posting') = Cardinality(Posting) + 1
           /\ s \notin PostPhases /\ pc[t] \in PostPhases =>
                  Cardinality(Posting') = Cardinality(Posting) - 1
           /\ (s \in PostPhases <=> pc[t] \in PostPhases) =>
                  Cardinality(Posting') = Cardinality(Posting)
<1>1. Posting' = IF s \in PostPhases THEN Posting \union {t} ELSE Posting \ {t}
  BY DEF Posting
<1>2. t \in Posting <=> pc[t] \in PostPhases
  BY DEF Posting
<1>3. /\ Cardinality(Posting \union {t}) =
             IF t \in Posting THEN Cardinality(Posting) ELSE Cardinality(Posting) + 1
      /\ Cardinality(Posting \ {t}) =
             IF t \in Posting THEN Cardinality(Posting) - 1 ELSE Cardinality(Posting)
  BY PostingFinite, FS_AddElement, FS_RemoveElement
<1>4. Cardinality(Posting') \in Nat
  <2>1. IsFiniteSet(Posting \union {t}) /\ IsFiniteSet(Posting \ {t})
    BY PostingFinite, FS_AddElement, FS_RemoveElement
  <2> QED
    BY <1>1, <2>1, FS_CardinalityType
<1> QED
  BY <1>1, <1>2, <1>3, <1>4

----------------------------------------------------------------------------
(* Types, the reference count and the state of a loop that has exited.      *)
(* None is inductive alone: the count stays a natural number because of    *)
(* what it counts, and a thread that holds a reference never meets a       *)
(* closed descriptor because the loop exits at zero only.                  *)

Exited == loop_pc \in {"break", "closed", "bye", "destroyed"}

ExitedAtZero ==
    /\ ~post_open => loop_pc \in {"closed", "bye", "destroyed"}
    /\ Exited => m_num_clients = 0 /\ m_async_fns = <<>> /\ m_post_fn = None
    /\ loop_todo # "nothing" => loop_pc \in {"read", "fn"}
    /\ loop_todo = "drop" => loop_refs > 0

CountInv == TypeOK /\ RefCount /\ ExitedAtZero

LEMMA InitCount == Init => CountInv
<1> SUFFICES ASSUME Init PROVE CountInv
  OBVIOUS
<1>1. Posting = {} /\ ~AsyncHolds
  BY DEF Init, Posting, PostPhases, AsyncHolds, Posters
<1>2. Cardinality(Posting) = 0
  BY <1>1, FS_EmptySet
<1>3. Cardinality(held) \in Nat
  BY HeldFinite DEF Init
<1>4. TypeOK
  <2>1. m_num_clients \in Nat
    BY <1>3 DEF Init
  <2>2. /\ pc \in [Posters -> ClientPhases \union AsyncPhases]
        /\ pc[Async] \in AsyncPhases
        /\ \A c \in Clients : pc[c] \in ClientPhases
    BY DEF Init, Posters, ClientPhases, AsyncPhases
  <2>3. m_async_fns \in Seq(Nat) /\ finished \in Seq(Nat)
    BY DEF Init
  <2>4. /\ m_post_fn \in Posters \union {None}
        /\ emplaced \in BOOLEAN /\ bytes \in Nat /\ post_open \in BOOLEAN
        /\ asleep \in SUBSET Posters
        /\ held \in SUBSET Clients
        /\ registered \in Nat /\ async_fn \in Nat
    BY DEF Init
  <2>6. loop_refs \in Nat
    BY DEF Init
  <2>5. loop_pc \in LoopPhases /\ loop_todo \in {"nothing", "done_write", "drop"}
    BY DEF Init, LoopPhases
  <2> QED
    BY <2>1, <2>2, <2>3, <2>4, <2>5, <2>6 DEF TypeOK
<1>5. RefCount
  BY <1>1, <1>2, <1>3 DEF Init, RefCount
<1>6. ExitedAtZero
  BY DEF Init, ExitedAtZero, Exited
<1> QED
  BY <1>4, <1>5, <1>6 DEF CountInv

\* With no reference counted, nobody has one.
LEMMA ZeroMeansNobody ==
    ASSUME TypeOK, RefCount, m_num_clients = 0
    PROVE  loop_refs = 0 /\ held = {} /\ Posting = {} /\ ~AsyncHolds
<1>1. Cardinality(held) \in Nat /\ Cardinality(Posting) \in Nat /\ loop_refs \in Nat
  BY HeldFinite, PostingFinite DEF TypeOK
<1>2. loop_refs = 0 /\ Cardinality(held) = 0 /\ Cardinality(Posting) = 0 /\ ~AsyncHolds
  BY <1>1 DEF RefCount
<1> QED
  BY <1>2, HeldFinite, PostingFinite DEF TypeOK

\* A change of the count that matches the change of what it counts.
LEMMA RefCountChange ==
    ASSUME TypeOK, RefCount, m_num_clients' \in Int,
           NEW dl \in Int, loop_refs' = loop_refs + dl, loop_refs' \in Nat,
           NEW dh \in Int, Cardinality(held') = Cardinality(held) + dh,
           held' \in SUBSET Clients,
           NEW dp \in Int, Cardinality(Posting') = Cardinality(Posting) + dp,
           NEW da \in Int, (IF AsyncHolds' THEN 1 ELSE 0) = (IF AsyncHolds THEN 1 ELSE 0) + da,
           m_num_clients' = m_num_clients + dl + dh + dp + da
    PROVE  RefCount' /\ m_num_clients' \in Nat
<1>1. /\ Cardinality(held) \in Nat /\ Cardinality(Posting) \in Nat
      /\ loop_refs \in Nat /\ m_num_clients \in Nat
  BY HeldFinite, PostingFinite DEF TypeOK
<1>2. Cardinality(held') \in Nat
  BY FS_Subset, FS_CardinalityType
<1>3. Cardinality(Posting') \in Nat
  <2>1. Posting' \in SUBSET Posters
    BY DEF Posting
  <2> QED
    BY <2>1, PostersFinite, FS_Subset, FS_CardinalityType
<1>4. RefCount'
  BY <1>1, <1>2, <1>3 DEF RefCount
<1>5. m_num_clients' \in Nat
  BY <1>2, <1>3, <1>4 DEF RefCount
<1> QED
  BY <1>4, <1>5

\* Every step keeps the variables in their types, if the count stays natural.
LEMMA StepTypes == TypeOK /\ m_num_clients' \in Nat /\ [Next]_vars => TypeOK'
<1> SUFFICES ASSUME TypeOK, m_num_clients' \in Nat, [Next]_vars PROVE TypeOK'
  OBVIOUS
<1> USE DEF TypeOK, postVars, refVars, asyncVars, LoopPhases, ClientPhases,
            AsyncPhases, PostPhases
<1>a. Async \in Posters /\ Async \notin Clients /\ Clients \subseteq Posters
      /\ \A t \in Posters : t # Async => t \in Clients
  BY DEF Posters
<1>1. ASSUME NEW c \in Clients, ClientDrop(c) PROVE TypeOK'
  BY ZenonT(60), <1>a, <1>1 DEF ClientDrop, ResetRef, NotifyAll
<1>2. ASSUME NEW c \in Clients, LoopGiveRef(c) PROVE TypeOK'
  BY <1>a, <1>2 DEF LoopGiveRef, AcquireRef
<1>3. ASSUME NEW t \in Posters, PostBegin(t) PROVE TypeOK'
  BY ZenonT(60), <1>a, <1>3 DEF PostBegin, AcquireRef, TakeSlotOrSleep
<1>4. ASSUME NEW t \in Posters, PostSlotWait(t) PROVE TypeOK'
  BY <1>a, <1>4 DEF PostSlotWait, TakeSlotOrSleep
<1>5. ASSUME NEW t \in Posters, PostWrite(t) PROVE TypeOK'
  <2>1. PICK u \in {"wait_fn", "failed"} : pc' = [pc EXCEPT ![t] = u]
    BY <1>5 DEF PostWrite, WriteByte
  <2>2. bytes' \in Nat
    BY <1>5 DEF PostWrite, WriteByte
  <2> QED
    BY <1>a, <1>5, <2>1, <2>2 DEF PostWrite
<1>6. ASSUME NEW t \in Posters, PostWaitFn(t) PROVE TypeOK'
  BY SMTT(40), <1>a, <1>6 DEF PostWaitFn, ResetRef, NotifyAll
<1>7. ASSUME NEW t \in Posters, DoneWrite(t) PROVE TypeOK'
  <2>1. PICK u \in {IF t = Async THEN "top" ELSE "idle", "failed"} :
              pc' = [pc EXCEPT ![t] = u]
    BY <1>7 DEF DoneWrite, WriteByte
  <2>2. bytes' \in Nat
    BY <1>7 DEF DoneWrite, WriteByte
  <2> QED
    BY <1>a, <1>7, <2>1, <2>2 DEF DoneWrite
<1>8. ASSUME NEW t \in Posters, SpuriousWakeup(t) PROVE TypeOK'
  BY <1>a, <1>8 DEF SpuriousWakeup
<1>9. CASE LoopStart
  BY <1>a, <1>9 DEF LoopStart
<1>10. CASE LoopRead
  BY <1>a, <1>10 DEF LoopRead
<1>11. CASE LoopDispatch
  BY <1>a, <1>11 DEF LoopDispatch, AfterRead
<1>12. CASE LoopFnReturn
  BY <1>a, <1>12 DEF LoopFnReturn, NotifyAll
<1>13. CASE LoopClose
  BY <1>a, <1>13 DEF LoopClose
<1>14. CASE LoopBye
  <2>1. m_async_fns' \in Seq(Nat)
    BY <1>14 DEF LoopBye
  <2> QED
    BY <1>14, <2>1 DEF LoopBye, NotifyAll
<1>15. CASE LoopDestroy
  BY <1>a, <1>15 DEF LoopDestroy
<1>16. CASE LoopDoneWrite
  BY <1>a, <1>16 DEF LoopDoneWrite
<1>17. CASE LoopDestroyServerDrop
  BY <1>a, <1>17 DEF LoopDestroyServerDrop, LoopReset, NotifyAll
<1>18. CASE LoopNewRef
  BY <1>a, <1>18 DEF LoopNewRef, AcquireRef
<1>19. CASE LoopDropRef
  BY <1>a, <1>19 DEF LoopDropRef, LoopReset, NotifyAll
<1>20. CASE LoopDestroyServer
  <2>1. registered' \in Nat /\ m_async_fns' \in Seq(Nat)
    BY <1>20 DEF LoopDestroyServer, AddAsyncCleanup
  <2>2. /\ pc' \in [Posters -> ClientPhases \union AsyncPhases]
        /\ pc'[Async] \in AsyncPhases
        /\ \A c \in Clients : pc'[c] \in ClientPhases
        /\ asleep' \in SUBSET Posters
    BY <1>a, <1>20 DEF LoopDestroyServer, StartAsyncThread, NotifyAll
  <2> QED
    BY <1>20, <2>1, <2>2 DEF LoopDestroyServer
<1>21. CASE AsyncTop
  <2>1. m_async_fns' \in Seq(Nat) /\ async_fn' \in Nat
    <3>1. m_async_fns # <<>> => Head(m_async_fns) \in Nat /\ Tail(m_async_fns) \in Seq(Nat)
      BY HeadTailProperties
    <3> QED
      BY <1>21, <3>1 DEF AsyncTop, AsyncPop
  <2>2. /\ pc' \in [Posters -> ClientPhases \union AsyncPhases]
        /\ pc'[Async] \in AsyncPhases
        /\ \A c \in Clients : pc'[c] \in ClientPhases
        /\ asleep' \in SUBSET Posters
    BY <1>a, <1>21 DEF AsyncTop
  <2> QED
    BY <1>21, <2>1, <2>2 DEF AsyncTop
<1>22. CASE AsyncFnReturn
  <2>1. finished' \in Seq(Nat) /\ async_fn' \in Nat
    BY <1>22 DEF AsyncFnReturn
  <2>2. /\ pc' \in [Posters -> ClientPhases \union AsyncPhases]
        /\ pc'[Async] \in AsyncPhases
        /\ \A c \in Clients : pc'[c] \in ClientPhases
        /\ asleep' \in SUBSET Posters
    BY <1>a, <1>22 DEF AsyncFnReturn, ResetRef, NotifyAll
  <2> QED
    BY <1>22, <2>1, <2>2 DEF AsyncFnReturn
<1>23. CASE Terminated
  BY <1>23 DEF Terminated, vars
<1>24. CASE UNCHANGED vars
  BY <1>24 DEF vars
<1> QED
  BY <1>1, <1>2, <1>3, <1>4, <1>5, <1>6, <1>7, <1>8, <1>9, <1>10, <1>11, <1>12, <1>13, <1>14, <1>15, <1>16, <1>17, <1>18, <1>19, <1>20, <1>21, <1>22, <1>23, <1>24 DEF Next, LoopStep, PosterStep

\* Every step changes the count as it changes the references that exist.
LEMMA StepRefs == CountInv /\ [Next]_vars => RefCount' /\ m_num_clients' \in Nat
<1> SUFFICES ASSUME CountInv, [Next]_vars PROVE RefCount' /\ m_num_clients' \in Nat
  OBVIOUS
<1> USE DEF CountInv
<1>a. /\ Cardinality(held) \in Nat /\ Cardinality(Posting) \in Nat
      /\ DOMAIN pc = Posters /\ Async \in Posters /\ Clients \subseteq Posters
      /\ Async \notin Clients
      /\ m_num_clients \in Nat /\ loop_refs \in Nat /\ held \in SUBSET Clients
  BY HeldFinite, PostingFinite DEF TypeOK, Posters
<1> DEFINE Move(dl, dh, dp, da) ==
        /\ loop_refs' = loop_refs + dl /\ loop_refs' \in Nat
        /\ held' \in SUBSET Clients
        /\ Cardinality(held') = Cardinality(held) + dh
        /\ Cardinality(Posting') = Cardinality(Posting) + dp
        /\ (IF AsyncHolds' THEN 1 ELSE 0) = (IF AsyncHolds THEN 1 ELSE 0) + da
        /\ m_num_clients' = m_num_clients + dl + dh + dp + da
<1>b. ASSUME NEW dl \in Int, NEW dh \in Int, NEW dp \in Int, NEW da \in Int,
             Move(dl, dh, dp, da)
      PROVE  RefCount' /\ m_num_clients' \in Nat
  <2>1. m_num_clients' \in Int
    BY <1>a, <1>b
  <2> QED
    BY <1>b, <2>1, RefCountChange
<1> HIDE DEF Move
\* Steps of one thread that take or give up no reference.
<1>c. ASSUME NEW t \in Posters, NEW s, pc' = [pc EXCEPT ![t] = s],
             s \in PostPhases <=> pc[t] \in PostPhases,
             t = Async => (s \in PostPhases \union {"fn"} <=> AsyncHolds),
             UNCHANGED <<m_num_clients, loop_refs, held>>
      PROVE  RefCount' /\ m_num_clients' \in Nat
  <2>1. Cardinality(Posting') = Cardinality(Posting)
    BY <1>a, <1>c, PostingChange
  <2>2. AsyncHolds' <=> AsyncHolds
    BY <1>a, <1>c DEF AsyncHolds
  <2>3. Move(0, 0, 0, 0)
    BY <1>a, <1>c, <2>1, <2>2 DEF Move
  <2> QED
    BY <1>b, <2>3
\* Steps that leave alone everything RefCount speaks of.
<1>d. ASSUME UNCHANGED <<pc, m_num_clients, loop_refs, held>>
      PROVE  RefCount' /\ m_num_clients' \in Nat
  BY <1>a, <1>d DEF RefCount, Posting, AsyncHolds
\* A reference of the loop thread.
<1>e. ASSUME NEW d \in {1, -1}, UNCHANGED <<pc, held>>, loop_refs' = loop_refs + d,
             loop_refs' \in Nat, m_num_clients' = m_num_clients + d
      PROVE  RefCount' /\ m_num_clients' \in Nat
  <2>1. Posting' = Posting /\ (AsyncHolds' <=> AsyncHolds)
    BY <1>e DEF Posting, AsyncHolds
  <2>2. Move(d, 0, 0, 0)
    BY <1>a, <1>e, <2>1 DEF Move
  <2> QED
    BY <1>b, <2>2
<1>1. ASSUME NEW c \in Clients, ClientDrop(c) PROVE RefCount' /\ m_num_clients' \in Nat
  <2>1. Cardinality(held') = Cardinality(held) - 1
    BY <1>1, <1>a, HeldFinite, FS_RemoveElement DEF ClientDrop
  <2>2. PICK s \in {"done_write", "idle"} : pc' = [pc EXCEPT ![c] = s]
    BY <1>1 DEF ClientDrop, ResetRef
  <2>3. Cardinality(Posting') = Cardinality(Posting)
    <3>1. pc[c] \notin PostPhases /\ s \notin PostPhases /\ c \in Posters
      BY <1>1, <1>a DEF ClientDrop, PostPhases
    <3> QED
      BY <1>a, <2>2, <3>1, PostingChange
  <2>4. AsyncHolds' <=> AsyncHolds
    BY <1>1, <1>a, <2>2 DEF AsyncHolds
  <2>5. Move(0, -1, 0, 0)
    BY <1>1, <1>a, <2>1, <2>3, <2>4 DEF Move, ClientDrop, ResetRef
  <2> QED
    BY <1>b, <2>5
<1>2. ASSUME NEW c \in Clients, LoopGiveRef(c) PROVE RefCount' /\ m_num_clients' \in Nat
  <2>1. Cardinality(held') = Cardinality(held) + 1
    BY <1>2, <1>a, HeldFinite, FS_AddElement DEF LoopGiveRef
  <2>2. Posting' = Posting /\ (AsyncHolds' <=> AsyncHolds)
    BY <1>2 DEF LoopGiveRef, Posting, AsyncHolds
  <2>3. Move(0, 1, 0, 0)
    BY <1>2, <1>a, <2>1, <2>2 DEF Move, LoopGiveRef, AcquireRef
  <2> QED
    BY <1>b, <2>3
<1>3. ASSUME NEW t \in Posters, PostBegin(t) PROVE RefCount' /\ m_num_clients' \in Nat
  <2>1. PICK s \in {"post_write", "slot"} : pc' = [pc EXCEPT ![t] = s]
    BY <1>3 DEF PostBegin, TakeSlotOrSleep
  <2>2. Cardinality(Posting') = Cardinality(Posting) + 1
    <3>1. pc[t] \notin PostPhases /\ s \in PostPhases
      BY <1>3 DEF PostBegin, PostPhases
    <3> QED
      BY <1>a, <2>1, <3>1, PostingChange
  <2>3. AsyncHolds' <=> AsyncHolds
    BY <1>3, <1>a, <2>1 DEF AsyncHolds, PostBegin, PostPhases
  <2>4. Move(0, 0, 1, 0)
    BY <1>3, <1>a, <2>2, <2>3 DEF Move, PostBegin, AcquireRef, refVars
  <2> QED
    BY <1>b, <2>4
<1>4. ASSUME NEW t \in Posters, PostSlotWait(t) PROVE RefCount' /\ m_num_clients' \in Nat
  <2>1. PICK s \in {"post_write", "slot"} : pc' = [pc EXCEPT ![t] = s]
    BY <1>4 DEF PostSlotWait, TakeSlotOrSleep
  <2> QED
    BY <1>4, <1>c, <2>1 DEF PostSlotWait, PostPhases, AsyncHolds, refVars
<1>5. ASSUME NEW t \in Posters, PostWrite(t) PROVE RefCount' /\ m_num_clients' \in Nat
  <2>1. post_open
    <3>1. t \in Posting
      BY <1>5 DEF PostWrite, Posting, PostPhases
    <3>2. m_num_clients # 0
      BY <3>1, ZeroMeansNobody
    <3> QED
      BY <3>2 DEF ExitedAtZero, Exited, TypeOK
  <2>2. pc' = [pc EXCEPT ![t] = "wait_fn"]
    BY <1>5, <2>1 DEF PostWrite, WriteByte
  <2> QED
    BY <1>5, <1>c, <2>2 DEF PostWrite, PostPhases, AsyncHolds, refVars
<1>6. ASSUME NEW t \in Posters, PostWaitFn(t) PROVE RefCount' /\ m_num_clients' \in Nat
  <2>1. CASE UNCHANGED <<m_num_clients, pc>>
    BY <1>6, <1>d, <2>1 DEF PostWaitFn, refVars
  <2>2. CASE ResetRef(t, IF t = Async THEN "fn" ELSE "idle")
    <3>1. t \in Posting /\ m_num_clients # 0
      BY <1>6, ZeroMeansNobody DEF PostWaitFn, Posting, PostPhases
    <3>2. /\ ~Done(m_num_clients - 1) \/ t # Async
          /\ pc' = [pc EXCEPT ![t] = IF Done(m_num_clients - 1) THEN "done_write"
                                     ELSE IF t = Async THEN "fn" ELSE "idle"]
      <4>1. t = Async => m_num_clients - 1 # 0
        <5> SUFFICES ASSUME t = Async PROVE m_num_clients - 1 # 0
          OBVIOUS
        <5>1. AsyncHolds /\ Cardinality(Posting) # 0
          BY <1>6, <3>1, PostingFinite DEF AsyncHolds, PostWaitFn, PostPhases
        <5> QED
          BY <1>a, <5>1 DEF RefCount
      <4> QED
        BY <2>2, <4>1 DEF ResetRef, Done
    <3>3. PICK s \in {"done_write", "fn", "idle"} :
              pc' = [pc EXCEPT ![t] = s] /\ (t = Async => s = "fn")
      BY <3>2
    <3>4. Cardinality(Posting') = Cardinality(Posting) - 1
      <4>1. pc[t] \in PostPhases /\ s \notin PostPhases
        BY <1>6 DEF PostWaitFn, PostPhases
      <4> QED
        BY <1>a, <3>3, <4>1, PostingChange
    <3>5. AsyncHolds' <=> AsyncHolds
      BY <1>6, <1>a, <3>3 DEF AsyncHolds, PostWaitFn, PostPhases
    <3>6. Move(0, 0, -1, 0)
      BY <1>6, <1>a, <2>2, <3>4, <3>5 DEF Move, PostWaitFn, ResetRef, refVars
    <3> QED
      BY <1>b, <3>6
  <2> QED
    BY <1>6, <2>1, <2>2 DEF PostWaitFn
<1>7. ASSUME NEW t \in Posters, DoneWrite(t) PROVE RefCount' /\ m_num_clients' \in Nat
  <2>1. PICK s \in {"top", "idle", "failed"} : pc' = [pc EXCEPT ![t] = s]
    BY <1>7 DEF DoneWrite, WriteByte
  <2> QED
    BY <1>7, <1>c, <2>1 DEF DoneWrite, PostPhases, AsyncHolds, refVars
<1>8. ASSUME NEW t \in Posters, SpuriousWakeup(t) PROVE RefCount' /\ m_num_clients' \in Nat
  BY <1>8, <1>d DEF SpuriousWakeup, refVars
<1>9. CASE \/ LoopStart \/ LoopRead \/ LoopDispatch \/ LoopFnReturn \/ LoopClose
           \/ LoopBye \/ LoopDestroy \/ LoopDoneWrite \/ Terminated \/ UNCHANGED vars
  BY <1>9, <1>d DEF LoopStart, LoopRead, LoopDispatch, LoopFnReturn, LoopClose,
     LoopBye, LoopDestroy, LoopDoneWrite, Terminated, refVars, vars
<1>10. CASE LoopNewRef
  BY <1>10, <1>a, <1>e DEF LoopNewRef, AcquireRef
<1>11. CASE LoopDropRef \/ LoopDestroyServerDrop
  <2>1. UNCHANGED <<pc, held>> /\ LoopReset
    BY <1>11 DEF LoopDropRef, LoopDestroyServerDrop
  <2>2. /\ loop_refs' = loop_refs + (-1) /\ loop_refs' \in Nat
        /\ m_num_clients' = m_num_clients + (-1)
    BY <1>a, <2>1 DEF LoopReset
  <2> QED
    BY <1>e, <2>1, <2>2
<1>12. CASE LoopDestroyServer
  <2>1. CASE pc[Async] = "unstarted" /\ pc' = [pc EXCEPT ![Async] = "top"]
    BY <1>12, <1>a, <1>c, <2>1 DEF LoopDestroyServer, PostPhases, AsyncHolds, refVars
  <2>2. CASE UNCHANGED pc
    BY <1>12, <1>d, <2>2 DEF LoopDestroyServer, refVars
  <2> QED
    BY <1>12, <2>1, <2>2 DEF LoopDestroyServer, StartAsyncThread
<1>13. CASE AsyncTop
  <2>1. CASE pc' = [pc EXCEPT ![Async] = "exited"] /\ UNCHANGED m_num_clients
    BY <1>13, <1>a, <1>c, <2>1 DEF AsyncTop, PostPhases, AsyncHolds, refVars
  <2>2. CASE pc' = [pc EXCEPT ![Async] = "fn"] /\ m_num_clients' = m_num_clients + 1
    <3>1. Cardinality(Posting') = Cardinality(Posting)
      <4>1. pc[Async] \notin PostPhases /\ "fn" \notin PostPhases
        BY <1>13 DEF AsyncTop, PostPhases
      <4> QED
        BY <1>a, <2>2, <4>1, PostingChange
    <3>2. AsyncHolds' /\ ~AsyncHolds
      BY <1>13, <1>a, <2>2 DEF AsyncHolds, AsyncTop, PostPhases
    <3>3. Move(0, 0, 0, 1)
      BY <1>13, <1>a, <2>2, <3>1, <3>2 DEF Move, AsyncTop, refVars
    <3> QED
      BY <1>b, <3>3
  <2>3. CASE UNCHANGED <<pc, m_num_clients>>
    BY <1>13, <1>d, <2>3 DEF AsyncTop, refVars
  <2> QED
    BY <1>13, <2>1, <2>2, <2>3 DEF AsyncTop, AsyncPop, AcquireRef
<1>14. CASE AsyncFnReturn
  <2>1. PICK s \in {"done_write", "top"} : pc' = [pc EXCEPT ![Async] = s]
    BY <1>14 DEF AsyncFnReturn, ResetRef
  <2>2. Cardinality(Posting') = Cardinality(Posting)
    <3>1. pc[Async] \notin PostPhases /\ s \notin PostPhases
      BY <1>14 DEF AsyncFnReturn, PostPhases
    <3> QED
      BY <1>a, <2>1, <3>1, PostingChange
  <2>3. ~AsyncHolds' /\ AsyncHolds
    BY <1>14, <1>a, <2>1 DEF AsyncHolds, AsyncFnReturn, PostPhases
  <2>4. Move(0, 0, 0, -1)
    BY <1>14, <1>a, <2>2, <2>3 DEF Move, AsyncFnReturn, ResetRef, refVars
  <2> QED
    BY <1>b, <2>4
<1> QED
  BY <1>1, <1>2, <1>3, <1>4, <1>5, <1>6, <1>7, <1>8, <1>9, <1>10, <1>11, <1>12,
     <1>13, <1>14 DEF Next, LoopStep, PosterStep

\* Who has a reference finds the loop running.
LEMMA HolderSeesLoop ==
    ASSUME CountInv, \/ loop_refs # 0 \/ held # {} \/ Posting # {} \/ AsyncHolds
    PROVE  ~Exited /\ post_open /\ m_num_clients > 0
<1>1. m_num_clients # 0
  BY ZeroMeansNobody DEF CountInv
<1> QED
  BY <1>1 DEF CountInv, ExitedAtZero, Exited, TypeOK

LEMMA StepExited == CountInv /\ [Next]_vars => ExitedAtZero'
<1> SUFFICES ASSUME CountInv, [Next]_vars PROVE ExitedAtZero'
  OBVIOUS
<1> USE DEF ExitedAtZero, Exited
<1>a. ExitedAtZero /\ TypeOK
  BY DEF CountInv
\* Threads that have a reference act on a running loop.
<1>b. ASSUME ~Exited, UNCHANGED <<post_open, loop_pc, loop_todo, loop_refs>>
      PROVE  ExitedAtZero'
  BY <1>a, <1>b
<1>1. ASSUME NEW c \in Clients, ClientDrop(c) PROVE ExitedAtZero'
  <2>1. held # {}
    BY <1>1 DEF ClientDrop
  <2> QED
    BY <1>1, <1>b, <2>1, HolderSeesLoop DEF ClientDrop, postVars
<1>2. ASSUME NEW c \in Clients, LoopGiveRef(c) PROVE ExitedAtZero'
  BY <1>2, <1>b DEF LoopGiveRef, InHandler, postVars
<1>3. ASSUME NEW t \in Posters, PostBegin(t) PROVE ExitedAtZero'
  BY <1>3, <1>a, <1>b DEF PostBegin, refVars
<1>4. ASSUME NEW t \in Posters, PostSlotWait(t) \/ PostWaitFn(t) PROVE ExitedAtZero'
  <2>1. Posting # {}
    BY <1>4 DEF PostSlotWait, PostWaitFn, Posting, PostPhases
  <2> QED
    BY <1>4, <1>b, <2>1, HolderSeesLoop DEF PostSlotWait, PostWaitFn, postVars, refVars
<1>5. ASSUME NEW t \in Posters, PostWrite(t) \/ DoneWrite(t) \/ SpuriousWakeup(t)
      PROVE  ExitedAtZero'
  BY <1>5, <1>a DEF PostWrite, DoneWrite, SpuriousWakeup, postVars, refVars, asyncVars
<1>6. CASE LoopStart \/ LoopRead \/ LoopFnReturn \/ LoopClose \/ LoopBye \/ LoopDestroy
  BY <1>6, <1>a DEF LoopStart, LoopRead, LoopFnReturn, LoopClose, LoopBye, LoopDestroy,
     postVars, refVars, asyncVars
<1>7. CASE LoopDispatch
  BY <1>7, <1>a DEF LoopDispatch, AfterRead, Done, postVars, refVars, asyncVars
<1>8. CASE LoopNewRef
  BY <1>8, <1>a DEF LoopNewRef, InHandler, postVars, TypeOK
<1>9. CASE LoopDropRef \/ LoopDestroyServerDrop
  BY <1>9, <1>a DEF LoopDropRef, LoopDestroyServerDrop, LoopReset, InHandler, postVars, TypeOK
<1>10. CASE LoopDoneWrite
  BY <1>10, <1>a DEF LoopDoneWrite, refVars, asyncVars
<1>11. CASE LoopDestroyServer
  BY <1>11, <1>a DEF LoopDestroyServer, InHandler, postVars, refVars
<1>12. CASE AsyncTop
  BY <1>12, <1>a DEF AsyncTop, AsyncPop, postVars, refVars
<1>13. CASE AsyncFnReturn
  <2>1. AsyncHolds
    BY <1>13 DEF AsyncFnReturn, AsyncHolds
  <2> QED
    BY <1>13, <1>b, <2>1, HolderSeesLoop DEF AsyncFnReturn, postVars, refVars
<1>14. CASE Terminated \/ UNCHANGED vars
  BY <1>14, <1>a DEF Terminated, vars
<1> QED
  BY <1>1, <1>2, <1>3, <1>4, <1>5, <1>6, <1>7, <1>8, <1>9, <1>10, <1>11, <1>12,
     <1>13, <1>14 DEF Next, LoopStep, PosterStep

LEMMA StepCount == CountInv /\ [Next]_vars => CountInv'
<1> SUFFICES ASSUME CountInv, [Next]_vars PROVE CountInv'
  OBVIOUS
<1>1. RefCount' /\ m_num_clients' \in Nat
  BY StepRefs
<1>2. TypeOK'
  BY <1>1, StepTypes DEF CountInv
<1>3. ExitedAtZero'
  BY StepExited
<1> QED
  BY <1>1, <1>2, <1>3 DEF CountInv

LEMMA CountInvariant == Spec => []CountInv
BY InitCount, StepCount, PTL DEF Spec

\* The variables of the event loop keep their types; in particular the count
\* of EventLoopRefs never becomes negative, which the code asserts
\* (proxy.cpp:66, 323).
THEOREM TypeCorrect == Spec => []TypeOK
BY CountInvariant, PTL DEF CountInv

\* m_num_clients is exactly the number of references held by loop thread
\* objects, clients, posts in progress and the running cleanup function.
THEOREM ReferencesCounted == Spec => []RefCount
BY CountInvariant, PTL DEF CountInv

----------------------------------------------------------------------------
(* Condition variable: no sleeping thread misses its wake-up.              *)

LEMMA StepWakeup == TypeOK /\ NoLostWakeup /\ [Next]_vars => NoLostWakeup'
<1> SUFFICES ASSUME TypeOK, NoLostWakeup, [Next]_vars PROVE NoLostWakeup'
  OBVIOUS
<1> USE DEF NoLostWakeup
<1>1. ASSUME asleep' = {} PROVE NoLostWakeup'
  BY <1>1
\* A thread outside asleep changes phase, and the slot and the cleanup list
\* stay as they are.
<1>2. ASSUME NEW t \in Posters, t \notin asleep, NEW s, pc' = [pc EXCEPT ![t] = s],
             UNCHANGED <<asleep, m_post_fn, emplaced, m_async_fns>>
      PROVE  NoLostWakeup'
  BY <1>2 DEF TypeOK
<1>3. ASSUME UNCHANGED <<asleep, pc, m_post_fn, emplaced, m_async_fns>> PROVE NoLostWakeup'
  BY <1>3
<1>4. ASSUME NEW t \in Posters, PostBegin(t) \/ PostSlotWait(t) PROVE NoLostWakeup'
  <2>1. t \notin asleep
    BY <1>4 DEF PostBegin, PostSlotWait
  <2>2. UNCHANGED <<emplaced, m_async_fns>> /\ TakeSlotOrSleep(t)
    BY <1>4 DEF PostBegin, PostSlotWait, asyncVars
  <2> QED
    BY <2>1, <2>2 DEF TakeSlotOrSleep, TypeOK
<1>5. ASSUME NEW t \in Posters, PostWaitFn(t) PROVE NoLostWakeup'
  <2>1. CASE ResetRef(t, IF t = Async THEN "fn" ELSE "idle")
    BY <1>1, <1>2, <1>5, <2>1 DEF PostWaitFn, ResetRef, NotifyAll, postVars, asyncVars
  <2>2. CASE m_post_fn = t /\ asleep' = asleep \union {t} /\ UNCHANGED pc
    BY <1>5, <2>2 DEF PostWaitFn, postVars, asyncVars, TypeOK
  <2> QED
    BY <1>5, <2>1, <2>2 DEF PostWaitFn
<1>6. ASSUME NEW t \in Posters, PostWrite(t) \/ DoneWrite(t) PROVE NoLostWakeup'
  <2>1. t \notin asleep
    BY <1>6 DEF PostWrite, DoneWrite
  <2> QED
    BY <1>2, <1>6, <2>1 DEF PostWrite, DoneWrite, WriteByte, asyncVars
<1>7. ASSUME NEW t \in Posters, SpuriousWakeup(t) PROVE NoLostWakeup'
  BY <1>7 DEF SpuriousWakeup, postVars, asyncVars
<1>8. ASSUME NEW c \in Clients, ClientDrop(c) PROVE NoLostWakeup'
  <2>1. c \notin asleep /\ c \in Posters
    BY <1>8 DEF ClientDrop, Posters
  <2> QED
    BY <1>1, <1>2, <1>8, <2>1 DEF ClientDrop, ResetRef, NotifyAll, postVars, asyncVars
<1>9. ASSUME NEW c \in Clients, LoopGiveRef(c) PROVE NoLostWakeup'
  BY <1>3, <1>9 DEF LoopGiveRef, postVars, asyncVars
<1>10. CASE LoopStart
  BY <1>10 DEF LoopStart, postVars, TypeOK
<1>11. CASE \/ LoopRead \/ LoopDispatch \/ LoopClose \/ LoopDestroy \/ LoopDoneWrite
            \/ LoopNewRef \/ Terminated \/ UNCHANGED vars
  BY <1>3, <1>11 DEF LoopRead, LoopDispatch, LoopClose, LoopDestroy, LoopDoneWrite,
     LoopNewRef, Terminated, postVars, asyncVars, vars
<1>12. CASE LoopFnReturn \/ LoopBye
  BY <1>1, <1>12 DEF LoopFnReturn, LoopBye, NotifyAll
<1>13. CASE LoopDropRef \/ LoopDestroyServerDrop
  BY <1>1, <1>3, <1>13 DEF LoopDropRef, LoopDestroyServerDrop, LoopReset, NotifyAll,
     postVars, asyncVars
<1>14. CASE LoopDestroyServer
  <2>1. CASE asleep' = {}
    BY <1>1, <2>1
  <2>2. CASE pc[Async] = "unstarted" /\ pc' = [pc EXCEPT ![Async] = "top"] /\ UNCHANGED asleep
    <3>1. Async \notin asleep
      BY <2>2
    <3> QED
      BY <1>14, <2>2, <3>1 DEF LoopDestroyServer, postVars, TypeOK
  <2> QED
    BY <1>14, <2>1, <2>2 DEF LoopDestroyServer, StartAsyncThread, NotifyAll
<1>15. CASE AsyncTop
  <2>1. Async \in Posters
    BY DEF Posters
  <2> QED
    BY <1>15, <2>1 DEF AsyncTop, postVars, TypeOK
<1>16. CASE AsyncFnReturn
  <2>1. Async \in Posters /\ Async \notin asleep
    BY <1>16 DEF AsyncFnReturn, Posters
  <2> QED
    BY <1>1, <1>2, <1>16, <2>1 DEF AsyncFnReturn, ResetRef, NotifyAll, postVars
<1> QED
  BY <1>4, <1>5, <1>6, <1>7, <1>8, <1>9, <1>10, <1>11, <1>12, <1>13, <1>14, <1>15,
     <1>16 DEF Next, LoopStep, PosterStep

\* No thread sleeps on m_cv after the condition it waits for became true:
\* each change of m_post_fn and m_async_fns that a sleeper waits for is
\* followed by notify_all under the same lock.
THEOREM WakeupsNotLost == Spec => []NoLostWakeup
<1>1. Init => NoLostWakeup
  BY DEF Init, NoLostWakeup
<1> QED
  BY <1>1, TypeCorrect, StepWakeup, PTL DEF Spec

----------------------------------------------------------------------------
(* Without a listener, no write to the pipe comes too late.                *)

\* The poster whose function is in the slot is still in its call.
SlotOwned ==
    /\ m_post_fn # None => pc[m_post_fn] \in {"post_write", "wait_fn"}
    /\ loop_pc = "fn" => m_post_fn # None

WakeInv == CountInv /\ OneWakeup /\ SlotOwned

LEMMA StepSlotOwned == TypeOK /\ ExitedAtZero /\ SlotOwned /\ [Next]_vars => SlotOwned'
<1> SUFFICES ASSUME TypeOK, ExitedAtZero, SlotOwned, [Next]_vars PROVE SlotOwned'
  OBVIOUS
<1> USE DEF SlotOwned
<1>a. Async \in Posters /\ Clients \subseteq Posters /\ DOMAIN pc = Posters
  BY DEF Posters, TypeOK
\* A thread in another phase than these two moves.
<1>b. ASSUME NEW t \in Posters, pc[t] \notin {"post_write", "wait_fn"}, NEW s,
             pc' = [pc EXCEPT ![t] = s], UNCHANGED <<m_post_fn, loop_pc>>
      PROVE  SlotOwned'
  BY <1>a, <1>b DEF TypeOK
<1>1. ASSUME NEW t \in Posters, PostBegin(t) \/ PostSlotWait(t) PROVE SlotOwned'
  <2>1. TakeSlotOrSleep(t) /\ pc[t] \notin {"post_write", "wait_fn"} /\ UNCHANGED loop_pc
    BY <1>1 DEF PostBegin, PostSlotWait
  <2> QED
    BY <1>a, <2>1 DEF TakeSlotOrSleep, TypeOK
<1>2. ASSUME NEW t \in Posters, PostWrite(t), post_open PROVE SlotOwned'
  BY <1>2, <1>a DEF PostWrite, WriteByte, TypeOK
<1>3. ASSUME NEW t \in Posters, PostWrite(t), ~post_open PROVE SlotOwned'
  BY <1>3, <1>a DEF PostWrite, WriteByte, ExitedAtZero, Exited
<1>4. ASSUME NEW t \in Posters, PostWaitFn(t) PROVE SlotOwned'
  <2>1. UNCHANGED <<m_post_fn, loop_pc>>
    BY <1>4 DEF PostWaitFn, postVars
  <2>2. CASE UNCHANGED pc
    BY <2>1, <2>2
  <2>3. CASE m_post_fn # t /\ ResetRef(t, IF t = Async THEN "fn" ELSE "idle")
    <3>1. \A u \in Posters : u # t => pc'[u] = pc[u]
      BY <2>3, <1>a DEF ResetRef
    <3> QED
      BY <2>1, <2>3, <3>1 DEF TypeOK
  <2> QED
    BY <1>4, <2>2, <2>3 DEF PostWaitFn
<1>5. ASSUME NEW t \in Posters, DoneWrite(t) \/ SpuriousWakeup(t) PROVE SlotOwned'
  <2>1. CASE DoneWrite(t)
    BY <2>1, <1>b DEF DoneWrite, WriteByte
  <2>2. CASE SpuriousWakeup(t)
    BY <2>2 DEF SpuriousWakeup, postVars
  <2> QED
    BY <1>5, <2>1, <2>2
<1>6. ASSUME NEW c \in Clients, ClientDrop(c) \/ LoopGiveRef(c) PROVE SlotOwned'
  <2>1. CASE ClientDrop(c)
    BY <2>1, <1>a, <1>b DEF ClientDrop, ResetRef, postVars
  <2>2. CASE LoopGiveRef(c)
    BY <2>2 DEF LoopGiveRef, postVars
  <2> QED
    BY <1>6, <2>1, <2>2
<1>7. CASE LoopDispatch
  BY <1>7 DEF LoopDispatch, AfterRead, postVars
<1>8. CASE \/ LoopStart \/ LoopRead \/ LoopFnReturn \/ LoopClose \/ LoopBye \/ LoopDestroy
           \/ LoopDoneWrite \/ LoopNewRef \/ LoopDropRef \/ LoopDestroyServerDrop
           \/ Terminated \/ UNCHANGED vars
  BY <1>8 DEF LoopStart, LoopRead, LoopFnReturn, LoopClose, LoopBye, LoopDestroy,
     LoopDoneWrite, LoopNewRef, LoopDropRef, LoopDestroyServerDrop, Terminated, postVars, vars
<1>9. CASE LoopDestroyServer
  <2>1. UNCHANGED <<m_post_fn, loop_pc>>
    BY <1>9 DEF LoopDestroyServer, postVars
  <2>2. CASE UNCHANGED pc
    BY <2>1, <2>2
  <2>3. CASE pc[Async] = "unstarted" /\ pc' = [pc EXCEPT ![Async] = "top"]
    BY <1>a, <1>b, <2>1, <2>3
  <2> QED
    BY <1>9, <2>2, <2>3 DEF LoopDestroyServer, StartAsyncThread
<1>10. CASE AsyncTop
  <2>1. UNCHANGED <<m_post_fn, loop_pc>> /\ pc[Async] = "top"
    BY <1>10 DEF AsyncTop, postVars
  <2> QED
    BY <1>10, <1>a, <1>b, <2>1 DEF AsyncTop
<1>11. CASE AsyncFnReturn
  BY <1>11, <1>a, <1>b DEF AsyncFnReturn, ResetRef, postVars
<1> QED
  BY <1>1, <1>2, <1>3, <1>4, <1>5, <1>6, <1>7, <1>8, <1>9, <1>10, <1>11
     DEF Next, LoopStep, PosterStep

\* A posted function keeps the count above zero until it has returned.
LEMMA DoneMeansNoPost ==
    ASSUME CountInv, SlotOwned, m_num_clients = 0
    PROVE  m_post_fn = None /\ loop_pc # "fn"
<1>1. Posting = {}
  BY ZeroMeansNobody DEF CountInv
<1>2. m_post_fn = None
  BY <1>1 DEF SlotOwned, Posting, PostPhases, CountInv, TypeOK
<1> QED
  BY <1>2 DEF SlotOwned

\* Without a listener nobody can take a reference once the loop is done.
LEMMA DoneIsFinal ==
    ASSUME CountInv, SlotOwned, [Next]_vars, ~Listening, Done(m_num_clients)
    PROVE  Done(m_num_clients)'
<1> USE DEF Done
<1>a. /\ loop_refs = 0 /\ held = {} /\ Posting = {} /\ ~AsyncHolds
      /\ m_num_clients = 0 /\ m_async_fns = <<>>
  BY ZeroMeansNobody DEF CountInv
<1>b. loop_pc # "fn" /\ loop_todo # "drop"
  BY <1>a, DoneMeansNoPost DEF CountInv, ExitedAtZero
<1>1. ASSUME NEW c \in Clients, ClientDrop(c) \/ LoopGiveRef(c) PROVE FALSE
  BY <1>1, <1>a DEF ClientDrop, LoopGiveRef
<1>2. ASSUME NEW t \in Posters, PostBegin(t) PROVE FALSE
  BY <1>2, <1>a DEF PostBegin
<1>3. ASSUME NEW t \in Posters, PostSlotWait(t) \/ PostWrite(t) \/ PostWaitFn(t) PROVE FALSE
  BY <1>3, <1>a DEF PostSlotWait, PostWrite, PostWaitFn, Posting, PostPhases
<1>4. ASSUME LoopNewRef \/ LoopDropRef \/ LoopDestroyServerDrop \/ LoopDestroyServer PROVE FALSE
  BY <1>4, <1>a, <1>b DEF LoopNewRef, LoopDropRef, LoopDestroyServerDrop, LoopDestroyServer,
     LoopReset
<1>5. ASSUME NEW t \in Posters, DoneWrite(t) \/ SpuriousWakeup(t) PROVE Done(m_num_clients)'
  BY <1>5, <1>a DEF DoneWrite, SpuriousWakeup, asyncVars
<1>6. CASE \/ LoopStart \/ LoopRead \/ LoopDispatch \/ LoopFnReturn \/ LoopClose \/ LoopBye
           \/ LoopDestroy \/ LoopDoneWrite \/ Terminated \/ UNCHANGED vars
  BY <1>6, <1>a DEF LoopStart, LoopRead, LoopDispatch, LoopFnReturn, LoopClose, LoopBye,
     LoopDestroy, LoopDoneWrite, Terminated, asyncVars, vars
<1>7. CASE AsyncTop
  BY <1>7, <1>a DEF AsyncTop
<1>8. CASE AsyncFnReturn
  BY <1>8, <1>a DEF AsyncFnReturn, AsyncHolds
<1> QED
  BY <1>1, <1>2, <1>3, <1>4, <1>5, <1>6, <1>7, <1>8 DEF Next, LoopStep, PosterStep

\* The step that makes done() true finds no wake-up under way.
LEMMA LastReference ==
    ASSUME CountInv, OneWakeup, SlotOwned, CountInv', SlotOwned',
           UNCHANGED <<m_post_fn, loop_pc>>,
           m_num_clients' = m_num_clients - 1, m_num_clients' = 0
    PROVE  ~Signalled /\ loop_pc \in {"start", "read"}
<1>1. m_post_fn = None /\ loop_pc # "fn"
  <2>1. Posting' = {}
    <3>1. IsFiniteSet(Posting') /\ IsFiniteSet(held')
      <4>1. Posting' \in SUBSET Posters /\ held' \in SUBSET Clients
        BY DEF Posting, CountInv, TypeOK
      <4> QED
        BY <4>1, PostersFinite, FS_Subset
    <3>2. Cardinality(Posting') \in Nat /\ Cardinality(held') \in Nat /\ loop_refs' \in Nat
      BY <3>1, FS_CardinalityType DEF CountInv, TypeOK
    <3>3. Cardinality(Posting') = 0
      BY <3>2 DEF CountInv, RefCount
    <3> QED
      BY <3>1, <3>3, FS_EmptySet
  <2>2. m_post_fn' = None
    BY <2>1 DEF SlotOwned, Posting, PostPhases, CountInv, TypeOK
  <2> QED
    BY <2>2 DEF SlotOwned
<1>2. m_num_clients > 0
  BY DEF CountInv, TypeOK
<1>3. ~Done(m_num_clients) /\ ~Exited
  BY <1>2 DEF Done, CountInv, ExitedAtZero
<1>4. ~Signalled
  BY <1>1, <1>3 DEF OneWakeup
<1> QED
  BY <1>1, <1>3, <1>4 DEF Signalled, Exited, CountInv, TypeOK, LoopPhases

LEMMA StepOneWakeup == ~Listening /\ WakeInv /\ CountInv' /\ SlotOwned' /\ [Next]_vars
                           => OneWakeup'
<1> SUFFICES ASSUME ~Listening, WakeInv, CountInv', SlotOwned', [Next]_vars PROVE OneWakeup'
  OBVIOUS
<1> USE DEF OneWakeup
<1>a. /\ CountInv /\ OneWakeup /\ SlotOwned /\ TypeOK /\ TypeOK'
      /\ Async \in Posters /\ Clients \subseteq Posters /\ DOMAIN pc = Posters
  BY DEF WakeInv, CountInv, TypeOK, Posters
<1>b. Done(m_num_clients) => Done(m_num_clients)'
  BY <1>a, DoneIsFinal
\* Steps that signal nothing.
<1>c. ASSUME UNCHANGED <<Writers, LoopWrites, bytes, loop_pc, m_post_fn>> PROVE OneWakeup'
  BY <1>a, <1>b, <1>c DEF Signalled
<1>d. ASSUME NEW t \in Posters, pc[t] \notin {"post_write", "done_write"}, NEW s,
             pc' = [pc EXCEPT ![t] = s], s \notin {"post_write", "done_write"}
      PROVE  Writers' = Writers
  BY <1>a, <1>d DEF Writers
<1>e. ASSUME NEW t \in Posters, NEW s \in {"post_write", "done_write"},
             pc' = [pc EXCEPT ![t] = s], Writers = {}
      PROVE  Writers' = {t}
  BY <1>a, <1>e DEF Writers
\* A thread gives up a reference.
<1>f. ASSUME NEW t \in Posters, NEW next \in {"idle", "fn", "top"}, ResetRef(t, next),
             pc[t] \notin {"post_write", "done_write"}, Done(m_num_clients - 1) => Done(m_num_clients)',
             UNCHANGED <<m_post_fn, loop_pc, bytes, loop_todo>>
      PROVE  OneWakeup'
  <2>1. CASE Done(m_num_clients - 1)
    <3>1. m_num_clients' = m_num_clients - 1 /\ m_num_clients' = 0
          /\ pc' = [pc EXCEPT ![t] = "done_write"]
      BY <1>f, <2>1 DEF ResetRef, Done
    <3>2. ~Signalled /\ loop_pc \in {"start", "read"}
      BY <1>a, <1>f, <3>1, LastReference
    <3>3. Writers' = {t}
      BY <1>e, <3>1, <3>2 DEF Signalled
    <3>4. bytes' = 0 /\ ~LoopWrites'
      BY <1>a, <1>f, <3>2 DEF Signalled, LoopWrites, TypeOK
    <3> QED
      BY <1>f, <2>1, <3>2, <3>3, <3>4
  <2>2. CASE ~Done(m_num_clients - 1)
    <3>1. pc' = [pc EXCEPT ![t] = next]
      BY <1>f, <2>2 DEF ResetRef
    <3> QED
      BY <1>c, <1>d, <1>f, <3>1 DEF LoopWrites
  <2> QED
    BY <2>1, <2>2
\* A byte is written.
<1>g. ASSUME NEW t \in Writers, NEW next, next \notin {"post_write", "done_write"},
             WriteByte(t, next), UNCHANGED <<m_post_fn, m_num_clients, m_async_fns, loop_pc, loop_todo>>
      PROVE  OneWakeup'
  <2>1. loop_pc \in {"start", "read"} /\ bytes = 0 /\ ~LoopWrites /\ Writers = {t}
    BY <1>a, <1>g
  <2>2. post_open
    BY <1>a, <2>1 DEF CountInv, ExitedAtZero
  <2>3. bytes' = 1 /\ pc' = [pc EXCEPT ![t] = next] /\ t \in Posters
    BY <1>g, <2>1, <2>2 DEF WriteByte, Writers
  <2>4. Writers' = {}
    BY <1>a, <1>g, <2>1, <2>3 DEF Writers
  <2>5. Signalled
    BY <1>g DEF Signalled
  <2> QED
    BY <1>a, <1>b, <1>g, <2>1, <2>3, <2>4, <2>5 DEF LoopWrites
<1>1. ASSUME NEW t \in Posters, PostBegin(t) \/ PostSlotWait(t) PROVE OneWakeup'
  <2>1. /\ UNCHANGED <<bytes, loop_pc, loop_todo, m_async_fns>>
        /\ TakeSlotOrSleep(t) /\ pc[t] \notin {"post_write", "done_write"}
    BY <1>1 DEF PostBegin, PostSlotWait, asyncVars
  <2>2. m_num_clients > 0
    <3>1. CASE PostSlotWait(t)
      <4>1. Posting # {}
        BY <3>1 DEF PostSlotWait, Posting, PostPhases
      <4> QED
        BY <1>a, <4>1, HolderSeesLoop
    <3> QED
      BY <1>1, <3>1 DEF PostBegin
  <2>3. CASE m_post_fn # None
    <3>1. m_post_fn' = m_post_fn /\ pc' = [pc EXCEPT ![t] = "slot"]
      BY <2>1, <2>3 DEF TakeSlotOrSleep
    <3> QED
      BY <1>c, <1>d, <2>1, <3>1 DEF LoopWrites
  <2>4. CASE m_post_fn = None
    <3>1. m_post_fn' = t /\ pc' = [pc EXCEPT ![t] = "post_write"]
      BY <2>1, <2>4 DEF TakeSlotOrSleep
    <3>2. ~Signalled
      BY <1>a, <2>2, <2>4 DEF Done
    <3>3. Writers' = {t}
      BY <1>e, <3>1, <3>2 DEF Signalled
    <3>4. loop_pc \in {"start", "read"}
      BY <1>a, <2>2, <2>4, <3>2 DEF Signalled, SlotOwned, CountInv, ExitedAtZero, Exited,
         TypeOK, LoopPhases
    <3>5. bytes' = 0 /\ ~LoopWrites'
      BY <1>a, <2>1, <3>2 DEF Signalled, LoopWrites, TypeOK
    <3>6. m_post_fn' # None
      BY <3>1
    <3> QED
      BY <2>1, <3>3, <3>4, <3>5, <3>6
  <2> QED
    BY <2>3, <2>4
<1>2. ASSUME NEW t \in Posters, PostWrite(t) \/ DoneWrite(t) PROVE OneWakeup'
  <2>1. t \in Writers
    BY <1>2 DEF PostWrite, DoneWrite, Writers
  <2>2. CASE PostWrite(t)
    BY <1>g, <2>1, <2>2 DEF PostWrite, asyncVars
  <2>3. CASE DoneWrite(t)
    BY <1>g, <2>1, <2>3 DEF DoneWrite, asyncVars
  <2> QED
    BY <1>2, <2>2, <2>3
<1>3. ASSUME NEW t \in Posters, PostWaitFn(t) PROVE OneWakeup'
  <2>1. UNCHANGED <<m_post_fn, loop_pc, bytes, loop_todo, m_async_fns>>
    BY <1>3 DEF PostWaitFn, postVars, asyncVars
  <2>2. CASE UNCHANGED pc
    BY <1>c, <2>1, <2>2 DEF Writers, LoopWrites
  <2>3. CASE ResetRef(t, IF t = Async THEN "fn" ELSE "idle")
    <3>1. Done(m_num_clients - 1) => Done(m_num_clients)'
      BY <2>1, <2>3 DEF ResetRef, Done
    <3>2. pc[t] \notin {"post_write", "done_write"}
      BY <1>3 DEF PostWaitFn
    <3> DEFINE next == IF t = Async THEN "fn" ELSE "idle"
    <3>3. next \in {"idle", "fn", "top"}
      OBVIOUS
    <3> QED
      BY <1>f, <2>1, <2>3, <3>1, <3>2, <3>3
  <2> QED
    BY <1>3, <2>2, <2>3 DEF PostWaitFn
<1>4. ASSUME NEW t \in Posters, SpuriousWakeup(t) PROVE OneWakeup'
  BY <1>4, <1>c DEF SpuriousWakeup, postVars, Writers, LoopWrites
<1>5. ASSUME NEW c \in Clients, ClientDrop(c) PROVE OneWakeup'
  <2>1. /\ ResetRef(c, "idle") /\ pc[c] = "idle" /\ c \in Posters
        /\ UNCHANGED <<m_post_fn, loop_pc, bytes, loop_todo, m_async_fns>>
    BY <1>5, <1>a DEF ClientDrop, postVars, asyncVars
  <2>2. Done(m_num_clients - 1) => Done(m_num_clients)'
    BY <2>1 DEF ResetRef, Done
  <2> QED
    BY <1>f, <2>1, <2>2
<1>6. ASSUME NEW c \in Clients, LoopGiveRef(c) PROVE OneWakeup'
  BY <1>6, <1>c DEF LoopGiveRef, postVars, Writers, LoopWrites
<1>7. CASE LoopStart
  BY <1>7, <1>a, <1>b DEF LoopStart, postVars, Signalled, Writers, LoopWrites
<1>8. CASE LoopRead
  <2>1. /\ bytes' = 0 /\ Writers' = {} /\ ~LoopWrites' /\ Signalled
        /\ loop_pc' = "woken" /\ m_post_fn' = m_post_fn /\ loop_pc = "read"
    BY <1>8, <1>a DEF LoopRead, Signalled, Writers, LoopWrites, TypeOK
  <2> QED
    BY <1>a, <1>b, <2>1
<1>9. CASE LoopDispatch \/ LoopClose \/ LoopBye \/ LoopDestroy
  <2>1. /\ Writers = {} /\ ~LoopWrites /\ bytes = 0
        /\ UNCHANGED <<pc, loop_todo, bytes>> /\ loop_pc' # "woken"
    BY SMTT(40), <1>9, <1>a DEF LoopDispatch, AfterRead, LoopClose, LoopBye, LoopDestroy, LoopWrites,
       CountInv, ExitedAtZero, postVars, TypeOK
  <2> QED
    BY <2>1 DEF Signalled, Writers, LoopWrites
<1>10. CASE LoopFnReturn
  <2>1. ~Done(m_num_clients)
    BY <1>10, <1>a, DoneMeansNoPost DEF LoopFnReturn, Done
  <2>2. ~Signalled
    BY <1>10, <1>a, <2>1 DEF LoopFnReturn
  <2>3. /\ Writers' = {} /\ ~LoopWrites' /\ bytes' = 0 /\ loop_pc' = "read"
    BY <1>10, <1>a, <2>2 DEF LoopFnReturn, Signalled, Writers, LoopWrites, TypeOK
  <2> QED
    BY <2>3 DEF Signalled
<1>11. CASE LoopDoneWrite
  <2>1. LoopWrites /\ bytes = 0 /\ Writers = {} /\ loop_pc \in {"start", "read"}
    BY <1>11, <1>a DEF LoopDoneWrite, LoopWrites
  <2>2. bytes' = 1 /\ Writers' = {} /\ ~LoopWrites' /\ UNCHANGED <<loop_pc, m_post_fn>>
    BY <1>11, <2>1 DEF LoopDoneWrite, LoopWrites, Writers
  <2> QED
    BY <1>a, <1>b, <2>1, <2>2 DEF Signalled
<1>12. CASE LoopNewRef
  BY <1>12, <1>c DEF LoopNewRef, postVars, Writers, LoopWrites
<1>13. CASE LoopDropRef \/ LoopDestroyServerDrop
  <2>1. LoopReset /\ UNCHANGED <<m_post_fn, bytes, loop_pc, pc, m_async_fns>>
        /\ loop_todo \in {"nothing", "drop"}
    BY <1>13 DEF LoopDropRef, LoopDestroyServerDrop, InHandler, postVars, asyncVars
  <2>2. CASE Done(m_num_clients - 1)
    <3>1. m_num_clients' = m_num_clients - 1 /\ m_num_clients' = 0 /\ loop_todo' = "done_write"
      BY <2>1, <2>2 DEF LoopReset, Done
    <3>2. ~Signalled /\ loop_pc \in {"start", "read"}
      BY <1>a, <2>1, <3>1, LastReference
    <3>3. Writers' = {} /\ bytes' = 0 /\ Done(m_num_clients)'
      BY <1>a, <2>1, <2>2, <3>1, <3>2 DEF Signalled, Writers, Done, TypeOK
    <3> QED
      BY <2>1, <3>2, <3>3
  <2>3. CASE ~Done(m_num_clients - 1)
    <3>1. loop_todo' = "nothing"
      BY <2>1, <2>3 DEF LoopReset
    <3> QED
      BY <1>c, <2>1, <3>1 DEF Writers, LoopWrites
  <2> QED
    BY <2>2, <2>3
<1>14. CASE LoopDestroyServer
  <2>1. UNCHANGED <<m_post_fn, bytes, loop_pc, LoopWrites>>
    BY <1>14 DEF LoopDestroyServer, InHandler, LoopWrites, postVars
  <2>2. Writers' = Writers
    <3>1. CASE pc[Async] = "unstarted" /\ pc' = [pc EXCEPT ![Async] = "top"]
      BY <1>a, <3>1 DEF Writers
    <3>2. CASE UNCHANGED pc
      BY <3>2 DEF Writers
    <3> QED
      BY <1>14, <3>1, <3>2 DEF LoopDestroyServer, StartAsyncThread
  <2> QED
    BY <1>c, <2>1, <2>2
<1>15. CASE AsyncTop
  <2>1. UNCHANGED <<m_post_fn, bytes, loop_pc, LoopWrites>> /\ pc[Async] = "top"
    BY <1>15 DEF AsyncTop, LoopWrites, postVars
  <2>2. Writers' = Writers
    BY <1>15, <1>a, <1>d, <2>1 DEF AsyncTop, Writers
  <2> QED
    BY <1>c, <2>1, <2>2
<1>16. CASE AsyncFnReturn
  <2>1. /\ ResetRef(Async, "top") /\ pc[Async] = "fn"
        /\ UNCHANGED <<m_post_fn, loop_pc, bytes, loop_todo, m_async_fns>>
    BY <1>16 DEF AsyncFnReturn, postVars
  <2>2. Done(m_num_clients - 1) => Done(m_num_clients)'
    BY <2>1 DEF ResetRef, Done
  <2> QED
    BY <1>a, <1>f, <2>1, <2>2
<1>17. CASE Terminated \/ UNCHANGED vars
  BY <1>17, <1>c DEF Terminated, vars, Writers, LoopWrites
<1> QED
  BY <1>1, <1>2, <1>3, <1>4, <1>5, <1>6, <1>7, <1>8, <1>9, <1>10, <1>11, <1>12,
     <1>13, <1>14, <1>15, <1>16, <1>17 DEF Next, LoopStep, PosterStep

LEMMA WakeInvariant ==
    ASSUME ~Listening
    PROVE  Spec => []WakeInv
<1>1. Init => WakeInv
  <2> SUFFICES ASSUME Init PROVE WakeInv
    OBVIOUS
  <2>1. CountInv
    BY InitCount
  <2>2. ~Signalled /\ Writers = {} /\ SlotOwned
    BY DEF Init, Signalled, Writers, LoopWrites, SlotOwned
  <2> QED
    BY <2>1, <2>2 DEF WakeInv, OneWakeup, Signalled
<1>2. WakeInv /\ [Next]_vars => WakeInv'
  <2> SUFFICES ASSUME WakeInv, [Next]_vars PROVE WakeInv'
    OBVIOUS
  <2>1. CountInv'
    BY StepCount DEF WakeInv
  <2>2. SlotOwned'
    BY StepSlotOwned DEF WakeInv, CountInv
  <2>3. OneWakeup'
    BY <2>1, <2>2, StepOneWakeup
  <2> QED
    BY <2>1, <2>2, <2>3 DEF WakeInv
<1> QED
  BY <1>1, <1>2, PTL DEF Spec

\* At most one wake-up of the loop is under way, and always for a reason.
THEOREM WakeupsDistinct ==
    ASSUME ~Listening
    PROVE  Spec => []OneWakeup
BY WakeInvariant, PTL DEF WakeInv

\* Every write to the pipe, of a posting thread or of a thread that dropped
\* the last reference, finds m_post_fd open: what the comment in loop()
\* (proxy.cpp:258-261) claims, for a loop without a listener.
THEOREM WritesFindPipeOpen ==
    ASSUME ~Listening
    PROVE  Spec => []WriteSafe
<1>1. WakeInv => WriteSafe
  BY DEF WakeInv, OneWakeup, WriteSafe, CountInv, ExitedAtZero
<1> QED
  BY <1>1, WakeInvariant, PTL

----------------------------------------------------------------------------
(* Cleanup functions: order, and nothing left when the loop exits.         *)

\* 1, 2, ..., n
UpTo(n) == [i \in 1..n |-> i]

LEMMA AppendUpTo ==
    ASSUME NEW n \in Nat
    PROVE  Append(UpTo(n), n + 1) = UpTo(n + 1)
<1>1. UpTo(n) \in Seq(Nat) /\ Len(UpTo(n)) = n
  BY DEF UpTo
<1>2. UpTo(n + 1) \in Seq(Nat) /\ Len(UpTo(n + 1)) = n + 1
  BY DEF UpTo
<1>3. \A i \in 1..(n + 1) : Append(UpTo(n), n + 1)[i] = UpTo(n + 1)[i]
  BY <1>1 DEF UpTo
<1>4. Append(UpTo(n), n + 1) \in Seq(Nat) /\ Len(Append(UpTo(n), n + 1)) = n + 1
  BY <1>1
<1> QED
  BY <1>2, <1>3, <1>4, SeqEqual

\* Joining lists is associative.
LEMMA Associative ==
    ASSUME NEW s \in Seq(Nat), NEW t \in Seq(Nat), NEW r \in Seq(Nat)
    PROVE  (s \o t) \o r = s \o (t \o r)
<1>1. (s \o t) \o r \in Seq(Nat) /\ s \o (t \o r) \in Seq(Nat)
  OBVIOUS
<1>2. Len((s \o t) \o r) = Len(s \o (t \o r))
  OBVIOUS
<1>3. \A i \in 1..Len((s \o t) \o r) : ((s \o t) \o r)[i] = (s \o (t \o r))[i]
  OBVIOUS
<1> QED
  BY Zenon, <1>1, <1>2, <1>3, SeqEqual

\* Moving an element across the border of two parts of a list.
LEMMA MoveElement ==
    ASSUME NEW s \in Seq(Nat), NEW t \in Seq(Nat), NEW x \in Nat
    PROVE  /\ Append(s, x) \o <<>> \o t = s \o <<x>> \o t
           /\ t # <<>> => s \o <<Head(t)>> \o Tail(t) = s \o <<>> \o t
<1>1. s \o <<>> = s /\ <<x>> \in Seq(Nat)
  BY ConcatEmptySeq
<1>2. Append(s, x) = s \o <<x>>
  BY <1>1
<1>3. ASSUME t # <<>> PROVE s \o <<Head(t)>> \o Tail(t) = s \o <<>> \o t
  <2>1. /\ Head(t) \in Nat /\ Tail(t) \in Seq(Nat) /\ Len(Tail(t)) = Len(t) - 1
        /\ \A i \in 1..Len(Tail(t)) : Tail(t)[i] = t[i + 1]
    BY <1>3, HeadTailProperties
  <2>2. <<Head(t)>> \o Tail(t) = t
    BY <1>3, <2>1
  <2>3. <<Head(t)>> \in Seq(Nat)
    BY <2>1
  <2> QED
    <3> DEFINE h == <<Head(t)>>
    <3> DEFINE r == Tail(t)
    <3>1. s \in Seq(Nat) /\ h \in Seq(Nat) /\ r \in Seq(Nat)
      BY <2>1, <2>3
    <3> HIDE DEF h, r
    <3>2. (s \o h) \o r = s \o (h \o r)
      BY Zenon, <3>1, Associative
    <3> QED
      BY Zenon, <1>1, <2>2, <3>2 DEF h, r
<1>5. Append(s, x) \o <<>> = Append(s, x)
  BY ConcatEmptySeq
<1> QED
  BY <1>1, <1>2, <1>3, <1>5

LEMMA AppendToLast ==
    ASSUME NEW s \in Seq(Nat), NEW r \in Seq(Nat), NEW t \in Seq(Nat), NEW x \in Nat
    PROVE  s \o r \o Append(t, x) = Append(s \o r \o t, x)
<1> DEFINE p == s \o r
<1>1. p \in Seq(Nat)
  OBVIOUS
<1> HIDE DEF p
<1>2. p \o Append(t, x) \in Seq(Nat) /\ Append(p \o t, x) \in Seq(Nat)
  BY <1>1
<1>3. Len(p \o Append(t, x)) = Len(Append(p \o t, x))
  BY <1>1
<1>4. \A i \in 1..Len(p \o Append(t, x)) : (p \o Append(t, x))[i] = Append(p \o t, x)[i]
  BY <1>1
<1>5. p \o Append(t, x) = Append(p \o t, x)
  BY <1>2, <1>3, <1>4, SeqEqual
<1> QED
  BY Zenon, <1>5 DEF p

LEMMA NumbersPositive ==
    ASSUME NEW s \in Seq(Nat), NEW t \in Seq(Nat), t # <<>>, NEW n \in Nat,
           s \o t = UpTo(n)
    PROVE  Head(t) # 0
<1>1. Len(t) \in Nat \ {0} /\ Len(s) \in Nat /\ Head(t) = t[1]
  BY EmptySeq, LenProperties
<1>2. Len(UpTo(n)) = n /\ \A i \in 1..n : UpTo(n)[i] = i
  BY DEF UpTo
<1>3. n = Len(s) + Len(t) /\ (s \o t)[Len(s) + 1] = t[1]
  BY <1>1, <1>2, ConcatProperties
<1> QED
  BY <1>1, <1>2, <1>3

AsyncRunning == async_fn # 0 <=> AsyncHolds

CleanupInv == CountInv /\ CleanupsInOrder /\ AsyncRunning

LEMMA NextCleanupPositive ==
    ASSUME TypeOK, CleanupsInOrder, m_async_fns # <<>>
    PROVE  Head(m_async_fns) # 0
<1> DEFINE s == finished \o (IF async_fn = 0 THEN <<>> ELSE <<async_fn>>)
<1>1. s \in Seq(Nat) /\ m_async_fns \in Seq(Nat) /\ registered \in Nat
  BY DEF TypeOK
<1>2. s \o m_async_fns = UpTo(registered)
  BY DEF CleanupsInOrder, UpTo
<1> HIDE DEF s
<1> QED
  BY <1>1, <1>2, NumbersPositive

LEMMA StepAsyncRunning ==
    ASSUME CountInv, CleanupsInOrder, AsyncRunning, [Next]_vars
    PROVE  AsyncRunning'
<1> USE DEF AsyncRunning
<1>a. Async \in Posters /\ DOMAIN pc = Posters /\ CountInv /\ TypeOK /\ Async \notin Clients
  BY DEF CountInv, TypeOK, Posters
\* Another thread moves, or Async moves among the phases that hold.
<1>b. ASSUME NEW t \in Posters, NEW s, pc' = [pc EXCEPT ![t] = s], UNCHANGED async_fn,
             t = Async => (s \in PostPhases \union {"fn"} <=> AsyncHolds)
      PROVE  AsyncRunning'
  BY <1>a, <1>b DEF AsyncHolds
<1>c. ASSUME UNCHANGED <<pc, async_fn>> PROVE AsyncRunning'
  BY <1>c DEF AsyncHolds
<1>1. ASSUME NEW c \in Clients, ClientDrop(c) PROVE AsyncRunning'
  <2>1. c \in Posters /\ c # Async /\ UNCHANGED async_fn
    BY <1>1, <1>a DEF ClientDrop, asyncVars, Posters
  <2> QED
    BY <1>1, <1>b, <2>1 DEF ClientDrop, ResetRef
<1>2. ASSUME NEW t \in Posters, PostBegin(t) \/ PostSlotWait(t) PROVE AsyncRunning'
  <2>1. TakeSlotOrSleep(t) /\ UNCHANGED async_fn /\ (t = Async => AsyncHolds)
    BY <1>2 DEF PostBegin, PostSlotWait, asyncVars, AsyncHolds, PostPhases
  <2> QED
    BY <1>b, <2>1 DEF TakeSlotOrSleep, PostPhases
<1>3. ASSUME NEW t \in Posters, PostWrite(t) PROVE AsyncRunning'
  <2>1. t \in Posting /\ UNCHANGED async_fn /\ (t = Async => AsyncHolds)
    BY <1>3 DEF PostWrite, asyncVars, AsyncHolds, PostPhases, Posting
  <2>2. pc' = [pc EXCEPT ![t] = "wait_fn"]
    BY <1>3, <1>a, <2>1, HolderSeesLoop DEF PostWrite, WriteByte
  <2> QED
    BY <1>b, <2>1, <2>2 DEF PostPhases
<1>4. ASSUME NEW t \in Posters, PostWaitFn(t) PROVE AsyncRunning'
  <2>1. UNCHANGED async_fn /\ pc[t] = "wait_fn" /\ (t = Async => AsyncHolds)
    BY <1>4 DEF PostWaitFn, asyncVars, AsyncHolds, PostPhases
  <2>2. CASE ResetRef(t, IF t = Async THEN "fn" ELSE "idle")
    <3>1. t = Async => m_num_clients - 1 # 0
      <4> SUFFICES ASSUME t = Async PROVE m_num_clients - 1 # 0
        OBVIOUS
      <4>1. Posting # {}
        BY <2>1 DEF Posting, PostPhases
      <4>2. Cardinality(Posting) \in Nat /\ Cardinality(Posting) # 0 /\ AsyncHolds
        BY <2>1, <4>1, PostingFinite
      <4>3. Cardinality(held) \in Nat /\ loop_refs \in Nat
        BY <1>a, HeldFinite DEF TypeOK
      <4> QED
        BY <4>2, <4>3 DEF CountInv, RefCount
    <3>2. PICK s \in {"done_write", "fn", "idle"} :
              pc' = [pc EXCEPT ![t] = s] /\ (t = Async => s = "fn")
      BY <2>2, <3>1 DEF ResetRef, Done
    <3> QED
      BY <1>b, <2>1, <3>2
  <2>3. CASE UNCHANGED pc
    BY <1>c, <2>1, <2>3
  <2> QED
    BY <1>4, <2>2, <2>3 DEF PostWaitFn
<1>5. ASSUME NEW t \in Posters, DoneWrite(t) PROVE AsyncRunning'
  <2>1. UNCHANGED async_fn /\ (t = Async => ~AsyncHolds)
    BY <1>5 DEF DoneWrite, asyncVars, AsyncHolds, PostPhases
  <2>2. PICK s \in {"top", "idle", "failed"} : pc' = [pc EXCEPT ![t] = s]
    BY <1>5 DEF DoneWrite, WriteByte
  <2> QED
    BY <1>b, <2>1, <2>2 DEF PostPhases
<1>6. CASE (\E c \in Clients : LoopGiveRef(c)) \/ (\E t \in Posters : SpuriousWakeup(t))
  BY <1>6, <1>c DEF LoopGiveRef, SpuriousWakeup, asyncVars
<1>7. CASE \/ LoopStart \/ LoopRead \/ LoopDispatch \/ LoopFnReturn \/ LoopClose \/ LoopBye
           \/ LoopDestroy \/ LoopDoneWrite \/ LoopNewRef \/ LoopDropRef
           \/ LoopDestroyServerDrop \/ Terminated \/ UNCHANGED vars
  BY <1>7, <1>c DEF LoopStart, LoopRead, LoopDispatch, LoopFnReturn, LoopClose, LoopBye,
     LoopDestroy, LoopDoneWrite, LoopNewRef, LoopDropRef, LoopDestroyServerDrop, Terminated,
     asyncVars, vars
<1>8. CASE LoopDestroyServer
  <2>1. UNCHANGED async_fn
    BY <1>8 DEF LoopDestroyServer
  <2>2. CASE pc[Async] = "unstarted" /\ pc' = [pc EXCEPT ![Async] = "top"]
    BY <1>a, <1>b, <2>1, <2>2 DEF AsyncHolds, PostPhases
  <2> QED
    BY <1>8, <1>c, <2>1, <2>2 DEF LoopDestroyServer, StartAsyncThread
<1>9. CASE AsyncTop
  <2>1. CASE UNCHANGED async_fn /\ pc' \in {pc, [pc EXCEPT ![Async] = "exited"]}
    BY <1>9, <1>a, <1>b, <1>c, <2>1 DEF AsyncTop, AsyncHolds, PostPhases
  <2>2. CASE /\ m_async_fns # <<>> /\ async_fn' = Head(m_async_fns)
             /\ pc' = [pc EXCEPT ![Async] = "fn"]
    <3>1. AsyncHolds'
      BY <1>a, <2>2 DEF AsyncHolds
    <3>2. Head(m_async_fns) # 0
      BY <1>a, <2>2, NextCleanupPositive
    <3> QED
      BY <2>2, <3>1, <3>2
  <2> QED
    BY <1>9, <2>1, <2>2 DEF AsyncTop
<1>10. CASE AsyncFnReturn
  <2>1. async_fn' = 0
    BY <1>10 DEF AsyncFnReturn
  <2>2. ~AsyncHolds'
    BY <1>10, <1>a DEF AsyncFnReturn, ResetRef, AsyncHolds, PostPhases
  <2> QED
    BY <2>1, <2>2
<1> QED
  BY <1>1, <1>2, <1>3, <1>4, <1>5, <1>6, <1>7, <1>8, <1>9, <1>10
     DEF Next, LoopStep, PosterStep

LEMMA StepOrder ==
    ASSUME CountInv, CleanupsInOrder, AsyncRunning, [Next]_vars
    PROVE  CleanupsInOrder'
<1>a. /\ finished \in Seq(Nat) /\ m_async_fns \in Seq(Nat) /\ registered \in Nat
      /\ async_fn \in Nat /\ TypeOK /\ ExitedAtZero
  BY DEF CountInv, TypeOK
<1> DEFINE r == IF async_fn = 0 THEN <<>> ELSE <<async_fn>>
<1>b. finished \o r \o m_async_fns = UpTo(registered) /\ r \in Seq(Nat)
  <2>1. finished \o r \o m_async_fns = UpTo(registered)
    BY DEF CleanupsInOrder, UpTo
  <2>2. r \in Seq(Nat)
    BY <1>a
  <2> QED
    BY <2>1, <2>2
<1>c. ASSUME UNCHANGED <<finished, async_fn, m_async_fns, registered>> PROVE CleanupsInOrder'
  BY <1>c DEF CleanupsInOrder
<1>1. CASE LoopDestroyServer
  <2>1. /\ registered' = registered + 1 /\ UNCHANGED <<finished, async_fn>>
        /\ m_async_fns' = Append(m_async_fns, registered + 1)
    BY <1>1 DEF LoopDestroyServer, AddAsyncCleanup
  <2>2. finished \o r \o Append(m_async_fns, registered + 1) = UpTo(registered + 1)
    <3> HIDE DEF r
    <3>1. finished \o r \o Append(m_async_fns, registered + 1) =
              Append(finished \o r \o m_async_fns, registered + 1)
      <4> DEFINE next == registered + 1
      <4>1. /\ finished \in Seq(Nat) /\ r \in Seq(Nat) /\ m_async_fns \in Seq(Nat)
            /\ next \in Nat
        BY <1>a, <1>b
      <4> HIDE DEF next
      <4>2. finished \o r \o Append(m_async_fns, next) = Append(finished \o r \o m_async_fns, next)
        BY ONLY <4>1, AppendToLast
      <4> QED
        BY <4>2 DEF next
    <3> QED
      BY <1>a, <1>b, <3>1, AppendUpTo
  <2> QED
    BY <2>1, <2>2 DEF CleanupsInOrder, UpTo
<1>2. CASE AsyncTop
  <2>1. CASE UNCHANGED <<finished, async_fn, m_async_fns, registered>>
    BY <1>c, <2>1
  <2>2. CASE /\ m_async_fns # <<>> /\ m_async_fns' = Tail(m_async_fns)
             /\ async_fn' = Head(m_async_fns) /\ UNCHANGED <<finished, registered>>
    <3>1. async_fn = 0
      BY <1>2 DEF AsyncTop, AsyncRunning, AsyncHolds, PostPhases
    <3>2. async_fn' # 0
      BY <1>a, <2>2, NextCleanupPositive
    <3>3. finished \o <<Head(m_async_fns)>> \o Tail(m_async_fns) = finished \o <<>> \o m_async_fns
      BY <1>a, <2>2, MoveElement
    <3>4. finished \o <<>> \o m_async_fns = UpTo(registered)
      BY <1>b, <3>1
    <3> QED
      BY <2>2, <3>2, <3>3, <3>4 DEF CleanupsInOrder, UpTo
  <2> QED
    BY <1>2, <2>1, <2>2 DEF AsyncTop, AsyncPop
<1>3. CASE AsyncFnReturn
  <2>1. /\ async_fn # 0 /\ finished' = Append(finished, async_fn) /\ async_fn' = 0
        /\ UNCHANGED <<m_async_fns, registered>>
    BY <1>3 DEF AsyncFnReturn, AsyncRunning, AsyncHolds
  <2>2. Append(finished, async_fn) \o <<>> \o m_async_fns = finished \o <<async_fn>> \o m_async_fns
    BY <1>a, MoveElement
  <2>3. finished \o <<async_fn>> \o m_async_fns = UpTo(registered)
    BY <1>b, <2>1
  <2> QED
    BY <2>1, <2>2, <2>3 DEF CleanupsInOrder, UpTo
<1>4. CASE LoopBye
  BY <1>4, <1>a, <1>c DEF LoopBye, ExitedAtZero, Exited
<1>5. CASE \/ LoopStart \/ LoopRead \/ LoopDispatch \/ LoopFnReturn \/ LoopClose
           \/ LoopDestroy \/ LoopDoneWrite \/ LoopNewRef \/ LoopDropRef
           \/ LoopDestroyServerDrop \/ Terminated \/ UNCHANGED vars
  BY <1>5, <1>c DEF LoopStart, LoopRead, LoopDispatch, LoopFnReturn, LoopClose,
     LoopDestroy, LoopDoneWrite, LoopNewRef, LoopDropRef, LoopDestroyServerDrop, Terminated,
     asyncVars, vars
<1>6. CASE \E c \in Clients : ClientDrop(c) \/ LoopGiveRef(c)
  BY <1>6, <1>c DEF ClientDrop, LoopGiveRef, asyncVars
<1>7. CASE \E t \in Posters : PosterStep(t) \/ PostBegin(t) \/ SpuriousWakeup(t)
  BY <1>7, <1>c DEF PosterStep, PostBegin, PostSlotWait, PostWrite, PostWaitFn, DoneWrite,
     SpuriousWakeup, asyncVars
<1> QED
  BY <1>1, <1>2, <1>3, <1>4, <1>5, <1>6, <1>7 DEF Next, LoopStep

LEMMA CleanupInvariant == Spec => []CleanupInv
<1>1. Init => CleanupInv
  <2> SUFFICES ASSUME Init PROVE CleanupInv
    OBVIOUS
  <2>1. CountInv
    BY InitCount
  <2>2. CleanupsInOrder
    BY ConcatEmptySeq DEF Init, CleanupsInOrder
  <2>3. AsyncRunning
    BY DEF Init, AsyncRunning, AsyncHolds, PostPhases, Posters
  <2> QED
    BY <2>1, <2>2, <2>3 DEF CleanupInv
<1>2. CleanupInv /\ [Next]_vars => CleanupInv'
  <2> SUFFICES ASSUME CleanupInv, [Next]_vars PROVE CleanupInv'
    OBVIOUS
  <2> USE DEF CleanupInv
  <2>1. CountInv'
    BY StepCount
  <2> QED
    BY <2>1, StepAsyncRunning, StepOrder
<1> QED
  BY <1>1, <1>2, PTL DEF Spec

\* Cleanup functions run in the order they were registered, each once: the
\* promise of the comment in addAsyncCleanup (proxy.cpp:180-187).
THEOREM CleanupsRunInOrder == Spec => []CleanupsInOrder
BY CleanupInvariant, PTL DEF CleanupInv

\* loop() returns only after every post() returned, every reference is gone
\* and every registered cleanup function completed; with it the assertions
\* of ~EventLoop hold (proxy.cpp:217-221).
THEOREM LoopExitsClean == Spec => []ExitClean
<1>1. CleanupInv => ExitClean
  <2> SUFFICES ASSUME CleanupInv, Exited
               PROVE  /\ m_post_fn = None /\ m_num_clients = 0
                      /\ held = {} /\ Posting = {} /\ Len(finished) = registered
    BY DEF ExitClean, Exited
  <2>1. m_post_fn = None /\ m_num_clients = 0 /\ m_async_fns = <<>> /\ TypeOK /\ RefCount
    BY DEF CleanupInv, CountInv, ExitedAtZero
  <2>2. held = {} /\ Posting = {} /\ async_fn = 0
    BY <2>1, ZeroMeansNobody DEF CleanupInv, AsyncRunning
  <2>3. finished \in Seq(Nat) /\ registered \in Nat
    BY <2>1 DEF TypeOK
  <2>4. finished \o <<>> \o <<>> = UpTo(registered)
    BY <2>1, <2>2 DEF CleanupInv, CleanupsInOrder, UpTo
  <2>5. finished = UpTo(registered)
    BY <2>3, <2>4, ConcatEmptySeq
  <2>6. Len(UpTo(registered)) = registered
    BY <2>3 DEF UpTo
  <2> QED
    BY <2>1, <2>2, <2>5, <2>6
<1> QED
  BY <1>1, CleanupInvariant, PTL
----------------------------------------------------------------------------
(* The steps of the loop and of the posting threads are steps of calls.    *)

\* What is needed to see it: how the slot, the phases and the loop fit.
SlotInv == CountInv /\ SlotOwned

LEMMA SlotInvariant == Spec => []SlotInv
<1>1. Init => SlotInv
  BY InitCount DEF Init, SlotInv, SlotOwned
<1>2. SlotInv /\ [Next]_vars => SlotInv'
  BY StepCount, StepSlotOwned DEF SlotInv, CountInv
<1> QED
  BY <1>1, <1>2, PTL DEF Spec

\* The abstract state in terms of each call.
LEMMA SameCalls ==
    ASSUME \A t \in Posters : (CallPhase(t))' = CallPhase(t)
    PROVE  UNCHANGED CallOf
BY DEF CallOf

\* One call moves.
LEMMA MovesCall ==
    ASSUME NEW t \in Posters, NEW p, (CallPhase(t))' = p,
           \A u \in Posters \ {t} : (CallPhase(u))' = CallPhase(u)
    PROVE  CallOf' = [CallOf EXCEPT ![t] = p]
BY DEF CallOf

\* Nothing a call depends on has changed.
LEMMA CallsFrame ==
    ASSUME UNCHANGED <<pc, m_post_fn>>, loop_pc' = "fn" <=> loop_pc = "fn"
    PROVE  UNCHANGED CallOf
BY DEF CallOf, CallPhase

\* A thread moves outside post().
LEMMA OutsidePost ==
    ASSUME NEW t \in Posters, NEW s, DOMAIN pc = Posters, pc' = [pc EXCEPT ![t] = s],
           pc[t] \notin PostPhases, s \notin PostPhases, UNCHANGED <<m_post_fn, loop_pc>>
    PROVE  UNCHANGED CallOf
BY DEF CallOf, CallPhase

\* Taking the slot, or waiting for it, at any time: the call waits.
LEMMA SlotTaken ==
    ASSUME SlotInv, NEW t \in Posters, TakeSlotOrSleep(t), UNCHANGED loop_pc
    PROVE  /\ (CallPhase(t))' = "waiting"
           /\ \A u \in Posters \ {t} : (CallPhase(u))' = CallPhase(u)
<1>1. DOMAIN pc = Posters /\ (loop_pc = "fn" => m_post_fn # None)
  BY DEF SlotInv, CountInv, TypeOK, SlotOwned
<1>2. CASE m_post_fn = None
  <2>1. m_post_fn' = t /\ pc' = [pc EXCEPT ![t] = "post_write"] /\ loop_pc' # "fn"
    BY <1>1, <1>2 DEF TakeSlotOrSleep
  <2> QED
    BY <1>1, <1>2, <2>1 DEF CallPhase, PostPhases
<1>3. CASE m_post_fn # None
  <2>1. m_post_fn' = m_post_fn /\ pc' = [pc EXCEPT ![t] = "slot"]
    BY <1>3 DEF TakeSlotOrSleep
  <2> QED
    BY <1>1, <2>1 DEF CallPhase, PostPhases
<1> QED
  BY <1>2, <1>3

\* Steps of a call of post().
LEMMA PostStepIsCall ==
    ASSUME SlotInv, NEW t \in Posters,
           PostBegin(t) \/ PostSlotWait(t) \/ PostWrite(t) \/ PostWaitFn(t)
    PROVE  \/ Calls!Call(t) \/ Calls!Return(t)
           \/ UNCHANGED CallOf
<1>a. DOMAIN pc = Posters
  BY DEF SlotInv, CountInv, TypeOK
<1>1. CASE PostBegin(t)
  <2>1. CallPhase(t) = "none" /\ (CallPhase(t))' = "waiting"
        /\ \A u \in Posters \ {t} : (CallPhase(u))' = CallPhase(u)
    BY <1>1, SlotTaken DEF PostBegin, CallPhase, PostPhases
  <2>2. Calls!Call(t)
    BY <2>1, MovesCall DEF CallOf, Calls!Call
  <2> QED
    BY <2>2
<1>2. CASE PostSlotWait(t)
  <2>1. CallPhase(t) = "waiting" /\ (CallPhase(t))' = "waiting"
        /\ \A u \in Posters \ {t} : (CallPhase(u))' = CallPhase(u)
    BY <1>2, SlotTaken DEF PostSlotWait, CallPhase, PostPhases
  <2> QED
    BY <2>1, SameCalls
<1>3. CASE PostWrite(t)
  <2>1. post_open
    BY <1>3, HolderSeesLoop DEF PostWrite, Posting, PostPhases, SlotInv
  <2>2. pc[t] = "post_write" /\ pc' = [pc EXCEPT ![t] = "wait_fn"]
        /\ UNCHANGED <<m_post_fn, loop_pc>>
    BY <1>3, <2>1 DEF PostWrite, WriteByte
  <2> QED
    BY <1>a, <2>2 DEF CallOf, CallPhase, PostPhases
<1>4. CASE PostWaitFn(t) /\ m_post_fn = t
  BY <1>4, CallsFrame DEF PostWaitFn, postVars
<1>5. CASE PostWaitFn(t) /\ m_post_fn # t
  <2>1. PICK s : pc' = [pc EXCEPT ![t] = s] /\ s \in {"done_write", "fn", "idle"}
    BY <1>5 DEF PostWaitFn, ResetRef
  <2>2. pc[t] = "wait_fn" /\ UNCHANGED <<m_post_fn, loop_pc>>
    BY <1>5 DEF PostWaitFn, postVars
  <2>3. CallPhase(t) = "returning" /\ (CallPhase(t))' = "none"
        /\ \A u \in Posters \ {t} : (CallPhase(u))' = CallPhase(u)
    BY <1>a, <1>5, <2>1, <2>2 DEF CallPhase, PostPhases
  <2>4. Calls!Return(t)
    BY <2>3, MovesCall DEF CallOf, Calls!Return
  <2> QED
    BY <2>4
<1> QED
  BY <1>1, <1>2, <1>3, <1>4, <1>5

\* The critical section after a byte has been read: the posted function starts.
LEMMA DispatchIsRun ==
    ASSUME SlotInv, LoopDispatch
    PROVE  (\E t \in Posters : Calls!Run(t)) \/ UNCHANGED CallOf
<1>1. CASE m_post_fn = None
  BY <1>1, CallsFrame DEF LoopDispatch, AfterRead, postVars
<1>2. CASE m_post_fn # None
  <2>1. m_post_fn \in Posters /\ pc[m_post_fn] \in {"post_write", "wait_fn"}
    BY <1>2 DEF SlotInv, SlotOwned, CountInv, TypeOK
  <2>2. loop_pc = "woken" /\ loop_pc' = "fn" /\ UNCHANGED <<pc, m_post_fn>>
    BY <1>2 DEF LoopDispatch, AfterRead, postVars
  <2>3. CallPhase(m_post_fn) = "waiting" /\ (CallPhase(m_post_fn))' = "running"
    BY <2>1, <2>2 DEF CallPhase, PostPhases
  <2>4. \A u \in Posters : u # m_post_fn => (CallPhase(u))' = CallPhase(u)
    BY <2>2 DEF CallPhase
  <2>5. \A u \in Posters : CallPhase(u) # "running"
    BY <2>2 DEF CallPhase
  <2>6. ASSUME NEW t \in Posters, t = m_post_fn PROVE Calls!Run(t)
    BY <2>2, <2>3, <2>4, <2>5, <2>6, MovesCall DEF CallOf, Calls!Run
  <2> QED
    BY <2>1, <2>6
<1> QED
  BY <1>1, <1>2

\* The end of the posted function, which gives up the slot.
LEMMA FnReturnIsComplete ==
    ASSUME SlotInv, LoopFnReturn
    PROVE  \E t \in Posters : Calls!Complete(t)
<1>1. PICK t \in Posters : t = m_post_fn /\ pc[t] \in {"post_write", "wait_fn"}
  BY DEF LoopFnReturn, SlotInv, SlotOwned, CountInv, TypeOK
<1>2. loop_pc = "fn" /\ m_post_fn' = None /\ loop_pc' = "read" /\ UNCHANGED pc
  BY DEF LoopFnReturn
<1>3. CallPhase(t) = "running" /\ (CallPhase(t))' = "returning"
  BY <1>1, <1>2 DEF CallPhase, PostPhases
<1>4. \A u \in Posters \ {t} : (CallPhase(u))' = CallPhase(u)
  BY <1>1, <1>2 DEF CallPhase
<1> QED
  BY <1>3, <1>4, MovesCall DEF CallOf, Calls!Complete

\* The asynchronous cleanup thread, outside the calls its functions make.
LEMMA AsyncOutsidePost ==
    ASSUME SlotInv, AsyncTop \/ AsyncFnReturn \/ LoopDestroyServer
    PROVE  UNCHANGED CallOf
<1>a. Async \in Posters /\ DOMAIN pc = Posters
  BY DEF Posters, SlotInv, CountInv, TypeOK
<1>1. UNCHANGED <<m_post_fn, loop_pc>>
  BY DEF AsyncTop, AsyncFnReturn, LoopDestroyServer, postVars
<1>2. CASE UNCHANGED pc
  BY <1>1, <1>2, CallsFrame
<1>3. ASSUME NEW s \in {"top", "exited", "fn", "done_write"}, pc' = [pc EXCEPT ![Async] = s],
             pc[Async] \in {"unstarted", "top", "fn"}
      PROVE  UNCHANGED CallOf
  BY <1>a, <1>1, <1>3, OutsidePost DEF PostPhases
<1>4. CASE AsyncTop
  BY <1>2, <1>3, <1>4 DEF AsyncTop
<1>5. CASE AsyncFnReturn
  BY <1>3, <1>5 DEF AsyncFnReturn, ResetRef
<1>6. CASE LoopDestroyServer
  BY <1>2, <1>3, <1>6 DEF LoopDestroyServer, StartAsyncThread
<1> QED
  BY <1>4, <1>5, <1>6

LEMMA StepImplements ==
    ASSUME SlotInv, [Next]_vars
    PROVE  Calls!CallsNext \/ UNCHANGED CallOf
<1>a. DOMAIN pc = Posters /\ Clients \subseteq Posters
  BY DEF Posters, SlotInv, CountInv, TypeOK
<1>1. ASSUME NEW t \in Posters, PosterStep(t) \/ PostBegin(t) \/ SpuriousWakeup(t)
      PROVE  Calls!CallsNext \/ UNCHANGED CallOf
  <2>1. CASE DoneWrite(t)
    <3>1. PICK s \in {"top", "idle", "failed"} : pc' = [pc EXCEPT ![t] = s]
      BY <2>1 DEF DoneWrite, WriteByte
    <3> QED
      BY <1>a, <2>1, <3>1, OutsidePost DEF DoneWrite, PostPhases
  <2>2. CASE SpuriousWakeup(t)
    BY <2>2, CallsFrame DEF SpuriousWakeup, postVars
  <2> QED
    BY <1>1, <2>1, <2>2, PostStepIsCall DEF PosterStep, Calls!CallsNext
<1>2. ASSUME NEW c \in Clients, ClientDrop(c) \/ LoopGiveRef(c)
      PROVE  UNCHANGED CallOf
  <2>1. CASE ClientDrop(c)
    <3>1. PICK s \in {"done_write", "idle"} : pc' = [pc EXCEPT ![c] = s]
      BY <2>1 DEF ClientDrop, ResetRef
    <3> QED
      BY <1>a, <2>1, <3>1, OutsidePost DEF ClientDrop, PostPhases, postVars
  <2>2. CASE LoopGiveRef(c)
    BY <2>2, CallsFrame DEF LoopGiveRef, postVars
  <2> QED
    BY <1>2, <2>1, <2>2
<1>3. CASE \/ LoopStart \/ LoopRead \/ LoopClose \/ LoopBye \/ LoopDestroy \/ LoopDoneWrite
           \/ LoopNewRef \/ LoopDropRef \/ LoopDestroyServerDrop \/ Terminated \/ UNCHANGED vars
  <2>1. UNCHANGED <<pc, m_post_fn>>
    BY <1>3 DEF LoopStart, LoopRead, LoopClose, LoopBye, LoopDestroy, LoopDoneWrite, LoopNewRef,
       LoopDropRef, LoopDestroyServerDrop, Terminated, postVars, vars
  <2>2. loop_pc' = "fn" <=> loop_pc = "fn"
    BY <1>3 DEF LoopStart, LoopRead, LoopClose, LoopBye, LoopDestroy, LoopDoneWrite, LoopNewRef,
       LoopDropRef, LoopDestroyServerDrop, Terminated, postVars, vars
  <2> QED
    BY <2>1, <2>2, CallsFrame
<1>4. CASE LoopDispatch \/ LoopFnReturn
  BY <1>4, DispatchIsRun, FnReturnIsComplete DEF Calls!CallsNext
<1> QED
  BY <1>1, <1>2, <1>3, <1>4, AsyncOutsidePost DEF Next, LoopStep

\* EventLoop::post() keeps its promise for any number of callers, whatever else
\* the loop does and with or without a listener: every function runs once, on the
\* loop thread and alone, and no call returns before its function has completed
\* ("Does not return until function completes", proxy-io.h:261).
THEOREM PostRunsOnceAlone == Spec => Calls!CallsSafety
<1>1. Init => Calls!CallsInit
  <2> SUFFICES ASSUME Init PROVE Calls!CallsInit
    OBVIOUS
  <2>1. \A t \in Posters : CallPhase(t) = "none"
    BY DEF Init, CallPhase, PostPhases
  <2> QED
    BY <2>1 DEF CallOf, Calls!CallsInit
<1>2. SlotInv /\ [Next]_vars => [Calls!CallsNext]_CallOf
  BY StepImplements
<1> QED
  BY <1>1, <1>2, SlotInvariant, PTL DEF Spec, Calls!CallsSafety
=============================================================================
