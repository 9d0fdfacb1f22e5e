------------------------- MODULE SpawnProcessProofs -------------------------
(***************************************************************************)
(* Proofs about SpawnProcess: which descriptors of its parent a program    *)
(* can start with, for any number of threads and any limit.  The run of    *)
(* SpawnProcess finds the one beyond the loop of the child.                *)
(***************************************************************************)
EXTENDS SpawnProcess, FiniteSetTheorems, TLAPS

\* What TLAPS cannot derive about powers of two is that MaxFd is an integer.
Constants == Limit \in Nat /\ Limit >= 3 /\ None \notin Ends /\ MaxFd \in Int

\* A program starts with its own socket, and what the loop does not reach.
OnlyOwnBelowMaxFd ==
    \A t \in Spawners : child_pc[t] = "running" =>
        \A fd \in Descriptors : kept[t][fd] # None => fd = fds[t][1] \/ MaxFd <= fd

\* The parent's descriptors are sockets of threads that have not closed them.
Owned ==
    \A fd \in Descriptors : open[fd] # None =>
        \E t \in Spawners, i \in {0, 1} :
            /\ open[fd] = <<t, i>> /\ fd = fds[t][i + 1] /\ fd \notin Std
            /\ pc[t] \in {"opened", "forked", "thrown"} \/ (pc[t] = "spawned" /\ i = 1)

Tables ==
    /\ open \in [Descriptors -> Ends \union {None}]
    /\ kept \in [Spawners -> [Descriptors -> Ends \union {None}]]
    /\ fds \in [Spawners -> Descriptors \X Descriptors]
    /\ pc \in [Spawners -> {"idle", "opened", "forked", "thrown", "spawned", "released"}]
    /\ child_pc \in [Spawners -> {"none", "forked", "closing", "running", "exited"}]

\* What a child holds it had from its parent, and closes in two steps.
Children ==
    \A t \in Spawners :
        /\ child_pc[t] # "none" => pc[t] \in {"forked", "spawned", "released"}
        /\ \A fd \in Descriptors : kept[t][fd] # None => fd \notin Std
        /\ child_pc[t] = "running" =>
              \A fd \in Descriptors : kept[t][fd] # None => fd = fds[t][1] \/ MaxFd <= fd

IInv == Tables /\ Owned /\ Children

----------------------------------------------------------------------------

LEMMA InitIInv == Constants /\ Init => IInv
<1> SUFFICES ASSUME Constants, Init PROVE IInv
  OBVIOUS
<1>1. 0 \in Descriptors
  BY DEF Constants, Descriptors
<1>2. Tables
  BY <1>1 DEF Init, Tables
<1>3. Owned /\ Children
  BY DEF Init, Owned, Children
<1>4. QED
  BY <1>2, <1>3 DEF IInv

LEMMA ClosedTable ==
    ASSUME NEW table \in [Descriptors -> Ends \union {None}], NEW F
    PROVE  /\ Close(table, F) \in [Descriptors -> Ends \union {None}]
           /\ \A fd \in Descriptors : Close(table, F)[fd] # None =>
                 fd \notin F /\ Close(table, F)[fd] = table[fd]
BY DEF Close

LEMMA SocketPairStep ==
    ASSUME Constants, IInv, NEW t \in Spawners, SocketPair(t)
    PROVE  IInv'
<1>1. PICK a \in FreeIn(open), b \in FreeIn(open) :
         /\ a < b
         /\ fds' = [fds EXCEPT ![t] = <<a, b>>]
         /\ open' = [open EXCEPT ![a] = <<t, 0>>, ![b] = <<t, 1>>]
  BY DEF SocketPair
<1>2. /\ pc[t] = "idle" /\ pc' = [pc EXCEPT ![t] = "opened"]
      /\ UNCHANGED <<child_pc, kept>>
  BY DEF SocketPair, SetPc
<1>3. /\ a \in Descriptors /\ b \in Descriptors /\ a \notin Std /\ b \notin Std
      /\ a # b /\ open[a] = None /\ open[b] = None
  BY <1>1 DEF FreeIn, Descriptors, Constants
<1>4. /\ <<t, 0>> \in Ends /\ <<t, 1>> \in Ends /\ None \notin Ends
      /\ child_pc[t] = "none"
  BY <1>2 DEF Ends, Constants, IInv, Children
<1>5. Tables'
  BY <1>1, <1>2, <1>3, <1>4 DEF IInv, Tables
<1>6. /\ open'[a] = <<t, 0>> /\ open'[b] = <<t, 1>>
      /\ \A fd \in Descriptors : fd # a /\ fd # b => open'[fd] = open[fd]
      /\ fds'[t][1] = a /\ fds'[t][2] = b /\ pc'[t] = "opened"
      /\ \A u \in Spawners : u # t => fds'[u] = fds[u] /\ pc'[u] = pc[u]
  BY <1>1, <1>2, <1>3 DEF IInv, Tables
<1>7. Owned'
  <2>1. SUFFICES ASSUME NEW fd \in Descriptors, open'[fd] # None
                 PROVE  \E u \in Spawners, i \in {0, 1} :
                           /\ open'[fd] = <<u, i>> /\ fd = fds'[u][i + 1] /\ fd \notin Std
                           /\ pc'[u] \in {"opened", "forked", "thrown"} \/ (pc'[u] = "spawned" /\ i = 1)
    BY DEF Owned
  <2>2. CASE fd = a
    BY <1>3, <1>6, <2>2
  <2>3. CASE fd = b
    BY <1>3, <1>6, <2>3
  <2>4. CASE fd # a /\ fd # b
    BY <1>2, <1>6, <2>1, <2>4 DEF IInv, Owned
  <2>5. QED
    BY <2>2, <2>3, <2>4
<1>8. Children'
  BY <1>2, <1>4, <1>6 DEF IInv, Children
<1>9. QED
  BY <1>5, <1>7, <1>8 DEF IInv

LEMMA ParentSteps ==
    ASSUME Constants, IInv, NEW t \in Spawners, Fork(t) \/ ForkFails(t) \/ ParentClose(t) \/ Release(t)
    PROVE  IInv'
<1>0. fds' = fds
  BY DEF Fork, ForkFails, ParentClose, Release
<1>1. CASE Fork(t)
  <2>1. /\ pc[t] = "opened" /\ pc' = [pc EXCEPT ![t] = "forked"]
        /\ child_pc' = [child_pc EXCEPT ![t] = "forked"]
        /\ kept' = [kept EXCEPT ![t] = open] /\ open' = open
    BY <1>1 DEF Fork, SetPc, SetChild
  <2>2. Tables'
    BY <1>0, <2>1 DEF IInv, Tables
  <2>3. Owned'
    <3>1. \A u \in Spawners : pc'[u] = pc[u] \/ (pc[u] = "opened" /\ pc'[u] = "forked")
      BY <2>1 DEF IInv, Tables
    <3>2. QED
      BY <1>0, <2>1, <3>1 DEF IInv, Owned
  <2>4. Children'
    BY <1>0, <2>1 DEF IInv, Tables, Owned, Children
  <2>5. QED
    BY <2>2, <2>3, <2>4 DEF IInv
<1>2. CASE ForkFails(t)
  <2>1. /\ pc[t] = "opened" /\ pc' = [pc EXCEPT ![t] = "thrown"]
        /\ UNCHANGED <<open, child_pc, kept>>
    BY <1>2 DEF ForkFails, SetPc
  <2>2. /\ pc' \in [Spawners -> {"idle", "opened", "forked", "thrown", "spawned", "released"}]
        /\ \A u \in Spawners : pc'[u] = pc[u] \/ (pc[u] = "opened" /\ pc'[u] = "thrown")
    BY <2>1 DEF IInv, Tables
  <2>3. Tables' /\ Children'
    BY <1>0, <2>1, <2>2 DEF IInv, Tables, Children
  <2>4. Owned'
    BY <1>0, <2>1, <2>2 DEF IInv, Owned
  <2>5. QED
    BY <2>3, <2>4 DEF IInv
<1>3. CASE ParentClose(t) \/ Release(t)
  <2>1. PICK i \in {1, 2} :
           /\ \/ i = 1 /\ pc[t] = "forked" /\ pc' = [pc EXCEPT ![t] = "spawned"]
              \/ i = 2 /\ pc[t] = "spawned" /\ pc' = [pc EXCEPT ![t] = "released"]
           /\ open' = Close(open, {fds[t][i]}) /\ UNCHANGED <<child_pc, kept>>
    BY <1>3 DEF ParentClose, Release, SetPc
  <2>2. /\ open' \in [Descriptors -> Ends \union {None}]
        /\ \A fd \in Descriptors : open'[fd] # None => fd # fds[t][i] /\ open'[fd] = open[fd]
    BY <2>1, ClosedTable DEF IInv, Tables
  <2>3. Tables'
    BY <1>0, <2>1, <2>2 DEF IInv, Tables
  <2>4. Owned'
    <3>1. SUFFICES ASSUME NEW fd \in Descriptors, open'[fd] # None
                   PROVE  \E u \in Spawners, j \in {0, 1} :
                             /\ open'[fd] = <<u, j>> /\ fd = fds[u][j + 1] /\ fd \notin Std
                             /\ pc'[u] \in {"opened", "forked", "thrown"} \/ (pc'[u] = "spawned" /\ j = 1)
      BY <1>0 DEF Owned
    <3>2. PICK u \in Spawners, j \in {0, 1} :
             /\ open[fd] = <<u, j>> /\ fd = fds[u][j + 1] /\ fd \notin Std
             /\ pc[u] \in {"opened", "forked", "thrown"} \/ (pc[u] = "spawned" /\ j = 1)
      BY <2>2, <3>1 DEF IInv, Owned
    <3>3. CASE u # t
      BY <2>1, <2>2, <3>1, <3>2, <3>3 DEF IInv, Tables
    <3>4. CASE u = t
      <4>1. fd # fds[t][i]
        BY <2>2, <3>1
      <4>2. i = 1 /\ j = 1 /\ pc'[t] = "spawned"
        BY <2>1, <3>2, <3>4, <4>1 DEF IInv, Tables
      <4>3. QED
        BY <2>2, <3>1, <3>2, <3>4, <4>2
    <3>5. QED
      BY <3>3, <3>4
  <2>5. Children'
    BY <1>0, <2>1 DEF IInv, Tables, Children
  <2>6. QED
    BY <2>3, <2>4, <2>5 DEF IInv
<1>4. QED
  BY <1>1, <1>2, <1>3

LEMMA ChildSteps ==
    ASSUME Constants, IInv, NEW t \in Spawners,
           ChildClose(t) \/ ChildCloseAll(t) \/ ChildExit(t) \/ WaitProcess(t)
    PROVE  IInv'
<1>0. UNCHANGED <<fds, open>>
  BY DEF ChildClose, ChildCloseAll, ChildExit, WaitProcess
<1> DEFINE Rest == {fd \in Descriptors : 3 <= fd /\ fd < MaxFd} \ {fds[t][1]}
<1>1. ASSUME NEW F, NEW p \in {"closing", "running", "exited"},
             kept' = [kept EXCEPT ![t] = Close(kept[t], F)],
             child_pc[t] # "none", child_pc' = [child_pc EXCEPT ![t] = p], pc' = pc,
             p = "running" => F = Rest
      PROVE  IInv'
  <2>2. /\ Close(kept[t], F) \in [Descriptors -> Ends \union {None}]
        /\ \A fd \in Descriptors : Close(kept[t], F)[fd] # None => fd \notin F /\ kept[t][fd] # None
    BY ClosedTable DEF IInv, Tables
  <2>3. Tables'
    BY <1>0, <1>1, <2>2 DEF IInv, Tables
  <2>4. Owned'
    BY <1>0, <1>1 DEF IInv, Owned
  <2>5. /\ kept'[t] = Close(kept[t], F) /\ child_pc'[t] = p
        /\ \A u \in Spawners : u # t => kept'[u] = kept[u] /\ child_pc'[u] = child_pc[u]
    BY <1>1 DEF IInv, Tables
  <2>6. p = "running" => \A fd \in Descriptors : kept'[t][fd] # None => fd = fds[t][1] \/ MaxFd <= fd
    <3>1. SUFFICES ASSUME p = "running", NEW fd \in Descriptors, kept'[t][fd] # None, fd # fds[t][1]
                   PROVE  MaxFd <= fd
      OBVIOUS
    <3>2. fd \notin F /\ fd \notin Std
      BY <2>2, <2>5, <3>1 DEF IInv, Children
    <3>3. fd \in Nat /\ 3 <= fd
      BY <3>2 DEF Descriptors, Std, Constants
    <3>4. ~(fd < MaxFd)
      BY <1>1, <3>1, <3>2, <3>3
    <3>5. MaxFd \in Int
      BY DEF Constants
    <3>6. QED
      BY <3>3, <3>4, <3>5
  <2>7. Children'
    BY <1>0, <1>1, <2>2, <2>5, <2>6 DEF IInv, Children
  <2>8. QED
    BY <2>3, <2>4, <2>7 DEF IInv
<1>2. CASE ChildExit(t)
  BY <1>0, <1>2 DEF ChildExit, SetChild, IInv, Tables, Owned, Children
<1>3. CASE WaitProcess(t)
  <2>1. /\ pc[t] = "released" /\ pc' = [pc EXCEPT ![t] = "idle"]
        /\ child_pc' = [child_pc EXCEPT ![t] = "none"]
        /\ kept' = [kept EXCEPT ![t] = [fd \in Descriptors |-> None]]
    BY <1>3 DEF WaitProcess, SetPc, SetChild
  <2>2. Tables'
    BY <1>0, <2>1 DEF IInv, Tables
  <2>3. Owned'
    BY <1>0, <2>1 DEF IInv, Tables, Owned
  <2>4. Children'
    BY <1>0, <2>1 DEF IInv, Tables, Children
  <2>5. QED
    BY <2>2, <2>3, <2>4 DEF IInv
<1>4. CASE ChildClose(t)
  <2>1. /\ kept' = [kept EXCEPT ![t] = Close(kept[t], {fds[t][2]})]
        /\ child_pc[t] # "none" /\ child_pc' = [child_pc EXCEPT ![t] = "closing"] /\ pc' = pc
    BY <1>4 DEF ChildClose, SetChild
  <2>2. QED
    BY <1>1, <2>1
<1>5. CASE ChildCloseAll(t)
  <2> HIDE DEF Rest
  <2>1. /\ kept' = [kept EXCEPT ![t] = Close(kept[t], Rest)]
        /\ child_pc[t] # "none" /\ pc' = pc
    BY <1>5 DEF ChildCloseAll, Rest
  <2>2. PICK p \in {"running", "exited"} : child_pc' = [child_pc EXCEPT ![t] = p]
    BY <1>5 DEF ChildCloseAll, SetChild
  <2>3. QED
    BY <1>1, <2>1, <2>2
<1>6. QED
  BY <1>2, <1>3, <1>4, <1>5

LEMMA StepIInv == Constants /\ IInv /\ [Next]_vars => IInv'
<1> SUFFICES ASSUME Constants, IInv, [Next]_vars PROVE IInv'
  OBVIOUS
<1>1. CASE Next
  BY <1>1, SocketPairStep, ParentSteps, ChildSteps DEF Next
<1>2. CASE UNCHANGED vars
  BY <1>2 DEF vars, IInv, Tables, Owned, Children
<1>3. QED
  BY <1>1, <1>2

THEOREM Inductive == ASSUME Constants PROVE Spec => []IInv
<1>1. Init => IInv
  BY InitIInv
<1>2. IInv /\ [Next]_vars => IInv'
  BY StepIInv
<1>3. QED
  BY <1>1, <1>2, PTL DEF Spec

\* Whatever other threads have open when a process is forked, its program starts
\* with no descriptor of theirs below the bound of the loop that closes them
\* (SpawnProcess, "Child process must close all potentially open descriptors").
THEOREM LoopClosesOthers == ASSUME Constants PROVE Spec => []OnlyOwnBelowMaxFd
<1>1. IInv => OnlyOwnBelowMaxFd
  BY DEF IInv, Children, OnlyOwnBelowMaxFd
<1>2. QED
  BY <1>1, Inductive, PTL
----------------------------------------------------------------------------
(* The last descriptors are not reached where there are enough of them.    *)

\* Threads have two sockets each, and an int can hold the limit.
Room ==
    /\ IsFiniteSet(Spawners)
    /\ 2 * Cardinality(Spawners) + 3 < Limit
    /\ MaxFd = Limit - 1

Low == {fd \in Descriptors : fd < MaxFd}

\* What is open, in the parent and so in its children, is low.
AllLow ==
    /\ \A fd \in Descriptors : open[fd] # None => fd \in Low
    /\ \A t \in Spawners, fd \in Descriptors : kept[t][fd] # None => fd \in Low

\* Pigeons are the descriptors below the new ones, holes the other threads' ends.
LEMMA LowestFree ==
    ASSUME Constants, Room, IInv, NEW t \in Spawners, pc[t] = "idle",
           NEW a \in FreeIn(open), NEW b \in FreeIn(open), a < b,
           \A fd \in FreeIn(open) : fd = a \/ b <= fd
    PROVE  a \in Low /\ b \in Low
<1> DEFINE Pigeons == (3..(b - 1)) \ {a}
           Others == Spawners \ {t}
           Holes == Others \X {0, 1}
           end == [fd \in Pigeons |-> open[fd]]
<1>1. /\ a \in Descriptors /\ b \in Descriptors /\ a \in Nat /\ b \in Nat /\ 3 <= a /\ 3 <= b
      /\ Limit \in Nat /\ b < Limit
  BY DEF FreeIn, Descriptors, Std, Constants
<1>2. IsFiniteSet(Pigeons) /\ Cardinality(Pigeons) = b - 4
  <2>1. IsFiniteSet(3..(b - 1)) /\ Cardinality(3..(b - 1)) = b - 3
    BY <1>1, FS_Interval
  <2>2. a \in 3..(b - 1)
    BY <1>1
  <2>3. Cardinality(Pigeons) = Cardinality(3..(b - 1)) - 1 /\ IsFiniteSet(Pigeons)
    BY ONLY <2>1, <2>2, FS_RemoveElement
  <2>4. QED
    BY <1>1, <2>1, <2>3
<1>3. IsFiniteSet(Holes) /\ Cardinality(Holes) = 2 * (Cardinality(Spawners) - 1)
  <2>1. /\ IsFiniteSet(Others) /\ Cardinality(Others) = Cardinality(Spawners) - 1
        /\ Cardinality(Spawners) \in Nat
    BY FS_RemoveElement, FS_CardinalityType DEF Room
  <2>2. IsFiniteSet({0, 1}) /\ Cardinality({0, 1}) = 2
    <3>1. IsFiniteSet({0}) /\ Cardinality({0}) = 1
      BY FS_Singleton
    <3>2. IsFiniteSet({0} \union {1}) /\ Cardinality({0} \union {1}) = 2
      BY <3>1, FS_AddElement
    <3>3. {0, 1} = {0} \union {1}
      OBVIOUS
    <3>4. QED
      BY <3>2, <3>3
  <2>3. IsFiniteSet(Holes) /\ Cardinality(Holes) = Cardinality(Others) * 2
    BY <2>1, <2>2, FS_Product
  <2>4. QED
    BY <2>1, <2>3
<1>4. \A fd \in Pigeons : \E u \in Others, i \in {0, 1} : open[fd] = <<u, i>> /\ fd = fds[u][i + 1]
  <2>1. SUFFICES ASSUME NEW fd \in Pigeons
                 PROVE  \E u \in Others, i \in {0, 1} : open[fd] = <<u, i>> /\ fd = fds[u][i + 1]
    OBVIOUS
  <2>2. fd \in Descriptors /\ fd \notin Std /\ fd # a /\ fd \in Nat /\ fd < b
    BY <1>1, <2>1 DEF Descriptors, Std
  <2>3. open[fd] # None
    BY <1>1, <2>2 DEF FreeIn
  <2>4. QED
    BY <2>2, <2>3 DEF IInv, Owned
<1>5. end \in Injection(Pigeons, Holes)
  <2>1. end \in [Pigeons -> Holes]
    <3>1. \A fd \in Pigeons : open[fd] \in Holes
      <4>1. \A u \in Others, i \in {0, 1} : <<u, i>> \in Holes
        OBVIOUS
      <4> HIDE DEF Pigeons, Holes, Others
      <4>2. QED
        BY <1>4, <4>1
    <3>2. QED
      BY <3>1
  <2>2. ASSUME NEW x \in Pigeons, NEW y \in Pigeons, end[x] = end[y]
        PROVE  x = y
    BY <1>4, <2>2
  <2>3. QED
    BY <2>1, <2>2 DEF Injection, IsInjective
<1>6. Cardinality(Pigeons) <= Cardinality(Holes)
  <2> HIDE DEF Pigeons, Holes, end
  <2>1. QED
    BY <1>3, <1>5, FS_Injection
<1>7. Cardinality(Spawners) \in Nat
  BY FS_CardinalityType DEF Room
<1>8. b < Limit - 1
  BY <1>1, <1>2, <1>3, <1>6, <1>7 DEF Room
<1>9. QED
  BY <1>1, <1>8 DEF Room, Low

LEMMA StepLow ==
    ASSUME Constants, Room, IInv, AllLow, [Next]_vars
    PROVE  AllLow'
<1>1. ASSUME NEW t \in Spawners, SocketPair(t)
      PROVE  AllLow'
  <2>1. PICK a \in FreeIn(open), b \in FreeIn(open) :
           /\ a < b /\ \A fd \in FreeIn(open) : fd = a \/ b <= fd
           /\ open' = [open EXCEPT ![a] = <<t, 0>>, ![b] = <<t, 1>>]
    BY <1>1 DEF SocketPair
  <2>2. a \in Low /\ b \in Low
    BY <1>1, <2>1, LowestFree DEF SocketPair
  <2>3. kept' = kept
    BY <1>1 DEF SocketPair
  <2>4. \A fd \in Descriptors : fd # a /\ fd # b => open'[fd] = open[fd]
    BY <2>1 DEF IInv, Tables
  <2>5. QED
    BY <2>2, <2>3, <2>4 DEF AllLow, Low
<1>2. ASSUME NEW t \in Spawners, Fork(t) \/ ForkFails(t) \/ ParentClose(t) \/ Release(t)
      PROVE  AllLow'
  <2>1. \A fd \in Descriptors : open'[fd] # None => open[fd] # None
    BY <1>2, ClosedTable DEF Fork, ForkFails, ParentClose, Release, IInv, Tables
  <2>2. CASE Fork(t)
    <3>1. kept'[t] = open /\ \A u \in Spawners : u # t => kept'[u] = kept[u]
      BY <2>2 DEF Fork, IInv, Tables
    <3>2. QED
      BY <2>1, <3>1 DEF AllLow, Low
  <2>3. CASE kept' = kept
    BY <2>1, <2>3 DEF AllLow, Low
  <2>4. QED
    BY <1>2, <2>2, <2>3 DEF ForkFails, ParentClose, Release
<1>3. ASSUME NEW t \in Spawners,
             ChildClose(t) \/ ChildCloseAll(t) \/ ChildExit(t) \/ WaitProcess(t)
      PROVE  AllLow'
  <2>1. /\ open' = open
        /\ \A u \in Spawners : u # t => kept'[u] = kept[u]
    BY <1>3 DEF ChildClose, ChildCloseAll, ChildExit, WaitProcess, IInv, Tables
  <2>2. \A fd \in Descriptors : kept'[t][fd] # None => kept[t][fd] # None
    <3>1. CASE WaitProcess(t)
      <4>1. kept'[t] = [fd \in Descriptors |-> None]
        BY <3>1 DEF WaitProcess, IInv, Tables
      <4>2. QED
        BY <4>1
    <3>2. CASE ChildExit(t)
      BY <3>2 DEF ChildExit
    <3>3. ASSUME NEW F, kept' = [kept EXCEPT ![t] = Close(kept[t], F)]
          PROVE  \A fd \in Descriptors : kept'[t][fd] # None => kept[t][fd] # None
      <4>1. kept'[t] = Close(kept[t], F)
        BY <3>3 DEF IInv, Tables
      <4>2. QED
        BY <4>1, ClosedTable DEF IInv, Tables
    <3>4. QED
      BY <1>3, <3>1, <3>2, <3>3 DEF ChildClose, ChildCloseAll
  <2>3. QED
    BY <2>1, <2>2 DEF AllLow, Low
<1>4. CASE UNCHANGED vars
  BY <1>4 DEF vars, AllLow, Low
<1>5. QED
  BY <1>1, <1>2, <1>3, <1>4 DEF Next

\* With two descriptors to spare, what the comment promises is so: "Child process
\* must close all potentially open descriptors, except socket 0".
THEOREM OnlyOwnWithRoom == ASSUME Constants, Room PROVE Spec => []OnlyOwnSocket
<1>1. Init => AllLow
  BY DEF Init, AllLow
<1>2. IInv /\ AllLow /\ [Next]_vars => AllLow'
  BY StepLow
<1>3. IInv /\ AllLow => OnlyOwnSocket
  <2> SUFFICES ASSUME IInv, AllLow, NEW t \in Spawners, child_pc[t] = "running",
                      NEW fd \in Descriptors, kept[t][fd] # None
               PROVE  fd = fds[t][1]
    BY DEF OnlyOwnSocket
  <2>1. fd < MaxFd
    BY DEF AllLow, Low
  <2>2. fd \in Int /\ MaxFd \in Int
    BY DEF Descriptors, Constants
  <2>3. QED
    BY <2>1, <2>2 DEF IInv, Children
<1>4. QED
  BY <1>1, <1>2, <1>3, Inductive, PTL DEF Spec
=============================================================================
