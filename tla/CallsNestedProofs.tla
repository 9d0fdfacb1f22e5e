--------------------------- MODULE CallsNestedProofs ---------------------------
(***************************************************************************)
(* Proofs about how calls nest in Calls: calls made from inside a method   *)
(* go back to the thread that waits for it (CallsBackToCaller), a thread   *)
(* and the worker executing its call never run at once (OneRuns), and a    *)
(* posted request finds its thread waiting (PostedIsRun), for all sets of  *)
(* threads and any number of connections and calls.                        *)
(*                                                                         *)
(* The argument: a worker is created by one call, so the threads that call *)
(* each other form a tree, in which every edge is a connection; while that *)
(* connection is up, the calls over an edge nest like those of one thread, *)
(* and the innermost one says which of the two threads runs.               *)
(***************************************************************************)
EXTENDS CallsProofs, WellFoundedInduction

----------------------------------------------------------------------------
(* The stacks.                                                             *)

Open == {"posting", "waiting", "resolved", "done"}
Executing == {"picked", "running", "returning", "answering"}

\* The calls on the stack of thread o: those it makes and those it executes.
MadeBy(o, c) == at[c] = o /\ caller[c] \in Open
RunBy(o, c) == to[c] = o /\ request[c] \in Executing
On(o, c) == \E i \in 1..Len(stack[o]) : stack[o][i] = c

\* The numbers of calls are given out in the order they begin.
Numbered == \A c, d \in Calls : caller[c] # "new" /\ d < c => caller[d] # "new"

Sorted == \A o \in OSThreads : \A i, j \in 1..Len(stack[o]) : i < j => stack[o][i] < stack[o][j]

Stacked ==
    \A o \in OSThreads : \A c \in Calls : On(o, c) <=> MadeBy(o, c) \/ RunBy(o, c)

\* The call above one the thread waits for is a call back from its callee over
\* the same connection, and the call above one it executes is made by the method.
Above(o, c, d) ==
    \/ MadeBy(o, c) /\ caller[c] # "posting" /\ RunBy(o, d) /\ at[d] = to[c] /\ via[d] = via[c]
    \/ RunBy(o, c) /\ request[c] = "running" /\ MadeBy(o, d)

Alternate ==
    \A o \in OSThreads : \A i \in 1..(Len(stack[o]) - 1) : Above(o, stack[o][i], stack[o][i + 1])

Shape == Numbered /\ Sorted /\ Stacked /\ Alternate

----------------------------------------------------------------------------
(* The tree of threads: up[w] is the thread whose call created worker w, and *)
(* the connection of that call.                                            *)

Parents == [Workers -> (OSThreads \union {None}) \X (Connections \union {0})]

ParentLink(up, o, w, k) == w \in Workers /\ made[w] # None /\ up[w] = <<o, k>>
Link(up, o, w, k) == ParentLink(up, o, w, k) \/ ParentLink(up, w, o, k)

\* The first call on a stack is made by a client thread, or is from the parent.
Bottom(up) ==
    \A o \in OSThreads : stack[o] # <<>> =>
        LET c == stack[o][1]
        IN  IF o \in Users THEN at[c] = o ELSE to[c] = o /\ up[o] = <<at[c], via[c]>>

\* Calls and entries follow the links, and the parent stays reachable.
CallLinks(up) == \A c \in Calls : to[c] # None => Link(up, at[c], to[c], via[c])
EntryLinks(up) ==
    \A o \in OSThreads, k \in Connections :
        Up(o, k) /\ Entry(o, k) # None => Link(up, o, Entry(o, k), k)
ParentEntry(up) ==
    \A w \in Workers, o \in OSThreads, k \in Connections :
        ParentLink(up, o, w, k) /\ Up(w, k) => Entry(w, k) \in {None, o}

Tree(up) == CallLinks(up) /\ EntryLinks(up) /\ ParentEntry(up)

----------------------------------------------------------------------------
(* Entries of the calls on a stack.                                        *)

\* Whether thread o has stored an entry for the call.
Registered(o, c) == IF at[c] = o THEN to[c] # None ELSE request[c] \in {"running", "returning"}

StackEntries ==
    \A o \in OSThreads, c \in Calls :
        On(o, c) /\ Registered(o, c) /\ Up(o, via[c]) => Entry(o, via[c]) = Partner(o, c)

\* A request that will be registered finds no entry for another thread.
FreeEntries ==
    \A c \in Calls : request[c] \in {"sent", "queued", "posted", "picked"} /\ There(c)
                        => Entry(to[c], via[c]) \in {None, at[c]}

\* Nothing below a request that inserted an entry on the stack needs the entry
\* that the request will remove.
InsertedAlone ==
    \A c \in inserted :
        /\ request[c] \in {"running", "returning"}
        /\ \A d \in Calls : On(to[c], d) /\ d < c =>
              \/ address[<<via[d], Side(to[c])>>] # address[<<via[c], Side(to[c])>>]
              \/ via[d] # via[c] /\ ~Up(to[c], via[d])

Entries == StackEntries /\ FreeEntries /\ InsertedAlone

----------------------------------------------------------------------------
(* Requests on their way.                                                  *)

\* Both ends of connection k are up.
Alive(k) == \A s \in Sides : <<k, s>> \in connected

\* A request that the thread it names will find, or has found, in m_fn.
Coming(c) == request[c] = "posted" \/ (request[c] \in {"sent", "queued"} /\ There(c))

\* While the connection is up, the caller of a request that is not answered waits.
Awaited ==
    \A c \in Calls :
        /\ to[c] # None /\ Alive(via[c]) => caller[c] = "waiting" \/ request[c] = "answered"
        /\ request[c] = "queued" => There(c)

\* The thread a request comes to is new to calls, or waits for a call to the
\* thread the request is from, over the same connection.
ComesTo(up, c, w) ==
    \/ w \in Workers /\ stack[w] = <<>> /\ up[w] = <<at[c], via[c]>>
    \/ /\ stack[w] # <<>> /\ MadeBy(w, Top(w))
       /\ to[Top(w)] = at[c] /\ via[Top(w)] = via[c] /\ Top(w) < c
       /\ caller[Top(w)] # "posting"
       /\ request[c] # "posted" => caller[Top(w)] = "waiting" /\ request[Top(w)] # "answered"

Expected(up) == \A c \in Calls : Coming(c) => ComesTo(up, c, to[c])

OneComing == \A c, d \in Calls : Coming(c) /\ Coming(d) /\ to[c] = to[d] => c = d

----------------------------------------------------------------------------

\* The inductive invariant, for some tree of threads.
Nested(up) ==
    /\ Shape /\ CallsBackToCaller /\ Bottom(up) /\ Tree(up)
    /\ Entries /\ Awaited /\ Expected(up) /\ OneComing

NestedInv == IInv /\ \E up \in Parents : Nested(up)

----------------------------------------------------------------------------
(* Operators.                                                              *)

\* A set of numbers up to n that is not empty has a last one.
LEMMA LastOf ==
    ASSUME NEW n \in Nat, NEW S, S \subseteq 1..n, S # {}
    PROVE  \E m \in S : \A i \in S : i <= m
<1> DEFINE T == {x \in Nat : n - x \in S}
<1>1. T # {}
  <2>1. PICK m \in S : TRUE
    OBVIOUS
  <2>2. n - m \in Nat /\ n - (n - m) = m
    BY <2>1
  <2>3. QED
    BY <2>1, <2>2
<1>2. IsWellFoundedOn(OpToRel(<, Nat), Nat)
  BY Zenon, NatLessThanWellFounded
<1>3. PICK x \in T : \A y \in T : ~(<<y, x>> \in OpToRel(<, Nat))
  BY Zenon, <1>1, <1>2, WFMin
<1>4. \A y \in T : ~(y < x)
  BY <1>3 DEF OpToRel
<1>5. n - x \in S
  OBVIOUS
<1>6. ASSUME NEW i \in S PROVE i <= n - x
  <2>1. n - i \in Nat /\ n - (n - i) = i
    OBVIOUS
  <2>2. n - i \in T
    BY <2>1
  <2>3. ~(n - i < x)
    BY <1>4, <2>2
  <2>4. QED
    BY <2>3
<1>7. QED
  BY <1>5, <1>6

LEMMA CallNumbers == Calls \subseteq Int /\ MaxCalls \in Nat /\ Calls = 1..MaxCalls
BY BoundsAssumption DEF Calls

\* What Push and Pop do to a stack.
LEMMA PushFact ==
    ASSUME TypeOK, NEW o \in OSThreads, NEW c \in Calls, Push(o, c)
    PROVE  /\ \A p \in OSThreads : p # o => stack'[p] = stack[p]
           /\ stack'[o] = Append(stack[o], c) /\ stack'[o] # <<>>
           /\ Len(stack'[o]) = Len(stack[o]) + 1 /\ Len(stack[o]) \in Nat
           /\ \A i \in 1..Len(stack[o]) : stack'[o][i] = stack[o][i]
           /\ stack'[o][Len(stack[o]) + 1] = c
           /\ Top(o)' = c
           /\ stack[o] # <<>> => Len(stack[o]) >= 1
           /\ \A p \in OSThreads, d \in Calls : On(p, d)' <=> On(p, d) \/ (p = o /\ d = c)
<1>1. stack \in [OSThreads -> Seq(Calls)] /\ stack[o] \in Seq(Calls)
  BY DEF TypeOK
<1>2. stack' = [stack EXCEPT ![o] = Append(stack[o], c)]
  BY DEF Push
<1>3. /\ \A p \in OSThreads : p # o => stack'[p] = stack[p]
      /\ stack'[o] = Append(stack[o], c)
  BY <1>1, <1>2
<1>4. /\ stack'[o] # <<>>
      /\ Len(stack'[o]) = Len(stack[o]) + 1 /\ Len(stack[o]) \in Nat
      /\ \A i \in 1..Len(stack[o]) : stack'[o][i] = stack[o][i]
      /\ stack'[o][Len(stack[o]) + 1] = c
      /\ stack[o] # <<>> => Len(stack[o]) >= 1
  BY <1>1, <1>3
<1>5. Top(o)' = c
  BY <1>4 DEF Top
<1>6. ASSUME NEW p \in OSThreads, NEW d \in Calls
      PROVE  On(p, d)' <=> On(p, d) \/ (p = o /\ d = c)
  <2>1. CASE p # o
    BY <1>3, <2>1 DEF On
  <2>2. CASE p = o
    <3>1. On(o, d)' => On(o, d) \/ d = c
      <4>1. SUFFICES ASSUME NEW i \in 1..Len(stack'[o]), stack'[o][i] = d
                     PROVE  On(o, d) \/ d = c
        BY DEF On
      <4>2. CASE i = Len(stack[o]) + 1
        BY <1>4, <4>1, <4>2
      <4>3. CASE i \in 1..Len(stack[o])
        BY <1>4, <4>1, <4>3 DEF On
      <4>4. QED
        BY <1>4, <4>2, <4>3
    <3>2. On(o, d) => On(o, d)'
      <4>1. SUFFICES ASSUME NEW i \in 1..Len(stack[o]), stack[o][i] = d
                     PROVE  On(o, d)'
        BY DEF On
      <4>2. i \in 1..Len(stack'[o]) /\ stack'[o][i] = d
        BY <1>4, <4>1
      <4>3. QED
        BY <4>2 DEF On
    <3>3. d = c => On(o, d)'
      <4>1. Len(stack[o]) + 1 \in 1..Len(stack'[o])
        BY <1>4
      <4>2. QED
        BY <1>4, <4>1 DEF On
    <3>4. QED
      BY <2>2, <3>1, <3>2, <3>3
  <2>3. QED
    BY <2>1, <2>2
<1>7. QED
  BY <1>3, <1>4, <1>5, <1>6

LEMMA PopFact ==
    ASSUME TypeOK, Sorted, NEW o \in OSThreads, stack[o] # <<>>, Pop(o)
    PROVE  /\ \A p \in OSThreads : p # o => stack'[p] = stack[p]
           /\ Len(stack[o]) \in Nat /\ Len(stack'[o]) = Len(stack[o]) - 1
           /\ \A i \in 1..(Len(stack[o]) - 1) : stack'[o][i] = stack[o][i]
           /\ stack'[o] # <<>> => Len(stack[o]) >= 2
           /\ \A p \in OSThreads, d \in Calls : On(p, d)' <=> On(p, d) /\ ~(p = o /\ d = Top(o))
<1>1. stack \in [OSThreads -> Seq(Calls)] /\ stack[o] \in Seq(Calls)
  BY DEF TypeOK
<1>2. stack' = [stack EXCEPT ![o] = SubSeq(stack[o], 1, Len(stack[o]) - 1)]
  BY DEF Pop
<1>3. /\ \A p \in OSThreads : p # o => stack'[p] = stack[p]
      /\ stack'[o] = SubSeq(stack[o], 1, Len(stack[o]) - 1)
  BY <1>1, <1>2
<1>4. /\ Len(stack[o]) \in Nat /\ Len(stack[o]) >= 1 /\ Len(stack'[o]) = Len(stack[o]) - 1
      /\ \A i \in 1..(Len(stack[o]) - 1) : stack'[o][i] = stack[o][i]
      /\ stack'[o] # <<>> => Len(stack[o]) >= 2
  <2>1. Len(stack[o]) \in Nat /\ Len(stack[o]) >= 1
    BY <1>1
  <2>2. /\ stack'[o] \in Seq(Calls) /\ Len(stack'[o]) = Len(stack[o]) - 1
        /\ \A i \in 1..(Len(stack[o]) - 1) : stack'[o][i] = stack[o][i]
    <3> DEFINE n == Len(stack[o]) - 1
    <3>1. n \in Nat /\ Len(stack[o]) = n + 1 /\ stack'[o] = SubSeq(stack[o], 1, n)
      BY <1>3, <2>1
    <3> HIDE DEF n
    <3>2. /\ SubSeq(stack[o], 1, n) \in Seq(Calls) /\ Len(SubSeq(stack[o], 1, n)) = n
          /\ \A i \in 1..n : SubSeq(stack[o], 1, n)[i] = stack[o][i]
      BY <1>1, <3>1
    <3>3. /\ stack'[o] \in Seq(Calls) /\ Len(stack'[o]) = n
          /\ \A i \in 1..n : stack'[o][i] = stack[o][i]
      BY <3>1, <3>2
    <3>4. QED
      BY <3>3 DEF n
  <2>3. stack'[o] # <<>> => Len(stack'[o]) >= 1
    BY <2>2
  <2>4. QED
    BY <2>1, <2>2, <2>3
<1>5. \A i \in 1..(Len(stack[o]) - 1) : stack[o][i] < stack[o][Len(stack[o])]
  BY <1>4 DEF Sorted
<1>6. \A i \in 1..Len(stack[o]) : stack[o][i] \in Int
  BY <1>1, CallNumbers
<1>7. ASSUME NEW p \in OSThreads, NEW d \in Calls
      PROVE  On(p, d)' <=> On(p, d) /\ ~(p = o /\ d = Top(o))
  <2>1. CASE p # o
    BY <1>3, <2>1 DEF On
  <2>2. CASE p = o
    <3>1. On(o, d)' => On(o, d) /\ d # Top(o)
      <4>1. SUFFICES ASSUME NEW i \in 1..Len(stack'[o]), stack'[o][i] = d
                     PROVE  On(o, d) /\ d # Top(o)
        BY DEF On
      <4>2. i \in 1..(Len(stack[o]) - 1) /\ i \in 1..Len(stack[o]) /\ stack[o][i] = d
        BY <1>4, <4>1
      <4>3. d < Top(o) /\ d \in Int /\ Top(o) \in Int
        BY <1>4, <1>5, <1>6, <4>2 DEF Top
      <4>4. QED
        BY <4>2, <4>3 DEF On
    <3>2. On(o, d) /\ d # Top(o) => On(o, d)'
      BY <1>4 DEF On, Top
    <3>3. QED
      BY <2>2, <3>1, <3>2
  <2>3. QED
    BY <2>1, <2>2
<1>8. QED
  BY <1>3, <1>4, <1>7

----------------------------------------------------------------------------
(* Calls, and where they are on stacks.                                    *)

\* The two threads of a call, and the two ends of its connection.
LEMMA CallFact ==
    ASSUME IInv, NEW c \in Calls, to[c] # None
    PROVE  /\ at[c] \in OSThreads /\ to[c] \in OSThreads /\ via[c] \in Connections
           /\ at[c] # to[c] /\ None \notin OSThreads
           /\ Side(at[c]) \in Sides /\ Side(to[c]) \in Sides
           /\ Side(to[c]) = Peer(Side(at[c])) /\ Side(at[c]) = Peer(Side(to[c]))
           /\ Side(at[c]) # Side(to[c])
           /\ address[<<via[c], Side(at[c])>>] \in Addresses
           /\ address[<<via[c], Side(to[c])>>] \in Addresses
           /\ Here(c) = Up(at[c], via[c]) /\ There(c) = Up(to[c], via[c])
           /\ Alive(via[c]) <=> Here(c) /\ There(c)
           /\ request[c] # "none" /\ caller[c] \notin {"new", "posting"}
<1>1. request[c] # "none" /\ caller[c] \notin {"new", "posting"}
  BY DEF IInv, Control
<1>2. /\ at[c] \in OSThreads /\ to[c] \in OSThreads /\ via[c] \in Connections
      /\ None \notin OSThreads
      /\ Side(to[c]) = Peer(Side(at[c])) /\ Side(at[c]) = Peer(Side(to[c]))
      /\ address[<<via[c], Side(to[c])>>] \in Addresses
      /\ There(c) = Up(to[c], via[c])
  BY <1>1, SentFact
<1>3. Side(at[c]) \in Sides /\ Side(to[c]) \in Sides
  BY <1>2 DEF Peer, Sides
<1>4. Side(at[c]) # Side(to[c])
  BY <1>2, <1>3 DEF Peer, Sides
<1>5. Here(c) = Up(at[c], via[c])
  BY DEF Here, Up
<1>6. Alive(via[c]) <=> Here(c) /\ There(c)
  BY <1>2, <1>3, <1>4, <1>5 DEF Alive, Up, Sides
<1>7. address[<<via[c], Side(at[c])>>] \in Addresses
  BY <1>2, <1>3 DEF IInv, TypeOK, Maps, Opposite, Ends
<1>8. QED
  BY <1>1, <1>2, <1>3, <1>4, <1>5, <1>6, <1>7

LEMMA StackFact ==
    ASSUME IInv, Shape, NEW o \in OSThreads
    PROVE  /\ \A c \in Calls : On(o, c) <=> MadeBy(o, c) \/ RunBy(o, c)
           /\ \A c \in Calls : ~(MadeBy(o, c) /\ RunBy(o, c))
           /\ stack[o] # <<>> => /\ Top(o) \in Calls /\ On(o, Top(o))
                                 /\ stack[o][1] \in Calls /\ On(o, stack[o][1])
           /\ \A c \in Calls : On(o, c) => stack[o] # <<>> /\ c <= Top(o) /\ stack[o][1] <= c
<1>1. stack[o] \in Seq(Calls)
  BY DEF IInv, TypeOK
<1>2. \A c \in Calls : On(o, c) <=> MadeBy(o, c) \/ RunBy(o, c)
  BY DEF Shape, Stacked
<1>3. \A c \in Calls : ~(MadeBy(o, c) /\ RunBy(o, c))
  BY CallFact, NoneAssumption DEF MadeBy, RunBy, OSThreads
<1>4. /\ Len(stack[o]) \in Nat
      /\ \A i \in 1..Len(stack[o]) : stack[o][i] \in Calls
      /\ stack[o] # <<>> => Len(stack[o]) >= 1
  BY <1>1
<1>5. stack[o] # <<>> => /\ Top(o) \in Calls /\ On(o, Top(o))
                         /\ stack[o][1] \in Calls /\ On(o, stack[o][1])
  BY <1>4 DEF Top, On
<1>6. ASSUME NEW c \in Calls, On(o, c)
      PROVE  stack[o] # <<>> /\ c <= Top(o) /\ stack[o][1] <= c
  <2>1. PICK i \in 1..Len(stack[o]) : stack[o][i] = c
    BY <1>6 DEF On
  <2>2. stack[o] # <<>> /\ Len(stack[o]) >= 1
    BY <1>1, <1>4, <2>1
  <2>3. i < Len(stack[o]) => c < Top(o)
    BY <1>4, <2>1, <2>2 DEF Shape, Sorted, Top
  <2>4. 1 < i => stack[o][1] < c
    BY <1>4, <2>1, <2>2 DEF Shape, Sorted
  <2>5. i = Len(stack[o]) => c = Top(o)
    BY <2>1 DEF Top
  <2>6. QED
    BY <1>4, <1>5, <2>1, <2>2, <2>3, <2>4, <2>5, CallNumbers
<1>7. QED
  BY <1>2, <1>3, <1>5, <1>6

LEMMA AboveFact ==
    ASSUME IInv, Shape, NEW o \in OSThreads, NEW c \in Calls, On(o, c), c # Top(o)
    PROVE  \E d \in Calls : On(o, d) /\ c < d /\ Above(o, c, d)
<1>1. /\ stack[o] \in Seq(Calls) /\ Len(stack[o]) \in Nat
      /\ \A i \in 1..Len(stack[o]) : stack[o][i] \in Calls
  BY DEF IInv, TypeOK
<1>2. PICK i \in 1..Len(stack[o]) : stack[o][i] = c
  BY DEF On
<1>3. i # Len(stack[o])
  BY <1>2 DEF Top
<1>4. i \in 1..(Len(stack[o]) - 1) /\ i + 1 \in 1..Len(stack[o]) /\ i < i + 1
  BY <1>1, <1>2, <1>3
<1>5. On(o, stack[o][i + 1]) /\ stack[o][i + 1] \in Calls
  BY <1>1, <1>4 DEF On
<1>6. c < stack[o][i + 1]
  BY <1>2, <1>4 DEF Shape, Sorted
<1>7. Above(o, c, stack[o][i + 1])
  BY <1>2, <1>4 DEF Shape, Alternate
<1>8. QED
  BY <1>5, <1>6, <1>7

\* Which calls are innermost, and what is known of the others.
LEMMA TopFact ==
    ASSUME IInv, Shape, NEW o \in OSThreads, NEW c \in Calls
    PROVE  /\ MadeBy(o, c) /\ (caller[c] = "posting" \/ to[c] = None) => Top(o) = c
           /\ RunBy(o, c) /\ request[c] # "running" => Top(o) = c
           /\ On(o, c) /\ c # Top(o) =>
                 Registered(o, c) /\ to[c] # None /\ (at[c] = o <=> MadeBy(o, c))
<1>1. ASSUME On(o, c), c # Top(o)
      PROVE  /\ MadeBy(o, c) => caller[c] # "posting"
             /\ RunBy(o, c) => request[c] = "running"
             /\ Registered(o, c) /\ to[c] # None /\ (at[c] = o <=> MadeBy(o, c))
  <2>1. PICK d \in Calls : On(o, d) /\ c < d /\ Above(o, c, d)
    BY <1>1, AboveFact
  <2>2. ~(MadeBy(o, c) /\ RunBy(o, c)) /\ ~(MadeBy(o, d) /\ RunBy(o, d))
    BY StackFact
  <2>3. None \notin OSThreads
    BY NoneAssumption DEF OSThreads
  <2>4. CASE MadeBy(o, c) /\ caller[c] # "posting" /\ RunBy(o, d) /\ at[d] = to[c] /\ via[d] = via[c]
    <3>1. to[d] # None
      BY <2>3, <2>4 DEF RunBy
    <3>2. to[c] # None
      BY <2>3, <2>4, <3>1, CallFact
    <3>3. QED
      BY <2>2, <2>4, <3>2 DEF Registered, MadeBy
  <2>5. CASE RunBy(o, c) /\ request[c] = "running" /\ MadeBy(o, d)
    <3>1. to[c] # None /\ at[c] # o
      BY <2>3, <2>5, CallFact DEF RunBy
    <3>2. QED
      BY <2>2, <2>5, <3>1 DEF Registered, MadeBy
  <2>6. QED
    BY <2>1, <2>4, <2>5 DEF Above
<1>2. MadeBy(o, c) \/ RunBy(o, c) => On(o, c)
  BY StackFact
<1>3. RunBy(o, c) => to[c] # None
  BY NoneAssumption DEF RunBy, OSThreads
<1>4. QED
  BY <1>1, <1>2, <1>3

\* While both ends of a connection are up, a request that executes on a thread,
\* or is on its way, is on the stack of the thread that made it.
LEMMA CallerFact ==
    ASSUME IInv, Shape, Awaited, NEW c \in Calls, to[c] # None, Alive(via[c]),
           request[c] # "answered"
    PROVE  caller[c] = "waiting" /\ MadeBy(at[c], c) /\ On(at[c], c) /\ at[c] \in OSThreads
<1>1. caller[c] = "waiting"
  BY DEF Awaited
<1>2. at[c] \in OSThreads
  BY CallFact
<1>3. MadeBy(at[c], c)
  BY <1>1 DEF MadeBy, Open
<1>4. QED
  BY <1>1, <1>2, <1>3, StackFact

\* The token of a connection: a thread that runs, and is in a call over the
\* connection, executes one for a thread that waits for just that call.
LEMMA Token ==
    ASSUME IInv, Shape, CallsBackToCaller, Awaited,
           NEW o \in OSThreads, NEW b \in Calls, On(o, b), to[b] # None, Alive(via[b]),
           RunBy(o, Top(o)) \/ to[Top(o)] = None
    PROVE  \E d \in Calls :
              /\ RunBy(o, d) /\ at[d] = Partner(o, b) /\ via[d] = via[b]
              /\ stack[at[d]] # <<>> /\ Top(at[d]) = d
              /\ MadeBy(at[d], d) /\ caller[d] = "waiting"
              /\ \A e \in Calls : On(o, e) /\ via[e] = via[b] /\ to[e] # None => e <= d
<1> DEFINE S == {e \in Calls : On(o, e) /\ via[e] = via[b] /\ to[e] # None}
<1>1. S \subseteq 1..MaxCalls /\ S # {} /\ MaxCalls \in Nat
  BY CallNumbers
<1>2. \E m \in S : \A e \in S : e <= m
  BY <1>1, LastOf
<1>3. PICK d \in Calls : /\ On(o, d) /\ via[d] = via[b] /\ to[d] # None
                         /\ \A e \in Calls : On(o, e) /\ via[e] = via[b] /\ to[e] # None => e <= d
  BY <1>2
<1>4. /\ at[d] \in OSThreads /\ to[d] \in OSThreads /\ at[d] # to[d] /\ None \notin OSThreads
  BY <1>3, CallFact
<1>5. RunBy(o, d)
  <2>1. SUFFICES ASSUME MadeBy(o, d) PROVE FALSE
    BY <1>3, StackFact
  <2>2. d # Top(o)
    BY <2>1, <1>3, StackFact
  <2>3. PICK e \in Calls : On(o, e) /\ d < e /\ Above(o, d, e)
    BY <1>3, <2>2, AboveFact
  <2>4. RunBy(o, e) /\ via[e] = via[d]
    BY <2>1, <2>3, StackFact DEF Above
  <2>5. to[e] # None
    BY <1>4, <2>4 DEF RunBy
  <2>6. e <= d
    BY <1>3, <2>3, <2>4, <2>5
  <2>7. QED
    BY <2>3, <2>6, CallNumbers
<1>6. to[d] = o /\ at[d] # o /\ request[d] # "answered"
  BY <1>4, <1>5 DEF RunBy, Executing
<1>7. at[d] = Partner(o, b)
  <2>1. Partner(o, d) = at[d] /\ at[d] # None
    BY <1>4, <1>6 DEF Partner
  <2>2. Partner(o, b) # None
    BY CallFact DEF Partner
  <2>3. PICK i \in DOMAIN stack[o], j \in DOMAIN stack[o] : stack[o][i] = d /\ stack[o][j] = b
    BY <1>3 DEF On, IInv, TypeOK
  <2>4. Partner(o, d) = Partner(o, b)
    BY <1>3, <2>1, <2>2, <2>3 DEF CallsBackToCaller
  <2>5. QED
    BY <2>1, <2>4
<1>8. caller[d] = "waiting" /\ MadeBy(at[d], d) /\ On(at[d], d)
  BY <1>3, <1>6, CallerFact
<1>9. stack[at[d]] # <<>>
  BY <1>4, <1>8, StackFact
<1>10. Top(at[d]) = d
  <2>1. SUFFICES ASSUME Top(at[d]) # d PROVE FALSE
    OBVIOUS
  <2>2. PICK e \in Calls : On(at[d], e) /\ d < e /\ Above(at[d], d, e)
    BY <1>4, <1>8, <2>1, AboveFact
  <2>3. RunBy(at[d], e) /\ at[e] = o /\ via[e] = via[b]
    BY <1>3, <1>4, <1>6, <1>8, <2>2, StackFact DEF Above
  <2>4. to[e] # None /\ request[e] # "answered"
    BY <1>4, <2>3 DEF RunBy, Executing
  <2>5. On(o, e)
    BY <2>3, <2>4, CallerFact
  <2>6. e <= d
    BY <1>3, <2>3, <2>4, <2>5
  <2>7. QED
    BY <2>2, <2>6, CallNumbers
<1>11. QED
  BY <1>3, <1>5, <1>7, <1>8, <1>9, <1>10

----------------------------------------------------------------------------
(* What the invariant says of the properties.                              *)

LEMMA RunsAlone ==
    ASSUME IInv, NEW up \in Parents, Nested(up)
    PROVE  OneRuns
<1>1. Shape /\ CallsBackToCaller /\ Awaited
  BY DEF Nested
<1>2. SUFFICES ASSUME NEW c \in Calls, request[c] = "running", Here(c), There(c),
                      UserCode(at[c]), UserCode(to[c])
               PROVE  FALSE
  BY DEF OneRuns
<1>3. to[c] # None
  BY <1>2 DEF IInv, Control
<1>4. Alive(via[c]) /\ at[c] \in OSThreads /\ to[c] \in OSThreads
  BY <1>2, <1>3, CallFact
<1>5. On(at[c], c) /\ MadeBy(at[c], c)
  BY <1>1, <1>2, <1>3, <1>4, CallerFact
<1>6. stack[at[c]] # <<>>
  BY <1>1, <1>4, <1>5, StackFact
<1>7. RunBy(at[c], Top(at[c]))
  BY <1>2, <1>6 DEF UserCode, Executes, RunBy, Executing
<1>8. PICK d \in Calls : /\ at[d] = to[c] /\ stack[at[d]] # <<>> /\ Top(at[d]) = d
                         /\ RunBy(at[c], d)
  BY <1>1, <1>3, <1>4, <1>5, <1>7, Token DEF Partner
<1>9. to[d] = to[c]
  BY <1>2, <1>8 DEF UserCode, Executes
<1>10. to[d] # at[d]
  BY <1>3, <1>9, CallFact
<1>11. QED
  BY <1>8, <1>9, <1>10

LEMMA FoundWaiting ==
    ASSUME IInv, NEW up \in Parents, Nested(up)
    PROVE  PostedIsRun
<1>1. SUFFICES ASSUME NEW o \in OSThreads, NEW c \in Calls, to[c] = o, request[c] = "posted"
               PROVE  Waiting(o) /\ \A d \in Calls : to[d] = o /\ request[d] = "posted" => d = c
  BY DEF PostedIsRun, Posted
<1>2. Coming(c) /\ \A d \in Calls : request[d] = "posted" => Coming(d)
  BY <1>1 DEF Coming
<1>3. \A d \in Calls : to[d] = o /\ request[d] = "posted" => d = c
  BY <1>1, <1>2 DEF Nested, OneComing
<1>4. ComesTo(up, c, o)
  BY <1>1, <1>2 DEF Nested, Expected
<1>5. CASE o \in Workers /\ stack[o] = <<>>
  <2>1. to[c] # None
    BY <1>1, NoneAssumption DEF OSThreads
  <2>2. Side(o) \in Sides /\ Side(o) = made[o]
    BY <1>1, <1>5, <2>1, CallFact, SideTypes DEF IInv
  <2>3. QED
    BY <1>3, <1>5, <2>2, NoneAssumption DEF Waiting, Sides
<1>6. CASE stack[o] # <<>> /\ MadeBy(o, Top(o)) /\ caller[Top(o)] # "posting"
  BY <1>3, <1>6 DEF Waiting, Makes, MadeBy, Open
<1>7. QED
  BY <1>4, <1>5, <1>6 DEF ComesTo

----------------------------------------------------------------------------
(* Steps that leave the stacks alone.                                      *)

\* No call begins or ends on a stack, and only the innermost method returns.
Still ==
    /\ UNCHANGED <<stack, at, via, to>>
    /\ \A c \in Calls :
        /\ (caller[c] \in Open) <=> (caller'[c] \in Open)
        /\ caller[c] = "new" <=> caller'[c] = "new"
        /\ caller'[c] = "posting" => caller[c] = "posting"
        /\ (request[c] \in Executing) <=> (request'[c] \in Executing)
        /\ request[c] = "running" => request'[c] = "running" \/ Top(to[c]) = c

LEMMA StillCaller ==
    ASSUME IInv, NEW c \in Calls,
           LoopNotSent(c) \/ LoopResolve(c) \/ LoopAnswer(c) \/ LoopReject(c)
    PROVE  Still /\ UNCHANGED <<sideVars, request_threads, requestVars>>
<1>1. /\ UNCHANGED <<stack, at, via, requestVars, sideVars, request_threads>>
      /\ caller[c] \in {"posting", "waiting", "resolved"}
      /\ \E p \in {"done", "resolved"} : caller' = [caller EXCEPT ![c] = p] \/ caller' = caller
  <2>1. CASE LoopNotSent(c)
    BY <2>1 DEF LoopNotSent, SetCaller
  <2>2. CASE LoopResolve(c)
    BY <2>2 DEF LoopResolve, SetCaller
  <2>3. CASE LoopAnswer(c)
    BY <2>3 DEF LoopAnswer, SetCaller
  <2>4. CASE LoopReject(c)
    BY <2>4 DEF LoopReject, SetCaller
  <2>5. QED
    BY <2>1, <2>2, <2>3, <2>4
<1>2. QED
  BY <1>1 DEF Still, Open, Executing, IInv, TypeOK, requestVars

LEMMA StillRequest ==
    ASSUME IInv, NEW c \in Calls,
           \/ Lose(c) \/ LoopReceive(c) \/ LoopPost(c)
           \/ SyncRegister(c) \/ MethodReturn(c) \/ SyncExit(c)
    PROVE  Still /\ UNCHANGED <<sideVars, callVars, to>>
<1>1. /\ UNCHANGED <<stack, callVars, to, sideVars>>
      /\ \E p \in {"lost", "queued", "posted", "running", "returning", "answering"} :
            /\ request' = [request EXCEPT ![c] = p]
            /\ request[c] \in Executing <=> p \in Executing
      /\ request[c] = "running" => Top(to[c]) = c
  <2>1. CASE Lose(c)
    BY <2>1 DEF Lose, SetRequest, Executing
  <2>2. CASE LoopReceive(c)
    BY <2>2 DEF LoopReceive, SetRequest, Executing
  <2>3. CASE LoopPost(c)
    BY <2>3 DEF LoopPost, SetRequest, Executing
  <2>4. CASE SyncRegister(c)
    BY <2>4 DEF SyncRegister, SetRequest, Executing
  <2>5. CASE MethodReturn(c)
    BY <2>5 DEF MethodReturn, SetRequest, Executing, Executes
  <2>6. CASE SyncExit(c)
    BY <2>6 DEF SyncExit, SetRequest, Executing
  <2>7. QED
    BY <2>1, <2>2, <2>3, <2>4, <2>5, <2>6
<1>2. QED
  BY <1>1 DEF Still, IInv, TypeOK, callVars

LEMMA StillConnection ==
    ASSUME IInv, NEW k \in Connections, Connect(k) \/ \E s \in Sides : Disconnect(k, s)
    PROVE  Still /\ UNCHANGED <<callVars, to, inserted, made>>
<1>1. CASE Connect(k)
  BY <1>1 DEF Connect, Still, callVars, requestVars
<1>2. CASE \E s \in Sides : Disconnect(k, s)
  <2>1. /\ UNCHANGED <<made, stack, callVars, to, inserted>>
        /\ \A c \in Calls : request'[c] = request[c] \/ (request[c] = "queued" /\ request'[c] = "lost")
    BY <1>2 DEF Disconnect
  <2>2. QED
    BY <2>1 DEF Still, Executing, callVars
<1>3. QED
  BY <1>1, <1>2

\* Shape, when the calls on a stack stay on it, and those below the top as they are.
LEMMA ShapeFrame ==
    ASSUME IInv, Shape, UNCHANGED <<stack, at, via>>,
           \A c \in Calls : caller[c] = "new" <=> caller'[c] = "new",
           \A o \in OSThreads, c \in Calls :
               /\ MadeBy(o, c)' <=> MadeBy(o, c)
               /\ RunBy(o, c)' <=> RunBy(o, c)
               /\ On(o, c) /\ c # Top(o) =>
                     /\ to'[c] = to[c]
                     /\ caller[c] # "posting" => caller'[c] # "posting"
                     /\ RunBy(o, c) /\ request[c] = "running" => request'[c] = "running"
    PROVE  Shape'
<1>1. Numbered' /\ Sorted'
  BY DEF Shape, Numbered, Sorted
<1>2. \A o, c : On(o, c)' <=> On(o, c)
  BY DEF On
<1>3. Stacked'
  BY <1>2 DEF Shape, Stacked
<1>4. Alternate'
  <2>1. SUFFICES ASSUME NEW o \in OSThreads, NEW i \in 1..(Len(stack[o]) - 1)
                 PROVE  Above(o, stack[o][i], stack[o][i + 1])'
    BY DEF Alternate
  <2>2. /\ stack[o] \in Seq(Calls) /\ Len(stack[o]) \in Nat
        /\ \A j \in 1..Len(stack[o]) : stack[o][j] \in Calls
    BY DEF IInv, TypeOK
  <2>3. /\ i \in 1..Len(stack[o]) /\ i + 1 \in 1..Len(stack[o])
        /\ Len(stack[o]) \in 1..Len(stack[o]) /\ i < Len(stack[o])
    BY <2>1, <2>2
  <2>4. PICK c \in Calls, d \in Calls : c = stack[o][i] /\ d = stack[o][i + 1]
    BY <2>2, <2>3
  <2>5. On(o, c) /\ Above(o, c, d)
    BY <2>1, <2>3, <2>4 DEF On, Shape, Alternate
  <2>6. c # Top(o)
    <3>1. c < Top(o) /\ Top(o) \in Calls
      BY <2>2, <2>3, <2>4 DEF Shape, Sorted, Top
    <3>2. QED
      BY <3>1, CallNumbers
  <2>7. Above(o, c, d)'
    BY <2>5, <2>6 DEF Above
  <2>8. QED
    BY <2>4, <2>7
<1>5. QED
  BY <1>1, <1>3, <1>4 DEF Shape

LEMMA StillShape ==
    ASSUME IInv, NEW up \in Parents, Nested(up), Still
    PROVE  Shape' /\ CallsBackToCaller' /\ Bottom(up)'
<1>1. UNCHANGED <<stack, at, via, to>> /\ Shape
  BY DEF Still, Nested
<1>2. CallsBackToCaller' /\ Bottom(up)'
  BY <1>1 DEF Nested, CallsBackToCaller, Bottom, Partner
<1>3. ASSUME NEW o \in OSThreads, NEW c \in Calls
      PROVE  /\ MadeBy(o, c)' <=> MadeBy(o, c)
             /\ RunBy(o, c)' <=> RunBy(o, c)
             /\ On(o, c) /\ c # Top(o) =>
                     /\ to'[c] = to[c]
                     /\ caller[c] # "posting" => caller'[c] # "posting"
                     /\ RunBy(o, c) /\ request[c] = "running" => request'[c] = "running"
  <2>1. (MadeBy(o, c)' <=> MadeBy(o, c)) /\ (RunBy(o, c)' <=> RunBy(o, c))
    BY DEF Still, MadeBy, RunBy
  <2>2. caller[c] # "posting" => caller'[c] # "posting"
    BY DEF Still
  <2>3. c # Top(o) /\ RunBy(o, c) /\ request[c] = "running" => request'[c] = "running"
    BY DEF Still, RunBy
  <2>4. QED
    BY <1>1, <2>1, <2>2, <2>3
<1>4. QED
  BY <1>1, <1>2, <1>3, ShapeFrame DEF Still

----------------------------------------------------------------------------
(* Steps that begin or end a call on a stack.                              *)

\* CallsBackToCaller about calls instead of positions.
LEMMA BackFact ==
    ASSUME TypeOK, CallsBackToCaller, NEW o \in OSThreads, NEW c \in Calls, NEW d \in Calls,
           On(o, c), On(o, d), via[c] = via[d], Partner(o, c) # None, Partner(o, d) # None
    PROVE  Partner(o, c) = Partner(o, d)
<1>1. PICK i \in DOMAIN stack[o], j \in DOMAIN stack[o] : stack[o][i] = c /\ stack[o][j] = d
  BY DEF On, TypeOK
<1>2. QED
  BY <1>1 DEF CallsBackToCaller

LEMMA BackStep ==
    ASSUME TypeOK',
           \A o \in OSThreads, c, d \in Calls :
              On(o, c)' /\ On(o, d)' /\ via'[c] = via'[d]
                 /\ Partner(o, c)' # None /\ Partner(o, d)' # None
              => Partner(o, c)' = Partner(o, d)'
    PROVE  CallsBackToCaller'
<1>1. SUFFICES ASSUME NEW o \in OSThreads, NEW i \in DOMAIN stack'[o], NEW j \in DOMAIN stack'[o]
               PROVE  (LET c == stack[o][i]
                           d == stack[o][j]
                       IN  via[c] = via[d] /\ None \notin {Partner(o, c), Partner(o, d)}
                               => Partner(o, c) = Partner(o, d))'
  BY DEF CallsBackToCaller
<1>2. stack'[o] \in Seq(Calls)
  BY DEF TypeOK
<1>3. PICK c \in Calls, d \in Calls : c = stack'[o][i] /\ d = stack'[o][j]
  BY <1>2
<1>4. On(o, c)' /\ On(o, d)'
  BY <1>2, <1>3 DEF On
<1>5. QED
  BY <1>3, <1>4 DEF Partner

LEMMA ShapePush ==
    ASSUME IInv, Shape, NEW o \in OSThreads, NEW c \in Calls, Push(o, c),
           \A d \in Calls : On(o, d) => d < c,
           \A p \in OSThreads, d \in Calls :
              MadeBy(p, d)' \/ RunBy(p, d)' <=> MadeBy(p, d) \/ RunBy(p, d) \/ (p = o /\ d = c),
           \A p \in OSThreads, d, e \in Calls : On(p, d) /\ On(p, e) /\ Above(p, d, e) => Above(p, d, e)',
           \A d \in Calls : stack[o] # <<>> /\ d = Top(o) => Above(o, d, c)'
    PROVE  Sorted' /\ Stacked' /\ Alternate'
<1>1. /\ \A p \in OSThreads : p # o => stack'[p] = stack[p]
      /\ stack'[o] # <<>>
      /\ Len(stack'[o]) = Len(stack[o]) + 1 /\ Len(stack[o]) \in Nat
      /\ \A i \in 1..Len(stack[o]) : stack'[o][i] = stack[o][i]
      /\ stack'[o][Len(stack[o]) + 1] = c
      /\ stack[o] # <<>> => Len(stack[o]) >= 1
      /\ \A p \in OSThreads, d \in Calls : On(p, d)' <=> On(p, d) \/ (p = o /\ d = c)
  BY PushFact DEF IInv
<1>2. \A p \in OSThreads : \A i \in 1..Len(stack[p]) : stack[p][i] \in Calls /\ On(p, stack[p][i])
  BY DEF IInv, TypeOK, On
<1>3. Sorted'
  <2>1. SUFFICES ASSUME NEW p \in OSThreads, NEW i \in 1..Len(stack'[p]), NEW j \in 1..Len(stack'[p]), i < j
                 PROVE  stack'[p][i] < stack'[p][j]
    BY DEF Sorted
  <2>2. CASE p # o
    BY <1>1, <2>1, <2>2 DEF Shape, Sorted
  <2>3. CASE p = o /\ j \in 1..Len(stack[o])
    <3>1. i \in 1..Len(stack[o])
      BY <1>1, <2>1, <2>3
    <3>2. QED
      BY <1>1, <2>1, <2>3, <3>1 DEF Shape, Sorted
  <2>4. CASE p = o /\ j = Len(stack[o]) + 1
    <3>1. i \in 1..Len(stack[o])
      BY <1>1, <2>1, <2>4
    <3>2. QED
      BY <1>1, <1>2, <2>4, <3>1
  <2>5. QED
    BY <1>1, <2>1, <2>2, <2>3, <2>4
<1>4. Stacked'
  BY <1>1 DEF Shape, Stacked
<1>5. Alternate'
  <2>1. SUFFICES ASSUME NEW p \in OSThreads, NEW i \in 1..(Len(stack'[p]) - 1)
                 PROVE  Above(p, stack[p][i], stack[p][i + 1])'
    BY DEF Alternate
  <2>2. ASSUME i \in 1..(Len(stack[p]) - 1), stack'[p][i] = stack[p][i], stack'[p][i + 1] = stack[p][i + 1],
               Len(stack[p]) \in Nat
        PROVE  Above(p, stack[p][i], stack[p][i + 1])'
    <3>1. i \in 1..Len(stack[p]) /\ i + 1 \in 1..Len(stack[p])
      BY <2>2
    <3>2. PICK d \in Calls, e \in Calls : d = stack[p][i] /\ e = stack[p][i + 1]
      BY <1>2, <3>1
    <3>3. On(p, d) /\ On(p, e) /\ Above(p, d, e)
      BY <1>2, <2>2, <3>1, <3>2 DEF Shape, Alternate
    <3>4. Above(p, d, e)'
      BY <3>3
    <3>5. QED
      BY <2>2, <3>2, <3>4
  <2>3. CASE p # o
    <3>1. Len(stack[p]) \in Nat /\ stack'[p] = stack[p]
      BY <1>1, <2>3 DEF IInv, TypeOK
    <3>2. QED
      BY <2>1, <2>2, <3>1
  <2>4. CASE p = o /\ i \in 1..(Len(stack[o]) - 1)
    BY <1>1, <2>2, <2>4
  <2>5. CASE p = o /\ i = Len(stack[o])
    <3>1. stack[o] # <<>> /\ i \in 1..Len(stack[o])
      BY <1>1, <2>1, <2>5
    <3>2. PICK d \in Calls : d = Top(o) /\ stack'[o][i] = d
      BY <1>1, <1>2, <2>5, <3>1 DEF Top
    <3>3. Above(o, d, c)'
      BY <3>1, <3>2
    <3>4. QED
      BY <1>1, <2>5, <3>2, <3>3
  <2>6. QED
    BY <1>1, <2>1, <2>3, <2>4, <2>5
<1>6. QED
  BY <1>3, <1>4, <1>5

LEMMA ShapePop ==
    ASSUME IInv, Shape, NEW o \in OSThreads, stack[o] # <<>>, Pop(o),
           \A p \in OSThreads, d \in Calls :
              MadeBy(p, d)' \/ RunBy(p, d)' <=> (MadeBy(p, d) \/ RunBy(p, d)) /\ ~(p = o /\ d = Top(o)),
           \A p \in OSThreads, d, e \in Calls :
              On(p, d)' /\ On(p, e)' /\ d < e /\ Above(p, d, e) => Above(p, d, e)'
    PROVE  Sorted' /\ Stacked' /\ Alternate'
<1>1. /\ \A p \in OSThreads : p # o => stack'[p] = stack[p]
      /\ Len(stack[o]) \in Nat /\ Len(stack'[o]) = Len(stack[o]) - 1
      /\ \A i \in 1..(Len(stack[o]) - 1) : stack'[o][i] = stack[o][i]
      /\ \A p \in OSThreads, d \in Calls : On(p, d)' <=> On(p, d) /\ ~(p = o /\ d = Top(o))
  BY PopFact DEF IInv, Shape
\* The stacks are beginnings of what they were.
<1>2. \A p \in OSThreads :
         /\ Len(stack[p]) \in Nat /\ Len(stack'[p]) \in Int /\ Len(stack'[p]) <= Len(stack[p])
         /\ \A i \in 1..Len(stack'[p]) : stack'[p][i] = stack[p][i] /\ stack[p][i] \in Calls
  <2>1. TAKE p \in OSThreads
  <2>2. Len(stack[p]) \in Nat /\ \A i \in 1..Len(stack[p]) : stack[p][i] \in Calls
    BY DEF IInv, TypeOK
  <2>3. QED
    BY <1>1, <2>2
<1>3. Sorted'
  BY <1>2 DEF Shape, Sorted
<1>4. Stacked'
  BY <1>1 DEF Shape, Stacked
<1>5. Alternate'
  <2>1. SUFFICES ASSUME NEW p \in OSThreads, NEW i \in 1..(Len(stack'[p]) - 1)
                 PROVE  Above(p, stack[p][i], stack[p][i + 1])'
    BY DEF Alternate
  <2>2. /\ i \in 1..Len(stack'[p]) /\ i + 1 \in 1..Len(stack'[p]) /\ i < i + 1
        /\ i \in 1..(Len(stack[p]) - 1) /\ i \in 1..Len(stack[p]) /\ i + 1 \in 1..Len(stack[p])
    BY <1>2, <2>1
  <2>3. PICK d \in Calls, e \in Calls :
           /\ d = stack[p][i] /\ e = stack[p][i + 1]
           /\ d = stack'[p][i] /\ e = stack'[p][i + 1]
    BY <1>2, <2>2
  <2>4. On(p, d)' /\ On(p, e)'
    BY <2>2, <2>3 DEF On
  <2>5. d < e /\ Above(p, d, e)
    BY <2>2, <2>3 DEF Shape, Sorted, Alternate
  <2>6. Above(p, d, e)'
    BY <2>4, <2>5
  <2>7. QED
    BY <2>3, <2>6
<1>6. QED
  BY <1>3, <1>4, <1>5

\* A call that begins is later than the others, and in no stack.
LEMMA InvokeFact ==
    ASSUME IInv, Shape, NEW c \in Calls, NEW o \in OSThreads, NEW k \in Connections, Invoke(c, o, k)
    PROVE  /\ UNCHANGED <<sideVars, request_threads, requestVars>>
           /\ Push(o, c) /\ UserCode(o)
           /\ caller[c] = "new" /\ to[c] = None /\ request[c] = "none"
           /\ caller'[c] = "posting" /\ at'[c] = o /\ via'[c] = k
           /\ \A d \in Calls : d # c => caller'[d] = caller[d] /\ at'[d] = at[d] /\ via'[d] = via[d]
           /\ \A d \in Calls : d < c => caller[d] # "new"
           /\ \A d \in Calls : caller[d] # "new" => d < c
           /\ \A d \in Calls, p \in OSThreads : On(p, d) \/ to[d] # None => d < c /\ d # c
<1>1. /\ UNCHANGED <<sideVars, request_threads, requestVars>>
      /\ Push(o, c) /\ UserCode(o) /\ caller[c] = "new"
      /\ caller' = [caller EXCEPT ![c] = "posting"]
      /\ at' = [at EXCEPT ![c] = o] /\ via' = [via EXCEPT ![c] = k]
      /\ \A d \in 1..(c - 1) : caller[d] # "new"
  BY DEF Invoke, SetCaller
<1>2. to[c] = None /\ request[c] = "none"
  BY <1>1 DEF IInv, Control
<1>3. \A d \in Calls : d < c => caller[d] # "new"
  BY <1>1, CallNumbers
<1>4. \A d \in Calls : caller[d] # "new" => d < c
  BY <1>1, CallNumbers DEF Shape, Numbered
<1>5. ASSUME NEW d \in Calls, NEW p \in OSThreads, On(p, d) \/ to[d] # None
      PROVE  d < c /\ d # c
  <2>1. to[d] # None => caller[d] # "new"
    BY CallFact
  <2>2. On(p, d) => MadeBy(p, d) \/ to[d] # None
    BY StackFact, NoneAssumption DEF RunBy, OSThreads
  <2>3. caller[d] # "new"
    BY <1>5, <2>1, <2>2 DEF MadeBy, Open
  <2>4. QED
    BY <1>1, <1>4, <2>3
<1>6. /\ caller'[c] = "posting" /\ at'[c] = o /\ via'[c] = k
      /\ \A d \in Calls : d # c => caller'[d] = caller[d] /\ at'[d] = at[d] /\ via'[d] = via[d]
  BY <1>1 DEF IInv, TypeOK
<1>7. QED
  BY <1>1, <1>2, <1>3, <1>4, <1>5, <1>6

LEMMA InvokeShape ==
    ASSUME IInv, TypeOK', NEW up \in Parents, Nested(up),
           NEW c \in Calls, NEW o \in OSThreads, NEW k \in Connections, Invoke(c, o, k)
    PROVE  Shape' /\ CallsBackToCaller' /\ Bottom(up)'
<1>1. Shape /\ CallsBackToCaller /\ Bottom(up)
  BY DEF Nested
<1>2. /\ UNCHANGED <<request, to>>
      /\ Push(o, c) /\ UserCode(o)
      /\ caller[c] = "new" /\ to[c] = None /\ request[c] = "none"
      /\ caller'[c] = "posting" /\ at'[c] = o /\ via'[c] = k
      /\ \A d \in Calls : d # c => caller'[d] = caller[d] /\ at'[d] = at[d] /\ via'[d] = via[d]
      /\ \A d \in Calls : d < c => caller[d] # "new"
      /\ \A d \in Calls : caller[d] # "new" => d < c
      /\ \A d \in Calls, p \in OSThreads : On(p, d) \/ to[d] # None => d < c /\ d # c
  BY <1>1, InvokeFact DEF requestVars
<1>3. Numbered'
  <2>1. SUFFICES ASSUME NEW e \in Calls, NEW d \in Calls, caller'[e] # "new", d < e
                 PROVE  caller'[d] # "new"
    BY DEF Numbered
  <2>2. CASE e = c
    BY <1>2, <2>1, <2>2
  <2>3. CASE e # c
    BY <1>1, <1>2, <2>1, <2>3 DEF Shape, Numbered
  <2>4. QED
    BY <2>2, <2>3
<1>4. ASSUME NEW p \in OSThreads, NEW d \in Calls
      PROVE  /\ MadeBy(p, d)' <=> MadeBy(p, d) \/ (p = o /\ d = c)
             /\ RunBy(p, d)' <=> RunBy(p, d)
  BY <1>2 DEF MadeBy, RunBy, Open
<1>5. ASSUME NEW p \in OSThreads, NEW d \in Calls, NEW e \in Calls, On(p, d), On(p, e), Above(p, d, e)
      PROVE  Above(p, d, e)'
  <2>1. d # c /\ e # c
    BY <1>2, <1>5
  <2>2. QED
    BY <1>2, <1>4, <1>5, <2>1 DEF Above
<1>6. ASSUME NEW d \in Calls, stack[o] # <<>>, d = Top(o)
      PROVE  Above(o, d, c)'
  <2>1. RunBy(o, d) /\ request[d] = "running"
    BY <1>2, <1>6 DEF UserCode, Executes, RunBy, Executing
  <2>2. QED
    BY <1>2, <1>4, <2>1 DEF Above
<1>7. Sorted' /\ Stacked' /\ Alternate'
  BY <1>1, <1>2, <1>4, <1>5, <1>6, ShapePush
<1>8. \A p \in OSThreads, d \in Calls : On(p, d)' => d = c \/ On(p, d)
  BY <1>2, PushFact DEF IInv
<1>9. CallsBackToCaller'
  <2>1. SUFFICES ASSUME NEW p \in OSThreads, NEW d \in Calls, NEW e \in Calls,
                        On(p, d)', On(p, e)', via'[d] = via'[e],
                        Partner(p, d)' # None, Partner(p, e)' # None
                 PROVE  Partner(p, d)' = Partner(p, e)'
    BY BackStep
  <2>2. \A b \in Calls : On(p, b)' /\ b = c => Partner(p, b)' = None
    <3>1. p # o => ~On(p, c)'
      BY <1>2, PushFact DEF IInv
    <3>2. QED
      BY <1>2, <3>1 DEF Partner
  <2>3. d # c /\ e # c /\ On(p, d) /\ On(p, e)
    BY <1>8, <2>1, <2>2
  <2>4. Partner(p, d)' = Partner(p, d) /\ Partner(p, e)' = Partner(p, e)
    BY <1>2, <2>3 DEF Partner
  <2>5. QED
    BY <1>1, <1>2, <2>1, <2>3, <2>4, BackFact DEF IInv
<1>10. Bottom(up)'
  <2>1. SUFFICES ASSUME NEW p \in OSThreads, stack'[p] # <<>>
                 PROVE  (LET d == stack[p][1]
                         IN  IF p \in Users THEN at[d] = p ELSE to[d] = p /\ up[p] = <<at[d], via[d]>>)'
    BY DEF Bottom
  <2>2. CASE stack[p] # <<>>
    <3>1. stack'[p][1] = stack[p][1]
      BY <1>2, <2>2, PushFact DEF IInv
    <3>2. stack[p][1] \in Calls /\ stack[p][1] # c
      BY <1>1, <1>2, <2>2, StackFact
    <3>3. QED
      BY <1>1, <1>2, <2>2, <3>1, <3>2 DEF Bottom
  <2>3. CASE stack[p] = <<>>
    <3>1. p = o
      BY <1>2, <2>1, <2>3, PushFact DEF IInv
    <3>2. stack'[p][1] = c
      BY <1>2, <2>3, <3>1 DEF Push, IInv, TypeOK
    <3>3. p \in Users
      BY <1>2, <2>3, <3>1 DEF UserCode
    <3>4. QED
      BY <1>2, <3>1, <3>2, <3>3
  <2>4. QED
    BY <2>2, <2>3
<1>11. QED
  BY <1>3, <1>7, <1>9, <1>10 DEF Shape

\* A request that is picked up is later than the call its thread waits for.
LEMMA PickUpFact ==
    ASSUME IInv, NEW up \in Parents, Nested(up), NEW o \in OSThreads, NEW c \in Calls, PickUp(o, c)
    PROVE  /\ UNCHANGED <<sideVars, request_threads, callVars, to, inserted>> /\ Push(o, c)
           /\ to[c] = o /\ request[c] = "posted" /\ request'[c] = "picked" /\ at[c] # o
           /\ \A d \in Calls : d # c => request'[d] = request[d]
           /\ Coming(c) /\ ComesTo(up, c, o)
           /\ \A d \in Calls : Coming(d) /\ to[d] = o => d = c
           /\ \A d \in Calls : On(o, d) => d < c /\ d # c
<1>1. /\ UNCHANGED <<sideVars, request_threads, callVars, to, inserted>> /\ Push(o, c)
      /\ to[c] = o /\ request[c] = "posted" /\ request' = [request EXCEPT ![c] = "picked"]
  BY DEF PickUp, Posted, SetRequest
<1>2. request'[c] = "picked" /\ \A d \in Calls : d # c => request'[d] = request[d]
  BY <1>1 DEF IInv, TypeOK
<1>3. at[c] # o
  BY <1>1, CallFact, NoneAssumption DEF OSThreads
<1>4. Coming(c)
  BY <1>1 DEF Coming
<1>5. ComesTo(up, c, o)
  BY <1>1, <1>4 DEF Nested, Expected
<1>6. \A d \in Calls : Coming(d) /\ to[d] = o => d = c
  BY <1>1, <1>4 DEF Nested, OneComing
<1>7. ASSUME NEW d \in Calls, On(o, d)
      PROVE  d < c /\ d # c
  <2>1. stack[o] # <<>> /\ d <= Top(o) /\ Top(o) \in Calls
    BY <1>7, StackFact DEF Nested
  <2>2. Top(o) < c
    BY <1>5, <2>1 DEF ComesTo
  <2>3. QED
    BY <2>1, <2>2, CallNumbers
<1>8. QED
  BY <1>1, <1>2, <1>3, <1>4, <1>5, <1>6, <1>7

LEMMA PickUpShape ==
    ASSUME IInv, TypeOK', NEW up \in Parents, Nested(up),
           NEW o \in OSThreads, NEW c \in Calls, PickUp(o, c)
    PROVE  Shape' /\ CallsBackToCaller' /\ Bottom(up)'
<1>1. Shape /\ CallsBackToCaller /\ Bottom(up)
  BY DEF Nested
<1>2. /\ UNCHANGED <<caller, at, via, to>> /\ Push(o, c)
      /\ to[c] = o /\ request[c] = "posted" /\ request'[c] = "picked" /\ at[c] # o
      /\ \A d \in Calls : d # c => request'[d] = request[d]
      /\ ComesTo(up, c, o)
      /\ \A d \in Calls : On(o, d) => d < c /\ d # c
  BY PickUpFact DEF callVars
<1>3. Numbered'
  BY <1>1, <1>2 DEF Shape, Numbered
<1>4. ASSUME NEW p \in OSThreads, NEW d \in Calls
      PROVE  /\ MadeBy(p, d)' <=> MadeBy(p, d)
             /\ RunBy(p, d)' <=> RunBy(p, d) \/ (p = o /\ d = c)
  BY <1>2 DEF MadeBy, RunBy, Executing
<1>5. ASSUME NEW p \in OSThreads, NEW d \in Calls, NEW e \in Calls, Above(p, d, e)
      PROVE  Above(p, d, e)'
  BY <1>2, <1>4, <1>5 DEF Above
<1>6. ASSUME NEW d \in Calls, stack[o] # <<>>, d = Top(o)
      PROVE  Above(o, d, c)'
  BY <1>2, <1>4, <1>6 DEF Above, ComesTo
<1>7. Sorted' /\ Stacked' /\ Alternate'
  BY <1>1, <1>2, <1>4, <1>5, <1>6, ShapePush
<1>8. \A p \in OSThreads, d \in Calls : On(p, d)' => (p = o /\ d = c) \/ On(p, d)
  BY <1>2, PushFact DEF IInv
<1>9. CallsBackToCaller'
  <2>1. SUFFICES ASSUME NEW p \in OSThreads, NEW d \in Calls, NEW e \in Calls,
                        On(p, d)', On(p, e)', via[d] = via[e], Partner(p, d) # None, Partner(p, e) # None
                 PROVE  Partner(p, d) = Partner(p, e)
    BY <1>2, BackStep DEF Partner
  <2>2. \A b \in Calls : On(o, b) /\ via[b] = via[c] /\ Partner(o, b) # None => Partner(o, b) = Partner(o, c)
    <3>1. TAKE b \in Calls
    <3>2. HAVE On(o, b) /\ via[b] = via[c] /\ Partner(o, b) # None
    <3>3. stack[o] # <<>> /\ Top(o) \in Calls /\ On(o, Top(o))
      BY <1>1, <3>2, StackFact
    <3>4. MadeBy(o, Top(o)) /\ to[Top(o)] = at[c] /\ via[Top(o)] = via[c]
      BY <1>2, <3>3 DEF ComesTo
    <3>5. Partner(o, Top(o)) = at[c] /\ Partner(o, c) = at[c]
      BY <1>2, <3>4 DEF Partner, MadeBy
    <3>6. at[c] # None
      BY <1>2, CallFact, NoneAssumption DEF OSThreads
    <3>7. QED
      BY <1>1, <3>2, <3>3, <3>4, <3>5, <3>6, BackFact DEF IInv
  <2>3. QED
    BY <1>1, <1>8, <2>1, <2>2, BackFact DEF IInv
<1>10. Bottom(up)'
  <2>1. SUFFICES ASSUME NEW p \in OSThreads, stack'[p] # <<>>
                 PROVE  (LET d == stack[p][1]
                         IN  IF p \in Users THEN at[d] = p ELSE to[d] = p /\ up[p] = <<at[d], via[d]>>)'
    BY DEF Bottom
  <2>2. CASE stack[p] # <<>>
    <3>1. stack'[p][1] = stack[p][1]
      BY <1>2, <2>2, PushFact DEF IInv
    <3>2. QED
      BY <1>1, <1>2, <2>2, <3>1 DEF Bottom
  <2>3. CASE stack[p] = <<>>
    <3>1. p = o
      BY <1>2, <2>1, <2>3, PushFact DEF IInv
    <3>2. stack'[p][1] = c
      BY <1>2, <2>3, <3>1 DEF Push, IInv, TypeOK
    <3>3. p \notin Users /\ up[p] = <<at[c], via[c]>>
      BY <1>2, <2>3, <3>1, ThreadsAssumption DEF ComesTo
    <3>4. QED
      BY <1>2, <3>1, <3>2, <3>3
  <2>4. QED
    BY <2>2, <2>3
<1>11. QED
  BY <1>3, <1>7, <1>9, <1>10 DEF Shape

LEMMA PopStacks ==
    ASSUME IInv, TypeOK', NEW up \in Parents, Nested(up), NEW o \in OSThreads, stack[o] # <<>>, Pop(o),
           UNCHANGED <<at, via, to>>
    PROVE  CallsBackToCaller' /\ Bottom(up)'
<1>1. Shape /\ CallsBackToCaller /\ Bottom(up)
  BY DEF Nested
<1>2. /\ \A p \in OSThreads : p # o => stack'[p] = stack[p]
      /\ Len(stack[o]) \in Nat /\ Len(stack'[o]) = Len(stack[o]) - 1
      /\ \A i \in 1..(Len(stack[o]) - 1) : stack'[o][i] = stack[o][i]
      /\ stack'[o] # <<>> => Len(stack[o]) >= 2
      /\ \A p \in OSThreads, d \in Calls : On(p, d)' => On(p, d)
  BY <1>1, PopFact DEF IInv, Shape
<1>3. CallsBackToCaller'
  <2>1. SUFFICES ASSUME NEW p \in OSThreads, NEW d \in Calls, NEW e \in Calls,
                        On(p, d)', On(p, e)', via[d] = via[e], Partner(p, d) # None, Partner(p, e) # None
                 PROVE  Partner(p, d) = Partner(p, e)
    BY BackStep DEF Partner
  <2>2. QED
    BY <1>1, <1>2, <2>1, BackFact DEF IInv
<1>4. Bottom(up)'
  <2>1. SUFFICES ASSUME NEW p \in OSThreads, stack'[p] # <<>>
                 PROVE  (LET d == stack[p][1]
                         IN  IF p \in Users THEN at[d] = p ELSE to[d] = p /\ up[p] = <<at[d], via[d]>>)'
    BY DEF Bottom
  <2>2. stack[p] # <<>> /\ stack'[p][1] = stack[p][1]
    BY <1>2, <2>1
  <2>3. QED
    BY <1>1, <2>2 DEF Bottom
<1>5. QED
  BY <1>3, <1>4

LEMMA ReturnFact ==
    ASSUME IInv, Shape, NEW o \in OSThreads, Return(o)
    PROVE  /\ UNCHANGED <<sideVars, request_threads, at, via, requestVars>>
           /\ Pop(o) /\ stack[o] # <<>> /\ Posted(o) = {}
           /\ \E c \in Calls : /\ c = Top(o) /\ MadeBy(o, c)
                               /\ caller[c] = "done" /\ caller'[c] = "returned"
                               /\ \A d \in Calls : d # c => caller'[d] = caller[d]
<1>1. /\ UNCHANGED <<sideVars, request_threads, at, via, requestVars>>
      /\ Pop(o) /\ stack[o] # <<>> /\ Posted(o) = {} /\ at[Top(o)] = o
      /\ caller[Top(o)] = "done" /\ caller' = [caller EXCEPT ![Top(o)] = "returned"]
  BY DEF Return, Makes, WaitOver, SetCaller
<1>2. PICK c \in Calls : c = Top(o)
  BY <1>1, StackTypes DEF IInv
<1>3. /\ MadeBy(o, c) /\ caller'[c] = "returned"
      /\ \A d \in Calls : d # c => caller'[d] = caller[d]
  BY <1>1, <1>2 DEF MadeBy, Open, IInv, TypeOK
<1>4. QED
  BY <1>1, <1>2, <1>3

LEMMA ReturnShape ==
    ASSUME IInv, TypeOK', NEW up \in Parents, Nested(up), NEW o \in OSThreads, Return(o)
    PROVE  Shape' /\ CallsBackToCaller' /\ Bottom(up)'
<1>1. Shape
  BY DEF Nested
<1>2. UNCHANGED <<at, via, to, request>> /\ Pop(o) /\ stack[o] # <<>>
  BY <1>1, ReturnFact DEF requestVars
<1>3. PICK c \in Calls : /\ c = Top(o) /\ MadeBy(o, c)
                         /\ caller[c] = "done" /\ caller'[c] = "returned"
                         /\ \A d \in Calls : d # c => caller'[d] = caller[d]
  BY <1>1, ReturnFact
<1>4. CallsBackToCaller' /\ Bottom(up)'
  BY <1>2, PopStacks
<1>5. Numbered'
  BY <1>1, <1>3 DEF Shape, Numbered
<1>6. ~RunBy(o, c)
  BY <1>1, <1>3, StackFact
<1>7. ASSUME NEW p \in OSThreads, NEW d \in Calls
      PROVE  /\ MadeBy(p, d)' <=> MadeBy(p, d) /\ ~(p = o /\ d = c)
             /\ RunBy(p, d)' <=> RunBy(p, d)
  BY <1>2, <1>3 DEF MadeBy, RunBy, Open
<1>8. ASSUME NEW p \in OSThreads, NEW d \in Calls, NEW e \in Calls, On(p, d)', On(p, e)', Above(p, d, e)
      PROVE  Above(p, d, e)'
  <2>1. ~(p = o /\ d = c) /\ ~(p = o /\ e = c)
    BY <1>1, <1>2, <1>3, <1>8, PopFact DEF IInv, Shape
  <2>2. MadeBy(p, d) /\ d = c => p = o
    BY <1>3 DEF MadeBy
  <2>3. QED
    BY <1>2, <1>3, <1>7, <1>8, <2>1, <2>2 DEF Above
<1>9. Sorted' /\ Stacked' /\ Alternate'
  BY <1>1, <1>2, <1>3, <1>6, <1>7, <1>8, ShapePop
<1>10. QED
  BY <1>4, <1>5, <1>9 DEF Shape

LEMMA SyncAnswerFact ==
    ASSUME IInv, Shape, NEW c \in Calls, SyncAnswer(c)
    PROVE  /\ UNCHANGED <<sideVars, request_threads, callVars, to, inserted>>
           /\ to[c] \in OSThreads /\ at[c] \in OSThreads /\ at[c] # to[c]
           /\ Pop(to[c]) /\ stack[to[c]] # <<>> /\ Top(to[c]) = c
           /\ RunBy(to[c], c) /\ ~MadeBy(to[c], c)
           /\ request[c] = "answering" /\ request'[c] = IF There(c) THEN "answered" ELSE "lost"
           /\ \A d \in Calls : d # c => request'[d] = request[d]
<1>1. /\ UNCHANGED <<sideVars, request_threads, callVars, to, inserted>>
      /\ Pop(to[c]) /\ request[c] = "answering"
      /\ request' = [request EXCEPT ![c] = IF There(c) THEN "answered" ELSE "lost"]
  BY DEF SyncAnswer, SetRequest
<1>2. to[c] # None
  BY <1>1 DEF IInv, Control
<1>3. to[c] \in OSThreads /\ at[c] \in OSThreads /\ at[c] # to[c]
  BY <1>2, CallFact
<1>4. RunBy(to[c], c)
  BY <1>1 DEF RunBy, Executing
<1>5. stack[to[c]] # <<>> /\ Top(to[c]) = c /\ ~MadeBy(to[c], c)
  BY <1>1, <1>3, <1>4, StackFact, TopFact
<1>6. /\ request'[c] = IF There(c) THEN "answered" ELSE "lost"
      /\ \A d \in Calls : d # c => request'[d] = request[d]
  BY <1>1 DEF IInv, TypeOK
<1>7. QED
  BY <1>1, <1>3, <1>4, <1>5, <1>6

LEMMA SyncAnswerShape ==
    ASSUME IInv, TypeOK', NEW up \in Parents, Nested(up), NEW c \in Calls, SyncAnswer(c)
    PROVE  Shape' /\ CallsBackToCaller' /\ Bottom(up)'
<1>1. Shape
  BY DEF Nested
<1> DEFINE o == to[c]
<1>2. /\ UNCHANGED <<caller, at, via, to>> /\ Pop(o) /\ stack[o] # <<>> /\ Top(o) = c /\ o \in OSThreads
      /\ RunBy(o, c) /\ ~MadeBy(o, c)
      /\ request[c] = "answering" /\ request'[c] \in {"answered", "lost"}
      /\ \A d \in Calls : d # c => request'[d] = request[d]
  BY <1>1, SyncAnswerFact DEF callVars
<1>3. CallsBackToCaller' /\ Bottom(up)'
  BY <1>2, PopStacks
<1>4. Numbered'
  BY <1>1, <1>2 DEF Shape, Numbered
<1>5. ASSUME NEW p \in OSThreads, NEW d \in Calls
      PROVE  /\ MadeBy(p, d)' <=> MadeBy(p, d)
             /\ RunBy(p, d)' <=> RunBy(p, d) /\ ~(p = o /\ d = c)
  BY <1>2 DEF MadeBy, RunBy, Executing
<1>6. ASSUME NEW p \in OSThreads, NEW d \in Calls, NEW e \in Calls, On(p, d)', On(p, e)', Above(p, d, e)
      PROVE  Above(p, d, e)'
  <2>1. ~(p = o /\ d = c) /\ ~(p = o /\ e = c)
    BY <1>1, <1>2, <1>6, PopFact DEF IInv, Shape
  <2>2. QED
    BY <1>2, <1>5, <1>6, <2>1 DEF Above
<1>7. Sorted' /\ Stacked' /\ Alternate'
  <2>1. \A p \in OSThreads, d \in Calls :
           MadeBy(p, d)' \/ RunBy(p, d)' <=> (MadeBy(p, d) \/ RunBy(p, d)) /\ ~(p = o /\ d = Top(o))
    BY <1>2, <1>5
  <2>2. QED
    BY <1>1, <1>2, <1>6, <2>1, ShapePop
<1>8. QED
  BY <1>3, <1>4, <1>7 DEF Shape

----------------------------------------------------------------------------
(* A request is sent, to the thread the caller has an entry for or to a new *)
(* worker, which the tree vp has in addition to up.                        *)

Creates(up, vp, c, w) ==
    /\ Entry(at[c], via[c]) = None
    /\ w \in Workers /\ made[w] = None /\ made'[w] # None /\ stack[w] = <<>>
    /\ vp[w] = <<at[c], via[c]>>
    /\ \A v \in Workers, p \in OSThreads, j \in Connections :
          ParentLink(vp, p, v, j)' =>
              \/ v # w /\ ParentLink(up, p, v, j)
              \/ v = w /\ p = at[c] /\ j = via[c]
    /\ \A d \in Calls : at[d] # w /\ to[d] # w
    /\ \A j \in Connections : Up(w, j)' => Entry(w, j)' = None

Finds(up, vp, c, w) ==
    /\ Entry(at[c], via[c]) = w
    /\ Link(up, at[c], w, via[c])
    /\ UNCHANGED made /\ vp = up

Sends(up, vp, c, w) ==
    /\ UNCHANGED <<connected, address, stack, at, via, inserted>>
    /\ at[c] \in OSThreads /\ via[c] \in Connections /\ Up(at[c], via[c])
    /\ MadeBy(at[c], c) /\ On(at[c], c) /\ Top(at[c]) = c /\ stack[at[c]] # <<>>
    /\ caller[c] = "posting" /\ caller'[c] = "waiting"
    /\ request[c] = "none" /\ request'[c] = "sent"
    /\ to[c] = None /\ to'[c] = w /\ w # at[c]
    /\ \A d \in Calls : d # c => caller'[d] = caller[d] /\ request'[d] = request[d] /\ to'[d] = to[d]
    /\ \A p \in OSThreads : Side(p) \in Sides => Side(p)' = Side(p)
    /\ \A v \in Workers : made[v] # None => made'[v] = made[v] /\ vp[v] = up[v]
    /\ \A p \in OSThreads, j \in Connections :
          /\ Up(p, j) => /\ Up(p, j)'
                         /\ Entry(p, j)' = IF p = at[c] /\ j = via[c] THEN w ELSE Entry(p, j)
          /\ Up(p, j)' => Up(p, j) \/ (p = w /\ Creates(up, vp, c, w))
    /\ Creates(up, vp, c, w) \/ Finds(up, vp, c, w)

LEMMA SendFact ==
    ASSUME IInv, IInv', NEW up \in Parents, Nested(up), NEW c \in Calls, LoopSend(c)
    PROVE  \E w \in OSThreads, vp \in Parents : Sends(up, vp, c, w)
<1>1. /\ UNCHANGED <<connected, address, stack, at, via, inserted>>
      /\ caller[c] = "posting" /\ caller' = [caller EXCEPT ![c] = "waiting"]
      /\ request' = [request EXCEPT ![c] = "sent"]
      /\ Here(c)
  BY DEF LoopSend, SetCaller, SetRequest
<1>2. PICK w \in OSThreads : RequestThread(at[c], via[c], w) /\ to' = [to EXCEPT ![c] = w]
  BY DEF LoopSend
<1>3. PICK o, k : o = at[c] /\ k = via[c]
  OBVIOUS
<1>4. /\ None \notin OSThreads /\ None \notin Sides
      /\ o # None /\ to[c] = None /\ request[c] = "none"
  BY <1>1, <1>3, NoneAssumption DEF IInv, Control, OSThreads, Sides
<1>5. /\ o \in OSThreads /\ k \in Connections /\ Side(o) \in Sides /\ Up(o, k)
      /\ address[<<k, Side(o)>>] \in Addresses
  <2>1. o \in OSThreads /\ k \in Connections /\ Side(o) \in Sides
    BY <1>3, <1>4 DEF IInv, Maps, Opposite, TypeOK
  <2>2. Up(o, k)
    BY <1>1, <1>3 DEF Here, Up
  <2>3. QED
    BY <2>1, <2>2, AddressOfUp DEF IInv, Maps
<1>6. MadeBy(o, c) /\ On(o, c) /\ Top(o) = c /\ stack[o] # <<>>
  <2>1. Shape /\ MadeBy(o, c)
    BY <1>1, <1>3 DEF Nested, MadeBy, Open
  <2>2. QED
    BY <1>1, <1>5, <2>1, StackFact, TopFact
<1>7. /\ caller'[c] = "waiting" /\ request'[c] = "sent" /\ to'[c] = w
      /\ \A d \in Calls : d # c => caller'[d] = caller[d] /\ request'[d] = request[d] /\ to'[d] = to[d]
  BY <1>1, <1>2 DEF IInv, TypeOK
<1>8. \/ /\ Entry(o, k) = w
         /\ UNCHANGED <<made, request_threads>>
      \/ /\ Entry(o, k) = None
         /\ w \in Workers /\ made[w] = None
         /\ made' = [made EXCEPT ![w] = Peer(Side(o))]
         /\ SetEntry(o, k, w)
  BY <1>2, <1>3, <1>5, RequestThreadFact
<1>9. CASE Entry(o, k) = w /\ UNCHANGED <<made, request_threads>>
  <2>1. Link(up, o, w, k)
    BY <1>4, <1>5, <1>9 DEF Nested, Tree, EntryLinks
  <2>2. w # o
    BY <1>4, <1>5, <1>9 DEF IInv, Maps, EntriesOpposite, Entry, Peer, Sides
  <2>3. Finds(up, up, c, w)
    BY <1>3, <1>9, <2>1 DEF Finds
  <2>4. \A p \in OSThreads : Side(p)' = Side(p)
    BY <1>9 DEF Side
  <2>5. \A p \in OSThreads, j \in Connections :
           Up(p, j)' = Up(p, j) /\ Entry(p, j)' = Entry(p, j)
    BY <1>1, <1>9, <2>4 DEF Up, Entry
  <2>6. Sends(up, up, c, w)
    BY <1>1, <1>3, <1>4, <1>5, <1>6, <1>7, <1>9, <2>2, <2>3, <2>4, <2>5 DEF Sends
  <2>7. QED
    BY <2>6
<1>10. CASE /\ Entry(o, k) = None
            /\ w \in Workers /\ made[w] = None
            /\ made' = [made EXCEPT ![w] = Peer(Side(o))]
            /\ SetEntry(o, k, w)
  <2> DEFINE vp == [up EXCEPT ![w] = <<o, k>>]
  <2>1. /\ vp \in Parents /\ vp[w] = <<o, k>> /\ \A v \in Workers : v # w => vp[v] = up[v]
    BY <1>5, <1>10 DEF Parents
  <2>2. /\ made'[w] = Peer(Side(o)) /\ \A v \in Workers : v # w => made'[v] = made[v]
    BY <1>10 DEF IInv, TypeOK
  <2>3. /\ \A a \in Addresses : request_threads[w][a] = None
        /\ \A d \in Calls : at[d] # w /\ to[d] # w
    BY <1>10, NewThread
  <2>4. stack[w] = <<>> /\ w # o
    <3>1. w # o
      BY <1>3, <2>3
    <3>2. \A d \in Calls : ~MadeBy(w, d) /\ ~RunBy(w, d)
      BY <2>3 DEF MadeBy, RunBy
    <3>3. QED
      BY <3>1, <3>2, StackFact DEF Nested
  <2>5. \A p \in OSThreads : Side(p) \in Sides => Side(p)' = Side(p)
    BY <1>4, <1>10, <2>2 DEF Side, OSThreads
  <2>6. \A p \in OSThreads, a \in Addresses :
           request_threads'[p][a] = IF p = o /\ a = address[<<k, Side(o)>>] THEN w
                                    ELSE request_threads[p][a]
    BY <1>5, <1>10, EntrySet DEF IInv
  <2>7. ASSUME NEW p \in OSThreads, NEW j \in Connections, Up(p, j)
        PROVE  /\ Up(p, j)'
               /\ Entry(p, j)' = IF p = o /\ j = k THEN w ELSE Entry(p, j)
    <3>1. address[<<j, Side(p)>>] \in Addresses /\ Side(p) \in Sides
      BY <2>7, AddressOfUp DEF IInv, Maps
    <3>2. Side(p)' = Side(p) /\ Up(p, j)' /\ Entry(p, j)' = request_threads'[p][address[<<j, Side(p)>>]]
      BY <1>1, <2>5, <2>7, <3>1 DEF Up, Entry
    <3>3. p = o /\ address[<<j, Side(p)>>] = address[<<k, Side(o)>>] => j = k
      BY <1>5, <2>7, SameAddress DEF IInv
    <3>4. QED
      BY <2>6, <3>1, <3>2, <3>3 DEF Entry
  <2>8. ASSUME NEW j \in Connections, Up(w, j)'
        PROVE  Entry(w, j)' = None
    <3>1. (address[<<j, Side(w)>>])' \in Addresses
      BY <2>8 DEF IInv, TypeOK, Maps, Addressed, Up, Ends
    <3>2. QED
      BY <2>3, <2>4, <2>6, <3>1 DEF Entry
  <2>9. \A p \in OSThreads, j \in Connections : Up(p, j)' => Up(p, j) \/ p = w
    <3>1. \A p \in OSThreads : p # w => Side(p)' = Side(p)
      BY <2>2 DEF Side, OSThreads
    <3>2. QED
      BY <1>1, <3>1 DEF Up
  <2>10. Creates(up, vp, c, w)
    <3>1. \A v \in Workers, p \in OSThreads, j \in Connections :
          ParentLink(vp, p, v, j)' =>
              \/ v # w /\ ParentLink(up, p, v, j)
              \/ v = w /\ p = o /\ j = k
      BY <2>1, <2>2 DEF ParentLink
    <3>2. made'[w] # None
      BY <2>2, <1>4 DEF Peer, Sides
    <3> HIDE DEF vp
    <3>3. QED
      BY <1>3, <1>10, <2>1, <2>3, <2>4, <2>8, <3>1, <3>2 DEF Creates
  <2>11. \A v \in Workers : made[v] # None => made'[v] = made[v] /\ vp[v] = up[v]
    BY <1>10, <2>1, <2>2
  <2> HIDE DEF vp
  <2>12. Sends(up, vp, c, w)
    BY <1>1, <1>3, <1>4, <1>5, <1>6, <1>7, <2>4, <2>5, <2>7, <2>9, <2>10, <2>11 DEF Sends
  <2>13. QED
    BY <2>1, <2>12
<1>11. QED
  BY <1>8, <1>9, <1>10

LEMMA SendShape ==
    ASSUME IInv, TypeOK', NEW up \in Parents, Nested(up), NEW vp \in Parents,
           NEW c \in Calls, NEW w \in OSThreads, Sends(up, vp, c, w)
    PROVE  Shape' /\ CallsBackToCaller' /\ Bottom(vp)'
<1>1. Shape /\ CallsBackToCaller /\ Bottom(up) /\ StackEntries
  BY DEF Nested, Entries
<1>2. /\ UNCHANGED <<stack, at, via>>
      /\ at[c] \in OSThreads /\ via[c] \in Connections /\ Up(at[c], via[c])
      /\ MadeBy(at[c], c) /\ Top(at[c]) = c
      /\ caller[c] = "posting" /\ caller'[c] = "waiting"
      /\ request[c] = "none" /\ request'[c] = "sent" /\ to[c] = None /\ to'[c] = w
      /\ \A d \in Calls : d # c => caller'[d] = caller[d] /\ request'[d] = request[d] /\ to'[d] = to[d]
      /\ \A v \in Workers : made[v] # None => vp[v] = up[v]
      /\ Entry(at[c], via[c]) \in {None, w}
  BY DEF Sends, Creates, Finds
<1>3. \A o \in OSThreads, d \in Calls : On(o, d) /\ d = c => o = at[c]
  BY <1>1, <1>2, StackFact, NoneAssumption DEF MadeBy, RunBy, OSThreads
<1>4. Shape'
  <2>1. ASSUME NEW o \in OSThreads, NEW d \in Calls
        PROVE  /\ MadeBy(o, d)' <=> MadeBy(o, d)
               /\ RunBy(o, d)' <=> RunBy(o, d)
    BY <1>2 DEF MadeBy, RunBy, Open, Executing
  <2>2. ASSUME NEW o \in OSThreads, NEW d \in Calls, On(o, d), d # Top(o)
        PROVE  d # c
    BY <1>2, <1>3, <2>2
  <2>3. \A d \in Calls : caller[d] = "new" <=> caller'[d] = "new"
    BY <1>2
  <2>4. QED
    BY <1>1, <1>2, <2>1, <2>2, <2>3, ShapeFrame
<1>5. CallsBackToCaller'
  <2>1. SUFFICES ASSUME NEW p \in OSThreads, NEW d \in Calls, NEW e \in Calls,
                        On(p, d)', On(p, e)', via[d] = via[e], Partner(p, d)' # None, Partner(p, e)' # None
                 PROVE  Partner(p, d)' = Partner(p, e)'
    BY <1>2, BackStep
  <2>2. On(p, d) /\ On(p, e)
    BY <1>2, <2>1 DEF On
  <2>3. \A b \in Calls : b # c => Partner(p, b)' = Partner(p, b)
    BY <1>2 DEF Partner
  <2>4. ASSUME NEW b \in Calls, On(p, b), b # c, via[b] = via[c], Partner(p, b) # None, On(p, c)
        PROVE  Partner(p, b) = w /\ Partner(p, c)' = w
    <3>1. p = at[c] /\ b # Top(p)
      BY <1>2, <1>3, <2>4
    <3>2. Registered(p, b)
      BY <1>1, <2>4, <3>1, TopFact
    <3>3. Entry(p, via[c]) = Partner(p, b)
      BY <1>1, <1>2, <2>4, <3>1, <3>2 DEF StackEntries
    <3>4. QED
      BY <1>2, <2>4, <3>1, <3>3 DEF Partner
  <2>5. CASE d # c /\ e # c
    BY <1>1, <2>1, <2>2, <2>3, <2>5, BackFact DEF IInv
  <2>6. CASE d = c /\ e # c
    BY <2>1, <2>2, <2>3, <2>4, <2>6
  <2>7. CASE d # c /\ e = c
    BY <2>1, <2>2, <2>3, <2>4, <2>7
  <2>8. QED
    BY <2>5, <2>6, <2>7
<1>6. Bottom(vp)'
  <2>1. SUFFICES ASSUME NEW p \in OSThreads, stack[p] # <<>>, NEW d \in Calls, d = stack[p][1]
                 PROVE  IF p \in Users THEN at[d] = p ELSE to'[d] = p /\ vp[p] = <<at[d], via[d]>>
    <3>1. \A p \in OSThreads : stack[p] # <<>> => stack[p][1] \in Calls
      BY <1>1, StackFact
    <3>2. QED
      BY <1>2, <2>1, <3>1 DEF Bottom
  <2>2. IF p \in Users THEN at[d] = p ELSE to[d] = p /\ up[p] = <<at[d], via[d]>>
    BY <1>1, <2>1 DEF Bottom
  <2>3. CASE p \in Users
    BY <2>2, <2>3
  <2>4. CASE p \notin Users
    <3>1. to[d] = p /\ to[d] # None /\ d # c /\ p \in Workers
      BY <1>2, <2>2, <2>4, NoneAssumption DEF OSThreads
    <3>2. made[p] # None
      BY <2>4, <3>1, CallFact, NoneAssumption DEF Side, Sides
    <3>3. QED
      BY <1>2, <2>2, <2>4, <3>1, <3>2
  <2>5. QED
    BY <2>3, <2>4
<1>7. QED
  BY <1>4, <1>5, <1>6

----------------------------------------------------------------------------
(* The tree.                                                               *)

LEMMA TreeFrame ==
    ASSUME NEW up \in Parents, Tree(up), UNCHANGED <<sideVars, request_threads, to>>,
           \A c \in Calls : to[c] # None => at'[c] = at[c] /\ via'[c] = via[c]
    PROVE  Tree(up)'
<1>1. CallLinks(up)'
  BY DEF Tree, CallLinks, Link, ParentLink, sideVars
<1>2. EntryLinks(up)' /\ ParentEntry(up)'
  BY DEF Tree, EntryLinks, ParentEntry, Link, ParentLink, Up, Entry, Side, sideVars
<1>3. QED
  BY <1>1, <1>2 DEF Tree

\* Entries are removed, or connections begin that no entry is for.
LEMMA TreeRemove ==
    ASSUME NEW up \in Parents, Tree(up), UNCHANGED <<made, at, via, to>>,
           \A o \in OSThreads, k \in Connections :
               Up(o, k)' => Entry(o, k)' = None \/ (Up(o, k) /\ Entry(o, k)' = Entry(o, k))
    PROVE  Tree(up)'
<1>1. CallLinks(up)'
  BY DEF Tree, CallLinks, Link, ParentLink
<1>2. \A o, p \in OSThreads, k \in Connections : Link(up, o, p, k)' <=> Link(up, o, p, k)
  BY DEF Link, ParentLink
<1>3. EntryLinks(up)'
  <2>1. SUFFICES ASSUME NEW o \in OSThreads, NEW k \in Connections, Up(o, k)', Entry(o, k)' # None
                 PROVE  Link(up, o, Entry(o, k), k)'
    BY DEF EntryLinks
  <2>2. Up(o, k) /\ Entry(o, k)' = Entry(o, k)
    BY <2>1
  <2>3. Link(up, o, Entry(o, k), k)
    BY <2>1, <2>2 DEF Tree, EntryLinks
  <2>4. QED
    BY <2>2, <2>3 DEF Link, ParentLink
<1>4. ParentEntry(up)'
  BY DEF Tree, ParentEntry, ParentLink, OSThreads
<1>5. QED
  BY <1>1, <1>3, <1>4 DEF Tree

\* An entry is inserted for the caller of a request on the stack.
LEMMA TreeInsert ==
    ASSUME IInv, NEW up \in Parents, Nested(up), NEW c \in Calls, request[c] = "picked", There(c),
           UNCHANGED <<sideVars, at, via, to>>, SetEntry(to[c], via[c], at[c])
    PROVE  /\ Tree(up)'
           /\ \A o \in OSThreads, k \in Connections : Up(o, k) =>
                 Entry(o, k)' = IF o = to[c] /\ k = via[c] THEN at[c] ELSE Entry(o, k)
<1>1. Shape /\ CallsBackToCaller /\ Bottom(up) /\ CallLinks(up) /\ EntryLinks(up) /\ ParentEntry(up)
  BY DEF Nested, Tree
<1>2. to[c] # None
  BY DEF IInv, Control
<1>3. /\ at[c] \in OSThreads /\ to[c] \in OSThreads /\ via[c] \in Connections /\ at[c] # to[c]
      /\ Up(to[c], via[c]) /\ address[<<via[c], Side(to[c])>>] \in Addresses
  BY <1>2, CallFact
<1>4. \A p \in OSThreads, a \in Addresses :
         request_threads'[p][a] = IF p = to[c] /\ a = address[<<via[c], Side(to[c])>>] THEN at[c]
                                  ELSE request_threads[p][a]
  BY <1>3, EntrySet DEF IInv
<1>5. ASSUME NEW o \in OSThreads, NEW k \in Connections, Up(o, k)
      PROVE  Entry(o, k)' = IF o = to[c] /\ k = via[c] THEN at[c] ELSE Entry(o, k)
  <2>1. address[<<k, Side(o)>>] \in Addresses
    BY <1>5, AddressOfUp DEF IInv, Maps
  <2>2. Entry(o, k)' = request_threads'[o][address[<<k, Side(o)>>]]
    BY DEF Entry, Side, sideVars
  <2>3. o = to[c] /\ address[<<k, Side(o)>>] = address[<<via[c], Side(to[c])>>] => k = via[c]
    BY <1>3, <1>5, SameAddress DEF IInv
  <2>4. QED
    BY <1>4, <2>1, <2>2, <2>3 DEF Entry
<1>6. /\ UNCHANGED made
      /\ \A o, k : Up(o, k)' <=> Up(o, k)
  BY DEF Up, Side, sideVars
<1>7. CallLinks(up)'
  BY <1>1, <1>6 DEF CallLinks, Link, ParentLink
<1>8. EntryLinks(up)'
  <2>1. SUFFICES ASSUME NEW o \in OSThreads, NEW k \in Connections, Up(o, k), Entry(o, k)' # None
                 PROVE  Link(up, o, Entry(o, k), k)'
    BY <1>6 DEF EntryLinks
  <2>2. CASE o = to[c] /\ k = via[c]
    <3>1. Link(up, at[c], to[c], via[c])
      BY <1>1, <1>2 DEF CallLinks
    <3>2. QED
      BY <1>5, <1>6, <2>1, <2>2, <3>1 DEF Link, ParentLink
  <2>3. CASE ~(o = to[c] /\ k = via[c])
    <3>1. Entry(o, k)' = Entry(o, k)
      BY <1>5, <2>1, <2>3
    <3>2. Link(up, o, Entry(o, k), k)
      BY <1>1, <2>1, <3>1 DEF EntryLinks
    <3>3. QED
      BY <1>6, <3>1, <3>2 DEF Link, ParentLink
  <2>4. QED
    BY <2>2, <2>3
<1>9. ParentEntry(up)'
  <2>1. SUFFICES ASSUME NEW w \in Workers, NEW o \in OSThreads, NEW k \in Connections,
                        ParentLink(up, o, w, k), Up(w, k)
                 PROVE  Entry(w, k)' \in {None, o}
    BY <1>6 DEF ParentEntry, ParentLink
  <2>2. w \in OSThreads /\ w \notin Users
    BY ThreadsAssumption DEF OSThreads
  <2>3. CASE w = to[c] /\ k = via[c]
    <3>1. On(w, c) /\ stack[w] # <<>>
      BY <1>1, <2>2, <2>3, StackFact DEF RunBy, Executing
    <3>2. PICK b \in Calls : b = stack[w][1] /\ On(w, b)
      BY <1>1, <2>2, <3>1, StackFact
    <3>3. to[b] = w /\ up[w] = <<at[b], via[b]>>
      BY <1>1, <2>2, <3>1, <3>2 DEF Bottom
    <3>4. at[b] = o /\ via[b] = k /\ to[b] # None
      BY <1>2, <2>1, <2>3, <3>3 DEF ParentLink
    <3>5. at[b] # w /\ at[b] # None /\ at[c] # None
      BY <1>3, <3>3, <3>4, CallFact
    <3>6. Partner(w, b) = o /\ Partner(w, c) = at[c]
      BY <1>3, <2>3, <3>4, <3>5 DEF Partner
    <3>7. o = at[c]
      BY <1>1, <2>2, <2>3, <3>1, <3>2, <3>4, <3>5, <3>6, BackFact DEF IInv
    <3>8. QED
      BY <1>5, <2>1, <2>2, <2>3, <3>7
  <2>4. CASE ~(w = to[c] /\ k = via[c])
    BY <1>1, <1>5, <2>1, <2>2, <2>4 DEF ParentEntry
  <2>5. QED
    BY <2>3, <2>4
<1>10. QED
  BY <1>5, <1>7, <1>8, <1>9 DEF Tree

LEMMA SendTree ==
    ASSUME IInv, NEW up \in Parents, Nested(up), NEW vp \in Parents,
           NEW c \in Calls, NEW w \in OSThreads, Sends(up, vp, c, w)
    PROVE  Tree(vp)'
<1>1. Shape /\ Bottom(up) /\ StackEntries /\ CallLinks(up) /\ EntryLinks(up) /\ ParentEntry(up)
  BY DEF Nested, Tree, Entries
<1>2. /\ UNCHANGED <<at, via>>
      /\ at[c] \in OSThreads /\ via[c] \in Connections /\ Up(at[c], via[c])
      /\ Top(at[c]) = c /\ stack[at[c]] # <<>> /\ to[c] = None /\ to'[c] = w
      /\ \A d \in Calls : d # c => to'[d] = to[d]
      /\ \A v \in Workers : made[v] # None => made'[v] = made[v] /\ vp[v] = up[v]
      /\ \A p \in OSThreads, j \in Connections :
            /\ Up(p, j) => Entry(p, j)' = IF p = at[c] /\ j = via[c] THEN w ELSE Entry(p, j)
            /\ Up(p, j)' => Up(p, j) \/ (p = w /\ Creates(up, vp, c, w))
      /\ Creates(up, vp, c, w) \/ Finds(up, vp, c, w)
  BY DEF Sends
<1>3. \A p, v \in OSThreads, j \in Connections : Link(up, p, v, j) => Link(vp, p, v, j)'
  BY <1>2 DEF Link, ParentLink
<1>4. Link(vp, at[c], w, via[c])'
  <2>1. CASE Creates(up, vp, c, w)
    BY <1>2, <2>1 DEF Creates, Link, ParentLink
  <2>2. CASE Finds(up, vp, c, w)
    BY <1>2, <2>2 DEF Finds, Link, ParentLink
  <2>3. QED
    BY <1>2, <2>1, <2>2
<1>5. CallLinks(vp)'
  <2>1. SUFFICES ASSUME NEW d \in Calls, to'[d] # None
                 PROVE  Link(vp, at[d], to[d], via[d])'
    BY DEF CallLinks
  <2>2. CASE d = c
    BY <1>2, <1>4, <2>2 DEF Link, ParentLink
  <2>3. CASE d # c
    <3>1. to[d] # None /\ to'[d] = to[d] /\ Link(up, at[d], to[d], via[d])
      BY <1>1, <1>2, <2>1, <2>3 DEF CallLinks
    <3>2. at[d] \in OSThreads /\ to[d] \in OSThreads /\ via[d] \in Connections
      BY <3>1, CallFact
    <3>3. QED
      BY <1>2, <1>3, <3>1, <3>2 DEF Link, ParentLink
  <2>4. QED
    BY <2>2, <2>3
<1>6. EntryLinks(vp)'
  <2>1. SUFFICES ASSUME NEW p \in OSThreads, NEW j \in Connections, Up(p, j)', Entry(p, j)' # None
                 PROVE  Link(vp, p, Entry(p, j), j)'
    BY DEF EntryLinks
  <2>2. Up(p, j)
    BY <1>2, <2>1 DEF Creates
  <2>3. CASE p = at[c] /\ j = via[c]
    BY <1>2, <1>4, <2>2, <2>3 DEF Link, ParentLink
  <2>4. CASE ~(p = at[c] /\ j = via[c])
    <3>1. Entry(p, j)' = Entry(p, j)
      BY <1>2, <2>2, <2>4
    <3>2. Link(up, p, Entry(p, j), j)
      BY <1>1, <2>1, <2>2, <3>1 DEF EntryLinks
    <3>3. QED
      BY <1>2, <3>1, <3>2 DEF Link, ParentLink
  <2>5. QED
    BY <2>3, <2>4
<1>7. ParentEntry(vp)'
  <2>1. SUFFICES ASSUME NEW v \in Workers, NEW p \in OSThreads, NEW j \in Connections,
                        ParentLink(vp, p, v, j)', Up(v, j)'
                 PROVE  Entry(v, j)' \in {None, p}
    BY DEF ParentEntry
  <2>2. v \in OSThreads /\ v \notin Users
    BY ThreadsAssumption DEF OSThreads
  <2>3. CASE Creates(up, vp, c, w)
    <3>1. CASE v = w
      BY <2>1, <2>3, <3>1 DEF Creates
    <3>2. CASE v # w
      <4>1. ParentLink(up, p, v, j) /\ Up(v, j)
        BY <1>2, <2>1, <2>2, <2>3, <3>2 DEF Creates
      <4>2. ~(v = at[c] /\ j = via[c])
        <5>1. SUFFICES ASSUME v = at[c], j = via[c] PROVE FALSE
          OBVIOUS
        <5>2. PICK b \in Calls : b = stack[v][1] /\ On(v, b)
          BY <1>1, <1>2, <2>2, <5>1, StackFact
        <5>3. to[b] = v /\ at[b] = p /\ via[b] = j
          BY <1>1, <1>2, <2>2, <4>1, <5>1, <5>2 DEF Bottom, ParentLink
        <5>4. to[b] # None /\ b # c
          BY <1>2, <2>2, <5>3, NoneAssumption DEF OSThreads
        <5>5. Registered(v, b)
          BY <1>1, <1>2, <2>2, <5>1, <5>2, <5>4, TopFact
        <5>6. Entry(v, j) = p
          BY <1>1, <1>2, <2>2, <5>1, <5>2, <5>3, <5>4, <5>5, CallFact DEF StackEntries, Partner
        <5>7. QED
          BY <2>3, <5>1, <5>6, NoneAssumption DEF Creates, OSThreads
      <4>3. QED
        BY <1>1, <1>2, <2>2, <4>1, <4>2 DEF ParentEntry
    <3>3. QED
      BY <3>1, <3>2
  <2>4. CASE ~Creates(up, vp, c, w) /\ Finds(up, vp, c, w)
    <3>1. Up(v, j) /\ ParentLink(up, p, v, j)
      BY <1>2, <2>1, <2>2, <2>4 DEF Finds, ParentLink
    <3>2. Entry(v, j)' = Entry(v, j)
      BY <1>2, <2>2, <2>4, <3>1 DEF Finds
    <3>3. QED
      BY <1>1, <3>1, <3>2 DEF ParentEntry
  <2>5. QED
    BY <1>2, <2>3, <2>4
<1>8. QED
  BY <1>5, <1>6, <1>7 DEF Tree

----------------------------------------------------------------------------
(* Where a request that has been sent will find its thread.                *)

\* The thread a call is sent to waits for the last call over the connection
\* that the calling thread executes.
LEMMA SendMeets ==
    ASSUME IInv, NEW up \in Parents, Nested(up), NEW vp \in Parents,
           NEW c \in Calls, NEW w \in OSThreads, Sends(up, vp, c, w), Alive(via[c]),
           Link(up, at[c], w, via[c]), ParentLink(up, w, at[c], via[c]) \/ stack[w] # <<>>
    PROVE  \E d \in Calls :
              /\ stack[w] # <<>> /\ d = Top(w) /\ On(w, d) /\ MadeBy(w, d) /\ RunBy(at[c], d)
              /\ via[d] = via[c] /\ caller[d] = "waiting" /\ d < c
              /\ \A e \in Calls : On(at[c], e) /\ via[e] = via[c] /\ to[e] # None => e <= d
<1>1. Shape /\ CallsBackToCaller /\ Awaited /\ Bottom(up)
  BY DEF Nested
<1>2. PICK o, k : o = at[c] /\ k = via[c]
  OBVIOUS
<1>3. /\ o \in OSThreads /\ k \in Connections
      /\ Top(o) = c /\ stack[o] # <<>> /\ to[c] = None /\ w # o
  BY <1>2 DEF Sends
<1>4. None \notin OSThreads
  BY NoneAssumption DEF OSThreads
\* The first call on the stack of the child.
<1>5. \E b \in Calls : On(o, b) /\ to[b] # None /\ via[b] = k /\ Partner(o, b) = w
  <2>1. CASE ParentLink(up, w, o, k)
    <3>1. o \notin Users
      BY <2>1, ThreadsAssumption DEF ParentLink
    <3>2. PICK b \in Calls : b = stack[o][1] /\ On(o, b)
      BY <1>1, <1>3, StackFact
    <3>3. to[b] = o /\ at[b] = w /\ via[b] = k
      BY <1>1, <1>3, <2>1, <3>1, <3>2 DEF Bottom, ParentLink
    <3>4. QED
      BY <1>3, <1>4, <3>2, <3>3 DEF Partner
  <2>2. CASE ParentLink(up, o, w, k) /\ stack[w] # <<>>
    <3>1. w \notin Users
      BY <2>2, ThreadsAssumption DEF ParentLink
    <3>2. PICK b \in Calls : b = stack[w][1] /\ On(w, b)
      BY <1>1, <2>2, StackFact
    <3>3. to[b] = w /\ at[b] = o /\ via[b] = k
      BY <1>1, <2>2, <3>1, <3>2 DEF Bottom, ParentLink
    <3>4. RunBy(w, b)
      BY <1>1, <1>3, <3>2, <3>3, StackFact DEF MadeBy
    <3>5. to[b] # None /\ request[b] # "answered"
      BY <1>4, <3>3, <3>4 DEF RunBy, Executing
    <3>6. On(o, b)
      BY <1>1, <1>2, <3>3, <3>5, CallerFact
    <3>7. QED
      BY <3>3, <3>5, <3>6 DEF Partner
  <2>3. QED
    BY <1>2, <2>1, <2>2 DEF Link
<1>6. PICK b \in Calls : On(o, b) /\ to[b] # None /\ via[b] = k /\ Partner(o, b) = w
  BY <1>5
<1>7. PICK d \in Calls : /\ RunBy(o, d) /\ at[d] = w /\ via[d] = k
                         /\ stack[w] # <<>> /\ Top(w) = d /\ MadeBy(w, d) /\ caller[d] = "waiting"
                         /\ \A e \in Calls : On(o, e) /\ via[e] = k /\ to[e] # None => e <= d
  BY <1>1, <1>2, <1>3, <1>6, Token
<1>8. On(w, d) /\ On(o, d)
  BY <1>1, <1>3, <1>7, StackFact
<1>9. d < c
  <2>1. d <= c
    BY <1>1, <1>3, <1>8, StackFact
  <2>2. d # c
    BY <1>3, <1>4, <1>7 DEF RunBy
  <2>3. QED
    BY <2>1, <2>2, CallNumbers
<1>10. QED
  BY <1>2, <1>7, <1>8, <1>9

----------------------------------------------------------------------------
(* What connections that begin and end leave as it is.                     *)

LEMMA ConnectFact ==
    ASSUME IInv, NEW k \in Connections, Connect(k)
    PROVE  /\ UNCHANGED <<made, request_threads, stack, callVars, requestVars>>
           /\ \A o \in OSThreads, j \in Connections :
                 /\ Up(o, j) => j # k
                 /\ j # k => (Up(o, j)' <=> Up(o, j))
                 /\ j # k /\ Side(o) \in Sides =>
                       address'[<<j, Side(o)>>] = address[<<j, Side(o)>>] /\ Entry(o, j)' = Entry(o, j)
                 /\ Up(o, j)' => Side(o) \in Sides
                 /\ Up(o, k)' => Entry(o, k)' = None
           /\ \A c \in Calls : at[c] # None =>
                 /\ via[c] \in Connections /\ via[c] # k
                 /\ There(c)' = There(c) /\ Alive(via[c])' = Alive(via[c])
<1>1. /\ UNCHANGED <<made, request_threads, stack, callVars, requestVars>>
      /\ \A j \in Connections, s \in Sides : (j < k) <=> (address[<<j, s>>] # 0)
      /\ connected' = connected \union ({k} \X Sides)
  BY DEF Connect
<1>2. PICK a \in [Sides -> 1..k] :
         /\ \A e \in connected : address[e] # a[e[2]]
         /\ address' = [e \in Ends |-> IF e[1] = k THEN a[e[2]] ELSE address[e]]
  BY DEF Connect
<1>3. /\ k \in 1..MaxConnections /\ MaxConnections \in Nat /\ ~(k < k)
      /\ \A s \in Sides : address[<<k, s>>] = 0 /\ a[s] \in Addresses
  BY <1>1, <1>2, BoundsAssumption DEF Connections, Addresses
<1>4. \A e \in connected : e \in Ends /\ e[1] # k
  BY <1>3 DEF IInv, TypeOK, Maps, Addressed, Ends
<1>5. \A j \in Connections : \A s : <<j, s>> \in connected' <=> <<j, s>> \in connected \/ (j = k /\ s \in Sides)
  BY <1>1
<1>6. ASSUME NEW o \in OSThreads, NEW j \in Connections
      PROVE  /\ Up(o, j) => j # k
             /\ j # k => (Up(o, j)' <=> Up(o, j))
             /\ j # k /\ Side(o) \in Sides =>
                   address'[<<j, Side(o)>>] = address[<<j, Side(o)>>] /\ Entry(o, j)' = Entry(o, j)
             /\ Up(o, j)' => Side(o) \in Sides
             /\ Up(o, k)' => Entry(o, k)' = None
  <2>1. Side(o)' = Side(o)
    BY <1>1 DEF Side
  <2>2. Up(o, j) => j # k
    BY <1>4 DEF Up
  <2>3. j # k => (Up(o, j)' <=> Up(o, j))
    BY <1>5, <2>1 DEF Up
  <2>4. j # k /\ Side(o) \in Sides =>
           address'[<<j, Side(o)>>] = address[<<j, Side(o)>>] /\ Entry(o, j)' = Entry(o, j)
    BY <1>1, <1>2, <2>1 DEF Entry, Ends
  <2>5. \A i \in Connections : Up(o, i)' => Side(o) \in Sides
    BY <1>4, <1>5, <2>1 DEF Up, Ends
  <2>6. ASSUME Up(o, k)'
        PROVE  Entry(o, k)' = None
    <3>1. Side(o) \in Sides
      BY <2>5, <2>6
    <3>2. Entry(o, k)' = request_threads[o][a[Side(o)]]
      BY <1>1, <1>2, <2>1, <3>1 DEF Entry, Ends
    <3>3. a[Side(o)] \in Addresses
      BY <1>3, <3>1
    <3>4. request_threads[o][a[Side(o)]] # None =>
             \E e \in connected : e[2] = Side(o) /\ address[e] = a[Side(o)]
      BY <3>3 DEF IInv, TypeOK
    <3>5. QED
      BY <1>2, <3>2, <3>4
  <2>7. QED
    BY <2>2, <2>3, <2>4, <2>5, <2>6
<1>7. ASSUME NEW c \in Calls, at[c] # None
      PROVE  /\ via[c] \in Connections /\ via[c] # k
             /\ There(c)' = There(c) /\ Alive(via[c])' = Alive(via[c])
  <2>1. via[c] \in Connections /\ via[c] # k
    BY <1>3, <1>7 DEF IInv, Maps, Opposite, Sides
  <2>2. There(c)' = There(c)
    BY <1>1, <1>5, <2>1 DEF There, Side, callVars
  <2>3. Alive(via[c])' = Alive(via[c])
    BY <1>1, <1>5, <2>1 DEF Alive, callVars
  <2>4. QED
    BY <2>1, <2>2, <2>3
<1>8. QED
  BY <1>1, <1>6, <1>7

LEMMA DisconnectFact ==
    ASSUME IInv, NEW k \in Connections, NEW s \in Sides, Disconnect(k, s)
    PROVE  /\ UNCHANGED <<address, made, stack, callVars, to, inserted>>
           /\ \A o \in OSThreads, j \in Connections :
                 Up(o, j)' => Up(o, j) /\ Entry(o, j)' = Entry(o, j)
           /\ \A c \in Calls : /\ There(c)' => There(c)
                               /\ Alive(via[c])' => Alive(via[c])
                               /\ request'[c] = request[c] \/ (request[c] = "queued" /\ request'[c] = "lost")
                               /\ request'[c] = "queued" /\ There(c) => There(c)'
<1>1. /\ UNCHANGED <<address, made, stack, callVars, to, inserted>>
      /\ <<k, s>> \in connected /\ connected' = connected \ {<<k, s>>}
      /\ request' = [c \in Calls |->
            IF request[c] = "queued" /\ via[c] = k /\ Side(to[c]) = s THEN "lost" ELSE request[c]]
      /\ request_threads' = [o \in OSThreads |->
            IF Side(o) = s THEN [request_threads[o] EXCEPT ![address[<<k, s>>]] = None]
            ELSE request_threads[o]]
  BY DEF Disconnect, EraseEntries
<1>2. request_threads \in [OSThreads -> [Addresses -> OSThreads \union {None}]]
  BY DEF IInv, TypeOK
<1>3. ASSUME NEW o \in OSThreads, NEW j \in Connections, Up(o, j)'
      PROVE  Up(o, j) /\ Entry(o, j)' = Entry(o, j)
  <2>1. Side(o)' = Side(o) /\ Up(o, j) /\ <<j, Side(o)>> # <<k, s>>
    BY <1>1, <1>3 DEF Side, Up
  <2>2. address[<<j, Side(o)>>] \in Addresses
    BY <2>1, AddressOfUp DEF IInv, Maps
  <2>3. Side(o) = s => address[<<j, Side(o)>>] # address[<<k, s>>]
    BY <1>1, <2>1, SameAddress DEF Up, IInv
  <2>4. QED
    BY <1>1, <1>2, <2>1, <2>2, <2>3 DEF Entry
<1>4. ASSUME NEW c \in Calls
      PROVE  /\ There(c)' => There(c)
             /\ Alive(via[c])' => Alive(via[c])
             /\ request'[c] = request[c] \/ (request[c] = "queued" /\ request'[c] = "lost")
             /\ request'[c] = "queued" /\ There(c) => There(c)'
  <2>1. request'[c] = request[c] \/ (request[c] = "queued" /\ request'[c] = "lost")
    BY <1>1
  <2>2. There(c)' => There(c)
    BY <1>1 DEF There, Side, callVars
  <2>3. Alive(via[c])' => Alive(via[c])
    BY <1>1 DEF Alive, callVars
  <2>4. ASSUME request'[c] = "queued", There(c)
        PROVE  There(c)'
    <3>1. request[c] = "queued" /\ ~(via[c] = k /\ Side(to[c]) = s)
      BY <1>1, <2>4
    <3>2. There(c) = Up(to[c], via[c]) /\ Side(to[c]) = Peer(Side(at[c]))
      BY <3>1, SentFact
    <3>3. QED
      BY <1>1, <2>4, <3>1, <3>2 DEF There, Side, callVars
  <2>5. QED
    BY <2>1, <2>2, <2>3, <2>4
<1>5. QED
  BY <1>1, <1>3, <1>4

----------------------------------------------------------------------------
(* Entries of the calls on the stacks.                                     *)

LEMMA EntriesFrame ==
    ASSUME Entries, UNCHANGED <<sideVars, request_threads, to, inserted>>,
           \A c \in Calls : to[c] # None => at'[c] = at[c] /\ via'[c] = via[c],
           \A o \in OSThreads, c \in Calls :
              On(o, c)' /\ Registered(o, c)' => On(o, c) /\ Registered(o, c) /\ to[c] # None,
           \A c \in Calls : request'[c] \in {"sent", "queued", "posted", "picked"} =>
              request[c] \in {"sent", "queued", "posted", "picked"} /\ to[c] # None,
           \A c \in inserted :
              /\ c \in Calls /\ to[c] # None /\ request'[c] \in {"running", "returning"}
              /\ \A d \in Calls : On(to[c], d)' /\ d < c => On(to[c], d) /\ via'[d] = via[d]
    PROVE  Entries'
<1>1. UNCHANGED <<connected, address, made, request_threads, to, inserted>>
  BY DEF sideVars
<1>2. StackEntries'
  BY <1>1 DEF Entries, StackEntries, Up, Entry, Side, Partner
<1>3. FreeEntries'
  BY <1>1 DEF Entries, FreeEntries, There, Entry, Side
<1>4. InsertedAlone'
  BY <1>1 DEF Entries, InsertedAlone, Up, Side
<1>5. QED
  BY <1>2, <1>3, <1>4 DEF Entries

\* Requests that inserted an entry are executing it.
LEMMA InsertedFact ==
    ASSUME IInv, Entries, NEW c \in inserted
    PROVE  c \in Calls /\ to[c] # None /\ request[c] \in {"running", "returning"}
BY DEF IInv, TypeOK, Entries, InsertedAlone, Control

LEMMA CallerEntries ==
    ASSUME IInv, NEW up \in Parents, Nested(up), NEW c \in Calls,
           LoopNotSent(c) \/ LoopResolve(c) \/ LoopAnswer(c) \/ LoopReject(c)
    PROVE  Entries'
<1>1. Entries
  BY DEF Nested
<1>2. UNCHANGED <<sideVars, request_threads, stack, at, via, request, to, inserted>>
  BY StillCaller DEF Still, requestVars
<1>3. \A o \in OSThreads, d \in Calls : On(o, d)' = On(o, d) /\ Registered(o, d)' = Registered(o, d)
  BY <1>2 DEF On, Registered
<1>4. \A d \in Calls : to[d] # None <=> request[d] # "none"
  BY DEF IInv, Control
<1>5. \A o \in OSThreads, d \in Calls : Registered(o, d) => to[d] # None
  BY <1>4 DEF Registered
<1>6. ASSUME NEW d \in inserted
      PROVE  /\ d \in Calls /\ to[d] # None /\ request'[d] \in {"running", "returning"}
             /\ \A e \in Calls : On(to[d], e)' /\ e < d => On(to[d], e) /\ via'[e] = via[e]
  <2>1. d \in Calls /\ to[d] # None /\ request[d] \in {"running", "returning"}
    BY <1>1, InsertedFact
  <2>2. to[d] \in OSThreads
    BY <2>1, CallFact
  <2>3. QED
    BY <1>2, <1>3, <2>1, <2>2
<1>7. QED
  BY <1>1, <1>2, <1>3, <1>4, <1>5, <1>6, EntriesFrame

LEMMA RequestEntries ==
    ASSUME IInv, NEW up \in Parents, Nested(up), NEW c \in Calls,
           Lose(c) \/ LoopReceive(c) \/ LoopPost(c) \/ MethodReturn(c)
    PROVE  Entries'
<1>1. Entries
  BY DEF Nested
<1>2. UNCHANGED <<sideVars, stack, at, via, to>>
  BY StillRequest DEF Still
<1>3. /\ UNCHANGED <<request_threads, inserted>>
      /\ \/ request[c] \in {"sent", "queued"} /\ request' = [request EXCEPT ![c] = "queued"]
         \/ request[c] \in {"sent", "queued"} /\ request' = [request EXCEPT ![c] = "posted"]
         \/ request[c] \in {"sent", "answered"} /\ request' = [request EXCEPT ![c] = "lost"]
         \/ request[c] = "running" /\ request' = [request EXCEPT ![c] = "returning"]
  <2>1. CASE Lose(c)
    BY <2>1 DEF Lose, SetRequest
  <2>2. CASE LoopReceive(c)
    BY <2>2 DEF LoopReceive, SetRequest
  <2>3. CASE LoopPost(c)
    BY <2>3 DEF LoopPost, SetRequest
  <2>4. CASE MethodReturn(c)
    BY <2>4 DEF MethodReturn, SetRequest
  <2>5. QED
    BY <2>1, <2>2, <2>3, <2>4
<1>4. \A d \in Calls : to[d] # None <=> request[d] # "none"
  BY DEF IInv, Control
<1>5. ASSUME NEW d \in Calls
      PROVE  /\ request'[d] \in {"running", "returning"} <=> request[d] \in {"running", "returning"}
             /\ request'[d] \in {"sent", "queued", "posted", "picked"} =>
                   request[d] \in {"sent", "queued", "posted", "picked"}
  BY <1>3 DEF IInv, TypeOK
<1>6. \A o \in OSThreads, d \in Calls : On(o, d)' = On(o, d) /\ Registered(o, d)' = Registered(o, d)
  BY <1>2, <1>5 DEF On, Registered
<1>7. \A o \in OSThreads, d \in Calls : Registered(o, d) => to[d] # None
  BY <1>4 DEF Registered
<1>8. ASSUME NEW d \in inserted
      PROVE  /\ d \in Calls /\ to[d] # None /\ request'[d] \in {"running", "returning"}
             /\ \A e \in Calls : On(to[d], e)' /\ e < d => On(to[d], e) /\ via'[e] = via[e]
  <2>1. d \in Calls /\ to[d] # None /\ request[d] \in {"running", "returning"}
    BY <1>1, InsertedFact
  <2>2. to[d] \in OSThreads
    BY <2>1, CallFact
  <2>3. QED
    BY <1>2, <1>5, <1>6, <2>1, <2>2
<1>9. QED
  BY <1>1, <1>2, <1>3, <1>4, <1>5, <1>6, <1>7, <1>8, EntriesFrame

LEMMA InvokeEntries ==
    ASSUME IInv, NEW up \in Parents, Nested(up),
           NEW c \in Calls, NEW o \in OSThreads, NEW k \in Connections, Invoke(c, o, k)
    PROVE  Entries'
<1>1. Entries /\ Shape
  BY DEF Nested
<1>2. /\ UNCHANGED <<sideVars, request_threads, request, to, inserted>>
      /\ Push(o, c) /\ to[c] = None /\ request[c] = "none" /\ at'[c] = o
      /\ \A d \in Calls : d # c => at'[d] = at[d] /\ via'[d] = via[d]
      /\ \A d \in Calls, p \in OSThreads : On(p, d) \/ to[d] # None => d < c /\ d # c
  BY <1>1, InvokeFact DEF requestVars
<1>3. \A p \in OSThreads, d \in Calls : On(p, d)' => d = c \/ On(p, d)
  BY <1>2, PushFact DEF IInv
<1>4. \A d \in Calls : to[d] # None <=> request[d] # "none"
  BY DEF IInv, Control
<1>5. ASSUME NEW p \in OSThreads, NEW d \in Calls, On(p, d)', Registered(p, d)'
      PROVE  On(p, d) /\ Registered(p, d) /\ to[d] # None
  <2>1. to[d] # None
    BY <1>2, <1>4, <1>5 DEF Registered
  <2>2. d # c
    BY <1>2, <2>1
  <2>3. QED
    BY <1>2, <1>3, <1>5, <2>1, <2>2 DEF Registered
<1>6. ASSUME NEW d \in inserted
      PROVE  /\ d \in Calls /\ to[d] # None /\ request'[d] \in {"running", "returning"}
             /\ \A e \in Calls : On(to[d], e)' /\ e < d => On(to[d], e) /\ via'[e] = via[e]
  <2>1. d \in Calls /\ to[d] # None /\ request[d] \in {"running", "returning"}
    BY <1>1, InsertedFact
  <2>2. to[d] \in OSThreads /\ d < c
    BY <1>2, <2>1, CallFact
  <2>3. \A e \in Calls : e < d => e # c
    BY <2>1, <2>2, CallNumbers
  <2>4. QED
    BY <1>2, <1>3, <2>1, <2>2, <2>3
<1>7. QED
  BY <1>1, <1>2, <1>4, <1>5, <1>6, EntriesFrame

LEMMA PickUpEntries ==
    ASSUME IInv, NEW up \in Parents, Nested(up), NEW o \in OSThreads, NEW c \in Calls, PickUp(o, c)
    PROVE  Entries'
<1>1. Entries /\ Shape
  BY DEF Nested
<1>2. /\ UNCHANGED <<sideVars, request_threads, at, via, to, inserted>> /\ Push(o, c)
      /\ to[c] = o /\ request[c] = "posted" /\ request'[c] = "picked" /\ at[c] # o
      /\ \A d \in Calls : d # c => request'[d] = request[d]
      /\ \A d \in Calls : On(o, d) => d < c /\ d # c
  BY PickUpFact DEF callVars
<1>3. \A p \in OSThreads, d \in Calls : On(p, d)' => (p = o /\ d = c) \/ On(p, d)
  BY <1>2, PushFact DEF IInv
<1>4. \A d \in Calls : to[d] # None <=> request[d] # "none"
  BY DEF IInv, Control
<1>5. ASSUME NEW p \in OSThreads, NEW d \in Calls, On(p, d)', Registered(p, d)'
      PROVE  On(p, d) /\ Registered(p, d) /\ to[d] # None
  <2>1. Registered(p, d) /\ ~(p = o /\ d = c)
    BY <1>2, <1>5 DEF Registered
  <2>2. QED
    BY <1>3, <1>4, <1>5, <2>1 DEF Registered
<1>6. ASSUME NEW d \in inserted
      PROVE  /\ d \in Calls /\ to[d] # None /\ request'[d] \in {"running", "returning"}
             /\ \A e \in Calls : On(to[d], e)' /\ e < d => On(to[d], e) /\ via'[e] = via[e]
  <2>1. d \in Calls /\ to[d] # None /\ request[d] \in {"running", "returning"}
    BY <1>1, InsertedFact
  <2>2. to[d] \in OSThreads
    BY <2>1, CallFact
  <2>3. to[d] = o => d < c
    <3>1. RunBy(to[d], d)
      BY <2>1 DEF RunBy, Executing
    <3>2. QED
      BY <1>1, <1>2, <2>1, <2>2, <3>1, StackFact
  <2>4. \A e \in Calls : e < d /\ to[d] = o => e # c
    BY <2>1, <2>3, CallNumbers
  <2>5. QED
    BY <1>2, <1>3, <2>1, <2>2, <2>4
<1>7. QED
  BY <1>1, <1>2, <1>4, <1>5, <1>6, EntriesFrame

LEMMA PopEntries ==
    ASSUME IInv, NEW up \in Parents, Nested(up), NEW o \in OSThreads, stack[o] # <<>>, Pop(o),
           UNCHANGED <<sideVars, request_threads, at, via, to, inserted>>,
           \A c \in Calls : request'[c] = request[c] \/
              (request[c] = "answering" /\ request'[c] \in {"answered", "lost"})
    PROVE  Entries'
<1>1. Entries /\ Shape
  BY DEF Nested
<1>2. \A p \in OSThreads, d \in Calls : On(p, d)' => On(p, d)
  BY <1>1, PopFact DEF IInv, Shape
<1>3. \A d \in Calls : to[d] # None <=> request[d] # "none"
  BY DEF IInv, Control
<1>4. \A p \in OSThreads, d \in Calls : Registered(p, d)' => Registered(p, d) /\ to[d] # None
  BY <1>3 DEF Registered
<1>5. ASSUME NEW d \in inserted
      PROVE  /\ d \in Calls /\ to[d] # None /\ request'[d] \in {"running", "returning"}
             /\ \A e \in Calls : On(to[d], e)' /\ e < d => On(to[d], e) /\ via'[e] = via[e]
  <2>1. d \in Calls /\ to[d] # None /\ request[d] \in {"running", "returning"}
    BY <1>1, InsertedFact
  <2>2. to[d] \in OSThreads
    BY <2>1, CallFact
  <2>3. QED
    BY <1>2, <2>1, <2>2
<1>6. QED
  BY <1>1, <1>2, <1>3, <1>4, <1>5, EntriesFrame

\* No request that is waited for, or begins, at a thread that executes one.
LEMMA Undisturbed ==
    ASSUME IInv, NEW up \in Parents, Nested(up), NEW c \in Calls, RunBy(to[c], c), Top(to[c]) = c,
           NEW d \in Calls, d # c, to[d] = to[c]
    PROVE  ~Coming(d) /\ request[d] # "picked"
<1>1. Shape /\ Expected(up)
  BY DEF Nested
<1>2. to[c] # None
  BY NoneAssumption DEF RunBy, Executing, IInv, Control
<1>3. to[c] \in OSThreads
  BY <1>2, CallFact
<1>4. stack[to[c]] # <<>> /\ ~MadeBy(to[c], c)
  BY <1>1, <1>3, StackFact
<1>5. ~ComesTo(up, d, to[c])
  BY <1>4 DEF ComesTo
<1>6. ~Coming(d)
  BY <1>1, <1>5 DEF Expected
<1>7. request[d] # "picked"
  <2>1. SUFFICES ASSUME request[d] = "picked" PROVE FALSE
    OBVIOUS
  <2>2. RunBy(to[c], d)
    BY <2>1 DEF RunBy, Executing
  <2>3. Top(to[c]) = d
    BY <1>1, <1>3, <2>1, <2>2, TopFact
  <2>4. QED
    BY <2>3
<1>8. QED
  BY <1>6, <1>7

LEMMA RegisterEntries ==
    ASSUME IInv, NEW up \in Parents, Nested(up), NEW c \in Calls,
           request[c] = "picked", There(c), request'[c] = "running",
           \A d \in Calls : d # c => request'[d] = request[d],
           UNCHANGED <<sideVars, stack, at, via, to>>,
           \A o \in OSThreads, k \in Connections : Up(o, k) =>
              Entry(o, k)' = IF o = to[c] /\ k = via[c] THEN at[c] ELSE Entry(o, k),
           \/ inserted' = inserted
           \/ inserted' = inserted \union {c} /\ Entry(to[c], via[c]) = None
    PROVE  Entries'
<1>1. Shape /\ Expected(up) /\ StackEntries /\ FreeEntries /\ InsertedAlone /\ Entries /\ CallsBackToCaller
  BY DEF Nested, Entries
<1>2. to[c] # None
  BY DEF IInv, Control
<1>3. PICK o, k : o = to[c] /\ k = via[c]
  OBVIOUS
<1>4. /\ at[c] \in OSThreads /\ o \in OSThreads /\ k \in Connections /\ at[c] # o
      /\ None \notin OSThreads /\ Up(o, k)
  BY <1>2, <1>3, CallFact
<1>5. RunBy(o, c) /\ On(o, c) /\ Top(o) = c /\ stack[o] # <<>>
  <2>1. RunBy(o, c)
    BY <1>3 DEF RunBy, Executing
  <2>2. QED
    BY <1>1, <1>4, <2>1, StackFact, TopFact
<1>6. \A p \in OSThreads, d \in Calls : On(p, d)' = On(p, d)
  BY DEF On
<1>7. \A p \in OSThreads, j \in Connections : Up(p, j)' = Up(p, j)
  BY DEF Up, Side, sideVars
<1>8. \A d \in Calls : request[d] # "none" <=> to[d] # None
  BY DEF IInv, Control
<1>9. StackEntries'
  <2>1. SUFFICES ASSUME NEW p \in OSThreads, NEW d \in Calls, On(p, d), Registered(p, d)', Up(p, via[d])
                 PROVE  Entry(p, via[d])' = Partner(p, d)
    <3>1. \A p \in OSThreads, d \in Calls :
             On(p, d)' /\ Registered(p, d)' /\ Up(p, via[d])' => Entry(p, via[d])' = Partner(p, d)'
             <=> (On(p, d) /\ Registered(p, d)' /\ Up(p, via[d]) => Entry(p, via[d])' = Partner(p, d))
      BY <1>6 DEF Up, Side, sideVars, Partner
    <3>2. QED
      BY <2>1, <1>6 DEF StackEntries, Up, Side, sideVars, Partner
  <2>2. to[d] # None /\ at[d] # None /\ via[d] \in Connections
    BY <1>2, <1>8, <2>1, CallFact DEF Registered
  <2>3. CASE p = o /\ via[d] = k
    <3>1. Entry(p, via[d])' = at[c] /\ Partner(o, c) = at[c]
      BY <1>3, <1>4, <2>1, <2>3 DEF Partner
    <3>2. Partner(o, d) = Partner(o, c)
      BY <1>1, <1>3, <1>4, <1>5, <2>1, <2>2, <2>3, <3>1, BackFact DEF IInv, Partner
    <3>3. QED
      BY <2>3, <3>1, <3>2
  <2>4. CASE ~(p = o /\ via[d] = k)
    <3>1. Entry(p, via[d])' = Entry(p, via[d])
      BY <1>3, <2>1, <2>2, <2>4
    <3>2. Registered(p, d)
      <4>1. d = c => at[d] = p
        BY <1>1, <1>3, <2>1, <2>4, StackFact DEF MadeBy, RunBy
      <4>2. QED
        BY <2>1, <2>2, <4>1 DEF Registered
    <3>3. QED
      BY <1>1, <2>1, <3>1, <3>2 DEF StackEntries
  <2>5. QED
    BY <2>3, <2>4
<1>10. FreeEntries'
  <2>1. SUFFICES ASSUME NEW d \in Calls, request'[d] \in {"sent", "queued", "posted", "picked"}, There(d)
                 PROVE  Entry(to[d], via[d])' \in {None, at[d]}
    BY DEF FreeEntries, There, Side, sideVars
  <2>2. d # c /\ request[d] \in {"sent", "queued", "posted", "picked"}
    BY <2>1
  <2>3. to[d] # None
    BY <1>8, <2>2
  <2>4. Coming(d) \/ request[d] = "picked"
    BY <2>1, <2>2 DEF Coming
  <2>5. to[d] # o
    BY <1>3, <1>5, <2>2, <2>4, Undisturbed
  <2>6. to[d] \in OSThreads /\ via[d] \in Connections /\ Up(to[d], via[d])
    BY <2>1, <2>3, CallFact
  <2>7. Entry(to[d], via[d])' = Entry(to[d], via[d])
    BY <1>3, <2>5, <2>6
  <2>8. QED
    BY <1>1, <2>1, <2>2, <2>7 DEF FreeEntries
<1>11. InsertedAlone'
  <2>1. SUFFICES ASSUME NEW d \in inserted'
                 PROVE  /\ request'[d] \in {"running", "returning"}
                        /\ \A e \in Calls : On(to[d], e) /\ e < d =>
                             \/ address[<<via[e], Side(to[d])>>] # address[<<via[d], Side(to[d])>>]
                             \/ via[e] # via[d] /\ ~Up(to[d], via[e])
    BY DEF InsertedAlone, Up, Side, sideVars, On
  <2>2. CASE d \in inserted
    <3>1. d # c /\ d \in Calls
      BY <1>1, <2>2, InsertedFact
    <3>2. QED
      BY <1>1, <2>2, <3>1 DEF InsertedAlone
  <2>3. CASE d = c /\ Entry(o, k) = None
    <3>1. SUFFICES ASSUME NEW e \in Calls, On(o, e), e < c,
                          address[<<via[e], Side(o)>>] = address[<<k, Side(o)>>]
                   PROVE  via[e] # k /\ ~Up(o, via[e])
      BY <1>3, <2>3
    <3>2. e # Top(o)
      BY <1>5, <3>1, CallNumbers
    <3>3. Registered(o, e) /\ to[e] # None
      BY <1>1, <1>4, <3>1, <3>2, TopFact
    <3>4. Partner(o, e) # None /\ via[e] \in Connections
      BY <3>3, CallFact DEF Partner
    <3>5. via[e] # k
      BY <1>1, <1>4, <2>3, <3>1, <3>3, <3>4 DEF StackEntries
    <3>6. ~Up(o, via[e])
      BY <1>4, <3>1, <3>4, <3>5, SameAddress DEF IInv
    <3>7. QED
      BY <3>5, <3>6
  <2>4. QED
    BY <1>3, <2>1, <2>2, <2>3
<1>12. QED
  BY <1>9, <1>10, <1>11 DEF Entries

LEMMA SyncRegisterEntries ==
    ASSUME IInv, NEW up \in Parents, Nested(up), NEW c \in Calls, SyncRegister(c)
    PROVE  Tree(up)' /\ Entries'
<1>1. Shape /\ Tree(up) /\ FreeEntries /\ Entries
  BY DEF Nested, Entries
<1>2. UNCHANGED <<sideVars, stack, at, via, to>>
  BY StillRequest DEF Still
<1>3. /\ request[c] = "picked" /\ to[c] # None
      /\ \/ There(c) /\ Register(to[c], c) /\ request' = [request EXCEPT ![c] = "running"]
         \/ ~There(c) /\ request' = [request EXCEPT ![c] = "returning"] /\ UNCHANGED <<request_threads, inserted>>
  BY DEF SyncRegister, SetRequest, IInv, Control
<1>4. \A d \in Calls : d # c => request'[d] = request[d]
  BY <1>3 DEF IInv, TypeOK
<1>5. CASE There(c) /\ Register(to[c], c) /\ request' = [request EXCEPT ![c] = "running"]
  <2>1. request'[c] = "running"
    BY <1>5 DEF IInv, TypeOK
  <2>2. CASE /\ Entry(to[c], via[c]) = None
             /\ SetEntry(to[c], via[c], at[c])
             /\ inserted' = inserted \union {c}
    <3>1. /\ Tree(up)'
          /\ \A o \in OSThreads, k \in Connections : Up(o, k) =>
                Entry(o, k)' = IF o = to[c] /\ k = via[c] THEN at[c] ELSE Entry(o, k)
      BY <1>2, <1>3, <1>5, <2>2, TreeInsert
    <3>2. QED
      BY <1>2, <1>3, <1>4, <1>5, <2>1, <2>2, <3>1, RegisterEntries
  <2>3. CASE Entry(to[c], via[c]) # None /\ UNCHANGED <<request_threads, inserted>>
    <3>1. Tree(up)'
      BY <1>1, <1>2, <2>3, TreeFrame
    <3>2. Entry(to[c], via[c]) = at[c]
      BY <1>1, <1>3, <1>5, <2>3 DEF FreeEntries
    <3>3. \A o \in OSThreads, k \in Connections : Entry(o, k)' = Entry(o, k)
      BY <1>2, <2>3 DEF Entry, Side, sideVars
    <3>4. QED
      BY <1>2, <1>3, <1>4, <1>5, <2>1, <2>3, <3>1, <3>2, <3>3, RegisterEntries
  <2>4. QED
    BY <1>5, <2>2, <2>3 DEF Register
<1>6. CASE ~There(c) /\ request' = [request EXCEPT ![c] = "returning"] /\ UNCHANGED <<request_threads, inserted>>
  <2>1. Tree(up)'
    BY <1>1, <1>2, <1>6, TreeFrame
  <2>2. request'[c] = "returning" /\ There(c) = Up(to[c], via[c])
    BY <1>3, <1>6, CallFact DEF IInv, TypeOK
  <2>3. StackEntries'
    <3>1. SUFFICES ASSUME NEW p \in OSThreads, NEW d \in Calls, On(p, d), Registered(p, d)', Up(p, via[d])
                   PROVE  Entry(p, via[d]) = Partner(p, d)
      BY <1>2, <1>6 DEF StackEntries, On, Up, Entry, Side, Partner, sideVars
    <3>2. d = c => at[d] = p
      BY <1>1, <1>6, <2>2, <3>1, StackFact DEF MadeBy, RunBy
    <3>3. Registered(p, d)
      BY <1>2, <1>4, <3>1, <3>2 DEF Registered
    <3>4. QED
      BY <1>1, <3>1, <3>3 DEF Entries, StackEntries
  <2>4. FreeEntries'
    BY <1>1, <1>2, <1>4, <1>6, <2>2 DEF FreeEntries, There, Entry, Side, sideVars
  <2>5. InsertedAlone'
    <3>1. \A d \in inserted : d # c /\ d \in Calls
      BY <1>1, <1>3, InsertedFact
    <3>2. QED
      BY <1>1, <1>2, <1>4, <1>6, <3>1 DEF Entries, InsertedAlone, On, Up, Side, sideVars
  <2>6. QED
    BY <2>1, <2>3, <2>4, <2>5 DEF Entries
<1>7. QED
  BY <1>3, <1>5, <1>6

\* The entry that a request inserted is removed: no other call on the stack needs it.
LEMMA SyncExitEntries ==
    ASSUME IInv, NEW up \in Parents, Nested(up), NEW c \in Calls, SyncExit(c)
    PROVE  Tree(up)' /\ Entries'
<1>1. Shape /\ Tree(up) /\ StackEntries /\ FreeEntries /\ InsertedAlone /\ Entries
  BY DEF Nested, Entries
<1>2. UNCHANGED <<connected, address, made, stack, at, via, to>>
  BY StillRequest DEF Still, sideVars
<1>3. /\ request[c] = "returning" /\ inserted' = inserted \ {c}
      /\ request' = [request EXCEPT ![c] = "answering"]
      /\ IF c \in inserted THEN SetEntry(to[c], via[c], None) ELSE UNCHANGED request_threads
  BY DEF SyncExit, SetRequest, Unregister
<1>4. request'[c] = "answering" /\ \A d \in Calls : d # c => request'[d] = request[d]
  BY <1>3 DEF IInv, TypeOK
<1>5. PICK o, k : o = to[c] /\ k = via[c]
  OBVIOUS
<1>6. to[c] # None
  BY <1>3 DEF IInv, Control
<1>7. /\ o \in OSThreads /\ k \in Connections /\ at[c] # o
      /\ address[<<k, Side(o)>>] \in Addresses
  BY <1>5, <1>6, CallFact
<1>8. RunBy(o, c) /\ Top(o) = c
  <2>1. RunBy(o, c)
    BY <1>3, <1>5 DEF RunBy, Executing
  <2>2. QED
    BY <1>1, <1>3, <1>7, <2>1, TopFact
<1>9. \A p \in OSThreads, a \in Addresses :
         request_threads'[p][a] = IF c \in inserted /\ p = o /\ a = address[<<k, Side(o)>>] THEN None
                                  ELSE request_threads[p][a]
  <2>1. CASE c \in inserted
    BY <1>3, <1>5, <1>7, <2>1, EntrySet DEF IInv
  <2>2. CASE c \notin inserted
    BY <1>3, <2>2
  <2>3. QED
    BY <2>1, <2>2
<1>10. ASSUME NEW p \in OSThreads, NEW j \in Connections
       PROVE  /\ Up(p, j)' = Up(p, j)
              /\ Up(p, j) =>
                    Entry(p, j)' = IF c \in inserted /\ p = o /\ address[<<j, Side(o)>>] = address[<<k, Side(o)>>]
                                   THEN None ELSE Entry(p, j)
  <2>1. Side(p)' = Side(p)
    BY <1>2 DEF Side
  <2>2. Up(p, j)' = Up(p, j)
    BY <1>2, <2>1 DEF Up
  <2>3. Up(p, j) => address[<<j, Side(p)>>] \in Addresses
    BY AddressOfUp DEF IInv, Maps
  <2>4. QED
    BY <1>2, <1>9, <2>1, <2>2, <2>3 DEF Entry
<1>11. Tree(up)'
  BY <1>1, <1>2, <1>10, TreeRemove
<1>12. StackEntries'
  <2>1. SUFFICES ASSUME NEW p \in OSThreads, NEW d \in Calls, On(p, d), Registered(p, d)', Up(p, via[d])'
                 PROVE  Entry(p, via[d])' = Partner(p, d)
    BY <1>2 DEF StackEntries, On, Up, Entry, Side, Partner
  <2>2. Registered(p, d) /\ ~(p = o /\ d = c)
    BY <1>2, <1>4, <1>7, <2>1 DEF Registered
  <2>3. to[d] # None
    BY <2>2 DEF Registered, IInv, Control
  <2>4. via[d] \in Connections /\ Up(p, via[d])
    BY <1>2, <1>10, <2>1, <2>3, CallFact
  <2>5. Entry(p, via[d]) = Partner(p, d)
    BY <1>1, <2>1, <2>2, <2>4 DEF StackEntries
  <2>6. ~(c \in inserted /\ p = o /\ address[<<via[d], Side(o)>>] = address[<<k, Side(o)>>])
    <3>1. SUFFICES ASSUME c \in inserted, p = o, address[<<via[d], Side(o)>>] = address[<<k, Side(o)>>]
                   PROVE  FALSE
      OBVIOUS
    <3>2. d < c
      BY <1>1, <1>7, <1>8, <2>1, <2>2, <3>1, StackFact, CallNumbers
    <3>3. QED
      BY <1>1, <1>5, <2>1, <2>4, <3>1, <3>2 DEF InsertedAlone
  <2>7. QED
    BY <1>2, <1>10, <2>1, <2>4, <2>5, <2>6
<1>13. FreeEntries'
  <2>1. SUFFICES ASSUME NEW d \in Calls, request'[d] \in {"sent", "queued", "posted", "picked"}, There(d)'
                 PROVE  Entry(to[d], via[d])' \in {None, at[d]}
    BY <1>2 DEF FreeEntries, Entry, Side
  <2>2. request[d] \in {"sent", "queued", "posted", "picked"}
    BY <1>4, <2>1
  <2>3. There(d)
    BY <1>2, <2>1 DEF There, Side
  <2>4. to[d] # None
    BY <2>2 DEF IInv, Control
  <2>5. to[d] \in OSThreads /\ via[d] \in Connections /\ Up(to[d], via[d])
    BY <2>3, <2>4, CallFact
  <2>6. QED
    BY <1>1, <1>2, <1>10, <2>2, <2>3, <2>5 DEF FreeEntries
<1>14. InsertedAlone'
  BY <1>1, <1>2, <1>3, <1>4, InsertedFact DEF InsertedAlone, On, Up, Side
<1>15. QED
  BY <1>11, <1>12, <1>13, <1>14 DEF Entries

LEMMA DisconnectEntries ==
    ASSUME IInv, NEW up \in Parents, Nested(up), NEW k \in Connections, NEW s \in Sides, Disconnect(k, s)
    PROVE  Tree(up)' /\ Entries'
<1>1. Tree(up) /\ StackEntries /\ FreeEntries /\ InsertedAlone /\ Entries
  BY DEF Nested, Entries
<1>2. /\ UNCHANGED <<address, made, stack, at, via, to, inserted>>
      /\ \A o \in OSThreads, j \in Connections :
            Up(o, j)' => Up(o, j) /\ Entry(o, j)' = Entry(o, j)
      /\ \A c \in Calls : /\ There(c)' => There(c)
                          /\ request'[c] = request[c] \/ (request[c] = "queued" /\ request'[c] = "lost")
  BY DisconnectFact DEF callVars
<1>3. Tree(up)'
  BY <1>1, <1>2, TreeRemove
<1>4. StackEntries'
  <2>1. SUFFICES ASSUME NEW p \in OSThreads, NEW d \in Calls, On(p, d), Registered(p, d)', Up(p, via[d])'
                 PROVE  Entry(p, via[d])' = Partner(p, d)
    BY <1>2 DEF StackEntries, On, Up, Entry, Side, Partner
  <2>2. Registered(p, d)
    BY <1>2, <2>1 DEF Registered
  <2>3. to[d] # None
    BY <2>2 DEF Registered, IInv, Control
  <2>4. via[d] \in Connections
    BY <2>3, CallFact
  <2>5. QED
    BY <1>1, <1>2, <2>1, <2>2, <2>4 DEF StackEntries
<1>5. FreeEntries'
  <2>1. SUFFICES ASSUME NEW d \in Calls, request'[d] \in {"sent", "queued", "posted", "picked"}, There(d)'
                 PROVE  Entry(to[d], via[d])' \in {None, at[d]}
    BY <1>2 DEF FreeEntries, Entry, Side
  <2>2. request[d] \in {"sent", "queued", "posted", "picked"} /\ There(d)
    BY <1>2, <2>1
  <2>3. to[d] # None
    BY <2>2 DEF IInv, Control
  <2>4. to[d] \in OSThreads /\ via[d] \in Connections /\ Side(to[d]) = Peer(Side(at[d]))
    BY <2>3, CallFact
  <2>5. Up(to[d], via[d])'
    BY <1>2, <2>1, <2>4 DEF Up, There, Side
  <2>6. QED
    BY <1>1, <1>2, <2>2, <2>4, <2>5 DEF FreeEntries
<1>6. InsertedAlone'
  <2>1. SUFFICES ASSUME NEW d \in inserted
                 PROVE  /\ request'[d] \in {"running", "returning"}
                        /\ \A e \in Calls : On(to[d], e) /\ e < d =>
                             \/ address[<<via[e], Side(to[d])>>] # address[<<via[d], Side(to[d])>>]
                             \/ via[e] # via[d] /\ ~Up(to[d], via[e])'
    BY <1>2 DEF InsertedAlone, On, Up, Side
  <2>2. d \in Calls /\ to[d] # None /\ request[d] \in {"running", "returning"}
    BY <1>1, InsertedFact
  <2>3. request'[d] \in {"running", "returning"}
    BY <1>2, <2>2
  <2>4. ASSUME NEW e \in Calls, On(to[d], e), e < d
        PROVE  \/ address[<<via[e], Side(to[d])>>] # address[<<via[d], Side(to[d])>>]
               \/ via[e] # via[d] /\ ~Up(to[d], via[e])'
    <3>1. to[d] \in OSThreads
      BY <2>2, CallFact
    <3>2. MadeBy(to[d], e) \/ RunBy(to[d], e)
      BY <3>1, <2>4, StackFact DEF Nested
    <3>3. at[e] # None
      BY <3>1, <3>2, CallFact, NoneAssumption DEF MadeBy, RunBy, OSThreads
    <3>4. via[e] \in Connections
      BY <3>3 DEF IInv, Maps, Opposite
    <3>5. QED
      BY <1>1, <1>2, <2>2, <2>4, <3>1, <3>4 DEF InsertedAlone
  <2>5. QED
    BY <2>3, <2>4
<1>7. QED
  BY <1>3, <1>4, <1>5, <1>6 DEF Entries

LEMMA ConnectEntries ==
    ASSUME IInv, NEW up \in Parents, Nested(up), NEW k \in Connections, Connect(k)
    PROVE  Tree(up)' /\ Entries'
<1>1. Tree(up) /\ StackEntries /\ FreeEntries /\ InsertedAlone /\ Entries /\ Shape
  BY DEF Nested, Entries
<1>2. /\ UNCHANGED <<made, request_threads, stack, at, via, to, request, inserted>>
      /\ \A o \in OSThreads, j \in Connections :
            /\ j # k => (Up(o, j)' <=> Up(o, j))
            /\ j # k /\ Side(o) \in Sides =>
                  address'[<<j, Side(o)>>] = address[<<j, Side(o)>>] /\ Entry(o, j)' = Entry(o, j)
            /\ Up(o, j)' => Side(o) \in Sides
            /\ Up(o, k)' => Entry(o, k)' = None
      /\ \A c \in Calls : at[c] # None =>
            via[c] \in Connections /\ via[c] # k /\ There(c)' = There(c)
  BY ConnectFact DEF callVars, requestVars
<1>3. Tree(up)'
  <2>1. \A o \in OSThreads, j \in Connections :
           Up(o, j)' => Entry(o, j)' = None \/ (Up(o, j) /\ Entry(o, j)' = Entry(o, j))
    BY <1>2
  <2>2. QED
    BY <1>1, <1>2, <2>1, TreeRemove
<1>4. ASSUME NEW p \in OSThreads, NEW d \in Calls, On(p, d)
      PROVE  at[d] # None /\ via[d] \in Connections /\ via[d] # k
  <2>1. MadeBy(p, d) \/ RunBy(p, d)
    BY <1>1, <1>4, StackFact
  <2>2. at[d] # None
    BY <2>1, CallFact, NoneAssumption DEF MadeBy, RunBy, OSThreads
  <2>3. QED
    BY <1>2, <2>2
<1>5. StackEntries'
  <2>1. SUFFICES ASSUME NEW p \in OSThreads, NEW d \in Calls, On(p, d), Registered(p, d), Up(p, via[d])'
                 PROVE  Entry(p, via[d])' = Partner(p, d)
    BY <1>2 DEF StackEntries, On, Up, Entry, Side, Partner, Registered
  <2>2. via[d] \in Connections /\ via[d] # k
    BY <1>4, <2>1
  <2>3. Up(p, via[d]) /\ Entry(p, via[d])' = Entry(p, via[d])
    BY <1>2, <2>1, <2>2
  <2>4. QED
    BY <1>1, <2>1, <2>3 DEF StackEntries
<1>6. FreeEntries'
  <2>1. SUFFICES ASSUME NEW d \in Calls, request[d] \in {"sent", "queued", "posted", "picked"}, There(d)'
                 PROVE  Entry(to[d], via[d])' \in {None, at[d]}
    BY <1>2 DEF FreeEntries, Entry, Side
  <2>2. to[d] # None
    BY <2>1 DEF IInv, Control
  <2>3. to[d] \in OSThreads /\ Side(to[d]) \in Sides /\ at[d] # None
    BY <2>2, CallFact
  <2>4. There(d) /\ Entry(to[d], via[d])' = Entry(to[d], via[d])
    BY <1>2, <2>1, <2>3
  <2>5. QED
    BY <1>1, <2>1, <2>4 DEF FreeEntries
<1>7. InsertedAlone'
  <2>1. SUFFICES ASSUME NEW d \in inserted
                 PROVE  \A e \in Calls : On(to[d], e) /\ e < d =>
                             \/ address'[<<via[e], Side(to[d])>>] # address'[<<via[d], Side(to[d])>>]
                             \/ via[e] # via[d] /\ ~Up(to[d], via[e])'
    BY <1>1, <1>2 DEF InsertedAlone, On, Up, Side
  <2>2. d \in Calls /\ to[d] # None
    BY <1>1, InsertedFact
  <2>3. to[d] \in OSThreads /\ Side(to[d]) \in Sides /\ at[d] # None
    BY <2>2, CallFact
  <2>4. SUFFICES ASSUME NEW e \in Calls, On(to[d], e), e < d
                 PROVE  \/ address'[<<via[e], Side(to[d])>>] # address'[<<via[d], Side(to[d])>>]
                        \/ via[e] # via[d] /\ ~Up(to[d], via[e])'
    OBVIOUS
  <2>5. via[e] \in Connections /\ via[e] # k
    BY <1>4, <2>3, <2>4
  <2>6. via[d] \in Connections /\ via[d] # k
    BY <1>2, <2>2, <2>3
  <2>7. QED
    BY <1>1, <1>2, <2>2, <2>3, <2>4, <2>5, <2>6 DEF InsertedAlone
<1>8. QED
  BY <1>3, <1>5, <1>6, <1>7 DEF Entries

LEMMA OnCall ==
    ASSUME IInv, Shape, NEW o \in OSThreads, NEW c \in Calls, On(o, c)
    PROVE  at[c] # None /\ via[c] \in Connections /\ Side(at[c]) \in Sides
<1>1. MadeBy(o, c) \/ RunBy(o, c)
  BY StackFact
<1>2. at[c] # None
  BY <1>1, CallFact, NoneAssumption DEF MadeBy, RunBy, OSThreads
<1>3. QED
  BY <1>2 DEF IInv, Maps, Opposite

LEMMA SendEntries ==
    ASSUME IInv, IInv', NEW up \in Parents, Nested(up), NEW vp \in Parents,
           NEW c \in Calls, NEW w \in OSThreads, Sends(up, vp, c, w)
    PROVE  Entries'
<1>1. /\ Shape /\ Tree(up) /\ StackEntries /\ FreeEntries /\ InsertedAlone /\ Entries /\ Expected(up)
      /\ Bottom(up) /\ CallsBackToCaller /\ Awaited
  BY DEF Nested, Entries
<1>2. /\ UNCHANGED <<connected, address, stack, at, via, inserted>>
      /\ request[c] = "none" /\ request'[c] = "sent" /\ to[c] = None /\ to'[c] = w
      /\ \A d \in Calls : d # c => request'[d] = request[d] /\ to'[d] = to[d]
      /\ \A p \in OSThreads : Side(p) \in Sides => Side(p)' = Side(p)
      /\ \A p \in OSThreads, j \in Connections : Up(p, j)' => Up(p, j) \/ (p = w /\ Creates(up, vp, c, w))
      /\ Creates(up, vp, c, w) \/ Finds(up, vp, c, w)
  BY DEF Sends
<1>3. PICK o, k : o = at[c] /\ k = via[c]
  OBVIOUS
<1>4. /\ o \in OSThreads /\ k \in Connections /\ Up(o, k)
      /\ Top(o) = c /\ stack[o] # <<>> /\ caller[c] = "posting" /\ w # o
      /\ \A p \in OSThreads, j \in Connections :
            Up(p, j) => Entry(p, j)' = IF p = o /\ j = k THEN w ELSE Entry(p, j)
  BY <1>3 DEF Sends
<1>5. None \notin OSThreads /\ \A p \in OSThreads : On(p, c) => p = o
  BY <1>1, <1>2, <1>3, StackFact, NoneAssumption DEF MadeBy, RunBy, Executing, OSThreads
<1>6. StackEntries'
  <2>1. SUFFICES ASSUME NEW p \in OSThreads, NEW d \in Calls, On(p, d), Registered(p, d)', Up(p, via[d])'
                 PROVE  Entry(p, via[d])' = Partner(p, d)'
    BY <1>2 DEF StackEntries, On
  <2>2. via[d] \in Connections /\ stack[p] # <<>>
    BY <1>1, <2>1, OnCall, StackFact
  <2>3. Up(p, via[d])
    BY <1>2, <2>1, <2>2 DEF Creates
  <2>4. Entry(p, via[d])' = IF p = o /\ via[d] = k THEN w ELSE Entry(p, via[d])
    BY <1>2, <1>4, <2>2, <2>3
  <2>5. CASE d = c
    <3>1. p = o /\ Partner(p, d)' = w
      BY <1>2, <1>3, <1>5, <2>1, <2>5 DEF Partner
    <3>2. QED
      BY <1>3, <2>4, <2>5, <3>1
  <2>6. CASE d # c
    <3>1. Registered(p, d) /\ Partner(p, d)' = Partner(p, d)
      BY <1>2, <2>1, <2>6 DEF Registered, Partner
    <3>2. Entry(p, via[d]) = Partner(p, d)
      BY <1>1, <2>1, <2>3, <3>1 DEF StackEntries
    <3>3. to[d] # None
      BY <3>1 DEF Registered, IInv, Control
    <3>4. Partner(p, d) # None
      BY <3>3, CallFact DEF Partner
    <3>5. p = o /\ via[d] = k => Entry(p, via[d]) = w
      BY <1>2, <1>3, <3>2, <3>4 DEF Creates, Finds
    <3>6. QED
      BY <2>4, <3>1, <3>2, <3>5
  <2>7. QED
    BY <2>5, <2>6
<1>7. FreeEntries'
  <2>1. SUFFICES ASSUME NEW d \in Calls, request'[d] \in {"sent", "queued", "posted", "picked"}, There(d)'
                 PROVE  Entry(to[d], via[d])' \in {None, at[d]}
    BY <1>2 DEF FreeEntries
  <2>2. CASE d # c
    <3>1. to'[d] = to[d] /\ request[d] \in {"sent", "queued", "posted", "picked"} /\ to[d] # None
      BY <1>2, <2>1, <2>2 DEF IInv, Control
    <3>2. /\ at[d] \in OSThreads /\ Side(at[d]) \in Sides /\ to[d] \in OSThreads /\ via[d] \in Connections
          /\ There(d) = Up(to[d], via[d])
      BY <3>1, CallFact
    <3>3. There(d)
      BY <1>2, <2>1, <3>2 DEF There
    <3>4. Entry(to[d], via[d])' = IF to[d] = o /\ via[d] = k THEN w ELSE Entry(to[d], via[d])
      <4>1. \A p \in OSThreads, j \in Connections :
               p = to[d] /\ j = via[d] => Entry(p, j)' = IF p = o /\ j = k THEN w ELSE Entry(p, j)
        BY <1>4, <3>2, <3>3
      <4>2. \A p \in OSThreads, j \in Connections :
               p = to'[d] /\ j = via'[d] => Entry(to[d], via[d])' = Entry(p, j)'
        OBVIOUS
      <4>3. QED
        BY <1>2, <3>1, <3>2, <4>1, <4>2
    <3>5. Entry(to[d], via[d]) \in {None, at[d]}
      BY <1>1, <3>1, <3>3 DEF FreeEntries
    <3>6. ASSUME to[d] = o, Creates(up, vp, c, w)
          PROVE  FALSE
      <4>1. CASE request[d] = "picked"
        <5>1. RunBy(o, d)
          BY <3>6, <4>1 DEF RunBy, Executing
        <5>2. QED
          BY <1>1, <1>4, <2>2, <4>1, <5>1, TopFact
      <4>2. CASE request[d] # "picked"
        <5>1. Coming(d)
          BY <3>1, <3>3, <4>2 DEF Coming
        <5>2. ComesTo(up, d, o)
          BY <1>1, <3>6, <5>1 DEF Expected
        <5>3. QED
          BY <1>4, <5>2 DEF ComesTo
      <4>3. QED
        BY <4>1, <4>2
    <3>7. to[d] = o /\ via[d] = k => Entry(to[d], via[d]) = w
      BY <1>2, <1>3, <3>6 DEF Finds
    <3>8. QED
      BY <1>2, <3>4, <3>5, <3>7
  <2>3. CASE d = c
    <3>1. Side(w)' = Peer(Side(o)')
      <4>1. to'[c] # None /\ at' = at
        BY <1>2, <1>5
      <4>2. Side(to[c])' = Peer(Side(at[c])')
        BY <4>1 DEF IInv, Maps, Opposite, Peer
      <4>3. QED
        BY <1>2, <1>3, <4>2 DEF Side
    <3>2. Up(w, k)'
      BY <1>2, <1>3, <2>1, <2>3, <3>1 DEF There, Up, Side, Peer
    <3>3. SUFFICES Entry(w, k)' \in {None, o}
      BY <1>2, <1>3, <2>3 DEF Entry, Side
    <3>4. CASE Creates(up, vp, c, w)
      BY <1>4, <3>2, <3>4 DEF Creates
    <3>5. CASE ~Creates(up, vp, c, w) /\ Finds(up, vp, c, w)
      <4>1. Up(w, k)
        BY <1>2, <1>4, <3>2, <3>5
      <4>2. Entry(w, k)' = Entry(w, k)
        BY <1>4, <4>1
      <4>3. Link(up, o, w, k)
        BY <1>3, <3>5 DEF Finds
      <4>4. CASE ParentLink(up, o, w, k)
        BY <1>1, <1>4, <4>1, <4>2, <4>4 DEF Tree, ParentEntry, ParentLink
      <4>5. CASE ParentLink(up, w, o, k)
        <5>1. Alive(k)
          <6>1. Side(o)' = Side(o) /\ Side(w)' = Side(w) /\ Side(o) \in Sides
            BY <1>4, <3>5, AddressOfUp DEF Finds, Side, IInv, Maps
          <6>2. QED
            BY <1>4, <3>1, <4>1, <6>1 DEF Alive, Up, Sides, Peer
        <5>2. PICK e \in Calls : On(w, e) /\ MadeBy(w, e) /\ RunBy(o, e) /\ via[e] = k
          BY <1>3, <4>3, <4>5, <5>1, SendMeets
        <5>3. at[e] = w /\ to[e] = o
          BY <5>2 DEF MadeBy, RunBy
        <5>4. Registered(w, e) /\ Partner(w, e) = o
          BY <1>4, <1>5, <5>3 DEF Registered, Partner
        <5>5. QED
          BY <1>1, <4>1, <4>2, <5>2, <5>4 DEF StackEntries
      <4>6. QED
        BY <4>3, <4>4, <4>5 DEF Link
    <3>6. QED
      BY <1>2, <3>4, <3>5
  <2>4. QED
    BY <2>2, <2>3
<1>8. InsertedAlone'
  <2>1. SUFFICES ASSUME NEW d \in inserted
                 PROVE  (/\ request[d] \in {"running", "returning"}
                         /\ \A e \in Calls : On(to[d], e) /\ e < d =>
                              \/ address[<<via[e], Side(to[d])>>] # address[<<via[d], Side(to[d])>>]
                              \/ via[e] # via[d] /\ ~Up(to[d], via[e]))'
    BY <1>2 DEF InsertedAlone
  <2>2. d \in Calls /\ to[d] # None /\ request[d] \in {"running", "returning"}
    BY <1>1, InsertedFact
  <2>3. request'[d] = request[d] /\ to'[d] = to[d]
    BY <1>2, <2>2
  <2>4. PICK p \in OSThreads : p = to[d] /\ Side(p) \in Sides
    BY <2>2, CallFact
  <2>5. Side(p)' = Side(p)
    BY <1>2, <2>4
  <2>6. SUFFICES ASSUME NEW e \in Calls, On(p, e), e < d
                 PROVE  \/ address[<<via[e], Side(p)>>] # address[<<via[d], Side(p)>>]
                        \/ via[e] # via[d] /\ ~Up(p, via[e])'
    BY <1>2, <2>2, <2>3, <2>4, <2>5 DEF On, Up, Side
  <2>7. via[e] \in Connections
    BY <1>1, <2>6, OnCall
  <2>8. Up(p, via[e])' => Up(p, via[e])
    BY <1>2, <2>2, <2>4, <2>7 DEF Creates
  <2>9. QED
    BY <1>1, <2>4, <2>6, <2>8 DEF InsertedAlone
<1>9. QED
  BY <1>6, <1>7, <1>8 DEF Entries

----------------------------------------------------------------------------
(* Requests on their way.                                                  *)

\* Steps of one request, or of a connection, after which no more are coming.
LEMMA ComingFrame ==
    ASSUME IInv, NEW up \in Parents, Nested(up), UNCHANGED <<stack, at, via, to, caller>>,
           \A c \in Calls :
              /\ to[c] # None => (Alive(via[c])' => Alive(via[c]))
              /\ Coming(c)' => Coming(c)
              /\ Coming(c)' /\ request[c] = "posted" => request'[c] = "posted"
              /\ request'[c] = "answered" => request[c] = "answered"
              /\ request[c] = "answered" => request'[c] = "answered" \/ caller[c] = "waiting"
              /\ request'[c] = "queued" => There(c)'
    PROVE  Awaited' /\ Expected(up)' /\ OneComing'
<1>1. Awaited /\ Expected(up) /\ OneComing
  BY DEF Nested
<1>2. Awaited'
  BY <1>1 DEF Awaited
<1>3. OneComing'
  BY <1>1 DEF OneComing
<1>4. Expected(up)'
  <2>1. SUFFICES ASSUME NEW c \in Calls, Coming(c)'
                 PROVE  ComesTo(up, c, to[c])'
    BY DEF Expected
  <2>2. Coming(c) /\ ComesTo(up, c, to[c])
    BY <1>1, <2>1 DEF Expected
  <2>3. to[c] # None
    BY <2>2 DEF Coming, IInv, Control
  <2>4. PICK w \in OSThreads : w = to[c]
    BY <2>3, CallFact
  <2>5. stack[w] # <<>> => Top(w) \in Calls
    BY StackTypes DEF IInv
  <2>6. PICK t : t = Top(w)
    OBVIOUS
  <2>7. Top(w)' = t
    BY <2>6 DEF Top
  <2>8. stack[w] # <<>> /\ request'[t] = "answered" => request[t] = "answered"
    BY <2>5, <2>6
  <2>9. request'[c] # "posted" => request[c] # "posted"
    BY <2>1
  <2>10. ComesTo(up, c, w)
    BY <2>2, <2>4
  <2>11. ComesTo(up, c, w)'
    BY <2>6, <2>7, <2>8, <2>9, <2>10 DEF ComesTo, MadeBy
  <2>12. QED
    BY <2>4, <2>11 DEF ComesTo, MadeBy, Top
<1>5. QED
  BY <1>2, <1>3, <1>4

LEMMA RequestComing ==
    ASSUME IInv, NEW up \in Parents, Nested(up), NEW c \in Calls,
           \/ Lose(c) \/ LoopReceive(c) \/ LoopPost(c)
           \/ SyncRegister(c) \/ MethodReturn(c) \/ SyncExit(c)
    PROVE  Awaited' /\ Expected(up)' /\ OneComing'
<1>1. UNCHANGED <<sideVars, caller, stack, at, via, to>>
  BY StillRequest DEF Still, callVars
<1>2. Awaited
  BY DEF Nested
<1>3. \A d \in Calls : There(d)' = There(d) /\ Alive(via[d])' = Alive(via[d])
  BY <1>1 DEF There, Alive, Side, sideVars
<1>4. \/ /\ request[c] \in {"sent", "queued"} /\ There(c) /\ request' = [request EXCEPT ![c] = "queued"]
      \/ /\ request[c] = "queued" /\ request' = [request EXCEPT ![c] = "posted"]
      \/ /\ request[c] = "sent" \/ caller[c] = "waiting"
         /\ request' = [request EXCEPT ![c] = "lost"]
      \/ /\ request[c] \in {"picked", "running", "returning"}
         /\ \E p \in {"running", "returning", "answering"} : request' = [request EXCEPT ![c] = p]
  <2>1. CASE Lose(c)
    BY <2>1 DEF Lose, SetRequest
  <2>2. CASE LoopReceive(c)
    BY <2>2 DEF LoopReceive, SetRequest
  <2>3. CASE LoopPost(c)
    BY <2>3 DEF LoopPost, SetRequest
  <2>4. CASE SyncRegister(c)
    BY <2>4 DEF SyncRegister, SetRequest
  <2>5. CASE MethodReturn(c)
    BY <2>5 DEF MethodReturn, SetRequest
  <2>6. CASE SyncExit(c)
    BY <2>6 DEF SyncExit, SetRequest
  <2>7. QED
    BY <2>1, <2>2, <2>3, <2>4, <2>5, <2>6
<1>5. request[c] = "queued" => There(c)
  BY <1>2 DEF Awaited
<1>6. ASSUME NEW d \in Calls
      PROVE  /\ Coming(d)' => Coming(d)
             /\ Coming(d)' /\ request[d] = "posted" => request'[d] = "posted"
             /\ request'[d] = "answered" => request[d] = "answered"
             /\ request[d] = "answered" => request'[d] = "answered" \/ caller[d] = "waiting"
             /\ request'[d] = "queued" => There(d)'
  <2>1. request \in [Calls -> {"none", "sent", "queued", "posted", "picked", "running",
                               "returning", "answering", "answered", "lost"}]
    BY DEF IInv, TypeOK
  <2>2. CASE d # c
    <3>1. request'[d] = request[d]
      BY <1>4, <2>1, <2>2
    <3>2. QED
      BY <1>2, <1>3, <3>1 DEF Coming, Awaited
  <2>3. CASE d = c
    BY <1>3, <1>4, <1>5, <2>1, <2>3 DEF Coming
  <2>4. QED
    BY <2>2, <2>3
<1>7. QED
  BY <1>1, <1>3, <1>6, ComingFrame

LEMMA DisconnectComing ==
    ASSUME IInv, NEW up \in Parents, Nested(up), NEW k \in Connections, NEW s \in Sides, Disconnect(k, s)
    PROVE  Awaited' /\ Expected(up)' /\ OneComing'
<1>1. /\ UNCHANGED <<stack, at, via, to, caller>>
      /\ \A c \in Calls : /\ There(c)' => There(c)
                          /\ Alive(via[c])' => Alive(via[c])
                          /\ request'[c] = request[c] \/ (request[c] = "queued" /\ request'[c] = "lost")
                          /\ request'[c] = "queued" /\ There(c) => There(c)'
  BY DisconnectFact DEF callVars
<1>2. \A c \in Calls : request[c] = "queued" => There(c)
  BY DEF Nested, Awaited
<1>3. QED
  BY <1>1, <1>2, ComingFrame DEF Coming

LEMMA ConnectComing ==
    ASSUME IInv, NEW up \in Parents, Nested(up), NEW k \in Connections, Connect(k)
    PROVE  Awaited' /\ Expected(up)' /\ OneComing'
<1>1. /\ UNCHANGED <<stack, at, via, to, caller, request>>
      /\ \A c \in Calls : at[c] # None => There(c)' = There(c) /\ Alive(via[c])' = Alive(via[c])
  BY ConnectFact DEF callVars, requestVars
<1>2. \A c \in Calls : to[c] # None => at[c] # None
  BY CallFact
<1>3. \A c \in Calls : request[c] # "none" => to[c] # None
  BY DEF IInv, Control
<1>4. \A c \in Calls : request[c] = "queued" => There(c)
  BY DEF Nested, Awaited
<1>5. QED
  BY <1>1, <1>2, <1>3, <1>4, ComingFrame DEF Coming

LEMMA CallerComing ==
    ASSUME IInv, NEW up \in Parents, Nested(up), NEW c \in Calls,
           LoopNotSent(c) \/ LoopResolve(c) \/ LoopAnswer(c) \/ LoopReject(c)
    PROVE  Awaited' /\ Expected(up)' /\ OneComing'
<1>1. Awaited /\ Expected(up) /\ OneComing
  BY DEF Nested
<1>2. /\ UNCHANGED <<sideVars, stack, at, via, request, to>>
      /\ \A d \in Calls : /\ caller[d] \in Open <=> caller'[d] \in Open
                          /\ caller'[d] = "posting" => caller[d] = "posting"
  BY StillCaller DEF Still, requestVars
<1>3. /\ \A d \in Calls : d # c => caller'[d] = caller[d]
      /\ \/ caller[c] = "posting"
         \/ caller[c] = "waiting" /\ request[c] = "answered"
         \/ caller[c] = "resolved"
         \/ caller[c] = "waiting" /\ Rejected(c)
  <2>1. caller \in [Calls -> {"new", "posting", "waiting", "resolved", "done", "returned"}]
    BY DEF IInv, TypeOK
  <2>2. CASE LoopNotSent(c)
    BY <2>1, <2>2 DEF LoopNotSent, SetCaller
  <2>3. CASE LoopResolve(c)
    BY <2>1, <2>3 DEF LoopResolve, SetCaller
  <2>4. CASE LoopAnswer(c)
    BY <2>1, <2>4 DEF LoopAnswer, SetCaller
  <2>5. CASE LoopReject(c)
    BY <2>1, <2>5 DEF LoopReject, SetCaller
  <2>6. QED
    BY <2>2, <2>3, <2>4, <2>5
<1>4. \A d \in Calls : There(d)' = There(d) /\ Alive(via[d])' = Alive(via[d]) /\ Coming(d)' = Coming(d)
  BY <1>2 DEF There, Alive, Coming, Side, sideVars
<1>5. Awaited'
  <2>1. \A d \in Calls : d # c /\ to[d] # None /\ Alive(via[d]) => caller'[d] = "waiting" \/ request[d] = "answered"
    BY <1>1, <1>3 DEF Awaited
  <2>2. to[c] # None /\ Alive(via[c]) => request[c] = "answered"
    <3>1. SUFFICES ASSUME to[c] # None, Alive(via[c]) PROVE request[c] = "answered"
      OBVIOUS
    <3>2. Here(c) /\ There(c) /\ caller[c] # "posting"
      BY <3>1, CallFact
    <3>3. ~Rejected(c)
      BY <3>2 DEF Rejected
    <3>4. QED
      BY <1>1, <1>3, <3>1, <3>2, <3>3 DEF Awaited
  <2>3. \A d \in Calls : request[d] = "queued" => There(d)
    BY <1>1 DEF Awaited
  <2>4. QED
    BY <1>2, <1>4, <2>1, <2>2, <2>3 DEF Awaited
<1>6. OneComing'
  BY <1>1, <1>2, <1>4 DEF OneComing
<1>7. Expected(up)'
  <2>1. SUFFICES ASSUME NEW d \in Calls, Coming(d)
                 PROVE  ComesTo(up, d, to[d])'
    BY <1>4 DEF Expected
  <2>2. to[d] # None
    BY <2>1 DEF Coming, IInv, Control
  <2>3. PICK w \in OSThreads : w = to[d] /\ ComesTo(up, d, w)
    BY <1>1, <2>1, <2>2, CallFact DEF Expected
  <2>4. stack[w] # <<>> => Top(w) \in Calls
    BY StackTypes DEF IInv
  <2>5. PICK t : t = Top(w)
    OBVIOUS
  <2>6. Top(w)' = t
    BY <1>2, <2>5 DEF Top
  <2>7. ASSUME t = c, MadeBy(w, c), to[c] = at[d], via[c] = via[d], request[d] # "posted",
               caller[c] = "waiting", request[c] # "answered"
        PROVE  FALSE
    <3>1. Rejected(c) /\ request[d] \in {"sent", "queued"} /\ There(d)
      BY <1>3, <2>1, <2>7 DEF Coming
    <3>2. at[c] = w /\ There(d) = Up(w, via[d])
      BY <2>2, <2>3, <2>7, CallFact DEF MadeBy
    <3>3. Here(c)
      BY <2>7, <3>1, <3>2 DEF Here, Up
    <3>4. QED
      BY <2>3, <2>7, <3>1, <3>2, <3>3 DEF Rejected
  <2>8. ComesTo(up, d, w)'
    BY <1>2, <1>3, <2>3, <2>4, <2>5, <2>6, <2>7 DEF ComesTo, MadeBy
  <2>9. QED
    BY <1>2, <2>3, <2>8
<1>8. QED
  BY <1>5, <1>6, <1>7

\* No request is coming to a thread that runs.
LEMMA RunsUndisturbed ==
    ASSUME IInv, NEW up \in Parents, Nested(up), NEW o \in OSThreads, UserCode(o),
           NEW c \in Calls, to[c] = o
    PROVE  ~Coming(c)
<1>1. SUFFICES ComesTo(up, c, o) => FALSE
  BY DEF Nested, Expected
<1>2. CASE stack[o] = <<>>
  BY <1>2, ThreadsAssumption DEF UserCode, ComesTo
<1>3. CASE stack[o] # <<>>
  <2>1. Top(o) \in Calls /\ RunBy(o, Top(o))
    BY <1>3, StackFact DEF UserCode, Executes, RunBy, Executing, Nested
  <2>2. QED
    BY <1>3, <2>1, StackFact DEF ComesTo, Nested
<1>4. QED
  BY <1>2, <1>3

LEMMA InvokeComing ==
    ASSUME IInv, NEW up \in Parents, Nested(up),
           NEW c \in Calls, NEW o \in OSThreads, NEW k \in Connections, Invoke(c, o, k)
    PROVE  Awaited' /\ Expected(up)' /\ OneComing'
<1>1. Awaited /\ Expected(up) /\ OneComing /\ Shape
  BY DEF Nested
<1>2. /\ UNCHANGED <<connected, made, request, to>>
      /\ Push(o, c) /\ UserCode(o) /\ to[c] = None /\ request[c] = "none" /\ at'[c] = o
      /\ \A d \in Calls : d # c => caller'[d] = caller[d] /\ at'[d] = at[d] /\ via'[d] = via[d]
      /\ \A d \in Calls, p \in OSThreads : On(p, d) => d # c
  BY <1>1, InvokeFact DEF sideVars, requestVars
<1>3. \A d \in Calls : d # c => There(d)' = There(d) /\ Alive(via[d])' = Alive(via[d])
  BY <1>2 DEF There, Alive, Side
<1>4. \A d \in Calls : Coming(d)' => d # c /\ Coming(d)
  BY <1>2, <1>3 DEF Coming
<1>5. Awaited'
  BY <1>1, <1>2, <1>3 DEF Awaited
<1>6. OneComing'
  BY <1>1, <1>2, <1>4 DEF OneComing
<1>7. Expected(up)'
  <2>1. SUFFICES ASSUME NEW d \in Calls, d # c, Coming(d), Coming(d)'
                 PROVE  ComesTo(up, d, to[d])'
    BY <1>4 DEF Expected
  <2>2. to[d] # None
    BY <2>1 DEF Coming, IInv, Control
  <2>3. PICK w \in OSThreads : w = to[d] /\ ComesTo(up, d, w)
    BY <1>1, <2>1, <2>2, CallFact DEF Expected
  <2>4. w # o
    BY <1>2, <2>1, <2>3, RunsUndisturbed
  <2>5. stack'[w] = stack[w]
    BY <1>2, <2>4, PushFact DEF IInv
  <2>6. PICK t : t = Top(w)
    OBVIOUS
  <2>7. stack[w] # <<>> => t \in Calls /\ t # c
    BY <1>1, <1>2, <2>6, StackFact
  <2>8. Top(w)' = t
    BY <2>5, <2>6 DEF Top
  <2>9. ComesTo(up, d, w)'
    BY <1>2, <2>1, <2>3, <2>5, <2>6, <2>7, <2>8 DEF ComesTo, MadeBy
  <2>10. QED
    BY <1>2, <2>3, <2>9
<1>8. QED
  BY <1>5, <1>6, <1>7

LEMMA PickUpComing ==
    ASSUME IInv, NEW up \in Parents, Nested(up), NEW o \in OSThreads, NEW c \in Calls, PickUp(o, c)
    PROVE  Awaited' /\ Expected(up)' /\ OneComing'
<1>1. Awaited /\ Expected(up) /\ OneComing /\ Shape
  BY DEF Nested
<1>2. /\ UNCHANGED <<sideVars, caller, at, via, to>> /\ Push(o, c)
      /\ to[c] = o /\ request[c] = "posted" /\ request'[c] = "picked"
      /\ \A d \in Calls : d # c => request'[d] = request[d]
      /\ \A d \in Calls : Coming(d) /\ to[d] = o => d = c
  BY PickUpFact DEF callVars
<1>3. \A d \in Calls : There(d)' = There(d) /\ Alive(via[d])' = Alive(via[d])
  BY <1>2 DEF There, Alive, Side, sideVars
<1>4. \A d \in Calls : Coming(d)' => d # c /\ Coming(d)
  BY <1>2, <1>3 DEF Coming
<1>5. Awaited'
  BY <1>1, <1>2, <1>3 DEF Awaited
<1>6. OneComing'
  BY <1>1, <1>2, <1>4 DEF OneComing
<1>7. Expected(up)'
  <2>1. SUFFICES ASSUME NEW d \in Calls, d # c, Coming(d), Coming(d)'
                 PROVE  ComesTo(up, d, to[d])'
    BY <1>4 DEF Expected
  <2>2. to[d] # None
    BY <2>1 DEF Coming, IInv, Control
  <2>3. PICK w \in OSThreads : w = to[d] /\ ComesTo(up, d, w)
    BY <1>1, <2>1, <2>2, CallFact DEF Expected
  <2>4. w # o
    BY <1>2, <2>1, <2>3
  <2>5. stack'[w] = stack[w]
    BY <1>2, <2>4, PushFact DEF IInv
  <2>6. PICK t : t = Top(w)
    OBVIOUS
  <2>7. stack[w] # <<>> => t \in Calls
    BY <2>6, StackTypes DEF IInv
  <2>8. Top(w)' = t
    BY <2>5, <2>6 DEF Top
  <2>9. ComesTo(up, d, w)'
    BY <1>2, <2>1, <2>3, <2>5, <2>6, <2>7, <2>8 DEF ComesTo, MadeBy
  <2>10. QED
    BY <1>2, <2>3, <2>9
<1>8. QED
  BY <1>5, <1>6, <1>7

LEMMA ReturnComing ==
    ASSUME IInv, NEW up \in Parents, Nested(up), NEW o \in OSThreads, Return(o)
    PROVE  Awaited' /\ Expected(up)' /\ OneComing'
<1>1. Awaited /\ Expected(up) /\ OneComing /\ Shape
  BY DEF Nested
<1>2. /\ UNCHANGED <<sideVars, request, at, via, to>> /\ Pop(o) /\ stack[o] # <<>> /\ Posted(o) = {}
  BY <1>1, ReturnFact DEF requestVars
<1>3. PICK c \in Calls : /\ c = Top(o) /\ MadeBy(o, c)
                         /\ caller[c] = "done" /\ caller'[c] = "returned"
                         /\ \A d \in Calls : d # c => caller'[d] = caller[d]
  BY <1>1, ReturnFact
<1>4. \A d \in Calls : There(d)' = There(d) /\ Alive(via[d])' = Alive(via[d]) /\ Coming(d)' = Coming(d)
  BY <1>2 DEF There, Alive, Coming, Side, sideVars
<1>5. Awaited'
  BY <1>1, <1>2, <1>3, <1>4 DEF Awaited
<1>6. OneComing'
  BY <1>1, <1>2, <1>4 DEF OneComing
<1>7. Expected(up)'
  <2>1. SUFFICES ASSUME NEW d \in Calls, Coming(d)
                 PROVE  ComesTo(up, d, to[d])'
    BY <1>4 DEF Expected
  <2>2. to[d] # None
    BY <2>1 DEF Coming, IInv, Control
  <2>3. PICK w \in OSThreads : w = to[d] /\ ComesTo(up, d, w)
    BY <1>1, <2>1, <2>2, CallFact DEF Expected
  <2>4. w # o
    <3>1. SUFFICES ASSUME w = o PROVE FALSE
      OBVIOUS
    <3>2. request[d] # "posted"
      BY <1>2, <2>3, <3>1 DEF Posted
    <3>3. QED
      BY <1>2, <1>3, <2>3, <3>1, <3>2 DEF ComesTo
  <2>5. stack'[w] = stack[w]
    BY <1>1, <1>2, <2>4, PopFact DEF IInv, Shape
  <2>6. PICK t : t = Top(w)
    OBVIOUS
  <2>7. stack[w] # <<>> => t \in Calls
    BY <2>6, StackTypes DEF IInv
  <2>8. MadeBy(w, t) => t # c
    BY <1>3, <2>4 DEF MadeBy
  <2>9. Top(w)' = t
    BY <2>5, <2>6 DEF Top
  <2>10. ComesTo(up, d, w)'
    BY <1>2, <1>3, <2>3, <2>5, <2>6, <2>7, <2>8, <2>9 DEF ComesTo, MadeBy
  <2>11. QED
    BY <1>2, <2>3, <2>10
<1>8. QED
  BY <1>5, <1>6, <1>7

LEMMA SyncAnswerComing ==
    ASSUME IInv, NEW up \in Parents, Nested(up), NEW c \in Calls, SyncAnswer(c)
    PROVE  Awaited' /\ Expected(up)' /\ OneComing'
<1>1. Awaited /\ Expected(up) /\ OneComing /\ Shape
  BY DEF Nested
<1>2. /\ UNCHANGED <<sideVars, caller, at, via, to>>
      /\ to[c] \in OSThreads
      /\ Pop(to[c]) /\ stack[to[c]] # <<>> /\ Top(to[c]) = c /\ RunBy(to[c], c)
      /\ request[c] = "answering" /\ request'[c] = IF There(c) THEN "answered" ELSE "lost"
      /\ \A d \in Calls : d # c => request'[d] = request[d]
  BY <1>1, SyncAnswerFact DEF callVars
<1>3. \A d \in Calls : There(d)' = There(d) /\ Alive(via[d])' = Alive(via[d])
  BY <1>2 DEF There, Alive, Side, sideVars
<1>4. \A d \in Calls : Coming(d)' => d # c /\ Coming(d)
  BY <1>2, <1>3 DEF Coming
<1>5. Awaited'
  BY <1>1, <1>2, <1>3, CallFact DEF Awaited
<1>6. OneComing'
  BY <1>1, <1>2, <1>4 DEF OneComing
<1>7. Expected(up)'
  <2>1. SUFFICES ASSUME NEW d \in Calls, d # c, Coming(d)
                 PROVE  ComesTo(up, d, to[d])'
    BY <1>4 DEF Expected
  <2>2. to[d] # None
    BY <2>1 DEF Coming, IInv, Control
  <2>3. PICK w \in OSThreads : w = to[d] /\ ComesTo(up, d, w)
    BY <1>1, <2>1, <2>2, CallFact DEF Expected
  <2>4. w # to[c]
    BY <1>2, <2>1, <2>3, Undisturbed
  <2>5. stack'[w] = stack[w]
    BY <1>1, <1>2, <2>4, PopFact DEF IInv, Shape
  <2>6. PICK t : t = Top(w)
    OBVIOUS
  <2>7. stack[w] # <<>> => t \in Calls
    BY <2>6, StackTypes DEF IInv
  <2>8. Top(w)' = t
    BY <2>5, <2>6 DEF Top
  <2>9. ASSUME MadeBy(w, c), to[c] = at[d], via[c] = via[d], c < d, request[d] # "posted", There(c)
        PROVE  FALSE
    <3>1. There(d)
      BY <2>1, <2>9 DEF Coming
    <3>2. /\ There(c) = Up(to[c], via[c])
          /\ Here(d) = Up(at[d], via[d])
      BY <1>2, <2>2, CallFact, NoneAssumption DEF OSThreads
    <3>3. Here(d) /\ There(d) /\ request[d] # "answered"
      BY <2>1, <2>9, <3>1, <3>2 DEF Coming
    <3>4. On(at[d], d)
      BY <1>1, <2>2, <3>3, CallFact, CallerFact
    <3>5. d <= c
      BY <1>1, <1>2, <2>9, <3>4, StackFact
    <3>6. QED
      BY <2>9, <3>5, CallNumbers
  <2>10. ComesTo(up, d, w)'
    BY <1>2, <2>1, <2>3, <2>5, <2>6, <2>7, <2>8, <2>9 DEF ComesTo, MadeBy
  <2>11. QED
    BY <1>2, <2>3, <2>10
<1>8. QED
  BY <1>5, <1>6, <1>7

\* A request that finds its thread: a new worker, or one that waits for the caller.
LEMMA SendComing ==
    ASSUME IInv, IInv', NEW up \in Parents, Nested(up), NEW vp \in Parents,
           NEW c \in Calls, NEW w \in OSThreads, Sends(up, vp, c, w)
    PROVE  Awaited' /\ Expected(vp)' /\ OneComing'
<1>1. Awaited /\ Expected(up) /\ OneComing /\ Shape /\ CallsBackToCaller
  BY DEF Nested
<1>2. /\ UNCHANGED <<connected, stack, at, via>>
      /\ caller[c] = "posting" /\ caller'[c] = "waiting"
      /\ request[c] = "none" /\ request'[c] = "sent" /\ to[c] = None /\ to'[c] = w
      /\ \A d \in Calls : d # c => caller'[d] = caller[d] /\ request'[d] = request[d] /\ to'[d] = to[d]
      /\ \A p \in OSThreads : Side(p) \in Sides => Side(p)' = Side(p)
      /\ \A v \in Workers : made[v] # None => vp[v] = up[v]
      /\ Creates(up, vp, c, w) \/ Finds(up, vp, c, w)
  BY DEF Sends
<1>3. PICK o, k : o = at[c] /\ k = via[c]
  OBVIOUS
<1>4. /\ o \in OSThreads /\ k \in Connections /\ Up(o, k) /\ w # o
      /\ On(o, c) /\ Top(o) = c /\ stack[o] # <<>> /\ None \notin OSThreads
  BY <1>3, NoneAssumption DEF Sends, OSThreads
<1>5. ASSUME NEW d \in Calls, d # c
      PROVE  /\ to[d] # None => There(d)' = There(d) /\ Alive(via[d])' = Alive(via[d])
             /\ Coming(d)' => Coming(d)
             /\ request[d] # "none" <=> to[d] # None
  <2>1. request[d] # "none" <=> to[d] # None
    BY DEF IInv, Control
  <2>2. to[d] # None => There(d)' = There(d) /\ Alive(via[d])' = Alive(via[d])
    BY <1>2, CallFact DEF There, Alive
  <2>3. QED
    BY <1>2, <1>5, <2>1, <2>2 DEF Coming
<1>6. Awaited'
  <2>1. SUFFICES ASSUME NEW d \in Calls
                 PROVE  /\ to'[d] # None /\ Alive(via[d])' => caller'[d] = "waiting" \/ request'[d] = "answered"
                        /\ request'[d] = "queued" => There(d)'
    BY DEF Awaited
  <2>2. CASE d = c
    BY <1>2, <2>2
  <2>3. CASE d # c
    BY <1>1, <1>2, <1>5, <2>3 DEF Awaited
  <2>4. QED
    BY <2>2, <2>3
\* If the thread is not new, both ends of the connection are up.
<1>7. Coming(c)' /\ ~Creates(up, vp, c, w) => Alive(k)
  <2>1. SUFFICES ASSUME There(c)', ~Creates(up, vp, c, w) PROVE Alive(k)
    BY <1>2 DEF Coming
  <2>2. Side(w)' = Peer(Side(o)')
    <3>1. to'[c] # None /\ at' = at
      BY <1>2, <1>4
    <3>2. Side(to[c])' = Peer(Side(at[c])')
      BY <3>1 DEF IInv, Maps, Opposite, Peer
    <3>3. QED
      BY <1>2, <1>3, <3>2 DEF Side
  <2>3. Up(w, k)'
    BY <1>2, <1>3, <2>1, <2>2 DEF There, Up, Side, Peer
  <2>4. Up(w, k)
    BY <1>4, <2>1, <2>3 DEF Sends
  <2>5. Side(o)' = Side(o) /\ Side(w)' = Side(w) /\ Side(o) \in Sides
    BY <1>4, <1>2, <2>1, <2>4, AddressOfUp DEF IInv, Maps
  <2>6. QED
    BY <1>4, <2>2, <2>4, <2>5 DEF Alive, Up, Sides, Peer
<1>8. ~Creates(up, vp, c, w) => Link(up, o, w, k) /\ vp = up
  BY <1>2, <1>3 DEF Finds
<1>9. ASSUME Coming(c)', ~Creates(up, vp, c, w), ParentLink(up, w, o, k) \/ stack[w] # <<>>
      PROVE  \E d \in Calls :
                /\ stack[w] # <<>> /\ d = Top(w) /\ MadeBy(w, d) /\ RunBy(o, d)
                /\ via[d] = k /\ caller[d] = "waiting" /\ d < c
                /\ \A e \in Calls : On(o, e) /\ via[e] = k /\ to[e] # None => e <= d
  BY <1>3, <1>7, <1>8, <1>9, SendMeets
<1>10. Expected(vp)'
  <2>1. SUFFICES ASSUME NEW d \in Calls, Coming(d)'
                 PROVE  ComesTo(vp, d, to[d])'
    BY DEF Expected
  <2>2. CASE d # c
    <3>1. Coming(d) /\ to[d] # None /\ to'[d] = to[d]
      BY <1>2, <1>5, <2>1, <2>2 DEF Coming
    <3>2. PICK v \in OSThreads : v = to[d] /\ ComesTo(up, d, v) /\ Side(v) \in Sides
      BY <1>1, <3>1, CallFact DEF Expected
    <3>3. v \in Workers => vp[v] = up[v]
      BY <1>2, <3>2, ThreadsAssumption, NoneAssumption DEF Side, Sides
    <3>4. PICK t : t = Top(v)
      OBVIOUS
    <3>5. Top(v)' = t
      BY <1>2, <3>4 DEF Top
    <3>6. stack[v] # <<>> => t \in Calls
      BY <3>4, StackTypes DEF IInv
    <3>7. ComesTo(vp, d, v)'
      BY <1>2, <2>2, <3>2, <3>3, <3>4, <3>5, <3>6 DEF ComesTo, MadeBy
    <3>8. QED
      BY <3>1, <3>2, <3>7
  <2>3. CASE d = c
    <3>1. SUFFICES ComesTo(vp, c, w)'
      BY <1>2, <2>3
    <3>2. CASE Creates(up, vp, c, w)
      BY <1>2, <3>2 DEF Creates, ComesTo
    <3>3. CASE ~Creates(up, vp, c, w) /\ stack[w] = <<>> /\ ParentLink(up, o, w, k)
      BY <1>2, <1>3, <1>8, <3>3 DEF ParentLink, ComesTo
    <3>4. CASE ~Creates(up, vp, c, w) /\ (ParentLink(up, w, o, k) \/ stack[w] # <<>>)
      <4>1. PICK e \in Calls :
               /\ stack[w] # <<>> /\ e = Top(w) /\ MadeBy(w, e) /\ RunBy(o, e)
               /\ via[e] = k /\ caller[e] = "waiting" /\ e < c
        BY <1>9, <2>1, <2>3, <3>4
      <4>2. e # c /\ to[e] = o /\ request[e] # "answered" /\ at[e] = w
        BY <1>2, <4>1 DEF RunBy, MadeBy, Executing
      <4>3. Top(w)' = e
        BY <1>2, <4>1 DEF Top
      <4>4. QED
        BY <1>2, <1>3, <4>1, <4>2, <4>3 DEF ComesTo, MadeBy, Open
    <3>5. QED
      BY <1>8, <3>2, <3>3, <3>4 DEF Link
  <2>4. QED
    BY <2>2, <2>3
\* Nothing else is coming to that thread.
<1>11. ASSUME NEW e \in Calls, e # c, Coming(e), to[e] = w, Coming(c)'
       PROVE  FALSE
  <2>1. to[e] # None /\ request[e] # "answered"
    BY <1>11, <1>4 DEF Coming
  <2>2. ~Creates(up, vp, c, w)
    BY <1>11 DEF Creates
  <2>3. Alive(k) /\ ComesTo(up, e, w)
    BY <1>1, <1>7, <1>11, <2>2 DEF Expected
  <2>4. CASE stack[w] = <<>>
    <3>1. ParentLink(up, o, w, k) /\ up[w] = <<at[e], via[e]>>
      BY <1>8, <1>9, <1>11, <2>2, <2>3, <2>4 DEF Link, ComesTo
    <3>2. at[e] = o /\ via[e] = k
      BY <3>1 DEF ParentLink
    <3>3. On(o, e)
      BY <1>1, <2>1, <2>3, <3>2, CallerFact
    <3>4. Partner(o, e) = w /\ to[Top(o)] = None
      BY <1>2, <1>4, <1>11, <3>2 DEF Partner
    <3>5. stack[w] # <<>>
      BY <1>1, <1>4, <2>1, <2>3, <3>2, <3>3, <3>4, Token
    <3>6. QED
      BY <2>4, <3>5
  <2>5. CASE stack[w] # <<>>
    <3>1. PICK d \in Calls :
             /\ d = Top(w) /\ RunBy(o, d) /\ via[d] = k
             /\ \A b \in Calls : On(o, b) /\ via[b] = k /\ to[b] # None => b <= d
      BY <1>9, <1>11, <2>2, <2>5
    <3>2. at[e] = o /\ via[e] = k /\ d < e
      BY <2>3, <2>5, <3>1 DEF ComesTo, RunBy
    <3>3. On(o, e)
      BY <1>1, <2>1, <2>3, <3>2, CallerFact
    <3>4. QED
      BY <2>1, <3>1, <3>2, <3>3, CallNumbers
  <2>6. QED
    BY <2>4, <2>5
<1>12. OneComing'
  <2>1. SUFFICES ASSUME NEW d \in Calls, NEW e \in Calls, Coming(d)', Coming(e)', to'[d] = to'[e]
                 PROVE  d = e
    BY DEF OneComing
  <2>2. CASE d # c /\ e # c
    BY <1>1, <1>2, <1>5, <2>1, <2>2 DEF OneComing
  <2>3. CASE d = c /\ e # c
    BY <1>2, <1>5, <1>11, <2>1, <2>3
  <2>4. CASE d # c /\ e = c
    BY <1>2, <1>5, <1>11, <2>1, <2>4
  <2>5. QED
    BY <2>2, <2>3, <2>4
<1>13. QED
  BY <1>6, <1>10, <1>12

----------------------------------------------------------------------------
(* The inductive invariant holds.                                          *)

LEMMA InitNested == Init => NestedInv
<1> SUFFICES ASSUME Init PROVE NestedInv
  OBVIOUS
<1>1. IInv
  BY InitIInv
<1>2. PICK up : up = [w \in Workers |-> <<None, 0>>]
  OBVIOUS
<1>3. up \in Parents
  BY <1>2 DEF Parents
<1>4. /\ connected = {} /\ inserted = {}
      /\ \A o \in OSThreads : stack[o] = <<>> /\ \A c \in Calls : ~On(o, c)
      /\ \A c \in Calls : caller[c] = "new" /\ request[c] = "none" /\ at[c] = None /\ to[c] = None
      /\ \A w \in Workers : made[w] = None
  BY DEF Init, On
<1>5. None \notin OSThreads
  BY NoneAssumption DEF OSThreads
<1>6. Shape
  BY <1>4, <1>5 DEF Shape, Numbered, Sorted, Stacked, Alternate, MadeBy, RunBy, Open, Executing
<1>7. CallsBackToCaller
  BY <1>4 DEF CallsBackToCaller
<1>8. Bottom(up)
  BY <1>4 DEF Bottom
<1>9. Tree(up)
  BY <1>4 DEF Tree, CallLinks, EntryLinks, ParentEntry, ParentLink, Up
<1>10. Entries
  BY <1>4 DEF Entries, StackEntries, FreeEntries, InsertedAlone
<1>11. Awaited /\ Expected(up) /\ OneComing
  BY <1>4 DEF Awaited, Expected, OneComing, Coming
<1>12. Nested(up)
  BY <1>6, <1>7, <1>8, <1>9, <1>10, <1>11 DEF Nested
<1>13. QED
  BY <1>1, <1>3, <1>12 DEF NestedInv

LEMMA CallerNested ==
    ASSUME IInv, NEW up \in Parents, Nested(up), NEW c \in Calls,
           LoopNotSent(c) \/ LoopResolve(c) \/ LoopAnswer(c) \/ LoopReject(c)
    PROVE  Nested(up)'
<1>1. Still /\ UNCHANGED <<sideVars, request_threads, requestVars>>
  BY StillCaller
<1>2. Shape' /\ CallsBackToCaller' /\ Bottom(up)'
  BY <1>1, StillShape
<1>3. Tree(up)'
  BY <1>1, TreeFrame DEF Still, Nested
<1>4. Entries'
  BY CallerEntries
<1>5. Awaited' /\ Expected(up)' /\ OneComing'
  BY CallerComing
<1>6. QED
  BY <1>2, <1>3, <1>4, <1>5 DEF Nested

LEMMA RequestNested ==
    ASSUME IInv, NEW up \in Parents, Nested(up), NEW c \in Calls,
           \/ Lose(c) \/ LoopReceive(c) \/ LoopPost(c)
           \/ SyncRegister(c) \/ MethodReturn(c) \/ SyncExit(c)
    PROVE  Nested(up)'
<1>1. Still /\ UNCHANGED <<sideVars, callVars, to>>
  BY StillRequest
<1>2. Shape' /\ CallsBackToCaller' /\ Bottom(up)'
  BY <1>1, StillShape
<1>3. CASE Lose(c) \/ LoopReceive(c) \/ LoopPost(c) \/ MethodReturn(c)
  <2>1. UNCHANGED request_threads
    BY <1>3 DEF Lose, LoopReceive, LoopPost, MethodReturn
  <2>2. Tree(up)'
    BY <1>1, <2>1, TreeFrame DEF Still, Nested
  <2>3. QED
    BY <1>2, <1>3, <2>2, RequestEntries, RequestComing DEF Nested
<1>4. CASE SyncRegister(c)
  BY <1>2, <1>4, SyncRegisterEntries, RequestComing DEF Nested
<1>5. CASE SyncExit(c)
  BY <1>2, <1>5, SyncExitEntries, RequestComing DEF Nested
<1>6. QED
  BY <1>3, <1>4, <1>5

LEMMA ConnectionNested ==
    ASSUME IInv, NEW up \in Parents, Nested(up), NEW k \in Connections,
           Connect(k) \/ \E s \in Sides : Disconnect(k, s)
    PROVE  Nested(up)'
<1>1. Still
  BY StillConnection
<1>2. Shape' /\ CallsBackToCaller' /\ Bottom(up)'
  BY <1>1, StillShape
<1>3. CASE Connect(k)
  BY <1>2, <1>3, ConnectEntries, ConnectComing DEF Nested
<1>4. CASE \E s \in Sides : Disconnect(k, s)
  BY <1>2, <1>4, DisconnectEntries, DisconnectComing DEF Nested
<1>5. QED
  BY <1>3, <1>4

\* Calls that begin and end on a stack.
LEMMA StackNested ==
    ASSUME IInv, TypeOK', NEW up \in Parents, Nested(up),
           \/ \E c \in Calls, o \in OSThreads, k \in Connections : Invoke(c, o, k)
           \/ \E c \in Calls, o \in OSThreads : PickUp(o, c)
           \/ \E o \in OSThreads : Return(o)
           \/ \E c \in Calls : SyncAnswer(c)
    PROVE  Nested(up)'
<1>1. Tree(up) /\ Shape
  BY DEF Nested
<1>2. ASSUME NEW c \in Calls, NEW o \in OSThreads, NEW k \in Connections, Invoke(c, o, k)
      PROVE  Nested(up)'
  <2>1. Tree(up)'
    <3>1. /\ UNCHANGED <<sideVars, request_threads, requestVars>>
          /\ \A d \in Calls : d # c => at'[d] = at[d] /\ via'[d] = via[d]
          /\ to[c] = None
      BY <1>1, <1>2, InvokeFact
    <3>2. QED
      BY <1>1, <3>1, TreeFrame DEF requestVars
  <2>2. QED
    BY <1>2, <2>1, InvokeShape, InvokeEntries, InvokeComing DEF Nested
<1>3. ASSUME NEW c \in Calls, NEW o \in OSThreads, PickUp(o, c)
      PROVE  Nested(up)'
  <2>1. Tree(up)'
    <3>1. UNCHANGED <<sideVars, request_threads, callVars, to, inserted>>
      BY <1>3, PickUpFact
    <3>2. QED
      BY <1>1, <3>1, TreeFrame DEF callVars
  <2>2. QED
    BY <1>3, <2>1, PickUpShape, PickUpEntries, PickUpComing DEF Nested
<1>4. ASSUME NEW o \in OSThreads, Return(o)
      PROVE  Nested(up)'
  <2>1. /\ UNCHANGED <<sideVars, request_threads, at, via, requestVars>>
        /\ Pop(o) /\ stack[o] # <<>>
    BY <1>1, <1>4, ReturnFact
  <2>2. Tree(up)'
    BY <1>1, <2>1, TreeFrame DEF requestVars
  <2>3. Entries'
    BY <2>1, PopEntries DEF requestVars
  <2>4. QED
    BY <1>4, <2>2, <2>3, ReturnShape, ReturnComing DEF Nested
<1>5. ASSUME NEW c \in Calls, SyncAnswer(c)
      PROVE  Nested(up)'
  <2>1. /\ UNCHANGED <<sideVars, request_threads, callVars, to, inserted>>
        /\ to[c] \in OSThreads /\ Pop(to[c]) /\ stack[to[c]] # <<>>
        /\ request[c] = "answering" /\ request'[c] = IF There(c) THEN "answered" ELSE "lost"
        /\ \A d \in Calls : d # c => request'[d] = request[d]
    BY <1>1, <1>5, SyncAnswerFact
  <2>2. Tree(up)'
    BY <1>1, <2>1, TreeFrame DEF callVars
  <2>3. Entries'
    BY <2>1, PopEntries DEF callVars
  <2>4. QED
    BY <1>5, <2>2, <2>3, SyncAnswerShape, SyncAnswerComing DEF Nested
<1>6. QED
  BY <1>2, <1>3, <1>4, <1>5

LEMMA SendNested ==
    ASSUME IInv, IInv', NEW up \in Parents, Nested(up), NEW c \in Calls, LoopSend(c)
    PROVE  \E vp \in Parents : Nested(vp)'
<1>1. PICK w \in OSThreads, vp \in Parents : Sends(up, vp, c, w)
  BY SendFact
<1>2. TypeOK'
  BY DEF IInv
<1>3. Nested(vp)'
  BY <1>1, <1>2, SendShape, SendTree, SendEntries, SendComing DEF Nested
<1>4. QED
  BY <1>3

LEMMA StutterNested ==
    ASSUME IInv, NEW up \in Parents, Nested(up), UNCHANGED vars
    PROVE  Nested(up)'
<1>1. UNCHANGED <<connected, address, made, request_threads, stack, caller, at, via, to, request, inserted>>
  BY DEF vars, sideVars, callVars, requestVars
<1>2. Shape' /\ CallsBackToCaller' /\ Bottom(up)'
  <2>1. Still
    BY <1>1 DEF Still
  <2>2. QED
    BY <2>1, StillShape
<1>3. Tree(up)'
  BY <1>1, TreeFrame DEF Nested, sideVars
<1>4. Entries'
  BY <1>1 DEF Nested, Entries, StackEntries, FreeEntries, InsertedAlone,
              On, Registered, Up, Entry, Side, Partner, There
<1>5. Awaited' /\ Expected(up)' /\ OneComing'
  BY <1>1 DEF Nested, Awaited, Expected, OneComing, Coming, ComesTo, MadeBy, Top, Alive, There, Side
<1>6. QED
  BY <1>2, <1>3, <1>4, <1>5 DEF Nested

LEMMA StepNested == NestedInv /\ [Next]_vars => NestedInv'
<1> SUFFICES ASSUME NestedInv, [Next]_vars PROVE NestedInv'
  OBVIOUS
<1>1. IInv
  BY DEF NestedInv
<1>2. IInv'
  BY <1>1, StepIInv
<1>3. TypeOK'
  BY <1>2 DEF IInv
<1>4. PICK up \in Parents : Nested(up)
  BY DEF NestedInv
<1>5. SUFFICES \E vp \in Parents : Nested(vp)'
  BY <1>2 DEF NestedInv, Parents
<1>6. CASE \E k \in Connections : Connect(k) \/ \E s \in Sides : Disconnect(k, s)
  BY <1>1, <1>4, <1>6, ConnectionNested
<1>7. CASE \E c \in Calls, o \in OSThreads, k \in Connections : Invoke(c, o, k)
  BY <1>1, <1>3, <1>4, <1>7, StackNested
<1>8. CASE \E c \in Calls : CallerStep(c) \/ RequestStep(c) \/ Lose(c)
  <2>1. PICK c \in Calls : CallerStep(c) \/ RequestStep(c) \/ Lose(c)
    BY <1>8
  <2>2. CASE LoopSend(c)
    BY <1>1, <1>2, <1>4, <2>2, SendNested
  <2>3. CASE LoopNotSent(c) \/ LoopResolve(c) \/ LoopAnswer(c) \/ LoopReject(c)
    BY <1>1, <1>4, <2>3, CallerNested
  <2>4. CASE \/ Lose(c) \/ LoopReceive(c) \/ LoopPost(c)
             \/ SyncRegister(c) \/ MethodReturn(c) \/ SyncExit(c)
    BY <1>1, <1>4, <2>4, RequestNested
  <2>5. CASE SyncAnswer(c)
    BY <1>1, <1>3, <1>4, <2>5, StackNested
  <2>6. QED
    BY <2>1, <2>2, <2>3, <2>4, <2>5 DEF CallerStep, RequestStep
<1>9. CASE \E o \in OSThreads : ThreadStep(o)
  BY <1>1, <1>3, <1>4, <1>9, StackNested DEF ThreadStep
<1>10. CASE UNCHANGED vars
  BY <1>1, <1>4, <1>10, StutterNested
<1>11. CASE Terminated
  BY <1>10, <1>11 DEF Terminated
<1>12. QED
  BY <1>6, <1>7, <1>8, <1>9, <1>10, <1>11 DEF Next

\* The threads that call each other are a tree, and calls over each of its edges
\* nest, however calls, callbacks and disconnects interleave.
THEOREM CallsNest == Spec => []NestedInv
BY InitNested, StepNested, PTL DEF Spec

\* A call that a method makes goes back to the thread that waits for the method,
\* whatever calls over other connections are between them: PassField stores the
\* caller's callbackThread, and a removed entry is one that no call needs.
THEOREM CallsGoBack == Spec => []CallsBackToCaller
<1>1. NestedInv => CallsBackToCaller
  BY DEF NestedInv, Nested
<1>2. QED
  BY <1>1, CallsNest, PTL

\* A thread and the worker that executes its call never run at once while their
\* connection is up: clientInvoke waits, and serverInvoke answers as its last step.
THEOREM NeverBothRun == Spec => []OneRuns
<1>1. NestedInv => OneRuns
  BY RunsAlone DEF NestedInv
<1>2. QED
  BY <1>1, CallsNest, PTL

\* A request posted by ProxyServer<Thread>::post finds its thread in Waiter::wait,
\* with no other request before it, also not one of another connection.
THEOREM PostedFindsWaiting == Spec => []PostedIsRun
<1>1. NestedInv => PostedIsRun
  BY FoundWaiting DEF NestedInv
<1>2. QED
  BY <1>1, CallsNest, PTL
=============================================================================
