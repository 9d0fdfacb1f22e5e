----------------------------- MODULE CallsProofs -----------------------------
(***************************************************************************)
(* Proofs about Calls: types, with the addresses that entries are kept     *)
(* under (TypeOK), that a client thread keeps its worker (OneWorker), and  *)
(* that calls keep the promise of RemoteCalls (KeepsPromise), for all sets *)
(* of threads and any number of connections and calls.                     *)
(***************************************************************************)
EXTENDS Calls, TLAPS

\* Whether thread o runs on the side s of connection k while that end is up.
Up(o, k) == <<k, Side(o)>> \in connected

----------------------------------------------------------------------------
(* The inductive invariant.                                                *)

\* Connections have two ends, with addresses.
Addressed ==
    /\ \A e \in connected : address[e] # 0
    /\ \A k \in Connections : (address[<<k, "client">>] = 0) <=> (address[<<k, "server">>] = 0)

\* A call is made on one side and executed on the other.
Opposite ==
    \A c \in Calls :
        /\ at[c] # None => /\ Side(at[c]) \in Sides
                           /\ via[c] \in Connections
                           /\ \A s \in Sides : address[<<via[c], s>>] # 0
        /\ to[c] # None => at[c] # None /\ Side(to[c]) = Peer(Side(at[c]))

\* Entries name a thread of the other side.
EntriesOpposite ==
    \A o \in OSThreads, a \in Addresses :
        request_threads[o][a] # None => Side(request_threads[o][a]) = Peer(Side(o))

\* A client thread that has made a call over a connection keeps the entry for it.
UserEntries ==
    \A c \in Calls : at[c] \in Users /\ to[c] # None /\ Here(c) => Entry(at[c], via[c]) = to[c]

\* An entry names a client thread only where that has made a call.
EntryOrigin ==
    \A o \in OSThreads, k \in Connections :
        Up(o, k) /\ Entry(o, k) \in Users =>
            \E d \in Calls : at[d] = Entry(o, k) /\ via[d] = k /\ to[d] # None

CallOrigin ==
    \A c \in Calls : to[c] \in Users =>
        \E d \in Calls : at[d] = to[c] /\ via[d] = via[c] /\ to[d] # None

\* So a request that inserts an entry executes on a worker.
InsertedByWorkers == \A c \in inserted : to[c] \in Workers

Maps == /\ Addressed /\ Opposite /\ EntriesOpposite
        /\ UserEntries /\ EntryOrigin /\ CallOrigin /\ InsertedByWorkers

\* How far a call is, and what is known about it by then.
Control ==
    \A c \in Calls :
        /\ caller[c] = "new" <=> at[c] = None
        /\ request[c] = "none" <=> to[c] = None
        /\ caller[c] \in {"new", "posting"} => request[c] = "none" /\ outcome[c] = "none"
        /\ caller[c] = "resolved" => c \in executed
        /\ caller[c] \in {"done", "returned"} => outcome[c] # "none"
        /\ request[c] = "answered" => c \in executed
        /\ request[c] \in {"returning", "answering"} /\ There(c) => c \in executed
        /\ outcome[c] = "answered" => c \in executed
        /\ outcome[c] = "not_sent" => request[c] = "none"
        /\ outcome[c] # "none" => caller[c] \in {"done", "returned"}

IInv == TypeOK /\ OneWorker /\ Maps /\ Control

----------------------------------------------------------------------------
(* Stacks, sides and single entries.                                       *)

LEMMA StackTypes ==
    ASSUME TypeOK, NEW o \in OSThreads
    PROVE  /\ \A c \in Calls : Push(o, c) => stack' \in [OSThreads -> Seq(Calls)]
           /\ Pop(o) => stack' \in [OSThreads -> Seq(Calls)]
           /\ stack[o] # <<>> => Top(o) \in Calls
<1>1. stack \in [OSThreads -> Seq(Calls)] /\ stack[o] \in Seq(Calls)
  BY DEF TypeOK
<1>2. \A c \in Calls : Append(stack[o], c) \in Seq(Calls)
  BY <1>1
<1>3. SubSeq(stack[o], 1, Len(stack[o]) - 1) \in Seq(Calls)
  BY <1>1
<1>4. stack[o] # <<>> => stack[o][Len(stack[o])] \in Calls
  BY <1>1
<1>5. QED
  BY <1>1, <1>2, <1>3, <1>4 DEF Push, Pop, Top

LEMMA SideTypes ==
    ASSUME TypeOK, NEW o \in OSThreads
    PROVE  /\ Side(o) \in Sides \union {None}
           /\ o \in Users => Side(o) = "client"
           /\ None \notin Sides /\ None \notin OSThreads
           /\ \A s : Peer(s) \in Sides
           /\ \A s \in Sides : Peer(Peer(s)) = s
           /\ o \in Workers => Side(o) = made[o]
BY ThreadsAssumption, NoneAssumption DEF TypeOK, Side, Sides, OSThreads, Peer

\* Ends of connections that are up, on one side and at one address.
LEMMA SameAddress ==
    ASSUME TypeOK, NEW o \in OSThreads, NEW j \in Connections, NEW k \in Connections,
           Up(o, j), Up(o, k), address[<<j, Side(o)>>] = address[<<k, Side(o)>>]
    PROVE  j = k
<1> DEFINE d == <<j, Side(o)>>
           e == <<k, Side(o)>>
<1>1. d \in connected /\ e \in connected /\ d[2] = e[2] /\ address[d] = address[e]
  BY DEF Up
<1>2. d = e
  BY <1>1 DEF TypeOK
<1>3. QED
  BY <1>2

LEMMA AddressOfUp ==
    ASSUME TypeOK, Addressed, NEW o \in OSThreads, NEW k \in Connections, Up(o, k)
    PROVE  address[<<k, Side(o)>>] \in Addresses /\ Side(o) \in Sides
BY DEF TypeOK, Addressed, Up, Ends

\* What storing an entry changes.
LEMMA EntrySet ==
    ASSUME TypeOK, NEW o \in OSThreads, NEW k, address[<<k, Side(o)>>] \in Addresses,
           NEW w \in OSThreads \union {None}, SetEntry(o, k, w)
    PROVE  /\ request_threads' \in [OSThreads -> [Addresses -> OSThreads \union {None}]]
           /\ \A p \in OSThreads, a \in Addresses :
                 request_threads'[p][a] = IF p = o /\ a = address[<<k, Side(o)>>] THEN w
                                          ELSE request_threads[p][a]
<1>1. address[<<k, Side(o)>>] \in Addresses
  OBVIOUS
<1>2. request_threads \in [OSThreads -> [Addresses -> OSThreads \union {None}]]
  BY DEF TypeOK
<1>3. request_threads' = [request_threads EXCEPT ![o] = [request_threads[o] EXCEPT ![address[<<k, Side(o)>>]] = w]]
  BY DEF SetEntry
<1>4. request_threads[o] \in [Addresses -> OSThreads \union {None}]
  BY <1>2
<1>5. QED
  BY <1>1, <1>2, <1>3, <1>4

----------------------------------------------------------------------------
(* Steps that leave connections, entries and who calls whom alone.         *)

LEMMA MapsFrame ==
    ASSUME TypeOK, OneWorker, Maps, UNCHANGED <<sideVars, request_threads, at, via, to>>,
           inserted' \subseteq inserted
    PROVE  OneWorker' /\ Maps'
BY DEF OneWorker, Maps, Addressed, Opposite, EntriesOpposite, UserEntries, EntryOrigin,
       CallOrigin, InsertedByWorkers, Up, Here, Entry, Side, sideVars

LEMMA TypeFrame ==
    ASSUME TypeOK, UNCHANGED <<sideVars, request_threads, at, via, to>>,
           inserted' \subseteq inserted, executed' \subseteq Calls, failed' \in BOOLEAN,
           stack' \in [OSThreads -> Seq(Calls)],
           caller' \in [Calls -> {"new", "posting", "waiting", "resolved", "done", "returned"}],
           request' \in [Calls -> {"none", "sent", "queued", "posted", "picked", "running",
                                   "returning", "answering", "answered", "lost"}],
           outcome' \in [Calls -> {"none", "not_sent", "disconnected", "answered"}]
    PROVE  TypeOK'
BY DEF TypeOK, Side, sideVars

LEMMA CallerSteps ==
    ASSUME IInv, NEW c \in Calls,
           LoopNotSent(c) \/ LoopResolve(c) \/ LoopAnswer(c) \/ LoopReject(c)
    PROVE  IInv'
<1>1. UNCHANGED <<sideVars, request_threads, stack, at, via, requestVars>> /\ failed' \in BOOLEAN
  <2>1. failed \in BOOLEAN
    BY DEF IInv, TypeOK
  <2>2. CASE LoopNotSent(c)
    BY <2>1, <2>2 DEF LoopNotSent
  <2>3. CASE LoopResolve(c)
    BY <2>1, <2>3 DEF LoopResolve
  <2>4. CASE LoopAnswer(c)
    BY <2>1, <2>4 DEF LoopAnswer
  <2>5. CASE LoopReject(c)
    BY <2>1, <2>5 DEF LoopReject
  <2>6. QED
    BY <2>2, <2>3, <2>4, <2>5
<1>2. OneWorker' /\ Maps'
  BY <1>1, MapsFrame DEF IInv, requestVars
<1>3. TypeOK'
  <2>1. stack' \in [OSThreads -> Seq(Calls)] /\ executed' \subseteq Calls
    BY <1>1 DEF IInv, TypeOK, requestVars
  <2>2. /\ caller' \in [Calls -> {"new", "posting", "waiting", "resolved", "done", "returned"}]
        /\ request' \in [Calls -> {"none", "sent", "queued", "posted", "picked", "running",
                                   "returning", "answering", "answered", "lost"}]
        /\ outcome' \in [Calls -> {"none", "not_sent", "disconnected", "answered"}]
    BY ZenonT(60), <1>1 DEF LoopNotSent, LoopResolve, LoopAnswer, LoopReject, SetCaller, NotSent,
                IInv, TypeOK, requestVars
  <2>3. QED
    BY <1>1, <2>1, <2>2, TypeFrame DEF IInv, requestVars
<1>4. Control'
  <2>1. CASE LoopNotSent(c)
    BY <1>1, <2>1 DEF LoopNotSent, SetCaller, NotSent, IInv, TypeOK, Control, There, Side, requestVars,
          sideVars
  <2>2. CASE LoopResolve(c)
    BY <1>1, <2>2 DEF LoopResolve, SetCaller, NotSent, IInv, TypeOK, Control, There, Side, requestVars,
          sideVars
  <2>3. CASE LoopAnswer(c)
    BY <1>1, <2>3 DEF LoopAnswer, SetCaller, NotSent, IInv, TypeOK, Control, There, Side, requestVars,
          sideVars
  <2>4. CASE LoopReject(c)
    BY <1>1, <2>4 DEF LoopReject, SetCaller, NotSent, IInv, TypeOK, Control, There, Side, requestVars,
          sideVars
  <2>5. QED
    BY <2>1, <2>2, <2>3, <2>4
<1>5. QED
  BY <1>2, <1>3, <1>4 DEF IInv

LEMMA RequestSteps ==
    ASSUME IInv, NEW c \in Calls,
           Lose(c) \/ LoopReceive(c) \/ LoopPost(c) \/ MethodReturn(c) \/ SyncAnswer(c)
    PROVE  IInv'
<1>1. /\ UNCHANGED <<sideVars, request_threads, callVars, to, inserted, failed>>
      /\ request[c] # "none" /\ executed' \subseteq Calls
  <2>1. executed \subseteq Calls
    BY DEF IInv, TypeOK
  <2>2. CASE Lose(c)
    BY <2>1, <2>2 DEF Lose
  <2>3. CASE LoopReceive(c)
    BY <2>1, <2>3 DEF LoopReceive
  <2>4. CASE LoopPost(c)
    BY <2>1, <2>4 DEF LoopPost
  <2>5. CASE MethodReturn(c)
    BY <2>1, <2>5 DEF MethodReturn
  <2>6. CASE SyncAnswer(c)
    BY <2>1, <2>6 DEF SyncAnswer
  <2>7. QED
    BY <2>2, <2>3, <2>4, <2>5, <2>6
<1>2. OneWorker' /\ Maps'
  BY <1>1, MapsFrame DEF IInv, callVars
<1>3. TypeOK'
  <2>1. to[c] \in OSThreads
    BY <1>1 DEF IInv, Control, TypeOK
  <2>2. stack' \in [OSThreads -> Seq(Calls)]
    <3>1. stack' = stack \/ Pop(to[c])
      BY DEF Lose, LoopReceive, LoopPost, MethodReturn, SyncAnswer
    <3>2. stack \in [OSThreads -> Seq(Calls)]
      BY DEF IInv, TypeOK
    <3>3. QED
      BY <2>1, <3>1, <3>2, StackTypes DEF IInv
  <2>3. request' \in [Calls -> {"none", "sent", "queued", "posted", "picked", "running",
                                "returning", "answering", "answered", "lost"}]
    <3>1. \E p \in {"lost", "queued", "posted", "returning", "answered"} : SetRequest(c, p)
      BY DEF Lose, LoopReceive, LoopPost, MethodReturn, SyncAnswer
    <3>2. QED
      BY <3>1 DEF SetRequest, IInv, TypeOK
  <2>4. QED
    BY <1>1, <2>2, <2>3, TypeFrame DEF IInv, TypeOK, callVars
<1>4. Control'
  <2>1. CASE Lose(c)
    BY <1>1, <2>1 DEF Lose, SetRequest, IInv, TypeOK, Control, There, Side, callVars, sideVars
  <2>2. CASE LoopReceive(c)
    BY <1>1, <2>2 DEF LoopReceive, SetRequest, IInv, TypeOK, Control, There, Side, callVars, sideVars
  <2>3. CASE LoopPost(c)
    BY <1>1, <2>3 DEF LoopPost, SetRequest, IInv, TypeOK, Control, There, Side, callVars, sideVars
  <2>4. CASE MethodReturn(c)
    BY <1>1, <2>4 DEF MethodReturn, SetRequest, IInv, TypeOK, Control, There, Side, callVars, sideVars
  <2>5. CASE SyncAnswer(c)
    BY <1>1, <2>5 DEF SyncAnswer, SetRequest, IInv, TypeOK, Control, There, Side, callVars, sideVars
  <2>6. QED
    BY <2>1, <2>2, <2>3, <2>4, <2>5
<1>5. QED
  BY <1>2, <1>3, <1>4 DEF IInv

LEMMA PickUpStep ==
    ASSUME IInv, NEW o \in OSThreads, NEW c \in Calls, PickUp(o, c)
    PROVE  IInv'
<1>1. UNCHANGED <<sideVars, request_threads, callVars, to, inserted, executed, failed>>
  BY DEF PickUp
<1>2. OneWorker' /\ Maps'
  BY <1>1, MapsFrame DEF IInv, callVars
<1>3. TypeOK'
  <2>1. stack' \in [OSThreads -> Seq(Calls)]
    BY StackTypes DEF PickUp, IInv
  <2>2. request' \in [Calls -> {"none", "sent", "queued", "posted", "picked", "running",
                                "returning", "answering", "answered", "lost"}]
    BY DEF PickUp, SetRequest, IInv, TypeOK
  <2>3. QED
    BY <1>1, <2>1, <2>2, TypeFrame DEF IInv, TypeOK, callVars
<1>4. Control'
  BY <1>1 DEF PickUp, Posted, SetRequest, IInv, TypeOK, Control, There, Side, callVars, sideVars
<1>5. QED
  BY <1>2, <1>3, <1>4 DEF IInv

LEMMA ReturnStep ==
    ASSUME IInv, NEW o \in OSThreads, Return(o)
    PROVE  IInv'
<1>1. UNCHANGED <<sideVars, request_threads, at, via, outcome, requestVars, failed>>
  BY DEF Return
<1>2. OneWorker' /\ Maps'
  BY <1>1, MapsFrame DEF IInv, requestVars
<1>3. Top(o) \in Calls /\ caller[Top(o)] = "done"
  BY StackTypes DEF Return, Makes, WaitOver, IInv
<1>4. TypeOK'
  <2>1. stack' \in [OSThreads -> Seq(Calls)]
    BY StackTypes DEF Return, IInv
  <2>2. caller' \in [Calls -> {"new", "posting", "waiting", "resolved", "done", "returned"}]
    BY <1>3 DEF Return, SetCaller, IInv, TypeOK
  <2>3. QED
    BY <1>1, <2>1, <2>2, TypeFrame DEF IInv, TypeOK, requestVars
<1>5. Control'
  BY <1>1, <1>3 DEF Return, SetCaller, IInv, TypeOK, Control, There, Side, requestVars, sideVars
<1>6. QED
  BY <1>2, <1>4, <1>5 DEF IInv

----------------------------------------------------------------------------
(* A call begins, and names the thread that will execute it.               *)

LEMMA InvokeStep ==
    ASSUME IInv, NEW c \in Calls, NEW o \in OSThreads, NEW k \in Connections, Invoke(c, o, k)
    PROVE  IInv'
<1>1. /\ UNCHANGED <<sideVars, request_threads, outcome, requestVars, failed>>
      /\ at' = [at EXCEPT ![c] = o] /\ via' = [via EXCEPT ![c] = k]
      /\ caller[c] = "new" /\ caller' = [caller EXCEPT ![c] = "posting"]
      /\ address[<<k, Side(o)>>] # 0
      /\ Push(o, c)
  BY DEF Invoke, SetCaller
<1>2. at[c] = None /\ to[c] = None /\ request[c] = "none" /\ outcome[c] = "none"
  BY <1>1 DEF IInv, Control
<1>3. Side(o) \in Sides
  <2>1. CASE stack[o] = <<>>
    BY <2>1, SideTypes DEF Invoke, UserCode, IInv, Sides
  <2>2. CASE stack[o] # <<>>
    <3>1. Top(o) \in Calls /\ to[Top(o)] = o
      BY <2>2, StackTypes DEF Invoke, UserCode, Executes, IInv
    <3>2. Side(o) = Peer(Side(at[Top(o)]))
      BY <3>1, NoneAssumption DEF IInv, Maps, Opposite, OSThreads
    <3>3. QED
      BY <3>2, SideTypes DEF IInv
  <2>3. QED
    BY <2>1, <2>2
<1>4. \A s \in Sides : address[<<k, s>>] # 0
  BY <1>1, <1>3 DEF IInv, Maps, Addressed, Sides
<1>5. TypeOK'
  <2>1. stack' \in [OSThreads -> Seq(Calls)]
    BY <1>1, StackTypes DEF IInv
  <2>2. QED
    BY <1>1, <2>1 DEF IInv, TypeOK, Side, sideVars, requestVars
<1>6. None \notin OSThreads /\ \A d \in Calls : d # c => at'[d] = at[d] /\ via'[d] = via[d]
  BY <1>1, NoneAssumption DEF IInv, TypeOK, OSThreads
<1>7. at'[c] = o /\ via'[c] = k
  BY <1>1 DEF IInv, TypeOK
<1>8. OneWorker'
  BY <1>1, <1>2, <1>6 DEF IInv, OneWorker, requestVars
<1>9. Maps'
  <2>1. Addressed' /\ EntriesOpposite' /\ InsertedByWorkers'
    BY <1>1 DEF IInv, Maps, Addressed, EntriesOpposite, InsertedByWorkers, Side, sideVars,
                requestVars
  <2>2. Opposite'
    BY <1>1, <1>2, <1>3, <1>4, <1>6, <1>7 DEF IInv, Maps, Opposite, Side, sideVars, requestVars
  <2>3. UserEntries'
    <3>1. \A d \in Calls : d # c => Here(d)' = Here(d) /\ Entry(at[d], via[d])' = Entry(at[d], via[d])
      BY <1>1, <1>6 DEF Here, Entry, Side, sideVars
    <3>2. to' = to
      BY <1>1 DEF requestVars
    <3>3. QED
      BY <1>2, <1>6, <3>1, <3>2 DEF IInv, Maps, UserEntries
  <2>4. EntryOrigin'
    BY <1>1, <1>2, <1>6 DEF IInv, Maps, EntryOrigin, Up, Entry, Side, sideVars, requestVars
  <2>5. CallOrigin'
    BY <1>1, <1>2, <1>6 DEF IInv, Maps, CallOrigin, requestVars, OSThreads
  <2>6. QED
    BY <2>1, <2>2, <2>3, <2>4, <2>5 DEF Maps
<1>10. Control'
  <2>1. \A d \in Calls : d # c => There(d)' = There(d) /\ caller'[d] = caller[d]
    BY <1>1, <1>6 DEF IInv, TypeOK, There, Side, sideVars
  <2>2. caller'[c] = "posting"
    BY <1>1 DEF IInv, TypeOK
  <2>3. QED
    BY <1>1, <1>2, <1>6, <1>7, <2>1, <2>2 DEF IInv, Control, requestVars
<1>11. QED
  BY <1>5, <1>8, <1>9, <1>10 DEF IInv

\* The thread a call names: the entry of the calling thread, or a new one.
LEMMA RequestThreadFact ==
    ASSUME IInv, NEW o \in OSThreads, NEW k \in Connections, Up(o, k),
           NEW w \in OSThreads, RequestThread(o, k, w)
    PROVE  \/ /\ Entry(o, k) = w /\ w # None
              /\ UNCHANGED <<made, request_threads>>
           \/ /\ Entry(o, k) = None
              /\ w \in Workers /\ made[w] = None
              /\ made' = [made EXCEPT ![w] = Peer(Side(o))]
              /\ SetEntry(o, k, w)
<1>1. CASE Entry(o, k) # None
  BY <1>1 DEF RequestThread
<1>2. CASE Entry(o, k) = None
  <2>1. /\ \E v \in Workers : made[v] = None
        /\ w = CHOOSE v \in Workers : made[v] = None
        /\ made' = [made EXCEPT ![w] = Peer(Side(o))]
        /\ SetEntry(o, k, w)
    BY <1>2 DEF RequestThread
  <2>2. w \in Workers /\ made[w] = None
    BY <2>1
  <2>3. QED
    BY <1>2, <2>1, <2>2
<1>3. QED
  BY <1>1, <1>2

\* A thread that does not exist has no entries and is in no call.
LEMMA NewThread ==
    ASSUME IInv, NEW w \in Workers, made[w] = None
    PROVE  /\ \A a \in Addresses : request_threads[w][a] = None
           /\ \A o \in OSThreads, a \in Addresses : request_threads[o][a] # w
           /\ \A c \in Calls : at[c] # w /\ to[c] # w
<1>1. w \in OSThreads /\ Side(w) = None /\ None \notin Sides /\ None \notin OSThreads
  BY SideTypes DEF IInv, OSThreads
<1>2. \A a \in Addresses : request_threads[w][a] = None
  BY <1>1 DEF IInv, TypeOK, Ends
<1>3. \A o \in OSThreads, a \in Addresses : request_threads[o][a] # w
  BY <1>1, SideTypes DEF IInv, Maps, EntriesOpposite
<1>4. \A c \in Calls : at[c] # w /\ to[c] # w
  BY <1>1, SideTypes DEF IInv, Maps, Opposite
<1>5. QED
  BY <1>2, <1>3, <1>4

LEMMA LoopSendStep ==
    ASSUME IInv, NEW c \in Calls, LoopSend(c)
    PROVE  IInv'
<1> DEFINE o == at[c]
           k == via[c]
<1>1. /\ UNCHANGED <<connected, address, stack, at, via, outcome, inserted, executed, failed>>
      /\ caller[c] = "posting" /\ caller' = [caller EXCEPT ![c] = "waiting"]
      /\ request' = [request EXCEPT ![c] = "sent"]
      /\ Here(c)
  BY DEF LoopSend, SetCaller, SetRequest
<1>2. PICK w \in OSThreads : RequestThread(o, k, w) /\ to' = [to EXCEPT ![c] = w]
  BY DEF LoopSend
<1>3. /\ None \notin OSThreads /\ None \notin Sides
      /\ o # None /\ to[c] = None /\ request[c] = "none" /\ outcome[c] = "none"
  BY <1>1, NoneAssumption DEF IInv, Control, OSThreads, Sides
<1>4. /\ o \in OSThreads /\ k \in Connections /\ Side(o) \in Sides /\ Up(o, k)
      /\ address[<<k, Side(o)>>] \in Addresses
  <2>1. o \in OSThreads /\ k \in Connections /\ Side(o) \in Sides
    BY <1>3 DEF IInv, Maps, Opposite, TypeOK
  <2>2. Up(o, k)
    BY <1>1 DEF Here, Up
  <2>3. QED
    BY <2>1, <2>2, AddressOfUp DEF IInv, Maps
<1>5. \/ /\ Entry(o, k) = w /\ UNCHANGED <<made, request_threads>>
      \/ /\ Entry(o, k) = None /\ w \in Workers /\ made[w] = None
         /\ made' = [made EXCEPT ![w] = Peer(Side(o))]
         /\ SetEntry(o, k, w)
  BY <1>2, <1>4, RequestThreadFact
<1>6. to'[c] = w /\ \A d \in Calls : d # c => to'[d] = to[d]
  BY <1>2 DEF IInv, TypeOK
\* What the step does to sides and entries, in both cases.
<1>7. /\ made' \in [Workers -> Sides \union {None}]
      /\ request_threads' \in [OSThreads -> [Addresses -> OSThreads \union {None}]]
      /\ \A p \in OSThreads : Side(p) \in Sides => Side(p)' = Side(p)
      /\ Side(w)' = Peer(Side(o))
      /\ request_threads'[o][address[<<k, Side(o)>>]] = w
      /\ \A p \in OSThreads, a \in Addresses :
            \/ request_threads'[p][a] = request_threads[p][a]
            \/ /\ p = o /\ a = address[<<k, Side(o)>>]
               /\ request_threads'[p][a] = w /\ request_threads[p][a] = None /\ w \notin Users
  <2>1. CASE Entry(o, k) = w /\ UNCHANGED <<made, request_threads>>
    <3>1. Side(w) = Peer(Side(o))
      BY <2>1, <1>3, <1>4 DEF IInv, Maps, EntriesOpposite, Entry
    <3>2. QED
      BY <2>1, <3>1 DEF Entry, Side, IInv, TypeOK
  <2>2. CASE /\ Entry(o, k) = None /\ w \in Workers /\ made[w] = None
             /\ made' = [made EXCEPT ![w] = Peer(Side(o))]
             /\ SetEntry(o, k, w)
    <3>1. w \notin Users /\ w \in Workers
      BY <2>2, ThreadsAssumption
    <3>2. made \in [Workers -> Sides \union {None}] /\ Peer(Side(o)) \in Sides
      BY DEF IInv, TypeOK, Peer, Sides
    <3>3. \A p \in OSThreads : Side(p) \in Sides => Side(p)' = Side(p)
      BY <2>2, <3>2, <1>3 DEF Side, OSThreads
    <3>4. Side(w)' = Peer(Side(o))
      BY <2>2, <3>1, <3>2 DEF Side
    <3>5. /\ request_threads' \in [OSThreads -> [Addresses -> OSThreads \union {None}]]
          /\ \A p \in OSThreads, a \in Addresses :
                request_threads'[p][a] = IF p = o /\ a = address[<<k, Side(o)>>] THEN w
                                         ELSE request_threads[p][a]
      BY <2>2, <1>4, EntrySet DEF IInv, Maps
    <3>6. made' \in [Workers -> Sides \union {None}]
      BY <2>2, <3>2
    <3>7. request_threads[o][address[<<k, Side(o)>>]] = None
      BY <2>2 DEF Entry
    <3>8. QED
      BY <3>1, <3>3, <3>4, <3>5, <3>6, <3>7, <1>4
  <2>3. QED
    BY <1>5, <2>1, <2>2
<1>8. \A p \in OSThreads, a \in Addresses :
         request_threads'[p][a] # None => Side(p) \in Sides /\ Side(p)' = Side(p)
  <2>1. \A p \in OSThreads, a \in Addresses :
           request_threads[p][a] # None => Side(p) \in Sides
    BY DEF IInv, TypeOK, Ends
  <2>2. QED
    BY <2>1, <1>4, <1>7
<1>9. /\ \A d \in Calls : at[d] # None => at[d] \in OSThreads /\ Side(at[d]) \in Sides
      /\ \A d \in Calls : to[d] # None => to[d] \in OSThreads /\ Side(to[d]) \in Sides
  <2>1. \A d \in Calls : at[d] # None => at[d] \in OSThreads /\ Side(at[d]) \in Sides
    BY DEF IInv, TypeOK, Maps, Opposite
  <2>2. \A d \in Calls : to[d] # None => to[d] \in OSThreads
    BY DEF IInv, TypeOK
  <2>3. \A d \in Calls : to[d] # None => Side(to[d]) = Peer(Side(at[d]))
    BY DEF IInv, Maps, Opposite
  <2>4. \A x : Peer(x) \in Sides
    BY DEF Peer, Sides
  <2>5. QED
    BY <2>1, <2>2, <2>3, <2>4
<1>10. TypeOK'
  <2>1. to' \in [Calls -> OSThreads \union {None}]
    BY <1>2 DEF IInv, TypeOK
  <2>2. \A p \in OSThreads, a \in Addresses :
           request_threads'[p][a] # None =>
               \E e \in connected' : e[2] = Side(p)' /\ address'[e] = a
    <3>1. Up(o, k) /\ \E e \in connected : e[2] = Side(o) /\ address[e] = address[<<k, Side(o)>>]
      BY <1>4 DEF Up
    <3>2. \A p \in OSThreads, a \in Addresses :
             request_threads[p][a] # None => \E e \in connected : e[2] = Side(p) /\ address[e] = a
      BY DEF IInv, TypeOK
    <3>3. QED
      BY <1>1, <1>7, <1>8, <3>1, <3>2
  <2>3. QED
    BY ZenonT(60), <1>1, <1>7, <2>1, <2>2 DEF IInv, TypeOK
\* Which ends a call has does not change.
<1>11. \A d \in Calls : at[d] # None => Here(d)' = Here(d) /\ There(d)' = There(d)
  <2>1. \A d \in Calls : at[d] # None =>
           (IF at[d] \in Users THEN "client" ELSE made'[at[d]]) = Side(at[d])
    BY <1>7, <1>9 DEF Side
  <2>2. QED
    BY <1>1, <2>1 DEF Here, There, Side
<1>12. \A d \in Calls : at[d] # None => Entry(at[d], via[d])' = request_threads'[at[d]][address[<<via[d], Side(at[d])>>]]
  <2>1. \A d \in Calls : at[d] # None =>
           (IF at[d] \in Users THEN "client" ELSE made'[at[d]]) = Side(at[d])
    BY <1>7, <1>9 DEF Side
  <2>2. QED
    BY <1>1, <2>1 DEF Entry, Side
\* A client thread that has an entry for the connection uses it.
<1>13. \A d \in Calls : at[d] = o /\ via[d] = k /\ o \in Users /\ to[d] # None => to[d] = w
  <2>1. SUFFICES ASSUME NEW d \in Calls, at[d] = o, via[d] = k, o \in Users, to[d] # None
                 PROVE  to[d] = w
    OBVIOUS
  <2>2. Here(d)
    BY <1>1, <2>1 DEF Here
  <2>3. Entry(o, k) = to[d]
    BY <2>1, <2>2 DEF IInv, Maps, UserEntries
  <2>4. QED
    BY <1>5, <2>1, <2>3
<1>14. OneWorker'
  BY <1>1, <1>3, <1>6, <1>13 DEF IInv, OneWorker
<1>15. Addressed' /\ InsertedByWorkers'
  <2>1. None \notin Workers
    BY NoneAssumption
  <2>2. QED
    BY ZenonT(60), <1>1, <1>3, <1>6, <2>1 DEF IInv, Maps, Addressed, InsertedByWorkers, TypeOK
<1>16. Opposite'
  BY <1>1, <1>3, <1>4, <1>6, <1>7, <1>9 DEF IInv, Maps, Opposite, Side
<1>17. EntriesOpposite'
  <2>1. SUFFICES ASSUME NEW p \in OSThreads, NEW a \in Addresses, request_threads'[p][a] # None
                 PROVE  (Side(request_threads[p][a]) = Peer(Side(p)))'
    BY DEF EntriesOpposite
  <2>2. CASE request_threads'[p][a] = request_threads[p][a]
    <3>1. request_threads[p][a] \in OSThreads
      BY <2>1, <2>2 DEF IInv, TypeOK
    <3>2. Side(request_threads[p][a]) = Peer(Side(p))
      BY <2>1, <2>2 DEF IInv, Maps, EntriesOpposite
    <3>3. Side(request_threads[p][a]) \in Sides
      BY <3>2 DEF Peer, Sides
    <3>4. QED
      BY <1>7, <1>8, <2>1, <2>2, <3>1, <3>2, <3>3 DEF Side, Peer
  <2>3. CASE p = o /\ request_threads'[p][a] = w
    BY <1>1, <1>4, <1>7, <2>3 DEF Side, Peer
  <2>4. QED
    BY <1>7, <2>2, <2>3
<1>18. UserEntries'
  <2>1. SUFFICES ASSUME NEW d \in Calls, at[d] \in Users, to'[d] # None, Here(d)'
                 PROVE  Entry(at[d], via[d])' = to'[d]
    BY <1>1 DEF UserEntries
  <2>2. at[d] # None
    BY <2>1, NoneAssumption
  <2>3. CASE d = c
    BY <1>6, <1>7, <1>12, <2>2, <2>3
  <2>4. CASE d # c
    <3>1. to[d] # None /\ to'[d] = to[d] /\ Here(d)
      BY <1>6, <1>11, <2>1, <2>2, <2>4
    <3>2. Entry(at[d], via[d]) = to[d]
      BY <2>1, <3>1 DEF IInv, Maps, UserEntries
    <3>3. address[<<via[d], Side(at[d])>>] \in Addresses /\ at[d] \in OSThreads
      BY <1>9, <2>2, <3>1, AddressOfUp DEF IInv, Maps, Opposite, Here, Up
    <3>4. QED
      BY <1>7, <1>12, <2>2, <3>1, <3>2, <3>3 DEF Entry
  <2>5. QED
    BY <2>3, <2>4
<1>19. EntryOrigin'
  <2>1. SUFFICES ASSUME NEW p \in OSThreads, NEW j \in Connections,
                        Up(p, j)', Entry(p, j)' \in Users
                 PROVE  \E d \in Calls : at'[d] = Entry(p, j)' /\ via'[d] = j /\ to'[d] # None
    BY DEF EntryOrigin
  <2>2. address[<<j, Side(p)'>>] \in Addresses
    BY <1>1, <2>1 DEF IInv, TypeOK, Maps, Addressed, Up, Ends
  <2>3. Entry(p, j)' = request_threads'[p][address[<<j, Side(p)'>>]]
    BY <1>1 DEF Entry
  <2>4. None \notin Users
    BY NoneAssumption
  <2>5. Side(p)' = Side(p)
    BY <1>8, <2>1, <2>2, <2>3, <2>4
  <2>6. request_threads'[p][address[<<j, Side(p)'>>]] = request_threads[p][address[<<j, Side(p)'>>]]
    BY <1>7, <2>1, <2>2, <2>3
  <2>7. Up(p, j) /\ Entry(p, j) = Entry(p, j)'
    BY <1>1, <2>1, <2>3, <2>5, <2>6 DEF Up, Entry
  <2>8. PICK d \in Calls : at[d] = Entry(p, j) /\ via[d] = j /\ to[d] # None
    BY <2>1, <2>7 DEF IInv, Maps, EntryOrigin
  <2>9. QED
    BY <1>1, <1>3, <1>6, <2>7, <2>8
<1>20. CallOrigin'
  <2>1. SUFFICES ASSUME NEW d \in Calls, to'[d] \in Users
                 PROVE  \E b \in Calls : at'[b] = to'[d] /\ via'[b] = via'[d] /\ to'[b] # None
    BY DEF CallOrigin
  <2>2. CASE d = c
    <3>1. Entry(o, k) = w
      BY <1>5, <1>6, <2>1, <2>2, ThreadsAssumption
    <3>2. PICK b \in Calls : at[b] = w /\ via[b] = k /\ to[b] # None
      BY <1>4, <1>6, <2>1, <2>2, <3>1 DEF IInv, Maps, EntryOrigin
    <3>3. QED
      BY <1>1, <1>3, <1>6, <2>2, <3>2
  <2>3. CASE d # c
    BY <1>1, <1>3, <1>6, <2>1, <2>3 DEF IInv, Maps, CallOrigin
  <2>4. QED
    BY <2>2, <2>3
<1>21. Control'
  <2>1. \A d \in Calls : d # c => caller'[d] = caller[d] /\ request'[d] = request[d]
    BY <1>1 DEF IInv, TypeOK
  <2>2. caller'[c] = "waiting" /\ request'[c] = "sent"
    BY <1>1 DEF IInv, TypeOK
  <2>3. w # None
    BY <1>3
  <2>4. SUFFICES ASSUME NEW d \in Calls, d # c
                 PROVE request[d] \in {"returning", "answering"} /\ There(d)' => d \in executed
    BY <1>1, <1>3, <1>6, <2>1, <2>2, <2>3 DEF IInv, Control
  <2>5. QED
    BY <1>11 DEF IInv, Control, Maps, Opposite
<1>22. QED
  BY <1>10, <1>14, <1>15, <1>16, <1>17, <1>18, <1>19, <1>20, <1>21 DEF IInv, Maps

----------------------------------------------------------------------------
(* The entry of a request.                                                 *)

\* The ends of a call whose request has been sent.
LEMMA SentFact ==
    ASSUME IInv, NEW c \in Calls, request[c] # "none"
    PROVE  /\ at[c] \in OSThreads /\ to[c] \in OSThreads /\ via[c] \in Connections
           /\ None \notin OSThreads
           /\ Side(to[c]) = Peer(Side(at[c])) /\ Side(at[c]) = Peer(Side(to[c]))
           /\ address[<<via[c], Side(to[c])>>] \in Addresses
           /\ There(c) = Up(to[c], via[c])
<1>1. to[c] # None /\ to[c] \in OSThreads /\ None \notin OSThreads
  BY NoneAssumption DEF IInv, Control, TypeOK, OSThreads
<1>2. /\ at[c] # None /\ via[c] \in Connections
      /\ Side(at[c]) \in Sides /\ Side(to[c]) = Peer(Side(at[c]))
      /\ \A s \in Sides : address[<<via[c], s>>] # 0
  BY <1>1 DEF IInv, Maps, Opposite
<1>3. at[c] \in OSThreads
  BY <1>2 DEF IInv, TypeOK
<1>4. Side(to[c]) \in Sides /\ Side(at[c]) = Peer(Side(to[c]))
  BY <1>2 DEF Peer, Sides
<1>5. address[<<via[c], Side(to[c])>>] \in Addresses
  BY <1>2, <1>4 DEF IInv, TypeOK, Ends
<1>6. QED
  BY <1>1, <1>2, <1>3, <1>4, <1>5 DEF There, Up

LEMMA InsertStep ==
    ASSUME IInv, NEW c \in Calls, request[c] = "picked", There(c),
           Entry(to[c], via[c]) = None, SetEntry(to[c], via[c], at[c]),
           inserted' = inserted \union {c}, UNCHANGED <<sideVars, callVars, to>>
    PROVE  OneWorker' /\ Maps' /\ request_threads' \in [OSThreads -> [Addresses -> OSThreads \union {None}]]
           /\ \A o \in OSThreads, a \in Addresses :
                 request_threads'[o][a] # None =>
                     \E e \in connected' : e[2] = Side(o)' /\ address'[e] = a
<1> DEFINE o == to[c]
           k == via[c]
<1>1. /\ o \in OSThreads /\ at[c] \in OSThreads /\ k \in Connections /\ None \notin OSThreads
      /\ Side(o) = Peer(Side(at[c])) /\ Side(at[c]) = Peer(Side(o))
      /\ address[<<k, Side(o)>>] \in Addresses /\ Up(o, k)
  BY SentFact
<1>2. /\ request_threads' \in [OSThreads -> [Addresses -> OSThreads \union {None}]]
      /\ \A p \in OSThreads, a \in Addresses :
            request_threads'[p][a] = IF p = o /\ a = address[<<k, Side(o)>>] THEN at[c]
                                     ELSE request_threads[p][a]
  BY <1>1, EntrySet DEF IInv
<1>3. UNCHANGED <<connected, address, made, at, via, to>>
  BY DEF sideVars, callVars
<1>4. OneWorker' /\ Addressed' /\ Opposite' /\ CallOrigin'
  BY <1>3 DEF IInv, OneWorker, Maps, Addressed, Opposite, CallOrigin, Side
<1>5. EntriesOpposite'
  <2>1. \A p \in OSThreads, a \in Addresses :
           request_threads'[p][a] # None => Side(request_threads'[p][a]) = Peer(Side(p))
    BY <1>1, <1>2 DEF IInv, Maps, EntriesOpposite
  <2>2. QED
    BY <1>3, <2>1 DEF EntriesOpposite, Side
\* A client thread that has made the call that this request serves has an entry.
<1>6. \A d \in Calls : at[d] \in Users /\ to[d] # None /\ Here(d) => ~(at[d] = o /\ via[d] = k)
  BY <1>1 DEF IInv, Maps, UserEntries
<1>7. UserEntries'
  <2>1. SUFFICES ASSUME NEW d \in Calls, at[d] \in Users, to[d] # None, Here(d)
                 PROVE  Entry(at[d], via[d])' = to[d]
    BY <1>3 DEF UserEntries, Here, Side
  <2>2. Entry(at[d], via[d]) = to[d]
    BY <2>1 DEF IInv, Maps, UserEntries
  <2>3. at[d] \in OSThreads /\ via[d] \in Connections /\ Up(at[d], via[d])
    BY <2>1, NoneAssumption DEF OSThreads, Here, Up, IInv, Maps, Opposite
  <2>4. address[<<via[d], Side(at[d])>>] \in Addresses
    BY <2>3, AddressOfUp DEF IInv, Maps
  <2>5. ~(at[d] = o /\ address[<<via[d], Side(at[d])>>] = address[<<k, Side(o)>>])
    BY <1>1, <1>6, <2>1, <2>3, SameAddress DEF IInv
  <2>6. request_threads'[at[d]][address[<<via[d], Side(at[d])>>]] = to[d]
    BY <1>2, <2>2, <2>3, <2>4, <2>5 DEF Entry
  <2>7. QED
    BY <1>3, <2>6 DEF Entry, Side
<1>8. EntryOrigin'
  <2>1. SUFFICES ASSUME NEW p \in OSThreads, NEW j \in Connections, Up(p, j), Entry(p, j)' \in Users
                 PROVE  \E d \in Calls : at[d] = Entry(p, j)' /\ via[d] = j /\ to[d] # None
    BY <1>3 DEF EntryOrigin, Up, Side
  <2>2. address[<<j, Side(p)>>] \in Addresses
    BY <2>1, AddressOfUp DEF IInv, Maps
  <2>3. Entry(p, j)' = request_threads'[p][address[<<j, Side(p)>>]]
    BY <1>3 DEF Entry, Side
  <2>4. CASE p = o /\ address[<<j, Side(p)>>] = address[<<k, Side(o)>>]
    <3>1. j = k
      BY <1>1, <2>1, <2>4, SameAddress DEF IInv
    <3>2. QED
      BY <1>1, <1>2, <2>2, <2>3, <2>4, <3>1
  <2>5. CASE ~(p = o /\ address[<<j, Side(p)>>] = address[<<k, Side(o)>>])
    <3>1. Entry(p, j)' = Entry(p, j)
      BY <1>2, <2>2, <2>3, <2>5 DEF Entry
    <3>2. QED
      BY <2>1, <3>1 DEF IInv, Maps, EntryOrigin
  <2>6. QED
    BY <2>4, <2>5
<1>9. InsertedByWorkers'
  <2>1. o \notin Users
    <3>1. SUFFICES ASSUME o \in Users PROVE FALSE
      OBVIOUS
    <3>2. PICK d \in Calls : at[d] = o /\ via[d] = k /\ to[d] # None
      BY <3>1 DEF IInv, Maps, CallOrigin
    <3>3. Here(d)
      BY <1>1, <3>2 DEF Here, Up
    <3>4. QED
      BY <1>6, <3>1, <3>2, <3>3
  <2>2. QED
    BY <1>1, <1>3, <2>1 DEF IInv, Maps, InsertedByWorkers, OSThreads
<1>10. \A p \in OSThreads, a \in Addresses :
          request_threads'[p][a] # None => \E e \in connected' : e[2] = Side(p)' /\ address'[e] = a
  <2>1. \A p \in OSThreads, a \in Addresses :
           request_threads[p][a] # None => \E e \in connected : e[2] = Side(p) /\ address[e] = a
    BY DEF IInv, TypeOK
  <2>2. \E e \in connected : e[2] = Side(o) /\ address[e] = address[<<k, Side(o)>>]
    BY <1>1 DEF Up
  <2>3. \A p \in OSThreads, a \in Addresses :
          request_threads'[p][a] # None => \E e \in connected : e[2] = Side(p) /\ address[e] = a
    BY <1>2, <2>1, <2>2
  <2>4. QED
    BY <1>3, <2>3 DEF Side
<1>11. QED
  BY <1>2, <1>4, <1>5, <1>7, <1>8, <1>9, <1>10 DEF Maps

LEMMA SyncRegisterStep ==
    ASSUME IInv, NEW c \in Calls, SyncRegister(c)
    PROVE  IInv'
<1>1. /\ UNCHANGED <<sideVars, stack, callVars, to, executed, failed>>
      /\ request[c] = "picked"
      /\ \/ There(c) /\ Register(to[c], c) /\ SetRequest(c, "running")
         \/ ~There(c) /\ SetRequest(c, "returning") /\ UNCHANGED <<request_threads, inserted>>
  BY DEF SyncRegister
<1>2. /\ OneWorker' /\ Maps' /\ inserted' \subseteq Calls
      /\ request_threads' \in [OSThreads -> [Addresses -> OSThreads \union {None}]]
      /\ \A o \in OSThreads, a \in Addresses :
            request_threads'[o][a] # None => \E e \in connected' : e[2] = Side(o)' /\ address'[e] = a
  <2>1. CASE UNCHANGED <<request_threads, inserted>>
    <3>1. OneWorker' /\ Maps'
      BY <1>1, <2>1, MapsFrame DEF IInv, callVars
    <3>2. QED
      BY <1>1, <2>1, <3>1 DEF IInv, TypeOK, Side, sideVars
  <2>2. CASE /\ There(c) /\ Entry(to[c], via[c]) = None
             /\ SetEntry(to[c], via[c], at[c]) /\ inserted' = inserted \union {c}
    BY <1>1, <2>2, InsertStep DEF IInv, TypeOK
  <2>3. QED
    BY <1>1, <2>1, <2>2 DEF Register
<1>3. \E p \in {"running", "returning"} :
         SetRequest(c, p) /\ (p = "returning" => ~There(c))
  BY <1>1
<1>4. TypeOK'
  <2>1. request' \in [Calls -> {"none", "sent", "queued", "posted", "picked", "running",
                                "returning", "answering", "answered", "lost"}]
    BY <1>3 DEF SetRequest, IInv, TypeOK
  <2>2. QED
    BY <1>1, <1>2, <2>1 DEF IInv, TypeOK, sideVars, callVars
<1>5. Control'
  <2>1. UNCHANGED <<made, connected, caller, at, via, outcome, to, executed>>
    BY <1>1 DEF callVars, sideVars
  <2>2. \A d \in Calls : There(d)' = There(d)
    BY <2>1 DEF There, Side
  <2>3. PICK p \in {"running", "returning"} :
           request' = [request EXCEPT ![c] = p] /\ (p = "returning" => ~There(c))
    BY <1>3 DEF SetRequest
  <2>4. request'[c] = p /\ \A d \in Calls : d # c => request'[d] = request[d]
    BY <2>3 DEF IInv, TypeOK
  <2>5. QED
    BY <1>1, <2>1, <2>2, <2>3, <2>4 DEF IInv, Control
<1>6. QED
  BY <1>2, <1>4, <1>5 DEF IInv

\* Entries are removed, and those of client threads only with their connection.
LEMMA RemoveStep ==
    ASSUME IInv, UNCHANGED <<address, made, at, via, to>>,
           connected' \subseteq connected, inserted' \subseteq inserted,
           request_threads' \in [OSThreads -> [Addresses -> OSThreads \union {None}]],
           \A o \in OSThreads, a \in Addresses : request_threads'[o][a] \in {request_threads[o][a], None},
           \A u \in Users, k \in Connections :
               <<k, "client">> \in connected' =>
                   request_threads'[u][address[<<k, "client">>]] = request_threads[u][address[<<k, "client">>]]
    PROVE  OneWorker' /\ Maps'
<1>1. OneWorker' /\ Addressed' /\ Opposite' /\ CallOrigin' /\ InsertedByWorkers'
  BY DEF IInv, OneWorker, Maps, Addressed, Opposite, CallOrigin, InsertedByWorkers, Side
<1>2. EntriesOpposite'
  BY DEF IInv, Maps, EntriesOpposite, Side
<1>3. UserEntries'
  <2>1. SUFFICES ASSUME NEW d \in Calls, at[d] \in Users, to[d] # None, <<via[d], "client">> \in connected'
                 PROVE  request_threads'[at[d]][address[<<via[d], "client">>]] = to[d]
    BY DEF UserEntries, Here, Entry, Side
  <2>2. via[d] \in Connections
    BY <2>1, NoneAssumption DEF IInv, Maps, Opposite
  <2>3. request_threads[at[d]][address[<<via[d], "client">>]] = to[d]
    BY <2>1 DEF IInv, Maps, UserEntries, Here, Entry, Side
  <2>4. QED
    BY <2>1, <2>2, <2>3
<1>4. EntryOrigin'
  <2>1. SUFFICES ASSUME NEW p \in OSThreads, NEW j \in Connections, Up(p, j)', Entry(p, j)' \in Users
                 PROVE  \E d \in Calls : at[d] = Entry(p, j)' /\ via[d] = j /\ to[d] # None
    BY DEF EntryOrigin
  <2>2. Up(p, j)
    BY <2>1 DEF Up, Side
  <2>3. address[<<j, Side(p)>>] \in Addresses
    BY <2>2, AddressOfUp DEF IInv, Maps
  <2>4. Entry(p, j)' = request_threads'[p][address[<<j, Side(p)>>]]
    BY DEF Entry, Side
  <2>5. Entry(p, j)' = Entry(p, j)
    BY <2>1, <2>3, <2>4, NoneAssumption DEF Entry
  <2>6. QED
    BY <2>1, <2>2, <2>5 DEF IInv, Maps, EntryOrigin
<1>5. QED
  BY <1>1, <1>2, <1>3, <1>4 DEF Maps

LEMMA SyncExitStep ==
    ASSUME IInv, NEW c \in Calls, SyncExit(c)
    PROVE  IInv'
<1>1. /\ UNCHANGED <<sideVars, stack, callVars, to, executed, failed>>
      /\ request[c] = "returning" /\ request' = [request EXCEPT ![c] = "answering"]
      /\ Unregister(c) /\ inserted' = inserted \ {c}
  BY DEF SyncExit, SetRequest
<1>2. /\ request_threads' \in [OSThreads -> [Addresses -> OSThreads \union {None}]]
      /\ \A o \in OSThreads, a \in Addresses : request_threads'[o][a] \in {request_threads[o][a], None}
      /\ \A u \in Users : request_threads'[u] = request_threads[u]
  <2>1. CASE c \notin inserted
    BY <1>1, <2>1 DEF Unregister, IInv, TypeOK
  <2>2. CASE c \in inserted
    <3>1. SetEntry(to[c], via[c], None) /\ to[c] \notin Users
      BY <1>1, <2>2, ThreadsAssumption DEF Unregister, IInv, Maps, InsertedByWorkers
    <3>2. to[c] \in OSThreads /\ address[<<via[c], Side(to[c])>>] \in Addresses
      BY <1>1, SentFact
    <3>3. /\ request_threads' \in [OSThreads -> [Addresses -> OSThreads \union {None}]]
          /\ \A p \in OSThreads, a \in Addresses :
                request_threads'[p][a] = IF p = to[c] /\ a = address[<<via[c], Side(to[c])>>] THEN None
                                         ELSE request_threads[p][a]
      BY <3>1, <3>2, EntrySet DEF IInv
    <3>4. \A u \in Users : request_threads'[u] = request_threads[u]
      BY <3>1 DEF SetEntry, IInv, TypeOK, OSThreads
    <3>5. QED
      BY <3>3, <3>4
  <2>3. QED
    BY <2>1, <2>2
<1>3. OneWorker' /\ Maps'
  BY <1>1, <1>2, RemoveStep DEF sideVars, callVars
<1>4. TypeOK'
  <2>1. \A o \in OSThreads, a \in Addresses :
           request_threads'[o][a] # None => \E e \in connected' : e[2] = Side(o)' /\ address'[e] = a
    BY <1>1, <1>2 DEF IInv, TypeOK, Side, sideVars
  <2>2. QED
    BY <1>1, <1>2, <2>1 DEF IInv, TypeOK, sideVars, callVars
<1>5. Control'
  BY <1>1 DEF IInv, TypeOK, Control, There, Side, callVars, sideVars
<1>6. QED
  BY <1>3, <1>4, <1>5 DEF IInv

----------------------------------------------------------------------------
(* Connections begin and end.                                              *)

LEMMA DisconnectStep ==
    ASSUME IInv, NEW k \in Connections, NEW s \in Sides, Disconnect(k, s)
    PROVE  IInv'
<1>1. /\ UNCHANGED <<address, made, stack, callVars, to, inserted, executed, failed>>
      /\ <<k, s>> \in connected /\ connected' = connected \ {<<k, s>>}
      /\ request' = [c \in Calls |->
            IF request[c] = "queued" /\ via[c] = k /\ Side(to[c]) = s THEN "lost" ELSE request[c]]
      /\ request_threads' = [o \in OSThreads |->
            IF Side(o) = s THEN [request_threads[o] EXCEPT ![address[<<k, s>>]] = None]
            ELSE request_threads[o]]
  BY DEF Disconnect, EraseEntries
<1>2. request_threads \in [OSThreads -> [Addresses -> OSThreads \union {None}]]
  BY DEF IInv, TypeOK
<1>3. /\ request_threads' \in [OSThreads -> [Addresses -> OSThreads \union {None}]]
      /\ \A o \in OSThreads, a \in Addresses :
            request_threads'[o][a] = IF Side(o) = s /\ a = address[<<k, s>>] THEN None
                                     ELSE request_threads[o][a]
  BY <1>1, <1>2
<1>4. OneWorker' /\ Maps'
  <2>1. SUFFICES ASSUME NEW u \in Users, NEW j \in Connections, <<j, "client">> \in connected'
                 PROVE  request_threads'[u][address[<<j, "client">>]] = request_threads[u][address[<<j, "client">>]]
    BY <1>1, <1>3, RemoveStep DEF callVars
  <2>2. u \in OSThreads /\ Side(u) = "client" /\ <<j, "client">> \in connected
    BY <1>1, <2>1 DEF OSThreads, Side
  <2>3. address[<<j, "client">>] \in Addresses
    BY <2>2, AddressOfUp DEF IInv, Maps, Up
  <2>4. ~(Side(u) = s /\ address[<<j, "client">>] = address[<<k, s>>])
    <3>1. SUFFICES ASSUME s = "client", address[<<j, "client">>] = address[<<k, s>>] PROVE FALSE
      BY <2>2
    <3>2. j = k
      BY <1>1, <2>2, <3>1, SameAddress DEF Up, IInv
    <3>3. QED
      BY <1>1, <2>1, <3>1, <3>2
  <2>5. QED
    BY <1>3, <2>2, <2>3, <2>4
<1>5. TypeOK'
  <2>1. \A o \in OSThreads, a \in Addresses :
           request_threads'[o][a] # None => \E e \in connected' : e[2] = Side(o)' /\ address'[e] = a
    <3>1. SUFFICES ASSUME NEW o \in OSThreads, NEW a \in Addresses, request_threads'[o][a] # None
                   PROVE  \E e \in connected' : e[2] = Side(o) /\ address[e] = a
      BY <1>1 DEF Side
    <3>2. request_threads[o][a] # None /\ ~(Side(o) = s /\ a = address[<<k, s>>])
      BY <1>3, <3>1
    <3>3. PICK e \in connected : e[2] = Side(o) /\ address[e] = a
      BY <3>2 DEF IInv, TypeOK
    <3>4. e # <<k, s>>
      BY <3>2, <3>3
    <3>5. QED
      BY <1>1, <3>3, <3>4
  <2>2. request' \in [Calls -> {"none", "sent", "queued", "posted", "picked", "running",
                                "returning", "answering", "answered", "lost"}]
    BY <1>1 DEF IInv, TypeOK
  <2>3. QED
    BY <1>1, <1>3, <2>1, <2>2 DEF IInv, TypeOK, callVars
<1>6. Control'
  <2>1. UNCHANGED <<made, caller, at, via, outcome, to, executed>>
    BY <1>1 DEF callVars
  <2>2. \A c \in Calls : There(c)' => There(c)
    BY <1>1, <2>1 DEF There, Side
  <2>3. \A c \in Calls : request'[c] = request[c] \/ (request[c] = "queued" /\ request'[c] = "lost")
    BY <1>1
  <2>4. QED
    BY <2>1, <2>2, <2>3 DEF IInv, Control
<1>7. QED
  BY <1>4, <1>5, <1>6 DEF IInv

LEMMA ConnectStep ==
    ASSUME IInv, NEW k \in Connections, Connect(k)
    PROVE  IInv'
<1>1. /\ UNCHANGED <<made, request_threads, stack, callVars, requestVars, failed>>
      /\ \A j \in Connections, s \in Sides : (j < k) <=> (address[<<j, s>>] # 0)
      /\ connected' = connected \union ({k} \X Sides)
  BY DEF Connect
<1>2. PICK a \in [Sides -> 1..k] :
         /\ \A e \in connected : address[e] # a[e[2]]
         /\ address' = [e \in Ends |-> IF e[1] = k THEN a[e[2]] ELSE address[e]]
  BY DEF Connect
<1>3. /\ k \in 1..MaxConnections /\ MaxConnections \in Nat /\ ~(k < k)
      /\ \A s \in Sides : address[<<k, s>>] = 0
  BY <1>1, BoundsAssumption DEF Connections
<1>4. \A s \in Sides : a[s] \in Addresses /\ a[s] # 0
  BY <1>2, <1>3 DEF Addresses
<1>5. connected \subseteq Ends /\ \A e \in connected : address[e] # 0 /\ e[1] # k
  BY <1>3 DEF IInv, TypeOK, Maps, Addressed, Ends
<1>6. /\ \A e \in connected : e \in connected' /\ address'[e] = address[e]
      /\ \A s \in Sides : address'[<<k, s>>] = a[s]
      /\ \A e \in connected' : e \in connected \/ (e = <<k, e[2]>> /\ e[2] \in Sides)
      /\ \A j \in Connections, s \in Sides : j # k => address'[<<j, s>>] = address[<<j, s>>]
  BY <1>1, <1>2, <1>5 DEF Ends
<1>7. TypeOK'
  <2>1. connected' \subseteq Ends /\ address' \in [Ends -> Addresses \union {0}]
    BY <1>1, <1>2, <1>4, <1>5 DEF IInv, TypeOK, Ends
  <2>2. \A o \in OSThreads, b \in Addresses :
           request_threads'[o][b] # None => \E e \in connected' : e[2] = Side(o)' /\ address'[e] = b
    BY <1>1, <1>6 DEF IInv, TypeOK, Side
  <2>3. \A d, e \in connected' : d[2] = e[2] /\ address'[d] = address'[e] => d = e
    <3>1. SUFFICES ASSUME NEW d \in connected', NEW e \in connected', d[2] = e[2],
                          address'[d] = address'[e]
                   PROVE  d = e
      OBVIOUS
    <3>2. CASE d \in connected /\ e \in connected
      BY <1>6, <3>1, <3>2 DEF IInv, TypeOK
    <3>3. CASE d \notin connected /\ e \notin connected
      BY <1>6, <3>1, <3>3
    <3>4. CASE d \in connected /\ e \notin connected
      BY <1>2, <1>6, <3>1, <3>4
    <3>5. CASE d \notin connected /\ e \in connected
      BY <1>2, <1>6, <3>1, <3>5
    <3>6. QED
      BY <3>2, <3>3, <3>4, <3>5
  <2>4. QED
    BY <1>1, <2>1, <2>2, <2>3 DEF IInv, TypeOK, callVars, requestVars
<1>8. UNCHANGED <<made, request_threads, caller, at, via, outcome, request, to, inserted, executed>>
  BY <1>1 DEF callVars, requestVars
\* The calls that have been made use older connections.
<1>9. \A c \in Calls : at[c] # None =>
         /\ via[c] \in Connections /\ via[c] # k /\ Side(at[c]) \in Sides
         /\ Peer(Side(at[c])) \in Sides
  BY <1>3 DEF IInv, Maps, Opposite, Peer, Sides
<1>10. \A c \in Calls : at[c] # None => Here(c)' = Here(c) /\ There(c)' = There(c)
  BY <1>1, <1>8, <1>9 DEF Here, There, Side
<1>11. Maps'
  <2>1. Addressed'
    <3>1. \A e \in connected' : address'[e] # 0
      BY <1>4, <1>5, <1>6
    <3>2. \A j \in Connections : (address'[<<j, "client">>] = 0) <=> (address'[<<j, "server">>] = 0)
      <4>1. TAKE j \in Connections
      <4>2. CASE j = k
        BY <1>4, <1>6, <4>2 DEF Sides
      <4>3. CASE j # k
        BY <1>6, <4>3 DEF IInv, Maps, Addressed, Sides
      <4>4. QED
        BY <4>2, <4>3
    <3>3. QED
      BY <3>1, <3>2 DEF Addressed
  <2>2. Opposite'
    BY <1>6, <1>8, <1>9 DEF IInv, Maps, Opposite, Side
  <2>3. EntriesOpposite' /\ CallOrigin' /\ InsertedByWorkers'
    BY <1>8 DEF IInv, Maps, EntriesOpposite, CallOrigin, InsertedByWorkers, Side
  <2>4. UserEntries'
    <3>1. SUFFICES ASSUME NEW c \in Calls, at[c] \in Users, to[c] # None, Here(c)'
                   PROVE  Entry(at[c], via[c])' = to[c]
      BY <1>8 DEF UserEntries
    <3>2. at[c] # None /\ Here(c)
      BY <1>10, <3>1, NoneAssumption
    <3>3. address'[<<via[c], Side(at[c])>>] = address[<<via[c], Side(at[c])>>]
      BY <1>6, <1>9, <3>2
    <3>4. Entry(at[c], via[c])' = Entry(at[c], via[c])
      BY <1>8, <3>3 DEF Entry, Side
    <3>5. QED
      BY <3>1, <3>2, <3>4 DEF IInv, Maps, UserEntries
  <2>5. EntryOrigin'
    <3>1. SUFFICES ASSUME NEW p \in OSThreads, NEW j \in Connections, Up(p, j)', Entry(p, j)' \in Users
                   PROVE  \E d \in Calls : at[d] = Entry(p, j)' /\ via[d] = j /\ to[d] # None
      BY <1>8 DEF EntryOrigin
    <3>2. <<j, Side(p)>> \in connected' /\ Entry(p, j)' = request_threads[p][address'[<<j, Side(p)>>]]
      BY <1>8, <3>1 DEF Up, Entry, Side
    <3>3. CASE <<j, Side(p)>> \in connected
      <4>1. Up(p, j) /\ Entry(p, j) = Entry(p, j)'
        BY <1>6, <3>2, <3>3 DEF Up, Entry
      <4>2. QED
        BY <3>1, <4>1 DEF IInv, Maps, EntryOrigin
    <3>4. CASE <<j, Side(p)>> \notin connected
      <4>1. j = k /\ Side(p) \in Sides /\ address'[<<j, Side(p)>>] = a[Side(p)]
        BY <1>6, <3>2, <3>4
      <4>2. a[Side(p)] \in Addresses /\ request_threads[p][a[Side(p)]] # None
        BY <1>4, <3>1, <3>2, <4>1, NoneAssumption
      <4>3. \E e \in connected : e[2] = Side(p) /\ address[e] = a[Side(p)]
        BY <4>2 DEF IInv, TypeOK
      <4>4. QED
        BY <1>2, <4>3
    <3>5. QED
      BY <3>3, <3>4
  <2>6. QED
    BY <2>1, <2>2, <2>3, <2>4, <2>5 DEF Maps
<1>12. OneWorker'
  BY <1>8 DEF IInv, OneWorker
<1>13. Control'
  <2>1. \A c \in Calls : request[c] # "none" => There(c)' = There(c)
    BY <1>10 DEF IInv, Control, Maps, Opposite
  <2>2. QED
    BY <1>8, <2>1 DEF IInv, Control
<1>14. QED
  BY <1>7, <1>11, <1>12, <1>13 DEF IInv

----------------------------------------------------------------------------

LEMMA InitIInv == Init => IInv
<1> SUFFICES ASSUME Init PROVE IInv
  OBVIOUS
<1>1. <<>> \in Seq(Calls)
  OBVIOUS
<1>2. TypeOK
  BY <1>1 DEF Init, TypeOK
<1>3. Maps
  <2>1. \A o \in OSThreads, a \in Addresses : request_threads[o][a] = None
    BY DEF Init
  <2>2. \A c \in Calls : at[c] = None /\ to[c] = None
    BY DEF Init
  <2>3. connected = {} /\ inserted = {} /\ \A e \in Ends : address[e] = 0
    BY DEF Init
  <2>4. Addressed
    BY <2>3 DEF Addressed, Ends, Sides
  <2>5. Opposite /\ EntriesOpposite /\ UserEntries /\ InsertedByWorkers
    BY <2>1, <2>2, <2>3 DEF Opposite, EntriesOpposite, UserEntries, InsertedByWorkers
  <2>6. EntryOrigin /\ CallOrigin
    BY <2>2, <2>3, NoneAssumption DEF EntryOrigin, CallOrigin, Up
  <2>7. QED
    BY <2>4, <2>5, <2>6 DEF Maps
<1>4. OneWorker /\ Control
  BY DEF Init, OneWorker, Control
<1>5. QED
  BY <1>2, <1>3, <1>4 DEF IInv

LEMMA StepIInv == IInv /\ [Next]_vars => IInv'
<1> SUFFICES ASSUME IInv, [Next]_vars PROVE IInv'
  OBVIOUS
<1>1. CASE \E k \in Connections : Connect(k) \/ \E s \in Sides : Disconnect(k, s)
  BY <1>1, ConnectStep, DisconnectStep
<1>2. CASE \E c \in Calls, o \in OSThreads, k \in Connections : Invoke(c, o, k)
  BY <1>2, InvokeStep
<1>3. CASE \E c \in Calls : CallerStep(c) \/ RequestStep(c) \/ Lose(c)
  BY <1>3, CallerSteps, RequestSteps, LoopSendStep, SyncRegisterStep, SyncExitStep
     DEF CallerStep, RequestStep
<1>4. CASE \E o \in OSThreads : ThreadStep(o)
  BY <1>4, PickUpStep, ReturnStep DEF ThreadStep
<1>5. CASE UNCHANGED vars
  <2>1. UNCHANGED <<sideVars, request_threads, stack, callVars, requestVars, failed>>
    BY <1>5 DEF vars
  <2>2. OneWorker' /\ Maps'
    BY <2>1, MapsFrame DEF IInv, callVars, requestVars
  <2>3. TypeOK'
    BY <2>1 DEF IInv, TypeOK, Side, sideVars, callVars, requestVars
  <2>4. Control'
    BY <2>1 DEF IInv, Control, There, Side, sideVars, callVars, requestVars
  <2>5. QED
    BY <2>2, <2>3, <2>4 DEF IInv
<1>6. CASE Terminated
  BY <1>5, <1>6 DEF Terminated
<1>7. QED
  BY <1>1, <1>2, <1>3, <1>4, <1>5, <1>6 DEF Next

THEOREM Inductive == Spec => []IInv
BY InitIInv, StepIInv, PTL DEF Spec

\* Types, and: a thread has entries only for Connection objects that exist, no
\* two of which are at one address (the callback of SetThread).
THEOREM TypeCorrect == Spec => []TypeOK
BY Inductive, PTL DEF IInv

\* A client thread keeps its worker for a connection, however calls nest, and
\* though a new Connection may be where an old one was (CustomBuildField).
THEOREM WorkerIsKept == Spec => []OneWorker
BY Inductive, PTL DEF IInv

----------------------------------------------------------------------------
(* Calls implements RemoteCalls.                                           *)

\* What the abstract states of a call depend on: a method is executed after the
\* request has been running, and only a broken connection makes a call fail.
Promise ==
    \A c \in Calls :
        /\ c \in executed => request[c] \in {"returning", "answering", "answered", "lost"}
        /\ outcome[c] \in {"not_sent", "disconnected"} => c \in Broken

\* The step is one of RemoteCalls, or none.
Kept == Promise' /\ [Remote!RemoteNext]_Remote!remoteVars

LEMMA SameStates ==
    ASSUME caller' = caller, executed' = executed,
           \A c \in Calls : request'[c] = "running" <=> request[c] = "running"
    PROVE  UNCHANGED <<CallStates, MethodStates>>
<1>1. \A c \in Calls : CallState(c)' = CallState(c) /\ MethodState(c)' = MethodState(c)
  BY DEF CallState, MethodState
<1>2. QED
  BY <1>1 DEF CallStates, MethodStates

LEMMA SameBroken ==
    ASSUME UNCHANGED <<connected, at, via>>,
           \A c \in Calls : at[c] # None => Side(at[c])' = Side(at[c])
    PROVE  Broken' = Broken
<1>1. \A c \in Calls : at[c] # None => Here(c)' = Here(c) /\ There(c)' = There(c)
  BY DEF Here, There, Side
<1>2. QED
  BY <1>1 DEF Broken

\* One call goes on for its caller.
LEMMA CallMoves ==
    ASSUME TypeOK, NEW c \in Calls, NEW p, SetCaller(c, p), UNCHANGED <<request, executed>>
    PROVE  /\ MethodStates' = MethodStates
           /\ CallStates' = [CallStates EXCEPT ![c] = CallState(c)']
           /\ caller'[c] = p
<1>1. caller' = [caller EXCEPT ![c] = p] /\ DOMAIN caller = Calls
  BY DEF SetCaller, TypeOK
<1>2. \A d \in Calls : d # c => CallState(d)' = CallState(d)
  BY <1>1 DEF CallState
<1>3. \A d \in Calls : MethodState(d)' = MethodState(d)
  BY DEF MethodState
<1>4. QED
  BY <1>1, <1>2, <1>3 DEF CallStates, MethodStates

\* Its method goes on.
LEMMA MethodMoves ==
    ASSUME TypeOK, NEW c \in Calls, NEW p, SetRequest(c, p), caller' = caller,
           executed' \in {executed, executed \union {c}}
    PROVE  /\ CallStates' = CallStates
           /\ MethodStates' = [MethodStates EXCEPT ![c] = MethodState(c)']
           /\ request'[c] = p
<1>1. request' = [request EXCEPT ![c] = p] /\ DOMAIN request = Calls
  BY DEF SetRequest, TypeOK
<1>2. \A d \in Calls : d # c => MethodState(d)' = MethodState(d)
  BY <1>1 DEF MethodState
<1>3. \A d \in Calls : CallState(d)' = CallState(d)
  BY DEF CallState
<1>4. QED
  BY <1>1, <1>2, <1>3 DEF CallStates, MethodStates

LEMMA CallerKept ==
    ASSUME IInv, Promise, NEW c \in Calls,
           LoopNotSent(c) \/ LoopResolve(c) \/ LoopAnswer(c) \/ LoopReject(c)
    PROVE  Kept
<1>1. UNCHANGED <<sideVars, at, via, request, to, executed>>
  BY DEF LoopNotSent, LoopResolve, LoopAnswer, LoopReject, requestVars
<1>2. Broken' = Broken
  BY <1>1, SameBroken DEF Side, sideVars
<1>3. /\ at[c] # None /\ outcome[c] = "none" /\ CallState(c) = "made"
      /\ caller[c] \in {"posting", "waiting", "resolved"}
  BY DEF LoopNotSent, LoopResolve, LoopAnswer, LoopReject, IInv, Control, CallState
\* What the call ends with is true of it.
<1>4. ASSUME NEW r \in {"not_sent", "disconnected", "answered"}, SetCaller(c, "done"),
             outcome' = [outcome EXCEPT ![c] = r],
             \/ r = "answered" /\ c \in executed
             \/ r = "disconnected" /\ c \in Broken
             \/ r = "not_sent" /\ c \in Broken /\ MethodState(c) = "none"
      PROVE  Kept
  <2>1. /\ MethodStates' = MethodStates /\ caller'[c] = "done"
        /\ CallStates' = [CallStates EXCEPT ![c] = CallState(c)']
    BY <1>1, <1>4, CallMoves DEF IInv
  <2>2. CallState(c)' = "made"
    BY <2>1 DEF CallState
  <2>3. CallStates[c] = "made" /\ CallStates' = CallStates
    BY <1>3, <2>1, <2>2 DEF CallStates
  <2>4. MethodStates[c] = MethodState(c) /\ (c \in executed => MethodState(c) = "executed")
    BY DEF MethodStates, MethodState, Promise
  <2>5. Remote!End(c, r)
    BY <1>2, <1>3, <1>4, <2>1, <2>3, <2>4 DEF Remote!End
  <2>6. Promise'
    BY <1>1, <1>2, <1>4 DEF Promise, IInv, TypeOK
  <2>7. QED
    BY <2>5, <2>6 DEF Kept, Remote!RemoteNext
\* The call goes on for the event loop, but not for its caller.
<1>5. ASSUME outcome' = outcome, caller' = caller \/ SetCaller(c, "resolved")
      PROVE  Kept
  <2>1. MethodStates' = MethodStates /\ CallStates' = CallStates
    <3>1. CASE caller' = caller
      BY <1>1, <3>1, SameStates
    <3>2. CASE SetCaller(c, "resolved")
      <4>1. /\ MethodStates' = MethodStates /\ caller'[c] = "resolved"
            /\ CallStates' = [CallStates EXCEPT ![c] = CallState(c)']
        BY <1>1, <3>2, CallMoves DEF IInv
      <4>2. CallState(c)' = CallState(c)
        BY <1>3, <4>1 DEF CallState
      <4>3. QED
        BY <4>1, <4>2 DEF CallStates
    <3>3. QED
      BY <1>5, <3>1, <3>2
  <2>2. Promise'
    BY <1>1, <1>2, <1>5 DEF Promise
  <2>3. QED
    BY <1>2, <1>5, <2>1, <2>2 DEF Kept, Remote!remoteVars
<1>6. CASE LoopNotSent(c)
  <2>1. c \in Broken
    BY <1>3, <1>6 DEF LoopNotSent, Broken
  <2>2. request[c] = "none"
    BY <1>6 DEF LoopNotSent, IInv, Control
  <2>3. MethodState(c) = "none"
    BY <2>2 DEF Promise, MethodState
  <2>4. QED
    BY <1>4, <1>6, <2>1, <2>3 DEF LoopNotSent, NotSent
<1>7. CASE LoopResolve(c)
  BY <1>5, <1>7 DEF LoopResolve
<1>8. CASE LoopAnswer(c)
  <2>1. c \in executed
    BY <1>8 DEF LoopAnswer, IInv, Control
  <2>2. QED
    BY <1>4, <1>5, <1>8, <2>1 DEF LoopAnswer
<1>9. CASE LoopReject(c)
  <2>1. c \in Broken
    BY <1>3, <1>9 DEF LoopReject, Rejected, Broken
  <2>2. QED
    BY <1>4, <1>9, <2>1 DEF LoopReject
<1>10. QED
  BY <1>6, <1>7, <1>8, <1>9

LEMMA RequestKept ==
    ASSUME IInv, Promise, NEW c \in Calls,
           \/ Lose(c) \/ LoopReceive(c) \/ LoopPost(c) \/ SyncRegister(c)
           \/ MethodReturn(c) \/ SyncExit(c) \/ SyncAnswer(c)
    PROVE  Kept
<1>1. UNCHANGED <<sideVars, callVars, to>>
  BY DEF Lose, LoopReceive, LoopPost, SyncRegister, MethodReturn, SyncExit, SyncAnswer
<1>2. Broken' = Broken
  BY <1>1, SameBroken DEF Side, sideVars, callVars
<1>3. CASE MethodReturn(c)
  <2>1. /\ request[c] = "running" /\ c \notin executed
        /\ SetRequest(c, "returning") /\ executed' = executed \union {c}
    BY <1>3 DEF MethodReturn, Promise
  <2>2. /\ CallStates' = CallStates /\ request'[c] = "returning"
        /\ MethodStates' = [MethodStates EXCEPT ![c] = MethodState(c)']
    BY <1>1, <2>1, MethodMoves DEF IInv, callVars
  <2>3. MethodStates[c] = "running" /\ MethodState(c)' = "executed"
    BY <2>1, <2>2 DEF MethodStates, MethodState
  <2>4. Remote!Finish(c)
    BY <1>1, <1>2, <2>2, <2>3 DEF Remote!Finish, callVars
  <2>5. Promise'
    BY <1>1, <1>2, <2>1, <2>2 DEF Promise, SetRequest, IInv, TypeOK, callVars
  <2>6. QED
    BY <2>4, <2>5 DEF Kept, Remote!RemoteNext
<1>4. CASE SyncRegister(c) /\ There(c)
  <2>1. /\ request[c] = "picked" /\ c \notin executed
        /\ SetRequest(c, "running") /\ executed' = executed
    BY <1>4 DEF SyncRegister, Promise
  <2>2. /\ CallStates' = CallStates /\ request'[c] = "running"
        /\ MethodStates' = [MethodStates EXCEPT ![c] = MethodState(c)']
    BY <1>1, <2>1, MethodMoves DEF IInv, callVars
  <2>3. MethodStates[c] = "none" /\ MethodState(c)' = "running"
    BY <2>1, <2>2 DEF MethodStates, MethodState
  <2>4. CallStates[c] # "none"
    BY <2>1 DEF IInv, Control, Maps, Opposite, CallStates, CallState
  <2>5. outcome[c] = "none" \/ (outcome[c] = "disconnected" /\ c \in Broken)
    BY <2>1 DEF IInv, TypeOK, Control, Promise
  <2>6. Remote!Start(c)
    BY <1>1, <1>2, <2>2, <2>3, <2>4, <2>5 DEF Remote!Start, callVars
  <2>7. Promise'
    BY <1>1, <1>2, <2>1, <2>2 DEF Promise, SetRequest, IInv, TypeOK, callVars
  <2>8. QED
    BY <2>6, <2>7 DEF Kept, Remote!RemoteNext
\* The other steps do not start or end a method.
<1>5. CASE ~(MethodReturn(c) \/ (SyncRegister(c) /\ There(c)))
  <2>1. /\ executed' = executed
        /\ \E p \in {"lost", "queued", "posted", "returning", "answering", "answered"} : SetRequest(c, p)
        /\ request[c] # "running"
        /\ c \in executed => request'[c] \in {"returning", "answering", "answered", "lost"}
    BY <1>5 DEF Lose, LoopReceive, LoopPost, SyncRegister, SyncExit, SyncAnswer, Promise,
                SetRequest, IInv, TypeOK
  <2>2. /\ \A d \in Calls : d # c => request'[d] = request[d]
        /\ request'[c] # "running"
    BY <2>1 DEF SetRequest, IInv, TypeOK
  <2>3. UNCHANGED <<CallStates, MethodStates>>
    BY <1>1, <2>1, <2>2, SameStates DEF callVars
  <2>4. Promise'
    BY <1>1, <1>2, <2>1, <2>2 DEF Promise, callVars
  <2>5. QED
    BY <1>1, <1>2, <2>3, <2>4 DEF Kept, Remote!remoteVars, callVars
<1>6. QED
  BY <1>3, <1>4, <1>5

LEMMA ReturnKept ==
    ASSUME IInv, Promise, NEW o \in OSThreads, Return(o)
    PROVE  Kept
<1>1. PICK c \in Calls : /\ UNCHANGED <<sideVars, at, via, outcome, request, executed>>
                        /\ SetCaller(c, "returned") /\ caller[c] = "done"
  BY StackTypes DEF Return, Makes, WaitOver, requestVars, IInv
<1>2. Broken' = Broken
  BY <1>1, SameBroken DEF Side, sideVars
<1>3. /\ MethodStates' = MethodStates /\ caller'[c] = "returned"
      /\ CallStates' = [CallStates EXCEPT ![c] = CallState(c)']
  BY <1>1, CallMoves DEF IInv
<1>4. CallStates[c] = "made" /\ CallState(c)' = "returned"
  BY <1>1, <1>3 DEF CallStates, CallState
<1>5. outcome[c] # "none"
  BY <1>1 DEF IInv, Control
<1>6. Remote!Return(c)
  BY <1>1, <1>2, <1>3, <1>4, <1>5 DEF Remote!Return
<1>7. Promise'
  BY <1>1, <1>2 DEF Promise
<1>8. QED
  BY <1>1, <1>6, <1>7 DEF Kept, Remote!RemoteNext

LEMMA InvokeKept ==
    ASSUME IInv, Promise, NEW c \in Calls, NEW o \in OSThreads, NEW k \in Connections, Invoke(c, o, k)
    PROVE  Kept
<1>1. /\ UNCHANGED <<sideVars, outcome, request, executed>>
      /\ at' = [at EXCEPT ![c] = o] /\ via' = [via EXCEPT ![c] = k]
      /\ SetCaller(c, "posting") /\ caller[c] = "new"
  BY DEF Invoke, requestVars
<1>2. \A d \in Calls : d # c => at'[d] = at[d] /\ Here(d)' = Here(d) /\ There(d)' = There(d)
  BY <1>1 DEF IInv, TypeOK, Here, There, Side, sideVars
<1>3. Broken' \in {Broken, Broken \union {c}}
  <2>1. at[c] = None
    BY <1>1 DEF IInv, Control
  <2>2. c \notin Broken /\ \A d \in Calls : d # c => (d \in Broken' <=> d \in Broken)
    BY <1>2, <2>1 DEF Broken
  <2>3. Broken \subseteq Calls /\ Broken' \subseteq Calls
    BY DEF Broken
  <2>4. QED
    BY <2>2, <2>3
<1>4. /\ MethodStates' = MethodStates /\ caller'[c] = "posting"
      /\ CallStates' = [CallStates EXCEPT ![c] = CallState(c)']
  BY <1>1, CallMoves DEF IInv
<1>5. CallStates[c] = "none" /\ CallState(c)' = "made"
  BY <1>1, <1>4 DEF CallStates, CallState
<1>6. Remote!Make(c)
  BY <1>1, <1>3, <1>4, <1>5 DEF Remote!Make
<1>7. Promise'
  BY <1>1, <1>3 DEF Promise
<1>8. QED
  BY <1>6, <1>7 DEF Kept, Remote!RemoteNext

\* The function that sends a request may create a thread, which is in no call.
LEMMA LoopSendKept ==
    ASSUME IInv, Promise, NEW c \in Calls, LoopSend(c)
    PROVE  Kept
<1>1. /\ UNCHANGED <<connected, at, via, outcome, executed>>
      /\ caller[c] = "posting" /\ SetCaller(c, "waiting") /\ SetRequest(c, "sent") /\ Here(c)
  BY DEF LoopSend
<1>2. at[c] \in OSThreads /\ via[c] \in Connections /\ Up(at[c], via[c])
  BY <1>1 DEF IInv, TypeOK, Control, Maps, Opposite, Here, Up
<1>3. PICK w \in OSThreads : RequestThread(at[c], via[c], w)
  BY DEF LoopSend
<1>4. made' = made \/ \E v \in Workers : made[v] = None /\ made' = [made EXCEPT ![v] = Peer(Side(at[c]))]
  BY <1>2, <1>3, RequestThreadFact
<1>5. \A d \in Calls : at[d] # None => Side(at[d])' = Side(at[d])
  <2>1. CASE made' = made
    BY <1>1, <2>1 DEF Side
  <2>2. ASSUME NEW v \in Workers, made[v] = None, made' = [made EXCEPT ![v] = Peer(Side(at[c]))]
        PROVE  \A d \in Calls : at[d] # None => Side(at[d])' = Side(at[d])
    <3>1. \A d \in Calls : at[d] # v
      BY <2>2, NewThread
    <3>2. \A d \in Calls : at[d] # None => at[d] \in OSThreads
      BY DEF IInv, TypeOK
    <3>3. made \in [Workers -> Sides \union {None}]
      BY DEF IInv, TypeOK
    <3>4. \A x \in OSThreads : x # v => Side(x)' = Side(x)
      BY <2>2, <3>3 DEF Side, OSThreads
    <3>5. QED
      BY <1>1, <3>1, <3>2, <3>4 DEF Side
  <2>3. QED
    BY <1>4, <2>1, <2>2
<1>6. Broken' = Broken
  BY <1>1, <1>5, SameBroken
<1>7. /\ \A d \in Calls : d # c => caller'[d] = caller[d] /\ request'[d] = request[d]
      /\ caller'[c] = "waiting" /\ request'[c] = "sent" /\ request[c] = "none"
  BY <1>1 DEF SetCaller, SetRequest, IInv, TypeOK, Control
<1>8. \A d \in Calls : CallState(d)' = CallState(d) /\ MethodState(d)' = MethodState(d)
  <2>1. TAKE d \in Calls
  <2>2. CASE d = c
    BY <1>1, <1>7, <2>2 DEF CallState, MethodState
  <2>3. CASE d # c
    BY <1>1, <1>7, <2>3 DEF CallState, MethodState
  <2>4. QED
    BY <2>2, <2>3
<1>9. Promise'
  BY <1>1, <1>6, <1>7 DEF Promise
<1>10. QED
  BY <1>1, <1>6, <1>8, <1>9 DEF Kept, Remote!remoteVars, CallStates, MethodStates

\* A new connection repairs no call: it has a number of its own.
LEMMA ConnectionKept ==
    ASSUME IInv, Promise, NEW k \in Connections, Connect(k) \/ \E s \in Sides : Disconnect(k, s)
    PROVE  Kept
<1>1. UNCHANGED <<made, caller, at, via, outcome, executed>>
  BY DEF Connect, Disconnect, callVars, requestVars
<1>2. \A c \in Calls : request'[c] = request[c] \/ (request[c] = "queued" /\ request'[c] = "lost")
  BY DEF Connect, Disconnect, requestVars
<1>3. UNCHANGED <<CallStates, MethodStates>>
  BY <1>1, <1>2, SameStates
<1>4. Broken \subseteq Broken'
  <2>1. \A c \in Calls : at[c] # None => (Here(c)' => Here(c)) /\ (There(c)' => There(c))
    <3>1. CASE Connect(k)
      <4>1. /\ connected' = connected \union ({k} \X Sides)
            /\ \A s \in Sides : address[<<k, s>>] = 0
        BY <3>1, BoundsAssumption DEF Connect, Connections
      <4>2. \A c \in Calls : at[c] # None => via[c] # k
        BY <4>1 DEF IInv, Maps, Opposite, Sides
      <4>3. QED
        BY <1>1, <4>1, <4>2 DEF Here, There, Side
    <3>2. CASE \E s \in Sides : Disconnect(k, s)
      <4>1. connected' \subseteq connected
        BY <3>2 DEF Disconnect
      <4>2. QED
        BY <1>1, <4>1 DEF Here, There, Side
    <3>3. QED
      BY <3>1, <3>2
  <2>2. QED
    BY <1>1, <2>1 DEF Broken
<1>5. Remote!Break(Broken')
  BY <1>1, <1>3, <1>4 DEF Remote!Break
<1>6. Broken' \in SUBSET Calls
  BY DEF Broken, Here, There, Side
<1>7. Promise'
  BY <1>1, <1>2, <1>4 DEF Promise
<1>8. QED
  BY <1>5, <1>6, <1>7 DEF Kept, Remote!RemoteNext

LEMMA StepKept == IInv /\ Promise /\ [Next]_vars => Kept
<1> SUFFICES ASSUME IInv, Promise, [Next]_vars PROVE Kept
  OBVIOUS
<1>1. CASE \E k \in Connections : Connect(k) \/ \E s \in Sides : Disconnect(k, s)
  BY <1>1, ConnectionKept
<1>2. CASE \E c \in Calls, o \in OSThreads, k \in Connections : Invoke(c, o, k)
  BY <1>2, InvokeKept
<1>3. CASE \E c \in Calls : CallerStep(c) \/ RequestStep(c) \/ Lose(c)
  BY <1>3, CallerKept, LoopSendKept, RequestKept DEF CallerStep, RequestStep
<1>4. CASE \E o \in OSThreads, c \in Calls : PickUp(o, c)
  <2>1. PICK o \in OSThreads, c \in Calls : PickUp(o, c)
    BY <1>4
  <2>2. /\ UNCHANGED <<sideVars, callVars, executed>>
        /\ request[c] = "posted" /\ SetRequest(c, "picked")
    BY <2>1 DEF PickUp, Posted
  <2>3. \A d \in Calls : request'[d] = request[d] \/ (d = c /\ request'[d] = "picked")
    BY <2>2 DEF SetRequest, IInv, TypeOK
  <2>4. UNCHANGED <<CallStates, MethodStates>>
    BY <2>2, <2>3, SameStates DEF callVars
  <2>5. Broken' = Broken
    BY <2>2, SameBroken DEF Side, sideVars, callVars
  <2>6. Promise'
    BY <2>2, <2>3, <2>5 DEF Promise, callVars
  <2>7. QED
    BY <2>2, <2>4, <2>5, <2>6 DEF Kept, Remote!remoteVars, callVars
<1>5. CASE \E o \in OSThreads : Return(o)
  BY <1>5, ReturnKept
<1>6. CASE UNCHANGED vars
  <2>1. UNCHANGED <<connected, made, caller, at, via, outcome, request, executed>>
    BY <1>6 DEF vars, sideVars, callVars, requestVars
  <2>2. UNCHANGED <<CallStates, MethodStates>>
    BY <2>1, SameStates
  <2>3. Broken' = Broken
    BY <2>1, SameBroken DEF Side
  <2>4. Promise'
    BY <2>1, <2>3 DEF Promise
  <2>5. QED
    BY <2>1, <2>2, <2>3, <2>4 DEF Kept, Remote!remoteVars
<1>7. CASE Terminated
  BY <1>6, <1>7 DEF Terminated
<1>8. QED
  BY <1>1, <1>2, <1>3, <1>4, <1>5, <1>6, <1>7 DEF Next, ThreadStep

\* Whoever makes calls from where, over whichever connections, and whoever
\* disconnects when: clientInvoke keeps the promise of RemoteCalls.  It waits for
\* a continuation, the method is executed once at most and before the answer, and
\* a call fails only when an end of its own connection is gone.
THEOREM CallsKeepPromise == Spec => KeepsPromise
<1>1. Init => Promise /\ Remote!RemoteInit
  <2> SUFFICES ASSUME Init PROVE Promise /\ Remote!RemoteInit
    OBVIOUS
  <2>1. \A c \in Calls : /\ CallState(c) = "none" /\ MethodState(c) = "none"
                         /\ at[c] = None /\ c \notin executed /\ outcome[c] = "none"
    BY DEF Init, CallState, MethodState
  <2>2. Broken = {}
    BY <2>1 DEF Broken
  <2>3. outcome = [c \in Calls |-> "none"]
    BY DEF Init
  <2>4. QED
    BY <2>1, <2>2, <2>3 DEF Promise, Remote!RemoteInit, CallStates, MethodStates
<1>2. IInv /\ Promise /\ [Next]_vars => Promise' /\ [Remote!RemoteNext]_Remote!remoteVars
  BY StepKept DEF Kept
<1>3. QED
  BY <1>1, <1>2, Inductive, PTL DEF Spec, KeepsPromise, Remote!RemoteSafety
=============================================================================
