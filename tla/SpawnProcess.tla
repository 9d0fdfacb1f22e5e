---------------------------- MODULE SpawnProcess ----------------------------
(***************************************************************************)
(* Processes started by threads of one parent (util.cpp): SpawnProcess and *)
(* WaitProcess, and the descriptors parent and children hold.  A child     *)
(* inherits every descriptor open at its fork, those of other threads too. *)
(* exec and a socket closed by every process that holds it are the         *)
(* operating system's.  socketpair() that finds no descriptors throws and  *)
(* changes nothing.                                                        *)
(***************************************************************************)
EXTENDS Integers, FiniteSets

CONSTANTS Spawners, \* threads of the parent that start processes
          Limit,    \* rlim_cur of RLIMIT_NOFILE, at least 3
          IntBits,  \* width of int
          None      \* nothing

Descriptors == 0..(Limit - 1)
Std == 0..2
Ends == Spawners \X {0, 1} \* fds[0] and fds[1] of a thread's socket pair

VARIABLES
    pc,       \* per thread: where it is in SpawnProcess, what it did after it
    fds,      \* its socket pair
    open,     \* the parent's descriptors, and the socket each refers to
    child_pc, \* per thread: where its child process is
    kept      \* the child's descriptors

vars == <<pc, fds, open, child_pc, kept>>

FreeIn(table) == {fd \in Descriptors \ Std : table[fd] = None}
Close(table, F) == [fd \in Descriptors |-> IF fd \in F THEN None ELSE table[fd]]

SetPc(t, p) == pc' = [pc EXCEPT ![t] = p]
SetChild(t, p) == child_pc' = [child_pc EXCEPT ![t] = p]

\* MaxFd, converted to int.
MaxFd == ((Limit - 1 + 2^(IntBits - 1)) % 2^IntBits) - 2^(IntBits - 1)

\* socketpair() takes the lowest free descriptors; the callback embeds fds[0].
SocketPair(t) ==
    /\ pc[t] = "idle"
    /\ \E a, b \in FreeIn(open) :
        /\ a < b /\ \A fd \in FreeIn(open) : fd = a \/ b <= fd
        /\ fds' = [fds EXCEPT ![t] = <<a, b>>]
        /\ open' = [open EXCEPT ![a] = <<t, 0>>, ![b] = <<t, 1>>]
    /\ SetPc(t, "opened")
    /\ UNCHANGED <<child_pc, kept>>

Fork(t) ==
    /\ pc[t] = "opened"
    /\ SetPc(t, "forked")
    /\ SetChild(t, "forked")
    /\ kept' = [kept EXCEPT ![t] = open]
    /\ UNCHANGED <<fds, open>>

\* fork() fails: SpawnProcess throws, and leaves both sockets open.
ForkFails(t) ==
    /\ pc[t] = "opened"
    /\ SetPc(t, "thrown")
    /\ UNCHANGED <<fds, open, child_pc, kept>>

\* The parent closes fds[0] and returns fds[1].
ParentClose(t) ==
    /\ pc[t] = "forked"
    /\ open' = Close(open, {fds[t][1]})
    /\ SetPc(t, "spawned")
    /\ UNCHANGED <<fds, child_pc, kept>>

\* The caller is done with fds[1].
Release(t) ==
    /\ pc[t] = "spawned"
    /\ open' = Close(open, {fds[t][2]})
    /\ SetPc(t, "released")
    /\ UNCHANGED <<fds, child_pc, kept>>

\* The child closes fds[1].
ChildClose(t) ==
    /\ child_pc[t] = "forked"
    /\ kept' = [kept EXCEPT ![t] = Close(@, {fds[t][2]})]
    /\ SetChild(t, "closing")
    /\ UNCHANGED <<pc, fds, open>>

\* It closes the others, and executes the program or fails to.
ChildCloseAll(t) ==
    /\ child_pc[t] = "closing"
    /\ kept' = [kept EXCEPT ![t] =
            Close(@, {fd \in Descriptors : 3 <= fd /\ fd < MaxFd} \ {fds[t][1]})]
    /\ \E p \in {"running", "exited"} : SetChild(t, p)
    /\ UNCHANGED <<pc, fds, open>>

\* A program ends as it likes.
ChildExit(t) ==
    /\ child_pc[t] = "running"
    /\ SetChild(t, "exited")
    /\ UNCHANGED <<pc, fds, open, kept>>

WaitProcess(t) ==
    /\ pc[t] = "released"
    /\ child_pc[t] = "exited"
    /\ SetPc(t, "idle")
    /\ SetChild(t, "none")
    /\ kept' = [kept EXCEPT ![t] = [fd \in Descriptors |-> None]]
    /\ UNCHANGED <<fds, open>>

Init ==
    /\ pc = [t \in Spawners |-> "idle"]
    /\ fds = [t \in Spawners |-> <<0, 0>>]
    /\ open = [fd \in Descriptors |-> None]
    /\ child_pc = [t \in Spawners |-> "none"]
    /\ kept = [t \in Spawners |-> [fd \in Descriptors |-> None]]

Next ==
    \E t \in Spawners :
        \/ SocketPair(t) \/ Fork(t) \/ ForkFails(t) \/ ParentClose(t) \/ Release(t)
        \/ ChildClose(t) \/ ChildCloseAll(t) \/ ChildExit(t) \/ WaitProcess(t)

Spec == Init /\ [][Next]_vars

----------------------------------------------------------------------------

\* A program starts with no socket but its own: "Child process must close all
\* potentially open descriptors, except socket 0" (util.cpp:154).  A child that
\* keeps fds[1] of another one delays the end of file the other waits for.
OnlyOwnSocket ==
    \A t \in Spawners : child_pc[t] = "running" =>
        \A fd \in Descriptors : kept[t][fd] # None => fd = fds[t][1]
=============================================================================
