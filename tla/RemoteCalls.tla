----------------------------- MODULE RemoteCalls -----------------------------
(***************************************************************************)
(* What clientInvoke promises the thread that calls a method of a proxy    *)
(* object (proxy-types.h:661-751): as long as the connection lasts, the    *)
(* method is executed exactly once, and the call returns after that.  Only *)
(* where the connection is broken may a call fail; "called after           *)
(* disconnect" then means that the method is never executed, "interrupted  *)
(* by disconnect" leaves open whether it is, or will be, but it is         *)
(* executed once at most.                                                  *)
(***************************************************************************)
CONSTANT Calls

VARIABLES call,    \* how far each call is for its caller
          method,  \* how far its method is
          result,  \* what clientInvoke returns or throws
          broken   \* the calls whose connection has lost an end

remoteVars == <<call, method, result, broken>>

RemoteInit ==
    /\ call = [c \in Calls |-> "none"]
    /\ method = [c \in Calls |-> "none"]
    /\ result = [c \in Calls |-> "none"]
    /\ broken = {}

\* A call may be made over a connection that is broken already.
Make(c) ==
    /\ call[c] = "none"
    /\ call' = [call EXCEPT ![c] = "made"]
    /\ broken' \in {broken, broken \union {c}}
    /\ UNCHANGED <<method, result>>

Break(S) ==
    /\ UNCHANGED <<call, method, result>>
    /\ broken' = broken \union S

\* It may still start when the caller has been told of the disconnect.
Start(c) ==
    /\ call[c] # "none" /\ method[c] = "none"
    /\ result[c] = "none" \/ (result[c] = "disconnected" /\ c \in broken)
    /\ method' = [method EXCEPT ![c] = "running"]
    /\ UNCHANGED <<call, result, broken>>

Finish(c) ==
    /\ method[c] = "running"
    /\ method' = [method EXCEPT ![c] = "executed"]
    /\ UNCHANGED <<call, result, broken>>

End(c, r) ==
    /\ call[c] = "made" /\ result[c] = "none"
    /\ \/ r = "answered" /\ method[c] = "executed"
       \/ r = "disconnected" /\ c \in broken
       \/ r = "not_sent" /\ c \in broken /\ method[c] = "none"
    /\ result' = [result EXCEPT ![c] = r]
    /\ UNCHANGED <<call, method, broken>>

Return(c) ==
    /\ call[c] = "made" /\ result[c] # "none"
    /\ call' = [call EXCEPT ![c] = "returned"]
    /\ UNCHANGED <<method, result, broken>>

RemoteNext ==
    \/ \E S \in SUBSET Calls : Break(S)
    \/ \E c \in Calls : Make(c) \/ Start(c) \/ Finish(c) \/ Return(c)
    \/ \E c \in Calls, r \in {"answered", "disconnected", "not_sent"} : End(c, r)

\* What never happens: a method executed twice or for a call that was not sent,
\* a call that returns early or without saying what happened, an error while
\* the connection lasts.
RemoteSafety == RemoteInit /\ [][RemoteNext]_remoteVars
=============================================================================
