------------------------------ MODULE Delivery ------------------------------
(***************************************************************************)
(* What the request layer promises its callers, without its channels and   *)
(* its cache: a request is tried, and once more if the first attempt finds *)
(* the device unavailable; each attempt is executed at most once; a call   *)
(* that returns has been executed in its last attempt.  Only other threads *)
(* can have a request lost silently, or interrupted; an interruption may   *)
(* also come from threads that talk to other devices only.                 *)
(***************************************************************************)
EXTENDS Naturals

CONSTANTS
    Clients,         \* threads that make calls
    OtherDevices,    \* do threads outside Clients talk to other devices?
    Failures,        \* the errors of device and network
    Interruptions    \* the errors that other threads are the reason of

VARIABLES
    stage,     \* how far the call of each thread is
    outcome,   \* how the last one ended
    applied    \* how often the device has executed its request

Others(c) == Clients # {c}

Init ==
    /\ stage = [c \in Clients |-> "idle"]
    /\ outcome = [c \in Clients |-> "none"]
    /\ applied = [c \in Clients |-> 0]

Move(c, from, to) == stage[c] = from /\ stage' = [stage EXCEPT ![c] = to]
End(c, o) ==
    /\ stage' = [stage EXCEPT ![c] = "idle"]
    /\ outcome' = [outcome EXCEPT ![c] = o]
    /\ UNCHANGED applied

Call(c) ==
    /\ Move(c, "idle", "trying") \/ Move(c, "idle", "closing")
    /\ outcome' = [outcome EXCEPT ![c] = "none"]
    /\ applied' = [applied EXCEPT ![c] = 0]

Execute(c) ==
    /\ Move(c, "trying", "executed") \/ Move(c, "retrying", "reexecuted")
    /\ applied' = [applied EXCEPT ![c] = @ + 1]
    /\ UNCHANGED outcome

Fail(c) ==
    /\ Move(c, "trying", "failed") \/ Move(c, "executed", "failed")
    /\ UNCHANGED <<outcome, applied>>

Retry(c) == Move(c, "failed", "retrying") /\ UNCHANGED <<outcome, applied>>

Succeed(c) ==
    \/ stage[c] \in {"executed", "reexecuted"} /\ End(c, "ok")
    \/ stage[c] = "closing" /\ End(c, "cleared")

Raise(c) ==
    /\ stage[c] \in {"trying", "retrying", "executed", "reexecuted"}
    /\ \E o \in Failures : End(c, o)

Lose(c) == stage[c] \in {"trying", "retrying"} /\ Others(c) /\ End(c, "ok")
Interrupt(c) ==
    /\ stage[c] \notin {"idle", "failed"}
    /\ Others(c) \/ OtherDevices
    /\ \E o \in Interruptions : End(c, o)

Next == \E c \in Clients :
    \/ Call(c) \/ Execute(c) \/ Fail(c) \/ Retry(c)
    \/ Succeed(c) \/ Raise(c) \/ Lose(c) \/ Interrupt(c)

Spec == Init /\ [][Next]_<<stage, outcome, applied>>
=============================================================================
