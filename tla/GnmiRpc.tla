------------------------------ MODULE GnmiRpc -------------------------------
(***************************************************************************)
(* The unary requests to ONE device (orca_nw_lib/gnmi_util.py): the stub   *)
(* cache the threads of the process share, send_gnmi_set with its one      *)
(* resend, and the closing of stubs.  send_gnmi_get runs the same control  *)
(* flow; what it returns when nothing was asked is an empty dictionary.    *)
(*                                                                         *)
(*   stub      stubs.get(ip), named by its channel                         *)
(*   open      the channels nobody has closed                              *)
(*   mine      the local device_gnmi_stub (stub inside remove_stub, i      *)
(*             inside close_all_stubs)                                     *)
(*   resent    the parameter resend                                        *)
(*   outcome   how the last call ended: "ok" for a request, "cleared" for  *)
(*             close_all_stubs, or the error it raised                     *)
(*                                                                         *)
(* Three variables record what no variable of the program does: applied,   *)
(* how often the device executed the request of the call, failed, the      *)
(* channel on which its first attempt was answered UNAVAILABLE, and left,  *)
(* whether the cached stub is one that a close_all_stubs has closed which  *)
(* raised before it could forget it.                                       *)
(*                                                                         *)
(* The dictionary stubs has an entry for every device.  The entries of the *)
(* other devices are not modelled; that they come and go under the loop of *)
(* close_all_stubs is (OtherDevices).                                      *)
(***************************************************************************)
EXTENDS Naturals, FiniteSets

CONSTANTS
    Clients,   \* threads that send requests
    Channels,  \* gRPC channels
    Ops,       \* the calls the clients make
    Faulty,    \* may the device or the network fail?
    OtherDevices,  \* do other threads connect to other devices?
    NoChan     \* no stub (Python's None)

ASSUME ChannelsAssumption == NoChan \notin Channels
ASSUME OpsAssumption == Ops \subseteq {"set", "closeAll"}
ASSUME FaultyAssumption == Faulty \in BOOLEAN /\ OtherDevices \in BOOLEAN

VARIABLES stub, open, pc, mine, resent, outcome, applied, failed, left

cache == <<stub, open, left>>
history == <<applied, failed>>
vars == <<stub, open, pc, mine, resent, outcome, applied, failed, left>>

PC == {"idle", "start", "reread", "connecting", "issue", "sent", "executed",
       "pop", "shut", "closing", "iterate", "clear"}
Errors == {"unreachable", "unavailable", "rpcError", "cancelled", "closed",
           "runtimeError"}

TypeOK ==
    /\ stub \in Channels \cup {NoChan}
    /\ open \subseteq Channels
    /\ pc \in [Clients -> PC]
    /\ mine \in [Clients -> Channels \cup {NoChan}]
    /\ resent \in [Clients -> BOOLEAN]
    /\ outcome \in [Clients -> Errors \cup {"none", "ok", "cleared"}]
    /\ applied \in [Clients -> 0..2]
    /\ failed \in [Clients -> Channels \cup {NoChan}]
    /\ left \in BOOLEAN

Init ==
    /\ stub = NoChan
    /\ open = {}
    /\ pc = [c \in Clients |-> "idle"]
    /\ mine = [c \in Clients |-> NoChan]
    /\ resent = [c \in Clients |-> FALSE]
    /\ outcome = [c \in Clients |-> "none"]
    /\ applied = [c \in Clients |-> 0]
    /\ failed = [c \in Clients |-> NoChan]
    /\ left = FALSE

Goto(c, from, to) == pc[c] = from /\ pc' = [pc EXCEPT ![c] = to]

(* The call returns or raises; what it did stays visible until the next.   *)
Return(c, o) ==
    /\ pc' = [pc EXCEPT ![c] = "idle"]
    /\ mine' = [mine EXCEPT ![c] = NoChan]
    /\ outcome' = [outcome EXCEPT ![c] = o]

(* A channel nothing refers to: gRPC frees a channel that is dropped.      *)
NewChannels ==
    {k \in Channels : k # stub /\ \A c \in Clients : k # mine[c] /\ k # failed[c]}

-----------------------------------------------------------------------------
(* send_gnmi_set.                                                          *)

Send(c) ==
    /\ "set" \in Ops
    /\ Goto(c, "idle", "start")
    /\ resent' = [resent EXCEPT ![c] = FALSE]
    /\ outcome' = [outcome EXCEPT ![c] = "none"]
    /\ applied' = [applied EXCEPT ![c] = 0]
    /\ failed' = [failed EXCEPT ![c] = NoChan]
    /\ UNCHANGED <<cache, mine>>

(* getGrpcStubs: the device listens, and stubs is read a first time.       *)
FindStub(c) ==
    /\ Goto(c, "start", IF stub = NoChan THEN "connecting" ELSE "reread")
    /\ UNCHANGED <<cache, mine, resent, outcome, history>>

(* It does not listen, or the certificate is not to be had, or the device  *)
(* is not ready.                                                           *)
Unreachable(c) ==
    /\ Faulty
    /\ pc[c] \in {"start", "connecting"}
    /\ Return(c, "unreachable")
    /\ UNCHANGED <<cache, resent, history>>

(* The second read of stubs, whose value is returned: perhaps None.        *)
RereadStub(c) ==
    /\ Goto(c, "reread", "issue")
    /\ mine' = [mine EXCEPT ![c] = stub]
    /\ UNCHANGED <<cache, resent, outcome, history>>

(* A new stub replaces whatever another thread has cached meanwhile.       *)
Connect(c) ==
    /\ Goto(c, "connecting", "issue")
    /\ \E k \in NewChannels :
           /\ stub' = k
           /\ open' = open \cup {k}
           /\ mine' = [mine EXCEPT ![c] = k]
    /\ left' = FALSE
    /\ UNCHANGED <<resent, outcome, history>>

(* Without a stub the request is logged and not sent, and the call returns *)
(* as if it had been.                                                      *)
NothingSent(c) ==
    /\ pc[c] = "issue"
    /\ mine[c] = NoChan
    /\ Return(c, "ok")
    /\ UNCHANGED <<cache, resent, history>>

IssueOnClosed(c) ==
    /\ pc[c] = "issue"
    /\ mine[c] \notin open \cup {NoChan}
    /\ Return(c, "closed")
    /\ UNCHANGED <<cache, resent, history>>

Issue(c) ==
    /\ mine[c] \in open
    /\ Goto(c, "issue", "sent")
    /\ UNCHANGED <<cache, mine, resent, outcome, history>>

(* The device executes the request; then its answer arrives.               *)
Execute(c) ==
    /\ mine[c] \in open
    /\ Goto(c, "sent", "executed")
    /\ applied' = [applied EXCEPT ![c] = @ + 1]
    /\ UNCHANGED <<cache, mine, resent, outcome, failed>>

Answer(c) ==
    /\ pc[c] = "executed"
    /\ mine[c] \in open
    /\ Return(c, "ok")
    /\ UNCHANGED <<cache, resent, history>>

(* Has the request been handed to gRPC, and not yet answered?              *)
InFlight(c) == pc[c] \in {"sent", "executed"}

(* Mutant: the parameter resend is not looked at.                          *)
UnavailableForever(c) ==
    /\ Faulty
    /\ InFlight(c)
    /\ pc' = [pc EXCEPT ![c] = "pop"]
    /\ failed' = [failed EXCEPT ![c] = mine[c]]
    /\ UNCHANGED <<cache, mine, resent, outcome, applied>>

(* UNAVAILABLE, from a device that executed the request or did not: remove *)
(* the stub and send again, once.                                          *)
Unavailable(c) ==
    /\ Faulty
    /\ InFlight(c)
    /\ ~resent[c]
    /\ pc' = [pc EXCEPT ![c] = "pop"]
    /\ failed' = [failed EXCEPT ![c] = mine[c]]
    /\ UNCHANGED <<cache, mine, resent, outcome, applied>>

UnavailableAgain(c) ==
    /\ Faulty
    /\ InFlight(c)
    /\ resent[c]
    /\ Return(c, "unavailable")
    /\ UNCHANGED <<cache, resent, history>>

(* Any other status, the deadline of the request included, is raised.      *)
RpcError(c) ==
    /\ Faulty
    /\ InFlight(c)
    /\ Return(c, "rpcError")
    /\ UNCHANGED <<cache, resent, history>>

(* So is CANCELLED, which a request in flight gets when its channel is     *)
(* closed by another thread.                                               *)
Cancelled(c) ==
    /\ InFlight(c)
    /\ mine[c] \notin open
    /\ Return(c, "cancelled")
    /\ UNCHANGED <<cache, resent, history>>

(* Mutant: the stub is closed but left in the cache.                       *)
PeekStub(c) ==
    /\ Goto(c, "pop", "shut")
    /\ mine' = [mine EXCEPT ![c] = stub]
    /\ UNCHANGED <<cache, resent, outcome, history>>

(* remove_stub: pop whatever stub is cached, close its channel; then       *)
(* send_gnmi_set calls itself with resend=True.                            *)
PopStub(c) ==
    /\ Goto(c, "pop", "shut")
    /\ stub' = NoChan
    /\ mine' = [mine EXCEPT ![c] = stub]
    /\ left' = FALSE
    /\ UNCHANGED <<open, resent, outcome, history>>

(* Mutant: the request is sent again without resend=True.                  *)
ResendUnmarked(c) ==
    /\ Goto(c, "shut", "start")
    /\ open' = open \ {mine[c]}
    /\ mine' = [mine EXCEPT ![c] = NoChan]
    /\ UNCHANGED <<stub, left, resent, outcome, history>>

CloseAndResend(c) ==
    /\ Goto(c, "shut", "start")
    /\ open' = open \ {mine[c]}
    /\ mine' = [mine EXCEPT ![c] = NoChan]
    /\ resent' = [resent EXCEPT ![c] = TRUE]
    /\ UNCHANGED <<stub, left, outcome, history>>

-----------------------------------------------------------------------------
(* close_all_stubs: close the channels one by one, then forget the stubs.  *)
CloseAll(c) ==
    /\ "closeAll" \in Ops
    /\ Goto(c, "idle", "closing")
    /\ resent' = [resent EXCEPT ![c] = FALSE]
    /\ outcome' = [outcome EXCEPT ![c] = "none"]
    /\ applied' = [applied EXCEPT ![c] = 0]
    /\ failed' = [failed EXCEPT ![c] = NoChan]
    /\ UNCHANGED <<cache, mine>>

CloseCached(c) ==
    /\ Goto(c, "closing", IF stub = NoChan THEN "clear" ELSE "iterate")
    /\ open' = open \ {stub}
    /\ mine' = [mine EXCEPT ![c] = stub]
    /\ UNCHANGED <<stub, left, resent, outcome, history>>

(* No stub follows; or another close_all_stubs has ended meanwhile, and    *)
(* the dictionary of this loop is no longer the one called stubs.          *)
NextStub(c) ==
    /\ Goto(c, "iterate", "clear")
    /\ UNCHANGED <<cache, mine, resent, outcome, history>>

(* The loop asks the dictionary for its next value, before this device's   *)
(* stub or after it, and the dictionary has changed since the last: a      *)
(* thread has removed or replaced this device's stub, or the entry of some *)
(* other device.  The stubs closed so far stay in the cache.               *)
LoopRaises(c) ==
    /\ pc[c] \in {"closing", "iterate"}
    /\ OtherDevices \/ (pc[c] = "iterate" /\ stub # mine[c])
    /\ left' = (left \/ (stub # NoChan /\ stub = mine[c]))
    /\ Return(c, "runtimeError")
    /\ UNCHANGED <<stub, open, resent, history>>

ClearStubs(c) ==
    /\ pc[c] = "clear"
    /\ stub' = NoChan
    /\ left' = FALSE
    /\ Return(c, "cleared")
    /\ UNCHANGED <<open, resent, history>>

ClientStep(c) ==
    \/ FindStub(c) \/ Unreachable(c) \/ RereadStub(c) \/ Connect(c)
    \/ NothingSent(c) \/ IssueOnClosed(c) \/ Issue(c) \/ Execute(c) \/ Answer(c)
    \/ Unavailable(c) \/ UnavailableAgain(c) \/ RpcError(c) \/ Cancelled(c)
    \/ PopStub(c) \/ CloseAndResend(c)
    \/ CloseCached(c) \/ NextStub(c) \/ LoopRaises(c) \/ ClearStubs(c)

Next == \E c \in Clients : Send(c) \/ CloseAll(c) \/ ClientStep(c)

Spec == Init /\ [][Next]_vars

(* A request has a deadline, and a thread that is in a call runs.          *)
FairSpec == Spec /\ \A c \in Clients : WF_vars(ClientStep(c))

-----------------------------------------------------------------------------
(* Properties.                                                             *)

(* A request whose call returns has been executed by the device.           *)
SuccessMeansApplied ==
    \A c \in Clients :
        outcome[c] = "ok" => applied[c] >= 1

(* The resend is the only repetition: a device executes the request of one *)
(* call at most twice, and twice only if the first answer was UNAVAILABLE. *)
ExecutedTwiceOnlyByResend ==
    \A c \in Clients :
        /\ applied[c] <= 2
        /\ applied[c] = 2 => resent[c] /\ failed[c] # NoChan

(* The second attempt never uses the channel on which the first one        *)
(* failed, whoever cached which stub in the meantime.                      *)
ResendOnFreshChannel ==
    \A c \in Clients :
        resent[c] /\ pc[c] \in {"issue", "sent", "executed"}
            => mine[c] = NoChan \/ mine[c] # failed[c]

(* A channel is closed only after its stub has left the cache, so that no  *)
(* request finds a closed one there.  The close_all_stubs that closed it   *)
(* is the exception, until it clears the cache; if its loop raises, the    *)
(* closed stub stays (left).                                               *)
CachedStubUsable ==
    \/ stub \in open \cup {NoChan}
    \/ left
    \/ \E c \in Clients : pc[c] = "clear" \/ (pc[c] = "iterate" /\ mine[c] = stub)

(* How far a call is, seen without channels and cache.                     *)
Stage(c) ==
    CASE pc[c] = "idle" -> "idle"
      [] pc[c] \in {"pop", "shut"} -> "failed"
      [] pc[c] \in {"closing", "iterate", "clear"} -> "closing"
      [] pc[c] = "executed" -> IF resent[c] THEN "reexecuted" ELSE "executed"
      [] OTHER -> IF resent[c] THEN "retrying" ELSE "trying"

(* The request layer keeps the promise of Delivery.                        *)
Calls == INSTANCE Delivery WITH
    Clients <- Clients, OtherDevices <- OtherDevices,
    Failures <- {"unreachable", "unavailable", "rpcError"},
    Interruptions <- {"cancelled", "closed", "runtimeError"},
    stage <- [c \in Clients |-> Stage(c)], outcome <- outcome, applied <- applied
DeliverySpec == Calls!Spec

(* Every call returns or raises: there is one resend and no more.          *)
CallsReturn == \A c \in Clients : pc[c] # "idle" ~> pc[c] = "idle"
=============================================================================
