---------------------------- MODULE Subscription ----------------------------
(***************************************************************************)
(* The life cycle of the gNMI subscription of ONE device                   *)
(* (orca_nw_lib/gnmi_sub.py).  Everything the code keeps about it is keyed *)
(* by the device's ip, so devices do not interact here:                    *)
(*                                                                         *)
(*   flag      device_sync_responses.get(ip): the sync response was seen   *)
(*   registry  gnmi_subscriptions.get(ip): the stream a cancel would hit   *)
(*   stub      gnmi_util.stubs.get(ip), named by its channel               *)
(*   open      the channels nobody has closed                              *)
(*                                                                         *)
(* A subscription thread (handle_update) is a member of Threads; its       *)
(* stream has the thread's name.  tpc is where the thread is, chan the     *)
(* channel it works on, and alive the streams that can still deliver.      *)
(* A client is a thread that calls the library; cpc is where it is, op     *)
(* the call it is in, sub and tries the locals of that call.               *)
(***************************************************************************)
EXTENDS Naturals, FiniteSets

CONSTANTS
    Clients,   \* threads that call the library
    Threads,   \* the subscription threads the process can have at one time
    Channels,  \* gRPC channels
    Ops,       \* the calls the clients make
    Faulty,    \* may the device become unreachable, a stream break, other
               \* requests take the stub away?
    Retries,   \* the 5 of the polling loops
    NoSub,     \* no subscription object (Python's None)
    NoChan     \* no stub (Python's None)

AllOps == {"config", "subscribe", "discover", "unsubscribe", "close"}

ASSUME ClientsAssumption == IsFiniteSet(Clients)
ASSUME ThreadsAssumption == NoSub \notin Threads
ASSUME ChannelsAssumption == NoChan \notin Channels
ASSUME OpsAssumption == Ops \subseteq AllOps
ASSUME FaultyAssumption == Faulty \in BOOLEAN
ASSUME RetriesAssumption == Retries \in Nat

VARIABLES flag, registry, stub, open, tpc, chan, alive, cpc, op, sub, tries

threadVars == <<tpc, chan, alive>>
channelVars == <<stub, open>>
clientVars == <<cpc, op, sub, tries>>
vars == <<flag, registry, stub, open, tpc, chan, alive, cpc, op, sub, tries>>

ThreadPC == {"dead", "start", "reread", "connecting", "nostub", "stubbed",
             "opened", "initial", "syncing", "streaming"}
ClientPC == {"idle", "pop", "lookup", "cancel", "wait", "check", "start",
             "confirm", "poll", "gate", "apply", "close", "remove"}

TypeOK ==
    /\ flag \in BOOLEAN
    /\ registry \in Threads \cup {NoSub}
    /\ stub \in Channels \cup {NoChan}
    /\ open \subseteq Channels
    /\ tpc \in [Threads -> ThreadPC]
    /\ chan \in [Threads -> Channels \cup {NoChan}]
    /\ alive \subseteq Threads
    /\ cpc \in [Clients -> ClientPC]
    /\ op \in [Clients -> AllOps \cup {"none"}]
    /\ sub \in [Clients -> Threads \cup {NoSub}]
    /\ tries \in [Clients -> 0..Retries]

Init ==
    /\ flag = FALSE
    /\ registry = NoSub
    /\ stub = NoChan
    /\ open = {}
    /\ tpc = [t \in Threads |-> "dead"]
    /\ chan = [t \in Threads |-> NoChan]
    /\ alive = {}
    /\ cpc = [c \in Clients |-> "idle"]
    /\ op = [c \in Clients |-> "none"]
    /\ sub = [c \in Clients |-> NoSub]
    /\ tries = [c \in Clients |-> 0]

(* The threads named subscription_thread_<ip> that threading.enumerate()   *)
(* lists.                                                                  *)
Running == {t \in Threads : tpc[t] # "dead"}

(* A thread name that stands for no object the program still refers to.    *)
Startable(t) ==
    /\ tpc[t] = "dead"
    /\ t # registry
    /\ \A c \in Clients : sub[c] # t

(* A channel name that stands for no object the program still refers to.   *)
NewChannels == {k \in Channels : k # stub /\ \A t \in Threads : chan[t] # k}

StreamsOn(k) == {t \in alive : chan[t] = k}

-----------------------------------------------------------------------------
(* The subscription thread: handle_update and, inside it, send_gnmi_subscribe *)
(* and getGrpcStubs.                                                       *)

Step(t, from, to) == tpc[t] = from /\ tpc' = [tpc EXCEPT ![t] = to]

(* The thread's function raises or returns: the thread ends, its stream    *)
(* object may stay behind in the registry.                                 *)
Die(t) ==
    /\ tpc' = [tpc EXCEPT ![t] = "dead"]
    /\ chan' = [chan EXCEPT ![t] = NoChan]
    /\ alive' = alive \ {t}

(* is_device_ready, is_grpc_device_listening, then the first read of stubs. *)
FindStub(t) ==
    /\ Step(t, "start", IF stub = NoChan THEN "connecting" ELSE "reread")
    /\ UNCHANGED <<flag, registry, stub, open, chan, alive, clientVars>>

(* ... which raise when the device is not reachable; so does the fetch of   *)
(* the certificate before a channel is made.                               *)
Unreachable(t) ==
    /\ Faulty
    /\ tpc[t] \in {"start", "connecting"}
    /\ Die(t)
    /\ UNCHANGED <<flag, registry, stub, open, clientVars>>

(* The second read of stubs: None if the stub was removed in between.      *)
RereadStub(t) ==
    /\ Step(t, "reread", IF stub = NoChan THEN "nostub" ELSE "stubbed")
    /\ chan' = [chan EXCEPT ![t] = stub]
    /\ UNCHANGED <<flag, registry, stub, open, alive, clientVars>>

(* No stub was found: make one, whatever others have cached by now.        *)
Connect(t) ==
    /\ Step(t, "connecting", "stubbed")
    /\ \E k \in NewChannels :
           /\ stub' = k
           /\ open' = open \cup {k}
           /\ chan' = [chan EXCEPT ![t] = k]
    /\ UNCHANGED <<flag, registry, alive, clientVars>>

(* stub.Subscribe(...): gRPC refuses a closed channel with a ValueError.   *)
OpenStream(t) ==
    /\ chan[t] \in open
    /\ Step(t, "stubbed", "opened")
    /\ alive' = alive \cup {t}
    /\ UNCHANGED <<flag, registry, stub, open, chan, clientVars>>

OpenStreamFails(t) ==
    /\ tpc[t] = "stubbed"
    /\ chan[t] \notin open
    /\ Die(t)
    /\ UNCHANGED <<flag, registry, stub, open, clientVars>>

Register(t) ==
    /\ Step(t, "opened", "initial")
    /\ registry' = t
    /\ UNCHANGED <<flag, stub, open, chan, alive, clientVars>>

(* Without a stub send_gnmi_subscribe returns None: that is registered, and *)
(* the for statement over None raises.                                     *)
RegisterNone(t) ==
    /\ tpc[t] = "nostub"
    /\ registry' = NoSub
    /\ Die(t)
    /\ UNCHANGED <<flag, stub, open, clientVars>>

(* The device ends the initial updates with one sync response: the loop     *)
(* takes it from the stream, and then records it.                          *)
ReceiveSync(t) ==
    /\ t \in alive
    /\ Step(t, "initial", "syncing")
    /\ UNCHANGED <<flag, registry, stub, open, chan, alive, clientVars>>

(* Mutant: the sync response is taken for an update and not recorded.      *)
RecordSyncForgotten(t) ==
    /\ Step(t, "syncing", "streaming")
    /\ UNCHANGED <<flag, registry, stub, open, chan, alive, clientVars>>

RecordSync(t) ==
    /\ Step(t, "syncing", "streaming")
    /\ flag' = TRUE
    /\ UNCHANGED <<registry, stub, open, chan, alive, clientVars>>

(* Mutant: the thread outlives a stream that ends before its sync response. *)
EndOfSyncedStream(t) ==
    /\ tpc[t] = "streaming"
    /\ t \notin alive
    /\ Die(t)
    /\ UNCHANGED <<flag, registry, stub, open, clientVars>>

(* The stream raises or ends in the header of the for statement, which is  *)
(* outside the try: nothing is cleaned up.                                 *)
EndOfStream(t) ==
    /\ tpc[t] \in {"initial", "streaming"}
    /\ t \notin alive
    /\ Die(t)
    /\ UNCHANGED <<flag, registry, stub, open, clientVars>>

ThreadStep(t) ==
    \/ FindStub(t) \/ Unreachable(t) \/ RereadStub(t) \/ Connect(t)
    \/ OpenStream(t) \/ OpenStreamFails(t) \/ Register(t) \/ RegisterNone(t)
    \/ ReceiveSync(t) \/ RecordSync(t) \/ EndOfStream(t)

-----------------------------------------------------------------------------
(* What the rest of the process and the device do to the streams.          *)

(* A Get or Set of another request makes the channel.                      *)
OtherConnect ==
    /\ stub = NoChan
    /\ \E k \in NewChannels : stub' = k /\ open' = open \cup {k}
    /\ UNCHANGED <<flag, registry, threadVars, clientVars>>

(* A Get or Set of another request is answered UNAVAILABLE and removes the *)
(* stub, which closes the channel every stream of the device is on.        *)
OtherRemoveStub ==
    /\ Faulty
    /\ stub # NoChan
    /\ stub' = NoChan
    /\ open' = open \ {stub}
    /\ alive' = alive \ StreamsOn(stub)
    /\ UNCHANGED <<flag, registry, tpc, chan, clientVars>>

(* close_all_stubs, called by another thread, closes the channel of the    *)
(* stub; the stub stays in the cache until the call comes to its end, and  *)
(* for good if the loop over the stubs raises.                             *)
OtherCloseStub ==
    /\ Faulty
    /\ stub \in open
    /\ open' = open \ {stub}
    /\ alive' = alive \ StreamsOn(stub)
    /\ UNCHANGED <<flag, registry, stub, tpc, chan, clientVars>>

(* At its end it forgets every stub, one that was cached after its loop,   *)
(* and is not closed, included.                                            *)
OtherForgetStub ==
    /\ Faulty
    /\ stub # NoChan
    /\ stub' = NoChan
    /\ UNCHANGED <<flag, registry, open, threadVars, clientVars>>

(* The device, or the transport, ends a stream.                            *)
BreakStream(t) ==
    /\ Faulty
    /\ t \in alive
    /\ alive' = alive \ {t}
    /\ UNCHANGED <<flag, registry, stub, open, tpc, chan, clientVars>>

-----------------------------------------------------------------------------
(* The clients.                                                            *)

Goto(c, from, to) == cpc[c] = from /\ cpc' = [cpc EXCEPT ![c] = to]

Return(c) ==
    /\ cpc' = [cpc EXCEPT ![c] = "idle"]
    /\ op' = [op EXCEPT ![c] = "none"]
    /\ sub' = [sub EXCEPT ![c] = NoSub]
    /\ tries' = [tries EXCEPT ![c] = 0]

(* The first statement each call reaches.                                  *)
Entry(o) ==
    CASE o \in {"config", "subscribe"} -> "check"
      [] o \in {"discover", "unsubscribe"} -> "pop"
      [] o = "close" -> "close"

Call(c, o) ==
    /\ Goto(c, "idle", Entry(o))
    /\ op' = [op EXCEPT ![c] = o]
    /\ UNCHANGED <<flag, registry, channelVars, threadVars, sub, tries>>

(* gnmi_unsubscribe: device_sync_responses.pop, gnmi_subscriptions.get,    *)
(* cancel, and the loop that polls until no subscription thread is left.   *)
PopSync(c) ==
    /\ Goto(c, "pop", "lookup")
    /\ flag' = FALSE
    /\ UNCHANGED <<registry, channelVars, threadVars, op, sub, tries>>

LookupSubscription(c) ==
    /\ registry # NoSub
    /\ Goto(c, "lookup", "cancel")
    /\ sub' = [sub EXCEPT ![c] = registry]
    /\ UNCHANGED <<flag, registry, channelVars, threadVars, op, tries>>

(* Mutant: the subscription is looked up but not cancelled.                *)
SkipCancel(c) ==
    /\ Goto(c, "cancel", "wait")
    /\ tries' = [tries EXCEPT ![c] = Retries]
    /\ UNCHANGED <<flag, registry, channelVars, threadVars, op, sub>>

CancelSubscription(c) ==
    /\ Goto(c, "cancel", "wait")
    /\ alive' = alive \ {sub[c]}
    /\ tries' = [tries EXCEPT ![c] = Retries]
    /\ UNCHANGED <<flag, registry, channelVars, tpc, chan, op, sub>>

(* Mutant: one poll too many.                                              *)
PollThreadOnceMore(c) ==
    /\ cpc[c] = "wait"
    /\ Running # {}
    /\ tries' = [tries EXCEPT ![c] = @ - 1]
    /\ UNCHANGED <<flag, registry, channelVars, threadVars, cpc, op, sub>>

PollThread(c) ==
    /\ cpc[c] = "wait"
    /\ tries[c] > 0
    /\ Running # {}
    /\ tries' = [tries EXCEPT ![c] = @ - 1]
    /\ UNCHANGED <<flag, registry, channelVars, threadVars, cpc, op, sub>>

(* gnmi_unsubscribe (or close_gnmi_channel) is over: nothing was           *)
(* registered, no thread is left, or the retries are used up.              *)
UnsubscribeOver(c) ==
    \/ cpc[c] = "lookup" /\ registry = NoSub
    \/ cpc[c] = "wait" /\ (Running = {} \/ tries[c] = 0)

FinishUnsubscribe(c) ==
    /\ UnsubscribeOver(c)
    /\ op[c] # "discover"
    /\ Return(c)
    /\ UNCHANGED <<flag, registry, channelVars, threadVars>>

(* gnmi_subscribe(force_resubscribe=True) goes on without looking for a    *)
(* thread that is still running.                                           *)
ForceOn(c) ==
    /\ UnsubscribeOver(c)
    /\ op[c] = "discover"
    /\ cpc' = [cpc EXCEPT ![c] = "start"]
    /\ UNCHANGED <<flag, registry, channelVars, threadVars, op, sub, tries>>

(* gnmi_subscribe without force, in a call of its own or in the wrapper of *)
(* a configuration function.                                               *)
AlreadySubscribed(c) ==
    /\ Running # {}
    /\ cpc[c] = "check"
    /\ IF op[c] = "subscribe"
       THEN Return(c)
       ELSE cpc' = [cpc EXCEPT ![c] = "gate"] /\ UNCHANGED <<op, sub, tries>>
    /\ UNCHANGED <<flag, registry, channelVars, threadVars>>

(* Mutant: the running threads are not consulted.                          *)
SubscribeUnchecked(c) ==
    /\ Goto(c, "check", "start")
    /\ UNCHANGED <<flag, registry, channelVars, threadVars, op, sub, tries>>

NotSubscribed(c) ==
    /\ Running = {}
    /\ Goto(c, "check", "start")
    /\ UNCHANGED <<flag, registry, channelVars, threadVars, op, sub, tries>>

StartThread(c) ==
    /\ Goto(c, "start", "confirm")
    /\ \E t \in Threads : Startable(t) /\ tpc' = [tpc EXCEPT ![t] = "start"]
    /\ UNCHANGED <<flag, registry, channelVars, chan, alive, op, sub, tries>>

(* Thread.start raises when the process can have no more threads.          *)
StartThreadFails(c) ==
    /\ cpc[c] = "start"
    /\ \A t \in Threads : ~Startable(t)
    /\ Return(c)
    /\ UNCHANGED <<flag, registry, channelVars, threadVars>>

(* Is there a thread of that name now?  The wrapper raises if not, the     *)
(* discovery ignores the answer and waits for the sync response.           *)
ConfirmThread(c) ==
    /\ cpc[c] = "confirm"
    /\ CASE op[c] = "discover" ->
              /\ cpc' = [cpc EXCEPT ![c] = "poll"]
              /\ sub' = [sub EXCEPT ![c] = NoSub]
              /\ tries' = [tries EXCEPT ![c] = Retries]
              /\ UNCHANGED op
         [] op[c] = "config" /\ Running # {} ->
              /\ cpc' = [cpc EXCEPT ![c] = "gate"]
              /\ UNCHANGED <<op, sub, tries>>
         [] OTHER -> Return(c)
    /\ UNCHANGED <<flag, registry, channelVars, threadVars>>

(* Mutant: the loop does not count.                                        *)
PollSyncForever(c) ==
    /\ cpc[c] = "poll"
    /\ ~flag
    /\ tries[c] > 0
    /\ UNCHANGED vars

(* The retry loop of _discover_device_and_enable_ifs.                      *)
PollSync(c) ==
    /\ cpc[c] = "poll"
    /\ ~flag
    /\ tries[c] > 0
    /\ tries' = [tries EXCEPT ![c] = @ - 1]
    /\ UNCHANGED <<flag, registry, channelVars, threadVars, cpc, op, sub>>

(* Synchronised or timed out, the discovery enables the interfaces, which  *)
(* is a call of a wrapped configuration function.                          *)
EnableInterfaces(c) ==
    /\ flag \/ tries[c] = 0
    /\ Goto(c, "poll", "check")
    /\ op' = [op EXCEPT ![c] = "config"]
    /\ tries' = [tries EXCEPT ![c] = 0]
    /\ UNCHANGED <<flag, registry, channelVars, threadVars, sub>>

(* Mutant: a running thread is enough to configure.                        *)
PassGateUnsynced(c) ==
    /\ Goto(c, "gate", "apply")
    /\ UNCHANGED <<flag, registry, channelVars, threadVars, op, sub, tries>>

(* sync_response_received, the second half of the wrapper's condition.     *)
PassGate(c) ==
    /\ flag
    /\ Goto(c, "gate", "apply")
    /\ UNCHANGED <<flag, registry, channelVars, threadVars, op, sub, tries>>

RefuseConfig(c) ==
    /\ ~flag
    /\ cpc[c] = "gate"
    /\ Return(c)
    /\ UNCHANGED <<flag, registry, channelVars, threadVars>>

ApplyConfig(c) ==
    /\ cpc[c] = "apply"
    /\ Return(c)
    /\ UNCHANGED <<flag, registry, channelVars, threadVars>>

(* close_gnmi_channel: close the channel of the stub getGrpcStubs returns, *)
(* which makes one if there is none, then remove_stub, then poll.  The     *)
(* call of getGrpcStubs is one step here; GnmiRpc has its interleavings.   *)
CloseChannel(c) ==
    /\ Goto(c, "close", "remove")
    /\ \E k \in IF stub = NoChan THEN NewChannels ELSE {stub} :
           /\ stub' = k
           /\ open' = open \ {k}
           /\ alive' = alive \ StreamsOn(k)
    /\ UNCHANGED <<flag, registry, tpc, chan, op, sub, tries>>

CloseChannelFails(c) ==
    /\ Faulty
    /\ cpc[c] = "close"
    /\ Return(c)
    /\ UNCHANGED <<flag, registry, channelVars, threadVars>>

RemoveStub(c) ==
    /\ Goto(c, "remove", "wait")
    /\ stub' = NoChan
    /\ open' = open \ {stub}
    /\ alive' = alive \ StreamsOn(stub)
    /\ tries' = [tries EXCEPT ![c] = Retries]
    /\ UNCHANGED <<flag, registry, tpc, chan, op, sub>>

ClientStep(c) ==
    \/ PopSync(c) \/ LookupSubscription(c) \/ CancelSubscription(c)
    \/ PollThread(c) \/ FinishUnsubscribe(c) \/ ForceOn(c)
    \/ AlreadySubscribed(c) \/ NotSubscribed(c)
    \/ StartThread(c) \/ StartThreadFails(c) \/ ConfirmThread(c)
    \/ PollSync(c) \/ EnableInterfaces(c)
    \/ PassGate(c) \/ RefuseConfig(c) \/ ApplyConfig(c)
    \/ CloseChannel(c) \/ CloseChannelFails(c) \/ RemoveStub(c)

Next ==
    \/ \E t \in Threads : ThreadStep(t) \/ BreakStream(t)
    \/ OtherConnect \/ OtherRemoveStub \/ OtherCloseStub \/ OtherForgetStub
    \/ \E c \in Clients : ClientStep(c) \/ \E o \in Ops : Call(c, o)

Spec == Init /\ [][Next]_vars

(* Threads run, and a call once made is carried on; a device that is up ends *)
(* the initial updates of a stream with the sync response.  Nobody has to  *)
(* make a call, and nothing has to fail.                                   *)
FairSpec ==
    /\ Spec
    /\ \A t \in Threads : WF_vars(ThreadStep(t))
    /\ \A c \in Clients : WF_vars(ClientStep(c))

-----------------------------------------------------------------------------
(* Properties.                                                             *)

(* The clients that have found no subscription thread, or have been told   *)
(* not to look, and are about to start one.                                *)
Starting == {c \in Clients : cpc[c] = "start"}

(* However checks and starts interleave, gnmi_subscribe without force      *)
(* leaves a device with no more subscription threads than there are        *)
(* callers: the check of the running threads before the start bounds the   *)
(* duplicates, also across threads that die and calls that are repeated.   *)
ThreadsBoundedByClients ==
    Cardinality(Running) + Cardinality(Starting) <= Cardinality(Clients)

(* A configuration function runs only while a stream of the device is open *)
(* on which the sync response has been received.                           *)
AppliedOnlyWhenSubscribed ==
    \A c \in Clients : cpc[c] = "apply" =>
        \E t \in alive : tpc[t] = "streaming"

(* When a forced resubscription starts the new thread, the stream it has   *)
(* cancelled delivers nothing any more, and its thread has ended unless    *)
(* the retries were used up: old and new thread never read side by side.   *)
CancelledBeforeReplaced ==
    \A c \in Clients :
        cpc[c] = "start" /\ op[c] = "discover" /\ sub[c] # NoSub =>
            /\ sub[c] \notin alive
            /\ tpc[sub[c]] = "dead" \/ tries[c] = 0

(* Every call returns: the polling loops give up, and no call waits for a  *)
(* thread that never comes.                                                *)
CallsReturn == \A c \in Clients : cpc[c] # "idle" ~> cpc[c] = "idle"

(* A thread whose stream has ended does not stay: a cancelled subscription *)
(* stops being listed, so that a later gnmi_subscribe can start a new one. *)
EndedThreadsEnd ==
    \A t \in Threads :
        t \notin alive /\ tpc[t] \in {"initial", "syncing", "streaming"}
            ~> tpc[t] = "dead"

(* As long as nothing fails or is unsubscribed, a started subscription     *)
(* brings the device to the point where configuration is let through.      *)
SubscriptionBecomesReady == Running # {} ~> flag

(* The wrapper's promise that it subscribes a device that is not           *)
(* subscribed: no call is under way, every thread of the device is past    *)
(* its sync response, so it will never set the flag again, and yet the     *)
(* flag is off, so that every configuration is refused for good.           *)
LockedOut ==
    /\ \A c \in Clients : cpc[c] = "idle"
    /\ Running # {}
    /\ \A t \in Running : tpc[t] = "streaming" /\ t \in alive
    /\ ~flag

NeverLockedOut == ~LockedOut
=============================================================================
