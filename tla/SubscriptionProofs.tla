------------------------- MODULE SubscriptionProofs -------------------------
(***************************************************************************)
(* Theorems about Subscription, for every set of clients, threads and      *)
(* channels and every number of retries.                                   *)
(***************************************************************************)
EXTENDS Subscription, FiniteSetTheorems, TLAPS

(* A subscription thread's own steps keep the types.                       *)
LEMMA ThreadStepTypeOK ==
    ASSUME TypeOK, NEW t \in Threads, ThreadStep(t)
    PROVE  TypeOK'
<1> USE DEF TypeOK, ThreadPC, Step, clientVars
<1>1. CASE FindStub(t)
  BY <1>1 DEF FindStub
<1>2. CASE Unreachable(t)
  BY <1>2 DEF Unreachable, Die
<1>3. CASE RereadStub(t)
  BY <1>3 DEF RereadStub
<1>4. CASE Connect(t)
  BY <1>4 DEF Connect, NewChannels
<1>5. CASE OpenStream(t)
  BY <1>5 DEF OpenStream
<1>6. CASE OpenStreamFails(t)
  BY <1>6 DEF OpenStreamFails, Die
<1>7. CASE Register(t)
  BY <1>7 DEF Register
<1>8. CASE RegisterNone(t)
  BY <1>8 DEF RegisterNone, Die
<1>9. CASE ReceiveSync(t)
  BY <1>9 DEF ReceiveSync
<1>10. CASE RecordSync(t)
  BY <1>10 DEF RecordSync
<1>11. CASE EndOfStream(t)
  BY <1>11 DEF EndOfStream, Die
<1>12. QED
  BY <1>1, <1>2, <1>3, <1>4, <1>5, <1>6, <1>7, <1>8, <1>9, <1>10, <1>11
  DEF ThreadStep

(* A client's steps keep the types.                                        *)
LEMMA ClientStepTypeOK ==
    ASSUME TypeOK, NEW c \in Clients, ClientStep(c)
    PROVE  TypeOK'
<1> USE RetriesAssumption
    DEF TypeOK, ClientPC, AllOps, Goto, Return, channelVars, threadVars
<1>1. CASE PopSync(c)
  BY <1>1 DEF PopSync
<1>2. CASE LookupSubscription(c)
  BY <1>2 DEF LookupSubscription
<1>3. CASE CancelSubscription(c)
  BY <1>3 DEF CancelSubscription
<1>4. CASE PollThread(c)
  BY <1>4 DEF PollThread
<1>5. CASE FinishUnsubscribe(c)
  BY <1>5 DEF FinishUnsubscribe
<1>6. CASE ForceOn(c)
  BY <1>6 DEF ForceOn
<1>7. CASE AlreadySubscribed(c)
  BY <1>7 DEF AlreadySubscribed
<1>8. CASE NotSubscribed(c)
  BY <1>8 DEF NotSubscribed
<1>9. CASE StartThread(c)
  BY <1>9 DEF StartThread, ThreadPC
<1>10. CASE StartThreadFails(c)
  BY <1>10 DEF StartThreadFails
<1>11. CASE ConfirmThread(c)
  BY <1>11 DEF ConfirmThread
<1>12. CASE PollSync(c)
  BY <1>12 DEF PollSync
<1>13. CASE EnableInterfaces(c)
  BY <1>13 DEF EnableInterfaces
<1>14. CASE PassGate(c)
  BY <1>14 DEF PassGate
<1>15. CASE RefuseConfig(c)
  BY <1>15 DEF RefuseConfig
<1>16. CASE ApplyConfig(c)
  BY <1>16 DEF ApplyConfig
<1>17. CASE CloseChannel(c)
  BY <1>17 DEF CloseChannel, NewChannels
<1>18. CASE CloseChannelFails(c)
  BY <1>18 DEF CloseChannelFails
<1>19. CASE RemoveStub(c)
  BY <1>19 DEF RemoveStub
<1>20. QED
  BY <1>1, <1>2, <1>3, <1>4, <1>5, <1>6, <1>7, <1>8, <1>9, <1>10, <1>11,
     <1>12, <1>13, <1>14, <1>15, <1>16, <1>17, <1>18, <1>19
  DEF ClientStep

LEMMA StepTypeOK == TypeOK /\ [Next]_vars => TypeOK'
<1> SUFFICES ASSUME TypeOK, [Next]_vars PROVE TypeOK'
  OBVIOUS
<1>1. CASE \E t \in Threads : ThreadStep(t)
  BY <1>1, ThreadStepTypeOK
<1>2. CASE \E t \in Threads : BreakStream(t)
  BY <1>2 DEF BreakStream, TypeOK, clientVars
<1>3. CASE OtherConnect
  BY <1>3 DEF OtherConnect, NewChannels, TypeOK, clientVars, threadVars
<1>4. CASE OtherRemoveStub
  BY <1>4 DEF OtherRemoveStub, TypeOK, clientVars
<1>5. CASE OtherCloseStub \/ OtherForgetStub
  BY <1>5 DEF OtherCloseStub, OtherForgetStub, TypeOK, clientVars, threadVars
<1>6. CASE \E c \in Clients : ClientStep(c)
  BY <1>6, ClientStepTypeOK
<1>7. CASE \E c \in Clients, o \in Ops : Call(c, o)
  BY <1>7, OpsAssumption
  DEF Call, Goto, Entry, AllOps, ClientPC, TypeOK, channelVars, threadVars
<1>8. CASE UNCHANGED vars
  BY <1>8 DEF vars, TypeOK
<1>9. QED
  BY <1>1, <1>2, <1>3, <1>4, <1>5, <1>6, <1>7, <1>8 DEF Next

LEMMA InitTypeOK == Init => TypeOK
<1>1. ASSUME Init PROVE TypeOK
  <2>1. tpc \in [Threads -> ThreadPC] /\ chan \in [Threads -> Channels \cup {NoChan}]
    BY <1>1 DEF Init, ThreadPC
  <2>2. cpc \in [Clients -> ClientPC] /\ op \in [Clients -> AllOps \cup {"none"}]
    BY <1>1 DEF Init, ClientPC
  <2>3. sub \in [Clients -> Threads \cup {NoSub}] /\ tries \in [Clients -> 0..Retries]
    BY <1>1, RetriesAssumption DEF Init
  <2>4. QED
    BY <1>1, <2>1, <2>2, <2>3 DEF Init, TypeOK
<1>2. QED
  BY <1>1

(* The subscription state of a device is well-typed throughout.            *)
THEOREM TypeCorrect == Spec => []TypeOK
<1>1. QED
  BY InitTypeOK, StepTypeOK, PTL DEF Spec

-----------------------------------------------------------------------------
(* ThreadsBoundedByClients.  The count alone is not inductive: a forced    *)
(* start adds a thread without a check.  Without the call that forces, no  *)
(* client is ever in it, and the threads that run stay finite in number.   *)

NeverForced == \A c \in Clients : op[c] # "discover"

BoundInv ==
    /\ TypeOK
    /\ NeverForced
    /\ IsFiniteSet(Running)
    /\ ThreadsBoundedByClients

(* Steps that start no thread, make no client ready to start one, and end  *)
(* at most some threads, keep the bound.                                   *)
LEMMA ShrinkingKeepsBound ==
    ASSUME BoundInv, TypeOK', NeverForced',
           Running' \subseteq Running, Starting' \subseteq Starting
    PROVE  BoundInv'
<1>1. IsFiniteSet(Starting)
  BY ClientsAssumption, FS_Subset DEF Starting
<1>2. IsFiniteSet(Running') /\ Cardinality(Running') <= Cardinality(Running)
  BY FS_Subset DEF BoundInv
<1>3. IsFiniteSet(Starting') /\ Cardinality(Starting') <= Cardinality(Starting)
  BY <1>1, FS_Subset
<1>4. /\ Cardinality(Running) \in Nat /\ Cardinality(Running') \in Nat
      /\ Cardinality(Starting) \in Nat /\ Cardinality(Starting') \in Nat
      /\ Cardinality(Clients) \in Nat
  BY <1>1, <1>2, <1>3, ClientsAssumption, FS_CardinalityType DEF BoundInv
<1>5. (Cardinality(Running) + Cardinality(Starting) <= Cardinality(Clients))'
  BY <1>2, <1>3, <1>4 DEF BoundInv, ThreadsBoundedByClients
<1>6. QED
  BY <1>2, <1>5 DEF BoundInv, ThreadsBoundedByClients

(* A client that finds no thread adds itself to the starters, who are then *)
(* all there is to count, and are clients.                                 *)
LEMMA CheckKeepsBound ==
    ASSUME BoundInv, TypeOK', NEW c \in Clients, NotSubscribed(c)
    PROVE  BoundInv'
<1>1. Running = {} /\ Running' = {}
  BY DEF NotSubscribed, Running, threadVars
<1>2. Cardinality(Running') = 0 /\ IsFiniteSet(Running')
  BY <1>1, FS_EmptySet
<1>3. Starting' \subseteq Clients
  BY DEF Starting
<1>4. Cardinality(Starting') <= Cardinality(Clients)
  BY <1>3, ClientsAssumption, FS_Subset
<1>5. Cardinality(Starting') \in Nat
  BY <1>3, ClientsAssumption, FS_Subset, FS_CardinalityType
<1>6. NeverForced'
  BY DEF NotSubscribed, BoundInv, NeverForced
<1>7. (Cardinality(Running) + Cardinality(Starting) <= Cardinality(Clients))'
  BY <1>2, <1>4, <1>5
<1>8. QED
  BY <1>2, <1>6, <1>7 DEF BoundInv, ThreadsBoundedByClients

(* The start turns one starter into one thread.                            *)
LEMMA StartKeepsBound ==
    ASSUME BoundInv, TypeOK', NEW c \in Clients, StartThread(c)
    PROVE  BoundInv'
<1>1. PICK t \in Threads : Startable(t) /\ tpc' = [tpc EXCEPT ![t] = "start"]
  BY DEF StartThread
<1>2. t \notin Running /\ Running' = Running \cup {t}
  BY <1>1 DEF Startable, Running, BoundInv, TypeOK
<1>3. c \in Starting /\ Starting' = Starting \ {c}
  BY DEF StartThread, Goto, Starting, BoundInv, TypeOK
<1>4. IsFiniteSet(Starting)
  BY ClientsAssumption, FS_Subset DEF Starting
<1>5. IsFiniteSet(Running') /\ Cardinality(Running') = Cardinality(Running) + 1
  BY <1>2, FS_AddElement DEF BoundInv
<1>6. Cardinality(Starting') = Cardinality(Starting) - 1
  BY <1>3, <1>4, FS_RemoveElement
<1>7. Cardinality(Running) \in Nat /\ Cardinality(Starting) \in Nat
  BY <1>4, FS_CardinalityType DEF BoundInv
<1>8. NeverForced'
  BY DEF StartThread, BoundInv, NeverForced
<1>9. (Cardinality(Running) + Cardinality(Starting) <= Cardinality(Clients))'
  BY <1>5, <1>6, <1>7, ClientsAssumption, FS_CardinalityType
  DEF BoundInv, ThreadsBoundedByClients
<1>10. QED
  BY <1>5, <1>8, <1>9 DEF BoundInv, ThreadsBoundedByClients

(* A subscription thread only ends threads.                                *)
LEMMA ThreadStepKeepsBound ==
    ASSUME BoundInv, TypeOK', NEW t \in Threads, ThreadStep(t)
    PROVE  BoundInv'
<1> USE DEF Step, Die, clientVars
<1>1. cpc' = cpc /\ op' = op
  BY DEF ThreadStep, FindStub, Unreachable, RereadStub, Connect, OpenStream,
         OpenStreamFails, Register, RegisterNone, ReceiveSync, RecordSync,
         EndOfStream
<1>2. Running' \subseteq Running
  BY DEF ThreadStep, FindStub, Unreachable, RereadStub, Connect, OpenStream,
         OpenStreamFails, Register, RegisterNone, ReceiveSync, RecordSync,
         EndOfStream, Running, BoundInv, TypeOK
<1>3. Starting' \subseteq Starting /\ NeverForced'
  BY <1>1 DEF Starting, NeverForced, BoundInv
<1>4. QED
  BY <1>2, <1>3, ShrinkingKeepsBound

(* The other steps of a client leave the threads as they are; a forced     *)
(* subscription, which would add a starter, does not occur.                *)
LEMMA ClientStepKeepsBound ==
    ASSUME BoundInv, TypeOK', NEW c \in Clients, ClientStep(c)
    PROVE  BoundInv'
<1> USE DEF Goto, Return, threadVars
<1>1. CASE NotSubscribed(c)
  BY <1>1, CheckKeepsBound
<1>2. CASE StartThread(c)
  BY <1>2, StartKeepsBound
<1>3. CASE ~NotSubscribed(c) /\ ~StartThread(c)
  <2>1. op[c] # "discover"
    BY DEF BoundInv, NeverForced
  <2>2. tpc' = tpc
    BY <1>3
    DEF ClientStep, PopSync, LookupSubscription, CancelSubscription,
        PollThread, FinishUnsubscribe, ForceOn, AlreadySubscribed,
        StartThreadFails, ConfirmThread, PollSync, EnableInterfaces, PassGate,
        RefuseConfig, ApplyConfig, CloseChannel, CloseChannelFails, RemoveStub
  <2>3. \A d \in Clients : cpc'[d] = "start" => cpc[d] = "start"
    BY <1>3, <2>1
    DEF ClientStep, PopSync, LookupSubscription, CancelSubscription,
        PollThread, FinishUnsubscribe, ForceOn, AlreadySubscribed,
        StartThreadFails, ConfirmThread, PollSync, EnableInterfaces, PassGate,
        RefuseConfig, ApplyConfig, CloseChannel, CloseChannelFails, RemoveStub,
        BoundInv, TypeOK
  <2>4. NeverForced'
    BY <1>3, <2>1
    DEF ClientStep, PopSync, LookupSubscription, CancelSubscription,
        PollThread, FinishUnsubscribe, ForceOn, AlreadySubscribed,
        StartThreadFails, ConfirmThread, PollSync, EnableInterfaces, PassGate,
        RefuseConfig, ApplyConfig, CloseChannel, CloseChannelFails, RemoveStub,
        BoundInv, TypeOK, NeverForced
  <2>5. QED
    BY <2>2, <2>3, <2>4, ShrinkingKeepsBound DEF Running, Starting
<1>4. QED
  BY <1>1, <1>2, <1>3

(* Unless a call forces a resubscription, a device never has more          *)
(* subscription threads, running or about to be started, than there are    *)
(* clients; with one client it has one at most.                            *)
THEOREM NoForceBoundsThreads ==
    "discover" \notin Ops => (Spec => []ThreadsBoundedByClients)
<1> SUFFICES ASSUME "discover" \notin Ops PROVE Spec => []ThreadsBoundedByClients
  OBVIOUS
<1>1. Init => BoundInv
  <2> SUFFICES ASSUME Init PROVE BoundInv
    OBVIOUS
  <2>1. Running = {} /\ Starting = {}
    BY DEF Init, Running, Starting
  <2>2. IsFiniteSet(Running) /\ Cardinality(Running) = 0 /\ Cardinality(Starting) = 0
    BY <2>1, FS_EmptySet
  <2>3. Cardinality(Clients) \in Nat
    BY ClientsAssumption, FS_CardinalityType
  <2>4. NeverForced
    BY DEF Init, NeverForced
  <2>5. QED
    BY <2>2, <2>3, <2>4, InitTypeOK DEF BoundInv, ThreadsBoundedByClients
<1>2. BoundInv /\ [Next]_vars => BoundInv'
  <2> SUFFICES ASSUME BoundInv, [Next]_vars PROVE BoundInv'
    OBVIOUS
  <2>0. TypeOK'
    BY StepTypeOK DEF BoundInv
  <2>1. CASE \E t \in Threads : ThreadStep(t)
    BY <2>0, <2>1, ThreadStepKeepsBound
  <2>2. CASE \E c \in Clients : ClientStep(c)
    BY <2>0, <2>2, ClientStepKeepsBound
  <2>3. CASE \E c \in Clients, o \in Ops : Call(c, o)
    <3>1. PICK c \in Clients, o \in Ops : Call(c, o)
      BY <2>3
    <3>2. Entry(o) # "start" /\ o # "discover"
      BY OpsAssumption DEF Entry, AllOps
    <3>3. Starting' \subseteq Starting /\ NeverForced'
      BY <3>1, <3>2
      DEF Call, Goto, Starting, NeverForced, BoundInv, TypeOK
    <3>4. Running' \subseteq Running
      BY <3>1 DEF Call, Running, threadVars
    <3>5. QED
      BY <2>0, <3>3, <3>4, ShrinkingKeepsBound
  <2>4. CASE \/ \E t \in Threads : BreakStream(t)
             \/ OtherConnect \/ OtherRemoveStub
             \/ OtherCloseStub \/ OtherForgetStub \/ UNCHANGED vars
    <3>1. tpc' = tpc /\ cpc' = cpc /\ op' = op
      BY <2>4 DEF BreakStream, OtherConnect, OtherRemoveStub, OtherCloseStub,
                  OtherForgetStub, vars, clientVars, threadVars
    <3>2. /\ Running' \subseteq Running
          /\ Starting' \subseteq Starting
          /\ NeverForced'
      BY <3>1 DEF Running, Starting, NeverForced, BoundInv
    <3>3. QED
      BY <2>0, <3>2, ShrinkingKeepsBound
  <2>5. QED
    BY <2>1, <2>2, <2>3, <2>4 DEF Next
<1>3. BoundInv => ThreadsBoundedByClients
  BY DEF BoundInv
<1>4. QED
  BY <1>1, <1>2, <1>3, PTL DEF Spec

-----------------------------------------------------------------------------
(* CancelledBeforeReplaced.  What makes it hold is that a stream object    *)
(* which the registry or a client still refers to is past its opening: no  *)
(* step opens it again, and no thread is started for it.                   *)

(* The thread has registered its stream, or has ended.                     *)
Opened == {t \in Threads : tpc[t] \in {"initial", "syncing", "streaming", "dead"}}

CancelInv ==
    /\ TypeOK
    \* what is registered or looked up can only end
    /\ registry # NoSub => registry \in Opened
    /\ \A c \in Clients : sub[c] # NoSub => sub[c] \in Opened
    \* a client looks up one subscription in a call, after its first steps
    /\ \A c \in Clients :
           cpc[c] \in {"idle", "pop", "lookup", "close", "remove"} => sub[c] = NoSub
    \* a forced start does not come from the check of the running threads
    /\ \A c \in Clients : cpc[c] = "check" => op[c] # "discover"
    \* what has been cancelled delivers nothing
    /\ \A c \in Clients : cpc[c] = "wait" /\ sub[c] # NoSub => sub[c] \notin alive
    /\ CancelledBeforeReplaced

(* A step that changes no client and registers nothing, opens no stream    *)
(* that is past its opening and leaves the dead dead.                      *)
LEMMA ClientsUntouchedKeepCancelled ==
    ASSUME CancelInv, TypeOK', UNCHANGED clientVars,
           registry' # NoSub => registry' \in Opened',
           \A t \in Opened : /\ t \in Opened'
                             /\ t \notin alive => t \notin alive'
                             /\ tpc[t] = "dead" => tpc'[t] = "dead"
    PROVE  CancelInv'
<1>1. cpc' = cpc /\ op' = op /\ sub' = sub /\ tries' = tries
  BY DEF clientVars
<1>2. QED
  BY <1>1 DEF CancelInv, CancelledBeforeReplaced

LEMMA ThreadStepKeepsCancelled ==
    ASSUME CancelInv, TypeOK', NEW t \in Threads, ThreadStep(t)
    PROVE  CancelInv'
<1> USE DEF Step, Die
<1>1. UNCHANGED clientVars
  BY DEF ThreadStep, FindStub, Unreachable, RereadStub, Connect, OpenStream,
         OpenStreamFails, Register, RegisterNone, ReceiveSync, RecordSync,
         EndOfStream
<1>2. ASSUME NEW u \in Opened
      PROVE  /\ u \in Opened'
             /\ u \notin alive => u \notin alive'
             /\ tpc[u] = "dead" => tpc'[u] = "dead"
  BY <1>2
  DEF ThreadStep, FindStub, Unreachable, RereadStub, Connect, OpenStream,
      OpenStreamFails, Register, RegisterNone, ReceiveSync, RecordSync,
      EndOfStream, Opened, CancelInv, TypeOK
<1>3. registry' # NoSub => registry' \in Opened'
  <2>1. CASE Register(t)
    BY <2>1 DEF Register, Opened, CancelInv, TypeOK
  <2>2. CASE RegisterNone(t)
    BY <2>2 DEF RegisterNone
  <2>3. CASE ~Register(t) /\ ~RegisterNone(t)
    <3>1. registry' = registry
      BY <2>3 DEF ThreadStep, FindStub, Unreachable, RereadStub, Connect,
                  OpenStream, OpenStreamFails, ReceiveSync, RecordSync,
                  EndOfStream
    <3>2. QED
      BY <3>1, <1>2 DEF CancelInv
  <2>4. QED
    BY <2>1, <2>2, <2>3
<1>4. QED
  BY <1>1, <1>2, <1>3, ClientsUntouchedKeepCancelled

(* The steps of a client that are about the subscription it has looked up, *)
(* each on its own, and then the others.                                   *)
LEMMA ClientStepKeepsCancelled ==
    ASSUME CancelInv, TypeOK', NEW c \in Clients, ClientStep(c)
    PROVE  CancelInv'
<1> USE DEF CancelInv, CancelledBeforeReplaced, Goto, Return, Opened
<1>1. CASE LookupSubscription(c)
  BY <1>1 DEF LookupSubscription, threadVars, TypeOK
<1>2. CASE CancelSubscription(c)
  BY <1>2 DEF CancelSubscription, TypeOK
<1>3. CASE ForceOn(c)
  <2>1. /\ registry' = registry /\ tpc' = tpc /\ alive' = alive
        /\ op' = op /\ sub' = sub /\ tries' = tries
        /\ cpc' = [cpc EXCEPT ![c] = "start"]
    BY <1>3 DEF ForceOn, threadVars
  <2>2. sub[c] # NoSub => /\ sub[c] \notin alive
                          /\ tpc[sub[c]] = "dead" \/ tries[c] = 0
    BY <1>3 DEF ForceOn, UnsubscribeOver, Running
  <2>3. QED
    BY <2>1, <2>2 DEF TypeOK
<1>4. CASE StartThread(c)
  <2>1. PICK t \in Threads : Startable(t) /\ tpc' = [tpc EXCEPT ![t] = "start"]
    BY <1>4 DEF StartThread
  <2>2. t # registry /\ \A d \in Clients : sub[d] # t
    BY <2>1 DEF Startable
  <2>3. /\ registry' = registry /\ alive' = alive
        /\ op' = op /\ sub' = sub /\ tries' = tries
        /\ cpc' = [cpc EXCEPT ![c] = "confirm"]
    BY <1>4 DEF StartThread, Goto
  <2>4. QED
    BY <2>1, <2>2, <2>3 DEF TypeOK
<1>5. CASE CloseChannel(c) \/ RemoveStub(c)
  BY <1>5 DEF CloseChannel, RemoveStub, TypeOK
<1>6. CASE PopSync(c) \/ PollThread(c) \/ PollSync(c) \/ PassGate(c)
  BY <1>6 DEF PopSync, PollThread, PollSync, PassGate, threadVars, TypeOK
<1>7. CASE NotSubscribed(c) \/ EnableInterfaces(c)
  BY <1>7 DEF NotSubscribed, EnableInterfaces, threadVars, TypeOK
<1>8. CASE AlreadySubscribed(c)
  BY <1>8 DEF AlreadySubscribed, threadVars, TypeOK
<1>9. CASE ConfirmThread(c)
  BY <1>9 DEF ConfirmThread, threadVars, TypeOK
<1>10. CASE \/ FinishUnsubscribe(c) \/ StartThreadFails(c) \/ RefuseConfig(c)
            \/ ApplyConfig(c) \/ CloseChannelFails(c)
  BY <1>10 DEF FinishUnsubscribe, StartThreadFails, RefuseConfig, ApplyConfig,
               CloseChannelFails, threadVars, TypeOK
<1>11. QED
  BY <1>1, <1>2, <1>3, <1>4, <1>5, <1>6, <1>7, <1>8, <1>9, <1>10 DEF ClientStep

(* For any number of clients, however their calls, the streams' ends and   *)
(* the channel's replacement interleave: the subscription that a forced    *)
(* resubscription has cancelled delivers nothing any more when the new     *)
(* thread is started, and its thread has ended unless the polls ran out.   *)
THEOREM CancelComesFirst == Spec => []CancelledBeforeReplaced
<1>1. Init => CancelInv
  <2> SUFFICES ASSUME Init PROVE CancelInv
    OBVIOUS
  <2>1. TypeOK
    BY InitTypeOK
  <2>2. registry = NoSub /\ \A c \in Clients : sub[c] = NoSub /\ cpc[c] = "idle"
    BY DEF Init
  <2>3. QED
    BY <2>1, <2>2 DEF CancelInv, CancelledBeforeReplaced
<1>2. CancelInv /\ [Next]_vars => CancelInv'
  <2> SUFFICES ASSUME CancelInv, [Next]_vars PROVE CancelInv'
    OBVIOUS
  <2>0. TypeOK'
    BY StepTypeOK DEF CancelInv
  <2>1. CASE \E t \in Threads : ThreadStep(t)
    BY <2>0, <2>1, ThreadStepKeepsCancelled
  <2>2. CASE \E c \in Clients : ClientStep(c)
    BY <2>0, <2>2, ClientStepKeepsCancelled
  <2>3. CASE \E c \in Clients, o \in Ops : Call(c, o)
    <3>1. PICK c \in Clients, o \in Ops : Call(c, o)
      BY <2>3
    <3>2. Entry(o) \in {"check", "pop", "close"} /\ (Entry(o) = "check" => o # "discover")
      BY OpsAssumption DEF Entry, AllOps
    <3>3. QED
      BY <2>0, <3>1, <3>2 DEF Call, Goto, threadVars, Opened, CancelInv,
                              CancelledBeforeReplaced, TypeOK
  <2>4. CASE \/ \E t \in Threads : BreakStream(t)
             \/ OtherConnect \/ OtherRemoveStub
             \/ OtherCloseStub \/ OtherForgetStub \/ UNCHANGED vars
    <3>1. /\ UNCHANGED clientVars /\ registry' = registry /\ tpc' = tpc
          /\ alive' \subseteq alive
      BY <2>4 DEF BreakStream, OtherConnect, OtherRemoveStub, OtherCloseStub,
                  OtherForgetStub, vars, clientVars, threadVars
    <3>2. Opened' = Opened
      BY <3>1 DEF Opened
    <3>3. QED
      BY <2>0, <3>1, <3>2, ClientsUntouchedKeepCancelled DEF CancelInv
  <2>5. QED
    BY <2>1, <2>2, <2>3, <2>4 DEF Next
<1>3. QED
  BY <1>1, <1>2, PTL DEF Spec, CancelInv

-----------------------------------------------------------------------------
(* AppliedOnlyWhenSubscribed, for the calls that only subscribe and        *)
(* configure on a device that does not fail.  Then nobody closes a channel *)
(* or cancels a stream, so that a thread's stream stays alive from its     *)
(* opening on; the flag is on only by a thread that goes on streaming, and *)
(* nobody takes it back.                                                   *)

GateInv ==
    /\ TypeOK
    \* no channel that is in use is closed, and no thread finds its stub gone
    /\ stub \in open \cup {NoChan}
    /\ \A t \in Threads : tpc[t] # "nostub"
    /\ \A t \in Threads : tpc[t] = "reread" => stub # NoChan
    /\ \A t \in Threads : tpc[t] = "stubbed" => chan[t] \in open
    \* a stream once opened delivers
    /\ \A t \in Threads :
           tpc[t] \in {"opened", "initial", "syncing", "streaming"} => t \in alive
    \* behind the flag is a stream whose sync response was seen
    /\ flag => \E t \in alive : tpc[t] = "streaming"
    \* no client is in a call that unsubscribes or closes
    /\ \A c \in Clients : op[c] \in {"none", "config", "subscribe"}
    /\ \A c \in Clients :
           cpc[c] \in {"idle", "check", "start", "confirm", "gate", "apply"}
    /\ \A c \in Clients : cpc[c] = "apply" => flag

LEMMA ThreadStepKeepsGate ==
    ASSUME GateInv, TypeOK', ~Faulty, NEW t \in Threads, ThreadStep(t)
    PROVE  GateInv'
<1> USE DEF GateInv, TypeOK, Step, Die, clientVars
<1>1. CASE FindStub(t) \/ RereadStub(t)
  BY <1>1 DEF FindStub, RereadStub
<1>2. CASE Connect(t)
  <2>1. PICK k \in NewChannels :
            stub' = k /\ open' = open \cup {k} /\ chan' = [chan EXCEPT ![t] = k]
    BY <1>2 DEF Connect
  <2>2. k # NoChan
    BY <2>1, ChannelsAssumption DEF NewChannels
  <2>3. /\ tpc[t] = "connecting" /\ tpc' = [tpc EXCEPT ![t] = "stubbed"]
        /\ flag' = flag /\ alive' = alive /\ cpc' = cpc /\ op' = op
    BY <1>2 DEF Connect
  <2>4. QED
    BY <2>1, <2>2, <2>3
<1>3. CASE OpenStream(t) \/ Register(t)
  BY <1>3 DEF OpenStream, Register
<1>4. CASE ReceiveSync(t) \/ RecordSync(t)
  BY <1>4 DEF ReceiveSync, RecordSync
<1>5. ~Unreachable(t) /\ ~OpenStreamFails(t) /\ ~RegisterNone(t) /\ ~EndOfStream(t)
  BY DEF Unreachable, OpenStreamFails, RegisterNone, EndOfStream
<1>6. QED
  BY <1>1, <1>2, <1>3, <1>4, <1>5 DEF ThreadStep

(* A client starts threads, and that is all it does to them.               *)
LEMMA ClientStepKeepsGate ==
    ASSUME GateInv, TypeOK', NEW c \in Clients, ClientStep(c)
    PROVE  GateInv'
<1> USE DEF GateInv, TypeOK, Goto, Return, channelVars
<1>1. CASE StartThread(c)
  <2>1. PICK t \in Threads : Startable(t) /\ tpc' = [tpc EXCEPT ![t] = "start"]
    BY <1>1 DEF StartThread
  <2>2. tpc[t] = "dead"
    BY <2>1 DEF Startable
  <2>3. /\ UNCHANGED <<flag, registry, channelVars, chan, alive, op>>
        /\ cpc' = [cpc EXCEPT ![c] = "confirm"]
    BY <1>1 DEF StartThread
  <2>4. QED
    BY <2>1, <2>2, <2>3
<1>2. CASE AlreadySubscribed(c) \/ NotSubscribed(c) \/ ConfirmThread(c)
  BY <1>2 DEF AlreadySubscribed, NotSubscribed, ConfirmThread, threadVars
<1>3. CASE PassGate(c) \/ RefuseConfig(c) \/ ApplyConfig(c) \/ StartThreadFails(c)
  BY <1>3 DEF PassGate, RefuseConfig, ApplyConfig, StartThreadFails, threadVars
<1>4. CASE \/ PopSync(c) \/ LookupSubscription(c) \/ CancelSubscription(c)
           \/ PollThread(c) \/ FinishUnsubscribe(c) \/ ForceOn(c)
           \/ PollSync(c) \/ EnableInterfaces(c)
           \/ CloseChannel(c) \/ CloseChannelFails(c) \/ RemoveStub(c)
  BY <1>4 DEF PopSync, LookupSubscription, CancelSubscription, PollThread,
              FinishUnsubscribe, ForceOn, UnsubscribeOver, PollSync,
              EnableInterfaces, CloseChannel, CloseChannelFails, RemoveStub
<1>5. QED
  BY <1>1, <1>2, <1>3, <1>4 DEF ClientStep

(* On a device that stays reachable, and while nobody unsubscribes it or   *)
(* closes its channel, any number of clients that subscribe and configure  *)
(* at the same time run a configuration function only while a stream is    *)
(* open on which the sync response has been received.                      *)
THEOREM GateHolds ==
    ~Faulty /\ Ops \subseteq {"config", "subscribe"}
        => (Spec => []AppliedOnlyWhenSubscribed)
<1> SUFFICES ASSUME ~Faulty, Ops \subseteq {"config", "subscribe"}
             PROVE  Spec => []AppliedOnlyWhenSubscribed
  OBVIOUS
<1>1. Init => GateInv
  <2> SUFFICES ASSUME Init PROVE GateInv
    OBVIOUS
  <2>1. TypeOK
    BY InitTypeOK
  <2>2. QED
    BY <2>1 DEF Init, GateInv
<1>2. GateInv /\ [Next]_vars => GateInv'
  <2> SUFFICES ASSUME GateInv, [Next]_vars PROVE GateInv'
    OBVIOUS
  <2>0. TypeOK'
    BY StepTypeOK DEF GateInv
  <2>1. CASE \E t \in Threads : ThreadStep(t)
    BY <2>0, <2>1, ThreadStepKeepsGate
  <2>2. CASE \E c \in Clients : ClientStep(c)
    BY <2>0, <2>2, ClientStepKeepsGate
  <2>3. CASE OtherConnect
    <3>1. stub' \in open' /\ stub' # NoChan /\ open \subseteq open'
      BY <2>3, ChannelsAssumption DEF OtherConnect, NewChannels
    <3>2. UNCHANGED <<flag, threadVars, cpc, op>>
      BY <2>3 DEF OtherConnect, clientVars
    <3>3. QED
      BY <2>0, <3>1, <3>2 DEF GateInv, threadVars
  <2>4. CASE \E c \in Clients, o \in Ops : Call(c, o)
    <3>1. PICK c \in Clients, o \in Ops : Call(c, o)
      BY <2>4
    <3>2. o \in {"config", "subscribe"} /\ Entry(o) = "check"
      BY DEF Entry
    <3>3. QED
      BY <2>0, <3>1, <3>2 DEF Call, Goto, channelVars, threadVars, GateInv, TypeOK
  <2>5. /\ ~OtherRemoveStub /\ ~OtherCloseStub /\ ~OtherForgetStub
        /\ ~\E t \in Threads : BreakStream(t)
    BY DEF OtherRemoveStub, OtherCloseStub, OtherForgetStub, BreakStream
  <2>6. CASE UNCHANGED vars
    BY <2>0, <2>6 DEF vars, GateInv
  <2>7. QED
    BY <2>1, <2>2, <2>3, <2>4, <2>5, <2>6 DEF Next
<1>3. GateInv => AppliedOnlyWhenSubscribed
  BY DEF GateInv, AppliedOnlyWhenSubscribed
<1>4. QED
  BY <1>1, <1>2, <1>3, PTL DEF Spec

=============================================================================
