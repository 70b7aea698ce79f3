---------------------------- MODULE GnmiRpcProofs ---------------------------
(***************************************************************************)
(* Theorems about GnmiRpc, for every set of threads and channels; the last *)
(* is that it implements Delivery.                                         *)
(***************************************************************************)
EXTENDS GnmiRpc, TLAPS

(* What an attempt leaves behind.  A popped stub and a failed channel are  *)
(* never cached again: the cache only ever takes new channels.  The counts *)
(* of applied go with the attempt the call is in.                          *)
AttemptInv ==
    \A c \in Clients :
        /\ pc[c] = "shut" => mine[c] = NoChan \/ mine[c] # stub
        /\ pc[c] \in {"pop", "shut"} => ~resent[c] /\ failed[c] # NoChan
        /\ pc[c] = "shut" \/ resent[c] =>
               /\ failed[c] # NoChan
               /\ stub # failed[c]
        /\ resent[c] /\ pc[c] \in {"issue", "sent", "executed"}
               => mine[c] = NoChan \/ mine[c] # failed[c]
        /\ pc[c] \in {"issue", "sent"} => mine[c] = NoChan \/ mine[c] \in Channels
        /\ pc[c] \in {"sent", "executed"} => mine[c] # NoChan
        /\ ~resent[c] => applied[c] <= 1
        /\ pc[c] \in {"start", "reread", "connecting", "issue", "sent"} =>
               applied[c] <= IF resent[c] THEN 1 ELSE 0

RpcInv == TypeOK /\ AttemptInv /\ CachedStubUsable

LEMMA InitRpcInv == Init => RpcInv
<1>1. Init => TypeOK
  <2> SUFFICES ASSUME Init PROVE TypeOK
    OBVIOUS
  <2>1. left \in BOOLEAN /\ resent \in [Clients -> BOOLEAN]
    BY Zenon DEF Init
  <2>2. QED
    BY <2>1 DEF Init, TypeOK, PC, Errors
<1>2. Init => AttemptInv
  BY DEF Init, AttemptInv
<1>3. Init => CachedStubUsable
  BY DEF Init, CachedStubUsable
<1>4. QED
  BY <1>1, <1>2, <1>3 DEF RpcInv

(* The types and the bookkeeping of the attempts, action by action.        *)
LEMMA StepAttemptInv ==
    ASSUME TypeOK, AttemptInv, [Next]_vars PROVE TypeOK' /\ AttemptInv'
<1> USE DEF TypeOK, AttemptInv, PC, Errors, cache, history, Goto, Return, InFlight
<1>1. CASE \E c \in Clients : Send(c)
  BY <1>1 DEF Send
<1>2. CASE \E c \in Clients : CloseAll(c)
  BY <1>2 DEF CloseAll
<1>3. ASSUME NEW c \in Clients, ClientStep(c) PROVE TypeOK' /\ AttemptInv'
  <2>1. CASE FindStub(c)
    BY <2>1 DEF FindStub
  <2>2. CASE Unreachable(c)
    BY <2>2 DEF Unreachable
  <2>3. CASE RereadStub(c)
    BY <2>3 DEF RereadStub
  <2>4. CASE Connect(c)
    BY <2>4, ChannelsAssumption DEF Connect, NewChannels
  <2>5. CASE NothingSent(c)
    BY <2>5 DEF NothingSent
  <2>6. CASE IssueOnClosed(c)
    BY <2>6 DEF IssueOnClosed
  <2>7. CASE Issue(c)
    BY <2>7, ChannelsAssumption DEF Issue
  <2>8. CASE Execute(c)
    BY <2>8 DEF Execute
  <2>9. CASE Answer(c)
    BY <2>9 DEF Answer
  <2>10. CASE Unavailable(c)
    BY <2>10 DEF Unavailable
  <2>11. CASE UnavailableAgain(c)
    BY <2>11 DEF UnavailableAgain
  <2>12. CASE RpcError(c)
    BY <2>12 DEF RpcError
  <2>13. CASE Cancelled(c)
    BY <2>13 DEF Cancelled
  <2>14. CASE PopStub(c)
    BY <2>14, ChannelsAssumption DEF PopStub
  <2>15. CASE CloseAndResend(c)
    BY <2>15 DEF CloseAndResend
  <2>16. CASE CloseCached(c)
    BY <2>16 DEF CloseCached
  <2>17. CASE NextStub(c)
    BY <2>17 DEF NextStub
  <2>18. CASE ClearStubs(c)
    BY <2>18, ChannelsAssumption DEF ClearStubs
  <2>19. CASE LoopRaises(c)
    BY <2>19 DEF LoopRaises
  <2>20. QED
    BY <1>3, <2>1, <2>2, <2>3, <2>4, <2>5, <2>6, <2>7, <2>8, <2>9, <2>10,
       <2>11, <2>12, <2>13, <2>14, <2>15, <2>16, <2>17, <2>18, <2>19
    DEF ClientStep
<1>4. CASE UNCHANGED vars
  BY <1>4 DEF vars
<1>5. QED
  BY <1>1, <1>2, <1>3, <1>4 DEF Next

(* The cached stub becomes a closed one only by the close after a pop and  *)
(* by the close of close_all_stubs; the exception ends when its loop ends, *)
(* or raises, and when it clears the cache.                                *)
LEMMA StepCachedStubUsable ==
    ASSUME RpcInv, [Next]_vars PROVE CachedStubUsable'
<1> USE DEF RpcInv, TypeOK, CachedStubUsable, cache, Goto, Return
<1>1. CASE \E c \in Clients : CloseAndResend(c)
  BY <1>1 DEF CloseAndResend, AttemptInv
<1>2. CASE \E c \in Clients : CloseCached(c)
  BY <1>2 DEF CloseCached
<1>3. CASE \E c \in Clients : NextStub(c)
  BY <1>3 DEF NextStub
<1>4. CASE \E c \in Clients : LoopRaises(c)
  BY <1>4 DEF LoopRaises
<1>5. CASE \E c \in Clients : ClearStubs(c) \/ PopStub(c)
  BY <1>5 DEF ClearStubs, PopStub
<1>6. CASE \E c \in Clients : Connect(c)
  BY <1>6 DEF Connect
<1>7. CASE \E c \in Clients :
              \/ Send(c) \/ CloseAll(c)
              \/ FindStub(c) \/ Unreachable(c) \/ RereadStub(c)
              \/ NothingSent(c) \/ IssueOnClosed(c) \/ Issue(c) \/ Execute(c)
              \/ Answer(c) \/ Unavailable(c) \/ UnavailableAgain(c)
              \/ RpcError(c) \/ Cancelled(c)
  <2>1. PICK c \in Clients :
            /\ pc[c] \notin {"iterate", "clear"}
            /\ \A d \in Clients \ {c} : pc'[d] = pc[d] /\ mine'[d] = mine[d]
            /\ UNCHANGED <<stub, open, left>>
    BY <1>7
    DEF Send, CloseAll, FindStub, Unreachable, RereadStub, NothingSent,
        IssueOnClosed, Issue, Execute, Answer, Unavailable, UnavailableAgain,
        RpcError, Cancelled, InFlight
  <2>2. QED
    BY <2>1
<1>8. CASE UNCHANGED vars
  BY <1>8 DEF vars
<1>9. QED
  BY <1>1, <1>2, <1>3, <1>4, <1>5, <1>6, <1>7, <1>8 DEF Next, ClientStep

LEMMA RpcInvariance == Spec => []RpcInv
<1>1. RpcInv /\ [Next]_vars => RpcInv'
  BY StepAttemptInv, StepCachedStubUsable DEF RpcInv
<1>2. QED
  BY <1>1, InitRpcInv, PTL DEF Spec

(* The state of the request layer is well-typed throughout; in particular  *)
(* no request is executed more than twice.                                 *)
THEOREM RpcTypeCorrect == Spec => []TypeOK
BY RpcInvariance, PTL DEF RpcInv

(* Any number of threads may remove and replace each other's stubs: the    *)
(* resend of a request still never uses the channel that failed it.        *)
THEOREM ResendsAreFresh == Spec => []ResendOnFreshChannel
<1>1. RpcInv => ResendOnFreshChannel
  BY DEF RpcInv, AttemptInv, ResendOnFreshChannel
<1>2. QED
  BY <1>1, RpcInvariance, PTL

(* The device executes the request of one call a second time only in the   *)
(* resend after an UNAVAILABLE.                                            *)
THEOREM ExecutionsBounded == Spec => []ExecutedTwiceOnlyByResend
<1>1. RpcInv => ExecutedTwiceOnlyByResend
  BY DEF RpcInv, TypeOK, AttemptInv, ExecutedTwiceOnlyByResend
<1>2. QED
  BY <1>1, RpcInvariance, PTL

(* The cache offers a closed channel only to requests that run while the   *)
(* close_all_stubs does that closed it, and after one that raised, whatever *)
(* the threads do to the entries of this and of other devices.             *)
THEOREM CacheStaysUsable == Spec => []CachedStubUsable
BY RpcInvariance, PTL DEF RpcInv

(* What a thread that is alone knows: nobody removes the stub between its  *)
(* two reads.                                                              *)
SoloInv ==
    \A c \in Clients :
        /\ pc[c] = "reread" => stub # NoChan
        /\ pc[c] = "issue" => mine[c] # NoChan
        /\ pc[c] = "executed" \/ outcome[c] = "ok" => applied[c] >= 1

Solo == \A c, d \in Clients : c = d

LEMMA StepSoloInv ==
    ASSUME Solo, TypeOK, SoloInv, [Next]_vars PROVE SoloInv'
<1> USE DEF Solo, SoloInv, TypeOK, PC, Errors, cache, history, Goto, Return, InFlight
<1>1. CASE \E c \in Clients : Send(c) \/ CloseAll(c)
  BY <1>1 DEF Send, CloseAll
<1>2. CASE \E c \in Clients : FindStub(c) \/ Unreachable(c) \/ RereadStub(c)
  BY <1>2 DEF FindStub, Unreachable, RereadStub
<1>3. CASE \E c \in Clients : Connect(c)
  BY <1>3, ChannelsAssumption DEF Connect, NewChannels
<1>4. CASE \E c \in Clients : NothingSent(c) \/ IssueOnClosed(c) \/ Issue(c)
  BY <1>4 DEF NothingSent, IssueOnClosed, Issue
<1>5. CASE \E c \in Clients : Execute(c) \/ Answer(c)
  BY <1>5 DEF Execute, Answer
<1>6. CASE \E c \in Clients : Unavailable(c) \/ UnavailableAgain(c) \/ RpcError(c) \/ Cancelled(c)
  BY <1>6 DEF Unavailable, UnavailableAgain, RpcError, Cancelled
<1>7. CASE \E c \in Clients : PopStub(c) \/ CloseAndResend(c)
  BY <1>7 DEF PopStub, CloseAndResend
<1>8. CASE \E c \in Clients : CloseCached(c) \/ NextStub(c) \/ LoopRaises(c) \/ ClearStubs(c)
  BY <1>8 DEF CloseCached, NextStub, LoopRaises, ClearStubs
<1>9. CASE UNCHANGED vars
  BY <1>9 DEF vars
<1>10. QED
  BY <1>1, <1>2, <1>3, <1>4, <1>5, <1>6, <1>7, <1>8, <1>9 DEF Next, ClientStep

(* getGrpcStubs returns no stub only when another thread has removed it    *)
(* between the two reads: for a thread that is alone, a request whose call *)
(* returns has been executed by the device, also when it was sent again.   *)
THEOREM OneThreadLosesNothing ==
    ASSUME Solo PROVE Spec => []SuccessMeansApplied
<1>1. Init => SoloInv
  BY DEF Init, SoloInv
<1>2. TypeOK /\ SoloInv /\ [Next]_vars => SoloInv'
  BY StepSoloInv
<1>3. SoloInv => SuccessMeansApplied
  BY DEF SoloInv, SuccessMeansApplied
<1>4. QED
  BY <1>1, <1>2, <1>3, RpcTypeCorrect, PTL DEF Spec

-----------------------------------------------------------------------------
(* GnmiRpc implements Delivery.                                            *)

(* Of a thread that is alone nobody takes the stub away between its two    *)
(* reads of the cache; and if nobody uses other devices either, its loop   *)
(* does not raise and no request finds a closed channel.                   *)
Undisturbed ==
    \A c \in Clients : Clients = {c} =>
        /\ pc[c] = "reread" => stub # NoChan
        /\ pc[c] = "issue" => mine[c] # NoChan
        /\ pc[c] = "iterate" => mine[c] = stub
        /\ ~OtherDevices =>
               /\ ~left
               /\ pc[c] \in {"issue", "sent", "executed"} => mine[c] \in open

LEMMA InitUndisturbed == Init => Undisturbed
BY DEF Init, Undisturbed

LEMMA StepUndisturbed ==
    ASSUME RpcInv, Undisturbed, [Next]_vars PROVE Undisturbed'
<1> SUFFICES ASSUME NEW c \in Clients, Clients = {c}
             PROVE  /\ pc'[c] = "reread" => stub' # NoChan
                    /\ pc'[c] = "issue" => mine'[c] # NoChan
                    /\ pc'[c] = "iterate" => mine'[c] = stub'
                    /\ ~OtherDevices =>
                           /\ ~left'
                           /\ pc'[c] \in {"issue", "sent", "executed"} => mine'[c] \in open'
  BY DEF Undisturbed
<1>1. /\ pc[c] = "reread" => stub # NoChan
      /\ pc[c] = "issue" => mine[c] # NoChan
      /\ pc[c] = "iterate" => mine[c] = stub
      /\ ~OtherDevices =>
             /\ ~left
             /\ pc[c] \in {"issue", "sent", "executed"} => mine[c] \in open
  BY DEF Undisturbed
<1>2. pc[c] = "reread" /\ ~OtherDevices => stub \in open
  BY <1>1 DEF RpcInv, CachedStubUsable
<1> USE DEF RpcInv, TypeOK, cache, history, Goto, Return, InFlight
<1>3. CASE Send(c) \/ CloseAll(c)
  BY <1>1, <1>3 DEF Send, CloseAll
<1>4. CASE FindStub(c) \/ Unreachable(c) \/ RereadStub(c)
  BY <1>1, <1>2, <1>4 DEF FindStub, Unreachable, RereadStub
<1>5. CASE Connect(c)
  BY <1>5, ChannelsAssumption DEF Connect, NewChannels
<1>6. CASE NothingSent(c) \/ IssueOnClosed(c) \/ Issue(c) \/ Execute(c) \/ Answer(c)
  BY <1>1, <1>6 DEF NothingSent, IssueOnClosed, Issue, Execute, Answer
<1>7. CASE Unavailable(c) \/ UnavailableAgain(c) \/ RpcError(c) \/ Cancelled(c)
  BY <1>1, <1>7 DEF Unavailable, UnavailableAgain, RpcError, Cancelled
<1>8. CASE PopStub(c) \/ CloseAndResend(c)
  BY <1>1, <1>8 DEF PopStub, CloseAndResend
<1>9. CASE CloseCached(c) \/ NextStub(c) \/ LoopRaises(c) \/ ClearStubs(c)
  BY <1>1, <1>9 DEF CloseCached, NextStub, LoopRaises, ClearStubs
<1>10. CASE UNCHANGED vars
  BY <1>1, <1>10 DEF vars
<1>11. QED
  BY <1>3, <1>4, <1>5, <1>6, <1>7, <1>8, <1>9, <1>10 DEF Next, ClientStep

(* A step of thread c moves no other call.                                 *)
Stages == [c \in Clients |-> Stage(c)]

LEMMA OtherStages ==
    ASSUME NEW c \in Clients,
           \A k \in Clients \ {c} : pc'[k] = pc[k] /\ resent'[k] = resent[k]
    PROVE  Stages' = [Stages EXCEPT ![c] = Stage(c)']
<1>1. \A k \in Clients \ {c} : Stage(k)' = Stage(k)
  BY DEF Stage
<1> QED BY <1>1 DEF Stages

LEMMA StagesOf == \A c \in Clients : Stages[c] = Stage(c)
BY DEF Stages

LEMMA Ending ==
    ASSUME TypeOK, NEW c \in Clients, NEW o, Return(c, o), UNCHANGED <<resent, applied>>
    PROVE  Calls!End(c, o)
<1>1. pc'[c] = "idle" /\ \A k \in Clients \ {c} : pc'[k] = pc[k] /\ resent'[k] = resent[k]
  BY DEF Return, TypeOK
<1>2. Stage(c)' = "idle"
  BY <1>1 DEF Stage
<1> QED BY <1>1, <1>2, OtherStages DEF Return, Calls!End, Stages

LEMMA Moving ==
    ASSUME TypeOK, NEW c \in Clients, NEW from, NEW to, Goto(c, from, to),
           \A k \in Clients \ {c} : resent'[k] = resent[k]
    PROVE  Calls!Move(c, Stage(c), Stage(c)')
<1>1. \A k \in Clients \ {c} : pc'[k] = pc[k] /\ resent'[k] = resent[k]
  BY DEF Goto, TypeOK
<1> QED BY <1>1, OtherStages, StagesOf DEF Calls!Move, Stages

LEMMA Staying ==
    ASSUME TypeOK, NEW c \in Clients, NEW from, NEW to, Goto(c, from, to),
           UNCHANGED <<resent, outcome, applied>>, Stage(c)' = Stage(c)
    PROVE  UNCHANGED <<Stages, outcome, applied>>
<1>1. \A k \in Clients \ {c} : pc'[k] = pc[k] /\ resent'[k] = resent[k]
  BY DEF Goto, TypeOK
<1>2. \A k \in Clients : Stage(k)' = Stage(k)
  BY <1>1 DEF Stage
<1> QED BY <1>2 DEF Stages

(* What is a step of Delivery, and what is none.                           *)
LEMMA CallDelivers ==
    ASSUME TypeOK, NEW c \in Clients, Send(c) \/ CloseAll(c)
    PROVE  Calls!Call(c)
<1>1. CASE Send(c)
  <2>1. Stage(c) = "idle" /\ Stage(c)' = "trying"
    BY <1>1 DEF Send, Goto, Stage, TypeOK
  <2>2. Calls!Move(c, Stage(c), Stage(c)')
    BY <1>1, Moving DEF Send, TypeOK
  <2> QED BY <1>1, <2>1, <2>2 DEF Send, Calls!Call
<1>2. CASE CloseAll(c)
  <2>1. Stage(c) = "idle" /\ Stage(c)' = "closing"
    BY <1>2 DEF CloseAll, Goto, Stage, TypeOK
  <2>2. Calls!Move(c, Stage(c), Stage(c)')
    BY <1>2, Moving DEF CloseAll, TypeOK
  <2> QED BY <1>2, <2>1, <2>2 DEF CloseAll, Calls!Call
<1> QED BY <1>1, <1>2

LEMMA AttemptDelivers ==
    ASSUME RpcInv, NEW c \in Clients, Execute(c) \/ Unavailable(c) \/ CloseAndResend(c)
    PROVE  Calls!Execute(c) \/ Calls!Fail(c) \/ Calls!Retry(c)
<1>1. TypeOK
  BY DEF RpcInv
<1>2. CASE Execute(c)
  <2>1. Stage(c)' = IF Stage(c) = "retrying" THEN "reexecuted" ELSE "executed"
    BY <1>1, <1>2 DEF Execute, Goto, Stage, TypeOK
  <2>2. Stage(c) \in {"trying", "retrying"}
    BY <1>2 DEF Execute, Goto, Stage
  <2>3. Calls!Move(c, Stage(c), Stage(c)')
    BY <1>1, <1>2, Moving DEF Execute
  <2>4. Calls!Execute(c)
    BY <1>2, <2>1, <2>2, <2>3 DEF Execute, Calls!Execute
  <2> QED BY <2>4
<1>3. CASE Unavailable(c)
  <2>1. Stage(c) \in {"trying", "executed"} /\ Stage(c)' = "failed"
    BY <1>1, <1>3 DEF Unavailable, InFlight, Stage, TypeOK
  <2>2. Goto(c, pc[c], "pop")
    BY <1>3 DEF Unavailable, Goto
  <2>3. Calls!Move(c, Stage(c), Stage(c)')
    BY <1>1, <1>3, <2>2, Moving DEF Unavailable
  <2>4. Calls!Fail(c)
    BY <1>3, <2>1, <2>3 DEF Unavailable, Calls!Fail
  <2> QED BY <2>4
<1>4. CASE CloseAndResend(c)
  <2>1. Stage(c) = "failed" /\ Stage(c)' = "retrying"
    BY <1>1, <1>4 DEF CloseAndResend, Goto, Stage, TypeOK
  <2>2. Calls!Move(c, Stage(c), Stage(c)')
    BY <1>1, <1>4, Moving DEF CloseAndResend, TypeOK
  <2>3. Calls!Retry(c)
    BY <1>4, <2>1, <2>2 DEF CloseAndResend, history, Calls!Retry
  <2> QED BY <2>3
<1> QED BY <1>2, <1>3, <1>4

LEMMA EndDelivers ==
    ASSUME TypeOK, NEW c \in Clients,
           \/ Unreachable(c) \/ Answer(c) \/ UnavailableAgain(c) \/ RpcError(c) \/ ClearStubs(c)
    PROVE  Calls!Succeed(c) \/ Calls!Raise(c)
<1>1. CASE Answer(c) \/ ClearStubs(c)
  <2>1. \/ Stage(c) \in {"executed", "reexecuted"} /\ Return(c, "ok")
        \/ Stage(c) = "closing" /\ Return(c, "cleared")
    BY <1>1 DEF Answer, ClearStubs, Stage
  <2>2. UNCHANGED <<resent, applied>>
    BY <1>1 DEF Answer, ClearStubs, history
  <2>3. Calls!Succeed(c)
    BY <2>1, <2>2, Ending, StagesOf DEF Calls!Succeed, Stages
  <2> QED BY <2>3
<1>2. CASE Unreachable(c) \/ UnavailableAgain(c) \/ RpcError(c)
  <2>1. Stage(c) \in {"trying", "retrying", "executed", "reexecuted"}
    BY <1>2 DEF Unreachable, UnavailableAgain, RpcError, InFlight, Stage
  <2>2. PICK o \in {"unreachable", "unavailable", "rpcError"} : Return(c, o)
    BY <1>2 DEF Unreachable, UnavailableAgain, RpcError
  <2>3. UNCHANGED <<resent, applied>>
    BY <1>2 DEF Unreachable, UnavailableAgain, RpcError, history
  <2>4. Calls!End(c, o)
    BY <2>2, <2>3, Ending
  <2>5. Calls!Raise(c)
    BY <2>1, <2>4, StagesOf DEF Calls!Raise, Stages
  <2> QED BY <2>5
<1> QED BY <1>1, <1>2

(* What happens to a call only by the doing of others.                     *)
LEMMA OthersDisturb ==
    ASSUME RpcInv, Undisturbed, NEW c \in Clients,
           NothingSent(c) \/ IssueOnClosed(c) \/ Cancelled(c) \/ LoopRaises(c)
    PROVE  Calls!Lose(c) \/ Calls!Interrupt(c)
<1>1. TypeOK
  BY DEF RpcInv
<1>2. Clients # {c} \/ (OtherDevices /\ ~NothingSent(c))
  <2>1. SUFFICES ASSUME Clients = {c}, ~OtherDevices \/ NothingSent(c) PROVE FALSE
    OBVIOUS
  <2>2. /\ pc[c] = "issue" => mine[c] # NoChan
        /\ pc[c] = "iterate" => mine[c] = stub
        /\ ~OtherDevices /\ pc[c] \in {"issue", "sent", "executed"} => mine[c] \in open
    BY <2>1 DEF Undisturbed
  <2> QED BY <2>1, <2>2 DEF NothingSent, IssueOnClosed, Cancelled, LoopRaises, InFlight
<1>3. CASE NothingSent(c)
  <2>1. Stage(c) \in {"trying", "retrying"} /\ Return(c, "ok") /\ UNCHANGED <<resent, applied>>
    BY <1>3 DEF NothingSent, Stage, history
  <2>2. Calls!Lose(c)
    BY <1>1, <1>2, <1>3, <2>1, Ending, StagesOf DEF Calls!Lose, Calls!Others, Stages
  <2> QED BY <2>2
<1>4. CASE IssueOnClosed(c) \/ Cancelled(c) \/ LoopRaises(c)
  <2>1. Stage(c) \notin {"idle", "failed"} /\ UNCHANGED <<resent, applied>>
    BY <1>4 DEF IssueOnClosed, Cancelled, LoopRaises, InFlight, Stage, history
  <2>2. PICK o \in {"cancelled", "closed", "runtimeError"} : Return(c, o)
    BY <1>4 DEF IssueOnClosed, Cancelled, LoopRaises
  <2>3. Calls!End(c, o)
    BY <1>1, <2>1, <2>2, Ending
  <2>4. Calls!Interrupt(c)
    BY <1>2, <2>1, <2>3, StagesOf DEF Calls!Interrupt, Calls!Others, Stages
  <2> QED BY <2>4
<1> QED BY <1>3, <1>4

LEMMA CacheStutters ==
    ASSUME TypeOK, NEW c \in Clients,
           \/ FindStub(c) \/ RereadStub(c) \/ Connect(c) \/ Issue(c)
           \/ PopStub(c) \/ CloseCached(c) \/ NextStub(c)
    PROVE  UNCHANGED <<Stages, outcome, applied>>
<1>1. UNCHANGED <<resent, outcome, applied>>
  BY DEF FindStub, RereadStub, Connect, Issue, PopStub, CloseCached, NextStub, history
<1>2. PICK to : Goto(c, pc[c], to)
  BY DEF FindStub, RereadStub, Connect, Issue, PopStub, CloseCached, NextStub, Goto
<1>3. Stage(c)' = Stage(c)
  <2>1. \/ pc[c] \in {"start", "reread", "connecting", "issue", "sent"}
              /\ pc'[c] \in {"start", "reread", "connecting", "issue", "sent"}
        \/ pc[c] \in {"pop", "shut"} /\ pc'[c] \in {"pop", "shut"}
        \/ pc[c] \in {"closing", "iterate", "clear"} /\ pc'[c] \in {"closing", "iterate", "clear"}
    BY DEF FindStub, RereadStub, Connect, Issue, PopStub, CloseCached, NextStub, Goto, TypeOK
  <2> QED BY <1>1, <2>1 DEF Stage
<1> QED BY <1>1, <1>2, <1>3, Staying

(* For any threads and channels: the request layer keeps what Delivery     *)
(* promises.  A request is tried at most twice, the second time only when  *)
(* the first attempt found the device unavailable, and each attempt is     *)
(* executed at most once; a call that returns was executed in its last     *)
(* attempt, unless there are other threads; and no call is closed under,   *)
(* cancelled or broken off unless there are other threads, for this device *)
(* or for another.                                                         *)
THEOREM RpcImplementsDelivery == Spec => DeliverySpec
<1>1. Init => Calls!Init
  <2>1. Init => Stages = [c \in Clients |-> "idle"]
    BY DEF Init, Stages, Stage
  <2> QED BY <2>1 DEF Init, Calls!Init, Stages
<1>2. RpcInv /\ Undisturbed /\ [Next]_vars => [Calls!Next]_<<[c \in Clients |-> Stage(c)], outcome, applied>>
  <2> SUFFICES ASSUME RpcInv, Undisturbed, [Next]_vars
               PROVE  Calls!Next \/ UNCHANGED <<Stages, outcome, applied>>
    BY DEF Stages
  <2>1. CASE UNCHANGED vars
    BY <2>1 DEF vars, Stages, Stage
  <2>2. ASSUME NEW c \in Clients, Send(c) \/ CloseAll(c) \/ ClientStep(c)
        PROVE  Calls!Next \/ UNCHANGED <<Stages, outcome, applied>>
    <3>1. TypeOK
      BY DEF RpcInv
    <3>2. \/ Calls!Call(c) \/ Calls!Execute(c) \/ Calls!Fail(c) \/ Calls!Retry(c)
          \/ Calls!Succeed(c) \/ Calls!Raise(c) \/ Calls!Lose(c) \/ Calls!Interrupt(c)
          \/ UNCHANGED <<Stages, outcome, applied>>
      BY <2>2, <3>1, CallDelivers, AttemptDelivers, EndDelivers, OthersDisturb, CacheStutters
      DEF ClientStep
    <3> QED BY <3>2 DEF Calls!Next
  <2> QED BY <2>1, <2>2 DEF Next
<1>3. RpcInv /\ Undisturbed /\ [Next]_vars => Undisturbed'
  BY StepUndisturbed
<1> QED BY <1>1, <1>2, <1>3, InitUndisturbed, RpcInvariance, PTL DEF Spec, DeliverySpec, Calls!Spec
=============================================================================
