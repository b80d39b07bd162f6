-------------------------- MODULE RunBridgeProofs --------------------------
(***************************************************************************)
(* Proofs about RunBridge, for every set of runs, sessions, stream clients *)
(* and approvals.                                                          *)
(***************************************************************************)
EXTENDS RunBridge, TLAPS

\* Removing a waiter from a queue leaves a queue.
LEMMA WithoutType ==
  ASSUME NEW S, NEW q \in Seq(S), NEW actor
  PROVE  Without(q, actor) \in Seq(S)
<1>1. CASE \E i \in 1..Len(q) : q[i] = actor
  <2>1. PICK i \in 1..Len(q) : i = CHOOSE j \in 1..Len(q) : q[j] = actor
    BY <1>1
  <2>2. SubSeq(q, 1, i - 1) \in Seq(S) /\ SubSeq(q, i + 1, Len(q)) \in Seq(S)
    OBVIOUS
  <2> QED
    BY <1>1, <2>1, <2>2 DEF Without
<1>2. CASE ~ \E i \in 1..Len(q) : q[i] = actor
  BY <1>2 DEF Without
<1> QED
  BY <1>1, <1>2

\* The types of what the event loop shares: an event is appended with a wake-up.
LEMMA AppendEventType ==
  ASSUME TypeOK, NEW r \in Runs, NEW event \in EventTypes, AppendEvent(r, event)
  PROVE  /\ events' \in [Runs -> Seq(EventTypes)]
         /\ streamPc' \in [Streams -> StreamSteps]
         /\ streamRun' = streamRun
         /\ cursor' = cursor
BY DEF TypeOK, AppendEvent, NotifyAll, StreamSteps

LEMMA NotifyAllType ==
  ASSUME TypeOK, NEW r \in Runs, NotifyAll(r)
  PROVE  /\ streamPc' \in [Streams -> StreamSteps]
         /\ streamRun' = streamRun
         /\ cursor' = cursor
BY DEF TypeOK, NotifyAll, StreamSteps

\* finally: whatever is left of the queue, the task ends or waits in it.
LEMMA FinallyType ==
  ASSUME TypeOK, NEW r \in Runs, session[r] \in Sessions,
         NEW q \in Seq(Actors), Finally(r, q)
  PROVE  /\ active' \in [Sessions -> Runs \cup {NoRun}]
         /\ lock' \in [Runs -> Seq(Actors)]
         /\ runner' \in [Runs -> RunnerSteps]
<1>1. "runner" \in Actors
  BY DEF Actors
<1>2. Append(q, "runner") \in Seq(Actors)
  BY <1>1
<1> QED
  BY <1>2 DEF TypeOK, Finally, RunnerSteps

LEMMA EnqueueType ==
  ASSUME TypeOK, NEW r \in Runs, NEW actor \in Actors, Enqueue(r, actor)
  PROVE  lock' \in [Runs -> Seq(Actors)]
BY DEF TypeOK, Enqueue

LEMMA ReleaseType ==
  ASSUME TypeOK, NEW r \in Runs, NEW actor, Holds(r, actor), Release(r)
  PROVE  lock' \in [Runs -> Seq(Actors)]
BY DEF TypeOK, Release, Holds

LEMMA LoopTopType ==
  ASSUME TypeOK, NEW s \in Streams, streamRun[s] \in Runs,
         NEW q \in Seq(Actors), LoopTop(s, q)
  PROVE  /\ streamPc' \in [Streams -> StreamSteps]
         /\ lock' \in [Runs -> Seq(Actors)]
         /\ cursor' \in [Streams -> Nat]
<1>1. s \in Actors
  BY DEF Actors
<1>2. Append(q, s) \in Seq(Actors)
  BY <1>1
<1> DEFINE r == streamRun[s]
<1>3. \E pc \in {"yielded", "ended", "locking"} : streamPc' = [streamPc EXCEPT ![s] = pc]
  BY DEF LoopTop, StreamMoves
<1>4. \E p \in {q, Append(q, s)} : lock' = [lock EXCEPT ![r] = p]
  BY DEF LoopTop
<1>5. cursor' = cursor \/ cursor' = [cursor EXCEPT ![s] = @ + 1]
  BY DEF LoopTop
<1>6. streamPc' \in [Streams -> StreamSteps]
  BY <1>3 DEF TypeOK, StreamSteps
<1>0. lock \in [Runs -> Seq(Actors)] /\ cursor \in [Streams -> Nat] /\ r \in Runs
  BY DEF TypeOK
<1> HIDE DEF r
<1>7. lock' \in [Runs -> Seq(Actors)]
  BY <1>2, <1>4, <1>0
<1>8. cursor' \in [Streams -> Nat]
  BY <1>5, <1>0
<1> QED
  BY <1>6, <1>7, <1>8
-----------------------------------------------------------------------------
(* The strengthening of the type invariant.                                *)

RunningSteps == {"setup", "emitStarted", "awaiting", "closingOk", "closingError"}

\* Where the task is and what its run says of itself agree, and a run that
\* exists has a session; a stream that moves has a run.
StepsAgree ==
  /\ \A r \in Runs :
       /\ runner[r] \in RunningSteps <=> status[r] = "running"
       /\ runner[r] = "emitFailed" => status[r] = "failed"
       /\ runner[r] = "none" <=> status[r] = "none"
       /\ status[r] # "none" => session[r] \in Sessions
  /\ \A s \in Streams :
       streamPc[s] # "off" => streamRun[s] \in Runs /\ status[streamRun[s]] # "none"

TypeInv == TypeOK /\ StepsAgree

LEMMA InitTypeInv == Init => TypeInv
BY DEF Init, TypeInv, TypeOK, StepsAgree, Statuses, RunnerSteps, ApprovalSteps,
       StreamSteps, RunningSteps

(***************************************************************************)
(* Every step keeps the types.                                             *)
(***************************************************************************)
LEMMA AdapterStartedType ==
  ASSUME TypeInv, NEW r \in Runs, AdapterStarted(r)
  PROVE  TypeOK'
BY AppendEventType, EnqueueType DEF TypeInv, TypeOK, StepsAgree, AdapterStarted, Actors, EventTypes, RunnerSteps, RunningSteps, streamVars

LEMMA EmitStartedType ==
  ASSUME TypeInv, NEW r \in Runs, EmitStarted(r)
  PROVE  TypeOK'
BY AppendEventType, ReleaseType DEF TypeInv, TypeOK, StepsAgree, EmitStarted, EventTypes, RunnerSteps, RunningSteps

LEMMA TurnFailsType ==
  ASSUME TypeInv, NEW r \in Runs, TurnFails(r)
  PROVE  TypeOK'
BY DEF TypeInv, TypeOK, StepsAgree, TurnFails, RunnerSteps, RunningSteps, streamVars

LEMMA TurnOverType ==
  ASSUME TypeInv, NEW r \in Runs, TurnOver(r)
  PROVE  TypeOK'
BY DEF TypeInv, TypeOK, StepsAgree, TurnOver, RunnerSteps, RunningSteps, streamVars

LEMMA CloseOkType ==
  ASSUME TypeInv, NEW r \in Runs, CloseOk(r)
  PROVE  TypeOK'
<1> DEFINE q == Without(lock[r], "reader")
<1>1. lock[r] \in Seq(Actors) /\ session[r] \in Sessions /\ TypeOK
  BY DEF TypeInv, TypeOK, StepsAgree, CloseOk, RunningSteps
<1>2. q \in Seq(Actors)
  BY <1>1, WithoutType
<1>3. Finally(r, q) /\ (NotifyAll(r) \/ UNCHANGED streamVars)
  BY DEF CloseOk
<1> HIDE DEF q
<1>4. /\ active' \in [Sessions -> Runs \cup {NoRun}]
      /\ lock' \in [Runs -> Seq(Actors)]
      /\ runner' \in [Runs -> RunnerSteps]
  BY <1>1, <1>2, <1>3, FinallyType
<1>5. /\ streamPc' \in [Streams -> StreamSteps]
      /\ streamRun' = streamRun /\ cursor' = cursor
  BY <1>1, <1>3, NotifyAllType DEF streamVars, TypeOK
<1> QED
  BY <1>1, <1>4, <1>5 DEF TypeOK, CloseOk, CloseReader, Statuses

LEMMA CloseErrorType ==
  ASSUME TypeInv, NEW r \in Runs, CloseError(r)
  PROVE  TypeOK'
<1> DEFINE q == Without(lock[r], "reader")
<1>1. lock[r] \in Seq(Actors) /\ session[r] \in Sessions /\ TypeOK
  BY DEF TypeInv, TypeOK, StepsAgree, CloseError, RunningSteps
<1>2. q \in Seq(Actors)
  BY <1>1, WithoutType
<1>3. \/ AppendEvent(r, "failed") /\ Finally(r, q)
      \/ /\ lock' = [lock EXCEPT ![r] = Append(q, "runner")]
         /\ runner' = [runner EXCEPT ![r] = "emitFailed"]
         /\ UNCHANGED <<active, events, streamVars>>
  BY DEF CloseError
<1> HIDE DEF q
<1>4. "failed" \in EventTypes /\ Append(q, "runner") \in Seq(Actors)
  BY <1>2 DEF EventTypes, Terminal, Actors
<1>5. /\ active' \in [Sessions -> Runs \cup {NoRun}]
      /\ lock' \in [Runs -> Seq(Actors)]
      /\ runner' \in [Runs -> RunnerSteps]
  BY <1>1, <1>2, <1>3, <1>4, FinallyType DEF TypeOK, RunnerSteps
<1>6. /\ events' \in [Runs -> Seq(EventTypes)]
      /\ streamPc' \in [Streams -> StreamSteps]
      /\ streamRun' = streamRun /\ cursor' = cursor
  BY <1>1, <1>3, <1>4, AppendEventType DEF streamVars, TypeOK
<1> QED
  BY <1>1, <1>5, <1>6 DEF TypeOK, CloseError, CloseReader, Statuses

LEMMA EmitFailedType ==
  ASSUME TypeInv, NEW r \in Runs, EmitFailed(r)
  PROVE  TypeOK'
<1> DEFINE q == Tail(lock[r])
<1>1. lock[r] \in Seq(Actors) /\ session[r] \in Sessions /\ TypeOK
  BY DEF TypeInv, TypeOK, StepsAgree, EmitFailed, RunningSteps
<1>2. q \in Seq(Actors)
  BY <1>1 DEF EmitFailed, Holds
<1>3. AppendEvent(r, "failed") /\ Finally(r, q) /\ "failed" \in EventTypes
  BY DEF EmitFailed, EventTypes, Terminal
<1> HIDE DEF q
<1>4. /\ active' \in [Sessions -> Runs \cup {NoRun}]
      /\ lock' \in [Runs -> Seq(Actors)]
      /\ runner' \in [Runs -> RunnerSteps]
  BY <1>1, <1>2, <1>3, FinallyType
<1>5. /\ events' \in [Runs -> Seq(EventTypes)]
      /\ streamPc' \in [Streams -> StreamSteps]
      /\ streamRun' = streamRun /\ cursor' = cursor
  BY <1>1, <1>3, AppendEventType
<1> QED
  BY <1>1, <1>4, <1>5 DEF TypeOK, EmitFailed

LEMMA FinalNotifyType ==
  ASSUME TypeInv, NEW r \in Runs, FinalNotify(r)
  PROVE  TypeOK'
BY NotifyAllType, ReleaseType DEF TypeInv, TypeOK, StepsAgree, FinalNotify, RunnerSteps, RunningSteps

LEMMA HandlerEmitsType ==
  ASSUME TypeOK, NEW r \in Runs, NEW event \in EventTypes, HandlerEmits(r, event)
  PROVE  /\ events' \in [Runs -> Seq(EventTypes)]
         /\ lock' \in [Runs -> Seq(Actors)]
         /\ reader' \in [Runs -> {"off", "idle"} \cup EventTypes]
         /\ complete' \in [Runs -> BOOLEAN]
         /\ streamPc' \in [Streams -> StreamSteps]
         /\ streamRun' = streamRun
         /\ cursor' = cursor
<1>1. CASE Free(r)
  BY <1>1, AppendEventType DEF HandlerEmits, Handled, TypeOK
<1>2. CASE ~Free(r)
  BY <1>2, EnqueueType DEF HandlerEmits, Actors, TypeOK, streamVars
<1> QED
  BY <1>1, <1>2

LEMMA RuntimeEventType ==
  ASSUME TypeInv, NEW r \in Runs, NEW event \in Terminal \cup {"text_delta"}, RuntimeEvent(r, event)
  PROVE  TypeOK'
BY HandlerEmitsType DEF TypeInv, TypeOK, StepsAgree, RuntimeEvent, EventTypes

LEMMA RuntimeAsksApprovalType ==
  ASSUME TypeInv, NEW r \in Runs, NEW a \in Approvals, RuntimeAsksApproval(r, a)
  PROVE  TypeOK'
BY HandlerEmitsType DEF TypeInv, TypeOK, StepsAgree, RuntimeAsksApproval, EventTypes, ApprovalSteps

LEMMA HandlerResumesType ==
  ASSUME TypeInv, NEW r \in Runs, HandlerResumes(r)
  PROVE  TypeOK'
BY AppendEventType, ReleaseType DEF TypeInv, TypeOK, StepsAgree, HandlerResumes, Handled

LEMMA ApproveType ==
  ASSUME TypeInv, NEW r \in Runs, NEW a \in Approvals, Approve(r, a)
  PROVE  TypeOK'
BY DEF TypeInv, TypeOK, StepsAgree, Approve, ApprovalSteps, streamVars

LEMMA ApproveWrittenType ==
  ASSUME TypeInv, NEW r \in Runs, NEW a \in Approvals, ApproveWritten(r, a)
  PROVE  TypeOK'
<1>1. TypeOK /\ a \in Actors /\ "approval_resolved" \in EventTypes
  BY DEF TypeInv, Actors, EventTypes
<1>2. /\ events' \in [Runs -> Seq(EventTypes)]
      /\ streamPc' \in [Streams -> StreamSteps]
      /\ streamRun' = streamRun /\ cursor' = cursor
  BY <1>1, AppendEventType DEF TypeOK, ApproveWritten, streamVars
<1>3. lock' \in [Runs -> Seq(Actors)]
  BY <1>1, EnqueueType DEF TypeOK, ApproveWritten
<1>4. approval' \in [Runs -> [Approvals -> ApprovalSteps]]
  <2>1. PICK step \in {"resolved", "emitting"} : approval' = [approval EXCEPT ![r][a] = step]
    BY DEF ApproveWritten
  <2>2. step \in ApprovalSteps
    BY DEF ApprovalSteps
  <2> QED
    BY <1>1, <2>1, <2>2 DEF TypeOK
<1> QED
  BY <1>1, <1>2, <1>3, <1>4 DEF TypeOK, ApproveWritten

LEMMA ApproveLostType ==
  ASSUME TypeInv, NEW r \in Runs, NEW a \in Approvals, ApproveLost(r, a)
  PROVE  TypeOK'
BY DEF TypeInv, TypeOK, StepsAgree, ApproveLost, ApprovalSteps, streamVars

LEMMA EmitResolvedType ==
  ASSUME TypeInv, NEW r \in Runs, NEW a \in Approvals, EmitResolved(r, a)
  PROVE  TypeOK'
BY AppendEventType, ReleaseType DEF TypeInv, TypeOK, StepsAgree, EmitResolved, EventTypes, ApprovalSteps

LEMMA StartTurnType ==
  ASSUME TypeInv, NEW r \in Runs, NEW k \in Sessions, StartTurn(r, k)
  PROVE  TypeOK'
BY DEF TypeInv, TypeOK, StepsAgree, StartTurn, Statuses, RunnerSteps, streamVars

LEMMA StreamConnectType ==
  ASSUME TypeInv, NEW s \in Streams, NEW r \in Runs, StreamConnect(s, r)
  PROVE  TypeOK'
<1>1. PICK after \in Afters : cursor' = [cursor EXCEPT ![s] = after]
  BY DEF StreamConnect
<1>2. after \in Nat
  BY ConstantsAssumption
<1> QED
  BY <1>1, <1>2
     DEF TypeInv, TypeOK, StepsAgree, StreamConnect, StreamMoves, StreamSteps, bridgeVars

LEMMA StreamNextType ==
  ASSUME TypeInv, NEW s \in Streams, StreamNext(s)
  PROVE  TypeOK'
BY LoopTopType DEF TypeInv, TypeOK, StepsAgree, StreamNext, bridgeVars

LEMMA StreamWaitType ==
  ASSUME TypeInv, NEW s \in Streams, StreamWait(s)
  PROVE  TypeOK'
BY ReleaseType DEF TypeInv, TypeOK, StepsAgree, StreamWait, StreamMoves, StreamSteps, bridgeVars

LEMMA StreamReacquireType ==
  ASSUME TypeInv, NEW s \in Streams, StreamReacquire(s)
  PROVE  TypeOK'
BY EnqueueType DEF TypeInv, TypeOK, StepsAgree, StreamReacquire, StreamMoves, StreamSteps, Actors, bridgeVars

LEMMA StreamResumeType ==
  ASSUME TypeInv, NEW s \in Streams, StreamResume(s)
  PROVE  TypeOK'
<1> DEFINE q == Tail(lock[streamRun[s]])
<1>1. lock[streamRun[s]] \in Seq(Actors) /\ streamRun[s] \in Runs /\ TypeOK
  BY DEF TypeInv, TypeOK, StepsAgree, StreamResume
<1>2. q \in Seq(Actors) /\ LoopTop(s, q)
  BY <1>1 DEF StreamResume, Holds
<1> HIDE DEF q
<1>3. /\ streamPc' \in [Streams -> StreamSteps]
      /\ lock' \in [Runs -> Seq(Actors)]
      /\ cursor' \in [Streams -> Nat]
  BY <1>1, <1>2, LoopTopType
<1> QED
  BY <1>1, <1>3 DEF TypeOK, StreamResume, bridgeVars

LEMMA StreamTimeoutType ==
  ASSUME TypeInv, NEW s \in Streams, StreamTimeout(s)
  PROVE  TypeOK'
<1> DEFINE r == streamRun[s]
           q == Without(lock[r], s)
<1>1. lock[r] \in Seq(Actors) /\ r \in Runs /\ TypeOK /\ s \in Actors
  BY DEF TypeInv, TypeOK, StepsAgree, StreamTimeout, Actors
<1>2. Append(q, s) \in Seq(Actors)
  BY <1>1, WithoutType
<1>3. lock' = [lock EXCEPT ![r] = Append(q, s)] /\ streamPc' = [streamPc EXCEPT ![s] = "expired"]
  BY DEF StreamTimeout, StreamMoves
<1> HIDE DEF q, r
<1> QED
  BY <1>1, <1>2, <1>3 DEF TypeOK, StreamTimeout, StreamSteps, bridgeVars

LEMMA KeepAliveType ==
  ASSUME TypeInv, NEW s \in Streams, KeepAlive(s)
  PROVE  TypeOK'
BY DEF TypeInv, TypeOK, StepsAgree, KeepAlive, StreamMoves, StreamSteps, bridgeVars

LEMMA KeepAliveResumeType ==
  ASSUME TypeInv, NEW s \in Streams, KeepAliveResume(s)
  PROVE  TypeOK'
<1> DEFINE q == Tail(lock[streamRun[s]])
<1>1. lock[streamRun[s]] \in Seq(Actors) /\ streamRun[s] \in Runs /\ TypeOK
  BY DEF TypeInv, TypeOK, StepsAgree, KeepAliveResume
<1>2. q \in Seq(Actors) /\ LoopTop(s, q)
  BY <1>1 DEF KeepAliveResume, Holds
<1> HIDE DEF q
<1>3. /\ streamPc' \in [Streams -> StreamSteps]
      /\ lock' \in [Runs -> Seq(Actors)]
      /\ cursor' \in [Streams -> Nat]
  BY <1>1, <1>2, LoopTopType
<1> QED
  BY <1>1, <1>3 DEF TypeOK, KeepAliveResume, bridgeVars

LEMMA DisconnectType ==
  ASSUME TypeInv, NEW s \in Streams, Disconnect(s)
  PROVE  TypeOK'
<1> DEFINE r == streamRun[s]
           q == Without(lock[r], s)
<1>1. lock[r] \in Seq(Actors) /\ r \in Runs /\ TypeOK /\ s \in Actors
  BY DEF TypeInv, TypeOK, StepsAgree, Disconnect, Actors
<1>2. q \in Seq(Actors)
  BY <1>1, WithoutType
<1>3. /\ \E p \in {q, Append(q, s)} : lock' = [lock EXCEPT ![r] = p]
      /\ \E pc \in {"off", "leaving"} : streamPc' = [streamPc EXCEPT ![s] = pc]
  BY DEF Disconnect, StreamMoves
<1> HIDE DEF q, r
<1>4. lock' \in [Runs -> Seq(Actors)]
  <2>1. Append(q, s) \in Seq(Actors)
    BY <1>1, <1>2
  <2>2. PICK p \in {q, Append(q, s)} : lock' = [lock EXCEPT ![r] = p]
    BY <1>3
  <2>3. p \in Seq(Actors)
    BY <2>1, <1>2
  <2> QED
    BY <2>2, <2>3, <1>1 DEF TypeOK
<1>5. streamPc' \in [Streams -> StreamSteps]
  BY <1>3, <1>1 DEF TypeOK, StreamSteps
<1> QED
  BY <1>1, <1>4, <1>5 DEF TypeOK, Disconnect, bridgeVars

LEMMA LeaveType ==
  ASSUME TypeInv, NEW s \in Streams, Leave(s)
  PROVE  TypeOK'
BY ReleaseType DEF TypeInv, TypeOK, StepsAgree, Leave, StreamMoves, StreamSteps, bridgeVars

(***************************************************************************)
(* Every step keeps the agreement of the steps.                            *)
(***************************************************************************)

\* Where streams may move to: a stream that is off stays off, on the same run.
StreamsStay ==
  /\ streamRun' = streamRun
  /\ \A s \in Streams : streamPc'[s] # "off" => streamPc[s] # "off"

LEMMA NotifyAllStays ==
  ASSUME TypeOK, NEW r \in Runs, NotifyAll(r)
  PROVE  StreamsStay
BY DEF TypeOK, NotifyAll, StreamsStay

LEMMA AppendEventStays ==
  ASSUME TypeOK, NEW r \in Runs, NEW event, AppendEvent(r, event)
  PROVE  StreamsStay
BY NotifyAllStays DEF AppendEvent

LEMMA LoopTopStays ==
  ASSUME TypeOK, NEW s \in Streams, NEW q, LoopTop(s, q), streamPc[s] # "off",
         UNCHANGED streamRun
  PROVE  StreamsStay
BY DEF TypeOK, LoopTop, StreamMoves, StreamsStay

\* A step of a stream, of the reader or of an approve handler.
LEMMA OthersKeepStepsAgree ==
  ASSUME TypeInv, StreamsStay, UNCHANGED <<runner, status, session>>
  PROVE  StepsAgree'
BY DEF TypeInv, TypeOK, StepsAgree, StreamsStay

\* A step of the task of run r that does not change the status.
LEMMA TaskKeepsStepsAgree ==
  ASSUME TypeInv, StreamsStay, UNCHANGED <<status, session>>,
         NEW r \in Runs, NEW to \in RunnerSteps, runner' = [runner EXCEPT ![r] = to],
         runner[r] # "none", to \notin {"none", "emitFailed"},
         runner[r] \in RunningSteps <=> to \in RunningSteps
  PROVE  StepsAgree'
BY DEF TypeInv, TypeOK, StepsAgree, StreamsStay

LEMMA HandlerEmitsStays ==
  ASSUME TypeOK, NEW r \in Runs, NEW event, HandlerEmits(r, event)
  PROVE  StreamsStay
BY AppendEventStays DEF HandlerEmits, StreamsStay, streamVars

LEMMA StartTurnAgrees ==
  ASSUME TypeInv, NEW r \in Runs, NEW k \in Sessions, StartTurn(r, k)
  PROVE  StepsAgree'
BY DEF TypeInv, TypeOK, StepsAgree, StartTurn, RunningSteps, streamVars

LEMMA CloseOkAgrees ==
  ASSUME TypeInv, NEW r \in Runs, CloseOk(r)
  PROVE  StepsAgree'
<1>1. \E to \in {"done", "finalNotify"} : runner' = [runner EXCEPT ![r] = to]
  BY DEF CloseOk, Finally
<1>2. StreamsStay
  BY NotifyAllStays DEF CloseOk, StreamsStay, streamVars, TypeInv
<1>3. /\ runner[r] = "closingOk"
      /\ status' = [status EXCEPT ![r] = "completed"]
      /\ session' = session
  BY DEF CloseOk
<1> QED
  BY <1>1, <1>2, <1>3 DEF TypeInv, TypeOK, StepsAgree, StreamsStay, RunningSteps

LEMMA CloseErrorAgrees ==
  ASSUME TypeInv, NEW r \in Runs, CloseError(r)
  PROVE  StepsAgree'
<1>1. \E to \in {"done", "finalNotify", "emitFailed"} : runner' = [runner EXCEPT ![r] = to]
  BY DEF CloseError, Finally
<1>2. StreamsStay
  BY AppendEventStays DEF CloseError, StreamsStay, streamVars, TypeInv
<1>3. /\ runner[r] = "closingError"
      /\ status' = [status EXCEPT ![r] = "failed"]
      /\ session' = session
  BY DEF CloseError
<1> QED
  BY <1>1, <1>2, <1>3 DEF TypeInv, TypeOK, StepsAgree, StreamsStay, RunningSteps

LEMMA RunTaskAgrees ==
  ASSUME TypeInv, NEW r \in Runs, RunTask(r)
  PROVE  StepsAgree'
<1> USE DEF TypeInv, RunningSteps
<1>1. CASE AdapterStarted(r)
  <2>1. StreamsStay
    BY <1>1, AppendEventStays DEF AdapterStarted, StreamsStay, streamVars
  <2> QED
    BY <1>1, <2>1, TaskKeepsStepsAgree DEF AdapterStarted, RunnerSteps
<1>2. CASE EmitStarted(r)
  <2>1. StreamsStay
    BY <1>2, AppendEventStays DEF EmitStarted
  <2> QED
    BY <1>2, <2>1, TaskKeepsStepsAgree DEF EmitStarted, RunnerSteps
<1>3. CASE TurnFails(r)
  BY <1>3, TaskKeepsStepsAgree DEF TurnFails, RunnerSteps, StreamsStay, streamVars
<1>4. CASE TurnOver(r)
  BY <1>4, TaskKeepsStepsAgree DEF TurnOver, RunnerSteps, StreamsStay, streamVars
<1>5. CASE CloseOk(r)
  BY <1>5, CloseOkAgrees
<1>6. CASE CloseError(r)
  BY <1>6, CloseErrorAgrees
<1>7. CASE EmitFailed(r)
  <2>1. StreamsStay
    BY <1>7, AppendEventStays DEF EmitFailed
  <2>2. PICK to \in {"done", "finalNotify"} : runner' = [runner EXCEPT ![r] = to]
    BY <1>7 DEF EmitFailed, Finally
  <2> QED
    BY <1>7, <2>1, <2>2, TaskKeepsStepsAgree DEF EmitFailed, RunnerSteps
<1>8. CASE FinalNotify(r)
  <2>1. StreamsStay
    BY <1>8, NotifyAllStays DEF FinalNotify
  <2> QED
    BY <1>8, <2>1, TaskKeepsStepsAgree DEF FinalNotify, RunnerSteps
<1> QED
  BY <1>1, <1>2, <1>3, <1>4, <1>5, <1>6, <1>7, <1>8 DEF RunTask

LEMMA ReaderTaskAgrees ==
  ASSUME TypeInv, NEW r \in Runs, ReaderTask(r)
  PROVE  StepsAgree'
<1>1. StreamsStay
  BY HandlerEmitsStays, AppendEventStays
     DEF ReaderTask, RuntimeEvent, RuntimeAsksApproval, HandlerResumes, TypeInv
<1>2. UNCHANGED <<runner, status, session>>
  BY DEF ReaderTask, RuntimeEvent, RuntimeAsksApproval, HandlerResumes
<1> QED
  BY <1>1, <1>2, OthersKeepStepsAgree

LEMMA ApproveHandlerAgrees ==
  ASSUME TypeInv, NEW r \in Runs, NEW a \in Approvals, ApproveHandler(r, a)
  PROVE  StepsAgree'
<1>1. StreamsStay
  BY AppendEventStays
     DEF ApproveHandler, Approve, ApproveWritten, ApproveLost, EmitResolved, TypeInv,
         StreamsStay, streamVars
<1>2. UNCHANGED <<runner, status, session>>
  BY DEF ApproveHandler, Approve, ApproveWritten, ApproveLost, EmitResolved
<1> QED
  BY <1>1, <1>2, OthersKeepStepsAgree

LEMMA StreamConnectAgrees ==
  ASSUME TypeInv, NEW s \in Streams, NEW r \in Runs, StreamConnect(s, r)
  PROVE  StepsAgree'
BY DEF TypeInv, TypeOK, StepsAgree, StreamConnect, StreamMoves, bridgeVars

LEMMA StreamAgrees ==
  ASSUME TypeInv, NEW s \in Streams, Stream(s) \/ Disconnect(s)
  PROVE  StepsAgree'
<1>1. UNCHANGED <<runner, status, session, streamRun>>
  BY DEF Stream, StreamNext, StreamWait, StreamReacquire, StreamResume, StreamTimeout,
         KeepAlive, KeepAliveResume, Leave, Disconnect, bridgeVars
<1>2. CASE StreamNext(s) \/ StreamResume(s) \/ KeepAliveResume(s)
  <2>1. streamPc[s] # "off" /\ \E q : LoopTop(s, q)
    BY <1>2 DEF StreamNext, StreamResume, KeepAliveResume
  <2> QED
    BY <1>1, <2>1, LoopTopStays, OthersKeepStepsAgree DEF TypeInv
<1>3. CASE ~(StreamNext(s) \/ StreamResume(s) \/ KeepAliveResume(s))
  <2>1. streamPc[s] # "off" /\ \E pc : streamPc' = [streamPc EXCEPT ![s] = pc]
    BY <1>3 DEF Stream, StreamWait, StreamReacquire, StreamTimeout, KeepAlive, Leave,
                Disconnect, StreamMoves
  <2> QED
    BY <1>1, <2>1, OthersKeepStepsAgree DEF TypeInv, TypeOK, StreamsStay
<1> QED
  BY <1>2, <1>3

LEMMA NextTypeInv == TypeInv /\ [Next]_vars => TypeInv'
<1> SUFFICES ASSUME TypeInv, [Next]_vars PROVE TypeOK' /\ StepsAgree'
  BY DEF TypeInv
<1>1. ASSUME NEW r \in Runs, NEW k \in Sessions, StartTurn(r, k) PROVE TypeOK' /\ StepsAgree'
  BY <1>1, StartTurnType, StartTurnAgrees
<1>2. ASSUME NEW r \in Runs, RunTask(r) PROVE TypeOK' /\ StepsAgree'
  <2>1. TypeOK'
    BY <1>2, AdapterStartedType, EmitStartedType, TurnFailsType, TurnOverType, CloseOkType,
       CloseErrorType, EmitFailedType, FinalNotifyType DEF RunTask
  <2> QED
    BY <1>2, <2>1, RunTaskAgrees
<1>3. ASSUME NEW r \in Runs, ReaderTask(r) PROVE TypeOK' /\ StepsAgree'
  <2>1. TypeOK'
    BY <1>3, RuntimeEventType, RuntimeAsksApprovalType, HandlerResumesType DEF ReaderTask
  <2> QED
    BY <1>3, <2>1, ReaderTaskAgrees
<1>4. ASSUME NEW r \in Runs, NEW a \in Approvals, ApproveHandler(r, a)
      PROVE  TypeOK' /\ StepsAgree'
  <2>1. TypeOK'
    BY <1>4, ApproveType, ApproveWrittenType, ApproveLostType, EmitResolvedType
       DEF ApproveHandler
  <2> QED
    BY <1>4, <2>1, ApproveHandlerAgrees
<1>5. ASSUME NEW s \in Streams, NEW r \in Runs, StreamConnect(s, r)
      PROVE  TypeOK' /\ StepsAgree'
  BY <1>5, StreamConnectType, StreamConnectAgrees
<1>6. ASSUME NEW s \in Streams, Stream(s) \/ Disconnect(s) PROVE TypeOK' /\ StepsAgree'
  <2>1. TypeOK'
    BY <1>6, StreamNextType, StreamWaitType, StreamReacquireType, StreamResumeType,
       StreamTimeoutType, KeepAliveType, KeepAliveResumeType, LeaveType, DisconnectType
       DEF Stream
  <2> QED
    BY <1>6, <2>1, StreamAgrees
<1>7. CASE UNCHANGED vars
  BY <1>7 DEF TypeInv, TypeOK, StepsAgree, vars
<1> QED
  BY <1>1, <1>2, <1>3, <1>4, <1>5, <1>6, <1>7 DEF Next

\* Type correctness of the bridge: in every state it can reach, each part of
\* RuntimeManager, of the adapters and of the SSE generators is what it should be.
THEOREM TypeCorrect == Spec => []TypeOK
<1>1. TypeInv => TypeOK
  BY DEF TypeInv
<1> QED
  BY InitTypeInv, NextTypeInv, <1>1, PTL DEF Spec

-----------------------------------------------------------------------------
(***************************************************************************)
(* Slots.  A running turn owns its session's entry in active_sessions, or  *)
(* an earlier turn of that session failed.                                 *)
(***************************************************************************)
Failed(k) == \E f \in Runs : status[f] = "failed" /\ session[f] = k

SlotInv == \A r \in Runs :
  status[r] = "running" => active[session[r]] = r \/ Failed(session[r])

LEMMA SlotsPreventOverlap ==
  ASSUME SlotInv
  PROVE  OverlapNeedsAFailure
BY DEF SlotInv, OverlapNeedsAFailure, Failed

\* The new turn takes an entry no running turn owns.
LEMMA StartTurnSlots ==
  ASSUME TypeInv, SlotInv, NEW r \in Runs, NEW k \in Sessions, StartTurn(r, k)
  PROVE  SlotInv'
<1> SUFFICES ASSUME NEW p \in Runs, status'[p] = "running"
             PROVE  active'[session'[p]] = p \/ Failed(session[p])'
  BY DEF SlotInv
<1>1. /\ status[r] = "none" /\ status' = [status EXCEPT ![r] = "running"]
      /\ session' = [session EXCEPT ![r] = k] /\ active' = [active EXCEPT ![k] = r]
      /\ ~Busy(k)
  BY DEF StartTurn
<1>2. \A f \in Runs : status[f] = "failed" => status'[f] = "failed" /\ session'[f] = session[f]
  BY <1>1 DEF TypeInv, TypeOK
<1>3. CASE p = r
  BY <1>1, <1>3 DEF TypeInv, TypeOK
<1>4. CASE p # r
  <2>1. status[p] = "running" /\ session'[p] = session[p] /\ session[p] \in Sessions
    BY <1>1, <1>4 DEF TypeInv, TypeOK, StepsAgree
  <2>2. CASE session[p] = k /\ active[k] = p
    BY <1>1, <2>1, <2>2, ConstantsAssumption DEF Busy
  <2>3. CASE Failed(session[p])
    BY <1>2, <2>1, <2>3 DEF Failed
  <2>4. CASE session[p] # k /\ active[session[p]] = p
    BY <1>1, <2>1, <2>4 DEF TypeInv, TypeOK
  <2> QED
    BY <2>1, <2>2, <2>3, <2>4 DEF SlotInv
<1> QED
  BY <1>3, <1>4

\* The turn that completes clears the entry whoever owns it: if it is not its
\* own any more, a turn of the session failed before.
LEMMA CloseOkSlots ==
  ASSUME TypeInv, SlotInv, NEW r \in Runs, CloseOk(r)
  PROVE  SlotInv'
<1> SUFFICES ASSUME NEW p \in Runs, status'[p] = "running"
             PROVE  active'[session'[p]] = p \/ Failed(session[p])'
  BY DEF SlotInv
<1>1. /\ runner[r] = "closingOk" /\ status' = [status EXCEPT ![r] = "completed"]
      /\ session' = session /\ active' = [active EXCEPT ![session[r]] = NoRun]
  BY DEF CloseOk, Finally
<1>2. status[r] = "running"
  BY <1>1 DEF TypeInv, StepsAgree, RunningSteps
<1>3. \A f \in Runs : status[f] = "failed" => status'[f] = "failed" /\ session'[f] = session[f]
  BY <1>1, <1>2 DEF TypeInv, TypeOK
<1>4. p # r /\ status[p] = "running"
  BY <1>1 DEF TypeInv, TypeOK
<1>5. session[p] \in Sessions
  BY <1>4 DEF TypeInv, StepsAgree
<1>6. CASE session[p] = session[r]
  <2>1. Failed(session[p])
    BY <1>1, <1>2, <1>4, <1>6 DEF SlotInv
  <2> QED
    BY <1>1, <1>3, <2>1 DEF Failed
<1>7. CASE session[p] # session[r]
  <2>1. active'[session[p]] = active[session[p]]
    BY <1>1, <1>5, <1>7 DEF TypeInv, TypeOK
  <2> QED
    BY <1>1, <1>3, <1>4, <2>1 DEF SlotInv, Failed
<1> QED
  BY <1>6, <1>7

\* A turn that fails is the witness for every other turn of its session.
LEMMA FailingSlots ==
  ASSUME TypeInv, SlotInv, NEW r \in Runs, CloseError(r) \/ EmitFailed(r)
  PROVE  SlotInv'
<1> SUFFICES ASSUME NEW p \in Runs, status'[p] = "running"
             PROVE  active'[session'[p]] = p \/ Failed(session[p])'
  BY DEF SlotInv
<1>1. /\ \/ status' = [status EXCEPT ![r] = "failed"]
         \/ status[r] = "failed" /\ status' = status
      /\ session' = session
      /\ active' = active \/ active' = [active EXCEPT ![session[r]] = NoRun]
  <2>1. CASE CloseError(r)
    <3>1. (\E q : Finally(r, q)) \/ active' = active
      BY <2>1 DEF CloseError
    <3>2. status' = [status EXCEPT ![r] = "failed"] /\ session' = session
      BY <2>1 DEF CloseError
    <3>3. active' = active \/ active' = [active EXCEPT ![session[r]] = NoRun]
      BY <3>1 DEF Finally
    <3> QED
      BY <3>2, <3>3
  <2>2. CASE EmitFailed(r)
    BY <2>2 DEF EmitFailed, Finally, TypeInv, StepsAgree
  <2> QED
    BY <2>1, <2>2
<1>2. status'[r] = "failed" /\ p # r /\ status[p] = "running"
  BY <1>1 DEF TypeInv, TypeOK
<1>3. \A f \in Runs : status[f] = "failed" => status'[f] = "failed" /\ session'[f] = session[f]
  BY <1>1 DEF TypeInv, TypeOK
<1>4. CASE session[p] = session[r]
  BY <1>1, <1>2, <1>4 DEF Failed
<1>5. CASE session[p] # session[r]
  <2>1. session[p] \in Sessions
    BY <1>2 DEF TypeInv, StepsAgree
  <2>2. active'[session[p]] = active[session[p]]
    BY <1>1, <1>5, <2>1 DEF TypeInv, TypeOK
  <2> QED
    BY <1>1, <1>2, <1>3, <2>2 DEF SlotInv, Failed
<1> QED
  BY <1>4, <1>5

\* Every other step leaves the runs' statuses, sessions and entries alone.
LEMMA OtherSlots ==
  ASSUME SlotInv, UNCHANGED <<status, session, active>>
  PROVE  SlotInv'
BY DEF SlotInv, Failed

LEMMA NextSlotInv == TypeInv /\ SlotInv /\ [Next]_vars => SlotInv'
<1> SUFFICES ASSUME TypeInv, SlotInv, [Next]_vars PROVE SlotInv'
  OBVIOUS
<1>1. ASSUME NEW r \in Runs, RunTask(r) PROVE SlotInv'
  <2>1. CASE CloseOk(r)
    BY <2>1, CloseOkSlots
  <2>2. CASE CloseError(r) \/ EmitFailed(r)
    BY <2>2, FailingSlots
  <2>3. CASE AdapterStarted(r) \/ EmitStarted(r) \/ TurnFails(r) \/ TurnOver(r) \/ FinalNotify(r)
    BY <2>3, OtherSlots DEF AdapterStarted, EmitStarted, TurnFails, TurnOver, FinalNotify
  <2> QED
    BY <1>1, <2>1, <2>2, <2>3 DEF RunTask
<1>2. ASSUME NEW r \in Runs, ReaderTask(r) PROVE SlotInv'
  BY <1>2, OtherSlots DEF ReaderTask, RuntimeEvent, RuntimeAsksApproval, HandlerResumes
<1>3. ASSUME NEW r \in Runs, NEW a \in Approvals, ApproveHandler(r, a) PROVE SlotInv'
  BY <1>3, OtherSlots DEF ApproveHandler, Approve, ApproveWritten, ApproveLost, EmitResolved
<1>4. ASSUME NEW s \in Streams, NEW r \in Runs, StreamConnect(s, r) PROVE SlotInv'
  BY <1>4, OtherSlots DEF StreamConnect, bridgeVars
<1>5. ASSUME NEW s \in Streams, Stream(s) \/ Disconnect(s) PROVE SlotInv'
  BY <1>5, OtherSlots
     DEF Stream, StreamNext, StreamWait, StreamReacquire, StreamResume, StreamTimeout,
         KeepAlive, KeepAliveResume, Leave, Disconnect, bridgeVars
<1>6. CASE UNCHANGED vars
  BY <1>6, OtherSlots DEF vars
<1> QED
  BY <1>1, <1>2, <1>3, <1>4, <1>5, <1>6, StartTurnSlots DEF Next

\* Whatever the number of runs and sessions: start_turn's check keeps the turns
\* of a session apart until one of them fails.
THEOREM OverlapOnlyAfterFailure == Spec => []OverlapNeedsAFailure
<1>1. Init => SlotInv
  BY DEF Init, SlotInv
<1> QED
  BY InitTypeInv, NextTypeInv, <1>1, NextSlotInv, SlotsPreventOverlap, PTL DEF Spec

-----------------------------------------------------------------------------
(***************************************************************************)
(* Delivery.  The event that ends the turn is in the list before the       *)
(* adapter's `complete` is set, hence before run() sets the status, hence  *)
(* before a stream that has drained the list may end on that status.       *)
(***************************************************************************)
EndsIn(r) == HasTerminal(r, Len(events[r]))

DeliverInv ==
  /\ \A r \in Runs :
       /\ complete[r] => EndsIn(r)
       /\ runner[r] = "closingOk" => complete[r]
       /\ status[r] = "completed" => EndsIn(r)
  /\ \A s \in Streams : streamPc[s] = "ended" =>
       /\ status[streamRun[s]] # "running"
       /\ status[streamRun[s]] = "completed" => HasTerminal(streamRun[s], cursor[s])

LEMMA DeliverIsEnough ==
  ASSUME DeliverInv
  PROVE  CompletedRunsAreDelivered
BY DEF DeliverInv, CompletedRunsAreDelivered

\* Events are appended and never changed: what a list held it still holds.
EventsGrow ==
  \A r \in Runs : \A n \in Nat :
    /\ HasTerminal(r, n) => HasTerminal(r, n)'
    /\ EndsIn(r) => EndsIn(r)'

LEMMA AppendGrows ==
  ASSUME TypeOK, NEW r \in Runs, NEW event \in EventTypes,
         events' = [events EXCEPT ![r] = Append(@, event)]
  PROVE  EventsGrow /\ (event \in Terminal => EndsIn(r)')
<1> SUFFICES ASSUME NEW p \in Runs, NEW n \in Nat
             PROVE  /\ HasTerminal(p, n) => HasTerminal(p, n)'
                    /\ EndsIn(p) => EndsIn(p)'
                    /\ event \in Terminal => EndsIn(r)'
  BY DEF EventsGrow
<1>1. events[p] \in Seq(EventTypes) /\ events[r] \in Seq(EventTypes)
  BY DEF TypeOK
<1>2. /\ Len(events'[p]) \in Nat /\ Len(events'[p]) >= Len(events[p])
      /\ \A i \in 1..Len(events[p]) : events'[p][i] = events[p][i]
  BY <1>1 DEF TypeOK
<1>3. /\ Len(events'[r]) = Len(events[r]) + 1 /\ Len(events[r]) \in Nat
      /\ events'[r][Len(events[r]) + 1] = event
  BY <1>1 DEF TypeOK
<1>4. ASSUME NEW m \in Nat, HasTerminal(p, m) PROVE HasTerminal(p, m)'
  <2>1. PICK i \in 1..m : i <= Len(events[p]) /\ events[p][i] \in Terminal
    BY <1>4 DEF HasTerminal
  <2> QED
    BY <1>1, <1>2, <2>1 DEF HasTerminal
<1>5. EndsIn(p) => EndsIn(p)'
  BY <1>1, <1>2 DEF EndsIn, HasTerminal
<1>6. event \in Terminal => EndsIn(r)'
  BY <1>3 DEF EndsIn, HasTerminal
<1> QED
  BY <1>4, <1>5, <1>6

LEMMA SameGrows ==
  ASSUME UNCHANGED events
  PROVE  EventsGrow
BY DEF EventsGrow, EndsIn, HasTerminal

\* A step that only appends keeps the invariant, whatever the streams do short
\* of ending.
LEMMA AppendDelivers ==
  ASSUME TypeInv, DeliverInv, EventsGrow, UNCHANGED <<status, streamRun, cursor>>,
         \A s \in Streams : streamPc'[s] = "ended" => streamPc[s] = "ended",
         \A r \in Runs : complete'[r] => complete[r] \/ EndsIn(r)',
         \A r \in Runs : runner'[r] = "closingOk" => complete'[r]
  PROVE  DeliverInv'
<1>1. \A r \in Runs : /\ complete'[r] => EndsIn(r)'
                      /\ status[r] = "completed" => EndsIn(r)'
  BY DEF DeliverInv, EventsGrow
<1>2. ASSUME NEW s \in Streams, streamPc'[s] = "ended"
      PROVE  /\ status[streamRun[s]] # "running"
             /\ status[streamRun[s]] = "completed" => HasTerminal(streamRun[s], cursor[s])'
  <2>1. streamPc[s] = "ended" /\ streamRun[s] \in Runs /\ cursor[s] \in Nat
    BY <1>2 DEF TypeInv, TypeOK, StepsAgree
  <2>2. HasTerminal(streamRun[s], cursor[s]) => HasTerminal(streamRun[s], cursor[s])'
    BY <2>1 DEF EventsGrow, HasTerminal
  <2> QED
    BY <2>1, <2>2 DEF DeliverInv
<1> QED
  BY <1>1, <1>2 DEF DeliverInv

\* No step of the runs makes a stream end.
StreamsGoOn ==
  /\ UNCHANGED <<streamRun, cursor>>
  /\ \A s \in Streams : streamPc'[s] = "ended" => streamPc[s] = "ended"

LEMMA NotifyAllGoesOn ==
  ASSUME TypeOK, NEW r \in Runs, NotifyAll(r)
  PROVE  StreamsGoOn
BY DEF TypeOK, NotifyAll, StreamsGoOn

LEMMA AppendEventDelivers ==
  ASSUME TypeOK, NEW r \in Runs, NEW event \in EventTypes, AppendEvent(r, event)
  PROVE  EventsGrow /\ StreamsGoOn /\ (event \in Terminal => EndsIn(r)')
BY AppendGrows, NotifyAllGoesOn DEF AppendEvent

LEMMA StartTurnDelivers ==
  ASSUME TypeInv, DeliverInv, NEW r \in Runs, NEW k \in Sessions, StartTurn(r, k)
  PROVE  DeliverInv'
BY DEF TypeInv, TypeOK, StepsAgree, DeliverInv, StartTurn, EndsIn, HasTerminal, streamVars

LEMMA CloseOkDelivers ==
  ASSUME TypeInv, DeliverInv, NEW r \in Runs, CloseOk(r)
  PROVE  DeliverInv'
<1>1. /\ runner[r] = "closingOk" /\ status' = [status EXCEPT ![r] = "completed"]
      /\ UNCHANGED <<events, complete>>
  BY DEF CloseOk
<1>2. \E to \in {"done", "finalNotify"} : runner' = [runner EXCEPT ![r] = to]
  BY DEF CloseOk, Finally
<1>3. StreamsGoOn
  BY NotifyAllGoesOn DEF CloseOk, StreamsGoOn, streamVars, TypeInv
<1>4. status[r] = "running" /\ EndsIn(r)
  BY <1>1 DEF TypeInv, StepsAgree, RunningSteps, DeliverInv
<1>5. \A p \in Runs : EndsIn(p)' <=> EndsIn(p)
  BY <1>1 DEF EndsIn, HasTerminal
<1>6. \A p \in Runs : /\ complete'[p] => EndsIn(p)'
                      /\ runner'[p] = "closingOk" => complete'[p]
                      /\ status'[p] = "completed" => EndsIn(p)'
  BY <1>1, <1>2, <1>4, <1>5 DEF DeliverInv, TypeInv, TypeOK
<1>7. ASSUME NEW s \in Streams, streamPc'[s] = "ended"
      PROVE  /\ status'[streamRun'[s]] # "running"
             /\ status'[streamRun'[s]] = "completed" => HasTerminal(streamRun[s], cursor[s])'
  <2>1. streamPc[s] = "ended" /\ streamRun'[s] = streamRun[s] /\ cursor'[s] = cursor[s]
    BY <1>3, <1>7 DEF StreamsGoOn
  <2>2. streamRun[s] # r /\ streamRun[s] \in Runs
    BY <2>1, <1>4 DEF DeliverInv, TypeInv, StepsAgree
  <2>3. status'[streamRun[s]] = status[streamRun[s]]
    BY <1>1, <2>2 DEF TypeInv, TypeOK
  <2>4. HasTerminal(streamRun[s], cursor[s]) => HasTerminal(streamRun[s], cursor[s])'
    BY <1>1, <1>3 DEF HasTerminal, StreamsGoOn
  <2> QED
    BY <2>1, <2>3, <2>4 DEF DeliverInv
<1> QED
  BY <1>3, <1>6, <1>7 DEF DeliverInv, StreamsGoOn

LEMMA CloseErrorDelivers ==
  ASSUME TypeInv, DeliverInv, NEW r \in Runs, CloseError(r)
  PROVE  DeliverInv'
<1>1. /\ runner[r] = "closingError" /\ status' = [status EXCEPT ![r] = "failed"]
      /\ UNCHANGED complete
  BY DEF CloseError
<1>2. \E to \in {"done", "finalNotify", "emitFailed"} : runner' = [runner EXCEPT ![r] = to]
  BY DEF CloseError, Finally
<1>3. StreamsGoOn /\ EventsGrow
  BY AppendEventDelivers, SameGrows
     DEF CloseError, StreamsGoOn, streamVars, TypeInv, EventTypes, Terminal
<1>4. status[r] = "running"
  BY <1>1 DEF TypeInv, StepsAgree, RunningSteps
<1>5. \A p \in Runs : EndsIn(p) => EndsIn(p)'
  BY <1>3 DEF EventsGrow
<1>6. \A p \in Runs : /\ complete'[p] => EndsIn(p)'
                      /\ runner'[p] = "closingOk" => complete'[p]
                      /\ status'[p] = "completed" => EndsIn(p)'
  BY <1>1, <1>2, <1>5 DEF DeliverInv, TypeInv, TypeOK
<1>7. ASSUME NEW s \in Streams, streamPc'[s] = "ended"
      PROVE  /\ status'[streamRun'[s]] # "running"
             /\ status'[streamRun'[s]] = "completed" => HasTerminal(streamRun[s], cursor[s])'
  <2>1. streamPc[s] = "ended" /\ streamRun'[s] = streamRun[s] /\ cursor'[s] = cursor[s]
    BY <1>3, <1>7 DEF StreamsGoOn
  <2>2. streamRun[s] # r /\ streamRun[s] \in Runs /\ cursor[s] \in Nat
    BY <2>1, <1>4 DEF DeliverInv, TypeInv, TypeOK, StepsAgree
  <2>3. status'[streamRun[s]] = status[streamRun[s]]
    BY <1>1, <2>2 DEF TypeInv, TypeOK
  <2>4. HasTerminal(streamRun[s], cursor[s]) => HasTerminal(streamRun[s], cursor[s])'
    BY <1>3, <2>1, <2>2 DEF EventsGrow, HasTerminal
  <2> QED
    BY <2>1, <2>3, <2>4 DEF DeliverInv
<1> QED
  BY <1>3, <1>6, <1>7 DEF DeliverInv, StreamsGoOn

\* Steps that end no stream and set no status.
LEMMA TasksDeliver ==
  ASSUME TypeInv, DeliverInv, NEW r \in Runs,
         \/ AdapterStarted(r) \/ EmitStarted(r) \/ TurnFails(r) \/ TurnOver(r)
         \/ EmitFailed(r) \/ FinalNotify(r)
  PROVE  DeliverInv'
<1>1. EventsGrow /\ StreamsGoOn
  BY AppendEventDelivers, NotifyAllGoesOn, SameGrows
     DEF AdapterStarted, EmitStarted, TurnFails, TurnOver, EmitFailed, FinalNotify,
         StreamsGoOn, streamVars, TypeInv, EventTypes, Terminal
<1>2. UNCHANGED <<status, complete>>
  BY DEF AdapterStarted, EmitStarted, TurnFails, TurnOver, EmitFailed, FinalNotify
<1>3. \E to \in RunnerSteps : /\ runner' = [runner EXCEPT ![r] = to]
                             /\ (to = "closingOk" => complete[r])
  BY DEF AdapterStarted, EmitStarted, TurnFails, TurnOver, EmitFailed, FinalNotify, Finally,
         RunnerSteps
<1>4. \A p \in Runs : runner'[p] = "closingOk" => complete'[p]
  <2>1. PICK to \in RunnerSteps : /\ runner' = [runner EXCEPT ![r] = to]
                                 /\ (to = "closingOk" => complete[r])
    BY <1>3
  <2>2. \A p \in Runs : runner'[p] = IF p = r THEN to ELSE runner[p]
    BY <2>1 DEF TypeInv, TypeOK
  <2> QED
    BY <1>2, <2>1, <2>2 DEF DeliverInv
<1> QED
  BY <1>1, <1>2, <1>4, AppendDelivers DEF StreamsGoOn

LEMMA HandlersDeliver ==
  ASSUME TypeInv, DeliverInv, NEW r \in Runs,
         ReaderTask(r) \/ \E a \in Approvals : ApproveHandler(r, a)
  PROVE  DeliverInv'
<1>1. UNCHANGED <<status, runner>>
  BY DEF ReaderTask, RuntimeEvent, RuntimeAsksApproval, HandlerResumes, ApproveHandler,
         Approve, ApproveWritten, ApproveLost, EmitResolved
<1>2. CASE UNCHANGED <<events, complete, streamVars>>
  BY <1>1, <1>2, SameGrows, AppendDelivers DEF streamVars, DeliverInv
<1>3. CASE \E event \in EventTypes : AppendEvent(r, event) /\ (Handled(r, event) \/ UNCHANGED complete)
  <2>1. PICK event \in EventTypes :
          AppendEvent(r, event) /\ (Handled(r, event) \/ UNCHANGED complete)
    BY <1>3
  <2>2. EventsGrow /\ StreamsGoOn /\ (event \in Terminal => EndsIn(r)')
    BY <2>1, AppendEventDelivers DEF TypeInv
  <2>3. \A p \in Runs : complete'[p] => complete[p] \/ EndsIn(p)'
    BY <2>1, <2>2 DEF Handled, TypeInv, TypeOK
  <2>4. \A p \in Runs : complete[p] => complete'[p]
    BY <2>1 DEF Handled, TypeInv, TypeOK
  <2> QED
    BY <1>1, <2>2, <2>3, <2>4, AppendDelivers DEF StreamsGoOn, DeliverInv
<1>4. CASE ReaderTask(r)
  BY <1>2, <1>3, <1>4 DEF ReaderTask, RuntimeEvent, RuntimeAsksApproval, HandlerResumes,
                          HandlerEmits, EventTypes, Terminal
<1>5. CASE \E a \in Approvals : ApproveHandler(r, a)
  BY <1>2, <1>3, <1>5 DEF ApproveHandler, Approve, ApproveWritten, ApproveLost, EmitResolved,
                          EventTypes
<1> QED
  BY <1>4, <1>5

LEMMA LoopTopDelivers ==
  ASSUME TypeInv, DeliverInv, NEW s \in Streams, NEW q, LoopTop(s, q),
         streamPc[s] \notin {"off", "ended"}, UNCHANGED <<bridgeVars, events, streamRun>>
  PROVE  DeliverInv'
<1>1. \A p \in Runs : EndsIn(p)' <=> EndsIn(p)
  BY DEF EndsIn, HasTerminal
<1>2. ASSUME NEW u \in Streams, streamPc'[u] = "ended"
      PROVE  /\ status[streamRun[u]] # "running"
             /\ status[streamRun[u]] = "completed" => HasTerminal(streamRun[u], cursor[u])'
  <2>1. CASE u # s
    <3>1. streamPc[u] = "ended" /\ cursor'[u] = cursor[u]
      BY <1>2, <2>1 DEF LoopTop, StreamMoves, TypeInv, TypeOK
    <3> QED
      BY <3>1 DEF DeliverInv, HasTerminal
  <2>2. CASE u = s
    <3>1. /\ cursor[s] >= Len(events[streamRun[s]]) /\ status[streamRun[s]] # "running"
          /\ cursor' = cursor
      BY <1>2, <2>2 DEF LoopTop, StreamMoves, TypeInv, TypeOK
    <3>2. streamRun[s] \in Runs /\ cursor[s] \in Nat /\ events[streamRun[s]] \in Seq(EventTypes)
      BY DEF TypeInv, TypeOK, StepsAgree
    <3>3. EndsIn(streamRun[s]) => HasTerminal(streamRun[s], cursor[s])'
      BY <3>1, <3>2 DEF EndsIn, HasTerminal
    <3> QED
      BY <2>2, <3>1, <3>2, <3>3 DEF DeliverInv
  <2> QED
    BY <2>1, <2>2
<1> QED
  BY <1>1, <1>2 DEF DeliverInv, bridgeVars

LEMMA StreamDelivers ==
  ASSUME TypeInv, DeliverInv, NEW s \in Streams,
         Stream(s) \/ Disconnect(s) \/ \E r \in Runs : StreamConnect(s, r)
  PROVE  DeliverInv'
<1>1. CASE StreamNext(s) \/ StreamResume(s) \/ KeepAliveResume(s)
  <2>1. /\ streamPc[s] \notin {"off", "ended"} /\ \E q : LoopTop(s, q)
        /\ UNCHANGED <<bridgeVars, events, streamRun>>
    BY <1>1 DEF StreamNext, StreamResume, KeepAliveResume
  <2> QED
    BY <2>1, LoopTopDelivers
<1>2. CASE \E r \in Runs : StreamConnect(s, r)
  <2>1. UNCHANGED <<bridgeVars, events>>
    BY <1>2 DEF StreamConnect
  <2>2. \A r \in Runs : EndsIn(r)' <=> EndsIn(r)
    BY <2>1 DEF EndsIn, HasTerminal
  <2>3. streamPc'[s] = "yielded" /\ \A u \in Streams \ {s} :
          streamPc'[u] = streamPc[u] /\ streamRun'[u] = streamRun[u] /\ cursor'[u] = cursor[u]
    BY <1>2 DEF StreamConnect, StreamMoves, TypeInv, TypeOK
  <2>4. \A u \in Streams : streamPc'[u] = "ended" =>
          u # s /\ (HasTerminal(streamRun[u], cursor[u]) => HasTerminal(streamRun[u], cursor[u])')
    BY <2>1, <2>3 DEF HasTerminal
  <2> QED
    BY <2>1, <2>2, <2>3, <2>4 DEF DeliverInv, bridgeVars
<1>3. CASE ~(StreamNext(s) \/ StreamResume(s) \/ KeepAliveResume(s))
           /\ ~ \E r \in Runs : StreamConnect(s, r)
  <2>1. /\ \E pc : streamPc' = [streamPc EXCEPT ![s] = pc] /\ pc # "ended"
        /\ UNCHANGED <<bridgeVars, events, streamRun, cursor>>
    BY <1>3 DEF Stream, StreamWait, StreamReacquire, StreamTimeout, KeepAlive, Leave,
                Disconnect, StreamMoves
  <2>2. \A u \in Streams : streamPc'[u] = "ended" => streamPc[u] = "ended"
    BY <2>1 DEF TypeInv, TypeOK
  <2> QED
    BY <2>1, <2>2, SameGrows, AppendDelivers DEF bridgeVars, DeliverInv
<1> QED
  BY <1>1, <1>2, <1>3

LEMMA NextDelivers == TypeInv /\ DeliverInv /\ [Next]_vars => DeliverInv'
<1> SUFFICES ASSUME TypeInv, DeliverInv, [Next]_vars PROVE DeliverInv'
  OBVIOUS
<1>1. CASE Next
  BY <1>1, StartTurnDelivers, CloseOkDelivers, CloseErrorDelivers, TasksDeliver,
     HandlersDeliver, StreamDelivers DEF Next, RunTask
<1>2. CASE UNCHANGED vars
  BY <1>2 DEF vars, DeliverInv, EndsIn, HasTerminal
<1> QED
  BY <1>1, <1>2

\* A client that reads the stream of a completed turn to its end has seen the
\* event that ends the turn, whatever the interleaving of tasks and streams.
THEOREM CompletedRunsDelivered == Spec => []CompletedRunsAreDelivered
<1>1. Init => DeliverInv
  BY DEF Init, DeliverInv
<1> QED
  BY InitTypeInv, NextTypeInv, <1>1, NextDelivers, DeliverIsEnough, PTL DEF Spec

-----------------------------------------------------------------------------
(***************************************************************************)
(* The contract.  Only a run that goes on has a reader that may tell more, *)
(* and an approval was asked for by a run that exists.                     *)
(***************************************************************************)
TellersInv ==
  \A r \in Runs :
    /\ reader[r] # "off" => status[r] = "running"
    /\ \A a \in Approvals : approval[r][a] # "unseen" => status[r] # "none"

LEMMA TasksKeepTellers ==
  ASSUME TypeInv, TellersInv, NEW r \in Runs, RunTask(r)
  PROVE  TellersInv'
<1>1. CASE CloseOk(r) \/ CloseError(r)
  <2>1. /\ \E to \in Terminal : status' = [status EXCEPT ![r] = to]
        /\ reader' = [reader EXCEPT ![r] = "off"] /\ approval' = approval
    BY <1>1 DEF CloseOk, CloseError, CloseReader, Terminal
  <2> QED
    BY <2>1 DEF TellersInv, TypeInv, TypeOK, Terminal
<1>2. CASE ~(CloseOk(r) \/ CloseError(r))
  <2>1. UNCHANGED <<status, reader, approval>>
    BY <1>2 DEF RunTask, AdapterStarted, EmitStarted, TurnFails, TurnOver, EmitFailed, FinalNotify
  <2> QED
    BY <2>1 DEF TellersInv
<1> QED
  BY <1>1, <1>2

LEMMA HandlersKeepTellers ==
  ASSUME TypeInv, TellersInv, NEW r \in Runs,
         ReaderTask(r) \/ \E a \in Approvals : ApproveHandler(r, a)
  PROVE  TellersInv'
<1>1. CASE ReaderTask(r)
  <2>1. reader[r] # "off" /\ status' = status
    BY <1>1 DEF ReaderTask, RuntimeEvent, RuntimeAsksApproval, HandlerResumes, EventTypes, Terminal
  <2>2. \A p \in Runs \ {r} : reader'[p] = reader[p] /\ approval'[p] = approval[p]
    BY <1>1 DEF ReaderTask, RuntimeEvent, RuntimeAsksApproval, HandlerResumes, HandlerEmits,
                TypeInv, TypeOK
  <2> QED
    BY <2>1, <2>2 DEF TellersInv
<1>2. ASSUME NEW a \in Approvals, ApproveHandler(r, a) PROVE TellersInv'
  <2>1. /\ approval[r][a] # "unseen" /\ UNCHANGED <<status, reader>>
        /\ \E to \in ApprovalSteps : approval' = [approval EXCEPT ![r][a] = to]
    BY <1>2 DEF ApproveHandler, Approve, ApproveWritten, ApproveLost, EmitResolved, ApprovalSteps
  <2>2. \A p \in Runs, b \in Approvals :
          approval'[p][b] # "unseen" => approval[p][b] # "unseen"
    BY <2>1 DEF TypeInv, TypeOK
  <2> QED
    BY <2>1, <2>2 DEF TellersInv
<1> QED
  BY <1>1, <1>2

LEMMA NextTellers == TypeInv /\ TellersInv /\ [Next]_vars => TellersInv'
<1> SUFFICES ASSUME TypeInv, TellersInv, [Next]_vars PROVE TellersInv'
  OBVIOUS
<1>1. ASSUME NEW r \in Runs, NEW k \in Sessions, StartTurn(r, k) PROVE TellersInv'
  BY <1>1 DEF StartTurn, TellersInv, TypeInv, TypeOK
<1>2. ASSUME NEW s \in Streams, Stream(s) \/ Disconnect(s) \/ \E r \in Runs : StreamConnect(s, r)
      PROVE  TellersInv'
  BY <1>2 DEF TellersInv, Stream, StreamNext, StreamWait, StreamReacquire, StreamResume,
     StreamTimeout, KeepAlive, KeepAliveResume, Leave, Disconnect, StreamConnect, bridgeVars
<1>3. CASE UNCHANGED vars
  BY <1>3 DEF vars, TellersInv
<1> QED
  BY <1>1, <1>2, <1>3, TasksKeepTellers, HandlersKeepTellers DEF Next

\* What the contract sees of a stream: its link, and where it stands while it
\* is open or ended by the bridge.
RunSeen(s) == IF LinkOf(s) = "off" THEN NoRun ELSE streamRun[s]
CursorSeen(s) == IF LinkOf(s) = "off" THEN 0 ELSE cursor[s]

LinksStay == \A s \in Streams : LinkOf(s)' = LinkOf(s)
OthersStay(s) ==
  \A u \in Streams \ {s} :
    streamPc'[u] = streamPc[u] /\ streamRun'[u] = streamRun[u] /\ cursor'[u] = cursor[u]

LEMMA LinksUnchanged ==
  ASSUME UNCHANGED <<streamRun, cursor>>, LinksStay
  PROVE  UNCHANGED Contract!linkVars
BY DEF Contract!linkVars, LinksStay

\* A step of one stream, in the terms of the contract.
LEMMA OneLinkMoves ==
  ASSUME NEW s \in Streams, OthersStay(s)
  PROVE  /\ [u \in Streams |-> LinkOf(u)]' = [[u \in Streams |-> LinkOf(u)] EXCEPT ![s] = LinkOf(s)']
         /\ [u \in Streams |-> IF LinkOf(u) = "off" THEN NoRun ELSE streamRun[u]]'
              = [[u \in Streams |-> IF LinkOf(u) = "off" THEN NoRun ELSE streamRun[u]]
                   EXCEPT ![s] = RunSeen(s)']
         /\ [u \in Streams |-> IF LinkOf(u) = "off" THEN 0 ELSE cursor[u]]'
              = [[u \in Streams |-> IF LinkOf(u) = "off" THEN 0 ELSE cursor[u]]
                   EXCEPT ![s] = CursorSeen(s)']
<1>1. \A u \in Streams \ {s} :
        /\ LinkOf(u)' = LinkOf(u) /\ streamRun'[u] = streamRun[u] /\ cursor'[u] = cursor[u]
  BY DEF OthersStay, LinkOf
<1> QED
  BY <1>1 DEF RunSeen, CursorSeen

LEMMA NotifyAllKeepsLinks ==
  ASSUME TypeOK, NEW r \in Runs, NotifyAll(r)
  PROVE  UNCHANGED Contract!linkVars
<1>1. LinksStay /\ UNCHANGED <<streamRun, cursor>>
  BY DEF TypeOK, NotifyAll, LinksStay, LinkOf
<1> QED
  BY <1>1, LinksUnchanged

\* Whoever emits, emits what the contract lets a run in this status tell.
LEMMA AppendEventEmits ==
  ASSUME TypeOK, NEW r \in Runs, NEW event \in EventTypes, AppendEvent(r, event),
         status' = status,
         \/ status[r] = "running"
         \/ status[r] # "none" /\ event = "approval_resolved"
         \/ status[r] = "failed" /\ event = "failed"
  PROVE  Contract!Emit(r, event) /\ event \in Contract!EventTypes
BY NotifyAllKeepsLinks
   DEF AppendEvent, Contract!Emit, Contract!EventTypes, EventTypes, Terminal

LEMMA StutterKeepsContract ==
  ASSUME UNCHANGED <<status, events>>, UNCHANGED Contract!linkVars
  PROVE  UNCHANGED Contract!contractVars
BY DEF Contract!contractVars, Contract!linkVars

LEMMA StartTurnImplements ==
  ASSUME TypeInv, NEW r \in Runs, NEW k \in Sessions, StartTurn(r, k)
  PROVE  Contract!Start(r)
<1>1. UNCHANGED <<streamRun, cursor>> /\ LinksStay
  BY DEF StartTurn, streamVars, LinksStay, LinkOf
<1> QED
  BY <1>1, LinksUnchanged DEF StartTurn, Contract!Start

\* A run completes when its end has been told, and fails with or without that.
LEMMA CloseOkImplements ==
  ASSUME TypeInv, DeliverInv, NEW r \in Runs, CloseOk(r)
  PROVE  Contract!Complete(r)
<1>1. UNCHANGED Contract!linkVars
  <2>1. CASE NotifyAll(r)
    BY <2>1, NotifyAllKeepsLinks DEF TypeInv
  <2>2. CASE UNCHANGED streamVars
    BY <2>2, LinksUnchanged DEF streamVars, LinksStay, LinkOf
  <2> QED
    BY <2>1, <2>2 DEF CloseOk
<1>2. runner[r] = "closingOk" /\ events' = events
      /\ status' = [status EXCEPT ![r] = "completed"]
  BY DEF CloseOk
<1>3. status[r] = "running" /\ EndsIn(r)
  BY <1>2 DEF TypeInv, StepsAgree, RunningSteps, DeliverInv
<1>4. Contract!Tells(r)
  BY <1>3 DEF EndsIn, HasTerminal, Terminal, Contract!Tells
<1> QED
  BY <1>1, <1>2, <1>3, <1>4 DEF Contract!Complete

LEMMA CloseErrorImplements ==
  ASSUME TypeInv, NEW r \in Runs, CloseError(r)
  PROVE  Contract!Fail(r)
<1>1. /\ UNCHANGED Contract!linkVars
      /\ events' \in {events, [events EXCEPT ![r] = Append(@, "failed")]}
  <2>1. CASE AppendEvent(r, "failed")
    BY <2>1, NotifyAllKeepsLinks DEF TypeInv, AppendEvent
  <2>2. CASE UNCHANGED <<events, streamVars>>
    BY <2>2, LinksUnchanged DEF streamVars, LinksStay, LinkOf
  <2> QED
    BY <2>1, <2>2 DEF CloseError
<1>2. status[r] = "running" /\ status' = [status EXCEPT ![r] = "failed"]
  BY DEF CloseError, TypeInv, StepsAgree, RunningSteps
<1> QED
  BY <1>1, <1>2 DEF Contract!Fail

\* Any other step of a run's task, its reader or an approve handler emits, or is
\* not seen.
LEMMA TasksImplement ==
  ASSUME TypeInv, NEW r \in Runs,
         \/ AdapterStarted(r) \/ EmitStarted(r) \/ TurnFails(r) \/ TurnOver(r)
         \/ EmitFailed(r) \/ FinalNotify(r)
  PROVE  \/ \E event \in Contract!EventTypes : Contract!Emit(r, event)
         \/ UNCHANGED Contract!contractVars
<1>1. status' = status
  BY DEF AdapterStarted, EmitStarted, TurnFails, TurnOver, EmitFailed, FinalNotify
<1>2. CASE UNCHANGED <<events, streamVars>>
  <2>1. UNCHANGED Contract!linkVars
    BY <1>2, LinksUnchanged DEF streamVars, LinksStay, LinkOf
  <2> QED
    BY <1>1, <1>2, <2>1, StutterKeepsContract
<1>3. CASE NotifyAll(r) /\ events' = events
  BY <1>1, <1>3, NotifyAllKeepsLinks, StutterKeepsContract DEF TypeInv
<1>4. CASE runner[r] \in RunningSteps /\ AppendEvent(r, "started")
  <2>1. status[r] = "running" /\ "started" \in EventTypes
    BY <1>4 DEF TypeInv, StepsAgree, EventTypes
  <2> QED
    BY <1>1, <1>4, <2>1, AppendEventEmits DEF TypeInv
<1>5. CASE runner[r] = "emitFailed" /\ AppendEvent(r, "failed")
  <2>1. status[r] = "failed" /\ "failed" \in EventTypes
    BY <1>5 DEF TypeInv, StepsAgree, EventTypes, Terminal
  <2> QED
    BY <1>1, <1>5, <2>1, AppendEventEmits DEF TypeInv
<1> QED
  BY <1>2, <1>3, <1>4, <1>5
     DEF AdapterStarted, EmitStarted, TurnFails, TurnOver, EmitFailed, FinalNotify, RunningSteps

LEMMA HandlersImplement ==
  ASSUME TypeInv, TellersInv, NEW r \in Runs,
         ReaderTask(r) \/ \E a \in Approvals : ApproveHandler(r, a)
  PROVE  \/ \E event \in Contract!EventTypes : Contract!Emit(r, event)
         \/ UNCHANGED Contract!contractVars
<1>1. status' = status
  BY DEF ReaderTask, RuntimeEvent, RuntimeAsksApproval, HandlerResumes, ApproveHandler,
         Approve, ApproveWritten, ApproveLost, EmitResolved
<1>2. CASE UNCHANGED <<events, streamVars>>
  <2>1. UNCHANGED Contract!linkVars
    BY <1>2, LinksUnchanged DEF streamVars, LinksStay, LinkOf
  <2> QED
    BY <1>1, <1>2, <2>1, StutterKeepsContract
<1>3. CASE \E event \in EventTypes : reader[r] # "off" /\ AppendEvent(r, event)
  <2>1. status[r] = "running"
    BY <1>3 DEF TellersInv
  <2> QED
    BY <1>1, <1>3, <2>1, AppendEventEmits DEF TypeInv
<1>4. CASE \E a \in Approvals : approval[r][a] # "unseen" /\ AppendEvent(r, "approval_resolved")
  <2>1. status[r] # "none" /\ "approval_resolved" \in EventTypes
    BY <1>4 DEF TellersInv, EventTypes
  <2> QED
    BY <1>1, <1>4, <2>1, AppendEventEmits DEF TypeInv
<1>5. CASE ReaderTask(r)
  BY <1>2, <1>3, <1>5 DEF ReaderTask, RuntimeEvent, RuntimeAsksApproval, HandlerResumes,
                          HandlerEmits, EventTypes, Terminal
<1>6. CASE \E a \in Approvals : ApproveHandler(r, a)
  BY <1>2, <1>4, <1>6 DEF ApproveHandler, Approve, ApproveWritten, ApproveLost, EmitResolved
<1> QED
  BY <1>5, <1>6

\* The top of the loop delivers, or ends a run's exhausted list, or goes on.
LEMMA LoopTopImplements ==
  ASSUME TypeInv, NEW s \in Streams, NEW q, LoopTop(s, q),
         streamPc[s] \in {"yielded", "reacquiring", "keepalive"},
         UNCHANGED <<bridgeVars, events, streamRun>>
  PROVE  Contract!Deliver(s) \/ Contract!End(s) \/ UNCHANGED Contract!contractVars
<1>1. /\ LinkOf(s) = "open" /\ RunSeen(s) = streamRun[s] /\ CursorSeen(s) = cursor[s]
      /\ UNCHANGED <<status, events>> /\ streamRun[s] \in Runs
      /\ cursor[s] \in Nat /\ Len(events[streamRun[s]]) \in Nat
  BY DEF LinkOf, RunSeen, CursorSeen, bridgeVars, TypeInv, TypeOK, StepsAgree
<1>2. OthersStay(s)
  BY DEF LoopTop, StreamMoves, OthersStay, TypeInv, TypeOK
<1>3. /\ RunSeen(s)' = IF LinkOf(s)' = "off" THEN NoRun ELSE streamRun[s]
      /\ CursorSeen(s)' = IF LinkOf(s)' = "off" THEN 0 ELSE cursor'[s]
  BY DEF RunSeen, CursorSeen
<1> DEFINE link == [u \in Streams |-> LinkOf(u)]
           run == [u \in Streams |-> IF LinkOf(u) = "off" THEN NoRun ELSE streamRun[u]]
           place == [u \in Streams |-> IF LinkOf(u) = "off" THEN 0 ELSE cursor[u]]
<1>m. /\ link[s] = "open" /\ run[s] = streamRun[s] /\ place[s] = cursor[s]
      /\ run = [run EXCEPT ![s] = streamRun[s]]
      /\ link = [link EXCEPT ![s] = "open"]
      /\ place = [place EXCEPT ![s] = cursor[s]]
  BY <1>1
<1>n. ASSUME LinkOf(s)' # "off"
      PROVE  /\ link' = [link EXCEPT ![s] = LinkOf(s)']
             /\ run' = run
             /\ place' = [place EXCEPT ![s] = cursor'[s]]
  BY <1>1, <1>2, <1>3, <1>m, <1>n, OneLinkMoves
<1>4. CASE cursor[s] < Len(events[streamRun[s]])
  <2>1. LinkOf(s)' = "open" /\ cursor'[s] = cursor[s] + 1
    BY <1>1, <1>4 DEF LoopTop, StreamMoves, LinkOf, TypeInv, TypeOK
  <2>2. link' = link /\ run' = run /\ place' = [place EXCEPT ![s] = place[s] + 1]
    BY <1>m, <1>n, <2>1
  <2> HIDE DEF link, run, place
  <2>3. /\ link[s] = "open" /\ place[s] < Len(events[run[s]])
        /\ UNCHANGED <<status, events, run, link>>
    BY <1>1, <1>4, <1>m, <2>2
  <2>4. Contract!Deliver(s)
    BY <2>2, <2>3 DEF Contract!Deliver, Contract!runVars, link, run, place
  <2> QED
    BY <2>4
<1>6. CASE cursor[s] >= Len(events[streamRun[s]]) /\ status[streamRun[s]] # "running"
  <2>1. LinkOf(s)' = "ended" /\ cursor' = cursor
    BY <1>1, <1>6 DEF LoopTop, StreamMoves, LinkOf, TypeInv, TypeOK
  <2>3. link' = [link EXCEPT ![s] = "ended"] /\ run' = run /\ place' = place
    BY <1>m, <1>n, <2>1
  <2> HIDE DEF link, run, place
  <2>4. /\ link[s] = "open" /\ place[s] >= Len(events[run[s]]) /\ status[run[s]] # "running"
        /\ UNCHANGED <<status, events, run, place>>
    BY <1>1, <1>6, <1>m, <2>3
  <2>5. Contract!End(s)
    BY <2>3, <2>4 DEF Contract!End, Contract!runVars, link, run, place
  <2> QED
    BY <2>5
<1>5. CASE cursor[s] >= Len(events[streamRun[s]]) /\ status[streamRun[s]] = "running"
  <2>1. LinkOf(s)' = "open" /\ cursor' = cursor
    BY <1>1, <1>5 DEF LoopTop, StreamMoves, LinkOf, TypeInv, TypeOK
  <2>2. LinksStay
    BY <1>1, <1>2, <2>1 DEF LinksStay, OthersStay, LinkOf
  <2> QED
    BY <1>1, <2>1, <2>2, LinksUnchanged, StutterKeepsContract
<1> QED
  BY <1>1, <1>4, <1>5, <1>6

LEMMA ConnectImplements ==
  ASSUME TypeInv, NEW s \in Streams, NEW r \in Runs, StreamConnect(s, r)
  PROVE  \E after \in Afters : Contract!Connect(s, r, after)
<1>1. PICK after \in Afters : cursor' = [cursor EXCEPT ![s] = after]
  BY DEF StreamConnect
<1>2. streamPc[s] = "off" /\ LinkOf(s) = "off"
  BY ConstantsAssumption DEF StreamConnect, TypeInv, StepsAgree, LinkOf
<1>3. /\ LinkOf(s)' = "open" /\ streamRun'[s] = r /\ cursor'[s] = after
      /\ status[r] # "none" /\ UNCHANGED <<status, events>>
  BY <1>1, ConstantsAssumption DEF StreamConnect, StreamMoves, LinkOf, TypeInv, TypeOK, bridgeVars
<1>4. OthersStay(s)
  BY <1>1 DEF StreamConnect, StreamMoves, OthersStay, TypeInv, TypeOK
<1>5. RunSeen(s)' = r /\ CursorSeen(s)' = after
  BY <1>3 DEF RunSeen, CursorSeen
<1> DEFINE link == [u \in Streams |-> LinkOf(u)]
           run == [u \in Streams |-> IF LinkOf(u) = "off" THEN NoRun ELSE streamRun[u]]
           place == [u \in Streams |-> IF LinkOf(u) = "off" THEN 0 ELSE cursor[u]]
<1>6. link[s] = "off"
  BY <1>2
<1>7. /\ link' = [link EXCEPT ![s] = "open"]
      /\ run' = [run EXCEPT ![s] = r]
      /\ place' = [place EXCEPT ![s] = after]
  BY <1>3, <1>4, <1>5, OneLinkMoves
<1> HIDE DEF link, run, place
<1>8. Contract!Connect(s, r, after)
  BY <1>3, <1>6, <1>7 DEF Contract!Connect, Contract!runVars, link, run, place
<1> QED
  BY <1>8

\* A client that goes away leaves, wherever the generator still has to pass.
LEMMA DisconnectImplements ==
  ASSUME TypeInv, NEW s \in Streams, Disconnect(s)
  PROVE  Contract!Leave(s)
<1>1. LinkOf(s)' = "off" /\ UNCHANGED <<status, events>> /\ OthersStay(s)
  BY DEF Disconnect, StreamMoves, LinkOf, OthersStay, TypeInv, TypeOK, bridgeVars
<1>2. RunSeen(s)' = NoRun /\ CursorSeen(s)' = 0
  BY <1>1 DEF RunSeen, CursorSeen
<1> DEFINE link == [u \in Streams |-> LinkOf(u)]
           run == [u \in Streams |-> IF LinkOf(u) = "off" THEN NoRun ELSE streamRun[u]]
           place == [u \in Streams |-> IF LinkOf(u) = "off" THEN 0 ELSE cursor[u]]
<1>3. /\ link' = [link EXCEPT ![s] = "off"]
      /\ run' = [run EXCEPT ![s] = NoRun]
      /\ place' = [place EXCEPT ![s] = 0]
  BY <1>1, <1>2, OneLinkMoves
<1> HIDE DEF link, run, place
<1> QED
  BY <1>1, <1>3 DEF Contract!Leave, Contract!runVars, link, run, place

\* The rest of a stream's steps, waiting for the lock and having it, are not seen.
LEMMA WaitsImplement ==
  ASSUME TypeInv, NEW s \in Streams,
         \/ StreamWait(s) \/ StreamReacquire(s) \/ StreamTimeout(s) \/ KeepAlive(s) \/ Leave(s)
  PROVE  UNCHANGED Contract!contractVars
<1>1. UNCHANGED <<status, events, streamRun, cursor>>
  BY DEF StreamWait, StreamReacquire, StreamTimeout, KeepAlive, Leave, bridgeVars
<1>2. LinksStay
  BY DEF StreamWait, StreamReacquire, StreamTimeout, KeepAlive, Leave, StreamMoves,
         LinksStay, LinkOf, TypeInv, TypeOK
<1> QED
  BY <1>1, <1>2, LinksUnchanged, StutterKeepsContract

LEMMA NextImplements ==
  ASSUME TypeInv, DeliverInv, TellersInv, [Next]_vars
  PROVE  [Contract!Next]_(Contract!contractVars)
<1>1. ASSUME NEW r \in Runs, NEW k \in Sessions, StartTurn(r, k) PROVE Contract!Next
  BY <1>1, StartTurnImplements DEF Contract!Next
<1>2. ASSUME NEW r \in Runs, RunTask(r)
      PROVE  Contract!Next \/ UNCHANGED Contract!contractVars
  BY <1>2, CloseOkImplements, CloseErrorImplements, TasksImplement DEF RunTask, Contract!Next
<1>3. ASSUME NEW r \in Runs, ReaderTask(r) \/ \E a \in Approvals : ApproveHandler(r, a)
      PROVE  Contract!Next \/ UNCHANGED Contract!contractVars
  BY <1>3, HandlersImplement DEF Contract!Next
<1>4. ASSUME NEW s \in Streams, NEW r \in Runs, StreamConnect(s, r) PROVE Contract!Next
  BY <1>4, ConnectImplements DEF Contract!Next
<1>5. ASSUME NEW s \in Streams, StreamNext(s) \/ StreamResume(s) \/ KeepAliveResume(s)
      PROVE  Contract!Next \/ UNCHANGED Contract!contractVars
  <2>1. /\ streamPc[s] \in {"yielded", "reacquiring", "keepalive"} /\ \E q : LoopTop(s, q)
        /\ UNCHANGED <<bridgeVars, events, streamRun>>
    BY <1>5 DEF StreamNext, StreamResume, KeepAliveResume
  <2> QED
    BY <2>1, LoopTopImplements DEF Contract!Next
<1>6. ASSUME NEW s \in Streams, Disconnect(s) PROVE Contract!Next
  BY <1>6, DisconnectImplements DEF Contract!Next
<1>7. CASE UNCHANGED vars
  <2>1. UNCHANGED Contract!linkVars
    BY <1>7, LinksUnchanged DEF vars, LinksStay, LinkOf
  <2> QED
    BY <1>7, <2>1, StutterKeepsContract DEF vars
<1> QED
  BY <1>1, <1>2, <1>3, <1>4, <1>5, <1>6, <1>7, WaitsImplement DEF Next, Stream

\* Every bridge, with any number of runs, streams and approvals, keeps the
\* contract its users rely on: each step of its coroutines is a step of the
\* contract or is not seen.
THEOREM BridgeImplementsContract == Spec => ImplementsContract
<1>1. Init => Contract!Init
  BY DEF Init, Contract!Init, LinkOf
<1>2. Init => DeliverInv /\ TellersInv
  BY DEF Init, DeliverInv, TellersInv
<1> QED
  BY InitTypeInv, NextTypeInv, <1>1, <1>2, NextDelivers, NextTellers, NextImplements,
     PTL DEF Spec, ImplementsContract, Contract!Spec
=============================================================================
