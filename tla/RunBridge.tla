----------------------------- MODULE RunBridge -----------------------------
(***************************************************************************)
(* The runtime bridge's RuntimeManager and the HTTP handlers around it     *)
(* (runtime_bridge/app.py), together with the way an adapter drives a turn *)
(* (runtime_bridge/adapters.py).                                           *)
(*                                                                         *)
(* Everything runs on one asyncio event loop.  An action is what happens   *)
(* between two points at which a coroutine may be suspended, so a handler  *)
(* that awaits something that does not suspend (a free lock) stays one     *)
(* action.  Every run owns one asyncio.Condition.  Its lock is the queue   *)
(* lock[r]: the head holds it, the others wait for it in FIFO order, as    *)
(* asyncio.Lock hands it over.                                             *)
(*                                                                         *)
(* The agent runtime (a codex or hermes child process) is external: it may *)
(* send any event, ask for approvals, end the turn, or die, at any time.   *)
(***************************************************************************)
EXTENDS Naturals, Sequences

CONSTANTS
  Runs,        \* run ids (uuid4: a run id is never used twice)
  Sessions,    \* keys (runtime, external_session_id)
  Streams,     \* connections of GET /v1/turns/{run_id}/events: a client
               \* that reconnects is another stream
  Approvals,   \* approval ids a runtime may ask for in a run
  Afters,      \* what clients that connect may say they have (`after`)
  MaxEvents,   \* bound: no text_delta once a run has this many events
  NoRun, NoSession

ASSUME ConstantsAssumption ==
  /\ NoRun \notin Runs
  /\ NoSession \notin Sessions
  /\ MaxEvents \in Nat /\ Afters \subseteq Nat
  /\ {"runner", "reader"} \cap (Streams \cup Approvals) = {}
  /\ Streams \cap Approvals = {}

VARIABLES
  status,     \* RunState.status, "none" before the run exists
  session,    \* the key the run was started for
  active,     \* RuntimeManager.active_sessions
  events,     \* RunState.events, types only; the index is the sequence number
  lock,       \* the lock of RunState.condition: holder first, then waiters
  runner,     \* where the task RunState.task is
  reader,     \* "off", "idle", or the event its handler waits to emit
  complete,   \* the adapter's asyncio.Event `complete`
  approval,   \* AdapterRun.pending_approvals and the approve handlers
  streamRun, streamPc, cursor   \* the generators behind the SSE responses

bridgeVars == <<status, session, active, runner, complete, approval>>
streamVars == <<streamRun, streamPc, cursor>>
vars == <<status, session, active, events, lock, runner, reader, complete,
          approval, streamRun, streamPc, cursor>>

Statuses == {"none", "running", "completed", "failed"}
Terminal == {"completed", "failed"}
EventTypes == Terminal \cup {"started", "text_delta", "approval", "approval_resolved"}
RunnerSteps == {"none", "setup", "emitStarted", "awaiting", "closingOk",
                "closingError", "emitFailed", "finalNotify", "done"}
ApprovalSteps == {"unseen", "pending", "responding", "emitting", "resolved", "lost"}
StreamSteps == {"off", "yielded", "locking", "waiting", "notified", "reacquiring",
                "expired", "keepalive", "leaving", "ended"}
Actors == {"runner", "reader"} \cup Streams \cup Approvals

TypeOK ==
  /\ status \in [Runs -> Statuses]
  /\ session \in [Runs -> Sessions \cup {NoSession}]
  /\ active \in [Sessions -> Runs \cup {NoRun}]
  /\ events \in [Runs -> Seq(EventTypes)]
  /\ lock \in [Runs -> Seq(Actors)]
  /\ runner \in [Runs -> RunnerSteps]
  /\ reader \in [Runs -> {"off", "idle"} \cup EventTypes]
  /\ complete \in [Runs -> BOOLEAN]
  /\ approval \in [Runs -> [Approvals -> ApprovalSteps]]
  /\ streamRun \in [Streams -> Runs \cup {NoRun}]
  /\ streamPc \in [Streams -> StreamSteps]
  /\ cursor \in [Streams -> Nat]

Init ==
  /\ status = [r \in Runs |-> "none"]
  /\ session = [r \in Runs |-> NoSession]
  /\ active = [k \in Sessions |-> NoRun]
  /\ events = [r \in Runs |-> <<>>]
  /\ lock = [r \in Runs |-> <<>>]
  /\ runner = [r \in Runs |-> "none"]
  /\ reader = [r \in Runs |-> "off"]
  /\ complete = [r \in Runs |-> FALSE]
  /\ approval = [r \in Runs |-> [a \in Approvals |-> "unseen"]]
  /\ streamRun = [s \in Streams |-> NoRun]
  /\ streamPc = [s \in Streams |-> "off"]
  /\ cursor = [s \in Streams |-> 0]

-----------------------------------------------------------------------------
(* The condition: its lock, notify_all and emit_event.                     *)

Free(r) == lock[r] = <<>>
Holds(r, actor) == lock[r] # <<>> /\ Head(lock[r]) = actor
Enqueue(r, actor) == lock' = [lock EXCEPT ![r] = Append(@, actor)]
Release(r) == lock' = [lock EXCEPT ![r] = Tail(@)]

\* Fault: a cancelled task stays in the queue.
WithoutForgotten(q, actor) == q

\* A queue after the task `actor` is cancelled while it waits for the lock.
Without(q, actor) ==
  IF \E i \in 1..Len(q) : q[i] = actor
  THEN LET i == CHOOSE i \in 1..Len(q) : q[i] = actor
       IN  SubSeq(q, 1, i - 1) \o SubSeq(q, i + 1, Len(q))
  ELSE q

\* Fault: notify() wakes one stream only.
NotifyAllButOne(r) ==
  LET waiting == {s \in Streams : streamRun[s] = r /\ streamPc[s] = "waiting"} IN
  /\ \/ waiting = {} /\ streamPc' = streamPc
     \/ \E s \in waiting : streamPc' = [streamPc EXCEPT ![s] = "notified"]
  /\ UNCHANGED <<streamRun, cursor>>

\* condition.notify_all(): every stream that waits will compete for the lock.
NotifyAll(r) ==
  /\ streamPc' = [s \in Streams |->
       IF streamRun[s] = r /\ streamPc[s] = "waiting" THEN "notified" ELSE streamPc[s]]
  /\ UNCHANGED <<streamRun, cursor>>

\* The body of emit_event, run by whoever holds the lock.
AppendEvent(r, event) ==
  /\ events' = [events EXCEPT ![r] = Append(@, event)]
  /\ NotifyAll(r)

-----------------------------------------------------------------------------
(* The run task: start_turn, run() and RuntimeAdapter.run_turn.            *)

\* Fault: the check for a running turn is dropped.
BusyUnchecked(k) == FALSE

\* A session accepts a turn unless its active entry is a run in status running.
Busy(k) == active[k] # NoRun /\ status[active[k]] = "running"

StartTurn(r, k) ==
  /\ status[r] = "none"
  /\ ~Busy(k)
  /\ status' = [status EXCEPT ![r] = "running"]
  /\ session' = [session EXCEPT ![r] = k]
  /\ active' = [active EXCEPT ![k] = r]
  /\ runner' = [runner EXCEPT ![r] = "setup"]
  /\ reader' = [reader EXCEPT ![r] = "idle"]
  /\ UNCHANGED <<events, lock, complete, approval, streamVars>>

\* The child process runs, the thread is resumed and the turn submitted.
AdapterStarted(r) ==
  /\ runner[r] = "setup"
  /\ IF Free(r)
     THEN /\ AppendEvent(r, "started")
          /\ runner' = [runner EXCEPT ![r] = "awaiting"]
          /\ UNCHANGED lock
     ELSE /\ Enqueue(r, "runner")
          /\ runner' = [runner EXCEPT ![r] = "emitStarted"]
          /\ UNCHANGED <<events, streamVars>>
  /\ UNCHANGED <<status, session, active, reader, complete, approval>>

EmitStarted(r) ==
  /\ runner[r] = "emitStarted"
  /\ Holds(r, "runner")
  /\ AppendEvent(r, "started")
  /\ Release(r)
  /\ runner' = [runner EXCEPT ![r] = "awaiting"]
  /\ UNCHANGED <<status, session, active, reader, complete, approval>>

\* A request fails or times out, or the turn outlives its 3600 seconds: the
\* exception leaves run_turn through its finally block.
TurnFails(r) ==
  /\ runner[r] \in {"setup", "awaiting"}
  /\ runner' = [runner EXCEPT ![r] = "closingError"]
  /\ UNCHANGED <<status, session, active, events, lock, reader, complete,
                 approval, streamVars>>

TurnOver(r) ==
  /\ runner[r] = "awaiting"
  /\ complete[r]
  /\ runner' = [runner EXCEPT ![r] = "closingOk"]
  /\ UNCHANGED <<status, session, active, events, lock, reader, complete,
                 approval, streamVars>>

\* Fault: close leaves the handler in a state the bridge does not know.
CloseReaderHalfway(r) == reader' = [reader EXCEPT ![r] = "closing"]

\* client.close() has waited for the process; it cancels the reader task.
CloseReader(r) == reader' = [reader EXCEPT ![r] = "off"]

\* The finally block of run(), entered when the lock's queue is q: the session
\* is released, then the condition is notified once more.
Finally(r, q) ==
  /\ active' = [active EXCEPT ![session[r]] = NoRun]
  /\ lock' = [lock EXCEPT ![r] = IF q = <<>> THEN q ELSE Append(q, "runner")]
  /\ runner' = [runner EXCEPT ![r] = IF q = <<>> THEN "done" ELSE "finalNotify"]

CloseOk(r) ==
  LET q == Without(lock[r], "reader")
  IN  /\ runner[r] = "closingOk"
      /\ CloseReader(r)
      /\ status' = [status EXCEPT ![r] = "completed"]
      /\ Finally(r, q)
      /\ IF q = <<>> THEN NotifyAll(r) ELSE UNCHANGED streamVars
      /\ UNCHANGED <<session, events, complete, approval>>

\* status is set before the event is emitted, and the emit may have to wait.
CloseError(r) ==
  LET q == Without(lock[r], "reader")
  IN  /\ runner[r] = "closingError"
      /\ CloseReader(r)
      /\ status' = [status EXCEPT ![r] = "failed"]
      /\ IF q = <<>>
         THEN AppendEvent(r, "failed") /\ Finally(r, q)
         ELSE /\ lock' = [lock EXCEPT ![r] = Append(q, "runner")]
              /\ runner' = [runner EXCEPT ![r] = "emitFailed"]
              /\ UNCHANGED <<active, events, streamVars>>
      /\ UNCHANGED <<session, complete, approval>>

EmitFailed(r) ==
  /\ runner[r] = "emitFailed"
  /\ Holds(r, "runner")
  /\ AppendEvent(r, "failed")
  /\ Finally(r, Tail(lock[r]))
  /\ UNCHANGED <<status, session, reader, complete, approval>>

FinalNotify(r) ==
  /\ runner[r] = "finalNotify"
  /\ Holds(r, "runner")
  /\ NotifyAll(r)
  /\ Release(r)
  /\ runner' = [runner EXCEPT ![r] = "done"]
  /\ UNCHANGED <<status, session, active, events, reader, complete, approval>>

-----------------------------------------------------------------------------
(* The reader task: one message of the runtime at a time, and none while   *)
(* the handler of the previous one waits for the lock.                     *)

\* The handler's effect once its event is in the list.
Handled(r, event) ==
  complete' = [complete EXCEPT ![r] = @ \/ event \in Terminal]

HandlerEmits(r, event) ==
  IF Free(r)
  THEN AppendEvent(r, event) /\ Handled(r, event) /\ UNCHANGED <<lock, reader>>
  ELSE /\ Enqueue(r, "reader")
       /\ reader' = [reader EXCEPT ![r] = event]
       /\ UNCHANGED <<events, complete, streamVars>>

\* A text delta, or the end of the turn: turn/completed or message.complete,
\* and the error event of hermes, after which run_turn returns normally.
RuntimeEvent(r, event) ==
  /\ reader[r] = "idle"
  /\ ~complete[r]
  /\ event = "text_delta" => Len(events[r]) < MaxEvents
  /\ HandlerEmits(r, event)
  /\ UNCHANGED <<status, session, active, runner, approval>>

\* requestApproval: the id is pending before the event is emitted.
RuntimeAsksApproval(r, a) ==
  /\ reader[r] = "idle"
  /\ ~complete[r]
  /\ approval[r][a] = "unseen"
  /\ approval' = [approval EXCEPT ![r][a] = "pending"]
  /\ HandlerEmits(r, "approval")
  /\ UNCHANGED <<status, session, active, runner>>

HandlerResumes(r) ==
  /\ reader[r] \in EventTypes
  /\ Holds(r, "reader")
  /\ AppendEvent(r, reader[r])
  /\ Handled(r, reader[r])
  /\ Release(r)
  /\ reader' = [reader EXCEPT ![r] = "idle"]
  /\ UNCHANGED <<status, session, active, runner, approval>>

-----------------------------------------------------------------------------
(* POST /v1/turns/{run_id}/approvals/{approval_id}.                        *)

\* The adapter pops the id first, then writes the answer to the process.
Approve(r, a) ==
  /\ approval[r][a] = "pending"
  /\ approval' = [approval EXCEPT ![r][a] = "responding"]
  /\ UNCHANGED <<status, session, active, events, lock, runner, reader,
                 complete, streamVars>>

ProcessMayBeAlive(r) == runner[r] \in {"setup", "emitStarted", "awaiting",
                                       "closingOk", "closingError"}
ProcessMayBeDead(r) == runner[r] \notin {"setup", "emitStarted", "awaiting"}

\* The answer is written: approval_resolved is emitted, maybe after a wait.
ApproveWritten(r, a) ==
  /\ approval[r][a] = "responding"
  /\ ProcessMayBeAlive(r)
  /\ IF Free(r)
     THEN /\ AppendEvent(r, "approval_resolved")
          /\ approval' = [approval EXCEPT ![r][a] = "resolved"]
          /\ UNCHANGED lock
     ELSE /\ Enqueue(r, a)
          /\ approval' = [approval EXCEPT ![r][a] = "emitting"]
          /\ UNCHANGED <<events, streamVars>>
  /\ UNCHANGED <<status, session, active, runner, reader, complete>>

\* The process is gone: the write raises, the id stays popped.
ApproveLost(r, a) ==
  /\ approval[r][a] = "responding"
  /\ ProcessMayBeDead(r)
  /\ approval' = [approval EXCEPT ![r][a] = "lost"]
  /\ UNCHANGED <<status, session, active, events, lock, runner, reader,
                 complete, streamVars>>

EmitResolved(r, a) ==
  /\ approval[r][a] = "emitting"
  /\ Holds(r, a)
  /\ AppendEvent(r, "approval_resolved")
  /\ Release(r)
  /\ approval' = [approval EXCEPT ![r][a] = "resolved"]
  /\ UNCHANGED <<status, session, active, runner, reader, complete>>

-----------------------------------------------------------------------------
(* GET /v1/turns/{run_id}/events: the generator stream().                  *)

StreamMoves(s, pc) == streamPc' = [streamPc EXCEPT ![s] = pc]

\* Fault: the loop looks at the status before it drains the events.
LoopTopStatusFirst(s, q) ==
  LET r == streamRun[s] IN
  \/ /\ status[r] # "running"
     /\ StreamMoves(s, "ended")
     /\ lock' = [lock EXCEPT ![r] = q]
     /\ UNCHANGED cursor
  \/ /\ status[r] = "running"
     /\ cursor[s] < Len(events[r])
     /\ cursor' = [cursor EXCEPT ![s] = @ + 1]
     /\ StreamMoves(s, "yielded")
     /\ lock' = [lock EXCEPT ![r] = q]
  \/ /\ status[r] = "running"
     /\ cursor[s] >= Len(events[r])
     /\ StreamMoves(s, "locking")
     /\ lock' = [lock EXCEPT ![r] = Append(q, s)]
     /\ UNCHANGED cursor

\* The top of the loop, reached when the queue is q: yield the next event, or
\* end with the run, or ask for the lock to wait on the condition.
LoopTop(s, q) ==
  LET r == streamRun[s] IN
  \/ /\ cursor[s] < Len(events[r])
     /\ cursor' = [cursor EXCEPT ![s] = @ + 1]
     /\ StreamMoves(s, "yielded")
     /\ lock' = [lock EXCEPT ![r] = q]
  \/ /\ cursor[s] >= Len(events[r])
     /\ status[r] # "running"
     /\ StreamMoves(s, "ended")
     /\ lock' = [lock EXCEPT ![r] = q]
     /\ UNCHANGED cursor
  \/ /\ cursor[s] >= Len(events[r])
     /\ status[r] = "running"
     /\ StreamMoves(s, "locking")
     /\ lock' = [lock EXCEPT ![r] = Append(q, s)]
     /\ UNCHANGED cursor

\* A client connects and says how many events it already has, which may be more
\* than there are.
StreamConnect(s, r) ==
  /\ streamRun[s] = NoRun
  /\ status[r] # "none"
  /\ streamRun' = [streamRun EXCEPT ![s] = r]
  /\ \E after \in Afters : cursor' = [cursor EXCEPT ![s] = after]
  /\ StreamMoves(s, "yielded")
  /\ UNCHANGED <<bridgeVars, events, lock, reader>>

\* The consumer has read what was yielded and asks for more.
StreamNext(s) ==
  /\ streamPc[s] = "yielded"
  /\ LoopTop(s, lock[streamRun[s]])
  /\ UNCHANGED <<bridgeVars, events, reader, streamRun>>

\* condition.wait() releases the lock and waits for a notification.
StreamWait(s) ==
  /\ streamPc[s] = "locking"
  /\ Holds(streamRun[s], s)
  /\ Release(streamRun[s])
  /\ StreamMoves(s, "waiting")
  /\ UNCHANGED <<bridgeVars, events, reader, streamRun, cursor>>

StreamReacquire(s) ==
  /\ streamPc[s] = "notified"
  /\ Enqueue(streamRun[s], s)
  /\ StreamMoves(s, "reacquiring")
  /\ UNCHANGED <<bridgeVars, events, reader, streamRun, cursor>>

StreamResume(s) ==
  /\ streamPc[s] = "reacquiring"
  /\ Holds(streamRun[s], s)
  /\ LoopTop(s, Tail(lock[streamRun[s]]))
  /\ UNCHANGED <<bridgeVars, events, reader, streamRun>>

\* wait_for gives up after 15 s, even while the wait takes the lock again after a
\* notification: the cancelled wait queues for the lock anew before it raises.
StreamTimeout(s) ==
  /\ streamPc[s] \in {"waiting", "notified", "reacquiring"}
  /\ lock' = [lock EXCEPT ![streamRun[s]] = Append(Without(@, s), s)]
  /\ StreamMoves(s, "expired")
  /\ UNCHANGED <<bridgeVars, events, reader, streamRun, cursor>>

\* The keep-alive is yielded inside `async with`: the stream keeps the lock
\* until its consumer asks for more.
KeepAlive(s) ==
  /\ streamPc[s] = "expired"
  /\ Holds(streamRun[s], s)
  /\ StreamMoves(s, "keepalive")
  /\ UNCHANGED <<bridgeVars, events, lock, reader, streamRun, cursor>>

\* Fault: the lock is kept when the consumer comes back.
KeepAliveResumeHolding(s) ==
  /\ streamPc[s] = "keepalive"
  /\ LoopTop(s, lock[streamRun[s]])
  /\ UNCHANGED <<bridgeVars, events, reader, streamRun>>

KeepAliveResume(s) ==
  /\ streamPc[s] = "keepalive"
  /\ Holds(streamRun[s], s)
  /\ LoopTop(s, Tail(lock[streamRun[s]]))
  /\ UNCHANGED <<bridgeVars, events, reader, streamRun>>

\* The client goes away and the generator is cancelled where it is suspended.
\* Inside condition.wait() it still has to reacquire the lock.
Disconnect(s) ==
  LET r == streamRun[s] IN
  /\ \/ /\ streamPc[s] \in {"yielded", "locking", "keepalive"}
        /\ lock' = [lock EXCEPT ![r] = Without(@, s)]
        /\ StreamMoves(s, "off")
     \/ /\ streamPc[s] \in {"waiting", "notified", "reacquiring", "expired"}
        /\ lock' = [lock EXCEPT ![r] = Append(Without(@, s), s)]
        /\ StreamMoves(s, "leaving")
  /\ UNCHANGED <<bridgeVars, events, reader, streamRun, cursor>>

Leave(s) ==
  /\ streamPc[s] = "leaving"
  /\ Holds(streamRun[s], s)
  /\ Release(streamRun[s])
  /\ StreamMoves(s, "off")
  /\ UNCHANGED <<bridgeVars, events, reader, streamRun, cursor>>

-----------------------------------------------------------------------------
RunTask(r) ==
  \/ AdapterStarted(r) \/ EmitStarted(r) \/ TurnFails(r) \/ TurnOver(r)
  \/ CloseOk(r) \/ CloseError(r) \/ EmitFailed(r) \/ FinalNotify(r)

ReaderTask(r) ==
  \/ \E event \in Terminal \cup {"text_delta"} : RuntimeEvent(r, event)
  \/ \E a \in Approvals : RuntimeAsksApproval(r, a)
  \/ HandlerResumes(r)

ApproveHandler(r, a) ==
  \/ Approve(r, a) \/ ApproveWritten(r, a) \/ ApproveLost(r, a) \/ EmitResolved(r, a)

Stream(s) ==
  \/ StreamNext(s) \/ StreamWait(s) \/ StreamReacquire(s) \/ StreamResume(s)
  \/ StreamTimeout(s) \/ KeepAlive(s) \/ KeepAliveResume(s) \/ Leave(s)

Next ==
  \/ \E r \in Runs, k \in Sessions : StartTurn(r, k)
  \/ \E r \in Runs : RunTask(r) \/ ReaderTask(r)
  \/ \E r \in Runs, a \in Approvals : ApproveHandler(r, a)
  \/ \E s \in Streams, r \in Runs : StreamConnect(s, r)
  \/ \E s \in Streams : Stream(s) \/ Disconnect(s)

Spec == Init /\ [][Next]_vars

(* The event loop runs every ready task: the run task, a handler that got   *)
(* the lock, and a stream whose consumer keeps reading.  Nothing obliges a  *)
(* client to connect, a user to approve, or a runtime to say anything.      *)
LoopFairness ==
  /\ \A r \in Runs : WF_vars(RunTask(r)) /\ WF_vars(HandlerResumes(r))
  /\ \A r \in Runs, a \in Approvals :
       WF_vars(ApproveWritten(r, a) \/ ApproveLost(r, a) \/ EmitResolved(r, a))
  /\ \A s \in Streams : WF_vars(Stream(s))

FairSpec == Spec /\ LoopFairness

-----------------------------------------------------------------------------
(* Properties.                                                             *)

HasTerminal(r, n) == \E i \in 1..n : i <= Len(events[r]) /\ events[r][i] \in Terminal

\* An event stream that the bridge itself ends, on a run whose status is
\* completed, has yielded the event that ends the turn, or its client said it has
\* that (the generator drains the list before it looks at the status, and the
\* adapter emits the terminal event before run_turn returns).
CompletedRunsAreDelivered ==
  \A s \in Streams :
    (streamPc[s] = "ended" /\ status[streamRun[s]] = "completed")
      => HasTerminal(streamRun[s], cursor[s])

\* "This session already has a running turn": a session never has two.
OneRunningTurn ==
  \A r, q \in Runs :
    (status[r] = "running" /\ status[q] = "running" /\ session[r] = session[q]) => r = q

\* Two turns of one session run at the same time only after an earlier turn of
\* that session failed: the only run that gives up a slot it no longer owns.
OverlapNeedsAFailure ==
  \A r, q \in Runs :
    (r # q /\ status[r] = "running" /\ status[q] = "running" /\ session[r] = session[q])
      => \E f \in Runs : status[f] = "failed" /\ session[f] = session[r]

\* Nobody waits for a lock that nobody will pass on: whoever is in a queue is
\* still at the step that expects the lock, and is there once.
QueuedActorsExpectTheLock ==
  \A r \in Runs : \A i \in 1..Len(lock[r]) :
    LET actor == lock[r][i] IN
    /\ \A j \in 1..Len(lock[r]) : lock[r][j] = actor => i = j
    /\ actor = "runner" => runner[r] \in {"emitStarted", "emitFailed", "finalNotify"}
    /\ actor = "reader" => reader[r] \in EventTypes
    /\ actor \in Approvals => approval[r][actor] = "emitting"
    /\ actor \in Streams =>
         /\ streamRun[actor] = r
         /\ streamPc[actor] \in {"locking", "reacquiring", "expired", "keepalive", "leaving"}

\* No wake-up is lost: when the task of a run is over, no stream is left waiting
\* for a notification, so streams end with the run and not by their timeout.  A
\* stream that saw the run still running is ahead of the task in the queue.
NoLostWakeUp ==
  \A s \in Streams : streamPc[s] = "waiting" => runner[streamRun[s]] # "done"

\* When consumers read, the task of a turn that was accepted runs to its last
\* line: the turn fails at the latest with its timeout.
TasksFinish == \A r \in Runs : status[r] = "running" ~> runner[r] = "done"

\* When consumers read, every stream of an ended run ends or is gone: whoever is
\* cancelled or leaves while it waits for the lock does not keep it from the rest.
StreamsEnd ==
  \A s \in Streams, r \in Runs :
    (streamRun[s] = r /\ status[r] \in {"completed", "failed"})
      ~> streamPc[s] \in {"off", "ended"}

-----------------------------------------------------------------------------
(* What the bridge's users go by.                                           *)

\* A stream as its consumer sees it.
LinkOf(s) ==
  CASE streamPc[s] \in {"off", "leaving"} -> "off"
    [] streamPc[s] = "ended" -> "ended"
    [] OTHER -> "open"

Contract == INSTANCE BridgeContract WITH
  link <- [s \in Streams |-> LinkOf(s)],
  streamRun <- [s \in Streams |-> IF LinkOf(s) = "off" THEN NoRun ELSE streamRun[s]],
  cursor <- [s \in Streams |-> IF LinkOf(s) = "off" THEN 0 ELSE cursor[s]]

\* However its coroutines interleave, the bridge keeps the contract the relay
\* is built on: a run completes only after its end was told, nothing but late
\* answers follows, and a stream skips nothing and ends with all it could yield.
ImplementsContract == Contract!Spec
=============================================================================
