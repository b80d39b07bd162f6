------------------------------ MODULE TurnRelay ------------------------------
(***************************************************************************)
(* A turn as it is followed through three processes: the bridge that runs  *)
(* it (BridgeContract), the console that keeps a row about it and relays   *)
(* its events (agent_registry/api.py, runtime_client.py), and the pages    *)
(* that follow it (AgentsPage.vue).  Each may be restarted, and every link *)
(* between them may break.                                                 *)
(*                                                                         *)
(* One session.  A page is a browser tab with a sessionStorage of its own; *)
(* it shows the session or another one.  A page has at most one relay, so  *)
(* the streams of the bridge are named after the pages.                    *)
(***************************************************************************)
EXTENDS BridgeContract

CONSTANTS
  Extras,         \* what a turn may tell besides its end
  MaxDisturbances \* bound: restarts, broken links, failed answers, visits of
                  \* the page, and what turns tell besides their ends

Pages == Streams

ASSUME RelayAssumption ==
  /\ NoRun \notin Runs /\ 0 \in Afters
  /\ Extras \subseteq Quotes \cup {"completed", "failed"}
  /\ MaxDisturbances \in Nat

VARIABLES
  known,      \* the runs the bridge has in memory
  slot,       \* active_sessions: the run that holds the session
  failing,    \* runs that have failed and have not told so
  op,         \* the status in agent_runtime_operations, "none" without a row
  dropped,    \* relay: how many events have left the buffer of 512 characters
  pipe,       \* relay: the event on its way to the page
  start,      \* POST /turns of a page: how far it is, its run, who waits for it
  shown,      \* the page shows this session
  stored,     \* sessionStorage: the run it remembers for the session
  current,    \* currentRunId
  source,     \* eventSource: "none", "opening", "open", "broken"
  checks,     \* runs whose status it has asked for after a broken stream
  told,       \* runs it has told its user it no longer follows
  disturbances,
  robbed,     \* history: runs whose slot was given up by another run
  broke       \* history: runs a relay of which ended with an error

bridgeVars == <<known, slot, failing, robbed>>
relayVars == <<bridgeVars, op, dropped, pipe>>
pageVars == <<start, shown, stored, current, source, checks, told>>
vars == <<contractVars, relayVars, pageVars, disturbances, broke>>

Ends == {"completed", "failed"}   \* events that end a turn
Told == Quotes \cup Ends          \* events that the relay takes note of
Outcomes == {"completed", "interrupted", "failed"}
NoStart == [step |-> "idle", run |-> NoRun, page |-> "fresh"]
Starts == [step : {"idle", "sent", "accepted", "recorded"}, run : Runs \cup {NoRun},
           page : {"fresh", "stale", "gone"}]

TypeOK ==
  /\ status \in [Runs -> {"none", "running"} \cup Ends]
  /\ events \in [Runs -> Seq(Told)]
  /\ streamRun \in [Pages -> Runs \cup {NoRun}]
  /\ link \in [Pages -> {"off", "open", "ended"}]
  /\ cursor \in [Pages -> Nat]
  /\ known \subseteq Runs
  /\ slot \in Runs \cup {NoRun}
  /\ failing \subseteq Runs
  /\ op \in [Runs -> {"none", "running"} \cup Outcomes]
  /\ dropped \in [Pages -> Nat]
  /\ pipe \in [Pages -> Told \cup {"none"}]
  /\ start \in [Pages -> Starts]
  /\ shown \in [Pages -> BOOLEAN]
  /\ stored \in [Pages -> Runs \cup {NoRun}]
  /\ current \in [Pages -> Runs \cup {NoRun}]
  /\ source \in [Pages -> {"none", "opening", "open", "broken"}]
  /\ checks \in [Pages -> SUBSET Runs]
  /\ told \in [Pages -> SUBSET Runs]
  /\ disturbances \in 0..MaxDisturbances
  /\ robbed \subseteq Runs
  /\ broke \subseteq Runs

RelayInit ==
  /\ Init
  /\ known = {}
  /\ op = [r \in Runs |-> "none"]
  /\ slot = NoRun
  /\ failing = {}
  /\ dropped = [p \in Pages |-> 0]
  /\ pipe = [p \in Pages |-> "none"]
  /\ start = [p \in Pages |-> NoStart]
  /\ shown = [p \in Pages |-> TRUE]
  /\ stored = [p \in Pages |-> NoRun]
  /\ current = [p \in Pages |-> NoRun]
  /\ source = [p \in Pages |-> "none"]
  /\ checks = [p \in Pages |-> {}]
  /\ told = [p \in Pages |-> {}]
  /\ disturbances = 0
  /\ robbed = {}
  /\ broke = {}

Disturb ==
  /\ disturbances < MaxDisturbances
  /\ disturbances' = disturbances + 1

Live(r) == r \in known /\ status[r] = "running"

\* complete_runtime_operation: an UPDATE, which finds the row or does not.
Record(r, outcome) ==
  op' = IF op[r] = "none" THEN op ELSE [op EXCEPT ![r] = outcome]

-----------------------------------------------------------------------------
(* The bridge.                                                             *)

\* The end of the turn, or a text that quotes one, or one more end: the messages
\* of the runtime are read until its client is closed.
BridgeTells(r, event) ==
  /\ r \in known /\ status[r] = "running"
  /\ \/ event \in Ends /\ ~Tells(r) /\ UNCHANGED disturbances
     \/ event \in Extras /\ Disturb
  /\ Emit(r, event)
  /\ UNCHANGED <<relayVars, pageVars, broke>>

\* The finally block of run() gives up the slot of the session, whosever it is.
FreesSlot(r) ==
  /\ slot' = NoRun
  /\ robbed' = robbed \cup ({slot} \ {r, NoRun})

BridgeCompletes(r) ==
  /\ r \in known
  /\ Complete(r)
  /\ FreesSlot(r)
  /\ UNCHANGED <<known, failing, op, dropped, pipe, pageVars, disturbances, broke>>

\* The status first; the event may have to wait for the lock.
BridgeFails(r) ==
  /\ r \in known
  /\ Fail(r) /\ UNCHANGED events
  /\ failing' = failing \cup {r}
  /\ UNCHANGED <<known, slot, robbed, op, dropped, pipe, pageVars, disturbances, broke>>

BridgeTellsFailure(r) ==
  /\ r \in failing
  /\ Emit(r, "failed")
  /\ failing' = failing \ {r}
  /\ FreesSlot(r)
  /\ UNCHANGED <<known, op, dropped, pipe, pageVars, disturbances, broke>>

\* A new process knows no runs; its children, the turns, are gone.
BridgeRestart ==
  /\ known # {}
  /\ Disturb
  /\ known' = {} /\ slot' = NoRun /\ failing' = {}
  /\ UNCHANGED <<contractVars, robbed, op, dropped, pipe, pageVars, broke>>

-----------------------------------------------------------------------------
(* submitTurn and POST /agent-sessions/{session_id}/turns.                 *)

StartMoves(p, to) == start' = [start EXCEPT ![p] = to]

\* Not while the page follows a turn or starts one.
Submit(p) ==
  /\ shown[p] /\ current[p] = NoRun
  /\ start[p] = NoStart
  /\ StartMoves(p, [NoStart EXCEPT !.step = "sent"])
  /\ UNCHANGED <<contractVars, relayVars, shown, stored, current, source, checks, told,
                 disturbances, broke>>

\* client.start_turn: the bridge accepts a turn unless the run that holds the slot
\* of the session is running.
BridgeAccepts(p, r) ==
  /\ start[p].step = "sent"
  /\ ~Live(slot)
  /\ Start(r)
  /\ known' = known \cup {r}
  /\ slot' = r
  /\ StartMoves(p, [start[p] EXCEPT !.step = "accepted", !.run = r])
  /\ UNCHANGED <<failing, robbed, op, dropped, pipe, shown, stored, current, source, checks,
                 told, disturbances, broke>>

\* create_runtime_operation.
RecordStart(p) ==
  /\ start[p].step = "accepted"
  /\ op' = [op EXCEPT ![start[p].run] = "running"]
  /\ StartMoves(p, [start[p] EXCEPT !.step = "recorded"])
  /\ UNCHANGED <<contractVars, bridgeVars, dropped, pipe, shown, stored, current, source, checks,
                 told, disturbances, broke>>

\* The bridge is busy.
StartRefused(p) ==
  /\ start[p].step = "sent"
  /\ Live(slot)
  /\ StartMoves(p, NoStart)
  /\ UNCHANGED <<contractVars, relayVars, shown, stored, current, source, checks, told,
                 disturbances, broke>>

\* The bridge cannot be reached, its answer is late (30 s) or lost, the row is
\* not written, or the answer to the page is lost: what happened stays.
StartFails(p) ==
  /\ start[p].step # "idle"
  /\ Disturb
  /\ StartMoves(p, NoStart)
  /\ UNCHANGED <<contractVars, relayVars, shown, stored, current, source, checks, told, broke>>

\* The page remembers the run in any case, and follows it if nobody has selected
\* a session in the meantime.
StartAnswered(p) ==
  LET r == start[p].run IN
  /\ start[p].step = "recorded"
  /\ StartMoves(p, NoStart)
  /\ stored' = IF start[p].page = "gone" THEN stored ELSE [stored EXCEPT ![p] = r]
  /\ IF start[p].page = "fresh"
     THEN /\ current' = [current EXCEPT ![p] = r]
          /\ source' = [source EXCEPT ![p] = "opening"]
          /\ told' = [told EXCEPT ![p] = {}]
     ELSE UNCHANGED <<current, source, told>>
  /\ UNCHANGED <<contractVars, relayVars, shown, checks, disturbances, broke>>

-----------------------------------------------------------------------------
(* GET /agent-turns/{run_id}/events: the generator stream().               *)

\* The bridge's list is read from its beginning; a run the bridge does not know
\* is a 404, which fails the operation.
RelayOpens(p) ==
  LET r == current[p] IN
  /\ source[p] = "opening"
  /\ IF r \in known
     THEN /\ Connect(p, r, 0)
          /\ source' = [source EXCEPT ![p] = "open"]
          /\ UNCHANGED <<op, broke>>
     ELSE /\ source' = [source EXCEPT ![p] = "broken"]
          /\ Record(r, "failed")
          /\ broke' = broke \cup {r}
          /\ UNCHANGED contractVars
  /\ UNCHANGED <<bridgeVars, dropped, pipe, start, shown, stored, current, checks, told, disturbances>>

\* Fault: any event is taken for the end of a completed turn.
ReadsCompleted(event) == "completed"

\* The outcome that the search for "event: completed" and the like finds in an
\* event: a text is searched as well.
Reads(event) ==
  CASE event = "quotes_completed" -> "completed"
    [] event = "quotes_interrupted" -> "interrupted"
    [] event = "quotes_failed" -> "failed"
    [] OTHER -> event

\* What the buffer shows once n events have gone through it.
Buffer(p, n) == {Reads(events[streamRun[p]][i]) : i \in dropped[p] + 1 .. n}

\* Fault: the chunk is yielded before the buffer is searched.
OutcomeLate(p, n, r) ==
  IF "completed" \in Buffer(p, n - 1) THEN "completed"
  ELSE IF "failed" \in Buffer(p, n - 1) THEN "failed" ELSE op[r]

\* Fault: the type of the last event is written for the status.
OutcomeVerbatim(p, n, r) == IF n = 0 THEN op[r] ELSE events[r][n]

\* What stream() writes, in the order in which it looks for the outcomes.
Outcome(p, n, r) ==
  IF "completed" \in Buffer(p, n) THEN "completed"
  ELSE IF "interrupted" \in Buffer(p, n) THEN "interrupted"
  ELSE IF "failed" \in Buffer(p, n) THEN "failed" ELSE op[r]

\* The row is updated by the buffer with n events in it; then the oldest leave.
Searches(p, n) ==
  /\ Record(streamRun[p], Outcome(p, n, streamRun[p]))
  /\ \E gone \in dropped[p]..n : dropped' = [dropped EXCEPT ![p] = gone]

\* The row is updated, then the chunk is yielded.
RelayChunk(p) ==
  LET n == cursor[p] + 1 IN
  /\ source[p] = "open"
  /\ pipe[p] = "none"
  /\ Deliver(p)
  /\ Searches(p, n)
  /\ pipe' = [pipe EXCEPT ![p] = events[streamRun[p]][n]]
  /\ UNCHANGED <<bridgeVars, pageVars, disturbances, broke>>

\* A chunk of plain text or of a tool's output: what the buffer still shows is
\* found once more.
RelayText(p) ==
  /\ source[p] = "open"
  /\ pipe[p] = "none"
  /\ Searches(p, cursor[p])
  /\ UNCHANGED <<contractVars, bridgeVars, pipe, pageVars, disturbances, broke>>

\* The generator is over, and its buffer with it.
RelayOver(p) == Leave(p) /\ dropped' = [dropped EXCEPT ![p] = 0]

\* The bridge ends the stream, and so does the relay, without a word.
RelayEnds(p) ==
  /\ source[p] = "open"
  /\ streamRun[p] \in known
  /\ End(p)
  /\ dropped' = [dropped EXCEPT ![p] = 0]
  /\ source' = [source EXCEPT ![p] = "broken"]
  /\ UNCHANGED <<bridgeVars, op, pipe, start, shown, stored, current, checks, told, disturbances, broke>>

\* The stream from the bridge breaks, with the bridge or on its own.
RelayBreaks(p) ==
  LET r == streamRun[p] IN
  /\ source[p] = "open"
  /\ IF r \in known THEN Disturb ELSE UNCHANGED disturbances
  /\ RelayOver(p)
  /\ Record(r, "failed")
  /\ broke' = broke \cup {r}
  /\ source' = [source EXCEPT ![p] = "broken"]
  /\ UNCHANGED <<bridgeVars, pipe, start, shown, stored, current, checks, told>>

\* The connection of the page breaks: the generator is cancelled at its yield.
PageLinkBreaks(p) ==
  /\ source[p] \in {"opening", "open"}
  /\ Disturb
  /\ RelayOver(p)
  /\ pipe' = [pipe EXCEPT ![p] = "none"]
  /\ source' = [source EXCEPT ![p] = "broken"]
  /\ UNCHANGED <<bridgeVars, op, start, shown, stored, current, checks, told, broke>>

\* The console is restarted: no handler survives.
ConsoleRestart ==
  /\ Disturb
  /\ start' = [p \in Pages |-> NoStart]
  /\ LeaveAll
  /\ dropped' = [p \in Pages |-> 0]
  /\ pipe' = [p \in Pages |-> "none"]
  /\ source' = [p \in Pages |-> IF source[p] = "none" THEN "none" ELSE "broken"]
  /\ checks' = [p \in Pages |-> {}]
  /\ told' = [p \in Pages |-> told[p] \cup checks[p]]
  /\ UNCHANGED <<bridgeVars, op, shown, stored, current, broke>>

-----------------------------------------------------------------------------
(* The page: handleTurnEvent, onerror, recoverDisconnectedRun.             *)

\* closeEventStream: the browser closes the connection, which ends the relay.
CloseSource(p) ==
  /\ RelayOver(p)
  /\ pipe' = [pipe EXCEPT ![p] = "none"]
  /\ source' = [source EXCEPT ![p] = "none"]

\* Fault: what is remembered is dropped whatever run it is.
ForgetAny(p, r) == stored' = [stored EXCEPT ![p] = NoRun]

\* forgetActiveRun: unless another run is remembered by now.
Forget(p, r) == stored' = IF stored[p] = r THEN [stored EXCEPT ![p] = NoRun] ELSE stored

\* What handleTurnEvent does at the end of a turn, and clearStaleRun.
LetGo(p, r) ==
  /\ Forget(p, r)
  /\ IF shown[p] /\ current[p] = r
     THEN current' = [current EXCEPT ![p] = NoRun] /\ CloseSource(p)
     ELSE UNCHANGED <<linkVars, dropped, current, pipe, source>>

HandleEvent(p) ==
  /\ pipe[p] # "none"
  /\ IF pipe[p] \in Ends
     THEN LetGo(p, current[p])
     ELSE /\ pipe' = [pipe EXCEPT ![p] = "none"]
          /\ UNCHANGED <<linkVars, dropped, stored, current, source>>
  /\ UNCHANGED <<runVars, bridgeVars, op, start, shown, checks, told, disturbances, broke>>

OnError(p) ==
  /\ source[p] = "broken"
  /\ pipe[p] = "none"
  /\ CloseSource(p)
  /\ checks' = [checks EXCEPT ![p] = @ \cup {current[p]}]
  /\ UNCHANGED <<runVars, bridgeVars, op, start, shown, stored, current, told,
                 disturbances, broke>>

\* Fault: the user is not told that nobody follows the run any more.
TellsNoUser(p, r) == UNCHANGED told

\* notifyError.
TellsUser(p, r) == told' = IF shown[p] /\ current[p] = r THEN [told EXCEPT ![p] = @ \cup {r}] ELSE told

\* reconcileRunState: a run that is settled, or has no row, is let go.
CheckAnswered(p, r) ==
  /\ r \in checks[p]
  /\ checks' = [checks EXCEPT ![p] = @ \ {r}]
  /\ IF op[r] = "running"
     THEN TellsUser(p, r) /\ UNCHANGED <<linkVars, dropped, stored, current, pipe, source>>
     ELSE LetGo(p, r) /\ UNCHANGED told
  /\ UNCHANGED <<runVars, bridgeVars, op, start, shown, disturbances, broke>>

\* The console does not answer; setError tells the user.
CheckFails(p, r) ==
  /\ r \in checks[p]
  /\ Disturb
  /\ checks' = [checks EXCEPT ![p] = @ \ {r}]
  /\ told' = [told EXCEPT ![p] = @ \cup {r}]
  /\ UNCHANGED <<contractVars, relayVars, start, shown, stored, current, source, broke>>

\* stopTurn: interrupting a run the bridge does not know is a 404.  A run it
\* knows is left to the runtime.
StopUnknown(p) ==
  LET r == current[p] IN
  /\ r \in Runs \ known
  /\ LetGo(p, r)
  /\ UNCHANGED <<runVars, bridgeVars, op, start, shown, checks, told, disturbances, broke>>

\* selectSession(this session): the remembered run is followed again.
Shows(p) ==
  /\ shown' = [shown EXCEPT ![p] = TRUE]
  /\ current' = [current EXCEPT ![p] = stored[p]]
  /\ source' = [source EXCEPT ![p] = IF stored[p] = NoRun THEN "none" ELSE "opening"]
  /\ told' = [told EXCEPT ![p] = {}]
  /\ RelayOver(p)
  /\ pipe' = [pipe EXCEPT ![p] = "none"]

\* selectionGeneration: a start that is answered now finds the page changed.
LookedAway(p) ==
  StartMoves(p, IF start[p].page = "fresh" /\ start[p].step # "idle"
                THEN [start[p] EXCEPT !.page = "stale"] ELSE start[p])

Select(p) ==
  /\ Disturb
  /\ Shows(p)
  /\ LookedAway(p)
  /\ UNCHANGED <<runVars, bridgeVars, op, stored, checks, broke>>

\* The page is loaded anew and shows the session it showed.
Reload(p) ==
  /\ Disturb
  /\ Shows(p)
  /\ StartMoves(p, IF start[p].step = "idle" THEN NoStart ELSE [start[p] EXCEPT !.page = "gone"])
  /\ checks' = [checks EXCEPT ![p] = {}]
  /\ UNCHANGED <<runVars, bridgeVars, op, stored, broke>>

\* selectSession(another session).
SelectOther(p) ==
  /\ shown[p]
  /\ shown' = [shown EXCEPT ![p] = FALSE]
  /\ current' = [current EXCEPT ![p] = NoRun]
  /\ told' = [told EXCEPT ![p] = {}]
  /\ CloseSource(p)
  /\ LookedAway(p)
  /\ UNCHANGED <<runVars, bridgeVars, op, stored, checks, disturbances, broke>>

-----------------------------------------------------------------------------
BridgeFinishes(r) == BridgeCompletes(r) \/ BridgeFails(r) \/ BridgeTellsFailure(r)

Bridge(r) == BridgeFinishes(r) \/ \E event \in Told : BridgeTells(r, event)

Starting(p) ==
  \/ RecordStart(p) \/ StartRefused(p) \/ StartFails(p) \/ StartAnswered(p)
  \/ \E r \in Runs : BridgeAccepts(p, r)

Relay(p) == RelayOpens(p) \/ RelayChunk(p) \/ RelayEnds(p) \/ RelayBreaks(p)

Page(p) ==
  HandleEvent(p) \/ OnError(p) \/ \E r \in Runs : CheckAnswered(p, r) \/ CheckFails(p, r)

User(p) == Submit(p) \/ StopUnknown(p) \/ Select(p) \/ Reload(p) \/ SelectOther(p)

RelayNext ==
  \/ \E r \in Runs : Bridge(r)
  \/ \E p \in Pages : Starting(p) \/ Relay(p) \/ RelayText(p) \/ PageLinkBreaks(p) \/ Page(p) \/ User(p)
  \/ BridgeRestart \/ ConsoleRestart

RelaySpec == RelayInit /\ [][RelayNext]_vars

\* A turn ends (RunBridge), relays relay and pages handle what happens to them.
RelayFairness ==
  /\ \A r \in Runs : WF_vars(BridgeFinishes(r))
  /\ \A p \in Pages : WF_vars(Relay(p)) /\ WF_vars(Page(p))

-----------------------------------------------------------------------------
(* Properties.                                                             *)

Emitted(r, types) == \E i \in 1..Len(events[r]) : events[r][i] \in types

\* The row of a turn has the outcome its run told, or one that a text of the turn
\* reads like; it is failed also when a relay of it broke.  Nothing that another
\* turn tells, nor the order in which chunks leave the buffer, makes up an outcome.
OutcomesAreReal ==
  \A r \in Runs :
    /\ op[r] = "completed" => Emitted(r, {"completed", "quotes_completed"})
    /\ op[r] = "interrupted" => Emitted(r, {"quotes_interrupted"})
    /\ op[r] = "failed" => Emitted(r, {"failed", "quotes_failed"}) \/ r \in broke

\* A page gives up a run it remembers, for none or for another, only when the
\* row of that run is settled, or the turn is no longer running, or the end of
\* another turn took its slot, which lets a new one start beside it.
GivenUpWhenSettled ==
  [][\A p \in Pages :
       stored[p] \in Runs /\ stored'[p] # stored[p]
         => op'[stored[p]] # "running" \/ ~Live(stored[p]) \/ stored[p] \in robbed]_vars

\* While a page follows a run it remembers one: that run, which a reload would
\* find again, or a later one whose answer came after the user had looked at
\* another session.  A late verdict on an earlier run does not take it away.
FollowedIsRemembered == \A p \in Pages : current[p] # NoRun => stored[p] # NoRun

\* A page that follows a run comes to rest: the run is over for it, or it has
\* told its user that it follows it no longer.
PagesComeToRest ==
  \A p \in Pages, r \in Runs : current[p] = r ~> (current[p] # r \/ r \in told[p])
=============================================================================
