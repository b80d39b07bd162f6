---------------------------- MODULE SessionAlerts ----------------------------
(***************************************************************************)
(* Alerts about sessions: AgentRegistryService.reconcile_alerts derives    *)
(* from the session rows who failed, lost its heartbeat or has waited too  *)
(* long, and reconciles the table of alerts with that.  It runs in the     *)
(* handlers of GET /api/alerts and PUT /api/agent-discovery, on a pool of  *)
(* threads, with no lock: a sweep takes the time, reads the rows, looks at *)
(* the clock again for each of them and writes the table.  The rows may    *)
(* change meanwhile, and other sweeps may be anywhere in between.          *)
(***************************************************************************)
EXTENDS AlertEvents, FiniteSets, Functions

CONSTANTS
  Sessions,
  Discovered,     \* sessions with liveness_mode = discovery: never lost
  Others,         \* fingerprints of the alerts of the collectors
  Sweeps,         \* handlers that may sweep at the same time
  Limit,          \* rows a sweep reads at most (500)
  LostAfter,      \* a heartbeat older than this is lost
  WaitAfter,      \* a wait as long as this is too long
  MaxTime,        \* bound: the clock stops there
  MaxReports      \* bound: reports, archives, restores and collections

Codes == {"failed", "lost", "waiting_long"}

ASSUME AlertAssumption ==
  /\ Fingerprints = (Sessions \X Codes) \cup Others
  /\ SourceOfAlert = [f \in Fingerprints |->
                        IF f \in Others THEN "collector" ELSE "agent_registry"]
  /\ (Sessions \X Codes) \cap Others = {}
  /\ Limit \in Nat /\ LostAfter \in Nat /\ WaitAfter \in Nat \ {0}
  /\ MaxTime \in Nat /\ MaxReports \in Nat

VARIABLES
  clock,
  reports,        \* how many of them there were, for the bound
  status,         \* agent_sessions.status, "none" while there is no row
  listed,         \* neither archived nor deleted
  seen, changed, updated,   \* last_seen_at, status_changed_at, updated_at
  sweep,          \* the sweeps in flight
  episodes,       \* history: how often the condition of an alert came up
  slipped,        \* history: changes of a row that a sweep had read, but not
                  \*   yet judged by the clock
  overlapped      \* history: a sweep wrote while another was in flight

rows == <<reports, status, listed, seen, changed, updated>>
vars == <<clock, rows, sweep, alertVars, episodes, slipped, overlapped>>

Live == {"active", "waiting"}
Statuses == Live \cup {"completed", "failed"}
Time == 0..MaxTime

Idle == [step |-> "idle"]
Row == [status : Statuses \cup {"none"}, seen : Time, changed : Time]
InFlight ==
  [step : {"begun"}, now : Time] \cup
  [step : {"read"}, now : Time, left : UNION {[ss -> Row] : ss \in SUBSET Sessions},
   found : SUBSET (Sessions \X Codes)]

TypeOK ==
  /\ clock \in Time
  /\ reports \in 0..MaxReports
  /\ status \in [Sessions -> Statuses \cup {"none"}]
  /\ listed \in [Sessions -> BOOLEAN]
  /\ seen \in [Sessions -> Time]
  /\ changed \in [Sessions -> Time]
  /\ updated \in [Sessions -> Time]
  /\ sweep \in [Sweeps -> InFlight \cup {Idle}]
  /\ episodes \in [Fingerprints -> Nat]
  /\ slipped \in [Sessions -> Nat]
  /\ overlapped \in BOOLEAN
  /\ AlertsTypeOK

Init ==
  /\ clock = 0
  /\ reports = 0
  /\ status = [s \in Sessions |-> "none"]
  /\ listed = [s \in Sessions |-> FALSE]
  /\ seen = [s \in Sessions |-> 0]
  /\ changed = [s \in Sessions |-> 0]
  /\ updated = [s \in Sessions |-> 0]
  /\ sweep = [q \in Sweeps |-> Idle]
  /\ episodes = [f \in Fingerprints |-> 0]
  /\ slipped = [s \in Sessions |-> 0]
  /\ overlapped = FALSE
  /\ AlertsInit

-----------------------------------------------------------------------------
(* What a sweep that began at `now` makes of the row of a session.         *)

RowOf(s) == [status |-> status[s], seen |-> seen[s], changed |-> changed[s]]

\* The status the views derive, by the clock at the time of the view.
EffectiveStatus(s, row) ==
  IF row.status \in Live /\ s \notin Discovered /\ clock - row.seen > LostAfter
  THEN "lost" ELSE row.status

\* Fault: a session that waits is reported as such even when it is lost.
ConditionUnordered(s, row, code, now) ==
  CASE code = "failed" -> row.status = "failed"
    [] code = "lost" -> EffectiveStatus(s, row) = "lost"
    [] OTHER -> row.status = "waiting" /\ row.changed + WaitAfter <= now

Condition(s, row, code, now) ==
  CASE code = "waiting_long" ->
         EffectiveStatus(s, row) = "waiting" /\ row.changed + WaitAfter <= now
    [] OTHER -> EffectiveStatus(s, row) = code

\* The alert that the row of a session calls for, if any.
Alarming(s, row, now) == {f \in {s} \X Codes : Condition(s, row, f[2], now)}

ListedSessions == {s \in Sessions : listed[s]}

\* What is true of the sessions now, however many there are.
Conditions == UNION {Alarming(s, RowOf(s), clock) : s \in ListedSessions}

\* Fault: the listing is one row short.
FirstRowsOneShort(ss) ==
  /\ ss \subseteq ListedSessions
  /\ Cardinality(ss) < Limit
  /\ \A s \in ListedSessions \ ss :
       Cardinality(ss) = Limit - 1 /\ \A t \in ss : updated[t] >= updated[s]

\* ORDER BY updated_at DESC LIMIT 500: ties may fall either way.
FirstRows(ss) ==
  /\ ss \subseteq ListedSessions
  /\ Cardinality(ss) <= Limit
  /\ \A s \in ListedSessions \ ss :
       Cardinality(ss) = Limit /\ \A t \in ss : updated[t] >= updated[s]

-----------------------------------------------------------------------------
(* The registry and the collectors, as far as alerts depend on them.       *)

\* A row changes behind the back of a sweep.
Slips(s) ==
  slipped' = IF \E q \in Sweeps : sweep[q].step = "read" /\ s \in DOMAIN sweep[q].left
             THEN [slipped EXCEPT ![s] = @ + 1] ELSE slipped

\* The condition of an alert comes up anew.
CountEpisodes ==
  episodes' = [f \in Fingerprints |->
    IF f \in Conditions' \ Conditions THEN episodes[f] + 1 ELSE episodes[f]]

Tick ==
  /\ clock < MaxTime
  /\ clock' = clock + 1
  /\ UNCHANGED <<rows, sweep, alertVars, slipped, overlapped>>
  /\ CountEpisodes

\* A registration, a heartbeat or an explicit status, at the time it is taken.
Report(s, st) ==
  /\ reports < MaxReports
  /\ reports' = reports + 1
  /\ status' = [status EXCEPT ![s] = st]
  /\ changed' = [changed EXCEPT ![s] = IF st = status[s] THEN @ ELSE clock]
  /\ seen' = [seen EXCEPT ![s] = clock]
  /\ updated' = [updated EXCEPT ![s] = clock]
  /\ listed' = [listed EXCEPT ![s] = @ \/ status[s] = "none"]
  /\ UNCHANGED <<clock, sweep, alertVars, overlapped>>
  /\ CountEpisodes
  /\ Slips(s)

\* set_archived hides a session or shows it again; its status stays.
SetArchived(s, archived) ==
  /\ reports < MaxReports
  /\ reports' = reports + 1
  /\ status[s] # "none"
  /\ listed' = [listed EXCEPT ![s] = ~archived]
  /\ updated' = [updated EXCEPT ![s] = clock]
  /\ UNCHANGED <<clock, status, seen, changed, sweep, alertVars, overlapped>>
  /\ CountEpisodes
  /\ Slips(s)

\* The last step but one of a collection: whatever issues its snapshots have.
CollectorReconciles(found) ==
  /\ reports < MaxReports
  /\ reports' = reports + 1
  /\ ReconcileAlertEvents(found, {"collector"})
  /\ UNCHANGED <<clock, status, listed, seen, changed, updated, sweep, episodes, slipped,
                 overlapped>>

-----------------------------------------------------------------------------
(* reconcile_alerts.                                                       *)

SweepBegin(q) ==
  /\ sweep[q] = Idle
  /\ sweep' = [sweep EXCEPT ![q] = [step |-> "begun", now |-> clock]]
  /\ UNCHANGED <<clock, rows, alertVars, episodes, slipped, overlapped>>

\* The SELECT of list_sessions.
SweepRead(q) ==
  /\ sweep[q].step = "begun"
  /\ \E ss \in SUBSET Sessions :
       /\ FirstRows(ss)
       /\ sweep' = [sweep EXCEPT ![q] =
            [step |-> "read", now |-> sweep[q].now, left |-> [s \in ss |-> RowOf(s)],
             found |-> {}]]
  /\ UNCHANGED <<clock, rows, alertVars, episodes, slipped, overlapped>>

\* _session_view judges one of the rows by the clock of that moment.
SweepView(q, s) ==
  LET left == sweep[q].left IN
  /\ sweep[q].step = "read"
  /\ s \in DOMAIN left
  /\ sweep' = [sweep EXCEPT ![q] =
       [step |-> "read", now |-> sweep[q].now, left |-> Restrict(left, DOMAIN left \ {s}),
        found |-> sweep[q].found \cup Alarming(s, left[s], sweep[q].now)]]
  /\ UNCHANGED <<clock, rows, alertVars, episodes, slipped, overlapped>>

\* Fault: the slot of a sweep that is over keeps what it found.
SweepEndsHalfway(q) == sweep' = [sweep EXCEPT ![q].step = "idle"]

SweepEnds(q) == sweep' = [sweep EXCEPT ![q] = Idle]

SweepWrite(q) ==
  /\ sweep[q].step = "read" /\ DOMAIN sweep[q].left = {}
  /\ ReconcileAlertEvents(sweep[q].found, {"agent_registry"})
  /\ SweepEnds(q)
  /\ overlapped' = (overlapped \/ \E p \in Sweeps \ {q} : sweep[p] # Idle)
  /\ UNCHANGED <<clock, rows, episodes, slipped>>

-----------------------------------------------------------------------------
Sweep(q) ==
  \/ SweepBegin(q) \/ SweepRead(q) \/ SweepWrite(q)
  \/ \E s \in Sessions : SweepView(q, s)

Next ==
  \/ Tick
  \/ \E s \in Sessions, st \in Statuses : Report(s, st)
  \/ \E s \in Sessions, archived \in BOOLEAN : SetArchived(s, archived)
  \/ \E found \in SUBSET Others : CollectorReconciles(found)
  \/ \E q \in Sweeps : Sweep(q)

Spec == Init /\ [][Next]_vars

\* The watcher reports a scan every interval and the console polls the alerts,
\* so sweeps keep coming; a handler that has begun goes on.
FairSpec == Spec /\ \A q \in Sweeps : WF_vars(Sweep(q))

-----------------------------------------------------------------------------
(* Properties.                                                             *)

\* A session has one active alert at most, however sweeps overlap: what it is
\* shown as is never failed and lost, or lost and waiting, at the same time.
OneAlertPerSession ==
  \A f, g \in Active \ Others : f[1] = g[1] => f = g

\* One outage is one occurrence.  While a sweep reads all the sessions, an alert
\* counts more occurrences than its condition came up only when two sweeps
\* overlapped, and otherwise at most one more for each time that the row of its
\* session changed between the SELECT of a sweep and the look at the clock.
OccurrencesAreEpisodes ==
  \A f \in Fingerprints \ Others :
    occurrences[f] > episodes[f] + slipped[f[1]] => overlapped

\* A producer never touches the alerts of another's sources.
SourcesAreSeparate ==
  [][(\E f \in Others : alert'[f] # alert[f]) =>
       \A f \in Fingerprints \ Others : alert'[f] = alert[f]]_vars

\* A session that stays failed, lost or waiting ends up with an alert that
\* stays, whatever older views were written meanwhile.
AlertsCatchUp ==
  \A f \in Fingerprints \ Others : <>[](f \in Conditions) => <>[](f \in Active)

\* An alert whose reason is gone for good is resolved for good.
AlertsClear ==
  \A f \in Fingerprints \ Others : <>[](f \notin Conditions) => <>[](f \notin Active)
=============================================================================
