----------------------------- MODULE Collection -----------------------------
(***************************************************************************)
(* The collection of snapshots: run_collectors_once (collector_runner.py), *)
(* called by the scheduler thread (monitoring.py) and by the handlers of   *)
(* POST /api/collect/run (main.py).                                        *)
(*                                                                         *)
(* Snapshots are taken first; then the status of every module, the metric  *)
(* samples, the alerts and the batch are written, each in a transaction of *)
(* its own.  An exception anywhere ends the collection between two of them *)
(* and leaves what is committed.  The lock and the threads are gone with   *)
(* the process; the daemon thread is cut off wherever it is.               *)
(*                                                                         *)
(* What a collector makes of the machine is its reading: a status, and     *)
(* issues (CollectorRules).  Metric samples and time stamps are left out.  *)
(***************************************************************************)
EXTENDS AlertEvents, CollectorRules, Sequences

CONSTANTS
  Machines,     \* what the collectors may find: of the host, docker, the quotas
  Scheduler,    \* the scheduler thread
  Posts,        \* handlers of POST /api/collect/run
  NoOne,
  MaxChanges,   \* bound: changes of the machine
  MaxFaults     \* bound: failing collectors, exceptions and crashes

\* The order in which they are collected and written.
Order == <<"resources", "docker", "ai_quota">>
Modules == {"resources", "docker", "ai_quota"}
Threads == {Scheduler} \cup Posts

\* What is reported for a collector that raised.
FailedReading == [status |-> "unknown", issues |-> {Issue("collection_failed", "unknown")}]

\* collect_all_snapshots.
Found == [mc \in Machines |-> [m \in Modules |->
  CASE m = "resources" -> ResourcesReading(mc.resources)
    [] m = "docker" -> DockerReading(mc.docker)
    [] OTHER -> QuotaReading(mc.ai_quota)]]

\* The fingerprint of an issue names the module, the code and the subject.
AlertOf(m, i) == [source |-> m, code |-> i.code, subject |-> i.subject]

ASSUME CollectionAssumption ==
  /\ \A mc \in Machines : DOMAIN mc.ai_quota.accounts \subseteq Accounts
  /\ \A f \in Fingerprints : f.source \in Modules
  /\ \A mc \in Machines, m \in Modules :
       \A i \in Found[mc][m].issues \cup FailedReading.issues : AlertOf(m, i) \in Fingerprints
  /\ SourceOfAlert = [f \in Fingerprints |-> f.source]
  /\ NoOne \notin Threads
  /\ MaxChanges \in Nat /\ MaxFaults \in Nat

VARIABLES
  machine,      \* external: what the collectors would find
  changes, faults,   \* how many there were, for the bounds
  holder,       \* _COLLECTION_LOCK
  step,         \* where a thread is in run_collectors_once
  snapshot,     \* what its collectors found
  written,      \* how many modules it has written
  latest,       \* latest_status
  recorded,     \* the newest row of collection_runs
  torn          \* history: the newest collection to write was cut short

inMemory == <<holder, step, snapshot, written>>
vars == <<machine, changes, faults, inMemory, latest, recorded, torn, alertVars>>

NoReading == [status |-> "none", issues |-> {}]
Readings == [status : Statuses, issues : SUBSET Issues]

Steps == {"idle", "collecting", "writing", "alerting", "recording"}
Snapshots == [Modules -> Readings]
NoRun == [m \in Modules |-> NoReading]
Batches == [modules : Snapshots \cup {NoRun}, status : Statuses \cup {"none"}]

TypeOK ==
  /\ machine \in Machines
  /\ changes \in 0..MaxChanges
  /\ faults \in 0..MaxFaults
  /\ holder \in Threads \cup {NoOne}
  /\ step \in [Threads -> Steps]
  /\ snapshot \in [Threads -> Snapshots \cup {NoRun}]
  /\ written \in [Threads -> 0..Len(Order)]
  /\ latest \in [Modules -> Readings \cup {NoReading}]
  /\ recorded \in Batches
  /\ torn \in BOOLEAN
  /\ AlertsTypeOK

Init ==
  /\ machine \in Machines
  /\ changes = 0
  /\ faults = 0
  /\ holder = NoOne
  /\ step = [t \in Threads |-> "idle"]
  /\ snapshot = [t \in Threads |-> NoRun]
  /\ written = [t \in Threads |-> 0]
  /\ latest = NoRun
  /\ recorded = [modules |-> NoRun, status |-> "none"]
  /\ torn = FALSE
  /\ AlertsInit

-----------------------------------------------------------------------------
(* Statuses and alerts.                                                    *)

\* Fault: a module that could not be collected is not worth a mention.
SummaryStatusIgnoresUnknown(ss) ==
  IF "critical" \in ss THEN "critical"
  ELSE IF "warning" \in ss THEN "warning"
  ELSE IF ss = {} THEN "unknown" ELSE "ok"

\* GET /api/summary, which goes by latest_status.
SummaryStatus(ss) ==
  IF "critical" \in ss THEN "critical"
  ELSE IF "warning" \in ss THEN "warning"
  ELSE IF "unknown" \in ss THEN "unknown"
  ELSE IF ss = {} THEN "unknown" ELSE "ok"

StatusesOf(snap) == {snap[m].status : m \in Modules} \ {"none"}

WorthAnAlert(i) == i.status \notin {"ok", "unsupported"}

\* _alerts.  Issues with the same module, code and subject are one alert.
AlertsFor(snap) ==
  {f \in Fingerprints : \E i \in snap[f.source].issues : WorthAnAlert(i) /\ f = AlertOf(f.source, i)}

-----------------------------------------------------------------------------
(* run_collectors_once.                                                    *)

Goes(t, to) == step' = [step EXCEPT ![t] = to]

\* Fault: the caller that is turned away runs the finally block as well.
RefusedReleases(t) ==
  /\ holder' = NoOne
  /\ UNCHANGED <<machine, changes, faults, step, snapshot, written, latest, recorded, torn,
                 alertVars>>

\* "collection_in_progress".
Refused(t) == UNCHANGED vars

\* The lock is tried, never waited for.
Trigger(t) ==
  /\ step[t] = "idle"
  /\ \/ /\ holder = NoOne
        /\ holder' = t
        /\ Goes(t, "collecting")
        /\ UNCHANGED <<machine, changes, faults, snapshot, written, latest, recorded, torn,
                       alertVars>>
     \/ holder # NoOne /\ Refused(t)

\* collect_all_snapshots: a collector that raises does not keep the others from
\* being asked.
Collect(t) ==
  /\ step[t] = "collecting"
  /\ \E failed \in SUBSET Modules :
       /\ failed # {} => faults < MaxFaults
       /\ faults' = IF failed = {} THEN faults ELSE faults + 1
       /\ snapshot' = [snapshot EXCEPT ![t] =
            [m \in Modules |-> IF m \in failed THEN FailedReading ELSE Found[machine][m]]]
  /\ Goes(t, "writing")
  /\ UNCHANGED <<machine, changes, holder, written, latest, recorded, torn, alertVars>>

\* upsert_latest_status, module by module; the metric samples follow the last.
WriteModule(t) ==
  LET n == written[t] + 1 IN
  /\ step[t] = "writing"
  /\ latest' = [latest EXCEPT ![Order[n]] = snapshot[t][Order[n]]]
  /\ written' = [written EXCEPT ![t] = n]
  /\ IF n = Len(Order) THEN Goes(t, "alerting") ELSE UNCHANGED step
  /\ UNCHANGED <<machine, changes, faults, holder, snapshot, recorded, torn, alertVars>>

\* Fault: only the sources that report something are managed.
ManagedByIssues(snap) == {m \in Modules : snap[m].issues # {}}

\* managed_sources = set(payloads).
Managed(snap) == Modules

\* Retention has run if it was due.
ReconcileAlerts(t) ==
  /\ step[t] = "alerting"
  /\ ReconcileAlertEvents(AlertsFor(snapshot[t]), Managed(snapshot[t]))
  /\ Goes(t, "recording")
  /\ UNCHANGED <<machine, changes, faults, holder, snapshot, written, latest, recorded, torn>>

\* Fault: the finally block is lost.
LeavesHolding(t) ==
  /\ UNCHANGED holder
  /\ Goes(t, "idle")
  /\ snapshot' = [snapshot EXCEPT ![t] = NoRun]
  /\ written' = [written EXCEPT ![t] = 0]

\* Fault: what a collection had in hand stays with its thread.
LeavesHalfway(t) ==
  /\ holder' = NoOne
  /\ Goes(t, "left")
  /\ UNCHANGED <<snapshot, written>>

\* The finally block.
Leaves(t) ==
  /\ holder' = NoOne
  /\ Goes(t, "idle")
  /\ snapshot' = [snapshot EXCEPT ![t] = NoRun]
  /\ written' = [written EXCEPT ![t] = 0]

RecordRun(t) ==
  /\ step[t] = "recording"
  /\ recorded' = [modules |-> snapshot[t], status |-> OverallStatus(StatusesOf(snapshot[t]))]
  /\ torn' = FALSE
  /\ Leaves(t)
  /\ UNCHANGED <<machine, changes, faults, latest, alertVars>>

\* An exception: the database is locked or full, retention is misconfigured.
\* The scheduler logs it, a POST answers 500.
Cut(t) ==
  /\ step[t] # "idle"
  /\ faults < MaxFaults
  /\ faults' = faults + 1
  /\ torn' = (torn \/ written[t] > 0)
  /\ Leaves(t)
  /\ UNCHANGED <<machine, changes, latest, recorded, alertVars>>

\* The process dies; a new one starts its own scheduler.
Crash ==
  /\ faults < MaxFaults
  /\ faults' = faults + 1
  /\ torn' = (torn \/ \E t \in Threads : written[t] > 0)
  /\ holder' = NoOne
  /\ step' = [t \in Threads |-> "idle"]
  /\ snapshot' = [t \in Threads |-> NoRun]
  /\ written' = [t \in Threads |-> 0]
  /\ UNCHANGED <<machine, changes, latest, recorded, alertVars>>

MachineChanges ==
  /\ changes < MaxChanges
  /\ changes' = changes + 1
  /\ machine' \in Machines \ {machine}
  /\ UNCHANGED <<faults, inMemory, latest, recorded, torn, alertVars>>

-----------------------------------------------------------------------------
Running(t) ==
  Collect(t) \/ WriteModule(t) \/ ReconcileAlerts(t) \/ RecordRun(t) \/ Cut(t)

Next ==
  \/ \E t \in Threads : Trigger(t) \/ Running(t)
  \/ Crash \/ MachineChanges

Spec == Init /\ [][Next]_vars

\* A collection that runs goes on, and the scheduler tries again every
\* interval, whatever became of the last attempt.  POSTs need not come.
FairSpec ==
  /\ Spec
  /\ \A t \in Threads : WF_vars(Running(t))
  /\ WF_vars(Trigger(Scheduler))

-----------------------------------------------------------------------------
(* Properties.                                                             *)

\* Two collections never interleave their writes, although a caller that is
\* turned away passes through the same function.
OneCollection == \A t \in Threads : step[t] # "idle" <=> holder = t

\* Between collections the tables tell one story: the newest batch, the status
\* of the modules and the active alerts are those of the same snapshots.  Only
\* a collection that was cut short may leave them apart.
TablesAgree ==
  (holder = NoOne /\ ~torn) =>
    latest = recorded.modules /\ Active = AlertsFor(recorded.modules)

\* Two pieces of code sum up the modules; between collections the console's
\* summary says what the newest batch says.
SummaryAgrees ==
  (holder = NoOne /\ ~torn /\ recorded.status # "none")
    => SummaryStatus(StatusesOf(latest)) = recorded.status

Grade(status) ==
  CASE status = "critical" -> 3 [] status = "warning" -> 2 [] status = "unknown" -> 1 [] OTHER -> 0

\* Between collections an active alert shows in the statuses: each issue behind
\* it is no graver than its module, and that no graver than the summary.  The
\* table of alerts and that of the statuses are filled by different code.
StatusCoversAlerts ==
  (holder = NoOne /\ ~torn) =>
    \A f \in Active :
      LET behind == {i \in latest[f.source].issues : AlertOf(f.source, i) = f}
          status == latest[f.source].status
      IN  /\ behind # {}
          /\ \A i \in behind : Grade(i.status) <= Grade(status)
          /\ Grade(status) <= Grade(SummaryStatus(StatusesOf(latest)))

\* When the machine and the faults come to rest, so does the console, with the
\* truth: cut-short collections are made good by the next one.
ConsoleCatchesUp ==
  <>[](latest = Found[machine] /\ Active = AlertsFor(Found[machine]))
=============================================================================
