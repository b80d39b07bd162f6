-------------------------- MODULE CollectionProofs --------------------------
(***************************************************************************)
(* Theorems about Collection, for any modules, readings, threads and       *)
(* faults.                                                                 *)
(***************************************************************************)
EXTENDS Collection, TLAPS

-----------------------------------------------------------------------------
(* The invariant: where a thread is says what it has in hand and what it   *)
(* has written.                                                            *)

PlaceInv ==
  \A t \in Threads :
    /\ step[t] \in {"idle", "collecting"} => written[t] = 0
    /\ step[t] = "writing" => written[t] < Len(Order)
    /\ step[t] \in {"alerting", "recording"} => written[t] = Len(Order)
    /\ step[t] \in {"writing", "alerting", "recording"} => snapshot[t] \in Snapshots

\* The tables follow the collection that writes them.
WritesInv ==
  \A t \in Threads :
    /\ \A i \in 1..written[t] : latest[Order[i]] = snapshot[t][Order[i]]
    /\ step[t] = "recording" => Active = AlertsFor(snapshot[t])

\* Nobody has written since the newest batch.
Agreed ==
  latest = recorded.modules /\ Active = AlertsFor(recorded.modules)
Untouched == \A t \in Threads : written[t] = 0
AgreeInv == (~torn /\ Untouched) => Agreed

BatchInv ==
  recorded.status # "none" => recorded.status = OverallStatus(StatusesOf(recorded.modules))

IInv == TypeOK /\ OneCollection /\ PlaceInv /\ WritesInv /\ AgreeInv /\ BatchInv

-----------------------------------------------------------------------------
LEMMA OrderFacts ==
  /\ Len(Order) \in Nat /\ Len(Order) > 0
  /\ \A i \in 1..Len(Order) : Order[i] \in Modules
  /\ \A m \in Modules : \E i \in 1..Len(Order) : Order[i] = m
  /\ \A i, j \in 1..Len(Order) : Order[i] = Order[j] => i = j
BY DEF Order, Modules

\* Whatever there is to be found, the collectors make a reading of it.
LEMMA JudgedTyped ==
  ASSUME NEW parts, NEW issues \in SUBSET Issues
  PROVE  Judged(parts, issues) \in Readings
BY DEF Judged, Readings, OverallStatus, Statuses

LEMMA IssueTyped ==
  \A code \in Codes, status \in Statuses : Issue(code, status) \in Issues
BY DEF Issue, Issues

LEMMA IssueOfTyped ==
  \A code \in Codes, subject \in CoreContainers \cup Accounts :
    IssueOf(subject, code, "critical") \in Issues /\ IssueOf(subject, code, "warning") \in Issues
BY DEF IssueOf, Issues, Statuses

LEMMA ResourcesTyped == ASSUME NEW h PROVE ResourcesReading(h) \in Readings
<1>1. FilesystemIssues(h) \subseteq Issues
  <2>1. \A n : Above(n, 95, 85) \in Statuses
    BY DEF Above, Statuses
  <2>2. \A n : Issue("filesystem_capacity_high", Above(n, 95, 85)) \in Issues
    BY <2>1, IssueTyped DEF Codes
  <2>3. Issue("filesystem_missing", "critical") \in Issues
    BY IssueTyped DEF Statuses, Codes
  <2> QED
    BY <2>2, <2>3, Zenon DEF FilesystemIssues
<1>2. MemoryIssues(h) \subseteq Issues
  <2>1. /\ Issue("memory_capacity_critical", "critical") \in Issues
        /\ Issue("memory_capacity_high", "warning") \in Issues
    BY IssueTyped DEF Statuses, Codes
  <2> QED
    BY <2>1, Zenon DEF MemoryIssues
<1>3. TemperatureIssues(h) \subseteq Issues
  <2>1. /\ Issue("temperature_critical", "critical") \in Issues
        /\ Issue("temperature_high", "warning") \in Issues
    BY IssueTyped DEF Statuses, Codes
  <2> QED
    BY <2>1, Zenon DEF TemperatureIssues
<1>4. FilesystemIssues(h) \cup MemoryIssues(h) \cup TemperatureIssues(h) \in SUBSET Issues
  BY <1>1, <1>2, <1>3
<1> QED
  BY <1>4, JudgedTyped DEF ResourcesReading

LEMMA DockerTyped == ASSUME NEW d PROVE DockerReading(d) \in Readings
<1>1. /\ {Issue("docker_unavailable", "unknown")} \in SUBSET Issues
      /\ {Issue("docker_bad_response", "unknown")} \in SUBSET Issues
  BY IssueTyped DEF Statuses, Codes
<1>2. \A c \in CoreContainers : IssueOf(c, "core_container_missing", "critical") \in Issues
  BY IssueOfTyped DEF Codes
<1>3. {IssueOf(c, "core_container_missing", "critical") :
         c \in CoreContainers \ DOMAIN d.containers} \in SUBSET Issues
  BY <1>2, Zenon
<1> QED
  BY <1>1, <1>3, JudgedTyped DEF DockerReading

LEMMA QuotaTyped ==
  ASSUME NEW q, DOMAIN q.accounts \subseteq Accounts
  PROVE  QuotaReading(q) \in Readings
<1>1. /\ {Issue("cpa_management_key_missing", "unknown")} \in SUBSET Issues
      /\ {Issue("cpa_auth_files_failed", "unknown")} \in SUBSET Issues
  BY IssueTyped DEF Statuses, Codes
<1>2. \A a \in DOMAIN q.accounts : AccountReading(a, q.accounts[a]).issues \subseteq Issues
  <2> SUFFICES ASSUME NEW a \in DOMAIN q.accounts, NEW account
               PROVE  AccountReading(a, account).issues \subseteq Issues
    OBVIOUS
  <2>1. /\ IssueOf(a, "cpa_quota_missing", "warning") \in Issues
        /\ IssueOf(a, "cpa_quota_fetch_failed", "warning") \in Issues
        /\ IssueOf(a, "cpa_account_disabled", "warning") \in Issues
    BY IssueOfTyped DEF Codes
  <2> QED
    BY <2>1 DEF AccountReading
<1>3. UNION {AccountReading(a, q.accounts[a]).issues : a \in DOMAIN q.accounts} \in SUBSET Issues
  BY <1>2
<1> QED
  BY <1>1, <1>3, JudgedTyped DEF QuotaReading

LEMMA FoundTyped == \A mc \in Machines : Found[mc] \in Snapshots
BY ResourcesTyped, DockerTyped, QuotaTyped, CollectionAssumption DEF Found, Snapshots

LEMMA FailedTyped == FailedReading \in Readings
BY IssueTyped DEF FailedReading, Readings, Statuses, Codes

\* A snapshot is not the empty one: there is a module, and it has a status.
LEMMA SnapshotsAreRuns == \A snap \in Snapshots : snap # NoRun
<1> SUFFICES ASSUME NEW snap \in Snapshots, snap = NoRun PROVE FALSE
  OBVIOUS
<1>1. PICK m : m \in Modules
  BY OrderFacts
<1>3. snap[m].status \in Statuses
  BY <1>1 DEF Snapshots, Readings
<1>4. snap[m].status = "none"
  BY <1>1 DEF NoRun, NoReading
<1> QED
  BY <1>3, <1>4 DEF Statuses

\* One holder: whoever is on its way is alone.
LEMMA OthersAreIdle ==
  ASSUME OneCollection, NEW t \in Threads, step[t] # "idle"
  PROVE  holder = t /\ \A u \in Threads \ {t} : step[u] = "idle"
BY DEF OneCollection

LEMMA ReconcileType ==
  ASSUME AlertsTypeOK, NEW found, NEW managed, ReconcileAlertEvents(found, managed)
  PROVE  AlertsTypeOK'
BY DEF AlertsTypeOK, ReconcileAlertEvents

\* A collection manages every source: what is active afterwards is what it found.
LEMMA ReconcileReplaces ==
  ASSUME AlertsTypeOK, NEW snap, ReconcileAlertEvents(AlertsFor(snap), Managed(snap))
  PROVE  Active' = AlertsFor(snap)
<1>1. \A f \in Fingerprints : SourceOfAlert[f] \in Modules
  BY CollectionAssumption
<1>2. \A f \in Fingerprints : alert'[f] = "active" <=> f \in AlertsFor(snap)
  BY <1>1 DEF AlertsTypeOK, ReconcileAlertEvents, Resolves, Managed
<1> QED
  BY <1>2 DEF Active, AlertsFor

LEMMA InitIInv == Init => IInv
<1> SUFFICES ASSUME Init PROVE IInv
  OBVIOUS
<1>1. NoRun \in [Modules -> Readings \cup {NoReading}]
  BY DEF NoRun
<1>2. TypeOK
  <2>1. AlertsTypeOK
    BY DEF Init, AlertsInit, AlertsTypeOK
  <2>2. recorded \in Batches /\ snapshot \in [Threads -> Snapshots \cup {NoRun}]
    BY DEF Init, Batches
  <2>3. changes \in 0..MaxChanges /\ faults \in 0..MaxFaults
    BY CollectionAssumption DEF Init
  <2>4. written \in [Threads -> 0..Len(Order)] /\ step \in [Threads -> Steps]
    BY OrderFacts DEF Init, Steps
  <2> QED
    BY <1>1, <2>1, <2>2, <2>3, <2>4 DEF Init, TypeOK
<1>3. OneCollection /\ PlaceInv /\ WritesInv
  BY CollectionAssumption DEF Init, OneCollection, PlaceInv, WritesInv
<1>4. Active = {} /\ AlertsFor(NoRun) = {}
  BY CollectionAssumption DEF Init, AlertsInit, Active, AlertsFor, NoRun, NoReading
<1>5. AgreeInv /\ BatchInv
  BY <1>4 DEF Init, AgreeInv, Agreed, BatchInv
<1> QED
  BY <1>2, <1>3, <1>5 DEF IInv

-----------------------------------------------------------------------------
(* One lemma per action.                                                   *)

LEMMA TriggerIInv ==
  ASSUME IInv, NEW t \in Threads, holder = NoOne, holder' = t, step[t] = "idle",
         Goes(t, "collecting"),
         UNCHANGED <<machine, changes, faults, snapshot, written, latest, recorded, torn, alertVars>>
  PROVE  IInv'
<1> USE DEF IInv, Goes, alertVars
<1>1. TypeOK'
  BY DEF TypeOK, Steps, AlertsTypeOK
<1>2. OneCollection'
  BY CollectionAssumption DEF OneCollection, TypeOK
<1>3. PlaceInv' /\ WritesInv'
  BY DEF PlaceInv, WritesInv, TypeOK, Active
<1>4. AgreeInv' /\ BatchInv'
  BY DEF AgreeInv, Agreed, Untouched, BatchInv, Active
<1> QED
  BY <1>1, <1>2, <1>3, <1>4

LEMMA CollectIInv ==
  ASSUME IInv, NEW t \in Threads, Collect(t)
  PROVE  IInv'
<1> USE DEF IInv, Collect, Goes, alertVars
<1>0. PICK failed \in SUBSET Modules :
        /\ failed # {} => faults < MaxFaults
        /\ faults' = IF failed = {} THEN faults ELSE faults + 1
        /\ snapshot' = [snapshot EXCEPT ![t] =
             [m \in Modules |-> IF m \in failed THEN FailedReading ELSE Found[machine][m]]]
  OBVIOUS
<1>1. faults' \in 0..MaxFaults
  BY <1>0, CollectionAssumption DEF TypeOK
<1>2. [m \in Modules |-> IF m \in failed THEN FailedReading ELSE Found[machine][m]] \in Snapshots
  BY FoundTyped, FailedTyped DEF Snapshots, TypeOK
<1>3. TypeOK'
  BY <1>0, <1>1, <1>2 DEF TypeOK, Steps, AlertsTypeOK
<1>4. OneCollection'
  BY DEF OneCollection, TypeOK
<1>5. written[t] = 0 /\ Len(Order) > 0
  BY OrderFacts DEF PlaceInv
<1>6. PlaceInv'
  BY <1>0, <1>2, <1>5 DEF PlaceInv, TypeOK
<1>7. WritesInv'
  BY <1>0, <1>5 DEF WritesInv, TypeOK, Active
<1>8. AgreeInv' /\ BatchInv'
  BY DEF AgreeInv, Agreed, Untouched, BatchInv, Active
<1> QED
  BY <1>3, <1>4, <1>6, <1>7, <1>8

LEMMA WriteModuleIInv ==
  ASSUME IInv, NEW t \in Threads, WriteModule(t)
  PROVE  IInv'
<1> DEFINE n == written[t] + 1
<1> USE DEF IInv, Goes, alertVars
<1>1. /\ step[t] = "writing" /\ written[t] \in Nat /\ n \in 1..Len(Order)
      /\ latest' = [latest EXCEPT ![Order[n]] = snapshot[t][Order[n]]]
      /\ written' = [written EXCEPT ![t] = n]
      /\ step' = IF n = Len(Order) THEN [step EXCEPT ![t] = "alerting"] ELSE step
      /\ UNCHANGED <<machine, changes, faults, holder, snapshot, recorded, torn, alertVars>>
  BY OrderFacts DEF WriteModule, TypeOK, PlaceInv
<1>2. snapshot[t] \in Snapshots /\ Order[n] \in Modules
  BY <1>1, OrderFacts DEF PlaceInv
<1>3. TypeOK'
  <2>1. latest' \in [Modules -> Readings \cup {NoReading}]
    BY <1>1, <1>2 DEF TypeOK, Snapshots
  <2>2. written' \in [Threads -> 0..Len(Order)]
    BY <1>1, OrderFacts DEF TypeOK
  <2>3. step' \in [Threads -> Steps]
    BY <1>1 DEF TypeOK, Steps
  <2> QED
    BY <1>1, <2>1, <2>2, <2>3 DEF TypeOK, AlertsTypeOK
<1>4. \A u \in Threads \ {t} : step[u] = "idle" /\ written[u] = 0
  BY <1>1, OthersAreIdle DEF PlaceInv
<1>5. OneCollection'
  BY <1>1 DEF OneCollection, TypeOK
<1>6. PlaceInv'
  BY <1>1, <1>2, <1>4, OrderFacts DEF PlaceInv, TypeOK
<1>7. WritesInv'
  <2>1. \A u \in Threads \ {t} : written'[u] = 0 /\ step'[u] = "idle"
    BY <1>1, <1>4 DEF TypeOK
  <2>2. step'[t] # "recording" /\ written'[t] = n
    BY <1>1 DEF TypeOK
  <2>3. ASSUME NEW i \in 1..n PROVE latest'[Order[i]] = snapshot'[t][Order[i]]
    <3>1. CASE i = n
      BY <1>1, <1>2, <3>1 DEF TypeOK
    <3>2. CASE i # n
      <4>1. i \in 1..written[t] /\ i \in 1..Len(Order)
        BY <1>1, <3>2, OrderFacts
      <4>2. Order[i] # Order[n] /\ Order[i] \in Modules
        BY <1>1, <3>2, <4>1, OrderFacts
      <4> QED
        BY <1>1, <4>1, <4>2 DEF WritesInv, TypeOK
    <3> QED
      BY <3>1, <3>2
  <2> QED
    BY <2>1, <2>2, <2>3 DEF WritesInv
<1>8. ~Untouched' /\ BatchInv'
  BY <1>1 DEF Untouched, BatchInv, TypeOK
<1> QED
  BY <1>3, <1>5, <1>6, <1>7, <1>8 DEF AgreeInv

LEMMA ReconcileAlertsIInv ==
  ASSUME IInv, NEW t \in Threads, ReconcileAlerts(t)
  PROVE  IInv'
<1> USE DEF IInv, ReconcileAlerts, Goes
<1>1. TypeOK'
  BY ReconcileType DEF TypeOK, Steps
<1>2. Active' = AlertsFor(snapshot[t])
  BY ReconcileReplaces DEF TypeOK
<1>3. \A u \in Threads \ {t} : step[u] = "idle" /\ written[u] = 0
  BY OthersAreIdle DEF PlaceInv
<1>4. OneCollection'
  BY DEF OneCollection, TypeOK
<1>5. PlaceInv'
  BY DEF PlaceInv, TypeOK
<1>6. WritesInv'
  <2>1. \A u \in Threads \ {t} : step'[u] = "idle"
    BY <1>3 DEF TypeOK
  <2>2. AlertsFor(snapshot[t])' = AlertsFor(snapshot[t])
    BY DEF AlertsFor
  <2> QED
    BY <1>2, <2>1, <2>2 DEF WritesInv
<1>7. ~Untouched' /\ BatchInv'
  BY OrderFacts DEF Untouched, PlaceInv, BatchInv
<1> QED
  BY <1>1, <1>4, <1>5, <1>6, <1>7 DEF AgreeInv

\* The finally block leaves nothing in hand and nobody on the way.
LEMMA LeavesInv ==
  ASSUME IInv, NEW t \in Threads, step[t] # "idle", Leaves(t)
  PROVE  /\ step' \in [Threads -> Steps]
         /\ snapshot' \in [Threads -> Snapshots \cup {NoRun}]
         /\ written' \in [Threads -> 0..Len(Order)]
         /\ holder' = NoOne
         /\ \A u \in Threads : step'[u] = "idle" /\ written'[u] = 0
         /\ OneCollection' /\ PlaceInv' /\ WritesInv' /\ Untouched'
<1>1. /\ step' \in [Threads -> Steps]
      /\ snapshot' \in [Threads -> Snapshots \cup {NoRun}]
      /\ written' \in [Threads -> 0..Len(Order)]
  BY OrderFacts DEF IInv, TypeOK, Leaves, Goes, Steps
<1>2. \A u \in Threads : step'[u] = "idle" /\ written'[u] = 0
  BY OthersAreIdle DEF IInv, TypeOK, PlaceInv, Leaves, Goes
<1>3. OneCollection'
  BY <1>2, CollectionAssumption DEF OneCollection, Leaves
<1> QED
  BY <1>1, <1>2, <1>3 DEF Leaves, PlaceInv, WritesInv, Untouched

LEMMA RecordRunIInv ==
  ASSUME IInv, NEW t \in Threads, RecordRun(t)
  PROVE  IInv'
<1>1. /\ step[t] = "recording" /\ Leaves(t) /\ torn' = FALSE
      /\ recorded' = [modules |-> snapshot[t], status |-> OverallStatus(StatusesOf(snapshot[t]))]
      /\ UNCHANGED <<machine, changes, faults, latest, alertVars>>
  BY DEF RecordRun
<1>2. snapshot[t] \in Snapshots /\ written[t] = Len(Order)
  BY <1>1 DEF IInv, PlaceInv
<1>3. latest = snapshot[t]
  <2>1. \A m \in Modules : latest[m] = snapshot[t][m]
    BY <1>2, OrderFacts DEF IInv, WritesInv
  <2> QED
    BY <1>2, <2>1 DEF IInv, TypeOK, Snapshots
<1>4. Active' = AlertsFor(snapshot[t])
  BY <1>1 DEF IInv, WritesInv, Active, alertVars
<1>5. recorded' \in Batches
  BY <1>1, <1>2 DEF Batches, OverallStatus, Statuses
<1>6. TypeOK'
  BY <1>1, <1>5, LeavesInv DEF IInv, TypeOK, AlertsTypeOK, alertVars
<1>7. AgreeInv'
  BY <1>1, <1>3, <1>4 DEF AgreeInv, Agreed, AlertsFor
<1>8. BatchInv'
  BY <1>1 DEF BatchInv, StatusesOf, OverallStatus
<1> QED
  BY <1>1, <1>6, <1>7, <1>8, LeavesInv DEF IInv

LEMMA CutIInv ==
  ASSUME IInv, NEW t \in Threads, Cut(t)
  PROVE  IInv'
<1> USE DEF Cut, alertVars
<1>1. TypeOK'
  BY LeavesInv, CollectionAssumption DEF IInv, TypeOK, AlertsTypeOK
<1>2. ~torn' => ~torn /\ Untouched
  <2>1. \A u \in Threads \ {t} : written[u] = 0
    BY OthersAreIdle DEF IInv, PlaceInv
  <2>2. written[t] \in Nat
    BY OrderFacts DEF IInv, TypeOK
  <2>3. ~torn' => ~torn /\ ~(written[t] > 0)
    OBVIOUS
  <2> QED
    BY <2>1, <2>2, <2>3 DEF Untouched
<1>3. AgreeInv' /\ BatchInv'
  BY <1>2 DEF IInv, AgreeInv, Agreed, BatchInv, Active
<1> QED
  BY <1>1, <1>3, LeavesInv DEF IInv

LEMMA CrashIInv == ASSUME IInv, Crash PROVE IInv'
<1> USE DEF Crash, alertVars
<1>1. TypeOK'
  <2>1. faults' \in 0..MaxFaults
    BY CollectionAssumption DEF IInv, TypeOK
  <2>2. /\ step' \in [Threads -> Steps]
        /\ snapshot' \in [Threads -> Snapshots \cup {NoRun}]
        /\ written' \in [Threads -> 0..Len(Order)]
    BY OrderFacts DEF Steps
  <2>3. torn' \in BOOLEAN
    BY DEF IInv, TypeOK
  <2> QED
    BY <2>1, <2>2, <2>3 DEF IInv, TypeOK, AlertsTypeOK
<1>2. OneCollection' /\ PlaceInv' /\ WritesInv'
  BY CollectionAssumption DEF OneCollection, PlaceInv, WritesInv
<1>3. ~torn' => ~torn /\ Untouched
  <2>1. \A t \in Threads : written[t] \in Nat
    BY OrderFacts DEF IInv, TypeOK
  <2>2. ~torn' => ~torn /\ \A t \in Threads : ~(written[t] > 0)
    OBVIOUS
  <2> QED
    BY <2>1, <2>2 DEF Untouched
<1>4. AgreeInv' /\ BatchInv'
  BY <1>3 DEF IInv, AgreeInv, Agreed, BatchInv, Active
<1> QED
  BY <1>1, <1>2, <1>4 DEF IInv

LEMMA MachineChangesIInv ==
  ASSUME IInv, MachineChanges
  PROVE  IInv'
<1> USE DEF MachineChanges, inMemory, alertVars
<1>1. TypeOK'
  BY CollectionAssumption DEF IInv, TypeOK, AlertsTypeOK
<1> QED
  BY <1>1 DEF IInv, OneCollection, PlaceInv, WritesInv, AgreeInv, Agreed, Untouched,
              BatchInv, Active

LEMMA NextIInv == IInv /\ [Next]_vars => IInv'
<1> SUFFICES ASSUME IInv, [Next]_vars PROVE IInv'
  OBVIOUS
<1>1. CASE UNCHANGED vars
  BY <1>1 DEF vars, inMemory, alertVars, IInv, TypeOK, AlertsTypeOK, OneCollection, PlaceInv,
              WritesInv, AgreeInv, Agreed, Untouched, BatchInv, Active
<1>2. ASSUME NEW t \in Threads, Trigger(t) PROVE IInv'
  BY <1>1, <1>2, TriggerIInv DEF Trigger, Refused
<1>3. ASSUME NEW t \in Threads, Running(t) PROVE IInv'
  BY <1>3, CollectIInv, WriteModuleIInv, ReconcileAlertsIInv, RecordRunIInv, CutIInv DEF Running
<1> QED
  BY <1>1, <1>2, <1>3, CrashIInv, MachineChangesIInv DEF Next

LEMMA SpecIInv == Spec => []IInv
BY InitIInv, NextIInv, PTL DEF Spec

-----------------------------------------------------------------------------
(* The tables, the threads and what they have in hand keep their types.    *)
THEOREM CollectionTypeCorrect == Spec => []TypeOK
<1>1. IInv => TypeOK
  BY DEF IInv
<1> QED
  BY <1>1, SpecIInv, PTL

(* The holder of the lock is the one thread in run_collectors_once.        *)
THEOREM CollectionsAreExclusive == Spec => []OneCollection
<1>1. IInv => OneCollection
  BY DEF IInv
<1> QED
  BY <1>1, SpecIInv, PTL

\* Without a holder nobody is on the way, so nobody has written.
LEMMA NoHolderAgrees == ASSUME IInv, holder = NoOne, ~torn PROVE Agreed
<1>1. \A t \in Threads : step[t] = "idle"
  BY CollectionAssumption DEF IInv, OneCollection
<1>2. Untouched
  BY <1>1 DEF IInv, PlaceInv, Untouched
<1> QED
  BY <1>2 DEF IInv, AgreeInv

(* Between collections that were not cut short, batch, statuses and alerts *)
(* are those of the same snapshots.                                        *)
THEOREM TablesTellOneStory == Spec => []TablesAgree
<1>1. IInv => TablesAgree
  BY NoHolderAgrees DEF TablesAgree, Agreed
<1> QED
  BY <1>1, SpecIInv, PTL

LEMMA SummaryIsOverall ==
  ASSUME NEW ss \in SUBSET Statuses
  PROVE  SummaryStatus(ss) = OverallStatus(ss)
BY DEF SummaryStatus, OverallStatus

(* The summary of the console is that of the newest batch.                 *)
THEOREM SummaryMatchesBatch == Spec => []SummaryAgrees
<1>1. IInv => SummaryAgrees
  <2> SUFFICES ASSUME IInv, holder = NoOne, ~torn, recorded.status # "none"
               PROVE  SummaryStatus(StatusesOf(latest)) = recorded.status
    BY DEF SummaryAgrees
  <2>1. latest = recorded.modules
    BY NoHolderAgrees DEF Agreed
  <2>2. recorded.status = OverallStatus(StatusesOf(latest))
    BY <2>1 DEF IInv, BatchInv
  <2>3. StatusesOf(latest) \subseteq Statuses
    BY DEF IInv, TypeOK, StatusesOf, Readings, NoReading, Statuses
  <2> QED
    BY <2>2, <2>3, SummaryIsOverall
<1> QED
  BY <1>1, SpecIInv, PTL

-----------------------------------------------------------------------------
(* Alerts show in the statuses: a reading is as grave as its issues.       *)

Covered(reading) == \A i \in reading.issues : Grade(i.status) <= Grade(reading.status)

CoverInv ==
  /\ \A t \in Threads, m \in Modules : Covered(snapshot[t][m])
  /\ \A m \in Modules : Covered(latest[m])

LEMMA GradeFacts == \A status : Grade(status) \in 0..3
BY DEF Grade

\* overall_status is as grave as every status it sums up.
LEMMA OverallCovers ==
  ASSUME NEW ss, NEW status \in ss
  PROVE  Grade(status) <= Grade(OverallStatus(ss))
BY GradeFacts DEF Grade, OverallStatus

LEMMA JudgedCovered == ASSUME NEW parts, NEW issues PROVE Covered(Judged(parts, issues))
<1> SUFFICES ASSUME NEW i \in issues
             PROVE  Grade(i.status)
                      <= Grade(OverallStatus(parts \cup {j.status : j \in issues}))
  BY DEF Covered, Judged
<1>1. i.status \in parts \cup {j.status : j \in issues}
  OBVIOUS
<1> QED
  BY <1>1, OverallCovers

LEMMA FoundCovered == \A mc \in Machines, m \in Modules : Covered(Found[mc][m])
<1> SUFFICES ASSUME NEW mc \in Machines, NEW m \in Modules PROVE Covered(Found[mc][m])
  OBVIOUS
<1>1. \A h : Covered(ResourcesReading(h))
  BY JudgedCovered DEF ResourcesReading
<1>2. \A d : Covered(DockerReading(d))
  BY JudgedCovered DEF DockerReading
<1>3. \A q : Covered(QuotaReading(q))
  BY JudgedCovered DEF QuotaReading
<1> QED
  BY <1>1, <1>2, <1>3 DEF Found

LEMMA EmptyAndFailedCovered == Covered(NoReading) /\ Covered(FailedReading)
BY GradeFacts DEF Covered, NoReading, FailedReading, Issue

LEMMA InitCoverInv == Init => CoverInv
BY EmptyAndFailedCovered DEF Init, CoverInv, NoRun

LEMMA NextCoverInv == IInv /\ CoverInv /\ [Next]_vars => CoverInv'
<1> SUFFICES ASSUME IInv, CoverInv, [Next]_vars PROVE CoverInv'
  OBVIOUS
<1>1. \A m \in Modules : Covered(NoRun[m])
  BY EmptyAndFailedCovered DEF NoRun
<1>2. CASE UNCHANGED <<snapshot, latest>>
  BY <1>2 DEF CoverInv, Covered
<1>3. ASSUME NEW t \in Threads, Collect(t) PROVE CoverInv'
  <2>1. PICK failed \in SUBSET Modules :
          snapshot' = [snapshot EXCEPT ![t] =
            [m \in Modules |-> IF m \in failed THEN FailedReading ELSE Found[machine][m]]]
    BY <1>3 DEF Collect
  <2>2. latest' = latest /\ machine \in Machines
    BY <1>3 DEF Collect, IInv, TypeOK
  <2>3. \A m \in Modules : Covered(snapshot'[t][m])
    BY <2>1, <2>2, FoundCovered, EmptyAndFailedCovered DEF IInv, TypeOK
  <2>4. \A u \in Threads \ {t} : snapshot'[u] = snapshot[u]
    BY <2>1 DEF IInv, TypeOK
  <2> QED
    BY <2>2, <2>3, <2>4 DEF CoverInv
<1>4. ASSUME NEW t \in Threads, WriteModule(t) PROVE CoverInv'
  <2>1. /\ latest' = [latest EXCEPT ![Order[written[t] + 1]] = snapshot[t][Order[written[t] + 1]]]
        /\ snapshot' = snapshot
    BY <1>4 DEF WriteModule
  <2>2. \A m \in Modules : latest'[m] = latest[m] \/ latest'[m] = snapshot[t][m]
    BY <2>1 DEF IInv, TypeOK
  <2> QED
    BY <2>1, <2>2 DEF CoverInv
<1>5. ASSUME NEW t \in Threads, Leaves(t), latest' = latest PROVE CoverInv'
  <2>1. \A u \in Threads : snapshot'[u] = NoRun \/ snapshot'[u] = snapshot[u]
    BY <1>5 DEF Leaves, IInv, TypeOK
  <2> QED
    BY <1>1, <1>5, <2>1 DEF CoverInv
<1>6. CASE Crash
  BY <1>1, <1>6 DEF Crash, CoverInv
<1>7. ASSUME NEW t \in Threads, Running(t) PROVE CoverInv'
  BY <1>2, <1>3, <1>4, <1>5, <1>7 DEF Running, ReconcileAlerts, RecordRun, Cut
<1>8. ASSUME NEW t \in Threads, Trigger(t) PROVE CoverInv'
  BY <1>2, <1>8 DEF Trigger, Refused, vars, inMemory
<1>9. CASE MachineChanges
  BY <1>2, <1>9 DEF MachineChanges, inMemory
<1> QED
  BY <1>2, <1>6, <1>7, <1>8, <1>9 DEF Next, vars, inMemory

(* Between collections that were not cut short, an active alert shows in   *)
(* the status of its module and in the summary.                            *)
THEOREM AlertsShowInStatuses == Spec => []StatusCoversAlerts
<1>1. IInv /\ CoverInv => StatusCoversAlerts
  <2> SUFFICES ASSUME IInv, CoverInv, holder = NoOne, ~torn, NEW f \in Active
               PROVE  /\ \E i \in latest[f.source].issues : AlertOf(f.source, i) = f
                      /\ \A i \in latest[f.source].issues :
                           Grade(i.status) <= Grade(latest[f.source].status)
                      /\ Grade(latest[f.source].status)
                           <= Grade(SummaryStatus(StatusesOf(latest)))
    BY DEF StatusCoversAlerts
  <2>1. f \in AlertsFor(latest) /\ f.source \in Modules
    BY NoHolderAgrees, CollectionAssumption DEF Agreed, AlertsFor
  <2>2. PICK i \in latest[f.source].issues : AlertOf(f.source, i) = f
    BY <2>1 DEF AlertsFor
  <2>3. latest[f.source] # NoReading
    BY <2>2 DEF NoReading
  <2>4. latest[f.source].status \in Statuses
    BY <2>1, <2>3 DEF IInv, TypeOK, Readings
  <2>5. latest[f.source].status \in StatusesOf(latest)
    BY <2>1, <2>4 DEF StatusesOf, Statuses
  <2>6. SummaryStatus(StatusesOf(latest)) = OverallStatus(StatusesOf(latest))
    BY <2>5 DEF SummaryStatus, OverallStatus
  <2> QED
    BY <2>1, <2>2, <2>5, <2>6, OverallCovers DEF CoverInv, Covered
<1>2. Spec => []CoverInv
  BY InitCoverInv, NextCoverInv, SpecIInv, PTL DEF Spec
<1> QED
  BY <1>1, <1>2, SpecIInv, PTL
=============================================================================
