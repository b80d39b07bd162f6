------------------------------ MODULE Discovery ------------------------------
(***************************************************************************)
(* The watcher, `agentctl bootstrap-local --watch --include-hermes`        *)
(* (agent_registry/cli.py), as its systemd unit runs it: it asks codex and *)
(* the two sources of hermes for their sessions, registers them one by one *)
(* through the console's API, observes the carriers (tmux targets and      *)
(* processes) of all sessions, reports on every source, and sleeps.        *)
(*                                                                         *)
(* A step is one request of the watcher, with what it looked up before.    *)
(* Any request may fail, before or after the console has done its work.    *)
(* Time is counted in intervals: one passes while the watcher sleeps, and  *)
(* more when a scan is slow.                                               *)
(***************************************************************************)
EXTENDS Naturals, FiniteSets

CONSTANTS
  Codex,           \* sessions codex may list
  Index,           \* those in session_index.jsonl, the fallback
  Telegram, Cli,   \* sessions hermes may list for its two sources
  Carried,         \* sessions registered by others, with a carrier
  Targets,         \* what their entries may name
  NoTarget,        \* an entry without a carrier
  Sights,          \* what a look at a target may tell
  LostAfter,       \* lost_after_seconds, in intervals
  StaleAfter,      \* a source is stale when its report is older, in intervals
  MaxFaults,       \* bound: failed requests and lookups, slow scans, crashes
  MaxChanges       \* bound: changes of sources, entries and targets

Sources == {"codex", "telegram", "cli"}
SessionsOf == [x \in Sources |->
  CASE x = "codex" -> Codex [] x = "telegram" -> Telegram [] OTHER -> Cli]
Found == Codex \cup Telegram \cup Cli

ASSUME DiscoveryAssumption ==
  /\ Index \subseteq Codex /\ Index # {}
  /\ NoTarget \notin Targets
  /\ Sights \subseteq {"available", "missing", "mismatch", "unknown", "unsupported"}
  /\ Carried \cap Found = {}
  /\ {LostAfter, StaleAfter, MaxFaults, MaxChanges} \subseteq Nat

VARIABLES
  listed,     \* external: what a source lists, within its limit
  sight,      \* external: what a look at a target tells
  entry,      \* agent_sessions.entry of a carried session
  archived,   \* carried sessions that are archived, and so in no plain listing
  carrier,    \* carrier_status and the target in carrier_details
  age,        \* of a session: intervals since last_seen_at; Unseen without a row.
              \* Those of hermes stay 0: they are never lost (liveness_mode)
  report,     \* agent_discovery_status: last_result, and the age of last_scan_at
  step,       \* where the watcher is
  src,        \* the source it is at
  todo,       \* the sessions it has yet to register or to observe
  listing,    \* the entries it has read for the observations
  outcome,    \* what it will report on a hermes source
  faults, changes,
  scan,       \* history: what codex listed in this scan
  took,       \* history: intervals this scan has taken
  good        \* history: scan and took of the newest scan reported ok

external == <<listed, sight, entry, archived>>
watcher == <<step, src, todo, listing, outcome>>
history == <<scan, took, good>>
vars == <<external, carrier, age, report, watcher, faults, changes, history>>

Old == 1 + (IF LostAfter > StaleAfter THEN LostAfter ELSE StaleAfter)
\* Greater ages are told apart by nothing.
Unseen == Old + 1
Older(n) == IF n < Old THEN n + 1 ELSE n
NoCarrier == [target |-> NoTarget, status |-> "unknown"]
Steps == {"asleep", "loading", "registering", "listing", "observing", "reporting",
          "failing", "exited"}

TypeOK ==
  /\ listed \in [Sources -> SUBSET Found]
  /\ sight \in [Targets -> Sights]
  /\ entry \in [Carried -> Targets \cup {NoTarget}]
  /\ archived \subseteq Carried
  /\ carrier \in [Carried -> [target : Targets \cup {NoTarget},
                              status : {"unknown"} \cup Sights]]
  /\ age \in [Found -> 0..Unseen]
  /\ report \in [Sources -> [result : {"none", "ok", "error"}, age : 0..Old]]
  /\ step \in Steps
  /\ src \in Sources
  /\ todo \subseteq Found \cup Carried
  /\ listing \in [Carried -> Targets \cup {NoTarget}]
  /\ outcome \in {"ok", "error"}
  /\ faults \in 0..MaxFaults
  /\ changes \in 0..MaxChanges
  /\ scan \subseteq Codex
  /\ took \in 0..Old
  /\ good \in [scan : SUBSET Codex, took : 0..Old]

Init ==
  /\ listed \in [Sources -> SUBSET Found]
  /\ \A x \in Sources : listed[x] \subseteq SessionsOf[x]
  /\ sight \in [Targets -> Sights]
  /\ entry \in [Carried -> Targets \cup {NoTarget}]
  /\ archived \in SUBSET Carried
  /\ carrier = [k \in Carried |-> NoCarrier]
  /\ age = [s \in Found |-> Unseen]
  /\ report = [x \in Sources |-> [result |-> "none", age |-> 0]]
  /\ step = "loading"
  /\ src = "codex"
  /\ todo = {}
  /\ listing = [k \in Carried |-> NoTarget]
  /\ outcome = "ok"
  /\ faults = 0
  /\ changes = 0
  /\ scan = {}
  /\ took = 0
  /\ good = [scan |-> {}, took |-> 0]

Fault == faults < MaxFaults /\ faults' = faults + 1
Goes(to) == step' = to

-----------------------------------------------------------------------------
(* The console's side of a request.                                        *)

\* Fault: only the first registration of a session counts as seeing it.
SeenOnce(s) == age' = IF age[s] = Unseen THEN [age EXCEPT ![s] = 0] ELSE age

\* PUT /agent-sessions/{session_id}: an upsert with last_seen_at = now.
Seen(s) == age' = [age EXCEPT ![s] = 0]

\* Fault: the state that is derived from a result is stored for it.
ReportedState(x, result) ==
  report' = [report EXCEPT ![x] = [result |-> IF result = "ok" THEN "running" ELSE result,
                                   age |-> 0]]

\* PUT /agent-discovery/{source_id}.
Reported(x, result) ==
  report' = [report EXCEPT ![x] = [result |-> result, age |-> 0]]

\* observe_tmux, observe_process, observe_cron_job.
Observation(target) == [target |-> target, status |-> sight[target]]

\* Fault: what has been observed is not observed again.
ObservedOnce(k) ==
  carrier' = IF carrier[k] # NoCarrier THEN carrier
             ELSE [carrier EXCEPT ![k] = Observation(listing[k])]

\* PUT /agent-sessions/{session_id}/observation, of the entry that was listed.
Observed(k) == carrier' = [carrier EXCEPT ![k] = Observation(listing[k])]

\* A request: it is done and answered; or, a fault, it fails before or after
\* the console has done it.
Answered(effect) == effect /\ UNCHANGED faults
Failed(effect, unchanged) == Fault /\ (effect \/ unchanged)

-----------------------------------------------------------------------------
(* _bootstrap_local: codex.                                                *)

\* load_codex_app_server_sessions, or the index if that fails or lists nothing.
LoadCodex ==
  /\ step = "loading"
  /\ src = "codex"
  /\ \E found \in {listed["codex"], Index} :
       /\ found # {}
       /\ IF found # listed["codex"] /\ listed["codex"] # {} THEN Fault ELSE UNCHANGED faults
       /\ todo' = found
       /\ scan' = found
  /\ took' = 0
  /\ Goes("registering")
  /\ UNCHANGED <<external, carrier, age, report, src, listing, outcome, changes, good>>

\* Neither can be read, or they list nothing.
LoadCodexFails ==
  /\ step = "loading"
  /\ src = "codex"
  /\ Fault
  /\ Goes("failing")
  /\ UNCHANGED <<external, carrier, age, report, src, todo, listing, outcome, changes, history>>

RegisterCodex(s) ==
  /\ step = "registering"
  /\ src = "codex"
  /\ s \in todo
  /\ \/ /\ Answered(Seen(s))
        /\ todo' = todo \ {s}
        /\ Goes(IF todo = {s} THEN "listing" ELSE "registering")
     \/ Failed(Seen(s), UNCHANGED age) /\ Goes("failing") /\ todo' = {}
  /\ UNCHANGED <<external, carrier, report, src, listing, outcome, changes, history>>

\* _reconcile_local: the sessions that are not archived are listed once, then
\* observed one by one.
ListSessions ==
  LET carried == {k \in Carried \ archived : entry[k] # NoTarget} IN
  /\ step = "listing"
  /\ \/ /\ listing' = entry
        /\ todo' = carried
        /\ Goes(IF carried = {} THEN "reporting" ELSE "observing")
        /\ UNCHANGED faults
     \/ Fault /\ Goes("failing") /\ UNCHANGED <<listing, todo>>
  /\ UNCHANGED <<external, carrier, age, report, src, outcome, changes, history>>

Observe(k) ==
  /\ step = "observing"
  /\ k \in todo
  /\ \/ /\ Answered(Observed(k))
        /\ todo' = todo \ {k}
        /\ Goes(IF todo = {k} THEN "reporting" ELSE "observing")
     \/ Failed(Observed(k), UNCHANGED carrier) /\ Goes("failing") /\ todo' = {}
  /\ UNCHANGED <<external, age, report, src, listing, outcome, changes, history>>

\* The PUT that says ok.
ReportCodex ==
  /\ step = "reporting"
  /\ src = "codex"
  /\ \/ /\ Answered(Reported("codex", "ok"))
        /\ good' = [scan |-> scan, took |-> took]
        /\ src' = "telegram"
        /\ Goes("loading")
     \/ /\ Fault
        /\ \/ Reported("codex", "ok") /\ good' = [scan |-> scan, took |-> took]
           \/ UNCHANGED <<report, good>>
        /\ Goes("failing")
        /\ UNCHANGED src
  /\ UNCHANGED <<external, carrier, age, todo, listing, outcome, changes, scan, took>>

\* main() catches the error, reports it, whether that works or not, and exits.
ReportFailure ==
  /\ step = "failing"
  /\ \/ Answered(Reported("codex", "error"))
     \/ Fault /\ UNCHANGED report
  /\ Goes("exited")
  /\ UNCHANGED <<external, carrier, age, src, todo, listing, outcome, changes, history>>

-----------------------------------------------------------------------------
(* _discover_hermes(fail_on_error=False): source after source.             *)

LoadHermes ==
  /\ step = "loading"
  /\ src # "codex"
  /\ \/ /\ todo' = listed[src]
        /\ outcome' = "ok"
        /\ Goes(IF listed[src] = {} THEN "reporting" ELSE "registering")
        /\ UNCHANGED faults
     \/ Fault /\ outcome' = "error" /\ Goes("reporting") /\ UNCHANGED todo
  /\ UNCHANGED <<external, carrier, age, report, src, listing, changes, history>>

RegisterHermes(s) ==
  /\ step = "registering"
  /\ src # "codex"
  /\ s \in todo
  /\ \/ /\ Answered(Seen(s))
        /\ todo' = todo \ {s}
        /\ Goes(IF todo = {s} THEN "reporting" ELSE "registering")
        /\ UNCHANGED outcome
     \/ /\ Failed(Seen(s), UNCHANGED age)
        /\ outcome' = "error"
        /\ todo' = {}
        /\ Goes("reporting")
  /\ UNCHANGED <<external, carrier, report, src, listing, changes, history>>

NextSource ==
  IF src = "telegram" THEN src' = "cli" /\ Goes("loading")
                      ELSE src' = "codex" /\ Goes("asleep")

\* Fault: a report that fails is passed on to main().
ReportLostRaises == Goes("failing") /\ UNCHANGED src

\* report() swallows its own failure; the next source is tried in any case.
ReportLost == NextSource

ReportHermes ==
  /\ step = "reporting"
  /\ src # "codex"
  /\ \/ Answered(Reported(src, outcome)) /\ NextSource
     \/ Failed(Reported(src, outcome), UNCHANGED report) /\ ReportLost
  /\ UNCHANGED <<external, carrier, age, todo, listing, outcome, changes, history>>

-----------------------------------------------------------------------------
(* Time, the process, and what others do.                                  *)

Passes ==
  /\ age' = [s \in Found |-> IF s \in Codex /\ age[s] # Unseen THEN Older(age[s]) ELSE age[s]]
  /\ report' = [x \in Sources |-> [report[x] EXCEPT !.age = Older(@)]]

\* time.sleep(args.interval).
Sleep ==
  /\ step = "asleep"
  /\ Passes
  /\ Goes("loading")
  /\ UNCHANGED <<external, carrier, src, todo, listing, outcome, faults, changes, history>>

\* An interval passes within a scan.
Slow ==
  /\ step \notin {"asleep", "exited"}
  /\ Fault
  /\ Passes
  /\ took' = Older(took)
  /\ UNCHANGED <<external, carrier, watcher, changes, scan, good>>

Crash ==
  /\ step # "exited"
  /\ Fault
  /\ Goes("exited")
  /\ UNCHANGED <<external, carrier, age, report, src, todo, listing, outcome, changes, history>>

\* Fault: the unit does not restart what has failed.
RestartNever == UNCHANGED <<step, src, todo, age, report>>

\* Restart=on-failure.
Restart ==
  /\ Goes("loading")
  /\ src' = "codex"
  /\ todo' = {}
  /\ Passes \/ UNCHANGED <<age, report>>

Systemd ==
  /\ step = "exited"
  /\ Restart
  /\ UNCHANGED <<external, carrier, listing, outcome, faults, changes, history>>

\* Somebody registers a carried session with another entry: the carrier's
\* columns stay.
Reregister(k, target) ==
  /\ entry[k] # target
  /\ entry' = [entry EXCEPT ![k] = target]
  /\ UNCHANGED <<listed, sight, archived>>

\* A user archives a carried session, or restores it.
Archives(k) ==
  /\ archived' = IF k \in archived THEN archived \ {k} ELSE archived \cup {k}
  /\ UNCHANGED <<listed, sight, entry>>

Changes ==
  /\ changes < MaxChanges
  /\ changes' = changes + 1
  /\ \/ \E x \in Sources : \E found \in SUBSET SessionsOf[x] :
          /\ found # listed[x]
          /\ listed' = [listed EXCEPT ![x] = found]
          /\ UNCHANGED <<sight, entry, archived>>
     \/ \E t \in Targets, told \in Sights :
          /\ told # sight[t]
          /\ sight' = [sight EXCEPT ![t] = told]
          /\ UNCHANGED <<listed, entry, archived>>
     \/ \E k \in Carried, target \in Targets \cup {NoTarget} : Reregister(k, target)
     \/ \E k \in Carried : Archives(k)
  /\ UNCHANGED <<carrier, age, report, watcher, faults, history>>

-----------------------------------------------------------------------------
Scan ==
  \/ LoadCodex \/ LoadCodexFails \/ ListSessions \/ ReportCodex \/ ReportFailure
  \/ LoadHermes \/ ReportHermes
  \/ \E s \in Found : RegisterCodex(s) \/ RegisterHermes(s)
  \/ \E k \in Carried : Observe(k)

Next == Scan \/ Sleep \/ Systemd \/ Slow \/ Crash \/ Changes

Spec == Init /\ [][Next]_vars

\* A scan that runs goes on (every request has a timeout), the loop sleeps and
\* goes on, and systemd restarts what has failed.
FairSpec == Spec /\ WF_vars(Scan) /\ WF_vars(Sleep) /\ WF_vars(Systemd)

-----------------------------------------------------------------------------
(* Properties.                                                             *)

\* The status of a codex session whose last registration is that old.
Lost(s) == age[s] # Unseen /\ age[s] > LostAfter

\* GET /agent-discovery.
StateOf(x) ==
  IF report[x].result = "error" THEN "error"
  ELSE IF report[x].age > StaleAfter THEN "stale" ELSE "running"

\* While codex-local is shown running, none of the sessions its newest good scan
\* has found is shown as lost, but for the time that scan itself has taken: who
\* sees a lost session may trust that codex has not listed it of late.
LostSessionsWereNotFound ==
  \A s \in good.scan :
    Lost(s) /\ StateOf("codex") = "running" => report["codex"].age + good.took > LostAfter

\* What is reported on a source is decided while that source is scanned: the
\* failure of one is never booked on another.
FailuresStayAtHome ==
  [][\A x \in Sources : report'[x].result # report[x].result => src = x]_vars

\* When faults and changes are over, every source is reported as good and what
\* it lists is registered.
SourcesRecover ==
  <>[](\A x \in Sources : /\ report[x].result = "ok"
                          /\ \A s \in listed[x] : age[s] # Unseen)

\* In the end the carrier of a session that is not archived has the status of the
\* target its entry names by then, although observations are of entries listed
\* earlier, and of none while the session was archived.
CarriersCatchUp ==
  <>[](\A k \in Carried \ archived :
         entry[k] # NoTarget => carrier[k] = Observation(entry[k]))
=============================================================================
