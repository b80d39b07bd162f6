# A TLA+ verification project for AI Console

AI Console is one self-hosted dashboard for a small server and for the coding
agents that run on it. A FastAPI application collects snapshots of the machine,
keeps a registry of agent sessions (Codex, Hermes, Claude Code, ...) in SQLite,
and lets the user talk to the sessions that a *runtime bridge*, a second process
with its own event loop, can resume. A Vue front end polls and renders.

This directory holds TLA+ modules of the parts where something can go wrong that
a unit test would hardly reach, the TLC configurations that check them on small
instances, and TLAPS proofs of the properties that matter most for instances of
any size. Source paths below are relative to `src/src/qingluo_console/` unless
they start with `src/`.

    tlc -workers 2 -config MCRunBridge.cfg MCRunBridge     # check one run
    tlapm RunBridgeProofs.tla                              # check one proof module

`PROJECT.json` lists every run, the lines that every definition stands for, a
mutant of the model for every property (the property must fail on it) and the
hazards the properties are for.

## 1. Inventory

| component | state it keeps | operations | talks to |
|---|---|---|---|
| runtime bridge `runtime_bridge/app.py` | runs (status, event list, condition), `active_sessions`; in memory only | start turn, run task, `emit_event`, event stream, approve, interrupt, delete, status/history/models | adapters, HTTP clients over a Unix socket |
| adapters `runtime_bridge/adapters.py` | one child process per turn, its reader task, pending requests and approvals | `run_turn`, `interrupt`, `approve`, `delete`, `rename`, `models` | codex / hermes processes (external), `emit_event` |
| session registry `agent_registry/{api,service,repository}.py` | tables `agents`, `agent_sessions`, `agent_events`, `agent_runtime_operations` | register, heartbeat, status, rename, archive, restore, delete source, observations, list, tree | SQLite, runtime bridge |
| messages (same files) | table `agent_messages` | send, list (expires and marks), acknowledge | SQLite |
| alerts `db.py`, `service.reconcile_alerts` | table `alert_events` | reconcile by producer; sweep over sessions | registry rows, collectors |
| collection `collector_runner.py`, `monitoring.py`, `main.py` | `_COLLECTION_LOCK`, tables `latest_status`, `metric_samples`, `collection_runs` | `run_collectors_once`, the scheduler thread, POST collect, summary, history | collectors, alerts |
| collectors `collectors/*.py` | none | read `/proc`, docker, a quota service | the machine |
| turn relay (`agent_registry/api.py`, `runtime_client.py`) | rows of `agent_runtime_operations`; per stream the last 512 characters | start turn, relay events, status, interrupt, answer approvals | bridge, browser |
| workspace page `src/web/src/pages/AgentsPage.vue` | per tab: selection, followed run, event source; in `sessionStorage` a run per session | send, follow, stop, select, reload, recover | relay |
| discovery and watcher `agent_registry/{cli,discovery,carriers}.py` | none of its own; tables `agent_sessions`, `agent_discovery_status` of the console | scan sources, register sessions, observe carriers, report on every source, sleep | codex, hermes, tmux, `/proc`, the registry's HTTP API, systemd |
| metric history, session tree | none (computed from rows) | buckets, reachability | SQLite |

**How they run.** The bridge is single-threaded asyncio: handlers interleave at
every `await` that suspends. The application's synchronous endpoints run on a
pool of threads, its asynchronous ones on the event loop, and the scheduler is a
daemon thread; they meet in SQLite (one connection per call, one transaction per
`with` block; `db.py` sets no journal mode, so it is the default rollback journal), so
what is atomic is one transaction. Nothing locks across two transactions except the
non-blocking `_COLLECTION_LOCK`, and a transaction that cannot get SQLite's own lock
raises, which no handler expects.

**What is hard, and what makes each part correct.**

* *Bridge.* Run task, reader task, approve handlers and streams compete for one
  condition per run; the keep-alive is yielded with the lock held; the reader is
  cancelled wherever it waits; the status changes before the last event. Correct
  means: one turn per session, a stream never ends without the end of the turn,
  no lock is left behind, every turn and every stream ends.
* *Registry.* Checks and updates are separate transactions, deletes span the
  runtime, the row and the audit, any of which may fail or be cut off. Correct
  means: the life cycle of a session is that of atomic requests, a tombstone is
  true, permanent and recorded, finished sessions stay finished.
* *Messages.* Lazy expiry, read marks and acknowledgements race on one row, with
  time taken before the transaction. Correct means: statuses only advance, time
  stamps agree with them, expiry never comes early.
* *Alerts.* Unlocked sweeps write what they saw some time ago. Correct means:
  producers leave each other's alerts alone, one alert per session, an outage
  counts once, and in the end alerts are those of the sessions.
* *Collection.* Five kinds of transactions in a row, exceptions and crashes in
  between, callers that are turned away. Correct means: collections never
  interleave, tables agree between them, what alerts also shows as a status, and
  the console recovers the truth.
* *Relay and page.* A turn is followed through three processes, each of which may
  restart, over links that break. Correct means: an operation is settled for a
  reason, a page gives up a run only when it is over or settled, and it never waits
  for ever without having said so.
* *Discovery.* Requests fail before or after they had their effect, scans are slow,
  the watcher ends on an error and is restarted. Correct means: a failure is booked
  on the source it happened to, a lost session was not listed of late, and in the end
  all that is listed is registered and carriers are what their entries name.

The full list of hazards, with lines, is in `PROJECT.json`.

## 2. Modules

| module | models | abstract / composition |
|---|---|---|
| `BridgeContract` | what the bridge promises over HTTP | abstract specification |
| `RunBridge` | bridge and turn driving of the adapters | composed of manager, run task, reader, approve handlers, streams; implements `BridgeContract` |
| `TurnRelay` | relay, operation rows and the page, with restarts | extends `BridgeContract`, so bridge, console and page are composed |
| `SessionLifecycle` | what the registry promises about a session | abstract specification |
| `SessionRegistry` | registry requests, transaction by transaction | implements `SessionLifecycle` |
| `MessageInbox` | one session's inbox | |
| `AlertEvents` | the table of alerts and its transaction | shared by the next two |
| `SessionAlerts` | registry sweeps over session rows, beside a collector | extends `AlertEvents` |
| `CollectorRules` | status and issues of the three collectors | operators over what there is to find |
| `Collection` | collections, scheduler, POSTs, summary | extends `AlertEvents` and `CollectorRules` |
| `Discovery` | watcher, discovery reports, observations | with the rows of the console and systemd |
| `*Proofs` | theorems and proofs of the module they are named for | |
| `RunBridgeQueueProofs` | the theorems about the locks of `RunBridge` and their queues | extends `RunBridgeProofs` |
| `MC*` | small instances for TLC | |

Operators named `...Halfway`, `...Forgotten`, `...Unguarded` and the like, with a
comment that starts with "Fault:", are not part of any behaviour: each is a
plausible bug in the definition below it, used to see that a property notices.

### RunBridge

One action is the code between two suspension points of a coroutine. Awaiting a free
lock does not suspend, so `AdapterStarted` appends its event at once when the lock is
free and enters the queue otherwise. `lock[r]` is the FIFO queue of `asyncio.Lock`,
holder first. `condition.wait()` gives the lock up, and is notified, times out or is
cancelled; in each case it takes the lock again before it goes on (`StreamReacquire`,
`StreamTimeout`, the second disjunct of `Disconnect`). The time-out of 15 s may also
come when the wait has been notified and is taking the lock again; the cancelled wait
then queues anew. On Python 3.11 `wait_for` runs the wait in a task of its own: the
stream holds the lock until that task has started, which is why taking the lock
(`StreamNext`) and waiting (`StreamWait`) are two actions.

| action | code |
|---|---|
| `StartTurn` | `start_turn`, up to `create_task` |
| `AdapterStarted`, `EmitStarted`, `TurnFails`, `TurnOver` | `run_turn` of either adapter |
| `CloseOk`, `CloseError`, `EmitFailed`, `FinalNotify` | `close`, then the three branches of `run()` |
| `RuntimeEvent`, `RuntimeAsksApproval`, `HandlerResumes` | the reader task and the notification handlers |
| `Approve`, `ApproveWritten`, `ApproveLost`, `EmitResolved` | the approve handler and the adapters' `approve` |
| `StreamConnect` ... `Leave` | the generator `stream()`, one action per suspension |

Assumptions: a runtime sends nothing more for a turn after the event that ends it
(`~complete[r]`); two emits of one handler (a phase and a tool event) are one
event; the cancellation of a run task happens only at shutdown and is left out;
interrupt, delete, rename, history and models ask the adapter and change nothing
here. A client that reconnects is another stream with its own `after`, which may be any
number (`app.py:192` asks for `ge=0` only), also one beyond the end of the list.

### BridgeContract

Six promises, as atomic steps: a run starts once; what it emits is appended; it
completes only after its end was told; it may fail before it has told; a stream
yields from some place on, in order; it ends only with a run that is over and a list
that is exhausted. `RunBridge!ImplementsContract` maps a stream that has left to
"off" and every suspension inside the generator to "open". A stream may end only at
the end of its list: that `LoopTop` reads the status after the events is exactly what
the refinement needs (its mutant swaps them). The contract does not promise that a
session has one turn at a time, which the bridge does not keep (section 4).

### TurnRelay

The bridge is the contract plus `known`, the runs a bridge process has in memory, and
`slot`, its `active_sessions` for the one session that is modelled: a turn is accepted
unless the run in the slot is running, and a run that ends gives the slot up, whosever
it is. A failed run sets its status first (`failing`) and tells and leaves later, so two
turns may run side by side here as they may in `RunBridge`; `robbed` remembers whose slot
was given up by another. `BridgeRestart` empties all of it. A page has one event source,
so streams are named after pages.

| action | code |
|---|---|
| `Submit`, `BridgeAccepts`, `RecordStart`, `StartAnswered` | `submitTurn`, `client.start_turn`, `create_runtime_operation`, the answer |
| `StartRefused`, `StartFails` | 409 of the bridge; a timeout, an exception or a lost answer at any point between these |
| `RelayOpens`, `RelayChunk`, `RelayEnds`, `RelayBreaks` | the generator `stream()` of `stream_turn_events` |
| `Reads`, `Buffer`, `Outcome`, `Searches`, `RelayText` | the search for `event: completed`, `event: interrupted` and `event: failed`, in this order, in the last 512 characters, at every chunk |
| `BridgeTells`, `BridgeCompletes`, `BridgeFails`, `BridgeTellsFailure`, `FreesSlot` | `emit_event`, and the branches of `run()` with its `finally` |
| `HandleEvent`, `OnError`, `CheckAnswered`, `CheckFails` | `handleTurnEvent`, `onerror`, `reconcileRunState` |
| `StopUnknown`, `Select`, `Reload`, `SelectOther` | `stopTurn` when the run is unknown, `selectSession`, loading the page |
| `BridgeRestart`, `ConsoleRestart`, `PageLinkBreaks` | processes and connections |

One chunk is one event. `dropped` is how many events have left the buffer, which the
code cuts by length; the model lets any prefix be pushed out. A chunk that ends nothing
(`RelayText`) searches the buffer once more, so an older end may decide again. What a
turn may tell besides its end are `Extras`: a text that quotes the head of `completed`,
of `interrupted` or of `failed` (the data line carries texts verbatim), and a second
end, since the messages of the runtime are read until its client is closed. The bridge
itself sends `interrupted` only when its task is cancelled, at shutdown, but a quoted
one settles a row. What a page has told its user is kept per run (`told`). A start whose
page has looked away (`LookedAway`) is remembered when it is answered, one whose page
was reloaded is not: nobody waits for it any more. Not modelled: a second session of the
same page that is being started (`startingSessionId` is one variable), two stops at
once, approvals; and a page that is reloaded while it starts a turn starts another one
only after that request is over.

### Discovery

One action per request of the watcher, with the lookup that precedes it. A request
that fails may have had its effect (`Failed`). The codex part ends the whole scan and
the process when it fails (`ReportFailure`); the hermes part goes on to the next
source (`ReportLost`). `Slow` lets an interval pass inside a scan. `sight` is what a
look at a target tells: available, missing, or what the adapter could not decide;
entries name targets and are replaced by others (`Reregister`). The listing that carriers
are observed from leaves archived sessions out (`api.py:481`, `cli.py:487`); users archive
and restore (`Archives`). Ages count intervals
and saturate one above the larger threshold, beyond which nothing distinguishes
them. Assumed: the codex index is there and lists something (the watcher's fallback),
the listing of sessions stays below its limit of 500, and nobody stops the watcher
by hand (which systemd would not restart).

### SessionRegistry and SessionLifecycle

A step is one transaction, or one answer of the bridge. A PUT is one step
because its first statement writes, and so opens the transaction; it replaces status and
external session whatever they were (`repository.py:70`), so the source of a session may
change while a delete of the old one is under way, and after it; a PATCH is one because
what it reads before its UPDATE decides only `status_changed_at` and whether there is a
row, and rows are never removed. Heartbeat, archive, restore and delete read in one step
and write in another, and delete takes up to four. The runtime is external: `gone` is what it has deleted, and
`RuntimeFails` covers the answer that is lost after the deletion. `Restart` ends all
requests between two steps, and `Raises` one of them: an exception that the endpoint does
not expect (a database that stays locked, an answer that is no JSON), at any step, the
audit's INSERT included. What a delete has asked of the runtime may be done all the same
(`Vanish`). Histories say which session and source deletes were checked for (`asked`)
and which deletes ended halfway (`cut`). Time stamps are reduced to NULL or not;
`ended_at`, names, workspaces and observations are left out, and the rename,
which touches none of the modelled columns, with them.

### MessageInbox

Every statement of the code is confined to one recipient or one message, so one
inbox is the whole story. `now` is taken where the code takes it, before the
transaction; the clock does not go back. `ListWrite` is the one transaction with
its two updates; the LIMIT of the SELECT that follows changes nothing.
`AckCheck` / `AckWrite` / `AckAnswered` are the check, the update and the answer.

### AlertEvents, SessionAlerts

`ReconcileAlertEvents` is the transaction both producers share. A sweep takes the
time (`SweepBegin`), reads the rows (`SweepRead`, ordered by `updated_at`, LIMIT 500),
looks at the clock once more for each of them (`SweepView`) and writes (`SweepWrite`);
rows and clock may change between any two of these. A `Report` is any request that sets
a status, and takes the current time; that heartbeats race is the business of
`SessionRegistry`. Three history variables count how often a condition came up and how
often a row changed between a sweep's SELECT and its look at the clock (`slipped`), and
say whether two sweeps overlapped.

### CollectorRules

The three collectors as functions of what they find: which issues there are, with
which severity and subject, and the module's status, for which all of them count
their issues like parts (`Judged`). Percentages and temperatures are whole numbers.
`QuotaAnswer` is the retry loop: the first answer that is not worth another try, or
the last. `IF` chains follow the order of the code's branches.

### Collection

One action per transaction of `run_collectors_once`, in the order of the code.
Metric samples and retention write tables nobody here reads; their exceptions are
`Cut`. `Crash` ends all threads; the new process starts its scheduler. `torn`
records that the newest collection to write anything was cut short. `stop()` of
the scheduler is not modelled: the application makes a new object per start. What a
machine lets the collectors find is a record (`Machines`), judged by `CollectorRules`
in `Found`; `AlertOf` is the fingerprint of `_alerts`.

## 3. Runs

| run | shows | bounds |
|---|---|---|
| `run_bridge` | completed runs are delivered to every stream; nobody waits for a lock that is not passed on; no stream misses the last notification | 1 run, 2 streams, 1 approval, 1 text event: every pair of competitors for the lock; streams that begin at 0, after an event, and beyond the list |
| `run_bridge_overlap` | two turns of a session overlap only after one failed; the bridge implements `BridgeContract` | 3 runs, 1 session, 1 stream: the fewest with which a slot is freed by one run, taken by a second and missed by a third; a stream may be on any of the runs |
| `run_bridge_live` | turns and streams end | 1 run, 2 streams: one holds the lock, one waits |
| `run_bridge_second_turn` | **violation**: `OneRunningTurn` | as `run_bridge_overlap` |
| `session_registry` | refinement of `SessionLifecycle`; tombstones are true, recorded and audited | 1 session, 2 sources it may be registered with, 3 requests (two that race and one that meets what they left), 1 crash or exception; 1 live and 1 terminal status suffice, as the code only asks whether a status is terminal |
| `heartbeat_revival` | **violation**: `HeartbeatsKeepTerminal` | same |
| `message_inbox` | statuses advance, stamps agree, expiry is due | 2 messages, 2 requests, 3 instants: a time before, at and after a deadline |
| `ack_of_expired` | **violation**: `AckOkMeansAcked` | same |
| `session_alerts` | sources are separate, one alert per session, occurrences are episodes, alerts catch up and clear | 1 session, 2 sweeps, 4 instants, 2 reports; thresholds so near (lost after one instant, a long wait after two) that one session may be lost twice, wait for long, and be judged by a row that is older than the look at the clock; the LIMIT is as large as the number of sessions |
| `collection` | mutual exclusion, tables and summary agree, alerts show in statuses, the console catches up | all 3 modules, 4 machines that meet every rule of the collectors at its thresholds, 1 POST, 1 change of the machine, 2 faults |
| `turn_relay` | rows are settled for a reason, what a page gives up is settled, what it follows it remembers, it comes to rest | 2 turns (an old and a new one), 1 page, 2 disturbances (broken links, restarts, lost answers, visits, quotes of each kind, a second end); a run is known only to the tab that started it, so a second page adds nothing but load |
| `discovery` | failures stay at home, lost sessions were not listed, sources recover, carriers catch up | 2 codex sessions of which the index has 1, 1 hermes session in one of two sources, 1 carrier with 1 target, thresholds of 2 intervals, 2 faults, 1 change (an archive or restore is one) |

With two turns the end of one may rob the other of its slot, but only a third could make
the page give up a robbed one: that case of `GivenUpWhenSettled` takes three runs in
`MCTurnRelay.cfg` and, for the time it takes, one disturbance and `PagesComeToRest` left
out (three quarters of a million states and no error, whereas without the clause about
robbed runs TLC finds a violation there); the theorem `GivenUpSettled` covers
it for any number. `MCTurnRelay` hands the interchangeable run ids out in one order
(`OrderedSpec`), since symmetry sets are not sound for liveness; no fairness obliges a run
to start, so nothing else is lost.

`CHECK_DEADLOCK FALSE` is set where the bounded environment may come to rest:
all runs are over and clients gone, or every row is in its final state.

### Fairness

* Bridge: the event loop runs every ready callback, so the run task, a handler
  that has the lock and a stream go on (weak fairness of each). That a stream goes
  on includes that its consumer keeps reading: a consumer that stops in a keep-alive
  blocks the run for as long as it is connected, so the liveness properties are
  stated for consumers that read or leave. No fairness for runtimes, users or clients.
* Sweeps: a handler that has begun goes on, and sweeps keep coming, since the
  watcher reports a scan every interval (`cli.py`, the watch loop, restarted by
  systemd) and an open console polls the alerts.
* Relay and page: a turn ends (`TasksFinish` of `RunBridge`), a relay relays what the
  bridge sends, and a page handles its events and the answers it gets. Nobody has to
  submit, select or reload, and no process has to restart.
* Discovery: every request of the watcher has a timeout, so a scan goes on; the loop
  wakes up after its sleep; systemd restarts what has failed (`Restart=on-failure`).
* Collections: a thread that runs goes on (possibly into an exception, the number
  of which is bounded), and the scheduler tries again every interval. That there is a
  scheduler is assumed: `main.py:56` starts it only when `QINGLUO_SCHEDULER_ENABLED` is
  set. Without it `ConsoleCatchesUp` depends on somebody's POSTs.

## 4. What the violations say

1. `run_bridge_second_turn`. `start_turn` promises 409 while a turn runs
   (`app.py:86-88`). A failed run sets its status, waits for the lock, and only
   then pops the session's slot, whatever run is in it (`app.py:113-117`). A second
   turn that started meanwhile loses its slot and a third one starts beside it.
   `OverlapNeedsAFailure`, which holds and is proved, says that this is the only way.
2. `heartbeat_revival`. `repository.py:208` keeps a terminal status, as
   `src/docs/agent-registry-spec.md:136` demands, but by the status it read before the
   UPDATE. `RevivalNeedsAStaleRead` says that this is the only way.
3. `ack_of_expired`. "Expired messages cannot be acknowledged" (`service.py:400`) is
   checked one transaction earlier than the UPDATE, whose row count nobody looks at:
   the request is answered and audited as ok. `StatusOnlyAdvances` says the row is
   right all the same.

Met while reading, without a run:

Registry, bridge and alerts:

* The sweep looks at the 500 sessions updated last (`service.py:222`); those silent
  longest are the ones that are lost. With more sessions their alerts are resolved
  although nothing recovered, against `src/docs/agent-registry-spec.md:332`:
  `AlertsCatchUp` fails in `MCSessionAlerts` with two sessions and `Limit = 1`.
* `src/docs/agent-registry-spec.md:134` has a heartbeat restore `active` by default;
  `repository.py:208` keeps the current status.
* The `failed` event of a run can miss a stream that looks between the status
  (`app.py:113`) and the emit, so `CompletedRunsAreDelivered` is about completed runs.
* A PUT replaces the external session but leaves archive and tombstone as they are
  (`repository.py:70`): a session that is registered with another, living source after a
  delete, or while one waits for the runtime, keeps or gets the tombstone of the old one
  and stays hidden. `TombstonesMeanGone` and `GoneIsRecorded` therefore speak of the
  source for which the delete was checked.
* A source that the runtime has deleted is on no record when the request then crashes or
  meets an exception that is no `RuntimeBridgeError`, such as a locked database
  (`api.py:466-472`); the same between tombstone and audit (`service.py:492-497`).
* A sweep reads the rows before it looks at the clock for each (`service.py:442`, `598`):
  a session whose heartbeat comes in between may be reported as lost though it never was,
  and counted, with no other sweep about. The next sweep resolves it.
* An approval is popped before it is answered (`adapters.py:336`, `ApproveLost`).
* A collector that fails resolves the alerts of its module; they count as new when
  it works again.
* A listing marks all unread messages as read, also those beyond its LIMIT.
* A heartbeat with `status=completed` leaves `ended_at` NULL.
* Of two deletes that race, the one that fails leaves its error beside the tombstone.
* Renames change the runtime, then the row: of two that race, the row may keep the name
  the runtime has given up, until a scan registers the session again.

Relay and page (each is a behaviour of `TurnRelay`):

* An operation that is completed becomes failed when its events are fetched again after
  the bridge was restarted (`api.py:380`), and one whose relay broke is failed while its
  turn goes on; the page then gives a live run up.
* When the bridge's answer or the row is lost, a turn runs without an operation
  (`api.py:293`); the session is busy until it ends.
* The `failed` event that a stream misses (`app.py:113`) leaves the row "running" for
  good; the page tells its user that it is disconnected, and so it does after each visit.
* A text that quotes `event: completed`, `event: interrupted` or `event: failed` settles
  the row of a live turn (`api.py:372-377`), the last one as a failure of the runtime
  although nothing failed. `OutcomesAreReal` allows for just these.
* A run whose slot the end of a failed one gave up (`app.py:117`) may be running when its
  page starts another turn: the page then remembers that one (`AgentsPage.vue:590`), and
  the older run, whose row says "running", is followed and remembered by nobody.
  `GivenUpWhenSettled` says that this is the only way to give a live, unsettled run up.
* A turn whose start is answered after its user has looked elsewhere and come back is
  remembered but not followed; the page may follow an older one meanwhile.

Discovery and collectors:

* `src/README.md:51` and `src/docs/agent-registry-spec.md:260` promise that the failure of
  a hermes source affects neither the other one nor `codex-local`; `FailuresStayAtHome`
  confirms it. The converse does not hold: hermes sources are scanned after codex and only
  if it succeeded (`cli.py:471`), so a codex part that keeps failing leaves them stale.
* The first registration that fails ends the scan of its source: one session that is
  always refused keeps those behind it from being registered.
* An entry that becomes one without a carrier keeps the status of its old carrier.
* The carriers of archived sessions are not observed (`api.py:481`, `cli.py:487`) and keep
  the status they had; `CarriersCatchUp` is about the others.
* The format given to tmux holds a backslash and a `t` (`carriers.py:59`) where the
  parser expects a tab; whether tmux turns it into one is outside the repository.
* The issues of the two file systems have no subject (`system.py:301`), and so one
  fingerprint (`collector_runner.py:207`): two full mounts are one alert.
* Stopped or unhealthy containers, and quotas that are unknown, change the status of their
  module without an alert.
* An `HTTPError` is a `URLError`: the quota request is repeated for every HTTP error, and
  the check for 502, 503 and 504 (`cpa_quota.py:208`) decides nothing.

## 5. Theorems

For all values of the constants that satisfy the named assumptions (distinct null
values, disjoint names, natural bounds). Every safety invariant, action property and
refinement that a passing run checks is also a theorem; each rests on an inductive
invariant, which is named here with the reason why it is needed. Invariants were
checked by TLC on a small instance before they were proved.

* `RunBridgeProofs`: `TypeCorrect`; `OverlapOnlyAfterFailure`;
  `CompletedRunsDelivered`; `BridgeImplementsContract`. Types need `StepsAgree`: the
  step of a run's task goes with its status, and a stream that is on is on a run that
  exists. `OverlapNeedsAFailure` says nothing about the slot, so it is strengthened to
  `SlotInv`: a running run owns its session's slot unless a run of the session failed.
  The delivery needs `DeliverInv`, which ties the task to the list: `complete`, and
  later the status, are set only when the terminal event is in the list, and a stream
  that ended has drained it. The contract needs `TellersInv` as well, by which a reader
  task works for a run that is running and an approval belongs to a run that exists.
* `RunBridgeQueueProofs`: `QueuesAreOfWaiters`, `NoWakeUpIsLost`. `QueueInv` says the same
  of queues as the property, by membership instead of places, and that nobody is in them
  twice; lemmas about appending to a queue, taking its head and removing a cancelled
  waiter carry it through. `WakeInv` is why no wake-up is lost: `FinalNotify` wakes who
  waits, so what could miss it is a stream that has seen the run going on and is about to
  wait. Such a stream is in the queue, ahead of the run's task when that stands there for
  its last notification.
* `SessionRegistryProofs`: `RegistryTypeCorrect`; `TombstonesAreTrue` (a request that
  has its answer from the runtime has the source it asked for in `gone`); `RegistryImplementsLifecycle`,
  by which every step is a step of the life cycle or leaves it alone; `DeletesAreRecorded`,
  `TombstonesReachTheAudit`, `RevivalsAreStale`. None of them relies on the source of a
  session staying what it is: a delete goes for a source it was checked for (`asked`),
  whatever the row has by then. The refinement needs one invariant: a
  tombstone is archived and has a row, and a request is about a row. The same makes the
  records: the UPDATE that is still to come finds its row, and a request that leaves the
  set of those that still have to write has written.
* `MessageInboxProofs`: `InboxTypeCorrect`, `InboxStampsAgree`, `InboxExpiredIsDue`,
  `InboxOnlyAdvances`. The invariant adds that a request's time is not in the future,
  an acknowledgement has a row, and a message is sent by one request, whose row is
  not there yet.
* `SessionAlertsProofs`: `AlertsTypeCorrect`, `SessionsHaveOneAlert`,
  `ProducersAreSeparate`, `OccurrencesCountEpisodes`. That a session has one alert needs
  that what a sweep in flight found has one code per session (the effective status of a
  row decides the code) and that a sweep's write leaves exactly its findings active;
  that is `FindingsInv`. The count of occurrences is about sweeps that have not
  overlapped: `RowsInv` says that a condition that holds without an active alert has
  come up more often than it was counted, or its row slipped by a sweep, and `SweepsInv`
  the same of the one sweep in flight: what it has found is active or behind the count,
  and a row that it still has to judge is the present one, unless every alert of the
  session is behind. It assumes that the sessions
  are finitely many and no more than LIMIT; with more of them the counts are wrong
  (section 4).
* `CollectionProofs`: `CollectionTypeCorrect`, `CollectionsAreExclusive`,
  `TablesTellOneStory`, `SummaryMatchesBatch`, `AlertsShowInStatuses`. The invariant says
  where a thread stands (`PlaceInv`), that the first `written` modules of `latest_status`
  are those of the thread's snapshot (`WritesInv`), and that the tables agree as long as
  nobody has written since the newest batch (`AgreeInv`): a collection cut short before
  its first write leaves them as they were. `AlertsShowInStatuses` adds `CoverInv`:
  whatever a collector finds, and what is reported when it raises, has issues no graver
  than its status (lemmas about `Judged` and each of the three readings), which holds of
  the snapshots in hand and of the newest batch, and `AgreeInv` carries it to the tables.
* `DiscoveryProofs`: `TypeCorrect`, `FailuresAreAtHome`, `LostWereNotFound`. `StepsInv` says
  that a source lists sessions of its own, that the steps only the codex part has are about
  codex, and that the entries still to be observed name targets; with the types it is all
  that `FailuresStayAtHome` needs. `AgesInv` bounds the
  age of what the newest good scan has found by the age of its report and the time it
  took, and of what the scan in progress has registered by the time it has taken so far:
  a report may be written long after the first of its sessions was seen, and a failed
  scan leaves the older report to answer for its sessions.
* `TurnRelayProofs`: `TypeCorrect`, `OutcomesReal`, `FollowedRemembered`, `GivenUpSettled`,
  `RelayUsesContract`. Types need `LinksInv` (an open source relays the run the page
  follows) and `StartsInv` (a start has a run once it is accepted, and one answered to
  the page as it was finds it following nothing). Outcomes need
  `BufferInv`: an open relay has neither dropped nor yielded more than its run has told,
  so what the buffer shows, and any quote in it, is of that run. What pages remember
  takes four parts. `OwnInv`: until a start is answered nobody has heard of its run.
  `FollowInv`: if the remembered run is not the followed one, the page does not ask about
  it, so no verdict can drop it. `SlotInv`: a live run holds the session's slot unless
  the end of another one gave it up (`robbed`). `SettledInv`: rows are settled before the
  page can hear the end, and a remembered run that was not robbed is not live while
  another one is started, since the bridge looks at the slot. `MemoryMoves` reduces every action to the four
  ways in which these change for one page. `RelayUsesContract` closes the composition:
  console and pages move the bridge only as `BridgeContract` allows, and by
  `BridgeImplementsContract` the bridge keeps it.

Only model-checked: liveness (`TasksFinish`, `StreamsEnd`, `AlertsCatchUp`, `AlertsClear`,
`PagesComeToRest`, `SourcesRecover`, `CarriersCatchUp`, `ConsoleCatchesUp`), which needs
ENABLED and fairness, beyond the prover; and that the three properties under section 4
are violated, which a counterexample shows. No theorem is about what a recursive
definition computes, for the prover has no induction over data here.

## 6. Not modelled

* Formatting, redaction and validation of requests (`models.py`), authorisation, themes
  and layout of the front end: no state, or none that a property is about.
* The parsing of `/proc`, docker's, codex's, hermes' and tmux's output: the modules take
  what it yields. Model catalogs, history and search of the adapters are reads.
* Rename: `purpose` and the name in the runtime are read by nothing that is modelled.
* Metric samples, their buckets and retention; the session tree: functions of one read.
* Single commands of `agentctl`, attachments, the task inbox of the page, `stop()` of the
  scheduler.

## 7. Plan

The modules stand, in the order of what matters most. What is open:

1. `SessionRegistry`: rename, and the rows of agents.
2. `RunBridge` and `TurnRelay`: the restart of the bridge in `RunBridge` itself, so that
   `known` is a part of the contract.
3. Algorithms, each against a reference definition: the tree (reachability) and metric
   buckets (289 of them in 24 h that do not start on a boundary).
