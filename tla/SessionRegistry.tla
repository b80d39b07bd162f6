-------------------------- MODULE SessionRegistry --------------------------
(***************************************************************************)
(* The agent session registry: rows of agent_sessions, and the API         *)
(* requests that change them (agent_registry/api.py, service.py,           *)
(* repository.py).                                                         *)
(*                                                                         *)
(* Synchronous endpoints run on a pool of threads and delete-source runs   *)
(* on the event loop, so requests interleave.  A step is one SQLite        *)
(* transaction or one answer of the runtime bridge: SELECTs that precede a *)
(* write are steps of their own, unless the write opened the transaction.  *)
(* A crash of the process drops the requests, an exception (a database     *)
(* that stays locked, an answer that is no JSON) drops one of them;        *)
(* committed rows survive.                                                 *)
(*                                                                         *)
(* Timestamps are abstracted to whether they are set; what is derived from *)
(* their values (lost, waiting for long) is left to the alerts.            *)
(***************************************************************************)
EXTENDS Naturals, FiniteSets

CONSTANTS
  Sessions,    \* session ids
  Sources,     \* external sessions: what codex or hermes keeps
  Live,        \* the statuses a session may leave by a heartbeat
  Terminal,    \* completed, failed
  Requests,    \* the requests that may be in flight together
  MaxFaults    \* bound: crashes and exceptions that end requests halfway

ASSUME RegistryAssumption ==
  /\ Live \cap Terminal = {}
  /\ "none" \notin Live \cup Terminal
  /\ "none" \notin Sources
  /\ MaxFaults \in Nat

VARIABLES
  status,       \* agent_sessions.status, "none" while there is no row
  sourceOf,     \* external_session_id, or "none"; sessions may share one
  archived,     \* archived_at IS NOT NULL
  deleted,      \* source_deleted_at IS NOT NULL
  deleteError,  \* source_delete_error IS NOT NULL
  audited,      \* the sessions with a source_delete / ok event in the audit
  gone,         \* external: the sources the runtime has deleted
  request,      \* requests in flight, with what they have read of the row
  asked,        \* history: the sessions and sources deletes were checked for
  cut,          \* history: the deletes that a crash or an exception ended
  faults        \* bound: how many there were

rows == <<status, sourceOf, archived, deleted, deleteError>>
history == <<asked, cut, faults>>
vars == <<rows, audited, gone, request, history>>

Statuses == Live \cup Terminal
Operations == {"heartbeat", "archive", "unarchive", "delete"}
Steps == {"read", "deletedThere", "refused", "audit"}
Deletes == [op : {"delete"}, session : Sessions, step : Steps,
            seen : {"none"}, source : Sources]
InFlight == Deletes \cup
  [op : Operations \ {"delete"}, session : Sessions, step : {"read"},
   seen : Statuses \cup {"none"}, source : {"none"}]
Idle == [op |-> "idle"]

TypeOK ==
  /\ status \in [Sessions -> Statuses \cup {"none"}]
  /\ archived \in [Sessions -> BOOLEAN]
  /\ deleted \in [Sessions -> BOOLEAN]
  /\ deleteError \in [Sessions -> BOOLEAN]
  /\ audited \in SUBSET Sessions
  /\ gone \in SUBSET Sources
  /\ request \in [Requests -> InFlight \cup {Idle}]
  /\ sourceOf \in [Sessions -> Sources \cup {"none"}]
  /\ asked \in SUBSET (Sessions \X Sources)
  /\ cut \in SUBSET Deletes
  /\ faults \in 0..MaxFaults

Init ==
  /\ status = [s \in Sessions |-> "none"]
  /\ archived = [s \in Sessions |-> FALSE]
  /\ deleted = [s \in Sessions |-> FALSE]
  /\ deleteError = [s \in Sessions |-> FALSE]
  /\ audited = {}
  /\ gone = {}
  /\ request = [q \in Requests |-> Idle]
  /\ sourceOf = [s \in Sessions |-> "none"]
  /\ asked = {}
  /\ cut = {}
  /\ faults = 0

-----------------------------------------------------------------------------
(* Steps of a request.                                                     *)

Known(s) == status[s] # "none"

\* A request starts by reading the row.  A heartbeat goes by the status it
\* saw, a delete by the source.
Begins(q, op, s, seen, source) ==
  /\ request[q] = Idle
  /\ Known(s)
  /\ request' = [request EXCEPT
       ![q] = [op |-> op, session |-> s, step |-> "read", seen |-> seen, source |-> source]]

At(q, op, step) == request[q] # Idle /\ request[q].op = op /\ request[q].step = step
GoesTo(q, step) == request' = [request EXCEPT ![q].step = step]

\* Fault: a request that ends keeps its arguments.
EndsHalfway(q) == request' = [request EXCEPT ![q].op = "idle"]

Ends(q) == request' = [request EXCEPT ![q] = Idle]

-----------------------------------------------------------------------------
(* Registration and explicit statuses: one transaction each.               *)

\* Fault: the upsert resets the archive and tombstone columns as well.
RegisterAnew(s, st, src) ==
  /\ status' = [status EXCEPT ![s] = st]
  /\ sourceOf' = [sourceOf EXCEPT ![s] = src]
  /\ archived' = [archived EXCEPT ![s] = FALSE]
  /\ deleted' = [deleted EXCEPT ![s] = FALSE]
  /\ deleteError' = [deleteError EXCEPT ![s] = FALSE]
  /\ UNCHANGED <<audited, gone, request, history>>

\* PUT: the upsert overwrites status and external session, whatever they were,
\* and leaves the archive and tombstone columns of a row alone.
Register(s, st, src) ==
  /\ status' = [status EXCEPT ![s] = st]
  /\ sourceOf' = [sourceOf EXCEPT ![s] = src]
  /\ UNCHANGED <<archived, deleted, deleteError, audited, gone, request, history>>

\* PATCH: any status, from any status.
UpdateStatus(s, st) ==
  /\ Known(s)
  /\ status' = [status EXCEPT ![s] = st]
  /\ UNCHANGED <<sourceOf, archived, deleted, deleteError, audited, gone, request, history>>

-----------------------------------------------------------------------------
(* Heartbeats read the status, then write it back.                         *)

HeartbeatRead(q, s) ==
  /\ Begins(q, "heartbeat", s, status[s], "none")
  /\ UNCHANGED <<rows, audited, gone, history>>

\* Fault: the status that comes with the heartbeat always wins.
NextStatusAlways(seen, st) == IF st = "none" THEN seen ELSE st

\* A finished session stays finished; st = "none" is a heartbeat without status.
NextStatus(seen, st) == IF seen \in Terminal \/ st = "none" THEN seen ELSE st

HeartbeatWrite(q, st) ==
  /\ At(q, "heartbeat", "read")
  /\ status' = [status EXCEPT ![request[q].session] = NextStatus(request[q].seen, st)]
  /\ Ends(q)
  /\ UNCHANGED <<sourceOf, archived, deleted, deleteError, audited, gone, history>>

-----------------------------------------------------------------------------
(* Archive and unarchive: check, then UPDATE ... WHERE source_deleted_at   *)
(* IS NULL.  Of the audit only the tombstones' events are kept.            *)

ArchiveCheck(q, op, s) ==
  /\ op \in {"archive", "unarchive"}
  /\ ~deleted[s]
  /\ Begins(q, op, s, "none", "none")
  /\ UNCHANGED <<rows, audited, gone, history>>

\* Fault: the UPDATE trusts the check that preceded it.
MayArchiveUnguarded(s) == TRUE

\* The WHERE clause of set_archived.
MayArchive(s) == ~deleted[s]

ArchiveWrite(q, op) ==
  LET s == request[q].session IN
  /\ At(q, op, "read")
  /\ op \in {"archive", "unarchive"}
  /\ archived' = IF MayArchive(s) THEN [archived EXCEPT ![s] = (op = "archive")] ELSE archived
  /\ Ends(q)
  /\ UNCHANGED <<status, sourceOf, deleted, deleteError, audited, gone, history>>

-----------------------------------------------------------------------------
(* Delete-source: check, await the bridge, tombstone and audit, or error.  *)

\* The user's confirmation is compared with the source that was read.
DeleteCheck(q, s) ==
  /\ ~deleted[s]
  /\ sourceOf[s] # "none"
  /\ Begins(q, "delete", s, "none", sourceOf[s])
  /\ asked' = asked \cup {<<s, sourceOf[s]>>}
  /\ UNCHANGED <<rows, audited, gone, cut, faults>>

\* External.  The runtime deletes the source, or had and does not mind.
RuntimeDeletes(q) ==
  /\ At(q, "delete", "read")
  /\ gone' = gone \cup {request[q].source}
  /\ GoesTo(q, "deletedThere")
  /\ UNCHANGED <<rows, audited, history>>

\* External.  It refuses, or cannot be reached; or it deletes the source and
\* its answer is lost to a timeout.
RuntimeFails(q) ==
  /\ At(q, "delete", "read")
  /\ gone' \in {gone, gone \cup {request[q].source}}
  /\ GoesTo(q, "refused")
  /\ UNCHANGED <<rows, audited, history>>

\* mark_source_deleted: the tombstone also archives, and clears the error.
DeleteMark(q) ==
  LET s == request[q].session IN
  /\ At(q, "delete", "deletedThere")
  /\ deleted' = [deleted EXCEPT ![s] = TRUE]
  /\ archived' = [archived EXCEPT ![s] = TRUE]
  /\ deleteError' = [deleteError EXCEPT ![s] = FALSE]
  /\ GoesTo(q, "audit")
  /\ UNCHANGED <<status, sourceOf, audited, gone, history>>

\* Fault: a failed delete leaves a tombstone, as if the source were gone.
DeleteFailedMarks(q) ==
  LET s == request[q].session IN
  /\ At(q, "delete", "refused")
  /\ deleted' = [deleted EXCEPT ![s] = TRUE]
  /\ archived' = [archived EXCEPT ![s] = TRUE]
  /\ deleteError' = [deleteError EXCEPT ![s] = TRUE]
  /\ Ends(q)
  /\ UNCHANGED <<status, sourceOf, audited, gone, history>>

\* record_source_delete_error: whatever became of the row meanwhile.
DeleteFailed(q) ==
  LET s == request[q].session IN
  /\ At(q, "delete", "refused")
  /\ deleteError' = [deleteError EXCEPT ![s] = TRUE]
  /\ Ends(q)
  /\ UNCHANGED <<status, sourceOf, archived, deleted, audited, gone, history>>

\* Fault: the request ends without its audit row.
AuditForgotten(q) ==
  /\ At(q, "delete", "audit")
  /\ Ends(q)
  /\ UNCHANGED <<rows, audited, gone, history>>

\* The tombstone is committed; its audit row is a transaction of its own.
Audit(q) ==
  /\ At(q, "delete", "audit")
  /\ audited' = audited \cup {request[q].session}
  /\ Ends(q)
  /\ UNCHANGED <<rows, gone, history>>

\* Requests that end where they stand.  What a delete has asked of the runtime
\* may be done all the same.
Vanish(Q) ==
  /\ faults < MaxFaults
  /\ faults' = faults + 1
  /\ \E waiting \in SUBSET {q \in Q : At(q, "delete", "read")} :
       gone' = gone \cup {request[q].source : q \in waiting}
  /\ cut' = cut \cup {request[q] : q \in {p \in Q : request[p] # Idle /\ request[p].op = "delete"}}
  /\ request' = [q \in Requests |-> IF q \in Q THEN Idle ELSE request[q]]
  /\ UNCHANGED <<rows, audited, asked>>

\* An exception that no handler of the endpoint expects, at any step.
Raises(q) == request[q] # Idle /\ Vanish({q})

\* The process dies.
Restart == Vanish(Requests)

-----------------------------------------------------------------------------
Step(q) ==
  \/ \E s \in Sessions : HeartbeatRead(q, s) \/ DeleteCheck(q, s)
  \/ \E s \in Sessions, op \in {"archive", "unarchive"} : ArchiveCheck(q, op, s)
  \/ \E st \in Statuses \cup {"none"} : HeartbeatWrite(q, st)
  \/ \E op \in {"archive", "unarchive"} : ArchiveWrite(q, op)
  \/ RuntimeDeletes(q) \/ RuntimeFails(q) \/ DeleteMark(q) \/ DeleteFailed(q)
  \/ Audit(q) \/ Raises(q)

Next ==
  \/ \E s \in Sessions, st \in Statuses :
       \/ \E src \in Sources \cup {"none"} : Register(s, st, src)
       \/ UpdateStatus(s, st)
  \/ \E q \in Requests : Step(q)
  \/ Restart

Spec == Init /\ [][Next]_vars

-----------------------------------------------------------------------------
(* Properties.                                                             *)

\* A session as the workspace shows it.  A tombstone that is not archived would
\* be listed again: no life of the specification below.
LifeOf(s) ==
  CASE ~Known(s) -> "unknown"
    [] deleted[s] -> IF archived[s] THEN "deleted" ELSE "revived"
    [] ~deleted[s] /\ archived[s] -> "archived"
    [] OTHER -> "listed"

lives == [s \in Sessions |-> LifeOf(s)]

Lifecycle == INSTANCE SessionLifecycle WITH life <- lives

\* Requests that check first and write later keep, under every interleaving,
\* the promise of atomic ones: a tombstone is permanent, a session that is
\* registered again is not restored, an archive never hits a deleted session.
ImplementsLifecycle == Lifecycle!Spec

\* A session has a tombstone only when the runtime has deleted a source that
\* the session had when a delete of it was checked: not one that another
\* registration put in its place, and none whose delete was refused.  (Whether
\* the session still has that source is another matter: see Register.)
TombstonesMeanGone ==
  \A s \in Sessions : deleted[s] =>
    \E src \in Sources : <<s, src>> \in asked /\ src \in gone

\* A source that is gone is not forgotten.  The session whose delete was checked
\* for it has the tombstone or the error, whatever source it was registered
\* with since, or a request is still to write one; only a crash or an
\* exception before that write loses it.
GoneIsRecorded ==
  \A src \in gone :
    \/ \E s \in Sessions : <<s, src>> \in asked /\ (deleted[s] \/ deleteError[s])
    \/ \E q \in Requests : /\ request[q] # Idle
                           /\ request[q].step \in {"deletedThere", "refused"}
                           /\ request[q].source = src
    \/ \E r \in cut : r.source = src /\ r.step # "audit"

\* Every tombstone is in the audit log, or its request is about to write it
\* there; only a crash or an exception between the two transactions loses it.
TombstonesAreAudited ==
  \A s \in Sessions : deleted[s] =>
    \/ s \in audited
    \/ \E q \in Requests : At(q, "delete", "audit") /\ request[q].session = s
    \/ \E r \in cut : r.session = s /\ r.step = "audit"

\* A heartbeat revives a finished session only if it had read it unfinished.
\* (The other way back from a terminal status is a registration or a PATCH.)
RevivalNeedsAStaleRead ==
  [][\A q \in Requests :
       (At(q, "heartbeat", "read") /\ request'[q] = Idle /\ UNCHANGED faults)
         => LET s == request[q].session IN
            (status[s] \in Terminal /\ status'[s] \notin Terminal)
              => request[q].seen \notin Terminal]_vars

\* "completed and failed are terminal": no heartbeat ever changes one.
HeartbeatsKeepTerminal ==
  [][\A q \in Requests :
       (At(q, "heartbeat", "read") /\ request'[q] = Idle /\ UNCHANGED faults)
         => LET s == request[q].session IN
            status[s] \in Terminal => status'[s] = status[s]]_vars
=============================================================================
