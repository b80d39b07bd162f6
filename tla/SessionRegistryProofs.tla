----------------------- MODULE SessionRegistryProofs -----------------------
(***************************************************************************)
(* Proofs about SessionRegistry, for any number of sessions, sources and   *)
(* requests in flight.                                                     *)
(***************************************************************************)
EXTENDS SessionRegistry, TLAPS

USE RegistryAssumption DEF Statuses

LEMMA IdleIsNotInFlight == Idle \notin InFlight
BY DEF Idle, InFlight, Deletes, Operations

\* What a request that goes on, ends or starts leaves in its slot.
LEMMA GoesToType ==
  ASSUME TypeOK, NEW q \in Requests, At(q, "delete", request[q].step),
         NEW step \in Steps, GoesTo(q, step)
  PROVE  /\ request[q] \in Deletes
         /\ request' = [request EXCEPT ![q] = [request[q] EXCEPT !.step = step]]
         /\ request' \in [Requests -> InFlight \cup {Idle}]
<1>1. request[q] \in Deletes
  BY DEF TypeOK, At, InFlight
<1>2. [request[q] EXCEPT !.step = step] \in Deletes
  BY <1>1 DEF Deletes
<1> QED
  BY <1>1, <1>2 DEF TypeOK, GoesTo, InFlight

LEMMA EndsType ==
  ASSUME TypeOK, NEW q \in Requests, Ends(q)
  PROVE  request' \in [Requests -> InFlight \cup {Idle}]
BY DEF TypeOK, Ends

LEMMA BeginsType ==
  ASSUME TypeOK, NEW q \in Requests, NEW op \in Operations, NEW s \in Sessions,
         NEW seen \in Statuses \cup {"none"}, NEW source,
         \/ op # "delete" /\ source = "none"
         \/ op = "delete" /\ seen = "none" /\ source \in Sources,
         Begins(q, op, s, seen, source)
  PROVE  request' \in [Requests -> InFlight \cup {Idle}]
<1>1. [op |-> op, session |-> s, step |-> "read", seen |-> seen, source |-> source] \in InFlight
  BY DEF InFlight, Deletes, Steps
<1> QED
  BY <1>1 DEF TypeOK, Begins

\* What a crash or an exception adds to the sources that are gone.
LEMMA VanishType ==
  ASSUME TypeOK, NEW Q \in SUBSET Requests, Vanish(Q)
  PROVE  TypeOK'
<1>1. \A q \in Requests :
        (request[q] # Idle /\ request[q].op = "delete") => request[q] \in Deletes
  BY DEF TypeOK, InFlight
<1>2. gone' \in SUBSET Sources
  <2>1. PICK waiting \in SUBSET {q \in Q : At(q, "delete", "read")} :
          gone' = gone \cup {request[q].source : q \in waiting}
    BY DEF Vanish
  <2>2. ASSUME NEW q \in waiting PROVE request[q].source \in Sources
    BY <1>1 DEF At, Deletes
  <2> QED
    BY <2>1, <2>2 DEF TypeOK
<1>3. cut' \in SUBSET Deletes
  BY <1>1 DEF TypeOK, Vanish
<1>4. request' \in [Requests -> InFlight \cup {Idle}]
  BY DEF TypeOK, Vanish
<1>5. faults' \in 0..MaxFaults
  BY DEF TypeOK, Vanish
<1> QED
  BY <1>2, <1>3, <1>4, <1>5 DEF TypeOK, Vanish, rows

\* The inductive invariant.  Only rows that exist are archived, deleted or the
\* business of a request; a tombstone is archived; a delete goes for a source it
\* was checked for; and the answer that lets it write a tombstone means that
\* this source is gone.
RowsAgree ==
  \A s \in Sessions :
    /\ deleted[s] => archived[s]
    /\ archived[s] => Known(s)
RequestAgrees(q) ==
  request[q] # Idle =>
    /\ Known(request[q].session)
    /\ request[q].op = "heartbeat" => request[q].seen \in Statuses
    /\ request[q].op = "delete" => <<request[q].session, request[q].source>> \in asked
    /\ request[q].step = "deletedThere" => request[q].source \in gone
RequestsAgree == \A q \in Requests : RequestAgrees(q)
IInv == TypeOK /\ RowsAgree /\ RequestsAgree /\ TombstonesMeanGone

LEMMA InitIInv == Init => IInv
BY DEF Init, IInv, TypeOK, RowsAgree, RequestsAgree, RequestAgrees, TombstonesMeanGone, Idle

LEMMA NextTypeOK == TypeOK /\ [Next]_vars => TypeOK'
<1> SUFFICES ASSUME TypeOK, [Next]_vars PROVE TypeOK'
  OBVIOUS
<1> USE DEF history
<1>1. ASSUME NEW s \in Sessions, NEW st \in Statuses, NEW src \in Sources \cup {"none"},
             Register(s, st, src) \/ UpdateStatus(s, st)
      PROVE  TypeOK'
  BY <1>1 DEF TypeOK, Register, UpdateStatus
<1>2. ASSUME NEW q \in Requests, Step(q) PROVE TypeOK'
  <2>1. ASSUME NEW s \in Sessions, HeartbeatRead(q, s) PROVE TypeOK'
    <3>1. status[s] \in Statuses \cup {"none"} /\ "heartbeat" \in Operations
      BY DEF TypeOK, Operations
    <3>2. request' \in [Requests -> InFlight \cup {Idle}]
      BY <2>1, <3>1, BeginsType DEF HeartbeatRead
    <3> QED
      BY <2>1, <3>2 DEF TypeOK, HeartbeatRead, rows
  <2>2. ASSUME NEW s \in Sessions, DeleteCheck(q, s) PROVE TypeOK'
    <3>1. sourceOf[s] \in Sources /\ "delete" \in Operations /\ "none" \in Statuses \cup {"none"}
      BY <2>2 DEF TypeOK, DeleteCheck, Operations
    <3>2. request' \in [Requests -> InFlight \cup {Idle}]
      BY <2>2, <3>1, BeginsType DEF DeleteCheck
    <3> QED
      BY <2>2, <3>1, <3>2 DEF TypeOK, DeleteCheck, rows
  <2>3. ASSUME NEW s \in Sessions, NEW op \in {"archive", "unarchive"}, ArchiveCheck(q, op, s)
        PROVE  TypeOK'
    <3>1. op \in Operations /\ op # "delete" /\ "none" \in Statuses \cup {"none"}
      BY DEF Operations
    <3>2. request' \in [Requests -> InFlight \cup {Idle}]
      BY <2>3, <3>1, BeginsType DEF ArchiveCheck
    <3> QED
      BY <2>3, <3>2 DEF TypeOK, ArchiveCheck, rows
  <2>4. ASSUME NEW st \in Statuses \cup {"none"}, HeartbeatWrite(q, st) PROVE TypeOK'
    <3>1. request[q] \in InFlight
      BY <2>4 DEF HeartbeatWrite, At, TypeOK
    <3>2. NextStatus(request[q].seen, st) \in Statuses \cup {"none"} /\ request[q].session \in Sessions
      BY <3>1 DEF NextStatus, InFlight, Deletes
    <3>3. status' \in [Sessions -> Statuses \cup {"none"}]
      BY <2>4, <3>2 DEF HeartbeatWrite, TypeOK
    <3> QED
      BY <2>4, <3>3, EndsType DEF TypeOK, HeartbeatWrite
  <2>5. ASSUME NEW op \in {"archive", "unarchive"}, ArchiveWrite(q, op) PROVE TypeOK'
    BY <2>5, EndsType DEF TypeOK, ArchiveWrite
  <2>6. CASE RuntimeDeletes(q) \/ RuntimeFails(q)
    <3>1. At(q, "delete", request[q].step)
      BY <2>6 DEF RuntimeDeletes, RuntimeFails, At
    <3>2. request[q] \in Deletes /\ request' \in [Requests -> InFlight \cup {Idle}]
      BY <2>6, <3>1, GoesToType DEF RuntimeDeletes, RuntimeFails, Steps
    <3>3. request[q].source \in Sources
      BY <3>2 DEF Deletes
    <3> QED
      BY <2>6, <3>2, <3>3 DEF TypeOK, RuntimeDeletes, RuntimeFails, rows
  <2>7. CASE DeleteMark(q)
    <3>1. At(q, "delete", request[q].step)
      BY <2>7 DEF DeleteMark, At
    <3>2. request' \in [Requests -> InFlight \cup {Idle}]
      BY <2>7, <3>1, GoesToType DEF DeleteMark, Steps
    <3> QED
      BY <2>7, <3>2 DEF TypeOK, DeleteMark
  <2>8. CASE DeleteFailed(q)
    BY <2>8, EndsType DEF TypeOK, DeleteFailed
  <2>9. CASE Audit(q)
    <3>1. request[q].session \in Sessions
      BY <2>9 DEF Audit, At, TypeOK, InFlight, Deletes
    <3> QED
      BY <2>9, <3>1, EndsType DEF TypeOK, Audit, rows
  <2>10. CASE Raises(q)
    BY <2>10, VanishType DEF Raises
  <2> QED
    BY <1>2, <2>1, <2>2, <2>3, <2>4, <2>5, <2>6, <2>7, <2>8, <2>9, <2>10 DEF Step
<1>3. CASE Restart
  BY <1>3, VanishType DEF Restart
<1>4. CASE UNCHANGED vars
  BY <1>4 DEF TypeOK, vars, rows
<1> QED
  BY <1>1, <1>2, <1>3, <1>4 DEF Next

\* Type correctness, whatever requests are in flight and whenever the process dies.
THEOREM RegistryTypeCorrect == Spec => []TypeOK
<1>1. Init => TypeOK
  BY InitIInv DEF IInv
<1> QED
  BY <1>1, NextTypeOK, PTL DEF Spec

\* What a step needs of an invariant about rows and requests, one slot at a time.
LEMMA OtherSlotsAgree ==
  ASSUME IInv, NEW q \in Requests, \A p \in Requests \ {q} : request'[p] \in {request[p], Idle},
         gone \subseteq gone', asked \subseteq asked',
         \A s \in Sessions : Known(s) => Known(s)'
  PROVE  \A p \in Requests \ {q} : RequestAgrees(p)'
<1>1. \A p \in Requests : request[p] # Idle => request[p].session \in Sessions
  BY DEF IInv, TypeOK, InFlight, Deletes
<1> QED
  BY <1>1 DEF IInv, RequestsAgree, RequestAgrees, Known

LEMMA TombstonesStay ==
  ASSUME IInv, deleted' = deleted, gone \subseteq gone', asked \subseteq asked'
  PROVE  TombstonesMeanGone'
BY DEF IInv, TombstonesMeanGone

LEMMA BeginsAgrees ==
  ASSUME IInv, NEW q \in Requests, NEW op \in Operations, NEW s \in Sessions,
         NEW seen, NEW source, op = "heartbeat" => seen \in Statuses,
         op = "delete" => <<s, source>> \in asked',
         Begins(q, op, s, seen, source), UNCHANGED <<rows, gone>>, asked \subseteq asked'
  PROVE  RowsAgree' /\ RequestsAgree' /\ TombstonesMeanGone'
<1>1. Known(s) /\ UNCHANGED <<status, archived, deleted, gone>>
  BY DEF Begins, rows
<1>2. request'[q] = [op |-> op, session |-> s, step |-> "read", seen |-> seen, source |-> source]
  BY DEF Begins, IInv, TypeOK
<1>3. \A p \in Requests \ {q} : request'[p] = request[p]
  BY DEF Begins, IInv, TypeOK
<1>4. RequestAgrees(q)'
  BY <1>1, <1>2 DEF RequestAgrees, Known
<1>5. \A p \in Requests \ {q} : RequestAgrees(p)'
  BY <1>1, <1>3, OtherSlotsAgree DEF Known
<1> QED
  BY <1>1, <1>4, <1>5, TombstonesStay DEF IInv, RowsAgree, RequestsAgree, Known

LEMMA EndsAgrees ==
  ASSUME IInv, NEW q \in Requests, Ends(q), UNCHANGED <<gone, asked>>,
         \A s \in Sessions : Known(s) => Known(s)'
  PROVE  RequestsAgree'
<1>1. request'[q] = Idle /\ \A p \in Requests \ {q} : request'[p] = request[p]
  BY DEF Ends, IInv, TypeOK
<1>2. \A p \in Requests \ {q} : RequestAgrees(p)'
  BY <1>1, OtherSlotsAgree
<1> QED
  BY <1>1, <1>2 DEF RequestsAgree, RequestAgrees

LEMMA GoesToAgrees ==
  ASSUME IInv, NEW q \in Requests, At(q, "delete", request[q].step),
         NEW step \in Steps, GoesTo(q, step),
         gone \subseteq gone', asked' = asked, status' = status,
         step = "deletedThere" => request[q].source \in gone'
  PROVE  RequestsAgree'
<1>1. \A p \in Requests \ {q} : request'[p] = request[p]
  BY DEF GoesTo, IInv, TypeOK
<1>2. /\ request[q] \in Deletes /\ request[q] # Idle
      /\ request' = [request EXCEPT ![q] = [request[q] EXCEPT !.step = step]]
  BY GoesToType DEF IInv, At
<1>3. /\ request'[q].session = request[q].session /\ request'[q].op = "delete"
      /\ request'[q].source = request[q].source /\ request'[q].step = step
  BY <1>2 DEF IInv, TypeOK, Deletes
<1>4. Known(request[q].session) /\ <<request[q].session, request[q].source>> \in asked
  BY <1>2 DEF IInv, RequestsAgree, RequestAgrees, Deletes
<1>5. RequestAgrees(q)'
  BY <1>3, <1>4 DEF RequestAgrees, Known
<1>6. \A p \in Requests \ {q} : RequestAgrees(p)'
  BY <1>1, OtherSlotsAgree DEF Known
<1> QED
  BY <1>5, <1>6 DEF RequestsAgree

LEMMA VanishAgrees ==
  ASSUME IInv, NEW Q \in SUBSET Requests, Vanish(Q)
  PROVE  RowsAgree' /\ RequestsAgree' /\ TombstonesMeanGone'
<1>1. /\ UNCHANGED <<status, archived, deleted, asked>> /\ gone \subseteq gone'
      /\ \A p \in Requests : request'[p] \in {request[p], Idle}
  BY DEF Vanish, rows
<1>2. \A q \in Requests : RequestAgrees(q)'
  BY <1>1 DEF IInv, RequestsAgree, RequestAgrees, Known
<1> QED
  BY <1>1, <1>2, TombstonesStay DEF IInv, RowsAgree, RequestsAgree, Known

LEMMA NextIInv == IInv /\ [Next]_vars => IInv'
<1> SUFFICES ASSUME IInv, [Next]_vars PROVE RowsAgree' /\ RequestsAgree' /\ TombstonesMeanGone'
  BY NextTypeOK DEF IInv
<1> USE DEF history
<1>0. TypeOK /\ RowsAgree /\ RequestsAgree /\ TombstonesMeanGone
  BY DEF IInv
<1>1. ASSUME NEW s \in Sessions, NEW st \in Statuses, NEW src \in Sources \cup {"none"},
             Register(s, st, src) \/ UpdateStatus(s, st)
      PROVE  RowsAgree' /\ RequestsAgree' /\ TombstonesMeanGone'
  <2>1. /\ status' = [status EXCEPT ![s] = st] /\ st # "none"
        /\ UNCHANGED <<archived, deleted, gone, request, asked>>
    BY <1>1 DEF Register, UpdateStatus
  <2>2. \A x \in Sessions : Known(x) => Known(x)'
    BY <1>0, <2>1 DEF Known, TypeOK
  <2>3. \A q \in Requests : request[q] # Idle => request[q].session \in Sessions
    BY <1>0 DEF TypeOK, InFlight, Deletes
  <2>4. RequestsAgree'
    BY <1>0, <2>1, <2>2, <2>3 DEF RequestsAgree, RequestAgrees, Known
  <2> QED
    BY <1>0, <2>1, <2>2, <2>4, TombstonesStay DEF RowsAgree
<1>2. ASSUME NEW q \in Requests, Step(q)
      PROVE  RowsAgree' /\ RequestsAgree' /\ TombstonesMeanGone'
  <2>0. request[q] # Idle =>
          /\ request[q] \in InFlight /\ request[q].session \in Sessions
          /\ Known(request[q].session)
          /\ (request[q].op = "heartbeat" => request[q].seen \in Statuses)
    BY <1>0 DEF TypeOK, InFlight, Deletes, RequestsAgree, RequestAgrees
  <2>1. ASSUME NEW s \in Sessions, HeartbeatRead(q, s)
        PROVE  RowsAgree' /\ RequestsAgree' /\ TombstonesMeanGone'
    <3>1. status[s] \in Statuses /\ "heartbeat" \in Operations
      BY <1>0, <2>1 DEF HeartbeatRead, Begins, Known, TypeOK, Operations
    <3> QED
      BY <2>1, <3>1, BeginsAgrees DEF HeartbeatRead
  <2>2. ASSUME NEW s \in Sessions, DeleteCheck(q, s)
        PROVE  RowsAgree' /\ RequestsAgree' /\ TombstonesMeanGone'
    <3>1. "delete" \in Operations /\ <<s, sourceOf[s]>> \in asked' /\ asked \subseteq asked'
      BY <2>2 DEF DeleteCheck, Operations
    <3> QED
      BY <2>2, <3>1, BeginsAgrees DEF DeleteCheck
  <2>3. ASSUME NEW s \in Sessions, NEW op \in {"archive", "unarchive"}, ArchiveCheck(q, op, s)
        PROVE  RowsAgree' /\ RequestsAgree' /\ TombstonesMeanGone'
    <3>1. op \in Operations /\ op # "delete" /\ op # "heartbeat"
      BY DEF Operations
    <3> QED
      BY <2>3, <3>1, BeginsAgrees DEF ArchiveCheck
  <2>4. ASSUME NEW st \in Statuses \cup {"none"}, HeartbeatWrite(q, st)
        PROVE  RowsAgree' /\ RequestsAgree' /\ TombstonesMeanGone'
    <3>1. NextStatus(request[q].seen, st) \in Statuses
      BY <2>0, <2>4 DEF HeartbeatWrite, At, NextStatus
    <3>2. \A x \in Sessions : Known(x) => Known(x)'
      BY <1>0, <2>4, <3>1 DEF HeartbeatWrite, Known, TypeOK
    <3>3. UNCHANGED <<archived, deleted, gone, asked>> /\ Ends(q)
      BY <2>4 DEF HeartbeatWrite
    <3> QED
      BY <1>0, <3>2, <3>3, EndsAgrees, TombstonesStay DEF RowsAgree
  <2>5. ASSUME NEW op \in {"archive", "unarchive"}, ArchiveWrite(q, op)
        PROVE  RowsAgree' /\ RequestsAgree' /\ TombstonesMeanGone'
    <3> DEFINE s == request[q].session
    <3>1. s \in Sessions /\ Known(s) /\ UNCHANGED <<status, deleted, gone, asked>> /\ Ends(q)
      BY <2>0, <2>5 DEF ArchiveWrite, At
    <3>2. \/ archived' = archived
          \/ ~deleted[s] /\ archived' = [archived EXCEPT ![s] = (op = "archive")]
      BY <2>5 DEF ArchiveWrite, MayArchive
    <3> HIDE DEF s
    <3>3. RowsAgree'
      BY <1>0, <3>1, <3>2 DEF RowsAgree, Known, TypeOK
    <3> QED
      BY <3>1, <3>3, EndsAgrees, TombstonesStay DEF Known
  <2>6. CASE RuntimeDeletes(q) \/ RuntimeFails(q)
    <3>1. At(q, "delete", request[q].step) /\ gone \subseteq gone' /\ asked' = asked
      BY <2>6 DEF RuntimeDeletes, RuntimeFails, At
    <3>2. UNCHANGED <<status, archived, deleted>>
      BY <2>6 DEF RuntimeDeletes, RuntimeFails, rows
    <3>3. RequestsAgree'
      BY <2>6, <3>1, <3>2, GoesToAgrees DEF RuntimeDeletes, RuntimeFails, Steps
    <3> QED
      BY <1>0, <3>1, <3>2, <3>3, TombstonesStay DEF RowsAgree, Known
  <2>7. CASE DeleteMark(q)
    <3>1. At(q, "delete", "deletedThere") /\ UNCHANGED <<gone, asked, status>>
      BY <2>7 DEF DeleteMark
    <3>2. PICK x \in Sessions : /\ x = request[q].session /\ Known(x)
                                /\ request[q].source \in gone
                                /\ <<x, request[q].source>> \in asked
      BY <1>0, <2>0, <3>1 DEF At, RequestsAgree, RequestAgrees
    <3>3. RequestsAgree'
      BY <2>7, <3>1, GoesToAgrees DEF DeleteMark, At, Steps
    <3>4. deleted' = [deleted EXCEPT ![x] = TRUE] /\ archived' = [archived EXCEPT ![x] = TRUE]
      BY <2>7, <3>2 DEF DeleteMark
    <3>5. request[q].source \in Sources
      BY <1>0, <3>2 DEF TypeOK
    <3>6. RowsAgree'
      BY <1>0, <3>1, <3>2, <3>4 DEF RowsAgree, Known, TypeOK
    <3>7. TombstonesMeanGone'
      BY <1>0, <3>1, <3>2, <3>4, <3>5 DEF TombstonesMeanGone, TypeOK
    <3> QED
      BY <3>3, <3>6, <3>7
  <2>8. CASE DeleteFailed(q) \/ Audit(q)
    <3>1. UNCHANGED <<status, archived, deleted, gone, asked>> /\ Ends(q)
      BY <2>8 DEF DeleteFailed, Audit, rows
    <3> QED
      BY <1>0, <3>1, EndsAgrees, TombstonesStay DEF RowsAgree, Known
  <2>9. CASE Raises(q)
    BY <2>9, VanishAgrees DEF Raises
  <2> QED
    BY <1>2, <2>1, <2>2, <2>3, <2>4, <2>5, <2>6, <2>7, <2>8, <2>9 DEF Step
<1>3. CASE Restart
  BY <1>3, VanishAgrees DEF Restart
<1>4. CASE UNCHANGED vars
  BY <1>0, <1>4 DEF vars, rows, RowsAgree, RequestsAgree, RequestAgrees, TombstonesMeanGone, Known
<1> QED
  BY <1>1, <1>2, <1>3, <1>4 DEF Next

\* A tombstone always means that the runtime has deleted a source the session
\* had when the delete was checked.
THEOREM TombstonesAreTrue == Spec => []TombstonesMeanGone
<1>1. IInv => TombstonesMeanGone
  BY DEF IInv
<1> QED
  BY InitIInv, NextIInv, <1>1, PTL DEF Spec

-----------------------------------------------------------------------------
(***************************************************************************)
(* Refinement: each step moves the life of at most one session, along an   *)
(* arrow of SessionLifecycle.                                              *)
(***************************************************************************)

\* A step that touches the row of x alone.
LEMMA OneRowMoves ==
  ASSUME NEW x \in Sessions,
         \A s \in Sessions \ {x} : /\ status'[s] = status[s] /\ archived'[s] = archived[s]
                                  /\ deleted'[s] = deleted[s]
  PROVE  lives' = [lives EXCEPT ![x] = LifeOf(x)']
<1>1. ASSUME NEW s \in Sessions, s # x PROVE LifeOf(s)' = LifeOf(s)
  BY <1>1 DEF LifeOf, Known
<1> QED
  BY <1>1 DEF lives

LEMMA RowsStay ==
  ASSUME UNCHANGED <<status, archived, deleted>>
  PROVE  lives' = lives
BY DEF lives, LifeOf, Known

LEMMA NextImplements == IInv /\ [Next]_vars => [Lifecycle!Next]_lives
<1> SUFFICES ASSUME IInv, [Next]_vars PROVE Lifecycle!Next \/ lives' = lives
  OBVIOUS
<1> USE DEF IInv
<1>1. ASSUME NEW s \in Sessions, NEW st \in Statuses, NEW src \in Sources \cup {"none"},
             Register(s, st, src) \/ UpdateStatus(s, st)
      PROVE  Lifecycle!Next \/ lives' = lives
  <2>1. /\ status' = [status EXCEPT ![s] = st] /\ st # "none"
        /\ UNCHANGED <<archived, deleted>>
    BY <1>1 DEF Register, UpdateStatus
  <2>2. lives' = [lives EXCEPT ![s] = LifeOf(s)']
    BY <2>1, OneRowMoves DEF TypeOK
  <2>3. \/ lives[s] = "unknown" /\ LifeOf(s)' = "listed"
        \/ LifeOf(s)' = lives[s]
    BY <2>1 DEF lives, LifeOf, Known, RowsAgree, TypeOK
  <2>4. CASE lives[s] = "unknown" /\ LifeOf(s)' = "listed"
    BY <2>2, <2>4 DEF Lifecycle!Next, Lifecycle!Appear, Lifecycle!Moves
  <2>5. CASE LifeOf(s)' = lives[s]
    BY <2>2, <2>5 DEF lives
  <2> QED
    BY <2>3, <2>4, <2>5
<1>2. ASSUME NEW q \in Requests, Step(q) PROVE Lifecycle!Next \/ lives' = lives
  <2> DEFINE s == request[q].session
  <2>0. request[q] # Idle =>
          /\ s \in Sessions /\ Known(s)
          /\ (request[q].op = "heartbeat" => request[q].seen \in Statuses)
    BY DEF TypeOK, InFlight, Deletes, RequestsAgree, RequestAgrees
  <2>1. CASE UNCHANGED <<status, archived, deleted>>
    BY <2>1, RowsStay
  <2>2. ASSUME NEW st \in Statuses \cup {"none"}, HeartbeatWrite(q, st)
        PROVE  lives' = lives
    <3>1. NextStatus(request[q].seen, st) \in Statuses /\ s \in Sessions /\ Known(s)
      BY <2>0, <2>2 DEF HeartbeatWrite, At, NextStatus
    <3>2. \A x \in Sessions : Known(x)' <=> Known(x)
      BY <2>2, <3>1 DEF HeartbeatWrite, Known, TypeOK
    <3> QED
      BY <2>2, <3>2 DEF HeartbeatWrite, lives, LifeOf
  <2>3. ASSUME NEW op \in {"archive", "unarchive"}, ArchiveWrite(q, op)
        PROVE  Lifecycle!Next \/ lives' = lives
    <3>1. PICK x \in Sessions : x = s /\ Known(x) /\ UNCHANGED <<status, deleted>>
      BY <2>0, <2>3 DEF ArchiveWrite, At
    <3>2. \/ archived' = archived
          \/ ~deleted[x] /\ archived' = [archived EXCEPT ![x] = (op = "archive")]
      BY <2>3, <3>1 DEF ArchiveWrite, MayArchive
    <3>3. CASE archived' = archived
      BY <3>1, <3>3, RowsStay
    <3>4. CASE ~deleted[x] /\ archived' = [archived EXCEPT ![x] = (op = "archive")]
      <4>1. lives' = [lives EXCEPT ![x] = LifeOf(x)']
        BY <3>1, <3>4, OneRowMoves DEF TypeOK
      <4>2. lives[x] \in {"listed", "archived"} /\ LifeOf(x)' \in {"listed", "archived"}
        BY <3>1, <3>4 DEF lives, LifeOf, Known, TypeOK
      <4>3. CASE LifeOf(x)' = lives[x]
        BY <4>1, <4>3 DEF lives
      <4>4. CASE LifeOf(x)' # lives[x]
        BY <4>1, <4>2, <4>4, <3>1
           DEF Lifecycle!Next, Lifecycle!Archive, Lifecycle!Restore, Lifecycle!Moves
      <4> QED
        BY <4>3, <4>4
    <3> QED
      BY <3>2, <3>3, <3>4
  <2>4. CASE DeleteMark(q)
    <3>1. PICK x \in Sessions :
            /\ x = s /\ Known(x) /\ status' = status
            /\ archived' = [archived EXCEPT ![x] = TRUE] /\ deleted' = [deleted EXCEPT ![x] = TRUE]
      BY <2>0, <2>4 DEF DeleteMark, At
    <3>2. lives' = [lives EXCEPT ![x] = LifeOf(x)']
      BY <3>1, OneRowMoves DEF TypeOK
    <3>3. LifeOf(x)' = "deleted"
      BY <3>1 DEF LifeOf, Known, TypeOK
    <3>4. lives[x] \in {"listed", "archived", "deleted"}
      BY <3>1 DEF lives, LifeOf, Known, RowsAgree, TypeOK
    <3>5. CASE lives[x] = "deleted"
      BY <3>2, <3>3, <3>5 DEF lives
    <3>6. CASE lives[x] \in {"listed", "archived"}
      BY <3>1, <3>2, <3>3, <3>6 DEF Lifecycle!Next, Lifecycle!Delete, Lifecycle!Moves
    <3> QED
      BY <3>4, <3>5, <3>6
  <2> QED
    BY <1>2, <2>1, <2>2, <2>3, <2>4
       DEF Step, HeartbeatRead, DeleteCheck, ArchiveCheck, RuntimeDeletes, RuntimeFails,
           DeleteFailed, Audit, Raises, Vanish, rows
<1>3. CASE Restart \/ UNCHANGED vars
  BY <1>3, RowsStay DEF Restart, Vanish, rows, vars
<1> QED
  BY <1>1, <1>2, <1>3 DEF Next

\* Requests that check, wait and write are as good as atomic ones: a session is
\* archived and restored at will, deleted once, and never comes back.
THEOREM RegistryImplementsLifecycle == Spec => ImplementsLifecycle
<1>1. Init => Lifecycle!Init
  BY DEF Init, Lifecycle!Init, lives, LifeOf, Known
<1> QED
  BY InitIInv, NextIInv, <1>1, NextImplements, PTL DEF Spec, ImplementsLifecycle, Lifecycle!Spec

-----------------------------------------------------------------------------
(***************************************************************************)
(* Records of deletes.  A request between its two writes is the only one   *)
(* that knows, and no other step touches its slot.                         *)
(***************************************************************************)

\* A step that only starts a request, or ends one that has nothing to record,
\* leaves alone every request that is about to write a record.
Unrecorded == {"deletedThere", "refused", "audit"}

RecordersStay ==
  \A q \in Requests :
    (request[q] # Idle /\ request[q].step \in Unrecorded) => request'[q] = request[q]

LEMMA ReadersKeepRecorders ==
  ASSUME TypeOK, NEW q \in Requests, request[q] = Idle \/ request[q].step = "read",
         \A p \in Requests \ {q} : request'[p] = request[p]
  PROVE  RecordersStay
BY DEF RecordersStay, Unrecorded

\* Each step of a request changes its own slot only.
LEMMA StepsOwnSlot ==
  ASSUME TypeOK, NEW q \in Requests, Step(q)
  PROVE  \A p \in Requests \ {q} : request'[p] = request[p]
<1>1. CASE Raises(q)
  BY <1>1 DEF Raises, Vanish
<1>2. CASE ~Raises(q)
  BY <1>2 DEF TypeOK, Step, HeartbeatRead, DeleteCheck, ArchiveCheck, HeartbeatWrite, ArchiveWrite,
       RuntimeDeletes, RuntimeFails, DeleteMark, DeleteFailed, Audit, Begins, Ends, GoesTo
<1> QED
  BY <1>1, <1>2

LEMMA RecordersRecord ==
  ASSUME RecordersStay, UNCHANGED <<deleted, deleteError, audited, gone, cut>>,
         asked \subseteq asked'
  PROVE  /\ GoneIsRecorded => GoneIsRecorded'
         /\ TombstonesAreAudited => TombstonesAreAudited'
<1>1. GoneIsRecorded => GoneIsRecorded'
  BY DEF RecordersStay, Unrecorded, GoneIsRecorded
<1>2. TombstonesAreAudited => TombstonesAreAudited'
  BY DEF RecordersStay, Unrecorded, TombstonesAreAudited, At
<1> QED
  BY <1>1, <1>2

\* The steps of a delete that follow its check.
LEMMA RuntimeAnswersRecorded ==
  ASSUME TypeOK, GoneIsRecorded, NEW q \in Requests, RuntimeDeletes(q) \/ RuntimeFails(q)
  PROVE  GoneIsRecorded'
<1>1. /\ At(q, "delete", request[q].step) /\ request[q].step = "read"
      /\ UNCHANGED <<deleted, deleteError, asked, cut>>
      /\ gone' \subseteq gone \cup {request[q].source}
  BY DEF RuntimeDeletes, RuntimeFails, At, rows, history
<1>2. PICK step \in {"deletedThere", "refused"} : GoesTo(q, step)
  BY DEF RuntimeDeletes, RuntimeFails
<1>3. step \in Steps
  BY DEF Steps
<1>4. /\ request[q] \in Deletes
      /\ request' = [request EXCEPT ![q] = [request[q] EXCEPT !.step = step]]
  BY <1>1, <1>2, <1>3, GoesToType
<1>5. /\ request'[q] # Idle /\ request'[q].step = step
      /\ request'[q].source = request[q].source
  BY <1>4 DEF TypeOK, Deletes, Idle
<1>6. \A p \in Requests \ {q} : request'[p] = request[p]
  BY <1>4 DEF TypeOK
<1> QED
  BY <1>1, <1>5, <1>6 DEF GoneIsRecorded

LEMMA VerdictsRecord ==
  ASSUME IInv, GoneIsRecorded, NEW q \in Requests, DeleteMark(q) \/ DeleteFailed(q)
  PROVE  GoneIsRecorded'
<1> USE DEF history
<1>1. PICK s \in Sessions : s = request[q].session /\ <<s, request[q].source>> \in asked
  BY DEF IInv, TypeOK, RequestsAgree, RequestAgrees, DeleteMark, DeleteFailed, At, InFlight, Deletes
<1>2. UNCHANGED <<gone, asked, cut>>
  BY DEF DeleteMark, DeleteFailed
<1>3. \A p \in Requests \ {q} : request'[p] = request[p]
  BY DEF IInv, TypeOK, DeleteMark, DeleteFailed, GoesTo, Ends
<1>4. deleted'[s] \/ deleteError'[s]
  BY <1>1 DEF IInv, TypeOK, DeleteMark, DeleteFailed
<1>5. \A x \in Sessions \ {s} : deleted'[x] = deleted[x] /\ deleteError'[x] = deleteError[x]
  BY <1>1 DEF IInv, TypeOK, DeleteMark, DeleteFailed
<1> QED
  BY <1>1, <1>2, <1>3, <1>4, <1>5 DEF GoneIsRecorded

LEMMA AuditKeepsRecords ==
  ASSUME TypeOK, GoneIsRecorded, NEW q \in Requests, Audit(q)
  PROVE  GoneIsRecorded'
<1>1. request[q].step = "audit" /\ UNCHANGED <<deleted, deleteError, gone, asked, cut>>
  BY DEF Audit, At, rows, history
<1>2. \A p \in Requests \ {q} : request'[p] = request[p]
  BY DEF TypeOK, Audit, Ends
<1> QED
  BY <1>1, <1>2 DEF GoneIsRecorded

LEMMA AnswersKeepAudit ==
  ASSUME TypeOK, TombstonesAreAudited, NEW q \in Requests,
         RuntimeDeletes(q) \/ RuntimeFails(q) \/ DeleteFailed(q)
  PROVE  TombstonesAreAudited'
<1>1. request[q].step # "audit" /\ UNCHANGED <<deleted, audited, cut>>
  BY DEF RuntimeDeletes, RuntimeFails, DeleteFailed, At, rows, history
<1>2. \A p \in Requests \ {q} : request'[p] = request[p]
  BY DEF TypeOK, RuntimeDeletes, RuntimeFails, DeleteFailed, GoesTo, Ends
<1> QED
  BY <1>1, <1>2 DEF TombstonesAreAudited, At

LEMMA MarksAreAudited ==
  ASSUME TypeOK, TombstonesAreAudited, NEW q \in Requests, DeleteMark(q)
  PROVE  TombstonesAreAudited'
<1>1. /\ At(q, "delete", request[q].step) /\ request[q].step = "deletedThere"
      /\ UNCHANGED <<audited, cut>> /\ GoesTo(q, "audit") /\ "audit" \in Steps
      /\ deleted' = [deleted EXCEPT ![request[q].session] = TRUE]
  BY DEF DeleteMark, At, history, Steps
<1>2. /\ request[q] \in Deletes
      /\ request' = [request EXCEPT ![q] = [request[q] EXCEPT !.step = "audit"]]
  BY <1>1, GoesToType
<1>3. At(q, "delete", "audit")' /\ request'[q].session = request[q].session
  BY <1>2 DEF TypeOK, At, Deletes, Idle
<1>4. \A p \in Requests \ {q} : request'[p] = request[p]
  BY <1>2 DEF TypeOK
<1> QED
  BY <1>1, <1>3, <1>4 DEF TypeOK, TombstonesAreAudited, At

LEMMA AuditAudits ==
  ASSUME TypeOK, TombstonesAreAudited, NEW q \in Requests, Audit(q)
  PROVE  TombstonesAreAudited'
<1>1. /\ audited' = audited \cup {request[q].session}
      /\ UNCHANGED <<deleted, cut>>
  BY DEF Audit, rows, history
<1>2. \A p \in Requests \ {q} : request'[p] = request[p]
  BY DEF TypeOK, Audit, Ends
<1> QED
  BY <1>1, <1>2 DEF TombstonesAreAudited, At

\* A crash or an exception leaves its own record.
LEMMA VanishRecords ==
  ASSUME TypeOK, NEW Q \in SUBSET Requests, Vanish(Q)
  PROVE  /\ GoneIsRecorded => GoneIsRecorded'
         /\ TombstonesAreAudited => TombstonesAreAudited'
<1>1. /\ UNCHANGED <<deleted, deleteError, audited, asked>> /\ cut \subseteq cut'
      /\ \A p \in Requests \ Q : request'[p] = request[p]
  BY DEF Vanish, rows
<1>2. \A q \in Q : (request[q] # Idle /\ request[q].op = "delete") => request[q] \in cut'
  BY DEF Vanish
<1>3. \A q \in Requests : (request[q] # Idle /\ request[q].step # "read") => request[q].op = "delete"
  BY DEF TypeOK, InFlight, Deletes
<1>4. ASSUME NEW src \in gone', src \notin gone
      PROVE  \E r \in cut' : r.source = src /\ r.step # "audit"
  <2>1. PICK waiting \in SUBSET {q \in Q : At(q, "delete", "read")} :
          gone' = gone \cup {request[q].source : q \in waiting}
    BY DEF Vanish
  <2>2. PICK q \in waiting : src = request[q].source
    BY <1>4, <2>1
  <2>3. q \in Q /\ request[q] # Idle /\ request[q].op = "delete" /\ request[q].step = "read"
    BY DEF At
  <2> QED
    BY <1>2, <2>2, <2>3
<1>5. GoneIsRecorded => GoneIsRecorded'
  <2> SUFFICES ASSUME GoneIsRecorded, NEW src \in gone', src \in gone
               PROVE  \/ \E s \in Sessions : <<s, src>> \in asked /\ (deleted[s] \/ deleteError[s])
                      \/ \E q \in Requests : /\ request'[q] # Idle
                                             /\ request'[q].step \in {"deletedThere", "refused"}
                                             /\ request'[q].source = src
                      \/ \E r \in cut' : r.source = src /\ r.step # "audit"
    BY <1>1, <1>4 DEF GoneIsRecorded
  <2>1. CASE \E s \in Sessions : <<s, src>> \in asked /\ (deleted[s] \/ deleteError[s])
    BY <2>1
  <2>2. CASE \E r \in cut : r.source = src /\ r.step # "audit"
    BY <1>1, <2>2
  <2>3. ASSUME NEW q \in Requests, request[q] # Idle, request[q].source = src,
               request[q].step \in {"deletedThere", "refused"}
        PROVE  \/ \E p \in Requests : /\ request'[p] # Idle
                                      /\ request'[p].step \in {"deletedThere", "refused"}
                                      /\ request'[p].source = src
               \/ \E r \in cut' : r.source = src /\ r.step # "audit"
    <3>1. CASE q \in Q
      BY <1>2, <1>3, <2>3, <3>1
    <3>2. CASE q \notin Q
      BY <1>1, <2>3, <3>2
    <3> QED
      BY <3>1, <3>2
  <2> QED
    BY <2>1, <2>2, <2>3 DEF GoneIsRecorded
<1>6. TombstonesAreAudited => TombstonesAreAudited'
  <2> SUFFICES ASSUME TombstonesAreAudited, NEW s \in Sessions, deleted[s]
               PROVE  \/ s \in audited
                      \/ \E q \in Requests : At(q, "delete", "audit")' /\ request'[q].session = s
                      \/ \E r \in cut' : r.session = s /\ r.step = "audit"
    BY <1>1 DEF TombstonesAreAudited
  <2>1. ASSUME NEW q \in Requests, At(q, "delete", "audit"), request[q].session = s
        PROVE  \/ \E p \in Requests : At(p, "delete", "audit")' /\ request'[p].session = s
               \/ \E r \in cut' : r.session = s /\ r.step = "audit"
    <3>1. CASE q \in Q
      BY <1>2, <2>1, <3>1 DEF At
    <3>2. CASE q \notin Q
      BY <1>1, <2>1, <3>2 DEF At
    <3> QED
      BY <3>1, <3>2
  <2> QED
    BY <1>1, <2>1 DEF TombstonesAreAudited
<1> QED
  BY <1>5, <1>6

LEMMA NextRecords ==
  ASSUME IInv, [Next]_vars
  PROVE  /\ GoneIsRecorded => GoneIsRecorded'
         /\ TombstonesAreAudited => TombstonesAreAudited'
<1>0. TypeOK
  BY DEF IInv
<1> USE DEF history
<1>1. CASE UNCHANGED <<request, deleted, deleteError, audited, gone, cut, asked>>
  BY <1>1, RecordersRecord DEF RecordersStay
<1>2. ASSUME NEW q \in Requests, Step(q)
      PROVE  /\ GoneIsRecorded => GoneIsRecorded'
             /\ TombstonesAreAudited => TombstonesAreAudited'
  <2>1. CASE RuntimeDeletes(q) \/ RuntimeFails(q)
    BY <1>0, <2>1, RuntimeAnswersRecorded, AnswersKeepAudit
  <2>2. CASE DeleteMark(q)
    BY <1>0, <2>2, VerdictsRecord, MarksAreAudited
  <2>3. CASE DeleteFailed(q)
    BY <1>0, <2>3, VerdictsRecord, AnswersKeepAudit
  <2>4. CASE Audit(q)
    BY <1>0, <2>4, AuditKeepsRecords, AuditAudits
  <2>5. CASE Raises(q)
    BY <1>0, <2>5, VanishRecords DEF Raises
  <2>6. CASE ~(RuntimeDeletes(q) \/ RuntimeFails(q) \/ DeleteMark(q) \/ DeleteFailed(q)
               \/ Audit(q) \/ Raises(q))
    <3>1. /\ request[q] = Idle \/ request[q].step = "read"
          /\ UNCHANGED <<deleted, deleteError, audited, gone, cut>>
          /\ asked \subseteq asked'
      BY <1>2, <2>6 DEF Step, HeartbeatRead, DeleteCheck, ArchiveCheck, HeartbeatWrite,
                        ArchiveWrite, Begins, At, rows
    <3> QED
      BY <1>0, <1>2, <3>1, StepsOwnSlot, ReadersKeepRecorders, RecordersRecord
  <2> QED
    BY <2>1, <2>2, <2>3, <2>4, <2>5, <2>6
<1>3. CASE Restart
  BY <1>0, <1>3, VanishRecords DEF Restart
<1> QED
  BY <1>1, <1>2, <1>3 DEF Next, Register, UpdateStatus, vars, rows

\* Whatever requests race, a source that the runtime has deleted is on record:
\* only a crash or an exception between the runtime's answer and the write of
\* it loses that.
THEOREM DeletesAreRecorded == Spec => []GoneIsRecorded
<1>1. Init => GoneIsRecorded
  BY DEF Init, GoneIsRecorded
<1> QED
  BY <1>1, InitIInv, NextIInv, NextRecords, PTL DEF Spec

\* Every tombstone has its audit event, but for a crash or an exception between
\* the two transactions of one request.
THEOREM TombstonesReachTheAudit == Spec => []TombstonesAreAudited
<1>1. Init => TombstonesAreAudited
  BY DEF Init, TombstonesAreAudited
<1> QED
  BY <1>1, InitIInv, NextIInv, NextRecords, PTL DEF Spec

-----------------------------------------------------------------------------
(* Only the write of a heartbeat ends a heartbeat, and it goes by the      *)
(* status the request read.                                                *)

Revives(q) ==
  (At(q, "heartbeat", "read") /\ request'[q] = Idle /\ UNCHANGED faults)
    => LET s == request[q].session IN
       (status[s] \in Terminal /\ status'[s] \notin Terminal) => request[q].seen \notin Terminal

LEMMA HeartbeatEnds ==
  ASSUME TypeOK, [Next]_vars, NEW q \in Requests,
         At(q, "heartbeat", "read"), request'[q] = Idle, UNCHANGED faults
  PROVE  \E st \in Statuses \cup {"none"} : HeartbeatWrite(q, st)
<1>1. request'[q] # request[q] /\ ~Restart /\ \A p \in Requests : ~Raises(p)
  <2>1. faults \in Nat /\ faults' = faults
    BY DEF TypeOK
  <2>2. ASSUME NEW Q PROVE ~Vanish(Q)
    BY <2>1 DEF Vanish
  <2> QED
    BY <2>2 DEF At, Restart, Raises
<1>2. PICK p \in Requests : Step(p)
  BY <1>1 DEF Next, Register, UpdateStatus, vars
<1>3. p = q
  BY <1>1, <1>2, StepsOwnSlot
<1> QED
  BY <1>1, <1>2, <1>3 DEF Step, HeartbeatRead, DeleteCheck, ArchiveCheck, ArchiveWrite,
                    RuntimeDeletes, RuntimeFails, DeleteMark, DeleteFailed, Audit, Begins, At

\* A finished session comes back to life by a heartbeat only if the heartbeat
\* had read it unfinished, whatever happened to the row between read and write.
THEOREM RevivalsAreStale == Spec => RevivalNeedsAStaleRead
<1>1. ASSUME TypeOK, [Next]_vars, NEW q \in Requests PROVE Revives(q)
  <2> SUFFICES ASSUME At(q, "heartbeat", "read"), request'[q] = Idle, UNCHANGED faults,
                      status'[request[q].session] \notin Terminal
               PROVE  request[q].seen \notin Terminal
    BY DEF Revives
  <2>1. PICK st \in Statuses \cup {"none"} : HeartbeatWrite(q, st)
    BY <1>1, HeartbeatEnds
  <2>2. request[q].session \in Sessions
    BY <1>1 DEF TypeOK, At, InFlight, Deletes
  <2>3. status'[request[q].session] = NextStatus(request[q].seen, st)
    BY <1>1, <2>1, <2>2 DEF HeartbeatWrite, TypeOK
  <2> QED
    BY <2>3 DEF NextStatus
<1>2. TypeOK /\ [Next]_vars => [\A q \in Requests : Revives(q)]_vars
  BY <1>1
<1> QED
  BY <1>2, RegistryTypeCorrect, PTL DEF Spec, RevivalNeedsAStaleRead, Revives
=============================================================================
