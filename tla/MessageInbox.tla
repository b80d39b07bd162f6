---------------------------- MODULE MessageInbox ----------------------------
(***************************************************************************)
(* The inbox of one session: rows of agent_messages and the requests that  *)
(* send, list and acknowledge (agent_registry/service.py, repository.py).  *)
(* The inboxes of other sessions are separate: every UPDATE is confined to *)
(* one recipient or to one message.                                        *)
(*                                                                         *)
(* The endpoints run on a pool of threads.  A step is one SQLite           *)
(* transaction; the time a request writes is the one it took before its    *)
(* transaction began.  Expiry is lazy: only a listing expires messages.    *)
(***************************************************************************)
EXTENDS Naturals

CONSTANTS
  Messages,   \* message ids (uuid4: an id is never used twice)
  Requests,   \* the requests that may be in flight together
  MaxTime,    \* bound: the clock stops there
  NoTime      \* SQL NULL

ASSUME InboxAssumption == MaxTime \in Nat /\ NoTime \notin Nat

VARIABLES
  clock,
  status,     \* agent_messages.status, "none" while there is no row
  created, expires, readAt, ackedAt,
  request

times == <<created, expires, readAt, ackedAt>>
vars == <<clock, status, created, expires, readAt, ackedAt, request>>

Statuses == {"unread", "read", "acked", "expired"}
Time == 0..MaxTime
\* A message may expire at any later time, also after the last tick.
Deadline == 1..(MaxTime + 1)

Idle == [op |-> "idle"]
Sends == [op : {"send"}, message : Messages, now : Time, expires : Deadline \cup {NoTime}]
Lists == [op : {"list"}, now : Time]
Acks == [op : {"ack", "ackOk"}, message : Messages, now : Time]
InFlight == Sends \cup Lists \cup Acks

TypeOK ==
  /\ clock \in Time
  /\ status \in [Messages -> Statuses \cup {"none"}]
  /\ created \in [Messages -> Time \cup {NoTime}]
  /\ expires \in [Messages -> Deadline \cup {NoTime}]
  /\ readAt \in [Messages -> Time \cup {NoTime}]
  /\ ackedAt \in [Messages -> Time \cup {NoTime}]
  /\ request \in [Requests -> InFlight \cup {Idle}]

Init ==
  /\ clock = 0
  /\ status = [m \in Messages |-> "none"]
  /\ created = [m \in Messages |-> NoTime]
  /\ expires = [m \in Messages |-> NoTime]
  /\ readAt = [m \in Messages |-> NoTime]
  /\ ackedAt = [m \in Messages |-> NoTime]
  /\ request = [q \in Requests |-> Idle]

Starts(q, r) == request[q] = Idle /\ request' = [request EXCEPT ![q] = r]

\* Fault: a request that ends keeps its arguments.
EndsHalfway(q) == request' = [request EXCEPT ![q].op = "idle"]

Ends(q) == request' = [request EXCEPT ![q] = Idle]

Tick ==
  /\ clock < MaxTime
  /\ clock' = clock + 1
  /\ UNCHANGED <<status, times, request>>

-----------------------------------------------------------------------------
\* send_message: a deadline has to lie in the future of the time taken here.
SendCheck(q, m, deadline) ==
  /\ status[m] = "none"
  /\ \A p \in Requests : request[p].op = "send" => request[p].message # m
  /\ deadline # NoTime => deadline > clock
  /\ Starts(q, [op |-> "send", message |-> m, now |-> clock, expires |-> deadline])
  /\ UNCHANGED <<clock, status, times>>

SendWrite(q) ==
  LET r == request[q] IN
  /\ r.op = "send"
  /\ status' = [status EXCEPT ![r.message] = "unread"]
  /\ created' = [created EXCEPT ![r.message] = r.now]
  /\ expires' = [expires EXCEPT ![r.message] = r.expires]
  /\ Ends(q)
  /\ UNCHANGED <<clock, readAt, ackedAt>>

-----------------------------------------------------------------------------
(* list_messages: expire, mark as read, select, in one transaction.        *)

ListBegin(q) ==
  /\ Starts(q, [op |-> "list", now |-> clock])
  /\ UNCHANGED <<clock, status, times>>

\* Fault: a message that was acknowledged expires all the same.
ExpiresAlsoAcked(m, now) ==
  status[m] # "none" /\ expires[m] # NoTime /\ expires[m] <= now

\* Fault: a message expires one tick before its deadline.
ExpiresEarly(m, now) ==
  status[m] \notin {"none", "acked"} /\ expires[m] # NoTime /\ expires[m] <= now + 1

\* The rows of the first UPDATE.
Expires(m, now) ==
  status[m] \notin {"none", "acked"} /\ expires[m] # NoTime /\ expires[m] <= now

\* The rows of the second UPDATE: what is still unread after the first.
Marks(m, now) == status[m] = "unread" /\ ~Expires(m, now)

ListWrite(q, markRead) ==
  LET now == request[q].now IN
  /\ request[q].op = "list"
  /\ status' = [m \in Messages |->
       IF markRead /\ Marks(m, now) THEN "read"
       ELSE IF Expires(m, now) THEN "expired" ELSE status[m]]
  /\ readAt' = [m \in Messages |->
       IF markRead /\ Marks(m, now) /\ readAt[m] = NoTime THEN now ELSE readAt[m]]
  /\ Ends(q)
  /\ UNCHANGED <<clock, created, expires, ackedAt>>

-----------------------------------------------------------------------------
(* ack_message: read the row, refuse if it is expired, UPDATE; then audit  *)
(* "ok" and answer with the row, whether or not the UPDATE matched it.     *)

AckCheck(q, m) ==
  /\ status[m] \notin {"none", "expired"}
  /\ Starts(q, [op |-> "ack", message |-> m, now |-> clock])
  /\ UNCHANGED <<clock, status, times>>

\* Fault: the UPDATE trusts the check that preceded it.
MayAckUnguarded(m) == status[m] # "none"

\* The WHERE clause of the UPDATE.
MayAck(m) == status[m] # "expired"

\* acked_at is taken between the check and the UPDATE.
AckWrite(q) ==
  LET m == request[q].message IN
  /\ request[q].op = "ack"
  /\ \E now \in request[q].now..clock :
       IF MayAck(m)
       THEN /\ status' = [status EXCEPT ![m] = "acked"]
            /\ readAt' = [readAt EXCEPT ![m] = IF @ = NoTime THEN now ELSE @]
            /\ ackedAt' = [ackedAt EXCEPT ![m] = now]
       ELSE UNCHANGED <<status, readAt, ackedAt>>
  /\ request' = [request EXCEPT ![q].op = "ackOk"]
  /\ UNCHANGED <<clock, created, expires>>

\* The audit says ok, the client has its answer.
AckAnswered(q) ==
  /\ request[q].op = "ackOk"
  /\ Ends(q)
  /\ UNCHANGED <<clock, status, times>>

-----------------------------------------------------------------------------
Step(q) ==
  \/ \E m \in Messages, deadline \in Deadline \cup {NoTime} : SendCheck(q, m, deadline)
  \/ SendWrite(q)
  \/ ListBegin(q)
  \/ \E markRead \in BOOLEAN : ListWrite(q, markRead)
  \/ \E m \in Messages : AckCheck(q, m)
  \/ AckWrite(q) \/ AckAnswered(q)

Next == Tick \/ \E q \in Requests : Step(q)

Spec == Init /\ [][Next]_vars

-----------------------------------------------------------------------------
(* Properties.                                                             *)

\* Listings and acknowledgements that race agree on the end of a message:
\* acked and expired are final, and nothing read becomes unread.
StatusOnlyAdvances ==
  [][\A m \in Messages :
       status'[m] # status[m] =>
         CASE status[m] = "none"   -> status'[m] = "unread"
           [] status[m] = "unread" -> status'[m] \in {"read", "acked", "expired"}
           [] status[m] = "read"   -> status'[m] \in {"acked", "expired"}
           [] OTHER                -> FALSE]_vars

\* The time stamps tell the story of the status: acknowledged messages and no
\* others have acked_at; a message that was read or acknowledged has read_at, and
\* an unread one has not, whichever of two racing requests came first.
StampsAgree ==
  \A m \in Messages :
    /\ ackedAt[m] # NoTime <=> status[m] = "acked"
    /\ status[m] \in {"read", "acked"} => readAt[m] # NoTime
    /\ status[m] \in {"none", "unread"} => readAt[m] = NoTime

\* A message is never hidden as expired before its deadline, although the
\* listing that expires it goes by a time it took earlier.
ExpiredIsDue ==
  \A m \in Messages : status[m] = "expired" => expires[m] # NoTime /\ expires[m] <= clock

\* "Expired messages cannot be acknowledged": a request that is answered with
\* ok has acknowledged its message.
AckOkMeansAcked ==
  \A q \in Requests : request[q].op = "ackOk" => status[request[q].message] = "acked"
=============================================================================
