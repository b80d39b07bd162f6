------------------------- MODULE MessageInboxProofs -------------------------
(***************************************************************************)
(* Proofs about MessageInbox, for any number of messages and of requests   *)
(* in flight and any length of time.                                       *)
(***************************************************************************)
EXTENDS MessageInbox, TLAPS

USE InboxAssumption DEF Statuses, Time, Deadline

\* What the slot of a request holds, by its operation.
LEMMA SendShape ==
  ASSUME TypeOK, NEW q \in Requests, request[q].op = "send" PROVE request[q] \in Sends
BY DEF TypeOK, InFlight, Sends, Lists, Acks, Idle

LEMMA ListShape ==
  ASSUME TypeOK, NEW q \in Requests, request[q].op = "list" PROVE request[q] \in Lists
BY DEF TypeOK, InFlight, Sends, Lists, Acks, Idle

LEMMA AckShape ==
  ASSUME TypeOK, NEW q \in Requests, request[q].op \in {"ack", "ackOk"}
  PROVE  request[q] \in Acks
BY DEF TypeOK, InFlight, Sends, Lists, Acks, Idle

\* The inductive invariant: TypeOK, the properties, and what a request may
\* rely on between its check and its write.
\* A message that is being sent has no row, and no other request sends it.
SendsAreAlone ==
  \A q \in Requests : request[q].op = "send" =>
    /\ status[request[q].message] = "none"
    /\ \A p \in Requests : (request[p].op = "send" /\ request[p].message = request[q].message)
                             => p = q
\* A message that is being acknowledged has one.
AcksHaveRows ==
  \A q \in Requests : request[q].op = "ack" => status[request[q].message] # "none"
\* The time a request took has passed.
TimesArePast ==
  \A q \in Requests : request[q].op \in {"list", "ack"} => request[q].now <= clock
RequestInv == SendsAreAlone /\ AcksHaveRows /\ TimesArePast
IInv == TypeOK /\ RequestInv /\ StampsAgree /\ ExpiredIsDue

LEMMA InitIInv == Init => IInv
BY DEF Init, IInv, TypeOK, RequestInv, SendsAreAlone, AcksHaveRows, TimesArePast, StampsAgree,
       ExpiredIsDue, Idle

-----------------------------------------------------------------------------
LEMMA SendCheckType ==
  ASSUME TypeOK, NEW q \in Requests, NEW m \in Messages, NEW d \in Deadline \cup {NoTime},
         SendCheck(q, m, d)
  PROVE  TypeOK'
<1>1. [op |-> "send", message |-> m, now |-> clock, expires |-> d] \in Sends
  BY DEF TypeOK, Sends
<1> QED
  BY <1>1 DEF SendCheck, Starts, TypeOK, InFlight, times

LEMMA SendWriteType == ASSUME TypeOK, NEW q \in Requests, SendWrite(q) PROVE TypeOK'
<1>1. request[q] \in Sends
  BY SendShape DEF SendWrite
<1> QED
  BY <1>1 DEF SendWrite, Sends, Ends, TypeOK, times

LEMMA ListBeginType == ASSUME TypeOK, NEW q \in Requests, ListBegin(q) PROVE TypeOK'
<1>1. [op |-> "list", now |-> clock] \in Lists
  BY DEF TypeOK, Lists
<1> QED
  BY <1>1 DEF ListBegin, Starts, TypeOK, InFlight, times

LEMMA ListWriteType ==
  ASSUME TypeOK, NEW q \in Requests, NEW markRead \in BOOLEAN, ListWrite(q, markRead)
  PROVE  TypeOK'
<1>1. request[q] \in Lists /\ request[q].now \in Time
  BY ListShape DEF ListWrite, Lists
<1> QED
  BY <1>1 DEF ListWrite, Ends, TypeOK, times

LEMMA AckCheckType ==
  ASSUME TypeOK, NEW q \in Requests, NEW m \in Messages, AckCheck(q, m) PROVE TypeOK'
<1>1. [op |-> "ack", message |-> m, now |-> clock] \in Acks
  BY DEF TypeOK, Acks
<1> QED
  BY <1>1 DEF AckCheck, Starts, TypeOK, InFlight, times

LEMMA AckWriteType == ASSUME TypeOK, NEW q \in Requests, AckWrite(q) PROVE TypeOK'
<1>1. request[q] \in Acks
  BY AckShape DEF AckWrite
<1>2. PICK now \in request[q].now..clock :
        IF MayAck(request[q].message)
        THEN /\ status' = [status EXCEPT ![request[q].message] = "acked"]
             /\ readAt' = [readAt EXCEPT ![request[q].message] = IF @ = NoTime THEN now ELSE @]
             /\ ackedAt' = [ackedAt EXCEPT ![request[q].message] = now]
        ELSE UNCHANGED <<status, readAt, ackedAt>>
  BY DEF AckWrite
<1>3. now \in Time
  BY <1>1, <1>2 DEF Acks, TypeOK
<1>4. [request[q] EXCEPT !.op = "ackOk"] \in InFlight
  BY <1>1 DEF Acks, InFlight
<1>5. request' \in [Requests -> InFlight \cup {Idle}]
  BY <1>4 DEF AckWrite, TypeOK
<1>6. status' \in [Messages -> Statuses \cup {"none"}]
      /\ readAt' \in [Messages -> Time \cup {NoTime}]
      /\ ackedAt' \in [Messages -> Time \cup {NoTime}]
  BY <1>1, <1>2, <1>3 DEF TypeOK, Acks
<1> QED
  BY <1>5, <1>6 DEF AckWrite, TypeOK

LEMMA NextTypeOK == TypeOK /\ [Next]_vars => TypeOK'
<1> SUFFICES ASSUME TypeOK, [Next]_vars PROVE TypeOK'
  OBVIOUS
<1>1. CASE Tick
  BY <1>1 DEF Tick, TypeOK, times
<1>2. ASSUME NEW q \in Requests, Step(q) PROVE TypeOK'
  <2>1. CASE AckAnswered(q)
    BY <2>1 DEF AckAnswered, Ends, TypeOK, times
  <2> QED
    BY <1>2, <2>1, SendCheckType, SendWriteType, ListBeginType, ListWriteType, AckCheckType,
       AckWriteType DEF Step
<1>3. CASE UNCHANGED vars
  BY <1>3 DEF vars, times, TypeOK
<1> QED
  BY <1>1, <1>2, <1>3 DEF Next

\* Type correctness of the inbox, for every number of messages and requests.
THEOREM InboxTypeCorrect == Spec => []TypeOK
<1>1. Init => TypeOK
  BY InitIInv DEF IInv
<1> QED
  BY <1>1, NextTypeOK, PTL DEF Spec

-----------------------------------------------------------------------------
(* What each write does to the one message it is about.                    *)

LEMMA SendWritePost ==
  ASSUME IInv, NEW q \in Requests, SendWrite(q)
  PROVE  \E m \in Messages :
           /\ m = request[q].message /\ status[m] = "none"
           /\ status' = [status EXCEPT ![m] = "unread"]
           /\ UNCHANGED <<clock, readAt, ackedAt>>
           /\ \A n \in Messages : n # m => expires'[n] = expires[n]
           /\ request' = [request EXCEPT ![q] = Idle]
<1>1. request[q].op = "send" /\ request[q] \in Sends
  BY SendShape DEF SendWrite, IInv
<1>2. request[q].message \in Messages
  BY <1>1 DEF Sends
<1>3. status[request[q].message] = "none"
  BY <1>1 DEF IInv, RequestInv, SendsAreAlone
<1>4. \A n \in Messages : n # request[q].message => expires'[n] = expires[n]
  BY <1>2 DEF SendWrite, IInv, TypeOK
<1> QED
  BY <1>2, <1>3, <1>4 DEF SendWrite, Ends

LEMMA AckWritePost ==
  ASSUME IInv, NEW q \in Requests, AckWrite(q)
  PROVE  \E m \in Messages :
           /\ status[m] # "none"
           /\ UNCHANGED <<clock, expires>>
           /\ \/ UNCHANGED <<status, readAt, ackedAt>>
              \/ \E now \in Time :
                   /\ status[m] # "expired"
                   /\ status' = [status EXCEPT ![m] = "acked"]
                   /\ readAt' = [readAt EXCEPT ![m] = IF @ = NoTime THEN now ELSE @]
                   /\ ackedAt' = [ackedAt EXCEPT ![m] = now]
<1>1. request[q].op = "ack" /\ request[q] \in Acks
  BY AckShape DEF AckWrite, IInv
<1>2. request[q].message \in Messages /\ request[q].now..clock \subseteq Time
  BY <1>1 DEF Acks, IInv, TypeOK
<1>3. status[request[q].message] # "none"
  BY <1>1 DEF IInv, RequestInv, AcksHaveRows
<1> QED
  BY <1>2, <1>3 DEF AckWrite, MayAck

LEMMA ListWritePost ==
  ASSUME IInv, NEW q \in Requests, NEW markRead \in BOOLEAN, ListWrite(q, markRead),
         NEW m \in Messages
  PROVE  /\ UNCHANGED <<clock, expires, ackedAt>>
         /\ \/ /\ status'[m] = status[m] /\ readAt'[m] = readAt[m]
            \/ /\ status[m] = "unread" /\ status'[m] = "read"
               /\ readAt'[m] # NoTime
            \/ /\ status[m] \notin {"none", "acked"} /\ status'[m] = "expired"
               /\ readAt'[m] = readAt[m]
               /\ expires[m] # NoTime /\ expires[m] <= clock
<1>1. request[q].op = "list" /\ request[q] \in Lists
  BY ListShape DEF ListWrite, IInv
<1>2. request[q].now \in Time /\ request[q].now <= clock
  BY <1>1 DEF Lists, IInv, RequestInv, TimesArePast
<1>3. status[m] \in Statuses \cup {"none"} /\ expires[m] \in Deadline \cup {NoTime} /\ clock \in Time
  BY DEF IInv, TypeOK
<1>4. status'[m] = IF markRead /\ Marks(m, request[q].now) THEN "read"
                   ELSE IF Expires(m, request[q].now) THEN "expired" ELSE status[m]
  BY DEF ListWrite
<1>5. readAt'[m] = IF markRead /\ Marks(m, request[q].now) /\ readAt[m] = NoTime
                   THEN request[q].now ELSE readAt[m]
  BY DEF ListWrite
<1>6. UNCHANGED <<clock, expires, ackedAt>>
  BY DEF ListWrite
<1>7. CASE markRead /\ Marks(m, request[q].now)
  BY <1>2, <1>4, <1>5, <1>6, <1>7 DEF Marks
<1>8. CASE ~(markRead /\ Marks(m, request[q].now)) /\ Expires(m, request[q].now)
  BY <1>2, <1>3, <1>4, <1>5, <1>6, <1>8 DEF Expires
<1>9. CASE ~(markRead /\ Marks(m, request[q].now)) /\ ~Expires(m, request[q].now)
  BY <1>4, <1>5, <1>6, <1>9
<1> QED
  BY <1>7, <1>8, <1>9

-----------------------------------------------------------------------------
\* A step advances the status of every message, whatever the requests do.
AdvanceOf(m) ==
  status'[m] # status[m] =>
    CASE status[m] = "none"   -> status'[m] = "unread"
      [] status[m] = "unread" -> status'[m] \in {"read", "acked", "expired"}
      [] status[m] = "read"   -> status'[m] \in {"acked", "expired"}
      [] OTHER                -> FALSE

LEMMA StepAdvances ==
  ASSUME IInv, [Next]_vars, NEW m \in Messages PROVE AdvanceOf(m)
<1>1. CASE UNCHANGED status
  BY <1>1 DEF AdvanceOf
<1>2. ASSUME NEW q \in Requests, SendWrite(q) PROVE AdvanceOf(m)
  <2>1. PICK n \in Messages : status[n] = "none" /\ status' = [status EXCEPT ![n] = "unread"]
    BY <1>2, SendWritePost
  <2> QED
    BY <2>1 DEF AdvanceOf, IInv, TypeOK
<1>3. ASSUME NEW q \in Requests, NEW markRead \in BOOLEAN, ListWrite(q, markRead)
      PROVE  AdvanceOf(m)
  <2>1. status[m] \in Statuses \cup {"none"}
    BY DEF IInv, TypeOK
  <2>2. \/ status'[m] = status[m]
        \/ status[m] = "unread" /\ status'[m] = "read"
        \/ status[m] \notin {"none", "acked"} /\ status'[m] = "expired"
    BY <1>3, ListWritePost
  <2> QED
    BY <2>1, <2>2 DEF AdvanceOf
<1>4. ASSUME NEW q \in Requests, AckWrite(q) PROVE AdvanceOf(m)
  <2>1. PICK n \in Messages :
          /\ status[n] # "none"
          /\ \/ UNCHANGED status
             \/ status[n] # "expired" /\ status' = [status EXCEPT ![n] = "acked"]
    BY <1>4, AckWritePost
  <2>2. status \in [Messages -> Statuses \cup {"none"}]
    BY DEF IInv, TypeOK
  <2> QED
    BY <2>1, <2>2 DEF AdvanceOf
<1>5. ASSUME NEW q \in Requests, Step(q) PROVE AdvanceOf(m)
  <2>1. ASSUME NEW n \in Messages, NEW d \in Deadline \cup {NoTime}, SendCheck(q, n, d)
        PROVE  UNCHANGED status
    BY <2>1 DEF SendCheck
  <2>2. ASSUME NEW n \in Messages, AckCheck(q, n) PROVE UNCHANGED status
    BY <2>2 DEF AckCheck
  <2>3. CASE ListBegin(q) \/ AckAnswered(q)
    BY <2>3, <1>1 DEF ListBegin, AckAnswered
  <2> QED
    BY <1>1, <1>2, <1>3, <1>4, <1>5, <2>1, <2>2, <2>3 DEF Step
<1>6. CASE Tick \/ UNCHANGED vars
  BY <1>1, <1>6 DEF Tick, vars
<1> QED
  BY <1>5, <1>6 DEF Next

-----------------------------------------------------------------------------
\* The inductive step for the two state properties.
LEMMA StepStamps ==
  ASSUME IInv, [Next]_vars PROVE StampsAgree' /\ ExpiredIsDue'
<1> DEFINE Good(m) ==
      /\ ackedAt[m] # NoTime <=> status[m] = "acked"
      /\ status[m] \in {"read", "acked"} => readAt[m] # NoTime
      /\ status[m] \in {"none", "unread"} => readAt[m] = NoTime
      /\ status[m] = "expired" => expires[m] # NoTime /\ expires[m] <= clock
<1> SUFFICES ASSUME NEW m \in Messages PROVE Good(m)'
  BY DEF StampsAgree, ExpiredIsDue
<1>0. Good(m) /\ TypeOK
  BY DEF IInv, StampsAgree, ExpiredIsDue
<1>1. CASE UNCHANGED <<clock, status, times>>
  BY <1>0, <1>1 DEF times
<1>2. CASE Tick
  BY <1>0, <1>2 DEF Tick, times, TypeOK
<1>3. ASSUME NEW q \in Requests, SendWrite(q) PROVE Good(m)'
  <2>1. PICK n \in Messages :
          /\ status[n] = "none" /\ status' = [status EXCEPT ![n] = "unread"]
          /\ UNCHANGED <<clock, readAt, ackedAt>>
          /\ \A k \in Messages : k # n => expires'[k] = expires[k]
    BY <1>3, SendWritePost
  <2>2. CASE m = n
    BY <1>0, <2>1, <2>2 DEF TypeOK
  <2>3. CASE m # n
    BY <1>0, <2>1, <2>3 DEF TypeOK
  <2> QED
    BY <2>2, <2>3
<1>4. ASSUME NEW q \in Requests, NEW markRead \in BOOLEAN, ListWrite(q, markRead)
      PROVE  Good(m)'
  <2>1. status[m] \in Statuses \cup {"none"}
    BY <1>0 DEF TypeOK
  <2> QED
    BY <1>0, <1>4, <2>1, ListWritePost
<1>5. ASSUME NEW q \in Requests, AckWrite(q) PROVE Good(m)'
  <2>1. PICK n \in Messages :
          /\ status[n] # "none"
          /\ UNCHANGED <<clock, expires>>
          /\ \/ UNCHANGED <<status, readAt, ackedAt>>
             \/ \E now \in Time :
                  /\ status[n] # "expired"
                  /\ status' = [status EXCEPT ![n] = "acked"]
                  /\ readAt' = [readAt EXCEPT ![n] = IF @ = NoTime THEN now ELSE @]
                  /\ ackedAt' = [ackedAt EXCEPT ![n] = now]
    BY <1>5, AckWritePost
  <2> QED
    BY <1>0, <2>1 DEF TypeOK
<1>6. ASSUME NEW q \in Requests, Step(q) PROVE Good(m)'
  <2>1. ASSUME NEW n \in Messages, NEW d \in Deadline \cup {NoTime}, SendCheck(q, n, d)
        PROVE  UNCHANGED <<clock, status, times>>
    BY <2>1 DEF SendCheck
  <2>2. ASSUME NEW n \in Messages, AckCheck(q, n) PROVE UNCHANGED <<clock, status, times>>
    BY <2>2 DEF AckCheck
  <2>3. ASSUME ListBegin(q) \/ AckAnswered(q) PROVE UNCHANGED <<clock, status, times>>
    BY <2>3 DEF ListBegin, AckAnswered
  <2> QED
    BY <1>1, <1>3, <1>4, <1>5, <1>6, <2>1, <2>2, <2>3 DEF Step
<1>7. CASE UNCHANGED vars
  BY <1>1, <1>7 DEF vars, times
<1> QED
  BY <1>2, <1>6, <1>7 DEF Next

-----------------------------------------------------------------------------
\* Slots of requests: a step changes at most one, and what it starts there is
\* a send of a new message, a listing, or an acknowledgement of a known one.
LEMMA SlotChange ==
  ASSUME IInv, [Next]_vars, NEW q \in Requests, request'[q] # request[q]
  PROVE  /\ \A p \in Requests : p # q => request'[p] = request[p]
         /\ \/ request'[q].op \in {"idle", "ackOk"}
            \/ /\ request'[q].op = "send"
               /\ request'[q].message \in Messages
               /\ status[request'[q].message] = "none"
               /\ \A p \in Requests :
                    request[p].op = "send" => request[p].message # request'[q].message
               /\ UNCHANGED status
            \/ request'[q].op = "list" /\ request'[q].now = clock
            \/ /\ request'[q].op = "ack"
               /\ request'[q].message \in Messages /\ status[request'[q].message] # "none"
               /\ request'[q].now = clock
<1> USE DEF IInv, TypeOK
<1>1. PICK p \in Requests : Step(p)
  BY DEF Next, Tick, vars
<1>2. \A r \in Requests : r # p => request'[r] = request[r]
  BY <1>1 DEF Step, SendCheck, SendWrite, ListBegin, ListWrite, AckCheck, AckWrite, AckAnswered,
     Starts, Ends
<1>3. p = q
  BY <1>2
<1>4. CASE \E m \in Messages, d \in Deadline \cup {NoTime} : SendCheck(q, m, d)
  BY <1>2, <1>3, <1>4 DEF SendCheck, Starts
<1>5. CASE SendWrite(q) \/ (\E b \in BOOLEAN : ListWrite(q, b)) \/ AckAnswered(q)
  <2>1. request'[q] = Idle
    BY <1>5 DEF SendWrite, ListWrite, AckAnswered, Ends
  <2> QED
    BY <1>2, <1>3, <2>1 DEF Idle
<1>6. CASE ListBegin(q)
  BY <1>2, <1>3, <1>6 DEF ListBegin, Starts
<1>7. CASE \E m \in Messages : AckCheck(q, m)
  BY <1>2, <1>3, <1>7 DEF AckCheck, Starts
<1>8. CASE AckWrite(q)
  <2>1. request[q] \in Acks
    BY <1>8, AckShape DEF AckWrite
  <2>2. request'[q].op = "ackOk"
    BY <1>8, <2>1 DEF AckWrite, Acks
  <2> QED
    BY <1>2, <1>3, <2>2
<1> QED
  BY <1>1, <1>3, <1>4, <1>5, <1>6, <1>7, <1>8 DEF Step

\* A message gets its row only from the request that sends it, which is over then.
LEMMA RowAppears ==
  ASSUME IInv, [Next]_vars, NEW m \in Messages, status[m] = "none", status'[m] # "none"
  PROVE  \A q \in Requests : request[q].op = "send" /\ request[q].message = m
                               => request'[q] = Idle
<1> USE DEF IInv, TypeOK
<1>1. PICK p \in Requests : Step(p)
  BY DEF Next, Tick, vars
<1>2. ~(\E b \in BOOLEAN : ListWrite(p, b))
  BY ListWritePost
<1>3. ~AckWrite(p)
  BY AckWritePost
<1>4. SendWrite(p)
  BY <1>1, <1>2, <1>3 DEF Step, SendCheck, ListBegin, AckCheck, AckAnswered
<1>5. request[p].op = "send" /\ request[p].message = m /\ request'[p] = Idle
  <2>1. PICK n \in Messages :
          /\ n = request[p].message /\ status' = [status EXCEPT ![n] = "unread"]
          /\ request' = [request EXCEPT ![p] = Idle]
    BY <1>4, SendWritePost
  <2>2. n = m
    BY <2>1
  <2>3. request'[p] = Idle
    BY <2>1
  <2> QED
    BY <1>4, <2>1, <2>2, <2>3 DEF SendWrite
<1> QED
  BY <1>5 DEF RequestInv, SendsAreAlone

LEMMA StepRequests == ASSUME IInv, [Next]_vars PROVE RequestInv'
<1>1. TypeOK /\ TypeOK' /\ clock' >= clock
  <2>1. TypeOK /\ TypeOK'
    BY NextTypeOK DEF IInv
  <2>2. clock' = clock \/ clock' = clock + 1
    BY DEF Next, Tick, Step, SendCheck, SendWrite, ListBegin, ListWrite, AckCheck, AckWrite,
       AckAnswered, vars
  <2> QED
    BY <2>1, <2>2 DEF TypeOK
<1>2. \A m \in Messages : status[m] # "none" => status'[m] # "none"
  BY <1>1, StepAdvances DEF AdvanceOf, TypeOK
<1>3. SendsAreAlone'
  <2> SUFFICES ASSUME NEW q \in Requests, request'[q].op = "send"
               PROVE  /\ status'[request'[q].message] = "none"
                      /\ \A p \in Requests :
                           (request'[p].op = "send" /\ request'[p].message = request'[q].message)
                             => p = q
    BY DEF SendsAreAlone
  <2>0. SendsAreAlone
    BY DEF IInv, RequestInv
  <2>1. CASE request'[q] = request[q]
    <3>1. request[q].op = "send" /\ request[q].message \in Messages /\ status[request[q].message] = "none"
      BY <1>1, <2>0, <2>1, SendShape DEF SendsAreAlone, Sends
    <3>2. status'[request[q].message] = "none"
      BY <2>1, <3>1, RowAppears DEF Idle
    <3>3. ASSUME NEW p \in Requests, request'[p].op = "send", request'[p].message = request[q].message
          PROVE  p = q
      <4>1. CASE request'[p] = request[p]
        BY <2>0, <3>1, <3>3, <4>1 DEF SendsAreAlone
      <4>2. CASE request'[p] # request[p]
        BY <3>1, <3>3, <4>2, SlotChange
      <4> QED
        BY <4>1, <4>2
    <3> QED
      BY <2>1, <3>2, <3>3
  <2>2. CASE request'[q] # request[q]
    <3>1. /\ \A p \in Requests : p # q => request'[p] = request[p]
          /\ status'[request'[q].message] = "none"
          /\ \A p \in Requests :
               request[p].op = "send" => request[p].message # request'[q].message
      BY <2>2, SlotChange
    <3> QED
      BY <3>1
  <2> QED
    BY <2>1, <2>2
<1>4. AcksHaveRows'
  <2> SUFFICES ASSUME NEW q \in Requests, request'[q].op = "ack"
               PROVE  status'[request'[q].message] # "none"
    BY DEF AcksHaveRows
  <2>1. CASE request'[q] = request[q]
    <3>1. request[q].message \in Messages /\ status[request[q].message] # "none"
      BY <1>1, <2>1, AckShape DEF IInv, RequestInv, AcksHaveRows, Acks
    <3> QED
      BY <1>2, <2>1, <3>1
  <2>2. CASE request'[q] # request[q]
    BY <1>2, <2>2, SlotChange
  <2> QED
    BY <2>1, <2>2
<1>5. TimesArePast'
  <2> SUFFICES ASSUME NEW q \in Requests, request'[q].op \in {"list", "ack"}
               PROVE  request'[q].now <= clock'
    BY DEF TimesArePast
  <2>1. CASE request'[q] = request[q]
    <3>1. request[q].now \in Time /\ request[q].now <= clock
      <4>1. request[q] \in Lists \/ request[q] \in Acks
        BY <1>1, <2>1, ListShape, AckShape
      <4> QED
        BY <2>1, <4>1 DEF IInv, RequestInv, TimesArePast, Lists, Acks
    <3> QED
      BY <1>1, <2>1, <3>1 DEF TypeOK
  <2>2. CASE request'[q] # request[q]
    <3>1. request'[q].now = clock
      BY <2>2, SlotChange
    <3> QED
      BY <1>1, <3>1 DEF TypeOK
  <2> QED
    BY <2>1, <2>2
<1> QED
  BY <1>3, <1>4, <1>5 DEF RequestInv

LEMMA NextIInv == IInv /\ [Next]_vars => IInv'
BY NextTypeOK, StepStamps, StepRequests DEF IInv

\* The time stamps of a message always tell the story of its status.
THEOREM InboxStampsAgree == Spec => []StampsAgree
<1>1. IInv => StampsAgree
  BY DEF IInv
<1> QED
  BY <1>1, InitIInv, NextIInv, PTL DEF Spec

\* No message is expired before its deadline.
THEOREM InboxExpiredIsDue == Spec => []ExpiredIsDue
<1>1. IInv => ExpiredIsDue
  BY DEF IInv
<1> QED
  BY <1>1, InitIInv, NextIInv, PTL DEF Spec

\* Racing listings and acknowledgements agree on the end of a message.
THEOREM InboxOnlyAdvances == Spec => StatusOnlyAdvances
<1>1. IInv /\ [Next]_vars =>
        [\A m \in Messages :
           status'[m] # status[m] =>
             CASE status[m] = "none"   -> status'[m] = "unread"
               [] status[m] = "unread" -> status'[m] \in {"read", "acked", "expired"}
               [] status[m] = "read"   -> status'[m] \in {"acked", "expired"}
               [] OTHER                -> FALSE]_vars
  BY StepAdvances DEF AdvanceOf
<1> QED
  BY <1>1, InitIInv, NextIInv, PTL DEF Spec, StatusOnlyAdvances
=============================================================================
