------------------------ MODULE RunBridgeQueueProofs ------------------------
(***************************************************************************)
(* Proofs about the lock of a run in RunBridge: who stands in its queue,   *)
(* and why no stream sleeps through the end of its run.                    *)
(***************************************************************************)
EXTENDS RunBridgeProofs, SequenceTheorems

-----------------------------------------------------------------------------
(* Queues.                                                                 *)

InQueue(q, x) == \E i \in 1..Len(q) : q[i] = x
NoDuplicate(q) == \A i, j \in 1..Len(q) : q[i] = q[j] => i = j
Before(q, x, y) == \E i, j \in 1..Len(q) : i < j /\ q[i] = x /\ q[j] = y

\* A new waiter comes last.
LEMMA AppendToQueue ==
  ASSUME NEW S, NEW q \in Seq(S), NEW x \in S
  PROVE  /\ \A y : InQueue(Append(q, x), y) <=> InQueue(q, y) \/ y = x
         /\ NoDuplicate(q) /\ ~InQueue(q, x) => NoDuplicate(Append(q, x))
         /\ \A y, z : Before(q, y, z) => Before(Append(q, x), y, z)
         /\ \A y : InQueue(q, y) => Before(Append(q, x), y, x)
<1> DEFINE p == Append(q, x)
<1>1. /\ Len(q) \in Nat /\ Len(p) = Len(q) + 1 /\ p[Len(q) + 1] = x
      /\ \A i \in 1..Len(q) : p[i] = q[i]
  OBVIOUS
<1> HIDE DEF p
<1>2. \A i \in 1..Len(p) : i \in 1..Len(q) \/ i = Len(q) + 1
  BY <1>1
<1>3. \A y : InQueue(p, y) <=> InQueue(q, y) \/ y = x
  BY <1>1, <1>2 DEF InQueue
<1>4. NoDuplicate(q) /\ ~InQueue(q, x) => NoDuplicate(p)
  BY <1>1, <1>2 DEF InQueue, NoDuplicate
<1>5. \A y, z : Before(q, y, z) => Before(p, y, z)
  BY <1>1 DEF Before
<1>6. \A y : InQueue(q, y) => Before(p, y, x)
  BY <1>1 DEF Before, InQueue
<1> QED
  BY <1>3, <1>4, <1>5, <1>6 DEF p

LEMMA NobodyInEmpty == \A x : ~InQueue(<<>>, x)
BY DEF InQueue

\* The holder passes the lock on.
LEMMA TailOfQueue ==
  ASSUME NEW S, NEW q \in Seq(S), q # <<>>, NoDuplicate(q)
  PROVE  /\ Tail(q) \in Seq(S)
         /\ \A y : InQueue(Tail(q), y) <=> InQueue(q, y) /\ y # Head(q)
         /\ NoDuplicate(Tail(q))
         /\ \A y, z : Before(q, y, z) /\ y # Head(q) => Before(Tail(q), y, z)
         /\ \A y : ~Before(q, y, Head(q))
<1> DEFINE p == Tail(q)
<1>1. /\ Len(q) \in Nat \ {0} /\ Len(p) = Len(q) - 1 /\ p \in Seq(S)
      /\ Head(q) = q[1] /\ \A i \in 1..Len(p) : p[i] = q[i + 1]
  OBVIOUS
<1> HIDE DEF p
<1>2. \A i \in 1..Len(q) : q[i] # q[1] => i - 1 \in 1..Len(p) /\ p[i - 1] = q[i]
  BY <1>1
<1>3. ASSUME NEW y PROVE InQueue(p, y) <=> InQueue(q, y) /\ y # q[1]
  <2>1. InQueue(p, y) => InQueue(q, y) /\ y # q[1]
    BY <1>1 DEF InQueue, NoDuplicate
  <2>2. InQueue(q, y) /\ y # q[1] => InQueue(p, y)
    BY <1>2 DEF InQueue
  <2> QED
    BY <2>1, <2>2
<1>4. NoDuplicate(p)
  BY <1>1 DEF NoDuplicate
<1>5. ASSUME NEW y, NEW z, Before(q, y, z), y # q[1] PROVE Before(p, y, z)
  <2>1. PICK i, j \in 1..Len(q) : i < j /\ q[i] = y /\ q[j] = z
    BY <1>5 DEF Before
  <2>2. i - 1 \in 1..Len(p) /\ j - 1 \in 1..Len(p) /\ p[i - 1] = y /\ p[j - 1] = z
    BY <1>1, <1>5, <2>1
  <2> QED
    BY <2>1, <2>2 DEF Before
<1>6. \A y : ~Before(q, y, q[1])
  BY <1>1 DEF Before, NoDuplicate
<1> QED
  BY <1>1, <1>3, <1>4, <1>5, <1>6 DEF p

\* A waiter that is cancelled is out, and nobody else changes places.
LEMMA WithoutInQueue ==
  ASSUME NEW S, NEW q \in Seq(S), NEW x, NoDuplicate(q)
  PROVE  /\ Without(q, x) \in Seq(S)
         /\ \A y : InQueue(Without(q, x), y) <=> InQueue(q, y) /\ y # x
         /\ NoDuplicate(Without(q, x))
         /\ \A y, z : Before(q, y, z) /\ x \notin {y, z} => Before(Without(q, x), y, z)
<1> DEFINE p == Without(q, x)
<1>1. p \in Seq(S)
  BY WithoutType
<1>2. CASE ~InQueue(q, x)
  BY <1>1, <1>2 DEF Without, InQueue
<1>3. CASE InQueue(q, x)
  <2>1. PICK k \in 1..Len(q) : k = (CHOOSE i \in 1..Len(q) : q[i] = x) /\ q[k] = x
    BY <1>3 DEF InQueue
  <2>2. p = SubSeq(q, 1, k - 1) \o SubSeq(q, k + 1, Len(q))
    BY <1>3, <2>1 DEF Without, InQueue
  <2>3. /\ Len(q) \in Nat /\ k \in Nat /\ Len(p) = Len(q) - 1
        /\ \A i \in 1..Len(p) : p[i] = IF i < k THEN q[i] ELSE q[i + 1]
    <3> DEFINE a == SubSeq(q, 1, k - 1)
               b == SubSeq(q, k + 1, Len(q))
    <3>1. /\ a \in Seq(S) /\ Len(a) = k - 1 /\ \A i \in 1..(k - 1) : a[i] = q[i]
          /\ Len(q) \in Nat /\ k \in Nat
      OBVIOUS
    <3>2. /\ b \in Seq(S) /\ Len(b) = Len(q) - k
          /\ \A i \in 1..(Len(q) - k) : b[i] = q[i + k]
      OBVIOUS
    <3>3. p = a \o b
      BY <2>2
    <3> HIDE DEF a, b, p
    <3>0. a \in Seq(S) /\ b \in Seq(S)
      BY <3>1, <3>2
    <3>4. /\ Len(a \o b) = Len(a) + Len(b)
          /\ \A i \in 1..(Len(a) + Len(b)) :
               (a \o b)[i] = IF i <= Len(a) THEN a[i] ELSE b[i - Len(a)]
      BY <3>0, ConcatProperties, Zenon
    <3>5. /\ Len(p) = Len(a) + Len(b)
          /\ \A i \in 1..Len(p) : p[i] = IF i <= Len(a) THEN a[i] ELSE b[i - Len(a)]
      BY <3>3, <3>4, Zenon
    <3>6. ASSUME NEW i \in 1..Len(p) PROVE p[i] = IF i < k THEN q[i] ELSE q[i + 1]
      <4>1. CASE i < k
        BY <3>1, <3>5, <4>1
      <4>2. CASE ~(i < k)
        <5>1. i - Len(a) \in 1..(Len(q) - k) /\ ~(i <= Len(a)) /\ (i - Len(a)) + k = i + 1
          BY <3>1, <3>2, <3>5, <4>2
        <5> QED
          BY <3>2, <3>5, <4>2, <5>1
      <4> QED
        BY <4>1, <4>2
    <3> QED
      BY <3>1, <3>2, <3>5, <3>6
  <2> HIDE DEF p
  <2>4. \A i \in 1..Len(p) : LET j == IF i < k THEN i ELSE i + 1
                             IN  j \in 1..Len(q) /\ j # k /\ p[i] = q[j]
    BY <2>3
  <2>5. \A j \in 1..Len(q) : j # k => LET i == IF j < k THEN j ELSE j - 1
                                      IN  i \in 1..Len(p) /\ p[i] = q[j]
    BY <2>3
  <2>6. ASSUME NEW y PROVE InQueue(p, y) <=> InQueue(q, y) /\ y # x
    <3>1. InQueue(p, y) => InQueue(q, y) /\ y # x
      BY <2>1, <2>4 DEF InQueue, NoDuplicate
    <3>2. InQueue(q, y) /\ y # x => InQueue(p, y)
      BY <2>1, <2>5 DEF InQueue
    <3> QED
      BY <3>1, <3>2
  <2>7. NoDuplicate(p)
    <3> SUFFICES ASSUME NEW i \in 1..Len(p), NEW j \in 1..Len(p), p[i] = p[j] PROVE i = j
      BY DEF NoDuplicate
    <3> DEFINE m == IF i < k THEN i ELSE i + 1
               n == IF j < k THEN j ELSE j + 1
    <3>1. m \in 1..Len(q) /\ n \in 1..Len(q) /\ q[m] = q[n]
      BY <2>4
    <3>2. m = n
      BY <3>1 DEF NoDuplicate
    <3> QED
      BY <2>3, <3>2
  <2>8. ASSUME NEW y, NEW z, Before(q, y, z), x \notin {y, z} PROVE Before(p, y, z)
    <3>1. PICK i, j \in 1..Len(q) : i < j /\ q[i] = y /\ q[j] = z
      BY <2>8 DEF Before
    <3>2. i # k /\ j # k
      BY <2>1, <2>8, <3>1
    <3> DEFINE m == IF i < k THEN i ELSE i - 1
               n == IF j < k THEN j ELSE j - 1
    <3>3. m \in 1..Len(p) /\ n \in 1..Len(p) /\ p[m] = y /\ p[n] = z /\ m < n
      BY <2>3, <2>5, <3>1, <3>2
    <3> QED
      BY <3>3 DEF Before
  <2> QED
    BY <1>1, <2>6, <2>7, <2>8 DEF p
<1> QED
  BY <1>2, <1>3

-----------------------------------------------------------------------------
(* Who stands in the queue of a run's lock.                                *)

\* Actor x is at a step that waits for, or holds, the lock of run r.
AtLock(r, x) ==
  /\ x = "runner" => runner[r] \in {"emitStarted", "emitFailed", "finalNotify"}
  /\ x = "reader" => reader[r] \in EventTypes
  /\ x \in Approvals => approval[r][x] = "emitting"
  /\ x \in Streams =>
       /\ streamRun[x] = r
       /\ streamPc[x] \in {"locking", "reacquiring", "expired", "keepalive", "leaving"}

Expecting == [r \in Runs |-> {x \in Actors : AtLock(r, x)}]

QueueInv ==
  \A r \in Runs : /\ NoDuplicate(lock[r])
                  /\ \A x \in Actors : InQueue(lock[r], x) => x \in Expecting[r]

LEMMA QueueInvIsTheProperty == TypeOK /\ QueueInv => QueuedActorsExpectTheLock
<1>1. ASSUME TypeOK, QueueInv, NEW r \in Runs, NEW i \in 1..Len(lock[r])
      PROVE  /\ \A j \in 1..Len(lock[r]) : lock[r][j] = lock[r][i] => i = j
             /\ AtLock(r, lock[r][i])
  <2>1. lock[r][i] \in Actors /\ InQueue(lock[r], lock[r][i])
    BY <1>1 DEF TypeOK, InQueue
  <2> QED
    BY <1>1, <2>1 DEF QueueInv, NoDuplicate, Expecting
<1> QED
  BY <1>1, Zenon DEF QueuedActorsExpectTheLock, AtLock

\* What a step leaves to those who did not take it: whoever expects a lock
\* goes on to expect it, unless it is x or y on run r.
StillExpecting(r, x, y) ==
  \A p \in Runs, z \in Actors :
    z \in Expecting[p] /\ ~(p = r /\ z \in {x, y}) => z \in Expecting'[p]

\* No queue changes, and x and y are in none they do not expect.
LEMMA QueueStays ==
  ASSUME QueueInv, UNCHANGED lock, NEW r, NEW x, NEW y, StillExpecting(r, x, y),
         x \in Expecting'[r] \/ x \notin Expecting[r],
         y \in Expecting'[r] \/ y \notin Expecting[r]
  PROVE  QueueInv'
BY DEF QueueInv, StillExpecting

\* Only the queue of r changes: whoever is in it now was in it, or is x or y
\* and expects the lock.
LEMMA QueueChanges ==
  ASSUME QueueInv, NEW r \in Runs, \A p \in Runs \ {r} : lock'[p] = lock[p],
         NoDuplicate(lock'[r]), NEW x, NEW y, StillExpecting(r, x, y),
         \A z \in Actors : InQueue(lock'[r], z) =>
           \/ z \in Expecting'[r]
           \/ InQueue(lock[r], z) /\ z \notin {x, y}
  PROVE  QueueInv'
<1>1. \A z \in Actors : InQueue(lock'[r], z) => z \in Expecting'[r]
  BY DEF QueueInv, StillExpecting
<1>2. \A p \in Runs \ {r}, z \in Actors : InQueue(lock[p], z) => z \in Expecting'[p]
  BY DEF QueueInv, StillExpecting
<1> QED
  BY <1>1, <1>2 DEF QueueInv

LEMMA EnqueueKeepsQueue ==
  ASSUME TypeOK, QueueInv, NEW r \in Runs, NEW x \in Actors, Enqueue(r, x),
         x \notin Expecting[r], x \in Expecting'[r], StillExpecting(r, x, x)
  PROVE  QueueInv'
<1>1. lock[r] \in Seq(Actors) /\ NoDuplicate(lock[r]) /\ ~InQueue(lock[r], x)
  BY DEF TypeOK, QueueInv
<1> DEFINE q == Append(lock[r], x)
<1>2. NoDuplicate(q) /\ \A y : InQueue(q, y) => InQueue(lock[r], y) \/ y = x
  BY <1>1, AppendToQueue
<1>3. lock'[r] = q /\ \A p \in Runs \ {r} : lock'[p] = lock[p]
  BY DEF Enqueue, TypeOK
<1> HIDE DEF q
<1> QED
  BY <1>2, <1>3, QueueChanges

LEMMA ReleaseKeepsQueue ==
  ASSUME TypeOK, QueueInv, NEW r \in Runs, NEW x, Holds(r, x), Release(r),
         StillExpecting(r, x, x)
  PROVE  QueueInv'
<1>1. lock[r] \in Seq(Actors) /\ NoDuplicate(lock[r]) /\ lock[r] # <<>> /\ Head(lock[r]) = x
  BY DEF TypeOK, QueueInv, Holds
<1> DEFINE q == Tail(lock[r])
<1>2. NoDuplicate(q) /\ \A y : InQueue(q, y) => InQueue(lock[r], y) /\ y # x
  BY <1>1, TailOfQueue
<1>3. lock'[r] = q /\ \A p \in Runs \ {r} : lock'[p] = lock[p]
  BY DEF Release, TypeOK
<1> HIDE DEF q
<1> QED
  BY <1>2, <1>3, QueueChanges

\* The holder hands the lock on and asks for it again.
LEMMA RequeueKeepsQueue ==
  ASSUME TypeOK, QueueInv, NEW r \in Runs, NEW x \in Actors, Holds(r, x),
         lock' = [lock EXCEPT ![r] = Append(Tail(lock[r]), x)],
         x \in Expecting'[r], StillExpecting(r, x, x)
  PROVE  QueueInv'
<1>1. lock[r] \in Seq(Actors) /\ NoDuplicate(lock[r]) /\ lock[r] # <<>> /\ Head(lock[r]) = x
  BY DEF TypeOK, QueueInv, Holds
<1> DEFINE t == Tail(lock[r])
           q == Append(t, x)
<1>2. t \in Seq(Actors) /\ NoDuplicate(t) /\ \A y : InQueue(t, y) <=> InQueue(lock[r], y) /\ y # x
  BY <1>1, TailOfQueue
<1> HIDE DEF t
<1>3. NoDuplicate(q) /\ \A y : InQueue(q, y) => InQueue(t, y) \/ y = x
  BY <1>2, AppendToQueue
<1>4. lock'[r] = q /\ \A p \in Runs \ {r} : lock'[p] = lock[p]
  BY DEF t, TypeOK
<1> HIDE DEF q
<1>5. \A z \in Actors : InQueue(q, z) =>
        z \in Expecting'[r] \/ (InQueue(lock[r], z) /\ z \notin {x, x})
  BY <1>2, <1>3
<1> QED
  BY <1>3, <1>4, <1>5, QueueChanges

\* A cancelled waiter is taken out, and y may come in at the end.
LEMMA CancelKeepsQueue ==
  ASSUME TypeOK, QueueInv, NEW r \in Runs, NEW x \in Actors, NEW y \in Actors,
         LET w == Without(lock[r], x) IN
           \/ lock' = [lock EXCEPT ![r] = w]
           \/ lock' = [lock EXCEPT ![r] = Append(w, y)] /\ y \in Expecting'[r],
         y = x \/ y \notin Expecting[r], StillExpecting(r, x, y)
  PROVE  QueueInv'
<1>1. lock[r] \in Seq(Actors) /\ NoDuplicate(lock[r])
  BY DEF TypeOK, QueueInv
<1> DEFINE w == Without(lock[r], x)
<1>2. w \in Seq(Actors) /\ NoDuplicate(w) /\ \A z : InQueue(w, z) <=> InQueue(lock[r], z) /\ z # x
  BY <1>1, WithoutInQueue
<1>3. ~InQueue(w, y)
  BY <1>2 DEF QueueInv
<1>4. CASE lock' = [lock EXCEPT ![r] = w]
  <2>1. lock'[r] = w /\ \A p \in Runs \ {r} : lock'[p] = lock[p]
    BY <1>4 DEF TypeOK
  <2> HIDE DEF w
  <2> QED
    BY <1>2, <1>3, <2>1, QueueChanges
<1>5. CASE lock' = [lock EXCEPT ![r] = Append(w, y)] /\ y \in Expecting'[r]
  <2> HIDE DEF w
  <2> DEFINE q == Append(w, y)
  <2>1. NoDuplicate(q) /\ \A z : InQueue(q, z) <=> InQueue(w, z) \/ z = y
    BY <1>2, <1>3, AppendToQueue
  <2>2. lock'[r] = q /\ \A p \in Runs \ {r} : lock'[p] = lock[p]
    BY <1>5 DEF TypeOK
  <2> HIDE DEF q
  <2>3. \A z \in Actors : InQueue(q, z) =>
          z \in Expecting'[r] \/ (InQueue(lock[r], z) /\ z \notin {x, y})
    BY <1>2, <1>5, <2>1
  <2> QED
    BY <2>1, <2>2, <2>3, QueueChanges
<1> QED
  BY <1>4, <1>5

\* What actors other than x and y on run r do not see of a step.
LEMMA OthersStillExpect ==
  ASSUME NEW r \in Runs, NEW x, NEW y,
         \A p \in Runs : ~(p = r /\ "runner" \in {x, y}) => runner'[p] = runner[p],
         \A p \in Runs : ~(p = r /\ "reader" \in {x, y}) => reader'[p] = reader[p],
         \A p \in Runs, a \in Approvals :
           ~(p = r /\ a \in {x, y}) => approval'[p][a] = approval[p][a],
         \A s \in Streams :
           IF s \in {x, y} THEN streamRun[s] \notin Runs \ {r}
           ELSE /\ streamRun'[s] = streamRun[s]
                /\ streamPc'[s] = streamPc[s] \/ streamPc[s] \in {"waiting", "off"}
  PROVE  StillExpecting(r, x, y)
<1> SUFFICES ASSUME NEW p \in Runs, NEW z \in Actors, z \in Expecting[p], ~(p = r /\ z \in {x, y})
             PROVE  z \in Expecting'[p]
  BY DEF StillExpecting
<1>1. AtLock(p, z) /\ (AtLock(p, z)' => z \in Expecting'[p])
  BY DEF Expecting
<1>2. z \in Streams => z \notin {x, y}
  BY <1>1 DEF AtLock
<1> QED
  BY <1>1, <1>2 DEF AtLock

\* A wake-up passes by whoever competes for a lock.
LEMMA WakeUpKeepsWaiters ==
  ASSUME TypeOK, \E r \in Runs : NotifyAll(r)
  PROVE  /\ UNCHANGED streamRun
         /\ \A s \in Streams : streamPc'[s] = streamPc[s] \/ streamPc[s] \in {"waiting", "off"}
BY DEF NotifyAll, TypeOK

\* The steps of the run task: it comes, goes, or takes the reader with it.
LEMMA TaskKeepsStreams ==
  ASSUME TypeOK, NEW r \in Runs, RunTask(r)
  PROVE  /\ UNCHANGED <<streamRun, approval>>
         /\ \A s \in Streams : streamPc'[s] = streamPc[s] \/ streamPc[s] \in {"waiting", "off"}
<1>1. (\E p \in Runs : NotifyAll(p)) \/ UNCHANGED streamVars
  BY DEF RunTask, AdapterStarted, EmitStarted, TurnFails, TurnOver, CloseOk, CloseError,
         EmitFailed, FinalNotify, AppendEvent
<1>2. UNCHANGED approval
  BY DEF RunTask, AdapterStarted, EmitStarted, TurnFails, TurnOver, CloseOk, CloseError,
         EmitFailed, FinalNotify
<1> QED
  BY <1>1, <1>2, WakeUpKeepsWaiters DEF streamVars

\* Being at the lock, actor by actor.
LEMMA WhoExpects ==
  ASSUME NEW r \in Runs
  PROVE  /\ "runner" \in Expecting[r] <=> runner[r] \in {"emitStarted", "emitFailed", "finalNotify"}
         /\ "reader" \in Expecting[r] <=> reader[r] \in EventTypes
         /\ \A a \in Approvals : a \in Expecting[r] <=> approval[r][a] = "emitting"
         /\ \A s \in Streams : s \in Expecting[r] <=>
              /\ streamRun[s] = r
              /\ streamPc[s] \in {"locking", "reacquiring", "expired", "keepalive", "leaving"}
<1>1. {"runner", "reader"} \cap (Streams \cup Approvals) = {} /\ Streams \cap Approvals = {}
  BY ConstantsAssumption
<1> QED
  BY <1>1 DEF Expecting, AtLock, Actors

LEMMA RunTaskQueues ==
  ASSUME TypeInv, QueueInv, NEW r \in Runs, RunTask(r)
  PROVE  QueueInv'
<1> DEFINE x == "runner"
<1>0. /\ TypeOK /\ x \in Actors /\ "reader" \in Actors /\ x \notin Streams \cup Approvals
      /\ "reader" \notin Streams \cup Approvals
  BY ConstantsAssumption DEF TypeInv, Actors
<1>1. /\ UNCHANGED <<streamRun, approval>>
      /\ \A s \in Streams : streamPc'[s] = streamPc[s] \/ streamPc[s] \in {"waiting", "off"}
  BY <1>0, TaskKeepsStreams
<1>2. \A p \in Runs \ {r} : runner'[p] = runner[p] /\ reader'[p] = reader[p]
  BY DEF RunTask, AdapterStarted, EmitStarted, TurnFails, TurnOver, CloseOk, CloseError,
         CloseReader, EmitFailed, FinalNotify, Finally, TypeInv, TypeOK
<1>3. StillExpecting(r, x, "reader") /\ StillExpecting(r, "reader", x)
  BY <1>0, <1>1, <1>2, OthersStillExpect
<1>4. reader' = reader => StillExpecting(r, x, x)
  BY <1>0, <1>1, <1>2, OthersStillExpect
<1>5. CASE TurnFails(r) \/ TurnOver(r) \/ (AdapterStarted(r) /\ Free(r))
  <2>1. UNCHANGED <<lock, reader>> /\ runner[r] \in {"setup", "awaiting"}
    BY <1>5 DEF TurnFails, TurnOver, AdapterStarted
  <2> QED
    BY <1>4, <2>1, WhoExpects, QueueStays
<1>6. CASE AdapterStarted(r) /\ ~Free(r)
  <2>1. /\ Enqueue(r, x) /\ reader' = reader /\ runner[r] = "setup"
        /\ runner'[r] = "emitStarted"
    BY <1>0, <1>6 DEF AdapterStarted, TypeOK
  <2>2. x \notin Expecting[r] /\ x \in Expecting'[r]
    BY <1>0, <2>1 DEF Expecting, AtLock
  <2> QED
    BY <1>0, <1>4, <2>1, <2>2, EnqueueKeepsQueue
<1>7. CASE EmitStarted(r) \/ FinalNotify(r)
  <2>1. Holds(r, x) /\ Release(r) /\ reader' = reader
    BY <1>7 DEF EmitStarted, FinalNotify
  <2> QED
    BY <1>0, <1>4, <2>1, ReleaseKeepsQueue
<1>8. CASE EmitFailed(r)
  <2>1. Holds(r, x) /\ reader' = reader /\ Finally(r, Tail(lock[r]))
    BY <1>8 DEF EmitFailed
  <2>2. CASE Tail(lock[r]) = <<>>
    BY <1>0, <1>4, <2>1, <2>2, ReleaseKeepsQueue DEF Finally, Release
  <2>3. CASE Tail(lock[r]) # <<>>
    <3>1. /\ lock' = [lock EXCEPT ![r] = Append(Tail(lock[r]), x)]
          /\ runner'[r] = "finalNotify"
      BY <1>0, <2>1, <2>3 DEF Finally, TypeOK
    <3>2. x \in Expecting'[r]
      BY <1>0, <3>1 DEF Expecting, AtLock
    <3> QED
      BY <1>0, <1>4, <2>1, <3>1, <3>2, RequeueKeepsQueue
  <2> QED
    BY <2>2, <2>3
<1>9. CASE CloseOk(r) \/ CloseError(r)
  <2> DEFINE w == Without(lock[r], "reader")
  <2>1. /\ \/ lock' = [lock EXCEPT ![r] = w]
           \/ /\ lock' = [lock EXCEPT ![r] = Append(w, x)]
              /\ runner'[r] \in {"finalNotify", "emitFailed"}
        /\ runner[r] \in {"closingOk", "closingError"}
    BY <1>0, <1>9 DEF CloseOk, CloseError, Finally, TypeOK
  <2>2. x \notin Expecting[r]
        /\ (runner'[r] \in {"finalNotify", "emitFailed"} => x \in Expecting'[r])
    BY <1>0, <2>1 DEF Expecting, AtLock
  <2> QED
    BY <1>0, <1>3, <2>1, <2>2, CancelKeepsQueue
<1> QED
  BY <1>5, <1>6, <1>7, <1>8, <1>9 DEF RunTask

\* The reader's handler takes the lock when it is free, or joins the queue.
LEMMA HandlerEmitsQueues ==
  ASSUME TypeOK, QueueInv, NEW r \in Runs, NEW event \in EventTypes, reader[r] = "idle",
         HandlerEmits(r, event), runner' = runner, StillExpecting(r, "reader", "reader")
  PROVE  QueueInv'
<1>1. "reader" \in Actors /\ "reader" \notin Streams \cup Approvals /\ "idle" \notin EventTypes
  BY ConstantsAssumption DEF Actors, EventTypes, Terminal
<1>2. "reader" \notin Expecting[r]
  BY <1>1, WhoExpects
<1>3. CASE Free(r)
  <2>1. UNCHANGED lock
    BY <1>3 DEF HandlerEmits
  <2> QED
    BY <1>2, <2>1, QueueStays
<1>4. CASE ~Free(r)
  <2>1. Enqueue(r, "reader") /\ reader'[r] = event
    BY <1>4 DEF HandlerEmits, TypeOK
  <2>2. "reader" \in Expecting'[r]
    BY <1>1, <2>1 DEF Expecting, AtLock
  <2> QED
    BY <1>1, <1>2, <2>1, <2>2, EnqueueKeepsQueue
<1> QED
  BY <1>3, <1>4

LEMMA ReaderTaskQueues ==
  ASSUME TypeInv, QueueInv, NEW r \in Runs, ReaderTask(r)
  PROVE  QueueInv'
<1>1. TypeOK /\ "reader" \in Actors /\ "reader" \notin Streams \cup Approvals
  BY ConstantsAssumption DEF TypeInv, Actors
<1>2. (\E p \in Runs : NotifyAll(p)) \/ UNCHANGED streamVars
  BY DEF ReaderTask, RuntimeEvent, RuntimeAsksApproval, HandlerResumes, HandlerEmits, AppendEvent
<1>3. /\ UNCHANGED streamRun
      /\ \A s \in Streams : streamPc'[s] = streamPc[s] \/ streamPc[s] \in {"waiting", "off"}
  BY <1>1, <1>2, WakeUpKeepsWaiters DEF streamVars
<1>4. /\ runner' = runner
      /\ \A p \in Runs \ {r} : reader'[p] = reader[p]
  BY DEF ReaderTask, RuntimeEvent, RuntimeAsksApproval, HandlerResumes, HandlerEmits,
         TypeInv, TypeOK
<1>5. CASE HandlerResumes(r)
  <2>1. Holds(r, "reader") /\ Release(r) /\ approval' = approval
    BY <1>5 DEF HandlerResumes
  <2>2. StillExpecting(r, "reader", "reader")
    BY <1>1, <1>3, <1>4, <2>1, OthersStillExpect
  <2> QED
    BY <1>1, <2>1, <2>2, ReleaseKeepsQueue
<1>6. ASSUME NEW event \in Terminal \cup {"text_delta"}, RuntimeEvent(r, event)
      PROVE  QueueInv'
  <2>1. event \in EventTypes /\ approval' = approval
    BY <1>6 DEF RuntimeEvent, EventTypes
  <2>2. StillExpecting(r, "reader", "reader")
    BY <1>1, <1>3, <1>4, <2>1, OthersStillExpect
  <2> QED
    BY <1>1, <1>4, <1>6, <2>1, <2>2, HandlerEmitsQueues DEF RuntimeEvent
<1>7. ASSUME NEW a \in Approvals, RuntimeAsksApproval(r, a)
      PROVE  QueueInv'
  <2>1. /\ "approval" \in EventTypes /\ approval[r][a] = "unseen"
        /\ approval' = [approval EXCEPT ![r][a] = "pending"]
    BY <1>7 DEF RuntimeAsksApproval, EventTypes
  <2>2. StillExpecting(r, "reader", "reader")
    <3> SUFFICES ASSUME NEW p \in Runs, NEW z \in Actors, z \in Expecting[p],
                        ~(p = r /\ z = "reader")
                 PROVE  z \in Expecting'[p]
      BY DEF StillExpecting
    <3>1. AtLock(p, z) /\ (AtLock(p, z)' => z \in Expecting'[p])
      BY DEF Expecting
    <3>2. z \in Approvals => approval[p][z] = "emitting" /\ approval'[p][z] = "emitting"
      BY <1>1, <2>1, <3>1 DEF AtLock, TypeOK
    <3> QED
      BY <1>3, <1>4, <3>1, <3>2 DEF AtLock
  <2> QED
    BY <1>1, <1>4, <1>7, <2>1, <2>2, HandlerEmitsQueues DEF RuntimeAsksApproval
<1> QED
  BY <1>5, <1>6, <1>7 DEF ReaderTask

LEMMA ApproveHandlerQueues ==
  ASSUME TypeInv, QueueInv, NEW r \in Runs, NEW a \in Approvals, ApproveHandler(r, a)
  PROVE  QueueInv'
<1>1. TypeOK /\ a \in Actors /\ a \notin Streams \cup {"runner", "reader"}
  BY ConstantsAssumption DEF TypeInv, Actors
<1>2. (\E p \in Runs : NotifyAll(p)) \/ UNCHANGED streamVars
  BY DEF ApproveHandler, Approve, ApproveWritten, ApproveLost, EmitResolved, AppendEvent
<1>3. /\ UNCHANGED streamRun
      /\ \A s \in Streams : streamPc'[s] = streamPc[s] \/ streamPc[s] \in {"waiting", "off"}
  BY <1>1, <1>2, WakeUpKeepsWaiters DEF streamVars
<1>4. /\ UNCHANGED <<runner, reader>>
      /\ \A p \in Runs, b \in Approvals : ~(p = r /\ b = a) => approval'[p][b] = approval[p][b]
  BY DEF ApproveHandler, Approve, ApproveWritten, ApproveLost, EmitResolved, TypeInv, TypeOK
<1>5. StillExpecting(r, a, a)
  BY <1>1, <1>3, <1>4, OthersStillExpect
<1>6. CASE Approve(r, a) \/ ApproveLost(r, a) \/ (ApproveWritten(r, a) /\ Free(r))
  <2>1. lock' = lock /\ approval[r][a] # "emitting"
    BY <1>6 DEF Approve, ApproveLost, ApproveWritten
  <2> QED
    BY <1>5, <2>1, WhoExpects, QueueStays
<1>7. CASE ApproveWritten(r, a) /\ ~Free(r)
  <2>1. /\ Enqueue(r, a) /\ approval[r][a] = "responding" /\ approval'[r][a] = "emitting"
    BY <1>1, <1>7 DEF ApproveWritten, TypeOK
  <2>2. a \notin Expecting[r] /\ a \in Expecting'[r]
    BY <1>1, <2>1 DEF Expecting, AtLock
  <2> QED
    BY <1>1, <1>5, <2>1, <2>2, EnqueueKeepsQueue
<1>8. CASE EmitResolved(r, a)
  BY <1>1, <1>5, <1>8, ReleaseKeepsQueue DEF EmitResolved
<1> QED
  BY <1>6, <1>7, <1>8 DEF ApproveHandler

LEMMA StreamQueues ==
  ASSUME TypeInv, QueueInv, NEW s \in Streams, Stream(s) \/ Disconnect(s)
  PROVE  QueueInv'
<1> DEFINE r == streamRun[s]
<1>1. /\ TypeOK /\ r \in Runs /\ s \in Actors /\ s \notin Approvals \cup {"runner", "reader"}
      /\ lock \in [Runs -> Seq(Actors)] /\ streamPc \in [Streams -> StreamSteps]
  BY ConstantsAssumption DEF TypeInv, TypeOK, StepsAgree, Actors, Stream, StreamNext, StreamWait,
     StreamReacquire, StreamResume, StreamTimeout, KeepAlive, KeepAliveResume, Leave, Disconnect
<1>2. /\ UNCHANGED <<runner, reader, approval, streamRun>>
      /\ \A u \in Streams \ {s} : streamPc'[u] = streamPc[u]
  BY <1>1 DEF Stream, StreamNext, StreamWait, StreamReacquire, StreamResume, StreamTimeout,
     KeepAlive, KeepAliveResume, Leave, Disconnect, LoopTop, StreamMoves, bridgeVars
<1>3. StillExpecting(r, s, s)
  BY <1>1, <1>2, OthersStillExpect
<1>4. streamRun'[s] = r
  BY <1>2
<1>5. /\ s \in Expecting[r] <=>
           streamPc[s] \in {"locking", "reacquiring", "expired", "keepalive", "leaving"}
      /\ s \in Expecting'[r] <=>
           streamPc'[s] \in {"locking", "reacquiring", "expired", "keepalive", "leaving"}
  BY <1>1, <1>4 DEF Expecting, AtLock
<1>6. CASE StreamNext(s)
  <2>1. LoopTop(s, lock[r]) /\ s \notin Expecting[r]
    BY <1>5, <1>6 DEF StreamNext
  <2>2. \/ lock' = lock
        \/ Enqueue(r, s) /\ streamPc'[s] = "locking"
    BY <1>1, <2>1 DEF LoopTop, StreamMoves, Enqueue
  <2> HIDE DEF r
  <2> QED
    BY <1>1, <1>3, <1>5, <2>1, <2>2, QueueStays, EnqueueKeepsQueue
<1>7. CASE StreamResume(s) \/ KeepAliveResume(s)
  <2>1. Holds(r, s) /\ LoopTop(s, Tail(lock[r]))
    BY <1>7 DEF StreamResume, KeepAliveResume
  <2>2. \/ Release(r)
        \/ /\ lock' = [lock EXCEPT ![r] = Append(Tail(lock[r]), s)]
           /\ streamPc'[s] = "locking"
    BY <1>1, <2>1 DEF LoopTop, StreamMoves, Release
  <2> HIDE DEF r
  <2> QED
    BY <1>1, <1>3, <1>5, <2>1, <2>2, ReleaseKeepsQueue, RequeueKeepsQueue
<1>8. CASE StreamWait(s) \/ Leave(s)
  <2>1. Holds(r, s) /\ Release(r)
    BY <1>8 DEF StreamWait, Leave
  <2> HIDE DEF r
  <2> QED
    BY <1>1, <1>3, <2>1, ReleaseKeepsQueue
<1>9. CASE StreamReacquire(s)
  <2>1. /\ Enqueue(r, s) /\ streamPc[s] = "notified" /\ streamPc'[s] = "reacquiring"
    BY <1>1, <1>9 DEF StreamReacquire, StreamMoves
  <2> HIDE DEF r
  <2> QED
    BY <1>1, <1>3, <1>5, <2>1, EnqueueKeepsQueue
<1>10. CASE KeepAlive(s)
  <2>1. lock' = lock /\ streamPc'[s] = "keepalive"
    BY <1>1, <1>10 DEF KeepAlive, StreamMoves
  <2> HIDE DEF r
  <2> QED
    BY <1>3, <1>5, <2>1, QueueStays
<1>11. CASE Disconnect(s) \/ StreamTimeout(s)
  <2>1. \/ lock' = [lock EXCEPT ![r] = Without(lock[r], s)]
        \/ /\ lock' = [lock EXCEPT ![r] = Append(Without(lock[r], s), s)]
           /\ streamPc'[s] \in {"leaving", "expired"}
    BY <1>1, <1>11 DEF Disconnect, StreamTimeout, StreamMoves
  <2> HIDE DEF r
  <2> QED
    BY <1>1, <1>3, <1>5, <2>1, CancelKeepsQueue
<1> QED
  BY <1>6, <1>7, <1>8, <1>9, <1>10, <1>11 DEF Stream

LEMMA NextQueueInv == TypeInv /\ TellersInv /\ QueueInv /\ [Next]_vars => QueueInv'
<1> SUFFICES ASSUME TypeInv, TellersInv, QueueInv, [Next]_vars PROVE QueueInv'
  OBVIOUS
<1>0. TypeOK
  BY DEF TypeInv
<1>1. ASSUME NEW r \in Runs, NEW k \in Sessions, StartTurn(r, k) PROVE QueueInv'
  <2>1. /\ UNCHANGED <<lock, approval, streamRun, streamPc>>
        /\ runner[r] = "none" /\ reader'[r] = "idle"
        /\ \A p \in Runs \ {r} : runner'[p] = runner[p] /\ reader'[p] = reader[p]
    BY <1>0, <1>1 DEF StartTurn, TypeInv, TypeOK, StepsAgree, streamVars
  <2>2. /\ "runner" \notin Expecting[r]
        /\ "reader" \notin Expecting'[r] /\ "reader" \in Actors
        /\ {"runner", "reader"} \cap (Streams \cup Approvals) = {}
    BY <1>0, <2>1, WhoExpects, ConstantsAssumption
       DEF Expecting, AtLock, Actors, EventTypes, Terminal
  <2>3. StillExpecting(r, "runner", "reader")
    BY <2>1, <2>2, OthersStillExpect
  <2>4. "reader" \notin Expecting[r]
    <3>1. reader[r] \notin EventTypes
      BY <1>1 DEF StartTurn, TellersInv, EventTypes, Terminal
    <3> QED
      BY <3>1, WhoExpects
  <2> QED
    BY <2>1, <2>2, <2>3, <2>4, QueueStays
<1>2. ASSUME NEW s \in Streams, NEW r \in Runs, StreamConnect(s, r) PROVE QueueInv'
  <2>1. /\ UNCHANGED <<lock, runner, reader, approval>>
        /\ streamRun[s] \notin Runs
        /\ \A u \in Streams \ {s} : streamRun'[u] = streamRun[u] /\ streamPc'[u] = streamPc[u]
    BY <1>0, <1>2, ConstantsAssumption DEF StreamConnect, StreamMoves, TypeOK, bridgeVars
  <2>2. StillExpecting(r, s, s) /\ s \notin Expecting[r]
    BY <2>1, OthersStillExpect, WhoExpects, ConstantsAssumption
  <2> QED
    BY <2>1, <2>2, QueueStays
<1>3. CASE UNCHANGED vars
  BY <1>3 DEF vars, QueueInv, Expecting, AtLock
<1> QED
  BY <1>1, <1>2, <1>3, RunTaskQueues, ReaderTaskQueues, ApproveHandlerQueues, StreamQueues DEF Next

\* In every bridge: nobody waits for a lock that nobody will pass on.
THEOREM QueuesAreOfWaiters == Spec => []QueuedActorsExpectTheLock
<1>1. Init => TellersInv /\ QueueInv
  BY DEF Init, TellersInv, QueueInv, NoDuplicate, InQueue
<1>2. TypeInv => TypeOK
  BY DEF TypeInv
<1> QED
  BY InitTypeInv, NextTypeInv, NextTellers, NextQueueInv, QueueInvIsTheProperty,
     <1>1, <1>2, PTL DEF Spec

-----------------------------------------------------------------------------
(* Who is woken up.  A stream that saw its run still running is in the     *)
(* queue, and stays ahead of the task that will notify it a last time.     *)

Wakes(s) ==
  LET r == streamRun[s] IN
  /\ streamPc[s] = "waiting" => runner[r] # "done"
  /\ streamPc[s] = "locking" =>
       /\ InQueue(lock[r], s)
       /\ runner[r] # "done"
       /\ runner[r] = "finalNotify" => Before(lock[r], s, "runner")

WakeInv == \A s \in Streams : Wakes(s)

\* What a step leaves to the streams that ask for a lock: their place in the
\* queue, ahead of a task that waits to notify them.
PlacesKept(s) ==
  \A r \in Runs :
    /\ InQueue(lock[r], s) => InQueue(lock'[r], s)
    /\ runner[r] = "finalNotify" /\ Before(lock[r], s, "runner") => Before(lock'[r], s, "runner")

LEMMA EnqueueKeepsPlaces ==
  ASSUME TypeOK, NEW r \in Runs, NEW x \in Actors, Enqueue(r, x), NEW s
  PROVE  PlacesKept(s)
<1>1. /\ lock[r] \in Seq(Actors) /\ lock'[r] = Append(lock[r], x)
      /\ \A p \in Runs \ {r} : lock'[p] = lock[p]
  BY DEF TypeOK, Enqueue
<1>2. /\ InQueue(lock[r], s) => InQueue(Append(lock[r], x), s)
      /\ Before(lock[r], s, "runner") => Before(Append(lock[r], x), s, "runner")
  BY <1>1, AppendToQueue
<1> QED
  BY <1>1, <1>2 DEF PlacesKept

LEMMA ReleaseKeepsPlaces ==
  ASSUME TypeOK, QueueInv, NEW r \in Runs, NEW x, Holds(r, x), Release(r), NEW s, s # x
  PROVE  PlacesKept(s)
<1>1. /\ lock[r] \in Seq(Actors) /\ lock[r] # <<>> /\ NoDuplicate(lock[r]) /\ Head(lock[r]) = x
      /\ lock'[r] = Tail(lock[r]) /\ \A p \in Runs \ {r} : lock'[p] = lock[p]
  BY DEF TypeOK, QueueInv, Holds, Release
<1> QED
  BY <1>1, TailOfQueue DEF PlacesKept

LEMMA RequeueKeepsPlaces ==
  ASSUME TypeOK, QueueInv, NEW r \in Runs, NEW x \in Actors, Holds(r, x),
         lock' = [lock EXCEPT ![r] = Append(Tail(lock[r]), x)], NEW s, s # x
  PROVE  PlacesKept(s)
<1> DEFINE t == Tail(lock[r])
<1>1. /\ lock[r] \in Seq(Actors) /\ lock[r] # <<>> /\ NoDuplicate(lock[r]) /\ Head(lock[r]) = x
      /\ lock'[r] = Append(t, x) /\ \A p \in Runs \ {r} : lock'[p] = lock[p]
  BY DEF TypeOK, QueueInv, Holds
<1>2. /\ t \in Seq(Actors)
      /\ InQueue(lock[r], s) => InQueue(t, s)
      /\ Before(lock[r], s, "runner") => Before(t, s, "runner")
  BY <1>1, TailOfQueue
<1> HIDE DEF t
<1>3. /\ InQueue(t, s) => InQueue(Append(t, x), s)
      /\ Before(t, s, "runner") => Before(Append(t, x), s, "runner")
  BY <1>2, AppendToQueue
<1> QED
  BY <1>1, <1>2, <1>3 DEF PlacesKept

\* Whoever is cancelled, neither s nor the task, leaves s its place.
LEMMA CancelKeepsPlaces ==
  ASSUME TypeOK, QueueInv, NEW r \in Runs, NEW x \in Actors, NEW y \in Actors,
         LET w == Without(lock[r], x) IN
           lock' = [lock EXCEPT ![r] = w] \/ lock' = [lock EXCEPT ![r] = Append(w, y)],
         NEW s, x \notin {s, "runner"}
  PROVE  PlacesKept(s)
<1> DEFINE w == Without(lock[r], x)
<1>1. /\ lock[r] \in Seq(Actors) /\ NoDuplicate(lock[r])
      /\ lock'[r] \in {w, Append(w, y)} /\ \A p \in Runs \ {r} : lock'[p] = lock[p]
  BY DEF TypeOK, QueueInv
<1>2. /\ w \in Seq(Actors)
      /\ InQueue(lock[r], s) => InQueue(w, s)
      /\ Before(lock[r], s, "runner") => Before(w, s, "runner")
  BY <1>1, WithoutInQueue
<1> HIDE DEF w
<1>3. /\ InQueue(w, s) => InQueue(Append(w, y), s)
      /\ Before(w, s, "runner") => Before(Append(w, y), s, "runner")
  BY <1>2, AppendToQueue
<1> QED
  BY <1>1, <1>2, <1>3 DEF PlacesKept

\* A step of the bridge at which the task neither ends nor comes to its last
\* line: whoever waits or asks for a lock did so before.
LEMMA WakesStay ==
  ASSUME TypeInv, NEW s \in Streams, Wakes(s), PlacesKept(s), streamRun'[s] = streamRun[s],
         streamPc'[s] = streamPc[s] \/ streamPc'[s] \notin {"waiting", "locking"},
         \A r \in Runs : runner'[r] \in {"done", "finalNotify"} => runner'[r] = runner[r]
  PROVE  Wakes(s)'
<1>1. streamPc[s] # "off" => streamRun[s] \in Runs
  BY DEF TypeInv, StepsAgree
<1> QED
  BY <1>1 DEF Wakes, PlacesKept

\* The task of r ends with a wake-up, and none of the streams of r is about to
\* wait.
LEMMA TaskEndsWakes ==
  ASSUME TypeInv, NEW s \in Streams, Wakes(s), NEW r \in Runs,
         NotifyAll(r), runner' = [runner EXCEPT ![r] = "done"],
         \A p \in Runs \ {r} : lock'[p] = lock[p],
         streamRun[s] = r => streamPc[s] # "locking"
  PROVE  Wakes(s)'
<1>1. streamPc[s] # "off" => streamRun[s] \in Runs
  BY DEF TypeInv, StepsAgree
<1>2. /\ \A p \in Runs \ {r} : runner'[p] = runner[p]
      /\ streamRun'[s] = streamRun[s]
      /\ streamPc'[s] = IF streamRun[s] = r /\ streamPc[s] = "waiting"
                        THEN "notified" ELSE streamPc[s]
  BY DEF NotifyAll, TypeInv, TypeOK
<1> QED
  BY <1>1, <1>2 DEF Wakes

\* The task of r comes to its last line behind whoever is in the queue.
LEMMA LastLineWakes ==
  ASSUME TypeInv, NEW s \in Streams, Wakes(s), NEW r \in Runs,
         runner' = [runner EXCEPT ![r] = "finalNotify"],
         NEW w \in Seq(Actors), lock' = [lock EXCEPT ![r] = Append(w, "runner")],
         InQueue(lock[r], s) => InQueue(w, s), streamRun'[s] = streamRun[s],
         streamPc'[s] = streamPc[s] \/ streamPc'[s] \notin {"waiting", "locking"}
  PROVE  Wakes(s)'
<1>1. streamPc[s] # "off" => streamRun[s] \in Runs
  BY DEF TypeInv, StepsAgree
<1>2. /\ \A p \in Runs \ {r} : runner'[p] = runner[p] /\ lock'[p] = lock[p]
      /\ runner'[r] = "finalNotify" /\ lock'[r] = Append(w, "runner")
  BY DEF TypeInv, TypeOK
<1>3. /\ "runner" \in Actors
      /\ InQueue(w, s) => InQueue(Append(w, "runner"), s)
      /\ InQueue(w, s) => Before(Append(w, "runner"), s, "runner")
  BY AppendToQueue DEF Actors
<1> QED
  BY <1>1, <1>2, <1>3 DEF Wakes

LEMMA RunTaskWakes ==
  ASSUME TypeInv, QueueInv, NEW r \in Runs, RunTask(r), NEW s \in Streams, Wakes(s)
  PROVE  Wakes(s)'
<1> DEFINE x == "runner"
           w == Without(lock[r], "reader")
<1>0. /\ TypeOK /\ x \in Actors /\ "reader" \in Actors /\ x # s /\ "reader" \notin {s, x}
      /\ lock[r] \in Seq(Actors) /\ NoDuplicate(lock[r])
  BY ConstantsAssumption DEF TypeInv, TypeOK, QueueInv, Actors
<1>1. /\ streamRun'[s] = streamRun[s]
      /\ streamPc'[s] = streamPc[s] \/ streamPc'[s] \notin {"waiting", "locking"}
  BY <1>0 DEF RunTask, AdapterStarted, EmitStarted, TurnFails, TurnOver, CloseOk, CloseError,
     EmitFailed, FinalNotify, AppendEvent, NotifyAll, streamVars
<1>2. CASE AdapterStarted(r) \/ EmitStarted(r) \/ TurnFails(r) \/ TurnOver(r)
  <2>1. lock' = lock \/ Enqueue(r, x) \/ (Holds(r, x) /\ Release(r))
    BY <1>2 DEF AdapterStarted, EmitStarted, TurnFails, TurnOver
  <2>2. PlacesKept(s)
    <3>1. lock' = lock => PlacesKept(s)
      BY DEF PlacesKept
    <3> QED
      BY <1>0, <2>1, <3>1, EnqueueKeepsPlaces, ReleaseKeepsPlaces
  <2>3. \E to \in {"emitStarted", "awaiting", "closingOk", "closingError"} :
          runner' = [runner EXCEPT ![r] = to]
    BY <1>2 DEF AdapterStarted, EmitStarted, TurnFails, TurnOver
  <2>4. \A p \in Runs : runner'[p] \in {"done", "finalNotify"} => runner'[p] = runner[p]
    BY <1>0, <2>3 DEF TypeOK
  <2> QED
    BY <1>1, <2>2, <2>4, WakesStay
<1>3. CASE CloseError(r) /\ w # <<>>
  <2>1. /\ lock' = [lock EXCEPT ![r] = Append(w, x)]
        /\ runner' = [runner EXCEPT ![r] = "emitFailed"]
    BY <1>3 DEF CloseError
  <2>2. PlacesKept(s)
    BY <1>0, <2>1, CancelKeepsPlaces
  <2>3. \A p \in Runs : runner'[p] \in {"done", "finalNotify"} => runner'[p] = runner[p]
    BY <1>0, <2>1 DEF TypeOK
  <2> QED
    BY <1>1, <2>2, <2>3, WakesStay
<1>4. w \in Seq(Actors) /\ \A z : InQueue(w, z) <=> InQueue(lock[r], z) /\ z # "reader"
  BY <1>0, WithoutInQueue
<1>5. CASE (CloseOk(r) \/ CloseError(r)) /\ w = <<>>
  <2>1. /\ NotifyAll(r) /\ runner' = [runner EXCEPT ![r] = "done"]
        /\ lock' = [lock EXCEPT ![r] = w]
    BY <1>5 DEF CloseOk, CloseError, AppendEvent, Finally
  <2>2. \A p \in Runs \ {r} : lock'[p] = lock[p]
    BY <1>0, <2>1 DEF TypeOK
  <2>3. ~InQueue(lock[r], s)
    BY <1>0, <1>4, <1>5, NobodyInEmpty
  <2> QED
    BY <2>1, <2>2, <2>3, TaskEndsWakes DEF Wakes
<1>6. CASE CloseOk(r) /\ w # <<>>
  <2>1. /\ runner' = [runner EXCEPT ![r] = "finalNotify"]
        /\ lock' = [lock EXCEPT ![r] = Append(w, "runner")]
    BY <1>6 DEF CloseOk, Finally
  <2>2. InQueue(lock[r], s) => InQueue(w, s)
    BY <1>0, <1>4
  <2> HIDE DEF w
  <2> QED
    BY <1>1, <1>4, <2>1, <2>2, LastLineWakes
<1> DEFINE t == Tail(lock[r])
<1>7. ASSUME Holds(r, x)
      PROVE  /\ t \in Seq(Actors)
             /\ \A z : InQueue(t, z) <=> InQueue(lock[r], z) /\ z # x
             /\ \A z : ~Before(lock[r], z, x)
  <2>1. lock[r] # <<>> /\ Head(lock[r]) = x
    BY <1>7 DEF Holds
  <2>2. /\ t \in Seq(Actors)
        /\ \A z : InQueue(t, z) <=> InQueue(lock[r], z) /\ z # Head(lock[r])
        /\ \A z : ~Before(lock[r], z, Head(lock[r]))
    BY <1>0, <2>1, TailOfQueue
  <2> HIDE DEF t
  <2> QED
    BY <2>1, <2>2
<1>8. CASE EmitFailed(r)
  <2>1. /\ Holds(r, x) /\ NotifyAll(r)
        /\ lock' = [lock EXCEPT ![r] = IF t = <<>> THEN t ELSE Append(t, "runner")]
        /\ runner' = [runner EXCEPT ![r] = IF t = <<>> THEN "done" ELSE "finalNotify"]
    BY <1>8 DEF EmitFailed, AppendEvent, Finally
  <2>2. t \in Seq(Actors) /\ (InQueue(lock[r], s) => InQueue(t, s))
    BY <1>0, <1>7, <2>1
  <2>3. CASE t = <<>>
    <3>1. \A p \in Runs \ {r} : lock'[p] = lock[p]
      BY <1>0, <2>1 DEF TypeOK
    <3>2. ~InQueue(lock[r], s)
      BY <2>2, <2>3, NobodyInEmpty
    <3> QED
      BY <2>1, <2>3, <3>1, <3>2, TaskEndsWakes DEF Wakes
  <2>4. CASE t # <<>>
    <3>1. /\ lock' = [lock EXCEPT ![r] = Append(t, "runner")]
          /\ runner' = [runner EXCEPT ![r] = "finalNotify"]
      BY <2>1, <2>4
    <3> HIDE DEF t
    <3> QED
      BY <1>1, <2>2, <3>1, LastLineWakes
  <2> QED
    BY <2>3, <2>4
<1>9. CASE FinalNotify(r)
  <2>1. /\ Holds(r, x) /\ NotifyAll(r) /\ Release(r) /\ runner[r] = "finalNotify"
        /\ runner' = [runner EXCEPT ![r] = "done"]
    BY <1>9 DEF FinalNotify
  <2>2. \A p \in Runs \ {r} : lock'[p] = lock[p]
    BY <1>0, <2>1 DEF Release, TypeOK
  <2>3. streamRun[s] = r => streamPc[s] # "locking"
    BY <1>7, <2>1 DEF Wakes
  <2> QED
    BY <2>1, <2>2, <2>3, TaskEndsWakes
<1> QED
  BY <1>2, <1>3, <1>5, <1>6, <1>8, <1>9 DEF RunTask

LEMMA HandlersWake ==
  ASSUME TypeInv, QueueInv, NEW r \in Runs,
         ReaderTask(r) \/ \E a \in Approvals : ApproveHandler(r, a),
         NEW s \in Streams, Wakes(s)
  PROVE  Wakes(s)'
<1>1. /\ runner' = runner /\ streamRun'[s] = streamRun[s]
      /\ streamPc'[s] = streamPc[s] \/ streamPc'[s] \notin {"waiting", "locking"}
  BY DEF ReaderTask, RuntimeEvent, RuntimeAsksApproval, HandlerResumes, HandlerEmits,
     ApproveHandler, Approve, ApproveWritten, ApproveLost, EmitResolved,
     AppendEvent, NotifyAll, streamVars
<1>2. \/ lock' = lock
      \/ \E x \in {"reader"} \cup Approvals : Enqueue(r, x) \/ (Holds(r, x) /\ Release(r))
  BY DEF ReaderTask, RuntimeEvent, RuntimeAsksApproval, HandlerResumes, HandlerEmits,
     ApproveHandler, Approve, ApproveWritten, ApproveLost, EmitResolved
<1>3. TypeOK /\ \A x \in {"reader"} \cup Approvals : x \in Actors /\ x # s
  BY ConstantsAssumption DEF TypeInv, Actors
<1>4. PlacesKept(s)
  <2>1. lock' = lock => PlacesKept(s)
    BY DEF PlacesKept
  <2> QED
    BY <1>2, <1>3, <2>1, EnqueueKeepsPlaces, ReleaseKeepsPlaces
<1> QED
  BY <1>1, <1>4, WakesStay

\* The step of stream s itself: it asks for the lock while its run runs, and
\* waits when it holds it.
LEMMA OwnStepWakes ==
  ASSUME TypeInv, QueueInv, NEW s \in Streams, Wakes(s), Stream(s) \/ Disconnect(s)
  PROVE  Wakes(s)'
<1> DEFINE r == streamRun[s]
<1>1. /\ TypeOK /\ r \in Runs /\ s \in Actors /\ streamRun'[s] = r /\ runner' = runner
      /\ lock \in [Runs -> Seq(Actors)] /\ streamPc \in [Streams -> StreamSteps]
  BY DEF TypeInv, TypeOK, StepsAgree, Actors, Stream, StreamNext, StreamWait, StreamReacquire,
     StreamResume, StreamTimeout, KeepAlive, KeepAliveResume, Leave, Disconnect, bridgeVars
<1>2. CASE StreamWait(s)
  <2>1. streamPc[s] = "locking" /\ streamPc'[s] = "waiting"
    BY <1>1, <1>2 DEF StreamWait, StreamMoves
  <2> QED
    BY <1>1, <2>1 DEF Wakes
<1>3. CASE StreamNext(s) \/ StreamResume(s) \/ KeepAliveResume(s)
  <2>1. \E q \in Seq(Actors) : LoopTop(s, q)
    <3>1. lock[r] \in Seq(Actors) /\ (Holds(r, s) => Tail(lock[r]) \in Seq(Actors))
      BY <1>1 DEF Holds
    <3> QED
      BY <1>3, <3>1 DEF StreamNext, StreamResume, KeepAliveResume
  <2>2. PICK q \in Seq(Actors) : LoopTop(s, q)
    BY <2>1
  <2>3. \/ streamPc'[s] \in {"yielded", "ended"}
        \/ /\ streamPc'[s] = "locking" /\ status[r] = "running"
           /\ lock'[r] = Append(q, s)
    BY <1>1, <2>2 DEF LoopTop, StreamMoves
  <2>4. status[r] = "running" => runner[r] \notin {"done", "finalNotify"}
    BY <1>1 DEF TypeInv, StepsAgree, RunningSteps
  <2>5. InQueue(Append(q, s), s)
    BY <1>1, AppendToQueue
  <2> QED
    BY <1>1, <2>3, <2>4, <2>5 DEF Wakes
<1>4. CASE ~(StreamWait(s) \/ StreamNext(s) \/ StreamResume(s) \/ KeepAliveResume(s))
  <2>1. streamPc'[s] \notin {"waiting", "locking"}
    BY <1>1, <1>4 DEF Stream, StreamReacquire, StreamTimeout, KeepAlive, Leave, Disconnect,
       StreamMoves
  <2> QED
    BY <2>1 DEF Wakes
<1> QED
  BY <1>2, <1>3, <1>4

\* The step of another stream.
LEMMA OtherStreamWakes ==
  ASSUME TypeInv, QueueInv, NEW s \in Streams, Stream(s) \/ Disconnect(s),
         NEW u \in Streams, u # s, Wakes(u)
  PROVE  Wakes(u)'
<1> DEFINE r == streamRun[s]
<1>1. /\ TypeOK /\ r \in Runs /\ s \in Actors /\ s \notin {u, "runner"} /\ runner' = runner
      /\ streamRun'[u] = streamRun[u] /\ streamPc'[u] = streamPc[u]
      /\ lock \in [Runs -> Seq(Actors)]
  BY ConstantsAssumption DEF TypeInv, TypeOK, StepsAgree, Actors, Stream, StreamNext,
     StreamWait, StreamReacquire, StreamResume, StreamTimeout, KeepAlive, KeepAliveResume,
     Leave, Disconnect, LoopTop, StreamMoves, bridgeVars
<1>2. \/ lock' = lock \/ Enqueue(r, s)
      \/ /\ Holds(r, s)
         /\ Release(r) \/ lock' = [lock EXCEPT ![r] = Append(Tail(lock[r]), s)]
      \/ LET w == Without(lock[r], s) IN
           lock' = [lock EXCEPT ![r] = w] \/ lock' = [lock EXCEPT ![r] = Append(w, s)]
  <2>1. ASSUME NEW q, LoopTop(s, q)
        PROVE  lock' = [lock EXCEPT ![r] = q] \/ lock' = [lock EXCEPT ![r] = Append(q, s)]
    BY <2>1 DEF LoopTop
  <2>2. CASE StreamNext(s)
    BY <1>1, <2>1, <2>2 DEF StreamNext, Enqueue
  <2>3. CASE StreamResume(s) \/ KeepAliveResume(s)
    BY <2>1, <2>3 DEF StreamResume, KeepAliveResume, Release
  <2>4. CASE ~(StreamNext(s) \/ StreamResume(s) \/ KeepAliveResume(s))
    BY <2>4 DEF Stream, StreamWait, StreamReacquire, StreamTimeout, KeepAlive, Leave, Disconnect
  <2> QED
    BY <2>2, <2>3, <2>4
<1>3. PlacesKept(u)
  <2>1. lock' = lock => PlacesKept(u)
    BY DEF PlacesKept
  <2> HIDE DEF r
  <2>2. CASE Enqueue(r, s)
    BY <1>1, <2>2, EnqueueKeepsPlaces
  <2>3. CASE Holds(r, s) /\ Release(r)
    BY <1>1, <2>3, ReleaseKeepsPlaces
  <2>4. CASE Holds(r, s) /\ lock' = [lock EXCEPT ![r] = Append(Tail(lock[r]), s)]
    BY <1>1, <2>4, RequeueKeepsPlaces
  <2>5. CASE LET w == Without(lock[r], s) IN
               lock' = [lock EXCEPT ![r] = w] \/ lock' = [lock EXCEPT ![r] = Append(w, s)]
    BY <1>1, <2>5, CancelKeepsPlaces
  <2> QED
    BY <1>2, <2>1, <2>2, <2>3, <2>4, <2>5
<1> QED
  BY <1>1, <1>3, WakesStay

LEMMA NextWakeInv == TypeInv /\ QueueInv /\ WakeInv /\ [Next]_vars => WakeInv'
<1> SUFFICES ASSUME TypeInv, QueueInv, WakeInv, [Next]_vars, NEW s \in Streams PROVE Wakes(s)'
  BY DEF WakeInv
<1>0. Wakes(s) /\ TypeOK
  BY DEF WakeInv, TypeInv
<1>1. ASSUME NEW r \in Runs, NEW k \in Sessions, StartTurn(r, k) PROVE Wakes(s)'
  <2>1. /\ UNCHANGED <<lock, streamRun, streamPc>>
        /\ \A p \in Runs : runner'[p] \in {"done", "finalNotify"} => runner'[p] = runner[p]
    BY <1>0, <1>1 DEF StartTurn, streamVars, TypeOK
  <2> QED
    BY <1>0, <2>1, WakesStay DEF PlacesKept
<1>2. ASSUME NEW u \in Streams, NEW r \in Runs, StreamConnect(u, r) PROVE Wakes(s)'
  <2>1. /\ UNCHANGED <<lock, runner>>
        /\ s # u => streamRun'[s] = streamRun[s] /\ streamPc'[s] = streamPc[s]
        /\ s = u => streamPc'[s] = "yielded"
    BY <1>0, <1>2 DEF StreamConnect, StreamMoves, bridgeVars, TypeOK
  <2> QED
    BY <1>0, <2>1 DEF Wakes
<1>3. CASE UNCHANGED vars
  BY <1>0, <1>3 DEF vars, Wakes
<1>4. ASSUME NEW u \in Streams, Stream(u) \/ Disconnect(u) PROVE Wakes(s)'
  BY <1>0, <1>4, OwnStepWakes, OtherStreamWakes
<1> QED
  BY <1>0, <1>1, <1>2, <1>3, <1>4, RunTaskWakes, HandlersWake DEF Next

\* In every bridge: when the task of a run is over, no stream of it is left
\* waiting for a notification.
THEOREM NoWakeUpIsLost == Spec => []NoLostWakeUp
<1>1. Init => TellersInv /\ QueueInv /\ WakeInv
  BY DEF Init, TellersInv, QueueInv, NoDuplicate, InQueue, WakeInv, Wakes
<1>2. WakeInv => NoLostWakeUp
  BY DEF WakeInv, Wakes, NoLostWakeUp
<1> QED
  BY InitTypeInv, NextTypeInv, NextTellers, NextQueueInv, NextWakeInv, <1>1, <1>2, PTL DEF Spec
=============================================================================
