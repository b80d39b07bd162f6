SPECIFICATION Spec
CONSTANTS
  Runs = {r1}
  Sessions = {k1}
  Streams = {s1, s2}
  Approvals = {a1}
  Afters = {0, 1, 9}
  MaxEvents = 1
  NoRun = NoRun
  NoSession = NoSession
SYMMETRY Symmetry
INVARIANTS
  TypeOK
  CompletedRunsAreDelivered
  QueuedActorsExpectTheLock
  NoLostWakeUp
CHECK_DEADLOCK FALSE
