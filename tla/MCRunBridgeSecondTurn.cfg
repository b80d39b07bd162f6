SPECIFICATION Spec
CONSTANTS
  Runs = {r1, r2, r3}
  Sessions = {k1}
  Streams = {s1}
  Approvals = {}
  Afters = {0, 1, 9}
  MaxEvents = 0
  NoRun = NoRun
  NoSession = NoSession
SYMMETRY Symmetry
INVARIANTS
  OneRunningTurn
CHECK_DEADLOCK FALSE
