SPECIFICATION Spec
CONSTANTS
  Sessions = {s1}
  Sources = {x1, x2}
  Live = {"active"}
  Terminal = {"completed"}
  Requests = {q1, q2, q3}
  MaxFaults = 1
SYMMETRY Symmetry
INVARIANTS
  TypeOK
  TombstonesMeanGone
  GoneIsRecorded
  TombstonesAreAudited
PROPERTIES
  ImplementsLifecycle
  RevivalNeedsAStaleRead
CHECK_DEADLOCK FALSE
