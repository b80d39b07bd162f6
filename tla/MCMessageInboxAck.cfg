SPECIFICATION Spec
CONSTANTS
  Messages = {m1, m2}
  Requests = {q1, q2}
  MaxTime = 2
  NoTime = NoTime
INVARIANTS
  AckOkMeansAcked
