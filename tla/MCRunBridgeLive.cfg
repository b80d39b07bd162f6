SPECIFICATION FairSpec
CONSTANTS
  Runs = {r1}
  Sessions = {k1}
  Streams = {s1, s2}
  Approvals = {}
  Afters = {0, 9}
  MaxEvents = 1
  NoRun = NoRun
  NoSession = NoSession
PROPERTIES
  TasksFinish
  StreamsEnd
CHECK_DEADLOCK FALSE
