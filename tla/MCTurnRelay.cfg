SPECIFICATION OrderedSpec
CONSTANTS
  Runs = {r1, r2}
  Streams = {p1}
  NoRun = NoRun
  Afters = {0}
  Extras = {"quotes_completed", "quotes_interrupted", "quotes_failed", "failed"}
  MaxDisturbances = 2
INVARIANTS
  TypeOK
  OutcomesAreReal
  FollowedIsRemembered
PROPERTIES
  GivenUpWhenSettled
  PagesComeToRest
CHECK_DEADLOCK FALSE
