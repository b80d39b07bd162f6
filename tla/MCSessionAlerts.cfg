SPECIFICATION FairSpec
CONSTANTS
  disk = disk
  Sessions = {s1}
  Discovered = {}
  Sweeps = {q1, q2}
  Others <- OtherAlerts
  Fingerprints <- AllAlerts
  SourceOfAlert <- Source
  Limit = 1
  LostAfter = 0
  WaitAfter = 2
  MaxTime = 3
  MaxReports = 2
INVARIANTS
  TypeOK
  OneAlertPerSession
  OccurrencesAreEpisodes
PROPERTIES
  SourcesAreSeparate
  AlertsCatchUp
  AlertsClear
