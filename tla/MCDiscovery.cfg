SPECIFICATION FairSpec
CONSTANTS
  Codex = {c1, c2}
  Index = {c1}
  Telegram = {t1}
  Cli = {}
  Carried = {k1}
  Targets = {a}
  NoTarget = NoTarget
  Sights = {"available", "missing"}
  LostAfter = 2
  StaleAfter = 2
  MaxFaults = 2
  MaxChanges = 1
INVARIANTS
  TypeOK
  LostSessionsWereNotFound
PROPERTIES
  FailuresStayAtHome
  SourcesRecover
  CarriersCatchUp
