SPECIFICATION FairSpec
CONSTANTS
  root = root
  nas = nas
  web = web
  db = db
  other = other
  a1 = a1
  a2 = a2
  none = none
  Mounts = {root, nas}
  CoreContainers = {web, db}
  Accounts = {a1, a2}
  Attempts = 2
  NoSubject = none
  Machines <- SomeMachines
  Scheduler = scheduler
  Posts = {post}
  NoOne = NoOne
  Fingerprints <- AllAlerts
  SourceOfAlert <- Source
  MaxChanges = 1
  MaxFaults = 2
INVARIANTS
  TypeOK
  OneCollection
  TablesAgree
  SummaryAgrees
  StatusCoversAlerts
PROPERTIES
  ConsoleCatchesUp
