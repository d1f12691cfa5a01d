SPECIFICATION FairSpec
CONSTANTS
  s1 = s1
  s2 = s2
  Sta <- Stations
  Transition = FALSE
  Limit <- UnitLimit
  Threshold = 1
  Cap = 1
  QueueMax = 1
  CacheMax = 1
  MaxCommits = 1
  MaxJobs = 2
  MaxConfirms = 1
  MaxReloads = 1
  WorkerMayDie = TRUE
INVARIANTS
  TypeOK
  PendingHasJob
  IncompleteCap
  ConfirmedIsProved
  ExpiryArmed
PROPERTY
  SlotFreed
CHECK_DEADLOCK FALSE
