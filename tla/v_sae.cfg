SPECIFICATION Spec
CONSTANTS
  s1 = s1
  s2 = s2
  Sta <- OneStation
  Transition = FALSE
  Limit <- TwoLimit
  Threshold = 1
  Cap = 1
  QueueMax = 1
  CacheMax = 1
  MaxCommits = 2
  MaxJobs = 2
  MaxConfirms = 1
  MaxReloads = 1
  WorkerMayDie = TRUE
PROPERTY
  SessionUndisturbed
CHECK_DEADLOCK FALSE
