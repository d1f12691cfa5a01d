SPECIFICATION FairSpec
CONSTANTS
  s1 = s1
  s2 = s2
  Sta = {s1}
  First = 1
  Normal = 2
  MaxRetries = 2
  MaxGen = 4
  MaxLives = 2
INVARIANTS
  TypeOK
  ArmedIsScheduled
  FirstRecordOnTime
PROPERTY
  ImplementsRetryTimer
  EventuallySettled
