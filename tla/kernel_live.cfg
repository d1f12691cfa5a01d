SPECIFICATION FairSpec
CONSTANTS
  Sta = {s1}
  Modes <- VlanFull
  MaxFaults = 1
  MaxKey = 2
  MaxSc = 1
  QueueCap = 1
PROPERTY
  RetirementCompletes
