SPECIFICATION Spec
CONSTANTS
  Sta = {s1}
  Modes <- VlanModes
  MaxFaults = 0
  MaxKey = 2
  MaxSc = 2
  QueueCap = 1
INVARIANT
  AuthorizedIsKeyed
