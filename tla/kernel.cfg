SPECIFICATION Spec
CONSTANTS
  Sta = {s1}
  Modes <- AllModes
  MaxFaults = 1
  MaxKey = 3
  MaxSc = 2
  QueueCap = 1
INVARIANTS
  TypeOK
  NoOrphan
  CleanupOwnsPeer
  OpenPortIsBound
  KeyedOnBase
PROPERTY
  BindBeforeEapol
