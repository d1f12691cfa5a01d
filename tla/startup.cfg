SPECIFICATION Spec
CONSTANTS
  ra = ra
  rb = rb
  a1 = a1
  a2 = a2
  b1 = b1
  Radio <- TwoRadios
  LinksOf <- TwoRadioLinks
  Mld <- MldA
  Dfs <- TwoRadioDfs
  Wide <- Wide1
  Offloads <- EitherOffload
  PerStaVifs <- VifOnB
  MaxFaults = 1
  MaxEvents = 1
  MaxStarts = 2
INVARIANTS
  TypeOK
  RunningIsComplete
PROPERTY
  StartEnds
  LoopAnswers
CHECK_DEADLOCK FALSE
