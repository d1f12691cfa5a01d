SPECIFICATION FairEstablishedSpec
CONSTANTS
  s1 = s1
  s2 = s2
  good = good
  bad = bad
  NoPmk = NoPmk
  NoKey = NoKey
  NoFrame = NoFrame
  Pmk = {good}
  Cred <- OneCred
  Sta = {s1, s2}
  Security = "wpa3"
  PmfStas = {s1, s2}
  Psk <- OnePsk
  MaxRc = 7
  MaxGtk = 3
  MaxPn = 0
  MaxRetries = 1
  MaxCands = 1
  MaxSaq = 0
  MaxSn = 1
  MaxClPn = 0
INVARIANTS
  RekeyArmed
PROPERTY
  RekeyDelivered
  RekeyEnds
