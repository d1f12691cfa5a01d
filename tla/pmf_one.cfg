SPECIFICATION Spec
CONSTANTS
  s1 = s1
  s2 = s2
  good = good
  bad = bad
  NoPmk = NoPmk
  NoKey = NoKey
  NoFrame = NoFrame
  Pmk = {good}
  Cred <- OneCred
  Sta = {s1}
  Security = "wpa3"
  PmfStas = {s1}
  Psk <- OnePsk
  MaxRc = 5
  MaxGtk = 2
  MaxPn = 1
  MaxRetries = 0
  MaxCands = 2
  MaxSaq = 1
  MaxSn = 2
  MaxClPn = 1
INVARIANTS
  EventsPaired
  RekeyArmed
  ParserUnambiguous
