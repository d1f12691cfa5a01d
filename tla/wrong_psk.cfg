SPECIFICATION Spec
CONSTANTS
  s1 = s1
  s2 = s2
  good = good
  bad = bad
  NoPmk = NoPmk
  NoKey = NoKey
  NoFrame = NoFrame
  Pmk = {good, bad}
  Cred <- OneCred
  Sta = {s1, s2}
  Security = "transition"
  PmfStas = {}
  Psk <- MixedPsk
  MaxRc = 2
  MaxGtk = 1
  MaxPn = 0
  MaxRetries = 0
  MaxCands = 1
  MaxSaq = 0
  MaxSn = 1
  MaxClPn = 0
INVARIANTS
  KeyAgreement
  NonceUnspent
