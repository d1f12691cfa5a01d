SPECIFICATION FairSpec
CONSTANTS
  s1 = s1
  s2 = s2
  good = good
  bad = bad
  NoPmk = NoPmk
  NoKey = NoKey
  NoFrame = NoFrame
  Pmk = {good, bad}
  Cred <- OneCred
  Sta = {s1}
  Security = "wpa2"
  PmfStas = {}
  Psk <- OnePsk
  MaxRc = 3
  MaxGtk = 2
  MaxPn = 1
  MaxRetries = 1
  MaxCands = 1
  MaxSaq = 1
  MaxSn = 2
  MaxClPn = 1
INVARIANTS
  TypeOK
  NonceFresh
  NonceUnspent
  ClientNonceFresh
  KeyAgreement
  NoFalseMicFailure
PROPERTY
  RekeyDelivered
  HandshakeResolves
  NoBlackHole
