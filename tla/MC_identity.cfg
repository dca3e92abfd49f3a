SPECIFICATION FairSpec
CONSTANTS
  t1 = t1
  t2 = t2
  Threads = {t1, t2}
  MaxKeys = 2
  MaxSerial = 2
  MaxBoots = 2
  MaxFaults = 1
  MaxVersion = 2
INVARIANTS
  KeyPairIntact
  ChainCertifiesKey
  InstalledMeansCommitted
  ServedChainIsCurrent
  OldReferencesExpire
  IdentityInv
CHECK_DEADLOCK FALSE
PROPERTIES
  StoredKeyStays
  CommittedChainIsJudged
