SPECIFICATION FairSpec
CONSTANTS
  up = up
  dn = dn
  r1 = r1
  r2 = r2
  a = a
  b = b
  c = c
  none = none
  None = none
  Uplink = up
  Purposes <- TwoPurposes
  Rids <- TwoRids
  Ops <- ThreeOps
  RidOf <- ThreeOpsRid
  Ver <- ThreeOpsVer
  Apis = {"legacy", "kl1"}
  SaveOutcomes = {"ok", "not_ready", "write_failed", "write_ambiguous"}
  SealMayFail = TRUE
  LookupMayFail = FALSE
INVARIANTS
  ActivePairAtomic
  MarkerVerifies
  ActiveNeverFailed
  StagingHasOpenOwner
  NoTraceWithoutJournal
  RepliesStable
  ReplyInv
PROPERTIES
  KeysOnlyAdvance
  BootConverges
