SPECIFICATION Spec
CONSTANTS
  up = up
  dn = dn
  r1 = r1
  r2 = r2
  a = a
  b = b
  c = c
  none = none
  None = none
  Uplink = up
  Purposes <- TwoPurposes
  Rids <- TwoRids
  Ops <- ThreeOps
  RidOf <- ThreeOpsRid
  Ver <- ThreeOpsVer
  Apis = {"kl1"}
  SaveOutcomes = {"ok", "write_failed"}
  SealMayFail = FALSE
  LookupMayFail = FALSE
INVARIANTS
  CommittedWasActivated
