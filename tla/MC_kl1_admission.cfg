SPECIFICATION Spec
CONSTANTS
  Rids = {r1}
  d1 = d1
  d2 = d2
  Digests <- MCDigests
  NoDigest = none
  Expiries = {1, 2}
  MaxTime = 3
  MaxBoots = 3
  MaxMessages = 2
  Uncertainties = {0, 1, 2}
  MaxUncertainty = 1
  RollbackTolerance = 1
SYMMETRY Symmetry
INVARIANTS
  AbsenceIsFinal
  AdmittedWithinLease
  OneOperationPerRequest
  AdmissionInv
CHECK_DEADLOCK FALSE
