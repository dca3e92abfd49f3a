SPECIFICATION CompositeSpec
CONSTANTS
  Threads = {t1, t2}
  MaxTime = 3
  Kinds = {"good", "unsynchronized"}
  Identities = {1}
  Offsets = {0, 1, 2}
  Ages = {0}
  Uncertainties = {0}
  Validities = {2}
  DriftStep = 2
  MaxFreshness = 2
  MaxUncertainty = 2
  RollbackTolerance = 1
  LeaseMax = 1
SYMMETRY ThreadSymmetry
INVARIANTS
  NoRollbackAfterReturn
  CompositeInv
CHECK_DEADLOCK FALSE
