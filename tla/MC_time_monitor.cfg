SPECIFICATION FairSpec
CONSTANTS
  Threads = {loop, ipc}
  Loop = loop
  Ipc = ipc
  None = none
  MaxTime = 3
  SeqMod = 3
  Kinds = {"good", "unsynchronized", "unreachable"}
  Identities = {1}
  Offsets = {0}
  Ages = {0}
  Uncertainties = {0}
  Validities = {1, 2}
  DriftStep = 2
  MaxFreshness = 2
  MaxUncertainty = 2
  RollbackTolerance = 1
  LeaseMax = 2
  RefreshInterval = 2
  ReconnectInterval = 1
INVARIANTS
  LeaseWithinValidity
  CacheIsPublished
  MonitorInv
PROPERTIES
  LossIsPublished
CHECK_DEADLOCK FALSE
