SPECIFICATION FairSpec
CONSTANTS
  c1 = c1
  c2 = c2
  Clients = {c1, c2}
  PeerOf <- MCPeerOf
  Asks <- MCAsks
  Slots <- MCSlots
  MaxInits = 2
  Levels = {1, 2}
  SEED_TTL = 1
  MAX_FAILED_ATTEMPTS = 1
  LOCKOUT_DURATION = 1
  MaxTime = 0
  MaxSeeds = 1
INVARIANTS
  NoFalseRefusal
  NoUseAfterRelease
  IpcInv
PROPERTIES
  CallsReturn
  ShutdownCompletes
CHECK_DEADLOCK FALSE
