SPECIFICATION SeedSpec
CONSTANTS
  Levels = {0, 1, 2, 4, 255}
  SEED_TTL = 2
  MAX_FAILED_ATTEMPTS = 2
  LOCKOUT_DURATION = 2
  MaxTime = 5
  MaxSeeds = 7
INVARIANTS
  WrongKeysBounded
  OneJudgementPerSeed
  SeedInv
CHECK_DEADLOCK FALSE
