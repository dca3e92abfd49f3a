SPECIFICATION Spec
CONSTANTS
  Gids = {g1, g2, g3}
  None = none
  MaxVersion = 2
  FsyncFaults = 1
  Damage = 0
  Fragile = {}
SYMMETRY GidSymmetry
INVARIANTS
  RefusedLeavesCurrent
