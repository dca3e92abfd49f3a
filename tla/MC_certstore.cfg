SPECIFICATION Spec
CONSTANTS
  Gids = {g1, g2, g3}
  None = none
  MaxVersion = 3
  FsyncFaults = 1
  Damage = 2
  Fragile = {"chain", "cert", "manifest"}
SYMMETRY GidSymmetry
INVARIANTS
  CommitSurvivesPowerLoss
  NoErrorWithoutDamage
  StoreInv
PROPERTIES
  ImplementsCell
