\* Batches of two blocks, no start block, two vaults.
CONSTANTS
  Vault = {v1, v2}
  NoBatch = NoBatch
  Batch = 2
  NoStart = NoStart
  StartBlock = NoStart
  NoBlock = NoBlock
  LogEvery = 2
  MaxFailures = 2
  MaxBlock = 4
  MaxCrashes = 1
SYMMETRY Symmetry
SPECIFICATION Spec
INVARIANTS TypeOK NothingSkipped FileIsComplete
