\* One vault, no batches, told to start from block 1.
CONSTANTS
  Vault = {v1}
  NoBatch = NoBatch
  Batch = NoBatch
  NoStart = NoStart
  StartBlock = 1
  NoBlock = NoBlock
  LogEvery = 2
  MaxFailures = 2
  MaxBlock = 4
  MaxCrashes = 1
SPECIFICATION FairSpec
PROPERTY AuctionsAreWatched
