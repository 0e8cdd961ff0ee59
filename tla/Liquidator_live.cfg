\* One vault whose ratio stays too high to bid for it early.
CONSTANTS
  Vault = {v1}
  Id = {t1, t2}
  NoTx = NoTx
  Ratio = {120}
  MinRatio = 110
  Target = 90
  Initial = 50
  Duration = 1
  MaxExtra = 1
  MaxFaults = 1
SPECIFICATION FairSpec
PROPERTIES UnsafeIsAuctioned BidIsMade
