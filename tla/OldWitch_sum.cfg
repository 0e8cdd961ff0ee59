\* What the comment of `sum` says, on two vaults of one ilk, one owner, prices and parameters that move.
CONSTANTS
  eth = eth
  User = {alice}
  Witch = Witch
  NoOne = NoOne
  Vault = {v1, v2}
  Ilk = {eth}
  IlkOf <- MCIlkOf
  Base = dai
  Ladles = {l1}
  HasJoin <- MCHasJoin
  WAD = 2
  IlkParams <- MCIlkParams
  Spots = {1, 3}
  Accruals = {2, 3}
  Deltas <- MCDeltas
  MinInk = {0}
  MaxInk = 3
  MaxArt = 3
  MaxTime = 3
SPECIFICATION Spec
SYMMETRY Symmetry
INVARIANT SumIsAuctionedCollateral
