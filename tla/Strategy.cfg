\* Two pools of which the second needs a new Ladle and Join.
CONSTANTS
  l1 = l1
  l2 = l2
  p1 = p1
  p2 = p2
  dai = dai
  join1 = join1
  join2 = join2
  Pool = {p1, p2}
  NoPool = NoPool
  Ladle = {l1, l2}
  BaseId = {dai}
  KnownPools <- MCKnownPools
  KnownIds <- MCKnownIds
  JoinOf <- MCJoinOf
  FYJoin <- MCFYJoin
  MaxLP = 4
  MaxBase = 3
  MaxSupply = 5
SPECIFICATION Spec
INVARIANTS TypeOK CachedIsThere SharesMatchHoldings
PROPERTY ShareValueNeverFalls
