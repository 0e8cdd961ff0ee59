\* One vault with a healthy and a low ratio; three transactions.
CONSTANTS
  Vault = {v1}
  Id = {t1, t2, t3}
  NoTx = NoTx
  Ratio = {100, 120}
  MinRatio = 110
  Target = 90
  Initial = 50
  Duration = 2
  MaxExtra = 1
  MaxFaults = 1
SYMMETRY IdSymmetry
SPECIFICATION Spec
INVARIANTS TypeOK NoFlood PendingIsOwn
