\* One vault whose ratio is low or does not fit an u16.
CONSTANTS
  Vault = {v1}
  Id = {t1, t2}
  NoTx = NoTx
  Ratio = {100, 70000}
  MinRatio = 110
  Target = 90
  Initial = 50
  Duration = 2
  MaxExtra = 0
  MaxFaults = 1
SPECIFICATION Spec
PROPERTY BidsAreForGoodTerms
