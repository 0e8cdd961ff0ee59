CONSTANTS
  oldSeries = oldSeries
  newSeries = newSeries
  Series = {oldSeries, newSeries}
  NoSeries = NoSeries
  Funds <- MCFunds
  LoanFee = 1
  Shares = {1, 2}
  MaxLoan = 2
  MaxLoss = 1
  MaxDebt = 2
  MaxDonated = 1
  MaxThinAir = 2
SPECIFICATION Spec
INVARIANTS BooksBalance FundedRollGoesThrough
