SPECIFICATION Spec
CONSTANTS
  i1 = i1  i2 = i2  v1 = v1  v2 = v2  k1 = k1  k2 = k2
  NoInvestment = NoInvestment
  Investments = {i1, i2}
  Investors = {v1, v2}
  Keys = {k1, k2}
  AdminJobs = {"a1"}
  Owner <- TwoOwners
  Amount <- UnitEach
  Units <- UnitEach
  Key <- TwoKeys
  Modes = {"OFF_CHAIN"}
  SharePrice = 1
  TotalShares = 3
  Funds <- Rich
  PartnerHasWallet = TRUE
  Scale = 2
  FundedMax = 3
  Confirmations = 1
  JobAttempts = 2
  VerifyAttempts = 2
  StallLimit = 1
  WorkerSlots = 2
  TxLimit = 2
  FaultLimit = 1
INVARIANTS MoneyMatchesConfirmations TotalsAgree
CHECK_DEADLOCK FALSE
