SPECIFICATION FairSpec
CONSTANTS
  i1 = i1  i2 = i2  v1 = v1  v2 = v2  k1 = k1  k2 = k2
  NoInvestment = NoInvestment
  Investments = {i1}
  Investors = {v1}
  Keys = {k1}
  AdminJobs = {"a1"}
  Owner <- OwnerOne
  Amount <- UnitOne
  Units <- UnitOne
  Key <- KeyOne
  Modes = {"OFF_CHAIN", "ON_CHAIN"}
  SharePrice = 1
  TotalShares = 3
  Funds <- OnePoor
  PartnerHasWallet = TRUE
  Scale = 2
  FundedMax = 2
  Confirmations = 1
  JobAttempts = 2
  VerifyAttempts = 2
  StallLimit = 1
  WorkerSlots = 2
  TxLimit = 3
  FaultLimit = 0
PROPERTIES ReleasedIsSettled VerdictIsCarriedOut
CHECK_DEADLOCK FALSE
