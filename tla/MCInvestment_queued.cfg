SPECIFICATION FairSpec
CONSTANTS
  i1 = i1  i2 = i2  v1 = v1  v2 = v2  k1 = k1  k2 = k2
  NoInvestment = NoInvestment
  Investments = {i1}
  Investors = {v1}
  Keys = {k1}
  AdminJobs = {}
  Owner <- OwnerOne
  Amount <- UnitOne
  Units <- UnitOne
  Key <- KeyOne
  Modes = {"OFF_CHAIN"}
  SharePrice = 1
  TotalShares = 3
  Funds <- OneRich
  PartnerHasWallet = TRUE
  Scale = 1
  FundedMax = 9
  Confirmations = 1
  JobAttempts = 3
  VerifyAttempts = 2
  StallLimit = 1
  WorkerSlots = 2
  TxLimit = 2
  FaultLimit = 0
PROPERTY QueuedIsProcessed
CHECK_DEADLOCK FALSE
