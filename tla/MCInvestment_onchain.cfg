SPECIFICATION Spec
CONSTANTS
  i1 = i1  i2 = i2  v1 = v1  v2 = v2  k1 = k1  k2 = k2
  NoInvestment = NoInvestment
  Investments = {i1, i2}
  Investors = {v1}
  Keys = {k1, k2}
  AdminJobs = {}
  Owner <- OneOwner
  Amount <- UnitAndTwo
  Units <- UnitAndTwo
  Key <- TwoKeys
  Modes = {"ON_CHAIN"}
  SharePrice = 1
  TotalShares = 3
  Funds <- OneRich
  PartnerHasWallet = TRUE
  Scale = 1
  FundedMax = 9
  Confirmations = 1
  JobAttempts = 2
  VerifyAttempts = 2
  StallLimit = 1
  WorkerSlots = 2
  TxLimit = 2
  FaultLimit = 1
INVARIANTS ConfirmationIsBacked
CHECK_DEADLOCK FALSE
