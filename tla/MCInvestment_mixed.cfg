SPECIFICATION Spec
CONSTANTS
  i1 = i1  i2 = i2  v1 = v1  v2 = v2  k1 = k1  k2 = k2
  NoInvestment = NoInvestment
  Investments = {i1, i2}
  Investors = {v1}
  Keys = {k1, k2}
  AdminJobs = {}
  Owner <- OneOwner
  Amount <- UnitEach
  Units <- UnitEach
  Key <- TwoKeys
  Modes = {"OFF_CHAIN", "ON_CHAIN"}
  SharePrice = 1
  TotalShares = 2
  Funds <- OnePoor
  PartnerHasWallet = TRUE
  Scale = 2
  FundedMax = 3
  Confirmations = 2
  JobAttempts = 1
  VerifyAttempts = 2
  StallLimit = 1
  WorkerSlots = 2
  TxLimit = 2
  FaultLimit = 1
INVARIANTS TypeInv OneOutcome ConfirmationIsBacked TotalsAgree
PROPERTIES ConfirmedIsFinal
CHECK_DEADLOCK FALSE
