SPECIFICATION FairSpec
CONSTANTS
  h1 = h1
  h2 = h2
  h3 = h3
  b1 = b1
  b2 = b2
  x1 = x1
  a1 = a1
  a2 = a2
  Holders = {h1, h2}
  Linked = {h1, h2}
  Batches = {b1}
  Incomes = {x1}
  Amounts = {100}
  Admins = {a1}
  PartnerFunds = 250
  NotaryFails = TRUE
  Units <- MCUnits
  InitialMode <- MCModes
  NetAmount <- MCNetAmount
CHECK_DEADLOCK FALSE
PROPERTIES ReadyIsRecorded
