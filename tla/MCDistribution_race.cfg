SPECIFICATION Spec
CONSTANTS
  h1 = h1
  h2 = h2
  h3 = h3
  b1 = b1
  b2 = b2
  x1 = x1
  a1 = a1
  a2 = a2
  Holders = {h2}
  Linked = {h2}
  Batches = {b1, b2}
  Incomes = {x1}
  Amounts = {100}
  Admins = {a1, a2}
  PartnerFunds = 310
  NotaryFails = TRUE
  Units <- MCUnits
  InitialMode <- MCModes
  NetAmount <- MCNetAmount
INVARIANTS TypeInv IncomeMakesOneBatch PaidOncePerApproval PaymentsAreReal
SYMMETRY MCSymmetry
CHECK_DEADLOCK FALSE
