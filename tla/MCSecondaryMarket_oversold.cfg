SPECIFICATION Spec
CONSTANTS
  s = s
  a = a
  b = b
  l1 = l1
  l2 = l2
  t1 = t1
  t2 = t2
  d1 = d1
  d2 = d2
  Investors = {s, a}
  Listings = {l1, l2}
  Trades = {t1, t2}
  Disputes = {}
  Price = 1
  Seller <- MCSeller
  Size <- MCSize
  Funds <- MCFunds
  Owned <- MCOwned1
INVARIANT ListedIsOwned
CHECK_DEADLOCK FALSE
