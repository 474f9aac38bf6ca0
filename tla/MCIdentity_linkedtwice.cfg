SPECIFICATION Spec
CONSTANTS
  a = a
  b = b
  x = x
  y = y
  w1 = w1
  w2 = w2
  n = n
  m = m
  o = o
  Clerks = {a, b}
  Operators = {a, b}
  Indexer = indexer
  Wallets = {w0, w1, w2, n, m, o}
  Home = w0
  Named = {n, m, o}
  Address <- MCAddressTaken
  Taken = {m}
  Tokens = {x, y}
  Holding <- MCHolding
  Recoveries = {r1, r2}
  MaxLag = 2
INVARIANTS WalletHasOneAccount
CHECK_DEADLOCK FALSE
