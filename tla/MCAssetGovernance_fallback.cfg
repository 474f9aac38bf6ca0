SPECIFICATION FairSpec
CONSTANTS
  r1 = r1
  r2 = r2
  r3 = r3
  Assets = {1, 2}
  Listed = {1}
  Offers <- MCOffers
  Prices = {2000}
  Statuses = {"REJECTED"}
  Pods = {1, 2}
  Proposals = 1
  Calls = {r1, r2}
  MaxCrashes = 0
PROPERTIES FallbackTakesNoPod
CHECK_DEADLOCK FALSE
