SPECIFICATION Spec
CONSTANTS
  p1 = p1
  p2 = p2
  p3 = p3
  Users = {old, rich, new}
  Opened = {old, rich}
  Opening = 20
  Withdrawals = {w, x}
  Amounts = {10}
  TopUps <- McTopUps
  Minimum = 10
  Calls = {p1}
  Pool = 2
INVARIANTS NeverNegative
CHECK_DEADLOCK FALSE
