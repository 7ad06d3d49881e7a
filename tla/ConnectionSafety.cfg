SPECIFICATION ConnectionSpec
CONSTANTS
  a1 = a1
  a2 = a2
  s1 = s1
  s2 = s2
  q1 = q1
  q2 = q2
  c1 = c1
  c2 = c2
  c3 = c3
  NoAccount = NoAccount
  NoShop = NoShop
  Account = {a1, a2}
  State = {q1, q2}
  StateTTL = 1
  Grace = 2
CHECK_DEADLOCK FALSE
CONSTANTS
  Shop = {s1}
  Callback = {c1, c2, c3}
  MaxTime = 4
SYMMETRY ConnectionSymmetry
INVARIANTS StateSpentOnce ShopHasTokens DisconnectedIsRevoked
PROPERTIES ShopStaysWithItsSeller SpendableSurvives
