SPECIFICATION Spec
CONSTANTS
  r1 = r1  r2 = r2  r3 = r3  r4 = r4
  f1 = f1  f2 = f2  bad = bad  x = x  y = y  k1 = k1
  NoRequest = NoRequest  NoFile = NoFile  NoMapping = NoMapping  NoKey = NoKey
  Text <- MCText
  Blank = ""
  Tenths <- MCTenths
  Variant <- MCVariant
  MAX_ROWS = 3
  Request = {r1, r2, r3, r4}
  File = {f1, f2, bad}
  Table <- MCTable
  Mapping <- MCMapping
  ShopCurrency = "GBP"
  Key = {k1}
CHECK_DEADLOCK FALSE
SYMMETRY UploadSymmetry
INVARIANTS AppliedWasShown MatchedHasRows KeyAppliesOnce OneCostPerVariant
