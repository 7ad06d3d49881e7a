SPECIFICATION Spec
CONSTANTS
  r1 = r1  r2 = r2  r3 = r3  s1 = s1  s2 = s2  k1 = k1  k2 = k2
  Request = {r1, r2, r3}
  NoRequest = NoRequest
  Key = {k1}
  NoKey = NoKey
  Sku = {s1}
  Quantity <- MCQuantity
  MaxStock = 1
  Retain = 2
  MaxAge = 1
  MaxTime = 3
SYMMETRY RequestSymmetry
INVARIANTS TypeOK OncePerKey DeltaIsLedgerSum CreatedIsTrue SomeoneProceeds
PROPERTIES NeverBelowZero KeepsOncePromise
CHECK_DEADLOCK FALSE
