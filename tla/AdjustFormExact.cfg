SPECIFICATION FormSpec
CONSTANTS
  r1 = r1  r2 = r2  s1 = s1  k1 = k1  k2 = k2
  Request = {r1, r2}
  NoRequest = NoRequest
  Key = {k1, k2}
  NoKey = NoKey
  Sku = {s1}
  Quantity <- MCQuantity
  FormSku = s1
  FormQuantity <- MCFormQuantity
  MaxStock = 2
  Retain = 2
  MaxAge = 1
  MaxTime = 3
INVARIANTS AnsweredFormIsExact
CHECK_DEADLOCK FALSE
