SPECIFICATION Spec
CONSTANTS
  r1 = r1  r2 = r2  r3 = r3  k1 = k1  v1 = v1  f1 = f1  f2 = f2
  NoRequest = NoRequest  NoKey = NoKey  NoValue = NoValue
  Request = {r1, r2, r3}
  Key = {k1}
  MaxRow = 1
  Kind = {"amount", "duplicate"}
  Resolution = {"accepted_tiktok", "corrected_seller"}
  Value = {v1}
  Form = {f1}
  MaxEpoch = 2
CHECK_DEADLOCK FALSE
SYMMETRY RequestSymmetry
INVARIANTS ReadyHasObject StaleIsRecovered
PROPERTIES DecisionsStand KeysKeepPromise
