SPECIFICATION Spec
CONSTANTS
  r1 = r1
  r2 = r2
  a1 = a1
  a2 = a2
  u1 = u1
  u2 = u2
  e1 = e1
  e2 = e2
  NoAccount = NoAccount
  NoEmail = NoEmail
  Slot = {r1, r2}
  Account = {a1, a2}
  Subject = {u1, u2}
  Email = {e1, e2}
CHECK_DEADLOCK FALSE
INVARIANTS ClosedIsNotServed
