SPECIFICATION Spec
CONSTANTS
  r1 = r1
  r2 = r2
  starter = starter
  growth = growth
  k1 = k1
  c1 = c1
  c2 = c2
  s1 = s1
  s2 = s2
  NoKey = NoKey
  NoCust = NoCust
  NoSub = NoSub
  Cust = {c1}
  Sub = {s1}
  Start = {r1}
  Plan = {starter}
  Key = {NoKey}
  StripeStatus = {"trialing", "active", "past_due", "canceled"}
  SearchLags = FALSE
  MaxEvents = 3
CHECK_DEADLOCK FALSE
INVARIANTS MirrorWhenQuiet
