SPECIFICATION FairSpec
CONSTANTS
  r1 = r1
  r2 = r2
  starter = starter
  growth = growth
  k1 = k1
  c1 = c1
  c2 = c2
  s1 = s1
  s2 = s2
  NoKey = NoKey
  NoCust = NoCust
  NoSub = NoSub
  Cust = {c1, c2}
  Sub = {s1, s2}
  Start = {r1, r2}
  Plan = {starter, growth}
  Key = {k1}
  StripeStatus = {"trialing", "active", "past_due", "paused", "unlisted"}
  SearchLags = TRUE
  MaxEvents = 3
CHECK_DEADLOCK FALSE
INVARIANTS StatusWasReal RowBeforeSubscription OneSubPerKey
PROPERTIES OnlyStripeUnconfirms IncompleteHeals
