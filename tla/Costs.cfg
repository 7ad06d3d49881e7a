SPECIFICATION FairSpec
CONSTANTS
  w1 = w1
  w2 = w2
  w3 = w3
  a = a
  b = b
  NoWriter = NoWriter
  Writer = {w1, w2, w3}
  Sku = {a, b}
  Order <- MCOrder
  MaxDate = 1
CHECK_DEADLOCK FALSE
INVARIANTS OneCurrentCost
PROPERTIES KeepsCostBook EveryWriteEnds
