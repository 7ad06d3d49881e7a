SPECIFICATION Spec
CONSTANTS
  r1 = r1  r2 = r2  r3 = r3  old = old  new = new
  Runner = {r1, r2, r3}
  NoRunner = NoRunner
  Files = 3
  Content = {old, new}
  Absent = Absent
  MaxEdits = 1
CHECK_DEADLOCK FALSE
SYMMETRY RunnerSymmetry
INVARIANTS LedgerIsTrue AppliedInOrder DoneIsComplete
