SPECIFICATION Spec
CONSTANTS
  b1 = b1   b2 = b2   r1 = r1   r2 = r2   q1 = q1
  Editor = {r1}
  Rebuilder = {b1}
  Caller = {q1}
  MaxChange = 1
  MaxCrash = 0
  Faults = {}
  Habits = {"edits_early"}
INVARIANTS NewestAccepted
CHECK_DEADLOCK FALSE
