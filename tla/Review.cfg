SPECIFICATION Spec
CONSTANTS
  i1 = i1   i2 = i2   i3 = i3   r1 = r1   r2 = r2
  Nothing = Nothing
  Item = {i1, i2, i3}
  Request = {r1, r2}
  MaxCrash = 2
  Habits = {"decides_twice"}
INVARIANTS ApprovedIsWritten
PROPERTIES DecisionStands
CHECK_DEADLOCK FALSE
