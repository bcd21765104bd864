SPECIFICATION Spec
CONSTANTS
  i1 = i1   i2 = i2   i3 = i3   r1 = r1   r2 = r2
  Nothing = Nothing
  Item = {i1}
  Request = {r1, r2}
  MaxCrash = 0
  Habits = {"decides_twice"}
PROPERTIES DecisionFinal
CHECK_DEADLOCK FALSE
