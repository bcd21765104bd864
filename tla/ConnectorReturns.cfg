SPECIFICATION Spec
CONSTANTS
  k1 = k1   k2 = k2   h1 = h1   h2 = h2   c1 = c1   c2 = c2   r1 = r1   r2 = r2
  NoHost = NoHost
  Connector = {k1}
  Host = {h1, h2}
  Context = {c1, c2}
  Request = {r1}
  MaxVersion = 3
  MaxCrash = 0
  Faults = {}
  Habits = {"returns"}
SYMMETRY MCSymmetry
INVARIANTS MastersAgree
CHECK_DEADLOCK FALSE
