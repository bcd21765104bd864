SPECIFICATION Spec
CONSTANTS
  b1 = b1   b2 = b2   r1 = r1   r2 = r2   q1 = q1
  Editor = {r1, r2}
  Rebuilder = {b1, b2}
  Caller = {q1}
  MaxChange = 2
  MaxCrash = 1
  Faults = {"lost"}
  Habits = {"overlaps"}
SYMMETRY MCSymmetry
INVARIANTS NewestAccepted RegistryAgrees DeletedIsGone
CHECK_DEADLOCK FALSE
PROPERTIES KeyDecides
