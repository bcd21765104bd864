SPECIFICATION Spec
CONSTANTS
  ann = ann   ben = ben   e1 = e1   e2 = e2   e3 = e3
  k1 = k1   k2 = k2   k3 = k3   r1 = r1   r2 = r2
  free = free   pro = pro   Nothing = Nothing
  User = {ann}
  Plan = {free, pro}
  Env = {e1, e2, e3}
  Container = {k1, k2, k3}
  Request = {r1, r2}
  MaxEnvironments <- MCMaxEnvironments
  MaxContainers <- MCMaxContainers
  MaxCrash = 1
  Faults = {"reset"}
  Habits = {}
SYMMETRY MCSymmetry
INVARIANTS EnvInv EnvironmentLimit ContainerLimit TerminatedIsEmpty DeletedNotRunning
PROPERTIES TerminatedStays
CHECK_DEADLOCK FALSE
