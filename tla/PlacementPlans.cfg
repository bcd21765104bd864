SPECIFICATION Spec
CONSTANTS
  alice = alice   bob = bob
  c1 = c1   c2 = c2   c3 = c3   c4 = c4
  ram = ram   cpu = cpu
  starter = starter   pro = pro   team = team
  Nobody = Nobody
  Workspace = {alice, bob}
  Context = {c1, c2}
  Resource = {ram, cpu}
  Plan = {starter, pro, team}
  Hosting <- MCHosting
  MaxContexts <- MCMaxContexts
  HostBudget <- MCHostBudget
  CapChoices <- MCEditedCaps
  PlanChoices <- MCFree
  MaxHost = 2
  Request = {"r1"}
  Rebuilder = {}
  Sweeper = {"loop"}
  Patient = {"loop"}
  MaxCrash = 0
  Habits = {"deletes_unplaced"}
SYMMETRY Contexts
INVARIANTS WithinBudget DedicatedIsolation
CHECK_DEADLOCK FALSE
