SPECIFICATION FairSpec
CONSTANTS
  alice = alice   bob = bob
  c1 = c1   c2 = c2   c3 = c3   c4 = c4
  ram = ram   cpu = cpu
  starter = starter   pro = pro   team = team
  Nobody = Nobody
  Workspace = {alice}
  Context = {c1, c2}
  Resource = {ram, cpu}
  Plan = {starter, pro, team}
  Hosting <- MCHosting
  MaxContexts <- MCMaxContexts
  HostBudget <- MCHostBudget
  CapChoices <- MCCaps
  PlanChoices <- MCMixed
  MaxHost = 2
  Request = {"r1"}
  Rebuilder = {"b1"}
  Sweeper = {"loop"}
  Patient = {"loop"}
  MaxCrash = 1
  Habits = {}
PROPERTIES ProvisioningResolves IdleHostReclaimed
CHECK_DEADLOCK FALSE
