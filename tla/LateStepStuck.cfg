SPECIFICATION FairSpec
CONSTANTS
  MaxTask = 1
  MaxAttempt = 2
  MaxHook = 0
  MaxCrash = 1
  Triggers = {"manual"}
  Limit <- MCUnlimited
  Costs = {0}
  Statuses = {}
  Habits = {"reruns"}
PROPERTIES RunResolves
CHECK_DEADLOCK FALSE
