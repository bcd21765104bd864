SPECIFICATION FairSpec
CONSTANTS
  MaxTask = 2
  MaxAttempt = 2
  MaxHook = 0
  MaxCrash = 0
  Triggers = {"manual"}
  Limit <- MCUnlimited
  Costs = {0}
  Statuses = {}
  Habits = {"cancels_queued"}
PROPERTIES RunResolves
CHECK_DEADLOCK FALSE
