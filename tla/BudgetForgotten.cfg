SPECIFICATION Spec
CONSTANTS
  MaxTask = 2
  MaxAttempt = 2
  MaxHook = 0
  MaxCrash = 0
  Triggers = {"manual"}
  Limit = 2
  Costs = {0, 1, 2}
  Statuses = {}
  Habits = {}
PROPERTIES SpendRemembered
CHECK_DEADLOCK FALSE
