SPECIFICATION Spec
CONSTANTS
  MaxTask = 1
  MaxAttempt = 3
  MaxHook = 1
  MaxCrash = 2
  Triggers = {"manual", "webhook", "once"}
  Limit <- MCUnlimited
  Costs = {0}
  Statuses = {"active", "paused"}
  Habits = {"reruns", "reruns_early"}
INVARIANTS TypeOK LogOfLastRun OnceRunsOnce
PROPERTIES CancelledNotStarted ResultKeepsCancel
CHECK_DEADLOCK FALSE
