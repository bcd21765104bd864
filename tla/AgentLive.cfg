SPECIFICATION FairSpec
CONSTANTS
  MaxTask = 2
  MaxAttempt = 2
  MaxHook = 1
  MaxCrash = 1
  Triggers = {"manual", "webhook", "cron"}
  Limit = 2
  Costs = {1, 2}
  Statuses = {"active", "paused", "archived"}
  Habits = {"runs_together"}
INVARIANTS OverspendByOneRun
PROPERTIES StoppedWithinLimit RunResolves
CHECK_DEADLOCK FALSE
