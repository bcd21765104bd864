SPECIFICATION Spec
CONSTANTS
  a1 = a1   a2 = a2   b1 = b1   b2 = b2   m1 = m1   m2 = m2   t1 = t1   t2 = t2
  NoAgent = NoAgent   NoBot = NoBot   NoMessage = NoMessage
  Agent = {a1, a2}
  Bot = {b1, b2}
  Message = {m1}
  Task = {t1, t2}
  Keyed = {"byok"}
  MaxEdit = 3
  MaxCrash = 1
  Faults = {"telegram", "database", "answer"}
SYMMETRY MCSymmetry
INVARIANTS WebhookMatches MessageOnce KeyedHasKey
PROPERTIES TasksWhileOn
CHECK_DEADLOCK FALSE
