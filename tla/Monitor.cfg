SPECIFICATION Spec
CONSTANTS
  None = None
  Runs = {"r1", "r2"}
  Types = {"error", "approval_requested", "approval_response", "junk"}
  Retention = 2
  Staleness = 0
  Budgets <- MCBudgets
  ViewerCap = 2
  AlertCap = 1
CHECK_DEADLOCK FALSE
INVARIANTS EachLineOnce StatusFollowsTrace CardFollowsStream
PROPERTIES LinesAreStored
