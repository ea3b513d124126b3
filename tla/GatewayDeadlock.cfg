\* One user and room for a single inbound message: enough to fill the inbound
\* channel while a subagent that holds the mutex wants to report.
CONSTANTS
  u1 = u1
  loop = loop
  cron = cron
  t1 = t1
  t2 = t2
  Users = {u1}
  Loop = loop
  Timers = {}
  Tasks = {t1, t2}
  InCap = 1
  OutCap = 1
  MaxMessages = 2
  MaxRounds = 0
  MaxUses = 0
  Nobody = Nobody
SPECIFICATION LiveSpec
PROPERTIES SpawnedTasksReport
CHECK_DEADLOCK FALSE
