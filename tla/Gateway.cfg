\* A user with two messages, a cron job, two subagents, and room for every
\* message that can be under way while the loop waits for the mutex.
CONSTANTS
  u1 = u1
  loop = loop
  cron = cron
  t1 = t1
  t2 = t2
  Users = {u1}
  Loop = loop
  Timers = {cron}
  Tasks = {t1, t2}
  InCap = 3
  OutCap = 1
  MaxMessages = 2
  MaxRounds = 1
  MaxUses = 1
  Nobody = Nobody
SPECIFICATION LiveSpec
INVARIANTS UsersAreServedInOrder SubagentsReportOnce
PROPERTIES MessagesAreServed SpawnedTasksReport
CHECK_DEADLOCK FALSE
