\* Every save succeeds, commands are used while the gateway is down, and the
\* gateway is killed and started at any time: nothing a command adds is lost, the
\* file is what the gateway works with, due jobs run and reminders trigger.
CONSTANTS
  at1 = at1
  at2 = at2
  every1 = every1
  cron1 = cron1
  l1 = l1
  l2 = l2
  OneShotJobs = {at1}
  EveryJobs = {every1}
  CronJobs = {cron1}
  EveryMS <- AllEvery
  CronTimes <- AllCron
  HandWritten = {cron1}
  Delays <- TwoDelays
  Loops = {l1}
  SaveMayFail = FALSE
  TornWrites = FALSE
  MaxTime = 3
  Absent = Absent
  NoJob = NoJob
  NoLoop = NoLoop
SPECIFICATION LiveSpec
INVARIANTS AddedJobsAreKept DiskIsCurrent
PROPERTIES DueJobsRun RemindersTrigger
