\* The gateway: a one-shot job and a job with a cron expression; saves fail,
\* crashes tear jobs.json, and the gateway is started again.
CONSTANTS
  at1 = at1
  at2 = at2
  every1 = every1
  cron1 = cron1
  l1 = l1
  l2 = l2
  OneShotJobs = {at1}
  EveryJobs = {}
  CronJobs = {cron1}
  EveryMS <- AllEvery
  CronTimes <- AllCron
  HandWritten = {}
  Delays <- OneDelay
  Loops = {l1}
  SaveMayFail = TRUE
  TornWrites = TRUE
  MaxTime = 2
  Absent = Absent
  NoJob = NoJob
  NoLoop = NoLoop
SPECIFICATION Spec
INVARIANTS OneShotAtMostOnce EnabledJobsAreScheduled
PROPERTIES RemovedStaysRemoved KeepsPromise
