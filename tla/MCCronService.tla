--------------------------- MODULE MCCronService ---------------------------
(* Small instances of CronService for TLC.                                 *)
EXTENDS CronService

CONSTANTS at1, at2, every1, cron1, l1, l2

AllEvery  == [j \in EveryJobs |-> 1]
AllCron   == [j \in CronJobs |-> {1, 3}]
OneDelay  == {1}
TwoDelays == {0, 1}
=============================================================================
