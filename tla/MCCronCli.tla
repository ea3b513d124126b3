----------------------------- MODULE MCCronCli -----------------------------
(* Small instances of CronCli for TLC.                                     *)
EXTENDS CronCli

CONSTANTS at1, at2, every1, cron1, l1, l2

AllEvery  == [j \in EveryJobs |-> 1]
AllCron   == [j \in CronJobs |-> {1, 3}]
OneDelay  == {1}
TwoDelays == {0, 1}
=============================================================================
