------------------------------ MODULE CronCli ------------------------------
(***************************************************************************)
(* The gateway's scheduler beside the commands "cron add", "cron remove",  *)
(* "cron enable" and "cron disable" (AutoClaw/cmd/autoclaw/main.go).  A    *)
(* command is a process of its own: it makes a CronService on the same     *)
(* jobs.json, which loads the file, changes its copy and saves the copy.   *)
(* No lock and no reload relates it to the service in the gateway.         *)
(***************************************************************************)
EXTENDS CronService

VARIABLES
  cli,       (* the copy of the jobs a running command has loaded, or NoJob *)
  promised   (* history: jobs a command reported as added, not removed since *)

cliVars == <<cli, promised>>
allVars == <<vars, cliVars>>

CliIdle == cli = NoJob

\* NewCronService in a command.  An unreadable file is taken for an empty one.
CliLoad ==
  /\ CliIdle
  /\ cli' = LoadedStore
  /\ UNCHANGED <<vars, promised>>

\* The command saves its copy and exits.
CliSave(s) ==
  /\ ~CliIdle
  /\ SaveOk(s)
  /\ cli' = NoJob
  /\ UNCHANGED <<now, service, loop, store, pending, starts, at>>

\* cronAddCmd offers --every and --cron only.
CliAdd(j) ==
  /\ j \in (EveryJobs \cup CronJobs) \ created
  /\ CliSave([cli EXCEPT ![j] = NewJob(j, Nil)])
  /\ created' = created \cup {j}
  /\ promised' = promised \cup {j}

CliRemove(j) ==
  /\ ~CliIdle
  /\ cli[j] # Absent
  /\ CliSave([cli EXCEPT ![j] = Absent])
  /\ promised' = promised \ {j}
  /\ UNCHANGED created

CliEnable(j, enabled) ==
  /\ ~CliIdle
  /\ cli[j] # Absent
  /\ CliSave([cli EXCEPT ![j].enabled = enabled,
                         ![j].next = IF enabled THEN NextRun(j) ELSE Nil])
  /\ UNCHANGED <<created, promised>>

\* The command finds no such job, only lists the jobs, or is interrupted.
CliExit ==
  /\ ~CliIdle
  /\ cli' = NoJob
  /\ UNCHANGED <<vars, promised>>

CliStep ==
  \/ CliLoad
  \/ CliExit
  \/ \E j \in JobIds :
       CliAdd(j) \/ CliRemove(j) \/ \E enabled \in BOOLEAN : CliEnable(j, enabled)

\* The agent may remove what a command has added.
NoCommand ==
  /\ promised' = {j \in promised : ~(up /\ store[j] # Absent /\ up' /\ store'[j] = Absent)}
  /\ UNCHANGED cli

\* A step of the gateway, which calls Start once and Stop only when it exits.
GatewayStep == (Operate \/ EnableAgain \/ Crash) /\ NoCommand

CliInit == Init /\ cli = NoJob /\ promised = {}

\* Commands are used at any time.
SharedSpec == CliInit /\ [][GatewayStep \/ CliStep]_allVars

\* Commands are used, one at a time, only while no gateway runs.
OfflineSpec ==
  CliInit /\ [][\/ GatewayStep /\ (up' => up \/ CliIdle)
                \/ CliStep /\ ~up]_allVars

(***************************************************************************)
(* Fairness.  The clock advances, the ticker of a loop fires every second, *)
(* a mutex that is always released is eventually granted, and a handler    *)
(* returns (agent turns are bounded by the provider's timeouts and by      *)
(* max_tool_iterations, commands by the timeout of the exec tool).  Nobody *)
(* has to call the tool, to use a command, or to start the gateway again.  *)
(***************************************************************************)
Fairness == WF_vars(Tick) /\ \A l \in Loops : WF_vars(LoopStep(l))

\* The same use over time, while nobody enables what is enabled already.
LiveSpec ==
  CliInit /\ [][\/ (Operate \/ Crash) /\ NoCommand /\ (up' => up \/ CliIdle)
                \/ CliStep /\ ~up]_allVars /\ Fairness

-----------------------------------------------------------------------------

\* A job that "cron add" reported as added stays in jobs.json until somebody
\* removes it ("Added job", cronAddCmd; "Add a scheduled job", README).
AddedJobsAreKept == \A j \in promised : ~torn /\ disk[j] # Absent
=============================================================================
