---------------------------- MODULE CronPromise ----------------------------
(***************************************************************************)
(* What the scheduler of AutoClaw promises about the runs of its jobs,     *)
(* whatever the agent, the clock, the disk and crashes do: a job is run by *)
(* one goroutine at a time, a one-shot job is started at most once, and a  *)
(* job that has been removed for good is never started.                    *)
(***************************************************************************)
EXTENDS FiniteSets

CONSTANTS JobIds, OneShotJobs

VARIABLES
  executing,  (* the jobs whose handler is running        *)
  ran,        (* the one-shot jobs that have been started *)
  gone        (* the jobs that were created and removed   *)

promise == <<executing, ran, gone>>

Init == executing = {} /\ ran = {} /\ gone = {}

\* The jobs that are gone stay gone; others may join them at any time.
Forget == gone \subseteq gone' /\ gone' \subseteq JobIds

Begin(j) ==
  /\ j \notin executing
  /\ j \notin ran
  /\ j \notin gone
  /\ executing' = executing \cup {j}
  /\ ran' = ran \cup ({j} \cap OneShotJobs)
  /\ Forget

End(j) ==
  /\ j \in executing
  /\ executing' = executing \ {j}
  /\ UNCHANGED ran
  /\ Forget

\* The process dies with everything it was running.
Die == executing' = {} /\ UNCHANGED ran /\ Forget

Lose == UNCHANGED <<executing, ran>> /\ Forget

Next == \/ Die
        \/ Lose
        \/ \E j \in JobIds : Begin(j) \/ End(j)

Spec == Init /\ [][Next]_promise
=============================================================================
