----------------------------- MODULE QuickClaw -----------------------------
(***************************************************************************)
(* QuickClaw: create and verify, and the scripts that run in a workspace   *)
(* that create has made, the heartbeat and the ralph loop.  A behaviour    *)
(* looks at one of the three: they share nothing but the script files.     *)
(***************************************************************************)
EXTENDS Provision, CodingOps

VARIABLE part  \* "host", "session" or "checklist"

vars == <<part, provisionVars, codingVars>>

Init ==
  /\ part \in {"host", "session", "checklist"}
  /\ ProvisionInit /\ CodingInit
  /\ part # "host" => /\ env = CHOOSE e \in Environments : TRUE
                      /\ bins = Binaries
  /\ part # "session" => out = CHOOSE o \in Outputs : TRUE

HostNext ==
  /\ part = "host" /\ ProvisionNext
  /\ UNCHANGED <<part, codingVars>>

SessionNext ==
  /\ part = "session"
  /\ \/ Minute \/ Prints \/ Dies
     \/ \E b \in Beats : Heartbeat(b) \/ Abort(b) \/ LoseFile(b)
  /\ UNCHANGED <<part, provisionVars>>

ChecklistNext ==
  /\ part = "checklist" /\ RalphRun
  /\ UNCHANGED <<part, provisionVars>>

Next == HostNext \/ SessionNext \/ ChecklistNext

(* openclaw's cron runs the heartbeat every quarter of an hour, so that     *)
(* minutes pass between two of its runs, and a script that runs goes on.   *)
Fairness ==
  /\ SF_codingVars(part = "session" /\ Minute)
  /\ \A b \in Beats : WF_codingVars(part = "session" /\ Heartbeat(b))

Spec == Init /\ [][Next]_vars /\ Fairness

-----------------------------------------------------------------------------
(* Properties.                                                             *)

(* The heartbeat starts no more sessions than its budget.  Each heartbeat  *)
(* that is killed, before it could write down a restart, and each that     *)
(* begins while another one runs, so that the counts overwrite each other, *)
(* may add one; each write that leaves the file empty adds the whole       *)
(* budget, since it is read as no restarts at all (tmux-heartbeat.sh, "max *)
(* N restarts" of the cron jobs).                                          *)
RestartBudget == restarts <= MaxRestarts * (1 + losses) + aborts + overlaps

(* A live session is taken for stalled only if its pane has not changed    *)
(* for the whole window, whatever it showed before; not right after a      *)
(* restart either, though the new session may show what the old one did.   *)
(* Three things the script does not notice: a pane that has changed and    *)
(* come back to the same output between two looks; a restart that a killed *)
(* heartbeat did not write down; and what another heartbeat does meanwhile *)
(* (LAST_HASH and LAST_STALE_SINCE in tmux-heartbeat.sh).                  *)
StallIsReal ==
  [][ \A b \in Beats :
        beat[b].pc = "read" /\ beat'[b].pc = "stalled"
          => quiet >= Window \/ back \/ aborts > 0 \/ overlaps > 0 ]_codingVars

(* A session that hangs or is gone for good is restarted, again and again, *)
(* until the budget is used up, whatever heartbeats were killed or ran     *)
(* across each other and whatever files were lost before (the heartbeat as *)
(* a whole).                                                               *)
StalledIsRestarted ==
  part = "session" /\ <>[][FALSE]_<<out, restarts>>
    => <>[](state.restarts >= MaxRestarts)
=============================================================================
