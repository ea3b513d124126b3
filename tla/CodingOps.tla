---------------------------- MODULE CodingOps ----------------------------
(***************************************************************************)
(* QuickClaw, the scripts that create leaves in ops/scripts, once they     *)
(* run: the heartbeat that watches a coding session in tmux and restarts   *)
(* it, and the ralph loop that lets the coding agent work on a checklist.  *)
(* Times are ages in minutes, capped at the window.                        *)
(***************************************************************************)
EXTENDS Integers, FiniteSets

CONSTANTS
  Window,       \* codingOps.stalledCheckWindowMinutes
  MaxRestarts,  \* codingOps.maxRestartsPerSession
  Outputs,      \* what the session's pane may show
  Beats,        \* the heartbeats that may run at the same time
  MaxFaults,    \* bound: heartbeats killed, writes that fail, heartbeats that overlap
  Items         \* items of the checklist

ASSUME CodingAssumption ==
  /\ {Window, MaxRestarts} \subseteq Nat \ {0}
  /\ {MaxFaults, Items} \subseteq Nat
  /\ IsFiniteSet(Beats)

VARIABLES
  session,    \* the tmux session: "dead" or "live"
  out,        \* the hash of its pane
  quiet,      \* history: minutes since the pane changed
  back,       \* history: since the clock was started the pane has changed
              \* and come back to what it showed
  state,      \* STATE_FILE: [hash, since, restarts]; since is an age, or None
  beat,       \* [Beats -> [pc, hash, since, restarts]]: running heartbeats
  restarts,   \* history: sessions started by the heartbeat
  aborts,     \* history: heartbeats killed
  losses,     \* history: writes that have left the state file empty
  overlaps,   \* history: heartbeats that began while another one ran
  prd,        \* unchecked items of the checklist
  ralph       \* the ralph loop: "idle" or "complete"

paneVars   == <<session, out, quiet>>
faultVars  == <<aborts, losses, overlaps>>
codingVars == <<paneVars, back, state, beat, restarts, faultVars, prd, ralph>>

NotStale == -1
Dead == "dead"
Idle == [pc |-> "idle", hash |-> Dead, since |-> NotStale, restarts |-> 0]

\* What the script reads from an empty file, and from the one that it touches.
Empty == [hash |-> "", since |-> NotStale, restarts |-> 0]

CodingInit ==
  /\ session = "live" /\ out \in Outputs /\ quiet = 0 /\ back = FALSE
  /\ state = Empty
  /\ beat = [b \in Beats |-> Idle]
  /\ restarts = 0 /\ aborts = 0 /\ losses = 0 /\ overlaps = 0
  /\ prd = Items /\ ralph = "idle"

-----------------------------------------------------------------------------
(* The session and the clock.  A heartbeat takes less than a minute.       *)

Older(age) == IF age = NotStale \/ age >= Window THEN age ELSE age + 1

Minute ==
  /\ \A b \in Beats : beat[b].pc = "idle"
  /\ quiet' = Older(quiet)
  /\ state' = [state EXCEPT !.since = Older(@)]
  /\ UNCHANGED <<session, out, back, beat, restarts, faultVars, prd, ralph>>

(* A pane may show again what it showed before.                            *)
Prints ==
  /\ session = "live"
  /\ out' \in Outputs \ {out}
  /\ quiet' = 0
  /\ back' = (back \/ out' \in {state.hash} \cup {beat[b].hash : b \in Beats})
  /\ UNCHANGED <<session, state, beat, restarts, faultVars, prd, ralph>>

Dies ==
  /\ session = "live" /\ session' = "dead"
  /\ UNCHANGED <<out, quiet, back, state, beat, restarts, faultVars, prd, ralph>>

-----------------------------------------------------------------------------
(* tmux-heartbeat.sh.  It reads the state file, asks for the session and   *)
(* takes its pane.                                                         *)

Running(b) == beat[b].pc # "idle"

Overlapping(b) == \E c \in Beats \ {b} : Running(c)

Read(b) ==
  /\ beat[b].pc = "idle"
  /\ Overlapping(b) => aborts + losses + overlaps < MaxFaults
  /\ overlaps' = IF Overlapping(b) THEN overlaps + 1 ELSE overlaps
  /\ beat' = [beat EXCEPT ![b] = [pc |-> "read", hash |-> state.hash,
                                  since |-> state.since, restarts |-> state.restarts]]
  /\ UNCHANGED <<paneVars, back, state, restarts, aborts, losses, prd, ralph>>

Same(b) == out = beat[b].hash

Stalled(b) == Same(b) /\ beat[b].since >= Window

(* Output that is the same starts the clock, or lets it run; output that   *)
(* is new stops it.                                                        *)
\* Mutant: new output does not stop the clock.
StaleSinceKept(b) == IF beat[b].since = NotStale THEN 0 ELSE beat[b].since

\* Mutant: the clock is started by every look.
StaleSinceNow(b) == IF Same(b) THEN 0 ELSE NotStale

StaleSince(b) ==
  IF ~Same(b) THEN NotStale
  ELSE IF beat[b].since = NotStale THEN 0 ELSE beat[b].since

\* What it has found, and the hash and the instant that it is going to write.
Found(b) ==
  IF session = "dead" THEN [pc |-> "dead", hash |-> Dead, since |-> 0]
  ELSE IF Stalled(b) THEN [pc |-> "stalled", hash |-> out, since |-> 0]
  ELSE [pc |-> "live", hash |-> out, since |-> StaleSince(b)]

Look(b) ==
  /\ beat[b].pc = "read"
  /\ beat' = [beat EXCEPT ![b] = [pc |-> Found(b).pc, hash |-> Found(b).hash,
                                  since |-> Found(b).since, restarts |-> @.restarts]]
  /\ back' = (back /\ Same(b) /\ beat[b].since # NotStale)
  /\ UNCHANGED <<paneVars, state, restarts, faultVars, prd, ralph>>

Record(b) ==
  /\ beat[b].pc = "live"
  /\ state' = [hash |-> beat[b].hash, since |-> beat[b].since,
               restarts |-> beat[b].restarts]
  /\ beat' = [beat EXCEPT ![b] = Idle]
  /\ UNCHANGED <<paneVars, back, restarts, faultVars, prd, ralph>>

\* Mutant: one restart too many.
ExhaustedLate(b) == beat[b].restarts > MaxRestarts

Exhausted(b) == beat[b].restarts >= MaxRestarts

GiveUp(b) ==
  /\ beat[b].pc \in {"dead", "stalled"} /\ Exhausted(b)
  /\ beat' = [beat EXCEPT ![b] = Idle]
  /\ UNCHANGED <<paneVars, back, state, restarts, faultVars, prd, ralph>>

(* kill-session, new: what the new session shows may be what the old one   *)
(* showed.  When the session is there after all, new fails and the script  *)
(* ends (set -e).                                                          *)
Restart(b) ==
  /\ beat[b].pc \in {"dead", "stalled"} /\ ~Exhausted(b)
  /\ IF beat[b].pc = "dead" /\ session = "live"
     THEN /\ beat' = [beat EXCEPT ![b] = Idle]
          /\ UNCHANGED <<paneVars, restarts>>
     ELSE /\ session' = "live" /\ out' \in Outputs /\ quiet' = 0
          /\ restarts' = restarts + 1
          /\ beat' = [beat EXCEPT ![b].pc = "started"]
  /\ UNCHANGED <<back, state, faultVars, prd, ralph>>

RecordRestart(b) ==
  /\ beat[b].pc = "started"
  /\ state' = [hash |-> beat[b].hash, since |-> beat[b].since,
               restarts |-> beat[b].restarts + 1]
  /\ beat' = [beat EXCEPT ![b] = Idle]
  /\ UNCHANGED <<paneVars, back, restarts, faultVars, prd, ralph>>

(* The script is killed before it has written its file.                    *)
Abort(b) ==
  /\ Running(b) /\ aborts + losses + overlaps < MaxFaults
  /\ aborts' = aborts + 1
  /\ beat' = [beat EXCEPT ![b] = Idle]
  /\ UNCHANGED <<paneVars, back, state, restarts, losses, overlaps, prd, ralph>>

(* Opening the file to write empties it; the script is killed before it    *)
(* writes, or the disk is full.                                            *)
LoseFile(b) ==
  /\ beat[b].pc \in {"live", "started"} /\ aborts + losses + overlaps < MaxFaults
  /\ losses' = losses + 1
  /\ state' = Empty
  /\ beat' = [beat EXCEPT ![b] = Idle]
  /\ UNCHANGED <<paneVars, back, restarts, aborts, overlaps, prd, ralph>>

Heartbeat(b) ==
  Read(b) \/ Look(b) \/ Record(b) \/ GiveUp(b) \/ Restart(b) \/ RecordRestart(b)

-----------------------------------------------------------------------------
(* ralph-loop.sh and verify-prd-checklist.sh.  The loop's pattern loses    *)
(* its backslashes in the template that writes the script: "^- [ ]" is a   *)
(* hyphen and two spaces, which no item of a checklist begins with.  The   *)
(* other script's pattern keeps them.                                      *)

RalphFindsUnchecked  == FALSE
VerifyFindsUnchecked == prd > 0

(* The agent works, whatever it reaches; the loop ends when no unchecked   *)
(* item is found: after the first run.                                     *)
RalphRun ==
  /\ ralph = "idle"
  /\ prd' \in 0 .. prd
  /\ ralph' = IF RalphFindsUnchecked THEN "idle" ELSE "complete"
  /\ UNCHANGED <<paneVars, back, state, beat, restarts, faultVars>>
=============================================================================
