------------------------------- MODULE Drift -------------------------------
(***************************************************************************)
(* `tastekit drift`: detect reads all traces, counts signals, and writes a *)
(* proposal for each that occurs three times; apply adds the principle of  *)
(* a proposal to the constitution.                                         *)
(***************************************************************************)
EXTENDS Layout, FiniteSetsExt

CONSTANTS
  Reasons,  \* why a user rejects what an agent wants to do
  RunNames  \* of traces, as a sequence in the order of the directory

VARIABLES
  proposals, \* files of .tastekit/proposals, in the order of their making
  report     \* what the last detect said: None, or [signals, recorded]

driftVars == <<proposals, report>>

-----------------------------------------------------------------------------
(* Events: [event, ...]; a rejection has a reason, an error tells whether  *)
(* it names principles, a file is written by an agent, or by a user soon   *)
(* or late after, and a tool is called for a skill.                        *)

(* The events of all files, one file after the other, by name.             *)
AllEvents(traces) ==
  LET upTo[k \in 0 .. Len(RunNames)] ==
        IF k = 0 THEN <<>>
        ELSE IF RunNames[k] \in DOMAIN traces THEN upTo[k - 1] \o traces[RunNames[k]]
        ELSE upTo[k - 1]
  IN  upTo[Len(RunNames)]

\* Mutant: both directories are read.
ReadTracesBoth ==
  AllEvents(Listing("traces"))
    \o IF dirs[1]["traces"] = None THEN <<>> ELSE AllEvents(dirs[1]["traces"])

(* driftDetectCommand and readTrace.                                       *)
ReadTraces == AllEvents(Listing("traces"))

-----------------------------------------------------------------------------
(* Signals: [type, about, frequency].                                      *)

Signal(type, about, frequency) ==
  [type |-> type, about |-> about, frequency |-> frequency]

Rejections(events, reason) ==
  Cardinality({k \in DOMAIN events : /\ events[k].event = "rejected"
                                     /\ events[k].reason = reason})

RepeatedEdits(events) ==
  {Signal("repeated_edit", reason, Rejections(events, reason)) : reason \in Reasons}

PrincipleViolations(events) ==
  { Signal("principle_violation", "",
           Cardinality({k \in DOMAIN events : events[k].event = "error"})) }

(* A user who writes within five minutes of the agent, as the next event;  *)
(* the last event of one file and the first of the next are neighbours.    *)
UserCorrections(events) ==
  { Signal("user_correction", "",
      Cardinality({k \in 2 .. Len(events) :
                     /\ events[k - 1].event = "agent_wrote"
                     /\ events[k].event = "user_wrote" /\ events[k].soon})) }

ToolChanges(events) ==
  LET calls == {events[k] : k \in {j \in DOMAIN events : events[j].event = "tool"}}
  IN { Signal("tool_change", skill,
              Cardinality({c.tool : c \in {d \in calls : d.skill = skill}})) :
         skill \in {c.skill : c \in calls} }

AssertionMismatches(events) ==
  { Signal("assertion_mismatch", "",
           Cardinality({k \in DOMAIN events : /\ events[k].event = "error"
                                              /\ events[k].principled})) }

(* The command names neither a constitution nor known skills and tools, so *)
(* staleness and coverage gaps are never looked for.                       *)
Signals(events) ==
  { s \in RepeatedEdits(events) \cup PrincipleViolations(events)
            \cup UserCorrections(events) \cup ToolChanges(events)
            \cup AssertionMismatches(events) : s.frequency >= 3 }

Risk(frequency) ==
  CASE frequency > 10 -> "high" [] frequency > 5 -> "medium" [] OTHER -> "low"

(* createProposalFromSignal: what apply knows of it.                       *)
Proposal(s) ==
  [ signal |-> s, risk |-> Risk(s.frequency), applied |-> FALSE,
    constitution |-> s.type \in {"repeated_edit", "user_correction",
                                 "assertion_mismatch"},
    principle |-> s.type \in {"repeated_edit", "user_correction"} ]

-----------------------------------------------------------------------------
(* Commands.                                                               *)

(* Proposals are new each time; a line that is no JSON stops the command.  *)
Detect ==
  /\ \/ dirs[1]["traces"] # None \/ dirs[2]["traces"] # None
  /\ TornLine \notin ToSet(ReadTraces)
  /\ LET found == Signals(ReadTraces) IN
     /\ LET order == SetToSeq(found) IN
          proposals' = proposals \o [k \in DOMAIN order |-> Proposal(order[k])]
     /\ report' = [signals |-> found, recorded |-> entries["traces"],
                   whole |-> ~half /\ astray = {}]
  /\ UNCHANGED layoutVars

(* apply edits the constitution of the flat layout if there is one, and    *)
(* marks the proposal in any case, as often as it is asked to.             *)
Apply(k) ==
  /\ mig.pc = "idle"
  /\ k \in DOMAIN proposals
  /\ proposals' = [proposals EXCEPT ![k].applied = TRUE]
  /\ LET old == files[1]["constitution"] IN
     IF old # None /\ proposals[k].constitution /\ proposals[k].principle
       THEN Write(1, "constitution",
                  [old EXCEPT !.principles =
                     Append(old.principles, proposals[k].signal.type)])
       ELSE UNCHANGED <<files, latest>>
  /\ UNCHANGED <<dirs, mig, half, runs, entries, astray, report>>

DriftInit == proposals = <<>> /\ report = None

-----------------------------------------------------------------------------
(* Properties.                                                             *)

(* detect counts an event once, whichever directories a migration has left *)
(* it in: never more often than it was recorded, and exactly as often      *)
(* unless a migration is unfinished or a trace is astray.  So a proposal   *)
(* is made of what the user has rejected three times, and of nothing else  *)
(* (detectFromTraces, resolveTracesPath).                                  *)
EventsCountOnce ==
  report # None =>
    LET recorded == AllEvents(report.recorded)
    IN /\ \A s \in report.signals :
            s.type = "repeated_edit" => s.frequency <= Rejections(recorded, s.about)
       /\ report.whole => report.signals = Signals(recorded)
=============================================================================
