----------------------------- MODULE Ingestion -----------------------------
(***************************************************************************)
(* autoManage, the service: it follows the trace files that an agent's     *)
(* runs append to, keeps the events and the agent's derived status in a    *)
(* database file, and publishes both on the stream event bus.              *)
(*                                                                         *)
(* A line of a trace file is two pieces of text, of which a reader may     *)
(* find the first one only: <<e, 1>> is the beginning of the line of event *)
(* e, <<e, 2>> its end with the newline.  Two pieces that do not belong    *)
(* together are a line that does not parse.                                *)
(***************************************************************************)
EXTENDS Integers, Sequences, FiniteSets, SequencesExt

CONSTANTS
  Runs,          \* the runs of the agent: one trace file each
  Types,         \* the kinds of line written; "junk" is one that is not valid
  Retention,     \* retentionPerAgent
  Staleness,     \* stalenessMs
  Budgets,       \* bounds: what may happen in a behaviour, one member of this
  None

ASSUME MonitorAssumption ==
  /\ Types \subseteq {"plan", "tool_call", "error", "approval_requested",
                      "approval_response", "session_end", "junk"}
  /\ Retention \in Nat \ {0}
  /\ Staleness \in Nat
  /\ None \notin Nat
  /\ \A b \in Budgets :
       /\ b.failures \subseteq {1, 2}    \* which writes of the database may fail
       /\ b.events \in Nat              \* lines written
       /\ b.instants \in Nat            \* steps of the clock
       /\ b.lives \in Nat               \* starts of the service
       /\ b.rotations \in Nat           \* files replaced
       /\ b.pages \in Nat               \* loads of the page

VARIABLES
  budget,     \* the bounds of this behaviour
  trace,      \* every event written so far, in order; an event is its index
  now,        \* the clock
  lines,      \* [Runs -> Seq(event)]: what each file holds
  half,       \* [Runs -> BOOLEAN]: the last line has its first piece only
  replaced,   \* number of files replaced
  life,       \* number of starts of the service
  phase,      \* "down", "serving" (the web server only) or "watching"
  dirty,      \* [Runs -> BOOLEAN]: chokidar has a change to report
  offset,     \* TraceTailer.offsets, in pieces
  remainder,  \* TraceTailer.remainders
  rows,       \* recent_events, oldest first
  fresh,      \* the number of events stored in this life
  agent,      \* the row of agents, or None
  disk,       \* the database file, or None when it is torn
  spoiled,    \* files replaced, or with a failed write, in this life
  listening,  \* the dashboard's stream is subscribed to the bus
  bus         \* what the stream has still to deliver

fileVars    == <<budget, trace, now, lines, half, replaced>>
tailVars    == <<dirty, offset, remainder>>
serviceVars == <<life, phase, tailVars, rows, fresh, agent, disk, spoiled, bus>>
vars        == <<fileVars, serviceVars, listening>>

(* The entries of s that are in S, in the order of s.                      *)
Only(s, S) ==
  LET upTo[n \in 0 .. Len(s)] ==
        IF n = 0 THEN <<>>
        ELSE IF s[n] \in S THEN Append(upTo[n - 1], s[n])
        ELSE upTo[n - 1]
  IN  upTo[Len(s)]

Pieces(f) ==
  [i \in 1 .. 2 * Len(lines[f]) - (IF half[f] THEN 1 ELSE 0) |->
    <<lines[f][(i + 1) \div 2], 2 - (i % 2)>>]

-----------------------------------------------------------------------------
(* The agent's runs.                                                       *)

\* Lines of one instant have the same time stamp.
Append1(f, t) ==
  /\ ~half[f] /\ Len(trace) < budget.events
  /\ trace' = Append(trace, [run |-> f, type |-> t, at |-> now])
  /\ lines' = [lines EXCEPT ![f] = Append(@, Len(trace'))]
  /\ half' = [half EXCEPT ![f] = TRUE]
  /\ dirty' = [dirty EXCEPT ![f] = TRUE]
  /\ UNCHANGED <<budget, now, replaced, life, phase, offset, remainder, rows, fresh,
                 agent, disk, spoiled, listening, bus>>

FinishLine(f) ==
  /\ half[f]
  /\ half' = [half EXCEPT ![f] = FALSE]
  /\ dirty' = [dirty EXCEPT ![f] = TRUE]
  /\ UNCHANGED <<budget, trace, now, lines, replaced, life, phase, offset, remainder,
                 rows, fresh, agent, disk, spoiled, listening, bus>>

Rotate(f) ==
  /\ lines[f] # <<>> /\ ~half[f] /\ replaced < budget.rotations
  /\ replaced' = replaced + 1
  /\ lines' = [lines EXCEPT ![f] = <<>>]
  /\ dirty' = [dirty EXCEPT ![f] = TRUE]
  /\ spoiled' = spoiled \cup {f}
  /\ UNCHANGED <<budget, trace, now, half, life, phase, offset, remainder, rows, fresh,
                 agent, disk, listening, bus>>

Tick ==
  /\ now < budget.instants
  /\ now' = now + 1
  /\ UNCHANGED <<budget, trace, lines, half, replaced, serviceVars, listening>>

-----------------------------------------------------------------------------
(* TraceTailer.readAppendedLines: the complete lines since the last read,  *)
(* from the start when the file has become shorter.                        *)

Rotated(f) == Len(Pieces(f)) < offset[f]

\* Mutant: the beginning of a line that an earlier read found is not kept.
MergedForgets(f) ==
  IF Rotated(f) THEN Pieces(f)
  ELSE SubSeq(Pieces(f), offset[f] + 1, Len(Pieces(f)))

Merged(f) ==
  IF Rotated(f) THEN Pieces(f)
  ELSE remainder[f] \o SubSeq(Pieces(f), offset[f] + 1, Len(Pieces(f)))

\* The pieces that end a line.
Ends(merged) ==
  Only([i \in 1 .. Len(merged) |-> i], {i \in 1 .. Len(merged) : merged[i][2] = 2})

\* The piece where line n starts.
Start(ends, n) == IF n = 1 THEN 1 ELSE ends[n - 1] + 1

ReadAppended(f) ==
  LET merged == Merged(f)
      ends   == Ends(merged)
  IN  [lines     |-> [n \in 1 .. Len(ends) |-> SubSeq(merged, Start(ends, n), ends[n])],
       remainder |-> SubSeq(merged, Start(ends, Len(ends) + 1), Len(merged)),
       offset    |-> Len(Pieces(f))]

(* parseTraceLines: the events of the lines that are valid.                *)
Valid(l) ==
  /\ Len(l) = 2
  /\ l = << <<l[1][1], 1>>, <<l[1][1], 2>> >>
  /\ trace[l[1][1]].type # "junk"

\* Mutant: a line that does not parse ends the batch.
ParseTraceLinesUntilJunk(ls) ==
  LET Good(n) == \A i \in 1 .. n : Valid(ls[i])
  IN  [i \in {n \in DOMAIN ls : Good(n)} |-> ls[i][1][1]]

EventOf(l) == IF Valid(l) THEN l[1][1] ELSE None

ParseTraceLines(ls) == Only([n \in 1 .. Len(ls) |-> EventOf(ls[n])], 1 .. Len(trace))

(* deriveStatus.  Responses are counted, not matched with their requests.  *)
Pending(evs) ==
  LET Of(t) == Cardinality({i \in 1 .. Len(evs) : trace[evs[i]].type = t})
      open  == Of("approval_requested") - Of("approval_response")
  IN  IF open > 0 THEN open ELSE 0

\* Mutant: the events are not sorted.
LastArrived(evs) == Last(evs)

\* The sort is stable: of the events with the latest time stamp the last to arrive.
LastEvent(evs) ==
  evs[CHOOSE i \in 1 .. Len(evs) : \A j \in 1 .. Len(evs) :
        \/ trace[evs[j]].at < trace[evs[i]].at
        \/ trace[evs[j]].at = trace[evs[i]].at /\ j <= i]

DeriveStatus(evs) ==
  LET last   == trace[LastEvent(evs)]
      status == IF last.type = "error" THEN "error"
                ELSE IF Pending(evs) > 0 THEN "blocked"
                ELSE IF last.type = "session_end" THEN "completed"
                ELSE IF now - last.at > Staleness THEN "idle" ELSE "running"
  IN  [status |-> status, pending |-> Pending(evs), last |-> LastEvent(evs)]

(* appendEvents: the newest Retention rows stay.                           *)
Prune(rs) ==
  IF Len(rs) <= Retention THEN rs
  ELSE SubSeq(rs, Len(rs) - Retention + 1, Len(rs))

(* What one ingestLines puts on the bus.                                   *)
\* Mutant: only an agent in trouble is announced.
AnnouncementsOfTrouble(evs, snapshot) ==
  IF snapshot.status \in {"blocked", "error"}
  THEN << [type |-> "agent_updated", of |-> snapshot],
          [type |-> "alert", of |-> snapshot.status] >>
  ELSE <<>>

Announcements(evs, snapshot) ==
  << [type |-> "agent_updated", of |-> snapshot] >>
    \o [i \in 1 .. Len(evs) |-> [type |-> "new_event", of |-> evs[i]]]
    \o IF snapshot.status \in {"blocked", "error"}
       THEN << [type |-> "alert", of |-> snapshot.status] >> ELSE <<>>

-----------------------------------------------------------------------------
(* TraceWatcher.handleFile: read, then IngestionService.ingestLines on the *)
(* lines in one go.  The agent is saved before the events, each time by    *)
(* writing the whole file in place; a write that fails ends the call, and  *)
(* nobody hears of it: the lines have been read.  It may leave the file as *)
(* it was, empty, which opens as a new database, or torn.                  *)

NewDatabase == [rows |-> <<>>, agent |-> None]

LeftByAWrite(file) == {file, NewDatabase, None}

Batch(f) == ParseTraceLines(ReadAppended(f).lines)

Notified(f) ==
  /\ phase = "watching" /\ dirty[f]
  /\ dirty' = [dirty EXCEPT ![f] = FALSE]

HandleFile(f) ==
  /\ Notified(f)
  /\ offset' = [offset EXCEPT ![f] = ReadAppended(f).offset]
  /\ remainder' = [remainder EXCEPT ![f] = ReadAppended(f).remainder]
  /\ UNCHANGED <<fileVars, life, phase, listening>>

NothingNew(f) ==
  /\ HandleFile(f)
  /\ Batch(f) = <<>>
  /\ UNCHANGED <<rows, fresh, agent, disk, spoiled, bus>>

UpsertAgent(f) ==
  /\ Batch(f) # <<>>
  /\ agent' = DeriveStatus(rows \o Batch(f))

AppendEvents(f) ==
  /\ rows' = Prune(rows \o Batch(f))
  /\ fresh' = fresh + Len(Batch(f))

Ingest(f) ==
  /\ HandleFile(f)
  /\ UpsertAgent(f) /\ AppendEvents(f)
  /\ disk' = [rows |-> rows', agent |-> agent']
  /\ bus' = IF listening THEN bus \o Announcements(Batch(f), agent') ELSE bus
  /\ UNCHANGED spoiled

AgentSaveFails(f) ==
  /\ 1 \in budget.failures
  /\ HandleFile(f)
  /\ UpsertAgent(f)
  /\ disk' \in LeftByAWrite(disk)
  /\ spoiled' = spoiled \cup {f}
  /\ UNCHANGED <<rows, fresh, bus>>

EventSaveFails(f) ==
  /\ 2 \in budget.failures
  /\ HandleFile(f)
  /\ UpsertAgent(f) /\ AppendEvents(f)
  /\ disk' \in LeftByAWrite([rows |-> rows, agent |-> agent'])
  /\ spoiled' = spoiled \cup {f}
  /\ UNCHANGED bus

-----------------------------------------------------------------------------
(* The server's process ends, at any time, within the two writes and       *)
(* between them too.  The next process serves the pages and the stream at  *)
(* once; the service is made by the first request for agents or events: it *)
(* opens the database file and watches, and chokidar reports every file it *)
(* finds as added.  A torn file does not open, then nor later: the promise *)
(* of the service is kept, and rejects every request.                      *)

Die ==
  /\ phase' = "down"
  /\ listening' = FALSE
  /\ bus' = <<>>
  /\ UNCHANGED <<fileVars, life, tailVars, rows, fresh, agent, spoiled>>

Crash == phase = "watching" /\ life < budget.lives /\ Die /\ UNCHANGED disk

CrashWhileSaving(f) ==
  /\ phase = "watching" /\ life < budget.lives /\ dirty[f] /\ Batch(f) # <<>>
  /\ Die
  /\ disk' \in LeftByAWrite([rows |-> rows, agent |-> DeriveStatus(rows \o Batch(f))])

StartServer ==
  /\ phase = "down"
  /\ phase' = "serving"
  /\ UNCHANGED <<fileVars, life, tailVars, rows, fresh, agent, disk, spoiled,
                 listening, bus>>

GetIngestionService ==
  /\ phase = "serving" /\ disk # None
  /\ phase' = "watching"
  /\ life' = life + 1
  /\ rows' = disk.rows
  /\ fresh' = 0
  /\ agent' = disk.agent
  /\ offset' = [f \in Runs |-> 0]
  /\ remainder' = [f \in Runs |-> <<>>]
  /\ dirty' = [f \in Runs |-> lines[f] # <<>>]
  /\ spoiled' = {}
  /\ UNCHANGED <<fileVars, disk, listening, bus>>

IngestionInit ==
  /\ budget \in Budgets
  /\ trace = <<>> /\ now = 0 /\ replaced = 0
  /\ lines = [f \in Runs |-> <<>>]
  /\ half = [f \in Runs |-> FALSE]
  /\ life = 0 /\ phase = "down"
  /\ dirty = [f \in Runs |-> FALSE]
  /\ offset = [f \in Runs |-> 0]
  /\ remainder = [f \in Runs |-> <<>>]
  /\ rows = <<>> /\ fresh = 0 /\ agent = None
  /\ disk = NewDatabase
  /\ spoiled = {} /\ listening = FALSE /\ bus = <<>>

AgentNext ==
  \/ \E f \in Runs, t \in Types : Append1(f, t)
  \/ \E f \in Runs : FinishLine(f) \/ Rotate(f)
  \/ Tick

WatcherNext ==
  \E f \in Runs : \/ NothingNew(f) \/ Ingest(f)
                  \/ AgentSaveFails(f) \/ EventSaveFails(f)

CrashNext == Crash \/ (\E f \in Runs : CrashWhileSaving(f))

-----------------------------------------------------------------------------
(* Properties.                                                             *)

(* The valid lines of a file, as far as the service has read it.           *)
WellFormed == {e \in 1 .. Len(trace) : trace[e].type # "junk"}

Taken(f) == Only(SubSeq(lines[f], 1, offset[f] \div 2), WellFormed)

(* The rows that this life has added and that pruning has left.            *)
Added == SubSeq(rows, IF fresh < Len(rows) THEN Len(rows) - fresh + 1 ELSE 1,
                Len(rows))

Mine(f) == Only(Added, {e \in 1 .. Len(trace) : trace[e].run = f})

(* In one life of the service each line of a trace file becomes one row,   *)
(* in the order of the file, however its pieces arrive and whatever junk   *)
(* stands between; pruning takes rows from the front only; and a file that *)
(* is replaced may lose lines but never yields one twice or one that was   *)
(* not written (TraceTailer's offsets and remainders, appendEvents).       *)
EachLineOnce ==
  phase = "watching" =>
    /\ IsInjective(Added)
    /\ \A f \in Runs \ spoiled :
         /\ IsSuffix(Mine(f), Taken(f))
         /\ fresh <= Retention => Mine(f) = Taken(f)

(* The agent's row says what the trace files say, in whatever order they   *)
(* were read: in the first life, as long as nothing was pruned, replaced   *)
(* or lost, it counts the requests and the responses of all the lines read *)
(* (a response to one request makes up for another), its last event is one *)
(* of the latest, no later line of the same file being as late, and its    *)
(* error or blocked state follows from these.  A second life reads every   *)
(* line again and counts it twice (deriveStatus over the stored and the    *)
(* new events).                                                            *)
StatusFollowsTrace ==
  phase = "watching" /\ life = 1 /\ fresh <= Retention /\ spoiled = {}
    /\ agent # None =>
    LET Read  == UNION {ToSet(Taken(f)) : f \in Runs}
        Of(t) == Cardinality({e \in Read : trace[e].type = t})
        open  == Of("approval_requested") - Of("approval_response")
        last  == trace[agent.last]
    IN  /\ agent.last \in Read
        /\ \A d \in Read : /\ trace[d].at <= last.at
                           /\ trace[d].at = last.at /\ trace[d].run = last.run
                                => d <= agent.last
        /\ agent.pending = (IF open > 0 THEN open ELSE 0)
        /\ (agent.status = "error") <=> (last.type = "error")
        /\ agent.status = "blocked"
              <=> agent.pending > 0 /\ last.type # "error"

(* As long as the service watches, it catches up again and again: every    *)
(* complete, valid line of a file that stays is stored or was pruned; none *)
(* waits for the next line to arrive (remainders, and chokidar's change    *)
(* after the rest of a line).                                              *)
CaughtUp(f) ==
  \A e \in ToSet(lines[f]) :
    \/ trace[e].type = "junk"
    \/ half[f] /\ Last(lines[f]) = e
    \/ e \in ToSet(rows)
    \/ Len(rows) = Retention

LinesAreStored ==
  []<>(phase = "watching" => \A f \in Runs \ spoiled : CaughtUp(f))
=============================================================================
