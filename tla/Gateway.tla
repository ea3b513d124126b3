------------------------------ MODULE Gateway ------------------------------
(***************************************************************************)
(* The gateway of AutoClaw as a network of goroutines: channel adapters,   *)
(* the agent loop, the timers (cron service, heartbeat), the subagents and *)
(* the dispatcher of the channel manager, joined by the two channels of    *)
(* the message bus and by the mutex of the subagent manager.               *)
(*                                                                         *)
(* The bus is never closed and nobody takes its write lock while the       *)
(* gateway runs, so each of its channels is a bounded FIFO queue (see      *)
(* MessageBus).  A subagent reports through the bus while it holds the     *)
(* mutex of the manager; the agent needs that mutex to spawn or to consult *)
(* subagents, and the agent loop is the only consumer of the bus.          *)
(***************************************************************************)
EXTENDS Naturals, Sequences, SequencesExt

CONSTANTS
  Users,        (* goroutines of the channel adapters                        *)
  Loop,         (* the goroutine of AgentLoop.Run                            *)
  Timers,       (* goroutines of the cron service and of the heartbeat       *)
  Tasks,        (* ids of the subagent tasks                                 *)
  InCap,        (* capacity of the inbound channel, 100 in the code          *)
  OutCap,       (* capacity of the outbound channel, 100 in the code         *)
  MaxMessages,  (* bound: messages of one user                               *)
  MaxRounds,    (* bound: rounds of one timer                                *)
  MaxUses,      (* bound: uses of a tool in a round, but for spawn           *)
  Nobody

Agents == {Loop} \cup Timers

ASSUME GatewayParameters ==
  /\ InCap \in Nat \ {0} /\ OutCap \in Nat \ {0}
  /\ MaxMessages \in Nat /\ MaxRounds \in Nat /\ MaxUses \in Nat
  /\ Loop \notin Timers
  /\ Nobody \notin Users \cup Tasks
  /\ Users \cap Tasks = {}

VARIABLES
  inbound,     (* the inbound channel of the bus                          *)
  outbound,    (* the outbound channel of the bus: who has sent           *)
  user,        (* what each adapter is doing                              *)
  agent,       (* what each goroutine that runs agent rounds is doing     *)
  task,        (* what each subagent is doing                             *)
  mutex,       (* SubagentManager.mu: the task that holds it, or Nobody   *)
  dispatcher,  (* Manager.dispatchOutbound                                *)
  stopping,    (* has the context of the gateway been cancelled?          *)
  served       (* history: the inbound messages dealt with, in order      *)

vars == <<inbound, outbound, user, agent, task, mutex, dispatcher, stopping, served>>

-----------------------------------------------------------------------------
(* Messages.                                                               *)

UserMessage(u, n) == [from |-> u, number |-> n]
Report(t) == [from |-> t, number |-> 0]

NoMessage == [from |-> Nobody, number |-> 0]

Messages == [from: Users, number: 1 .. MaxMessages] \cup {Report(t) : t \in Tasks}

\* Mutant: the channel adapter drops a message when the channel is full.
PublishInboundDrops(m) ==
  inbound' = IF Len(inbound) < InCap THEN Append(inbound, m) ELSE inbound

\* PublishInbound and PublishOutbound block until there is room.
PublishInbound(m) == /\ Len(inbound) < InCap
                     /\ inbound' = Append(inbound, m)

PublishOutbound(from) == /\ Len(outbound) < OutCap
                         /\ outbound' = Append(outbound, from)

-----------------------------------------------------------------------------
(* Channel adapters.                                                       *)

\* A message arrives from outside and passes IsAllowed.
UserWrites(u) ==
  /\ user[u].pc = "idle"
  /\ user[u].sent < MaxMessages
  /\ user' = [user EXCEPT ![u] = [pc |-> "publishing", sent |-> user[u].sent + 1]]
  /\ UNCHANGED <<inbound, outbound, agent, task, mutex, dispatcher, stopping, served>>

\* BaseChannel.HandleMessage.
HandleMessage(u) ==
  /\ user[u].pc = "publishing"
  /\ PublishInbound(UserMessage(u, user[u].sent))
  /\ user' = [user EXCEPT ![u].pc = "idle"]
  /\ UNCHANGED <<outbound, agent, task, mutex, dispatcher, stopping, served>>

-----------------------------------------------------------------------------
(* Agent rounds.                                                           *)

Resting(left) == [pc |-> "idle", message |-> NoMessage, task |-> Nobody,
                  uses |-> 0, rounds |-> left]

\* Mutant: the latest message is taken first.
NextInboundLatest == Last(inbound)

NextInbound == Head(inbound)

\* AgentLoop.Run: the next message.  Reports of subagents are only logged
\* (processSystemMessage), commands and user messages start a round.
ConsumeInbound ==
  /\ agent[Loop].pc = "idle"
  /\ inbound # <<>>
  /\ inbound' = Tail(inbound)
  /\ IF NextInbound.from \in Tasks
     THEN /\ served' = Append(served, NextInbound)
          /\ UNCHANGED agent
     ELSE /\ agent' = [agent EXCEPT ![Loop] = [agent[Loop] EXCEPT !.pc = "working",
                                                                   !.message = NextInbound]]
          /\ UNCHANGED served
  /\ UNCHANGED <<outbound, user, task, mutex, dispatcher, stopping>>

\* ExecuteJob and executeHeartbeat call the agent in their own goroutine.
TimerFires(a) ==
  /\ a \in Timers
  /\ agent[a].pc = "idle"
  /\ agent[a].rounds > 0
  /\ agent' = [agent EXCEPT ![a] = [agent[a] EXCEPT !.pc = "working",
                                                   !.rounds = agent[a].rounds - 1]]
  /\ UNCHANGED <<inbound, outbound, user, task, mutex, dispatcher, stopping, served>>

\* Something in the round writes to a user (the message tool, a result meant for
\* the user, the notice of a compression, a job that is delivered without the
\* agent), or the model asks for a subagent whose answer it waits for.
AskForTool(a) ==
  /\ agent[a].pc = "working"
  /\ agent[a].uses < MaxUses
  /\ \E pc \in {"sending", "consulting"} :
       agent' = [agent EXCEPT ![a] = [agent[a] EXCEPT !.pc = pc, !.uses = agent[a].uses + 1]]
  /\ UNCHANGED <<inbound, outbound, user, task, mutex, dispatcher, stopping, served>>

\* The model asks for the spawn tool.
AskForSpawn(a, t) ==
  /\ agent[a].pc = "working"
  /\ task[t] = "unused"
  /\ task' = [task EXCEPT ![t] = "asked"]
  /\ agent' = [agent EXCEPT ![a] = [agent[a] EXCEPT !.pc = "spawning", !.task = t]]
  /\ UNCHANGED <<inbound, outbound, user, mutex, dispatcher, stopping, served>>

\* SubagentManager.Spawn, in one critical section.
Spawn(a) ==
  /\ agent[a].pc = "spawning"
  /\ mutex = Nobody
  /\ task' = [task EXCEPT ![agent[a].task] = "spawned"]
  /\ agent' = [agent EXCEPT ![a] = [agent[a] EXCEPT !.pc = "working", !.task = Nobody]]
  /\ UNCHANGED <<inbound, outbound, user, mutex, dispatcher, stopping, served>>

\* SubagentTool.Execute: the read lock, and a tool loop in this goroutine.
Consult(a) ==
  /\ agent[a].pc = "consulting"
  /\ mutex = Nobody
  /\ agent' = [agent EXCEPT ![a].pc = "working"]
  /\ UNCHANGED <<inbound, outbound, user, task, mutex, dispatcher, stopping, served>>

\* The callback of the message tool, or the round itself.
SendToUser(a) ==
  /\ agent[a].pc = "sending"
  /\ PublishOutbound(a)
  /\ agent' = [agent EXCEPT ![a].pc = "working"]
  /\ UNCHANGED <<inbound, user, task, mutex, dispatcher, stopping, served>>

\* The round is over.  Run goes on to publish the answer, unless the message
\* tool has sent it; the callers of the timers drop theirs.
EndRound(a) ==
  /\ agent[a].pc = "working"
  /\ agent' = [agent EXCEPT ![a] = IF a = Loop THEN [agent[a] EXCEPT !.pc = "replying"]
                                               ELSE Resting(agent[a].rounds)]
  /\ UNCHANGED <<inbound, outbound, user, task, mutex, dispatcher, stopping, served>>

\* AgentLoop.Run, after the round.
Reply ==
  /\ agent[Loop].pc = "replying"
  /\ PublishOutbound(Loop) \/ (agent[Loop].uses > 0 /\ UNCHANGED outbound)
  /\ served' = Append(served, agent[Loop].message)
  /\ agent' = [agent EXCEPT ![Loop] = Resting(0)]
  /\ UNCHANGED <<inbound, user, task, mutex, dispatcher, stopping>>

\* AgentLoop.Run returns when it finds its context cancelled.
LoopStops ==
  /\ stopping
  /\ agent[Loop].pc = "idle"
  /\ agent' = [agent EXCEPT ![Loop].pc = "stopped"]
  /\ UNCHANGED <<inbound, outbound, user, task, mutex, dispatcher, stopping, served>>

-----------------------------------------------------------------------------
(* Subagents: SubagentManager.runTask.                                     *)

\* The context is checked, and the tools are read under the read lock; a task
\* that finds its context cancelled ends under the lock, without a report.
TaskStarts(t) ==
  /\ task[t] = "spawned"
  /\ mutex = Nobody
  /\ \/ task' = [task EXCEPT ![t] = "working"]
     \/ stopping /\ task' = [task EXCEPT ![t] = "cancelled"]
  /\ UNCHANGED <<inbound, outbound, user, agent, mutex, dispatcher, stopping, served>>

\* The tool loop of the subagent writes to the user.
TaskSends(t) ==
  /\ task[t] = "working"
  /\ PublishOutbound(t)
  /\ task' = [task EXCEPT ![t] = "told"]
  /\ UNCHANGED <<inbound, user, agent, mutex, dispatcher, stopping, served>>

\* The tool loop ends, with a result or an error; the outcome is written under
\* the lock, and the lock is kept.
TaskLocks(t) ==
  /\ task[t] \in {"working", "told"}
  /\ mutex = Nobody
  /\ mutex' = t
  /\ task' = [task EXCEPT ![t] = "reporting"]
  /\ UNCHANGED <<inbound, outbound, user, agent, dispatcher, stopping, served>>

\* Mutant: the lock is not released after the report.
MutexAfterReportKept(t) == t

MutexAfterReport(t) == Nobody

\* Mutant: the report is sent again, as if the first one had been refused.
TaskReportsAgain(t) ==
  /\ task[t] = "reporting"
  /\ PublishInbound(Report(t))
  /\ task' \in {[task EXCEPT ![t] = "reported"], [task EXCEPT ![t] = "told"]}
  /\ mutex' = MutexAfterReport(t)
  /\ UNCHANGED <<outbound, user, agent, dispatcher, stopping, served>>

\* The report is published, then the deferred function unlocks.
TaskReports(t) ==
  /\ task[t] = "reporting"
  /\ PublishInbound(Report(t))
  /\ task' = [task EXCEPT ![t] = "reported"]
  /\ mutex' = MutexAfterReport(t)
  /\ UNCHANGED <<outbound, user, agent, dispatcher, stopping, served>>

-----------------------------------------------------------------------------
(* The dispatcher.                                                         *)

\* The channel's Send returns, with or without an error; messages to internal
\* and to unknown channels are skipped.
DispatchOutbound ==
  /\ dispatcher = "running"
  /\ outbound # <<>>
  /\ outbound' = Tail(outbound)
  /\ UNCHANGED <<inbound, user, agent, task, mutex, dispatcher, stopping, served>>

DispatcherStops ==
  /\ stopping
  /\ dispatcher = "running"
  /\ dispatcher' = "off"
  /\ UNCHANGED <<inbound, outbound, user, agent, task, mutex, stopping, served>>

\* The signal handler of gatewayCmd cancels the context.
Shutdown ==
  /\ ~stopping
  /\ stopping' = TRUE
  /\ UNCHANGED <<inbound, outbound, user, agent, task, mutex, dispatcher, served>>

-----------------------------------------------------------------------------

\* Without a channel, StartAll does not start the dispatcher.
Init ==
  /\ inbound = <<>>
  /\ outbound = <<>>
  /\ user = [u \in Users |-> [pc |-> "idle", sent |-> 0]]
  /\ agent = [a \in Agents |-> Resting(IF a = Loop THEN 0 ELSE MaxRounds)]
  /\ task = [t \in Tasks |-> "unused"]
  /\ mutex = Nobody
  /\ dispatcher = IF Users = {} THEN "off" ELSE "running"
  /\ stopping = FALSE
  /\ served = <<>>

\* What a goroutine does once it is in a round.
RoundStep(a) ==
  \/ AskForTool(a)
  \/ \E t \in Tasks : AskForSpawn(a, t)
  \/ Spawn(a)
  \/ Consult(a)
  \/ SendToUser(a)
  \/ EndRound(a)

LoopStep == ConsumeInbound \/ RoundStep(Loop) \/ Reply

TaskStep(t) == TaskStarts(t) \/ TaskSends(t) \/ TaskLocks(t) \/ TaskReports(t)

Next ==
  \/ \E u \in Users : UserWrites(u) \/ HandleMessage(u)
  \/ LoopStep
  \/ \E a \in Timers : TimerFires(a) \/ RoundStep(a)
  \/ \E t \in Tasks : TaskStep(t)
  \/ DispatchOutbound
  \/ Shutdown \/ LoopStops \/ DispatcherStops

Spec == Init /\ [][Next]_vars

(***************************************************************************)
(* Fairness.  The Go scheduler runs every goroutine that can take a step,  *)
(* and a mutex that is free again and again is granted in the end (Go      *)
(* hands a mutex over to a waiter that has starved).  Model calls return   *)
(* (the provider has a timeout) and so do the Send methods of channels.    *)
(***************************************************************************)
Fairness ==
  /\ \A u \in Users : WF_vars(HandleMessage(u))
  /\ SF_vars(LoopStep)
  /\ \A a \in Timers : SF_vars(RoundStep(a))
  /\ \A t \in Tasks : SF_vars(TaskStep(t))
  /\ WF_vars(DispatchOutbound)

LiveSpec == Spec /\ Fairness

-----------------------------------------------------------------------------
(* What must hold.                                                         *)

Pcs == {"idle", "working", "sending", "consulting", "spawning", "replying", "stopped"}

AgentStates == [pc: Pcs, message: Messages \cup {NoMessage}, task: Tasks \cup {Nobody},
                uses: 0 .. MaxUses, rounds: 0 .. MaxRounds]

TaskStates == {"unused", "asked", "spawned", "working", "told", "reporting",
               "reported", "cancelled"}

\* The state has the types the code gives it; the channels keep their capacity.
TypeOK ==
  /\ inbound \in Seq(Messages) /\ Len(inbound) <= InCap
  /\ outbound \in Seq(Agents \cup Tasks) /\ Len(outbound) <= OutCap
  /\ user \in [Users -> [pc: {"idle", "publishing"}, sent: 0 .. MaxMessages]]
  /\ agent \in [Agents -> AgentStates]
  /\ task \in [Tasks -> TaskStates]
  /\ mutex \in Tasks \cup {Nobody}
  /\ dispatcher \in {"running", "off"}
  /\ stopping \in BOOLEAN
  /\ served \in Seq(Messages)

\* Everything that was published inbound, in the order of its way through the loop.
InTheLoop ==
  IF agent[Loop].message = NoMessage THEN <<>> ELSE <<agent[Loop].message>>

Way == served \o InTheLoop \o inbound

Published(u) == user[u].sent - IF user[u].pc = "publishing" THEN 1 ELSE 0

\* The messages of a user are served in the order in which they were written,
\* each of them once, and none is lost on the way.
UsersAreServedInOrder ==
  \A u \in Users :
    /\ \A n \in 1 .. Published(u) : \E i \in 1 .. Len(Way) : Way[i] = UserMessage(u, n)
    /\ \A i \in 1 .. Len(Way) : Way[i].from = u => Way[i].number \in 1 .. Published(u)
    /\ \A i, k \in 1 .. Len(Way) :
         Way[i].from = u /\ Way[k].from = u /\ i < k => Way[i].number < Way[k].number

\* A subagent reports once, and only after its work.
SubagentsReportOnce ==
  \A t \in Tasks :
    /\ task[t] = "reported" <=> \E i \in 1 .. Len(Way) : Way[i].from = t
    /\ \A i, k \in 1 .. Len(Way) : Way[i].from = t /\ Way[k].from = t => i = k

\* The subagent that is about to report holds the mutex, so there is at most one
\* of them, and nobody else ever keeps the mutex.
OnlyTheReporterLocks == \A t \in Tasks : mutex = t <=> task[t] = "reporting"

\* Every message is dealt with in the end.
MessagesAreServed ==
  \A u \in Users : \A n \in 1 .. MaxMessages :
    user[u].sent >= n ~> Contains(served, UserMessage(u, n)) \/ stopping

\* "The subagent will complete the task and report back when done" (spawn.go).
SpawnedTasksReport ==
  \A t \in Tasks : task[t] = "asked" ~> Contains(served, Report(t)) \/ stopping
=============================================================================
