--------------------------- MODULE GatewayProofs ---------------------------
(***************************************************************************)
(* Theorems about Gateway, for every number of users, timers and subagents *)
(* and every capacity of the channels, and, at the end, about the bus that *)
(* these channels belong to, for every number of publishers and writers.   *)
(***************************************************************************)
EXTENDS Gateway, MessageBus, SequenceTheorems, TLAPS

-----------------------------------------------------------------------------
(* The inductive invariant.                                                *)

\* An adapter that is publishing has something to publish.
PublishersHaveWritten ==
  \A u \in Users : user[u].pc = "publishing" => user[u].sent > 0

\* The loop is busy with a message.
LoopHasAMessage ==
  agent[Loop].pc \notin {"idle", "stopped"} => agent[Loop].message \in Messages

\* A task is spawned by one agent only, and before anything else happens to it.
SpawnsAreAsked ==
  \A a \in Agents : agent[a].pc = "spawning" =>
    /\ agent[a].task \in Tasks
    /\ task[agent[a].task] = "asked"
    /\ \A b \in Agents : agent[b].pc = "spawning" /\ agent[b].task = agent[a].task => a = b

\* A message that waits has been published: by its subagent, which has reported,
\* or by its adapter, which has nothing older to publish.
WasPublished(m) ==
  \/ m.from \in Tasks /\ task[m.from] = "reported"
  \/ m.from \in Users /\ m.number <= user[m.from].sent
                      /\ (user[m.from].pc = "publishing" => m.number < user[m.from].sent)

WaitingWerePublished == \A i \in 1 .. Len(inbound) : WasPublished(inbound[i])

\* No message waits twice.
WaitingOnce == \A i, j \in 1 .. Len(inbound) : inbound[i] = inbound[j] => i = j

-----------------------------------------------------------------------------
(* Sequences and records.                                                  *)

LEMMA AppendAgain ==
  ASSUME NEW S, NEW s \in Seq(S), NEW x \in S
  PROVE  /\ Append(s, x) \in Seq(S)
         /\ Len(Append(s, x)) = Len(s) + 1
         /\ \A i \in 1 .. Len(s) : Append(s, x)[i] = s[i]
         /\ Append(s, x)[Len(s) + 1] = x
BY AppendProperties

LEMMA RestOfSequence ==
  ASSUME NEW S, NEW s \in Seq(S), s # <<>>
  PROVE  /\ Head(s) \in S /\ Tail(s) \in Seq(S)
         /\ Len(s) \in Nat /\ Len(s) > 0
         /\ Len(Tail(s)) = Len(s) - 1
         /\ \A i \in 1 .. Len(Tail(s)) : Tail(s)[i] = s[i + 1]
BY EmptySeq, HeadTailProperties

\* An agent at rest is well typed.
LEMMA RestingTyped ==
  ASSUME NEW left \in 0 .. MaxRounds
  PROVE  Resting(left) \in AgentStates /\ Resting(left).pc = "idle"
BY GatewayParameters DEF Resting, Pcs, AgentStates

LEMMA ReportTyped ==
  ASSUME NEW t \in Tasks
  PROVE  Report(t) \in Messages /\ Report(t).from = t
BY DEF Messages, Report

LEMMA UserMessageTyped ==
  ASSUME NEW u \in Users, NEW n \in 1 .. MaxMessages
  PROVE  /\ UserMessage(u, n) \in Messages
         /\ UserMessage(u, n).from = u /\ UserMessage(u, n).number = n
BY DEF Messages, UserMessage

\* What TypeOK says of one agent, in a form the steps can use.
LEMMA AgentTyped ==
  ASSUME TypeOK, NEW a \in Agents
  PROVE  /\ agent[a] \in AgentStates
         /\ agent[a].pc \in Pcs
         /\ agent[a].message \in Messages \cup {NoMessage}
         /\ agent[a].task \in Tasks \cup {Nobody}
         /\ agent[a].uses \in 0 .. MaxUses
         /\ agent[a].rounds \in 0 .. MaxRounds
BY DEF TypeOK, AgentStates

-----------------------------------------------------------------------------
(* Type correctness.                                                       *)

LEMMA InitTyped == Init => TypeOK
<1>. SUFFICES ASSUME Init PROVE TypeOK
  OBVIOUS
<1>1. inbound \in Seq(Messages) /\ Len(inbound) <= InCap
  BY EmptySeq, GatewayParameters DEF Init
<1>2. outbound \in Seq(Agents \cup Tasks) /\ Len(outbound) <= OutCap
  BY EmptySeq, GatewayParameters DEF Init
<1>3. user \in [Users -> [pc: {"idle", "publishing"}, sent: 0 .. MaxMessages]]
  BY GatewayParameters DEF Init
<1>4. agent \in [Agents -> AgentStates]
  <2>1. \A a \in Agents : (IF a = Loop THEN 0 ELSE MaxRounds) \in 0 .. MaxRounds
    BY GatewayParameters
  <2>. QED  BY <2>1, RestingTyped DEF Init
<1>5. task \in [Tasks -> TaskStates] /\ mutex \in Tasks \cup {Nobody}
  BY DEF Init, TaskStates
<1>6. dispatcher \in {"running", "off"} /\ stopping \in BOOLEAN
  BY DEF Init
<1>7. served \in Seq(Messages)
  BY EmptySeq DEF Init
<1>. QED  BY <1>1, <1>2, <1>3, <1>4, <1>5, <1>6, <1>7 DEF TypeOK

LEMMA PublishInboundTyped ==
  ASSUME TypeOK, NEW m \in Messages, PublishInbound(m)
  PROVE  inbound' \in Seq(Messages) /\ Len(inbound') <= InCap
<1>. inbound \in Seq(Messages) /\ Len(inbound) \in Nat
  BY LenProperties DEF TypeOK
<1>. QED  BY AppendAgain, GatewayParameters DEF PublishInbound

LEMMA PublishOutboundTyped ==
  ASSUME TypeOK, NEW w \in Agents \cup Tasks, PublishOutbound(w)
  PROVE  outbound' \in Seq(Agents \cup Tasks) /\ Len(outbound') <= OutCap
<1>. outbound \in Seq(Agents \cup Tasks) /\ Len(outbound) \in Nat
  BY LenProperties DEF TypeOK
<1>. QED  BY AppendAgain, GatewayParameters DEF PublishOutbound

LEMMA TypedUserStep ==
  ASSUME TypeOK, PublishersHaveWritten, NEW u \in Users,
         UserWrites(u) \/ HandleMessage(u)
  PROVE  TypeOK'
<1>1. PICK r \in [pc: {"idle", "publishing"}, sent: 0 .. MaxMessages] : r = user[u]
  BY DEF TypeOK
<1>2. CASE UserWrites(u)
  <2>1. [pc |-> "publishing", sent |-> user[u].sent + 1]
          \in [pc: {"idle", "publishing"}, sent: 0 .. MaxMessages]
    BY <1>1, <1>2, GatewayParameters DEF UserWrites
  <2>2. user' \in [Users -> [pc: {"idle", "publishing"}, sent: 0 .. MaxMessages]]
    BY <2>1, <1>2 DEF UserWrites, TypeOK
  <2>. QED  BY <2>2, <1>2 DEF UserWrites, TypeOK
<1>3. CASE HandleMessage(u)
  <2>1. user[u].sent \in 1 .. MaxMessages
    BY <1>1, <1>3, GatewayParameters DEF HandleMessage, PublishersHaveWritten
  <2>2. inbound' \in Seq(Messages) /\ Len(inbound') <= InCap
    BY <2>1, <1>3, UserMessageTyped, PublishInboundTyped DEF HandleMessage
  <2>3. user' \in [Users -> [pc: {"idle", "publishing"}, sent: 0 .. MaxMessages]]
    BY <1>1, <1>3 DEF HandleMessage, TypeOK
  <2>. QED  BY <2>2, <2>3, <1>3 DEF HandleMessage, TypeOK
<1>. QED  BY <1>2, <1>3

LEMMA TypedConsume ==
  ASSUME TypeOK, ConsumeInbound
  PROVE  TypeOK'
<1>1. Loop \in Agents
  BY DEF Agents
<1>2. inbound \in Seq(Messages) /\ Len(inbound) <= InCap /\ inbound # <<>>
  BY DEF TypeOK, ConsumeInbound
<1>3. /\ NextInbound \in Messages
      /\ inbound' \in Seq(Messages) /\ Len(inbound') <= InCap
  BY <1>2, RestOfSequence, GatewayParameters DEF ConsumeInbound, NextInbound
<1>4. CASE NextInbound.from \in Tasks
  <2>1. served' = Append(served, NextInbound) /\ agent' = agent
    BY <1>4 DEF ConsumeInbound
  <2>2. served' \in Seq(Messages)
    BY <1>3, <2>1, AppendAgain DEF TypeOK
  <2>. QED  BY <1>3, <2>1, <2>2 DEF ConsumeInbound, TypeOK
<1>5. CASE NextInbound.from \notin Tasks
  <2>1. /\ served' = served
        /\ agent' = [agent EXCEPT ![Loop] = [agent[Loop] EXCEPT !.pc = "working",
                                                                !.message = NextInbound]]
    BY <1>5 DEF ConsumeInbound
  <2>2. [agent[Loop] EXCEPT !.pc = "working", !.message = NextInbound] \in AgentStates
    BY <1>1, <1>3, AgentTyped DEF AgentStates, Pcs
  <2>3. agent' \in [Agents -> AgentStates]
    BY <2>1, <2>2 DEF TypeOK
  <2>. QED  BY <1>3, <2>1, <2>3 DEF ConsumeInbound, TypeOK
<1>. QED  BY <1>4, <1>5

\* An agent that changes to a typed state leaves the agents typed.
LEMMA AgentChangeTyped ==
  ASSUME TypeOK, NEW a \in Agents, NEW r \in AgentStates,
         agent' = [agent EXCEPT ![a] = r]
  PROVE  agent' \in [Agents -> AgentStates]
BY DEF TypeOK

\* What an agent is doing, and its task, can be any of the declared values.
LEMMA AgentMoveTyped ==
  ASSUME TypeOK, NEW a \in Agents, NEW pc \in Pcs, NEW t \in Tasks \cup {Nobody}
  PROVE  /\ [agent[a] EXCEPT !.pc = pc] \in AgentStates
         /\ [agent[a] EXCEPT !.pc = pc, !.task = t] \in AgentStates
BY AgentTyped DEF AgentStates

\* The steps of an agent that only change what it is doing and its task.
LEMMA TypedRoundStep ==
  ASSUME TypeOK, NEW a \in Agents, RoundStep(a)
  PROVE  TypeOK'
<1>. USE AgentTyped
<1>1. CASE AskForTool(a)
  <2>1. agent[a].uses + 1 \in 0 .. MaxUses
    BY <1>1, GatewayParameters DEF AskForTool
  <2>2. PICK pc \in {"sending", "consulting"} :
          agent' = [agent EXCEPT ![a] = [agent[a] EXCEPT !.pc = pc,
                                                        !.uses = agent[a].uses + 1]]
    BY <1>1 DEF AskForTool
  <2>3. [agent[a] EXCEPT !.pc = pc, !.uses = agent[a].uses + 1] \in AgentStates
    BY <2>1 DEF AgentStates, Pcs
  <2>4. agent' \in [Agents -> AgentStates]
    BY <2>2, <2>3 DEF TypeOK
  <2>. QED  BY <1>1, <2>4 DEF AskForTool, TypeOK
<1>2. CASE \E t \in Tasks : AskForSpawn(a, t)
  <2>1. PICK t \in Tasks : AskForSpawn(a, t)
    BY <1>2
  <2>2. [agent[a] EXCEPT !.pc = "spawning", !.task = t] \in AgentStates
    BY AgentMoveTyped DEF Pcs
  <2>4. agent' \in [Agents -> AgentStates]
    BY <2>1, <2>2, AgentChangeTyped DEF AskForSpawn
  <2>3. task' \in [Tasks -> TaskStates]
    BY <2>1 DEF AskForSpawn, TypeOK, TaskStates
  <2>. QED  BY <2>1, <2>3, <2>4 DEF AskForSpawn, TypeOK
<1>3. CASE Spawn(a)
  <2>3. [agent[a] EXCEPT !.pc = "working", !.task = Nobody] \in AgentStates
    BY AgentMoveTyped DEF Pcs
  <2>1. agent' \in [Agents -> AgentStates]
    BY <1>3, <2>3, AgentChangeTyped DEF Spawn
  <2>2. task' \in [Tasks -> TaskStates]
    BY <1>3 DEF Spawn, TypeOK, TaskStates
  <2>. QED  BY <1>3, <2>1, <2>2 DEF Spawn, TypeOK
<1>4. CASE Consult(a)
  <2>3. agent' = [agent EXCEPT ![a] = [agent[a] EXCEPT !.pc = "working"]]
    BY <1>4 DEF Consult
  <2>4. [agent[a] EXCEPT !.pc = "working"] \in AgentStates
    BY AgentMoveTyped DEF Pcs
  <2>1. agent' \in [Agents -> AgentStates]
    BY <2>3, <2>4, AgentChangeTyped
  <2>. QED  BY <1>4, <2>1 DEF Consult, TypeOK
<1>5. CASE SendToUser(a)
  <2>3. agent' = [agent EXCEPT ![a] = [agent[a] EXCEPT !.pc = "working"]]
    BY <1>5 DEF SendToUser
  <2>4. [agent[a] EXCEPT !.pc = "working"] \in AgentStates
    BY AgentMoveTyped DEF Pcs
  <2>1. agent' \in [Agents -> AgentStates]
    BY <2>3, <2>4, AgentChangeTyped
  <2>2. outbound' \in Seq(Agents \cup Tasks) /\ Len(outbound') <= OutCap
    BY <1>5, PublishOutboundTyped DEF SendToUser
  <2>. QED  BY <1>5, <2>1, <2>2 DEF SendToUser, TypeOK
<1>6. CASE EndRound(a)
  <2>1. [agent[a] EXCEPT !.pc = "replying"] \in AgentStates
    BY DEF AgentStates, Pcs
  <2>2. Resting(agent[a].rounds) \in AgentStates
    BY RestingTyped
  <2>3. agent' \in [Agents -> AgentStates]
    BY <1>6, <2>1, <2>2 DEF EndRound, TypeOK
  <2>. QED  BY <1>6, <2>3 DEF EndRound, TypeOK
<1>. QED  BY <1>1, <1>2, <1>3, <1>4, <1>5, <1>6 DEF RoundStep

LEMMA TypedReply ==
  ASSUME TypeOK, LoopHasAMessage, Reply
  PROVE  TypeOK'
<1>1. Loop \in Agents /\ 0 \in 0 .. MaxRounds
  BY GatewayParameters DEF Agents
<1>2. served' \in Seq(Messages)
  BY AppendAgain DEF Reply, LoopHasAMessage, TypeOK
<1>3. agent' \in [Agents -> AgentStates]
  BY <1>1, RestingTyped DEF Reply, TypeOK
<1>4. outbound' \in Seq(Agents \cup Tasks) /\ Len(outbound') <= OutCap
  BY <1>1, PublishOutboundTyped DEF Reply, TypeOK
<1>. QED  BY <1>2, <1>3, <1>4 DEF Reply, TypeOK

LEMMA TypedTimer ==
  ASSUME TypeOK, NEW a \in Timers, TimerFires(a)
  PROVE  TypeOK'
<1>1. a \in Agents /\ agent[a].rounds - 1 \in 0 .. MaxRounds
  BY AgentTyped, GatewayParameters DEF TimerFires, Agents
<1>2. [agent[a] EXCEPT !.pc = "working", !.rounds = agent[a].rounds - 1] \in AgentStates
  BY <1>1, AgentTyped DEF AgentStates, Pcs
<1>3. agent' \in [Agents -> AgentStates]
  BY <1>1, <1>2, AgentChangeTyped DEF TimerFires
<1>. QED  BY <1>3 DEF TimerFires, TypeOK

LEMMA TypedTaskStep ==
  ASSUME TypeOK, NEW t \in Tasks, TaskStep(t)
  PROVE  TypeOK'
<1>1. CASE TaskStarts(t)
  BY <1>1 DEF TaskStarts, TypeOK, TaskStates
<1>2. CASE TaskSends(t)
  <2>1. outbound' \in Seq(Agents \cup Tasks) /\ Len(outbound') <= OutCap
    BY <1>2, PublishOutboundTyped DEF TaskSends
  <2>2. task' \in [Tasks -> TaskStates]
    BY <1>2 DEF TaskSends, TypeOK, TaskStates
  <2>. QED  BY <1>2, <2>1, <2>2 DEF TaskSends, TypeOK
<1>3. CASE TaskLocks(t)
  BY <1>3 DEF TaskLocks, TypeOK, TaskStates
<1>4. CASE TaskReports(t)
  <2>1. inbound' \in Seq(Messages) /\ Len(inbound') <= InCap
    BY <1>4, ReportTyped, PublishInboundTyped DEF TaskReports
  <2>2. task' \in [Tasks -> TaskStates]
    BY <1>4 DEF TaskReports, TypeOK, TaskStates
  <2>. QED  BY <1>4, <2>1, <2>2 DEF TaskReports, TypeOK, MutexAfterReport
<1>. QED  BY <1>1, <1>2, <1>3, <1>4 DEF TaskStep

LEMMA TypedOtherStep ==
  ASSUME TypeOK, DispatchOutbound \/ DispatcherStops \/ Shutdown \/ LoopStops
  PROVE  TypeOK'
<1>1. CASE DispatchOutbound
  <2>1. outbound' \in Seq(Agents \cup Tasks) /\ Len(outbound') <= OutCap
    BY <1>1, RestOfSequence, GatewayParameters DEF DispatchOutbound, TypeOK
  <2>. QED  BY <1>1, <2>1 DEF DispatchOutbound, TypeOK
<1>2. CASE DispatcherStops
  BY <1>2 DEF DispatcherStops, TypeOK
<1>3. CASE Shutdown
  BY <1>3 DEF Shutdown, TypeOK
<1>4. CASE LoopStops
  <2>1. agent' \in [Agents -> AgentStates]
    BY <1>4, AgentTyped DEF LoopStops, TypeOK, AgentStates, Pcs, Agents
  <2>. QED  BY <1>4, <2>1 DEF LoopStops, TypeOK
<1>. QED  BY <1>1, <1>2, <1>3, <1>4

LEMMA TypedNext ==
  ASSUME TypeOK, PublishersHaveWritten, LoopHasAMessage, [Next]_vars
  PROVE  TypeOK'
<1>1. CASE Next
  <2>1. Loop \in Agents /\ Timers \subseteq Agents
    BY DEF Agents
  <2>. QED
    BY <1>1, <2>1, TypedUserStep, TypedConsume, TypedRoundStep, TypedReply, TypedTimer,
       TypedTaskStep, TypedOtherStep DEF Next, LoopStep
<1>2. CASE UNCHANGED vars
  BY <1>2 DEF vars, TypeOK
<1>. QED  BY <1>1, <1>2

-----------------------------------------------------------------------------
(* The other parts of the invariant.                                       *)

\* What waits goes on waiting while nobody publishes or consumes.
LEMMA WaitingFrame ==
  ASSUME WaitingOnce, WaitingWerePublished, inbound' = inbound, user' = user,
         \A t \in Tasks : task[t] = "reported" => task'[t] = "reported"
  PROVE  WaitingOnce' /\ WaitingWerePublished'
BY DEF WaitingOnce, WaitingWerePublished, WasPublished

\* Nobody starts to spawn, and no task that was asked for moves on.
LEMMA SpawnsFrame ==
  ASSUME SpawnsAreAsked,
         \A a \in Agents : agent'[a].pc = "spawning" =>
                             agent[a].pc = "spawning" /\ agent'[a].task = agent[a].task,
         \A t \in Tasks : task[t] = "asked" => task'[t] = "asked"
  PROVE  SpawnsAreAsked'
BY DEF SpawnsAreAsked

\* A message that has just been published is a new one.
LEMMA WaitingAppend ==
  ASSUME TypeOK, WaitingOnce, WaitingWerePublished, NEW m \in Messages, PublishInbound(m),
         ~ WasPublished(m), WasPublished(m)',
         \A x \in Messages : WasPublished(x) => WasPublished(x)'
  PROVE  WaitingOnce' /\ WaitingWerePublished'
<1>1. inbound \in Seq(Messages) /\ inbound' = Append(inbound, m)
  BY DEF TypeOK, PublishInbound
<1>2. /\ Len(inbound) \in Nat
      /\ Len(inbound') = Len(inbound) + 1
      /\ \A i \in 1 .. Len(inbound) : inbound'[i] = inbound[i] /\ inbound[i] \in Messages
      /\ inbound'[Len(inbound) + 1] = m
  BY <1>1, AppendAgain, LenProperties, ElementOfSeq
<1>3. \A i \in 1 .. Len(inbound) : inbound[i] # m
  BY DEF WaitingWerePublished
<1>4. \A i \in 1 .. Len(inbound') : i \in 1 .. Len(inbound) \/ i = Len(inbound) + 1
  BY <1>2
<1>5. WaitingOnce'
  BY <1>2, <1>3, <1>4 DEF WaitingOnce
<1>6. WaitingWerePublished'
  <2>. SUFFICES ASSUME NEW i \in 1 .. Len(inbound') PROVE WasPublished(inbound[i])'
    BY DEF WaitingWerePublished
  <2>1. CASE i \in 1 .. Len(inbound)
    BY <2>1, <1>2 DEF WaitingWerePublished, WasPublished
  <2>2. CASE i = Len(inbound) + 1
    BY <2>2, <1>2 DEF WasPublished
  <2>. QED  BY <1>4, <2>1, <2>2
<1>. QED  BY <1>5, <1>6

\* The invariant but for the types.
Discipline ==
  /\ PublishersHaveWritten
  /\ LoopHasAMessage
  /\ SpawnsAreAsked
  /\ OnlyTheReporterLocks
  /\ WaitingWerePublished
  /\ WaitingOnce

LEMMA DisciplineUserStep ==
  ASSUME TypeOK, Discipline, NEW u \in Users, UserWrites(u) \/ HandleMessage(u)
  PROVE  Discipline'
<1>. USE DEF Discipline
<1>1. user[u].sent \in 0 .. MaxMessages /\ u \notin Tasks
  BY GatewayParameters DEF TypeOK
<1>2. UNCHANGED <<agent, task, mutex>>
  BY DEF UserWrites, HandleMessage
<1>3. LoopHasAMessage' /\ SpawnsAreAsked' /\ OnlyTheReporterLocks'
  BY <1>2 DEF LoopHasAMessage, SpawnsAreAsked, OnlyTheReporterLocks
<1>4. CASE UserWrites(u)
  <2>1. /\ user' = [user EXCEPT ![u] = [pc |-> "publishing", sent |-> user[u].sent + 1]]
        /\ user[u].pc = "idle" /\ inbound' = inbound
    BY <1>4 DEF UserWrites
  <2>2. PublishersHaveWritten'
    BY <2>1, <1>1 DEF PublishersHaveWritten, TypeOK
  <2>3. /\ \A v \in Users : user'[v] = IF v = u THEN [pc |-> "publishing", sent |-> user[u].sent + 1]
                                               ELSE user[v]
        /\ user'[u].pc = "publishing" /\ user'[u].sent = user[u].sent + 1
    BY <2>1 DEF TypeOK
  <2>4. \A x \in Messages : WasPublished(x) => WasPublished(x)'
    <3>. SUFFICES ASSUME NEW x \in Messages, WasPublished(x) PROVE WasPublished(x)'
      OBVIOUS
    <3>1. CASE x.from = u
      <4>1. x.number \in Int
        BY <3>1, <1>1, GatewayParameters DEF Messages, Report
      <4>2. x.number <= user[u].sent
        BY <3>1, <1>1 DEF WasPublished
      <4>. QED  BY <3>1, <4>1, <4>2, <1>1, <2>3 DEF WasPublished
    <3>2. CASE x.from # u
      BY <3>2, <2>3, <1>2 DEF WasPublished
    <3>. QED  BY <3>1, <3>2
  <2>5. WaitingWerePublished'
    <3>1. \A i \in 1 .. Len(inbound) : inbound[i] \in Messages
      BY ElementOfSeq DEF TypeOK
    <3>2. \A i \in 1 .. Len(inbound) : WasPublished(inbound[i])' 
      BY <3>1, <2>1, <2>4 DEF WaitingWerePublished, WasPublished
    <3>. QED  BY <3>2, <2>1 DEF WaitingWerePublished
  <2>6. WaitingOnce'
    BY <2>1 DEF WaitingOnce
  <2>. QED  BY <1>3, <2>2, <2>5, <2>6
<1>5. CASE HandleMessage(u)
  <2>1. /\ user' = [user EXCEPT ![u] = [user[u] EXCEPT !.pc = "idle"]]
        /\ user[u].pc = "publishing"
        /\ PublishInbound(UserMessage(u, user[u].sent))
    BY <1>5 DEF HandleMessage
  <2>2. user[u].sent \in 1 .. MaxMessages
    BY <1>1, <2>1, GatewayParameters DEF PublishersHaveWritten
  <2>3. /\ user'[u].pc = "idle" /\ user'[u].sent = user[u].sent
        /\ \A v \in Users : v # u => user'[v] = user[v]
    BY <2>1 DEF TypeOK
  <2>4. PublishersHaveWritten'
    BY <2>3 DEF PublishersHaveWritten
  <2>5. /\ UserMessage(u, user[u].sent) \in Messages
        /\ UserMessage(u, user[u].sent).from = u
        /\ UserMessage(u, user[u].sent).number = user[u].sent
    BY <2>2, UserMessageTyped
  <2>6. PICK m \in Messages : m = UserMessage(u, user[u].sent)
    BY <2>5
  <2>7. ~ WasPublished(m) /\ WasPublished(m)'
    BY <1>1, <2>1, <2>3, <2>5, <2>6 DEF WasPublished
  <2>8. \A x \in Messages : WasPublished(x) => WasPublished(x)'
    <3>. SUFFICES ASSUME NEW x \in Messages, WasPublished(x) PROVE WasPublished(x)'
      OBVIOUS
    <3>1. CASE x.from = u
      BY <3>1, <1>1, <2>3 DEF WasPublished
    <3>2. CASE x.from # u
      BY <3>2, <2>3, <1>2 DEF WasPublished
    <3>. QED  BY <3>1, <3>2
  <2>9. WaitingOnce' /\ WaitingWerePublished'
    BY <2>1, <2>6, <2>7, <2>8, WaitingAppend
  <2>. QED  BY <1>3, <2>4, <2>9
<1>. QED  BY <1>4, <1>5

LEMMA DisciplineConsume ==
  ASSUME TypeOK, Discipline, ConsumeInbound
  PROVE  Discipline'
<1>. USE DEF Discipline
<1>1. Loop \in Agents /\ agent[Loop].pc = "idle"
  BY DEF Agents, ConsumeInbound
<1>2. /\ inbound \in Seq(Messages) /\ inbound # <<>> /\ inbound' = Tail(inbound)
      /\ UNCHANGED <<user, task, mutex>>
  BY DEF TypeOK, ConsumeInbound
<1>3. /\ NextInbound \in Messages /\ Len(inbound) \in Nat
      /\ Len(inbound') = Len(inbound) - 1
      /\ \A i \in 1 .. Len(inbound') : inbound'[i] = inbound[i + 1] /\ i + 1 \in 1 .. Len(inbound)
  BY <1>2, RestOfSequence DEF NextInbound
<1>4. WaitingOnce'
  BY <1>3 DEF WaitingOnce
<1>5. WaitingWerePublished'
  BY <1>2, <1>3 DEF WaitingWerePublished, WasPublished
<1>6. PublishersHaveWritten' /\ OnlyTheReporterLocks'
  BY <1>2 DEF PublishersHaveWritten, OnlyTheReporterLocks
<1>7. \/ agent' = agent
      \/ agent' = [agent EXCEPT ![Loop] = [agent[Loop] EXCEPT !.pc = "working",
                                                             !.message = NextInbound]]
  BY DEF ConsumeInbound
<1>8. CASE agent' = agent
  BY <1>2, <1>4, <1>5, <1>6, <1>8 DEF LoopHasAMessage, SpawnsAreAsked
<1>9. CASE agent' = [agent EXCEPT ![Loop] = [agent[Loop] EXCEPT !.pc = "working",
                                                              !.message = NextInbound]]
  <2>1. /\ agent'[Loop].pc = "working" /\ agent'[Loop].message = NextInbound
        /\ \A a \in Agents : a # Loop => agent'[a] = agent[a]
    BY <1>1, <1>9, AgentTyped DEF TypeOK, AgentStates
  <2>2. LoopHasAMessage'
    BY <2>1, <1>3 DEF LoopHasAMessage
  <2>3. SpawnsAreAsked'
    BY <2>1, <1>2, SpawnsFrame
  <2>. QED  BY <2>2, <2>3, <1>4, <1>5, <1>6
<1>. QED  BY <1>7, <1>8, <1>9

\* The steps of an agent that touch neither the mutex nor a task.
LEMMA DisciplineAgentMoves ==
  ASSUME TypeOK, Discipline, NEW a \in Agents, NEW r \in AgentStates,
         agent' = [agent EXCEPT ![a] = r],
         r.pc # "spawning",
         a = Loop => r.pc \in {"idle", "stopped"} \/ r.message \in Messages,
         UNCHANGED <<inbound, user, task, mutex>>
  PROVE  Discipline'
<1>. USE DEF Discipline
<1>1. agent'[a] = r /\ \A b \in Agents : b # a => agent'[b] = agent[b]
  BY DEF TypeOK
<1>2. SpawnsAreAsked'
  BY <1>1, SpawnsFrame
<1>3. LoopHasAMessage'
  BY <1>1 DEF LoopHasAMessage, Agents
<1>4. WaitingOnce' /\ WaitingWerePublished'
  BY WaitingFrame
<1>5. PublishersHaveWritten' /\ OnlyTheReporterLocks'
  BY DEF PublishersHaveWritten, OnlyTheReporterLocks
<1>. QED  BY <1>2, <1>3, <1>4, <1>5

LEMMA DisciplineRoundStep ==
  ASSUME TypeOK, Discipline, NEW a \in Agents, RoundStep(a)
  PROVE  Discipline'
<1>1. agent[a] \in AgentStates
  BY AgentTyped
<1>2. a = Loop /\ agent[a].pc \notin {"idle", "stopped"} => agent[a].message \in Messages
  BY DEF Discipline, LoopHasAMessage
<1>3. CASE AskForTool(a)
  <2>1. PICK pc \in {"sending", "consulting"} :
          agent' = [agent EXCEPT ![a] = [agent[a] EXCEPT !.pc = pc,
                                                        !.uses = agent[a].uses + 1]]
    BY <1>3 DEF AskForTool
  <2>2. agent[a].pc = "working" /\ agent[a].uses + 1 \in 0 .. MaxUses
    BY <1>3, AgentTyped, GatewayParameters DEF AskForTool
  <2>3. PICK r : r = [agent[a] EXCEPT !.pc = pc, !.uses = agent[a].uses + 1]
    OBVIOUS
  <2>4. r \in AgentStates /\ r.pc = pc /\ r.message = agent[a].message
    BY <1>1, <2>2, <2>3 DEF AgentStates, Pcs
  <2>. QED
    BY <1>2, <1>3, <2>1, <2>2, <2>3, <2>4, DisciplineAgentMoves DEF AskForTool
<1>4. CASE Consult(a) \/ SendToUser(a)
  <2>1. PICK r : r = [agent[a] EXCEPT !.pc = "working"]
    OBVIOUS
  <2>2. r \in AgentStates /\ r.pc = "working" /\ r.message = agent[a].message
    BY <1>1, <2>1 DEF AgentStates, Pcs
  <2>3. /\ agent[a].pc \in {"consulting", "sending"} /\ agent' = [agent EXCEPT ![a] = r]
        /\ UNCHANGED <<inbound, user, task, mutex>>
    BY <1>4, <2>1 DEF Consult, SendToUser
  <2>. QED  BY <1>2, <2>2, <2>3, DisciplineAgentMoves
<1>5. CASE EndRound(a)
  <2>1. PICK r : r = IF a = Loop THEN [agent[a] EXCEPT !.pc = "replying"]
                                 ELSE Resting(agent[a].rounds)
    OBVIOUS
  <2>2. [agent[a] EXCEPT !.pc = "replying"] \in AgentStates
    BY <1>1 DEF AgentStates, Pcs
  <2>3. Resting(agent[a].rounds) \in AgentStates /\ Resting(agent[a].rounds).pc = "idle"
    BY AgentTyped, RestingTyped
  <2>4. CASE a = Loop
    <3>1. r \in AgentStates /\ r.pc = "replying" /\ r.message = agent[a].message
      BY <1>1, <2>1, <2>2, <2>4 DEF AgentStates
    <3>. QED  BY <1>2, <1>5, <2>1, <3>1, DisciplineAgentMoves DEF EndRound
  <2>5. CASE a # Loop
    <3>1. r \in AgentStates /\ r.pc = "idle"
      BY <2>1, <2>3, <2>5
    <3>. QED  BY <1>5, <2>1, <2>5, <3>1, DisciplineAgentMoves DEF EndRound
  <2>. QED  BY <2>4, <2>5
<1>6. CASE \E t \in Tasks : AskForSpawn(a, t)
  <2>. USE DEF Discipline
  <2>1. PICK t \in Tasks : AskForSpawn(a, t)
    BY <1>6
  <2>2. /\ task[t] = "unused" /\ task' = [task EXCEPT ![t] = "asked"]
        /\ agent' = [agent EXCEPT ![a] = [agent[a] EXCEPT !.pc = "spawning", !.task = t]]
        /\ agent[a].pc = "working"
        /\ UNCHANGED <<inbound, user, mutex>>
    BY <2>1 DEF AskForSpawn
  <2>3. /\ task'[t] = "asked" /\ \A x \in Tasks : x # t => task'[x] = task[x]
    BY <2>2 DEF TypeOK
  <2>4. /\ agent'[a].pc = "spawning" /\ agent'[a].task = t
        /\ agent'[a].message = agent[a].message
        /\ \A b \in Agents : b # a => agent'[b] = agent[b]
    BY <1>1, <2>2 DEF TypeOK, AgentStates
  <2>5. SpawnsAreAsked'
    BY <2>2, <2>3, <2>4 DEF SpawnsAreAsked
  <2>6. LoopHasAMessage'
    BY <1>2, <2>2, <2>4 DEF LoopHasAMessage, Agents
  <2>7. OnlyTheReporterLocks'
    BY <2>2, <2>3 DEF OnlyTheReporterLocks
  <2>8. WaitingOnce' /\ WaitingWerePublished'
    BY <2>2, <2>3, WaitingFrame
  <2>9. PublishersHaveWritten'
    BY <2>2 DEF PublishersHaveWritten
  <2>. QED  BY <2>5, <2>6, <2>7, <2>8, <2>9
<1>7. CASE Spawn(a)
  <2>. USE DEF Discipline
  <2>1. /\ agent[a].pc = "spawning" /\ mutex = Nobody
        /\ agent' = [agent EXCEPT ![a] = [agent[a] EXCEPT !.pc = "working", !.task = Nobody]]
        /\ task' = [task EXCEPT ![agent[a].task] = "spawned"]
        /\ UNCHANGED <<inbound, user, mutex>>
    BY <1>7 DEF Spawn
  <2>2. PICK t \in Tasks : t = agent[a].task /\ task[t] = "asked"
    BY <2>1 DEF SpawnsAreAsked
  <2>3. task'[t] = "spawned" /\ \A x \in Tasks : x # t => task'[x] = task[x]
    BY <2>1, <2>2 DEF TypeOK
  <2>4. /\ agent'[a].pc = "working" /\ agent'[a].message = agent[a].message
        /\ \A b \in Agents : b # a => agent'[b] = agent[b]
    BY <1>1, <2>1 DEF TypeOK, AgentStates
  <2>5. SpawnsAreAsked'
    BY <2>1, <2>2, <2>3, <2>4 DEF SpawnsAreAsked
  <2>6. LoopHasAMessage'
    BY <1>2, <2>1, <2>4 DEF LoopHasAMessage, Agents
  <2>7. OnlyTheReporterLocks'
    BY <2>1, <2>2, <2>3 DEF OnlyTheReporterLocks
  <2>8. WaitingOnce' /\ WaitingWerePublished'
    BY <2>1, <2>2, <2>3, WaitingFrame
  <2>9. PublishersHaveWritten'
    BY <2>1 DEF PublishersHaveWritten
  <2>. QED  BY <2>5, <2>6, <2>7, <2>8, <2>9
<1>. QED  BY <1>3, <1>4, <1>5, <1>6, <1>7 DEF RoundStep

LEMMA DisciplineReply ==
  ASSUME TypeOK, Discipline, Reply
  PROVE  Discipline'
<1>1. Loop \in Agents /\ 0 \in 0 .. MaxRounds
  BY GatewayParameters DEF Agents
<1>2. Resting(0) \in AgentStates /\ Resting(0).pc = "idle"
  BY <1>1, RestingTyped
<1>. QED  BY <1>1, <1>2, DisciplineAgentMoves DEF Reply

LEMMA DisciplineTimer ==
  ASSUME TypeOK, Discipline, NEW a \in Timers, TimerFires(a)
  PROVE  Discipline'
<1>1. a \in Agents /\ a # Loop
  BY GatewayParameters DEF Agents
<1>2. agent[a] \in AgentStates /\ agent[a].rounds - 1 \in 0 .. MaxRounds
  BY <1>1, AgentTyped, GatewayParameters DEF TimerFires
<1>3. PICK r : r = [agent[a] EXCEPT !.pc = "working", !.rounds = agent[a].rounds - 1]
  OBVIOUS
<1>4. r \in AgentStates /\ r.pc = "working"
  BY <1>2, <1>3 DEF AgentStates, Pcs
<1>. QED  BY <1>1, <1>3, <1>4, DisciplineAgentMoves DEF TimerFires

\* A task moves on that was not asked for, without taking or giving the mutex.
LEMMA DisciplineTaskMoves ==
  ASSUME TypeOK, Discipline, NEW t \in Tasks, NEW s \in TaskStates,
         task[t] \notin {"asked", "reporting", "reported"}, s # "reporting",
         task' = [task EXCEPT ![t] = s],
         UNCHANGED <<inbound, user, agent, mutex>>
  PROVE  Discipline'
<1>. USE DEF Discipline
<1>1. task'[t] = s /\ \A x \in Tasks : x # t => task'[x] = task[x]
  BY DEF TypeOK
<1>2. SpawnsAreAsked'
  BY <1>1, SpawnsFrame
<1>3. OnlyTheReporterLocks'
  BY <1>1 DEF OnlyTheReporterLocks
<1>4. WaitingOnce' /\ WaitingWerePublished'
  BY <1>1, WaitingFrame
<1>5. PublishersHaveWritten' /\ LoopHasAMessage'
  BY DEF PublishersHaveWritten, LoopHasAMessage
<1>. QED  BY <1>2, <1>3, <1>4, <1>5

LEMMA DisciplineTaskStep ==
  ASSUME TypeOK, Discipline, NEW t \in Tasks, TaskStep(t)
  PROVE  Discipline'
<1>1. CASE TaskStarts(t)
  <2>1. "working" \in TaskStates /\ "cancelled" \in TaskStates
    BY DEF TaskStates
  <2>. QED  BY <1>1, <2>1, DisciplineTaskMoves DEF TaskStarts
<1>2. CASE TaskSends(t)
  <2>1. "told" \in TaskStates
    BY DEF TaskStates
  <2>. QED  BY <1>2, <2>1, DisciplineTaskMoves DEF TaskSends
<1>3. CASE TaskLocks(t)
  <2>. USE DEF Discipline
  <2>1. /\ task[t] \in {"working", "told"} /\ mutex = Nobody /\ mutex' = t
        /\ task' = [task EXCEPT ![t] = "reporting"]
        /\ UNCHANGED <<inbound, user, agent>>
    BY <1>3 DEF TaskLocks
  <2>2. task'[t] = "reporting" /\ \A x \in Tasks : x # t => task'[x] = task[x]
    BY <2>1 DEF TypeOK
  <2>3. \A x \in Tasks : x # Nobody
    BY GatewayParameters
  <2>4. OnlyTheReporterLocks'
    BY <2>1, <2>2, <2>3 DEF OnlyTheReporterLocks
  <2>5. SpawnsAreAsked'
    BY <2>1, <2>2, SpawnsFrame
  <2>6. WaitingOnce' /\ WaitingWerePublished'
    BY <2>1, <2>2, WaitingFrame
  <2>7. PublishersHaveWritten' /\ LoopHasAMessage'
    BY <2>1 DEF PublishersHaveWritten, LoopHasAMessage
  <2>. QED  BY <2>4, <2>5, <2>6, <2>7
<1>4. CASE TaskReports(t)
  <2>. USE DEF Discipline
  <2>1. /\ task[t] = "reporting" /\ mutex' = Nobody /\ PublishInbound(Report(t))
        /\ task' = [task EXCEPT ![t] = "reported"]
        /\ UNCHANGED <<user, agent>>
    BY <1>4 DEF TaskReports, MutexAfterReport
  <2>2. task'[t] = "reported" /\ \A x \in Tasks : x # t => task'[x] = task[x]
    BY <2>1 DEF TypeOK
  <2>3. mutex = t /\ \A x \in Tasks : x # Nobody
    BY <2>1, GatewayParameters DEF OnlyTheReporterLocks
  <2>4. OnlyTheReporterLocks'
    BY <2>1, <2>2, <2>3 DEF OnlyTheReporterLocks
  <2>5. SpawnsAreAsked'
    BY <2>1, <2>2, SpawnsFrame
  <2>6. PICK m \in Messages : m = Report(t) /\ m.from = t
    BY ReportTyped
  <2>7. ~ WasPublished(m) /\ WasPublished(m)'
    BY <2>1, <2>2, <2>6, GatewayParameters DEF WasPublished
  <2>8. \A x \in Messages : WasPublished(x) => WasPublished(x)'
    BY <2>1, <2>2 DEF WasPublished
  <2>9. WaitingOnce' /\ WaitingWerePublished'
    BY <2>1, <2>6, <2>7, <2>8, WaitingAppend
  <2>10. PublishersHaveWritten' /\ LoopHasAMessage'
    BY <2>1 DEF PublishersHaveWritten, LoopHasAMessage
  <2>. QED  BY <2>4, <2>5, <2>9, <2>10
<1>. QED  BY <1>1, <1>2, <1>3, <1>4 DEF TaskStep

LEMMA DisciplineOtherStep ==
  ASSUME TypeOK, Discipline,
         DispatchOutbound \/ DispatcherStops \/ Shutdown \/ LoopStops \/ UNCHANGED vars
  PROVE  Discipline'
<1>1. CASE DispatchOutbound \/ DispatcherStops \/ Shutdown \/ UNCHANGED vars
  <2>1. UNCHANGED <<inbound, user, agent, task, mutex>>
    BY <1>1 DEF DispatchOutbound, DispatcherStops, Shutdown, vars
  <2>. QED
    BY <2>1 DEF Discipline, PublishersHaveWritten, LoopHasAMessage, SpawnsAreAsked,
       OnlyTheReporterLocks, WaitingOnce, WaitingWerePublished, WasPublished
<1>2. CASE LoopStops
  <2>1. Loop \in Agents /\ agent[Loop] \in AgentStates
    BY AgentTyped DEF Agents
  <2>2. PICK r : r = [agent[Loop] EXCEPT !.pc = "stopped"]
    OBVIOUS
  <2>3. r \in AgentStates /\ r.pc = "stopped"
    BY <2>1, <2>2 DEF AgentStates, Pcs
  <2>. QED  BY <1>2, <2>1, <2>2, <2>3, DisciplineAgentMoves DEF LoopStops
<1>. QED  BY <1>1, <1>2

LEMMA DisciplineNext ==
  ASSUME TypeOK, Discipline, [Next]_vars
  PROVE  Discipline'
<1>1. Loop \in Agents /\ Timers \subseteq Agents
  BY DEF Agents
<1>. QED
  BY <1>1, DisciplineUserStep, DisciplineConsume, DisciplineRoundStep, DisciplineReply,
     DisciplineTimer, DisciplineTaskStep, DisciplineOtherStep DEF Next, LoopStep

LEMMA InitDiscipline == Init => Discipline
<1>. SUFFICES ASSUME Init PROVE Discipline
  OBVIOUS
<1>1. \A a \in Agents : agent[a].pc = "idle"
  BY DEF Init, Resting
<1>2. Loop \in Agents /\ Len(inbound) = 0
  BY EmptySeq DEF Agents, Init
<1>3. PublishersHaveWritten /\ LoopHasAMessage /\ SpawnsAreAsked
  BY <1>1, <1>2 DEF PublishersHaveWritten, LoopHasAMessage, SpawnsAreAsked, Init
<1>4. OnlyTheReporterLocks
  BY GatewayParameters DEF OnlyTheReporterLocks, Init
<1>5. WaitingOnce /\ WaitingWerePublished
  BY <1>2 DEF WaitingOnce, WaitingWerePublished
<1>. QED  BY <1>3, <1>4, <1>5 DEF Discipline

-----------------------------------------------------------------------------
(* The way of the messages through the loop.                               *)

\* A loop that rests has no message.
RestingIsEmpty ==
  agent[Loop].pc \in {"idle", "stopped"} => agent[Loop].message = NoMessage

WayInv == RestingIsEmpty /\ UsersAreServedInOrder /\ SubagentsReportOnce

LEMMA MessagesAreSomebodys == NoMessage \notin Messages
BY GatewayParameters DEF Messages, NoMessage, Report

LEMMA WayTyped ==
  ASSUME TypeOK
  PROVE  InTheLoop \in Seq(Messages) /\ Way \in Seq(Messages) /\ Len(Way) \in Nat
<1>1. Loop \in Agents
  BY DEF Agents
<1>2. InTheLoop \in Seq(Messages)
  BY <1>1, AgentTyped DEF InTheLoop
<1>3. Way \in Seq(Messages)
  BY <1>2, ConcatProperties DEF TypeOK, Way
<1>. QED  BY <1>2, <1>3, LenProperties

\* A loop with no message takes the first one that waits.
LEMMA TakesTheFirst ==
  ASSUME NEW S, NEW s \in Seq(S), NEW w \in Seq(S), w # <<>>
  PROVE  /\ (s \o <<Head(w)>>) \o Tail(w) = (s \o <<>>) \o w
         /\ (Append(s, Head(w)) \o <<>>) \o Tail(w) = (s \o <<>>) \o w
<1>1. Head(w) \in S /\ Tail(w) \in Seq(S) /\ <<Head(w)>> \in Seq(S)
  BY RestOfSequence
<1>2. <<Head(w)>> \o Tail(w) = w
  BY HeadTailProperties, ConcatProperties, SeqEqual, <1>1
<1>3. (s \o <<Head(w)>>) \o Tail(w) = s \o w
  BY <1>1, <1>2, ConcatAssociative
<1>4. s \o <<>> = s /\ Append(s, Head(w)) = s \o <<Head(w)>>
  BY <1>1, ConcatEmptySeq, AppendIsConcat
<1>5. Append(s, Head(w)) \in Seq(S) /\ Append(s, Head(w)) \o <<>> = Append(s, Head(w))
  BY <1>1, AppendProperties, ConcatEmptySeq
<1>. QED  BY <1>3, <1>4, <1>5

\* Nothing is published, and nothing leaves the way.
LEMMA WayFrame ==
  ASSUME WayInv, UNCHANGED <<Way, user>>, RestingIsEmpty',
         \A t \in Tasks : task'[t] = "reported" <=> task[t] = "reported"
  PROVE  WayInv'
BY DEF WayInv, UsersAreServedInOrder, SubagentsReportOnce, Published

\* A message that is published goes to the end of the way.
LEMMA WayAppend ==
  ASSUME TypeOK, NEW m \in Messages, inbound' = Append(inbound, m),
         UNCHANGED <<agent, served>>
  PROVE  /\ Len(Way') = Len(Way) + 1 /\ Len(Way) \in Nat
         /\ \A i \in 1 .. Len(Way) : Way'[i] = Way[i]
         /\ Way'[Len(Way) + 1] = m
         /\ \A i \in 1 .. Len(Way') : i \in 1 .. Len(Way) \/ i = Len(Way) + 1
<1>1. inbound \in Seq(Messages) /\ served \in Seq(Messages) /\ InTheLoop \in Seq(Messages)
  BY WayTyped DEF TypeOK
<1>2. InTheLoop' = InTheLoop
  BY DEF InTheLoop
<1>3. inbound' = inbound \o <<m>> /\ <<m>> \in Seq(Messages)
  BY <1>1, AppendIsConcat
<1>4. served \o InTheLoop \in Seq(Messages)
  BY <1>1, ConcatProperties
<1>5. Way' = Way \o <<m>>
  BY <1>1, <1>2, <1>3, <1>4, ConcatAssociative DEF Way
<1>6. Way \in Seq(Messages) /\ Way' = Append(Way, m)
  BY <1>5, WayTyped, AppendIsConcat
<1>. QED  BY <1>6, AppendAgain, LenProperties

LEMMA WayUserStep ==
  ASSUME TypeOK, Discipline, WayInv, NEW u \in Users, UserWrites(u) \/ HandleMessage(u)
  PROVE  WayInv'
<1>1. user[u].sent \in 0 .. MaxMessages /\ u \notin Tasks
  BY GatewayParameters DEF TypeOK
<1>2. UNCHANGED <<agent, task, served>> /\ RestingIsEmpty'
  BY DEF UserWrites, HandleMessage, WayInv, RestingIsEmpty
<1>3. CASE UserWrites(u)
  <2>1. UNCHANGED <<inbound, agent, served>>
    BY <1>3 DEF UserWrites
  <2>2. Way' = Way
    BY <2>1 DEF Way, InTheLoop
  <2>3. \A v \in Users : Published(v)' = Published(v)
    BY <1>1, <1>3 DEF UserWrites, Published, TypeOK
  <2>. QED
    BY <1>2, <2>2, <2>3 DEF WayInv, UsersAreServedInOrder, SubagentsReportOnce
<1>4. CASE HandleMessage(u)
  <2>1. /\ user[u].pc = "publishing"
        /\ user' = [user EXCEPT ![u] = [user[u] EXCEPT !.pc = "idle"]]
        /\ inbound' = Append(inbound, UserMessage(u, user[u].sent))
    BY <1>4 DEF HandleMessage, PublishInbound
  <2>2. user[u].sent \in 1 .. MaxMessages
    BY <1>1, <2>1, GatewayParameters DEF Discipline, PublishersHaveWritten
  <2>3. /\ Published(u) = user[u].sent - 1 /\ Published(u)' = user[u].sent
        /\ \A v \in Users : v # u => Published(v)' = Published(v)
    BY <1>1, <2>1 DEF Published, TypeOK
  <2>4. PICK m \in Messages : /\ m = UserMessage(u, user[u].sent)
                             /\ m.from = u /\ m.number = user[u].sent
    BY <2>2, UserMessageTyped
  <2>5. /\ Len(Way') = Len(Way) + 1 /\ Len(Way) \in Nat
        /\ \A i \in 1 .. Len(Way) : Way'[i] = Way[i]
        /\ Way'[Len(Way) + 1] = m
        /\ \A i \in 1 .. Len(Way') : i \in 1 .. Len(Way) \/ i = Len(Way) + 1
    BY <1>2, <2>1, <2>4, WayAppend
  <2>6. SubagentsReportOnce'
    BY <1>1, <1>2, <2>4, <2>5 DEF WayInv, SubagentsReportOnce
  <2>7. UsersAreServedInOrder'
    <3>. SUFFICES ASSUME NEW v \in Users
                  PROVE  /\ \A n \in 1 .. Published(v)' :
                              \E i \in 1 .. Len(Way') : Way'[i] = UserMessage(v, n)
                         /\ \A i \in 1 .. Len(Way') :
                              Way'[i].from = v => Way'[i].number \in 1 .. Published(v)'
                         /\ \A i, k \in 1 .. Len(Way') :
                              Way'[i].from = v /\ Way'[k].from = v /\ i < k
                                => Way'[i].number < Way'[k].number
      BY DEF UsersAreServedInOrder
    <3>1. /\ \A n \in 1 .. Published(v) :
               \E i \in 1 .. Len(Way) : Way[i] = UserMessage(v, n)
          /\ \A i \in 1 .. Len(Way) : Way[i].from = v => Way[i].number \in 1 .. Published(v)
          /\ \A i, k \in 1 .. Len(Way) :
               Way[i].from = v /\ Way[k].from = v /\ i < k => Way[i].number < Way[k].number
      BY DEF WayInv, UsersAreServedInOrder
    <3>2. CASE v = u
      <4>1. \A n \in 1 .. Published(u)' : n \in 1 .. Published(u) \/ n = user[u].sent
        BY <2>2, <2>3
      <4>2. \A n \in 1 .. Published(u)' :
              \E i \in 1 .. Len(Way') : Way'[i] = UserMessage(u, n)
        BY <3>1, <3>2, <4>1, <2>4, <2>5
      <4>3. \A i \in 1 .. Len(Way') :
              Way'[i].from = u => Way'[i].number \in 1 .. Published(u)'
        BY <3>1, <3>2, <2>2, <2>3, <2>4, <2>5
      <4>4. \A i, k \in 1 .. Len(Way') :
              Way'[i].from = u /\ Way'[k].from = u /\ i < k => Way'[i].number < Way'[k].number
        <5>. SUFFICES ASSUME NEW i \in 1 .. Len(Way'), NEW k \in 1 .. Len(Way'),
                             Way'[i].from = u, Way'[k].from = u, i < k
                      PROVE  Way'[i].number < Way'[k].number
          OBVIOUS
        <5>1. i \in 1 .. Len(Way)
          BY <2>5
        <5>2. Way'[i] = Way[i] /\ Way[i].from = u
          BY <2>5, <5>1
        <5>3. Way[i].number \in 1 .. Published(u)
          BY <3>1, <3>2, <5>1, <5>2
        <5>4. CASE k \in 1 .. Len(Way)
          <6>1. Way'[k] = Way[k] /\ Way[k].from = u
            BY <2>5, <5>4
          <6>. QED  BY <3>1, <3>2, <5>1, <5>2, <5>4, <6>1
        <5>5. CASE k = Len(Way) + 1
          <6>1. Way'[k].number = user[u].sent
            BY <2>4, <2>5, <5>5
          <6>. QED  BY <2>2, <2>3, <5>2, <5>3, <6>1
        <5>. QED  BY <2>5, <5>4, <5>5
      <4>. QED  BY <3>2, <4>2, <4>3, <4>4
    <3>3. CASE v # u
      <4>1. Published(v)' = Published(v)
        BY <2>3, <3>3
      <4>2. \A i \in 1 .. Len(Way) : i \in 1 .. Len(Way') /\ Way'[i] = Way[i]
        BY <2>5
      <4>3. \A i \in 1 .. Len(Way') : Way'[i].from = v => i \in 1 .. Len(Way) /\ Way[i].from = v
        BY <2>4, <2>5, <3>3
      <4>4. \A n \in 1 .. Published(v) : \E i \in 1 .. Len(Way') : Way'[i] = UserMessage(v, n)
        BY <3>1, <4>2
      <4>5. \A i \in 1 .. Len(Way') : Way'[i].from = v => Way'[i].number \in 1 .. Published(v)
        BY <3>1, <4>2, <4>3
      <4>6. \A i, k \in 1 .. Len(Way') :
              Way'[i].from = v /\ Way'[k].from = v /\ i < k => Way'[i].number < Way'[k].number
        BY <3>1, <4>2, <4>3
      <4>. QED  BY <4>1, <4>4, <4>5, <4>6
    <3>. QED  BY <3>2, <3>3
  <2>. QED  BY <1>2, <2>6, <2>7 DEF WayInv
<1>. QED  BY <1>3, <1>4

LEMMA WayConsume ==
  ASSUME TypeOK, WayInv, ConsumeInbound
  PROVE  WayInv'
<1>1. Loop \in Agents /\ agent[Loop].pc = "idle" /\ agent[Loop].message = NoMessage
  BY DEF Agents, ConsumeInbound, WayInv, RestingIsEmpty
<1>2. /\ inbound \in Seq(Messages) /\ served \in Seq(Messages)
      /\ inbound # <<>> /\ inbound' = Tail(inbound)
      /\ UNCHANGED <<user, task>>
  BY DEF TypeOK, ConsumeInbound
<1>3. NextInbound = Head(inbound) /\ NextInbound \in Messages /\ NextInbound # NoMessage
  BY <1>2, RestOfSequence, MessagesAreSomebodys DEF NextInbound
<1>4. InTheLoop = <<>>
  BY <1>1 DEF InTheLoop
<1>5. Way' = Way /\ RestingIsEmpty'
  <2>1. CASE NextInbound.from \in Tasks
    <3>1. served' = Append(served, NextInbound) /\ agent' = agent
      BY <2>1 DEF ConsumeInbound
    <3>2. InTheLoop' = <<>> /\ RestingIsEmpty'
      BY <1>4, <3>1 DEF InTheLoop, WayInv, RestingIsEmpty
    <3>3. served' = Append(served, Head(inbound)) /\ inbound' = Tail(inbound)
      BY <1>2, <1>3, <3>1
    <3>4. Way = (served \o <<>>) \o inbound
      BY <1>4 DEF Way
    <3>5. Way' = (Append(served, Head(inbound)) \o <<>>) \o Tail(inbound)
      BY <3>2, <3>3 DEF Way
    <3>. QED  BY <1>2, <3>2, <3>4, <3>5, TakesTheFirst
  <2>2. CASE NextInbound.from \notin Tasks
    <3>1. /\ served' = served
          /\ agent' = [agent EXCEPT ![Loop] = [agent[Loop] EXCEPT !.pc = "working",
                                                                 !.message = NextInbound]]
      BY <2>2 DEF ConsumeInbound
    <3>2. agent'[Loop].pc = "working" /\ agent'[Loop].message = NextInbound
      BY <1>1, <3>1, AgentTyped DEF TypeOK, AgentStates
    <3>3. InTheLoop' = <<Head(inbound)>>
      BY <1>3, <3>2 DEF InTheLoop
    <3>. QED
      BY <1>2, <1>4, <3>1, <3>2, <3>3, TakesTheFirst DEF Way, RestingIsEmpty
  <2>. QED  BY <2>1, <2>2
<1>. QED  BY <1>2, <1>5, WayFrame

LEMMA WayReply ==
  ASSUME TypeOK, Discipline, WayInv, Reply
  PROVE  WayInv'
<1>1. Loop \in Agents /\ agent[Loop].pc = "replying"
  BY DEF Agents, Reply
<1>2. PICK m \in Messages : m = agent[Loop].message
  BY <1>1 DEF Discipline, LoopHasAMessage
<1>3. /\ served' = Append(served, m) /\ agent' = [agent EXCEPT ![Loop] = Resting(0)]
      /\ UNCHANGED <<inbound, user, task>>
  BY <1>2 DEF Reply
<1>4. agent'[Loop].message = NoMessage
  BY <1>1, <1>3 DEF Resting, TypeOK
<1>5. InTheLoop = <<m>> /\ InTheLoop' = <<>>
  BY <1>2, <1>4, MessagesAreSomebodys DEF InTheLoop
<1>6. Append(served, m) = served \o <<m>> /\ Append(served, m) \o <<>> = Append(served, m)
  BY AppendIsConcat, AppendProperties, ConcatEmptySeq DEF TypeOK
<1>7. Way' = Way
  BY <1>3, <1>5, <1>6 DEF Way
<1>. QED  BY <1>3, <1>4, <1>7, WayFrame DEF RestingIsEmpty

\* The other steps of the goroutines neither publish, nor take, nor end a message.
LEMMA WayAgentMoves ==
  ASSUME TypeOK, WayInv, NEW a \in Agents, NEW r \in AgentStates,
         agent' = [agent EXCEPT ![a] = r],
         a = Loop => /\ r.message = agent[a].message
                     /\ r.pc \in {"idle", "stopped"} => agent[a].pc \in {"idle", "stopped"},
         UNCHANGED <<inbound, user, served>>,
         \A t \in Tasks : task'[t] = "reported" <=> task[t] = "reported"
  PROVE  WayInv'
<1>1. agent'[a] = r /\ \A b \in Agents : b # a => agent'[b] = agent[b]
  BY DEF TypeOK
<1>2. /\ agent'[Loop].message = agent[Loop].message
      /\ agent'[Loop].pc \in {"idle", "stopped"} => agent[Loop].pc \in {"idle", "stopped"}
  BY <1>1 DEF Agents
<1>3. RestingIsEmpty'
  BY <1>2 DEF WayInv, RestingIsEmpty
<1>4. InTheLoop' = InTheLoop
  BY <1>2 DEF InTheLoop
<1>5. Way' = Way
  BY <1>4 DEF Way
<1>. QED  BY <1>3, <1>5, WayFrame

LEMMA WayRoundStep ==
  ASSUME TypeOK, Discipline, WayInv, NEW a \in Agents, RoundStep(a)
  PROVE  WayInv'
<1>1. agent[a] \in AgentStates
  BY AgentTyped
<1>2. CASE AskForTool(a)
  <2>1. PICK pc \in {"sending", "consulting"} :
          agent' = [agent EXCEPT ![a] = [agent[a] EXCEPT !.pc = pc,
                                                        !.uses = agent[a].uses + 1]]
    BY <1>2 DEF AskForTool
  <2>2. agent[a].uses + 1 \in 0 .. MaxUses
    BY <1>2, AgentTyped, GatewayParameters DEF AskForTool
  <2>3. PICK r : r = [agent[a] EXCEPT !.pc = pc, !.uses = agent[a].uses + 1]
    OBVIOUS
  <2>4. r \in AgentStates /\ r.pc = pc /\ r.message = agent[a].message
    BY <1>1, <2>2, <2>3 DEF AgentStates, Pcs
  <2>. QED  BY <1>2, <2>1, <2>3, <2>4, WayAgentMoves DEF AskForTool
<1>3. CASE Consult(a) \/ SendToUser(a)
  <2>1. PICK r : r = [agent[a] EXCEPT !.pc = "working"]
    OBVIOUS
  <2>2. r \in AgentStates /\ r.pc = "working" /\ r.message = agent[a].message
    BY <1>1, <2>1 DEF AgentStates, Pcs
  <2>3. agent' = [agent EXCEPT ![a] = r] /\ UNCHANGED <<inbound, user, task, served>>
    BY <1>3, <2>1 DEF Consult, SendToUser
  <2>. QED  BY <2>2, <2>3, WayAgentMoves
<1>4. CASE EndRound(a)
  <2>1. PICK r : r = IF a = Loop THEN [agent[a] EXCEPT !.pc = "replying"]
                                 ELSE Resting(agent[a].rounds)
    OBVIOUS
  <2>2. /\ [agent[a] EXCEPT !.pc = "replying"] \in AgentStates
        /\ Resting(agent[a].rounds) \in AgentStates
    BY <1>1, AgentTyped, RestingTyped DEF AgentStates, Pcs
  <2>3. /\ r \in AgentStates
        /\ a = Loop => r.pc = "replying" /\ r.message = agent[a].message
    BY <1>1, <2>1, <2>2 DEF AgentStates
  <2>. QED  BY <1>4, <2>1, <2>3, WayAgentMoves DEF EndRound
<1>5. CASE \E t \in Tasks : AskForSpawn(a, t)
  <2>1. PICK t \in Tasks : AskForSpawn(a, t)
    BY <1>5
  <2>2. PICK r : r = [agent[a] EXCEPT !.pc = "spawning", !.task = t]
    OBVIOUS
  <2>3. r \in AgentStates /\ r.pc = "spawning" /\ r.message = agent[a].message
    BY <1>1, <2>2 DEF AgentStates, Pcs
  <2>4. \A x \in Tasks : task'[x] = "reported" <=> task[x] = "reported"
    BY <2>1 DEF AskForSpawn, TypeOK
  <2>5. agent' = [agent EXCEPT ![a] = r] /\ UNCHANGED <<inbound, user, served>>
    BY <2>1, <2>2 DEF AskForSpawn
  <2>. QED  BY <2>3, <2>4, <2>5, WayAgentMoves
<1>6. CASE Spawn(a)
  <2>1. PICK r : r = [agent[a] EXCEPT !.pc = "working", !.task = Nobody]
    OBVIOUS
  <2>2. r \in AgentStates /\ r.pc = "working" /\ r.message = agent[a].message
    BY <1>1, <2>1 DEF AgentStates, Pcs
  <2>3. \A x \in Tasks : task'[x] = "reported" <=> task[x] = "reported"
    BY <1>6 DEF Spawn, TypeOK, Discipline, SpawnsAreAsked
  <2>4. agent' = [agent EXCEPT ![a] = r] /\ UNCHANGED <<inbound, user, served>>
    BY <1>6, <2>1 DEF Spawn
  <2>. QED  BY <2>2, <2>3, <2>4, WayAgentMoves
<1>. QED  BY <1>2, <1>3, <1>4, <1>5, <1>6 DEF RoundStep

LEMMA WayTimer ==
  ASSUME TypeOK, WayInv, NEW a \in Timers, TimerFires(a)
  PROVE  WayInv'
<1>1. a \in Agents /\ a # Loop
  BY GatewayParameters DEF Agents
<1>2. agent[a] \in AgentStates /\ agent[a].rounds - 1 \in 0 .. MaxRounds
  BY <1>1, AgentTyped, GatewayParameters DEF TimerFires
<1>3. PICK r : r = [agent[a] EXCEPT !.pc = "working", !.rounds = agent[a].rounds - 1]
  OBVIOUS
<1>4. r \in AgentStates
  BY <1>2, <1>3 DEF AgentStates, Pcs
<1>. QED  BY <1>1, <1>3, <1>4, WayAgentMoves DEF TimerFires

LEMMA WayTaskStep ==
  ASSUME TypeOK, WayInv, NEW t \in Tasks, TaskStep(t)
  PROVE  WayInv'
<1>1. UNCHANGED <<user, agent, served>> /\ RestingIsEmpty' /\ InTheLoop' = InTheLoop
  BY DEF TaskStep, TaskStarts, TaskSends, TaskLocks, TaskReports, WayInv, RestingIsEmpty,
     InTheLoop
<1>2. CASE TaskStarts(t) \/ TaskSends(t) \/ TaskLocks(t)
  <2>1. inbound' = inbound /\ \A x \in Tasks : task'[x] = "reported" <=> task[x] = "reported"
    BY <1>2 DEF TaskStarts, TaskSends, TaskLocks, TypeOK
  <2>2. Way' = Way
    BY <1>1, <2>1 DEF Way
  <2>. QED  BY <1>1, <2>1, <2>2, WayFrame
<1>3. CASE TaskReports(t)
  <2>1. /\ task[t] = "reporting" /\ task' = [task EXCEPT ![t] = "reported"]
        /\ inbound' = Append(inbound, Report(t))
    BY <1>3 DEF TaskReports, PublishInbound
  <2>2. PICK m \in Messages : m = Report(t) /\ m.from = t
    BY ReportTyped
  <2>3. /\ Len(Way') = Len(Way) + 1 /\ Len(Way) \in Nat
        /\ \A i \in 1 .. Len(Way) : Way'[i] = Way[i]
        /\ Way'[Len(Way) + 1] = m
        /\ \A i \in 1 .. Len(Way') : i \in 1 .. Len(Way) \/ i = Len(Way) + 1
    BY <1>1, <2>1, <2>2, WayAppend
  <2>4. task'[t] = "reported" /\ \A x \in Tasks : x # t => task'[x] = task[x]
    BY <2>1 DEF TypeOK
  <2>5. SubagentsReportOnce'
    <3>1. ASSUME NEW x \in Tasks
          PROVE  /\ task[x] = "reported" <=> \E i \in 1 .. Len(Way) : Way[i].from = x
                 /\ \A i, k \in 1 .. Len(Way) : Way[i].from = x /\ Way[k].from = x => i = k
      BY DEF WayInv, SubagentsReportOnce
    <3>2. ASSUME NEW x \in Tasks
          PROVE  /\ task'[x] = "reported" <=> \E i \in 1 .. Len(Way') : Way'[i].from = x
                 /\ \A i, k \in 1 .. Len(Way') : Way'[i].from = x /\ Way'[k].from = x => i = k
      <4>1. CASE x = t
        <5>1. task[t] # "reported"
          BY <2>1
        <5>2. \A i \in 1 .. Len(Way) : Way[i].from # t
          BY <3>1, <5>1
        <5>3. \A i \in 1 .. Len(Way') : Way'[i].from = t => i = Len(Way) + 1
          BY <2>3, <5>2
        <5>4. Len(Way) + 1 \in 1 .. Len(Way') /\ Way'[Len(Way) + 1].from = t
          BY <2>2, <2>3
        <5>. QED  BY <2>4, <4>1, <5>3, <5>4
      <4>2. CASE x # t
        <5>1. \A i \in 1 .. Len(Way') : Way'[i].from = x => i \in 1 .. Len(Way) /\ Way[i].from = x
          BY <2>2, <2>3, <4>2
        <5>2. \A i \in 1 .. Len(Way) : i \in 1 .. Len(Way') /\ Way'[i] = Way[i]
          BY <2>3
        <5>3. task'[x] = task[x]
          BY <2>4, <4>2
        <5>. QED  BY <3>1, <5>1, <5>2, <5>3
      <4>. QED  BY <4>1, <4>2
    <3>. QED  BY <3>2 DEF SubagentsReportOnce
  <2>6. t \notin Users /\ \A u \in Users : Published(u)' = Published(u)
    BY <1>1, GatewayParameters DEF Published
  <2>7. UsersAreServedInOrder'
    BY <2>2, <2>3, <2>6 DEF WayInv, UsersAreServedInOrder
  <2>. QED  BY <1>1, <2>5, <2>7 DEF WayInv
<1>. QED  BY <1>2, <1>3 DEF TaskStep

LEMMA WayOtherStep ==
  ASSUME TypeOK, WayInv,
         DispatchOutbound \/ DispatcherStops \/ Shutdown \/ LoopStops \/ UNCHANGED vars
  PROVE  WayInv'
<1>1. CASE DispatchOutbound \/ DispatcherStops \/ Shutdown \/ UNCHANGED vars
  <2>1. UNCHANGED <<inbound, user, agent, task, served>>
    BY <1>1 DEF DispatchOutbound, DispatcherStops, Shutdown, vars
  <2>2. Way' = Way /\ RestingIsEmpty'
    BY <2>1 DEF Way, InTheLoop, WayInv, RestingIsEmpty
  <2>. QED  BY <2>1, <2>2, WayFrame
<1>2. CASE LoopStops
  <2>1. Loop \in Agents /\ agent[Loop] \in AgentStates
    BY AgentTyped DEF Agents
  <2>2. PICK r : r = [agent[Loop] EXCEPT !.pc = "stopped"]
    OBVIOUS
  <2>3. r \in AgentStates /\ r.message = agent[Loop].message
    BY <2>1, <2>2 DEF AgentStates, Pcs
  <2>. QED  BY <1>2, <2>1, <2>2, <2>3, WayAgentMoves DEF LoopStops
<1>. QED  BY <1>1, <1>2

LEMMA WayNext ==
  ASSUME TypeOK, Discipline, WayInv, [Next]_vars
  PROVE  WayInv'
<1>1. Loop \in Agents /\ Timers \subseteq Agents
  BY DEF Agents
<1>. QED
  BY <1>1, WayUserStep, WayConsume, WayRoundStep, WayReply, WayTimer, WayTaskStep,
     WayOtherStep DEF Next, LoopStep

LEMMA InitWay == Init => WayInv
<1>. SUFFICES ASSUME Init PROVE WayInv
  OBVIOUS
<1>1. agent[Loop].message = NoMessage
  BY DEF Init, Resting, Agents
<1>2. Way = <<>>
  BY <1>1, EmptySeq, ConcatEmptySeq DEF Init, Way, InTheLoop
<1>3. Len(Way) = 0 /\ \A u \in Users : Published(u) = 0
  BY <1>2, EmptySeq DEF Published, Init
<1>4. \A t \in Tasks : task[t] # "reported"
  BY DEF Init
<1>. QED
  BY <1>1, <1>3, <1>4 DEF WayInv, RestingIsEmpty, UsersAreServedInOrder, SubagentsReportOnce

-----------------------------------------------------------------------------
(* The theorems.                                                           *)

THEOREM InvariantHolds == Spec => [](TypeOK /\ Discipline /\ WayInv)
<1>1. Init => TypeOK /\ Discipline /\ WayInv
  BY InitTyped, InitDiscipline, InitWay
<1>2. TypeOK /\ Discipline /\ WayInv /\ [Next]_vars => (TypeOK /\ Discipline /\ WayInv)'
  BY TypedNext, DisciplineNext, WayNext DEF Discipline
<1>. QED  BY <1>1, <1>2, PTL DEF Spec

\* The state of the gateway is always well typed and its channels keep their
\* capacity, for any number of users, timers and subagents.
THEOREM TypeCorrect == Spec => []TypeOK
BY InvariantHolds, PTL

\* The mutex of the subagent manager is only ever kept by a subagent that is
\* about to report, so at most one subagent is.
THEOREM ReportsAreExclusive == Spec => []OnlyTheReporterLocks
<1>1. Discipline => OnlyTheReporterLocks
  BY DEF Discipline
<1>. QED  BY <1>1, InvariantHolds, PTL

\* The messages of a user are served in order and once, and none of them is lost
\* between the adapter and the end of its round, whatever timers and subagents do.
THEOREM ServedInOrder == Spec => []UsersAreServedInOrder
<1>1. WayInv => UsersAreServedInOrder
  BY DEF WayInv
<1>. QED  BY <1>1, InvariantHolds, PTL

\* A subagent's report is on its way once, and from the end of its work on.
THEOREM ReportedOnce == Spec => []SubagentsReportOnce
<1>1. WayInv => SubagentsReportOnce
  BY DEF WayInv
<1>. QED  BY <1>1, InvariantHolds, PTL

-----------------------------------------------------------------------------
(* The bus: queues as sequences.                                           *)

LEMMA AppendToBack ==
  ASSUME NEW S, NEW r \in Seq(S), NEW b \in Seq(S), NEW m \in S,
         NEW a \in Seq(S), a = r \o b
  PROVE  Append(a, m) = r \o Append(b, m)
<1>1. <<m>> \in Seq(S)
  OBVIOUS
<1>2. Append(a, m) = a \o <<m>> /\ Append(b, m) = b \o <<m>>
  BY AppendIsConcat
<1>3. (r \o b) \o <<m>> = r \o (b \o <<m>>)
  BY <1>1, ConcatAssociative
<1>. QED  BY <1>2, <1>3

LEMMA TakeFromFront ==
  ASSUME NEW S, NEW r \in Seq(S), NEW b \in Seq(S), b # <<>>
  PROVE  /\ Len(r) < Len(r \o b)
         /\ (r \o b)[Len(r) + 1] = Head(b)
         /\ Append(r, Head(b)) \o Tail(b) = r \o b
<1>1. Len(b) \in Nat /\ Len(b) > 0 /\ Head(b) \in S /\ Tail(b) \in Seq(S)
  BY EmptySeq, HeadTailProperties
<1>2. Len(r \o b) = Len(r) + Len(b) /\ (r \o b)[Len(r) + 1] = b[1]
  BY <1>1, ConcatProperties
<1>3. b = <<Head(b)>> \o Tail(b)
  BY <1>1, HeadTailProperties, ConcatProperties
<1>4. Append(r, Head(b)) \o Tail(b) = r \o (<<Head(b)>> \o Tail(b))
  BY <1>1, AppendIsConcat, ConcatAssociative
<1>. QED  BY <1>1, <1>2, <1>3, <1>4

-----------------------------------------------------------------------------
(* Its types.                                                              *)

LEMMA PcsDiffer ==
  /\ Idle.pc = "idle" /\ Sent.pc = "sent"
  /\ \A ch : Sending(ch).pc = "sending" /\ Sending(ch).ch = ch
BY DEF Idle, Sent, Sending

LEMMA SendingPublisher ==
  ASSUME BusTypeOK, NEW p \in Publishers, publisher[p].pc = "sending"
  PROVE  publisher[p].ch \in Channels
<1>1. publisher[p] \in {Idle, Sent} \cup {Sending(ch) : ch \in Channels}
  BY DEF BusTypeOK
<1>2. PICK ch \in Channels : publisher[p] = Sending(ch)
  BY <1>1, PcsDiffer
<1>. QED  BY <1>2, PcsDiffer

LEMMA CallsAreMessages ==
  ASSUME BusTypeOK, NEW p \in Publishers, calls[p] > 0
  PROVE  <<p, calls[p]>> \in BusMessages
<1>1. calls[p] \in 1 .. MaxCalls
  BY BusParameters DEF BusTypeOK
<1>. QED  BY <1>1 DEF BusMessages

-----------------------------------------------------------------------------
(* The inductive invariant.                                                *)

\* A publisher that is sending has a message to send.
SendersHaveCalled ==
  \A p \in Publishers : publisher[p].pc = "sending" => calls[p] > 0

\* No message is lost, repeated or overtaken between the two ends of a channel.
NothingLost == \A ch \in Channels : accepted[ch] = received[ch] \o buffer[ch]

BusInv == BusTypeOK /\ SendersHaveCalled /\ NoSendOnClosed /\ NothingLost

LEMMA InvInit == BusInit => BusInv
<1>. SUFFICES ASSUME BusInit PROVE BusInv
  OBVIOUS
<1>1. BusTypeOK
  <2>1. <<>> \in Seq(BusMessages) /\ Len(<<>>) = 0
    BY EmptySeq
  <2>2. publisher \in [Publishers -> {Idle, Sent} \cup {Sending(ch) : ch \in Channels}]
    BY DEF BusInit
  <2>3. calls \in [Publishers -> 0 .. MaxCalls]
    BY BusParameters DEF BusInit
  <2>4. \A ch \in Channels : Len(buffer[ch]) <= Capacity
    BY <2>1, BusParameters DEF BusInit
  <2>5. zeros \in [Channels -> 0 .. MaxZeros]
    BY BusParameters DEF BusInit
  <2>. QED  BY <2>1, <2>2, <2>3, <2>4, <2>5 DEF BusInit, BusTypeOK
<1>2. SendersHaveCalled /\ NoSendOnClosed
  BY PcsDiffer DEF BusInit, SendersHaveCalled, NoSendOnClosed
<1>3. NothingLost
  BY ConcatEmptySeq, EmptySeq DEF BusInit, NothingLost
<1>. QED  BY <1>1, <1>2, <1>3 DEF BusInv

\* Taking the read lock and looking at the flag.
LEMMA InvPublish ==
  ASSUME BusInv, NEW p \in Publishers, NEW ch \in Channels, Publish(p, ch)
  PROVE  BusInv'
<1>. USE DEF BusInv, Publish
<1>1. calls'[p] = calls[p] + 1 /\ calls'[p] \in 0 .. MaxCalls /\ calls'[p] > 0
  BY BusParameters DEF BusTypeOK
<1>2. BusTypeOK'
  BY <1>1 DEF BusTypeOK
<1>3. SendersHaveCalled'
  <2>. SUFFICES ASSUME NEW q \in Publishers, publisher'[q].pc = "sending"
                PROVE  calls'[q] > 0
    BY DEF SendersHaveCalled
  <2>1. CASE q = p
    BY <1>1, <2>1
  <2>2. CASE q # p
    BY <2>2 DEF SendersHaveCalled, BusTypeOK
  <2>. QED  BY <2>1, <2>2
<1>4. NoSendOnClosed'
  BY PcsDiffer DEF NoSendOnClosed, BusTypeOK
<1>5. NothingLost'
  BY DEF NothingLost
<1>. QED  BY <1>2, <1>3, <1>4, <1>5

\* The send appends to the buffer what it appends to the history.
LEMMA InvSend ==
  ASSUME BusInv, NEW p \in Publishers, Send(p)
  PROVE  BusInv'
<1>. USE DEF BusInv, Send
<1>1. PICK ch \in Channels : ch = publisher[p].ch
  BY SendingPublisher
<1>2. PICK m \in BusMessages : m = <<p, calls[p]>>
  BY CallsAreMessages DEF SendersHaveCalled
<1>3. /\ buffer[ch] \in Seq(BusMessages) /\ accepted[ch] \in Seq(BusMessages)
      /\ received[ch] \in Seq(BusMessages)
  BY DEF BusTypeOK
<1>4. /\ buffer' = [buffer EXCEPT ![ch] = Append(buffer[ch], m)]
      /\ accepted' = [accepted EXCEPT ![ch] = Append(accepted[ch], m)]
      /\ received' = received
  BY <1>1, <1>2
<1>5. BusTypeOK'
  <2>1. publisher' \in [Publishers -> {Idle, Sent} \cup {Sending(c) : c \in Channels}]
    BY DEF BusTypeOK
  <2>2. buffer' \in [Channels -> Seq(BusMessages)] /\ accepted' \in [Channels -> Seq(BusMessages)]
    <3>1. Append(buffer[ch], m) \in Seq(BusMessages) /\ Append(accepted[ch], m) \in Seq(BusMessages)
      BY <1>3, AppendProperties
    <3>. HIDE DEF Send
    <3>. QED  BY <1>4, <3>1 DEF BusTypeOK
  <2>3. \A c \in Channels : Len(buffer'[c]) <= Capacity
    <3>1. Len(Append(buffer[ch], m)) = Len(buffer[ch]) + 1 /\ Len(buffer[ch]) \in Nat
      BY <1>3, AppendProperties, LenProperties
    <3>2. Len(buffer[ch]) < Capacity
      BY <1>1 DEF HasRoom
    <3>3. Len(Append(buffer[ch], m)) <= Capacity
      BY <3>1, <3>2, BusParameters
    <3>. HIDE DEF Send
    <3>. QED  BY <1>4, <3>3 DEF BusTypeOK
  <2>. QED  BY <2>1, <2>2, <2>3 DEF BusTypeOK
<1>6. SendersHaveCalled'
  BY PcsDiffer DEF SendersHaveCalled, BusTypeOK
<1>7. NoSendOnClosed'
  BY PcsDiffer DEF NoSendOnClosed, BusTypeOK
<1>8. NothingLost'
  <2>1. accepted[ch] = received[ch] \o buffer[ch]
    BY DEF NothingLost
  <2>2. Append(accepted[ch], m) = received[ch] \o Append(buffer[ch], m)
    BY <1>3, <2>1, AppendToBack
  <2>3. ASSUME NEW c \in Channels PROVE accepted'[c] = received'[c] \o buffer'[c]
    <3>. HIDE DEF Send
    <3>1. CASE c = ch
      BY <1>4, <2>2, <3>1 DEF BusTypeOK
    <3>2. CASE c # ch
      BY <1>4, <3>2 DEF NothingLost, BusTypeOK
    <3>. QED  BY <3>1, <3>2
  <2>. QED  BY <2>3 DEF NothingLost
<1>. QED  BY <1>5, <1>6, <1>7, <1>8

LEMMA InvReturn ==
  ASSUME BusInv, NEW p \in Publishers, Return(p)
  PROVE  BusInv'
<1>. USE DEF BusInv, Return
<1>1. BusTypeOK'
  BY DEF BusTypeOK
<1>2. SendersHaveCalled' /\ NoSendOnClosed'
  BY PcsDiffer DEF SendersHaveCalled, NoSendOnClosed, BusTypeOK
<1>3. NothingLost'
  BY DEF NothingLost
<1>. QED  BY <1>1, <1>2, <1>3

\* The consumer takes from the front of the buffer what it adds to the history.
LEMMA InvReceive ==
  ASSUME BusInv, NEW ch \in Channels, Receive(ch)
  PROVE  BusInv'
<1>. USE DEF BusInv, Receive, locks
<1>1. /\ buffer[ch] \in Seq(BusMessages) /\ buffer[ch] # <<>>
      /\ received[ch] \in Seq(BusMessages)
  BY DEF BusTypeOK
<1>2. /\ Head(buffer[ch]) \in BusMessages /\ Tail(buffer[ch]) \in Seq(BusMessages)
      /\ Len(Tail(buffer[ch])) = Len(buffer[ch]) - 1 /\ Len(buffer[ch]) \in Nat
  BY <1>1, HeadTailProperties, LenProperties
<1>3. BusTypeOK'
  <2>1. buffer' \in [Channels -> Seq(BusMessages)] /\ received' \in [Channels -> Seq(BusMessages)]
    BY <1>1, <1>2, AppendProperties DEF BusTypeOK
  <2>2. \A c \in Channels : Len(buffer'[c]) <= Capacity
    BY <1>2, BusParameters DEF BusTypeOK
  <2>. QED  BY <2>1, <2>2 DEF BusTypeOK
<1>4. SendersHaveCalled' /\ NoSendOnClosed'
  BY DEF SendersHaveCalled, NoSendOnClosed
<1>5. NothingLost'
  <2>1. accepted[ch] = received[ch] \o buffer[ch]
    BY DEF NothingLost
  <2>2. accepted[ch] = Append(received[ch], Head(buffer[ch])) \o Tail(buffer[ch])
    BY <1>1, <2>1, TakeFromFront
  <2>. QED  BY <2>2 DEF NothingLost, BusTypeOK
<1>. QED  BY <1>3, <1>4, <1>5

\* A zero message leaves the messages where they are.
LEMMA InvReceiveZero ==
  ASSUME BusInv, NEW ch \in Channels, ReceiveZero(ch)
  PROVE  BusInv'
<1>1. /\ UNCHANGED <<publisher, calls, writer, buffer, closed, handlers, accepted, received>>
      /\ zeros' = [zeros EXCEPT ![ch] = zeros[ch] + 1]
      /\ zeros[ch] < MaxZeros /\ zeros[ch] \in 0 .. MaxZeros
  BY DEF ReceiveZero, locks, BusInv, BusTypeOK
<1>2. zeros' \in [Channels -> 0 .. MaxZeros]
  BY <1>1, BusParameters DEF BusInv, BusTypeOK
<1>3. BusTypeOK'
  BY <1>1, <1>2 DEF BusInv, BusTypeOK
<1>4. SendersHaveCalled' /\ NoSendOnClosed' /\ NothingLost'
  BY <1>1 DEF BusInv, SendersHaveCalled, NoSendOnClosed, NothingLost
<1>. QED  BY <1>3, <1>4 DEF BusInv

\* The writers.  A writer is in its critical section only when no reader is.
LEMMA InvWriter ==
  ASSUME BusInv, NEW w \in Writers,
         WriterStep(w) \/ Announce(w, "close") \/ Announce(w, "register")
  PROVE  BusInv'
<1>. USE DEF BusInv
<1>1. CASE Close(w)
  <2>1. BusTypeOK' /\ SendersHaveCalled' /\ NothingLost'
    BY <1>1 DEF Close, BusTypeOK, SendersHaveCalled, NothingLost
  <2>2. NoSendOnClosed'
    BY <1>1 DEF Close, Enter, IsReading, NoSendOnClosed
  <2>. QED  BY <2>1, <2>2
<1>2. CASE RegisterHandler(w)
  BY <1>2 DEF RegisterHandler, BusTypeOK, SendersHaveCalled, NoSendOnClosed, NothingLost
<1>3. CASE Announce(w, "close") \/ Announce(w, "register")
  <2>1. BusTypeOK'
    BY <1>3 DEF Announce, WriterWaits, BusTypeOK
  <2>2. UNCHANGED <<publisher, calls, buffer, closed, accepted, received, zeros>>
    BY <1>3 DEF Announce
  <2>3. SendersHaveCalled' /\ NoSendOnClosed' /\ NothingLost'
    BY <2>2 DEF SendersHaveCalled, NoSendOnClosed, NothingLost
  <2>. QED  BY <2>1, <2>3
<1>. QED  BY <1>1, <1>2, <1>3 DEF WriterStep

LEMMA InvNext == BusInv /\ [BusNext]_busVars => BusInv'
<1>. SUFFICES ASSUME BusInv, [BusNext]_busVars PROVE BusInv'
  OBVIOUS
<1>1. CASE \E p \in Publishers : PublisherStep(p)
  BY <1>1, InvPublish, InvSend, InvReturn DEF PublisherStep
<1>2. CASE \E ch \in Channels : Consume(ch)
  BY <1>2, InvReceive, InvReceiveZero DEF Consume
<1>3. CASE \E w \in Writers : WriterStep(w) \/ Announce(w, "close") \/ Announce(w, "register")
  BY <1>3, InvWriter
<1>4. CASE UNCHANGED busVars
  BY <1>4 DEF busVars, locks, BusInv, BusTypeOK, SendersHaveCalled, NoSendOnClosed, NothingLost
<1>. QED  BY <1>1, <1>2, <1>3, <1>4 DEF BusNext

LEMMA Invariance == BusSpec => []BusInv
BY InvInit, InvNext, PTL DEF BusSpec

\* Every reachable state has the types of the code: no channel ever holds more
\* than its capacity, and no two writers are in the lock's hands.
THEOREM BusTypeCorrect == BusSpec => []BusTypeOK
<1>1. BusInv => BusTypeOK
  BY DEF BusInv
<1>. QED  BY <1>1, Invariance, PTL

\* No publisher ever sends on a channel that Close has closed (a Go panic).
THEOREM CloseIsSafe == BusSpec => []NoSendOnClosed
<1>1. BusInv => NoSendOnClosed
  BY DEF BusInv
<1>. QED  BY <1>1, Invariance, PTL

-----------------------------------------------------------------------------
(* The bus implements two FIFO queues.                                     *)

\* The next-state relation of FifoQueue, for one channel of the bus.
QueueNext(ch) ==
  \/ /\ ~closed
     /\ \E m \in BusMessages : accepted'[ch] = Append(accepted[ch], m)
     /\ received'[ch] = received[ch] /\ zeros'[ch] = zeros[ch] /\ closed' = closed
  \/ /\ Len(received[ch]) < Len(accepted[ch])
     /\ received'[ch] = Append(received[ch], accepted[ch][Len(received[ch]) + 1])
     /\ accepted'[ch] = accepted[ch] /\ zeros'[ch] = zeros[ch] /\ closed' = closed
  \/ /\ closed /\ received[ch] = accepted[ch]
     /\ zeros'[ch] = zeros[ch] + 1
     /\ accepted'[ch] = accepted[ch] /\ received'[ch] = received[ch] /\ closed' = closed
  \/ /\ closed' = TRUE
     /\ accepted'[ch] = accepted[ch] /\ received'[ch] = received[ch]
     /\ zeros'[ch] = zeros[ch]

QueueUnchanged(ch) ==
  /\ accepted'[ch] = accepted[ch] /\ received'[ch] = received[ch]
  /\ zeros'[ch] = zeros[ch] /\ closed' = closed

LEMMA QueueStep ==
  ASSUME BusInv, [BusNext]_busVars, NEW ch \in Channels
  PROVE  QueueNext(ch) \/ QueueUnchanged(ch)
<1>. USE DEF BusInv
<1>1. ASSUME NEW p \in Publishers, Send(p)
      PROVE  QueueNext(ch) \/ QueueUnchanged(ch)
  <2>1. publisher[p].ch \in Channels /\ <<p, calls[p]>> \in BusMessages
    BY <1>1, SendingPublisher, CallsAreMessages DEF Send, SendersHaveCalled
  <2>2. CASE publisher[p].ch = ch
    <3>1. ~closed
      BY <1>1 DEF Send, NoSendOnClosed
    <3>2. accepted'[ch] = Append(accepted[ch], <<p, calls[p]>>)
      BY <1>1, <2>1, <2>2 DEF Send, BusTypeOK
    <3>3. received'[ch] = received[ch] /\ zeros'[ch] = zeros[ch] /\ closed' = closed
      BY <1>1 DEF Send
    <3>. QED  BY <2>1, <3>1, <3>2, <3>3 DEF QueueNext
  <2>3. CASE publisher[p].ch # ch
    BY <1>1, <2>1, <2>3 DEF Send, BusTypeOK, QueueUnchanged
  <2>. QED  BY <2>2, <2>3
<1>2. ASSUME NEW c \in Channels, Receive(c)
      PROVE  QueueNext(ch) \/ QueueUnchanged(ch)
  <2>1. CASE c = ch
    <3>1. /\ received[ch] \in Seq(BusMessages) /\ buffer[ch] \in Seq(BusMessages)
          /\ buffer[ch] # <<>> /\ accepted[ch] = received[ch] \o buffer[ch]
      BY <1>2, <2>1 DEF Receive, BusTypeOK, NothingLost
    <3>2. /\ Len(received[ch]) < Len(accepted[ch])
          /\ accepted[ch][Len(received[ch]) + 1] = Head(buffer[ch])
      <4>1. /\ Len(received[ch]) < Len(received[ch] \o buffer[ch])
            /\ (received[ch] \o buffer[ch])[Len(received[ch]) + 1] = Head(buffer[ch])
        BY <3>1, TakeFromFront
      <4>. QED  BY <3>1, <4>1
    <3>3. /\ received'[ch] = Append(received[ch], Head(buffer[ch]))
          /\ accepted'[ch] = accepted[ch] /\ zeros'[ch] = zeros[ch] /\ closed' = closed
      BY <1>2, <2>1 DEF Receive, BusTypeOK
    <3>. QED  BY <3>2, <3>3 DEF QueueNext
  <2>2. CASE c # ch
    BY <1>2, <2>2 DEF Receive, BusTypeOK, QueueUnchanged
  <2>. QED  BY <2>1, <2>2
<1>7. ASSUME NEW c \in Channels, ReceiveZero(c)
      PROVE  QueueNext(ch) \/ QueueUnchanged(ch)
  <2>1. CASE c = ch
    <3>1. closed /\ buffer[ch] = <<>> /\ received[ch] \in Seq(BusMessages)
      BY <1>7, <2>1 DEF ReceiveZero, BusTypeOK
    <3>2. received[ch] = accepted[ch]
      BY <3>1, ConcatEmptySeq DEF NothingLost
    <3>3. /\ zeros'[ch] = zeros[ch] + 1
          /\ accepted' = accepted /\ received' = received /\ closed' = closed
      BY <1>7, <2>1 DEF ReceiveZero, BusTypeOK
    <3>. QED  BY <3>1, <3>2, <3>3 DEF QueueNext
  <2>2. CASE c # ch
    BY <1>7, <2>2 DEF ReceiveZero, BusTypeOK, QueueUnchanged
  <2>. QED  BY <2>1, <2>2
<1>3. ASSUME NEW p \in Publishers, Return(p) \/ \E c \in Channels : Publish(p, c)
      PROVE  QueueUnchanged(ch)
  BY <1>3 DEF Return, Publish, QueueUnchanged
<1>4. ASSUME NEW w \in Writers, Close(w)
      PROVE  QueueNext(ch)
  BY <1>4 DEF Close, QueueNext
<1>5. ASSUME NEW w \in Writers,
             RegisterHandler(w) \/ Announce(w, "close") \/ Announce(w, "register")
      PROVE  QueueUnchanged(ch)
  BY <1>5 DEF RegisterHandler, Announce, QueueUnchanged
<1>6. ASSUME UNCHANGED busVars PROVE QueueUnchanged(ch)
  BY <1>6 DEF busVars, QueueUnchanged
<1>. QED
  BY <1>1, <1>2, <1>3, <1>4, <1>5, <1>6, <1>7
     DEF BusNext, PublisherStep, WriterStep, Consume

\* Each channel delivers what it accepted, in order and once, accepts nothing once
\* the bus is closed, and hands out zero messages only then and after everything
\* else, however many publishers and writers there are.
THEOREM ImplementsFifo == BusSpec => IsFifo
<1>1. BusInit => Inbound!Init /\ Outbound!Init
  BY DEF BusInit, Inbound!Init, Outbound!Init, Channels
<1>2. BusInv /\ [BusNext]_busVars =>
        [Inbound!Next]_<<accepted["inbound"], received["inbound"], zeros["inbound"], closed>>
  BY QueueStep DEF Channels, QueueNext, QueueUnchanged, Inbound!Next,
       Inbound!Accept, Inbound!Receive, Inbound!ReceiveZero, Inbound!Close
<1>3. BusInv /\ [BusNext]_busVars =>
        [Outbound!Next]_<<accepted["outbound"], received["outbound"], zeros["outbound"], closed>>
  BY QueueStep DEF Channels, QueueNext, QueueUnchanged, Outbound!Next,
       Outbound!Accept, Outbound!Receive, Outbound!ReceiveZero, Outbound!Close
<1>. QED
  BY <1>1, <1>2, <1>3, Invariance, PTL DEF BusSpec, IsFifo, Inbound!Spec, Outbound!Spec
=============================================================================
