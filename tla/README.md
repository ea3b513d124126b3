# Formal models of OSS-Agent-Tools

TLA+ models of the agent tools in this repository, the TLC configurations that
check them on small instances, and theorems about them with proofs for TLAPS.
Paths below are relative to the root of the repository.

    tlc -config CronCore.cfg MCCronService.tla      # any run of the table below
    tlapm CronProofs.tla                            # any module named *Proofs

## 1. The system

The repository holds four programs that share no process.

**AutoClaw** (`AutoClaw/`, Go) is a personal agent: a gateway process that takes
messages from chat channels, hands them to a language model with tools, and writes
back. Nearly all of the concurrency of the repository is here.

| Component | State it keeps | Operations | Interacts with |
|---|---|---|---|
| Cron scheduler `pkg/cron` | jobs in memory, `jobs.json`, a loop goroutine, one mutex | Start, Stop, checkJobs, executeJobByID, AddJob, UpdateJob, RemoveJob, EnableJob | the cron tool; the handler, which runs the agent; the cron commands, through the file |
| Cron tool and commands `pkg/tools/cron.go`, `cmd/autoclaw/main.go` | none; a copy of a job, or of the whole file | add, remove, enable, disable, list | the scheduler |
| Message bus `pkg/bus` | two buffered channels, `closed`, handlers, one RWMutex | PublishInbound/Outbound, ConsumeInbound, SubscribeOutbound, RegisterHandler, Close | everybody |
| Agent loop `pkg/agent/loop.go` | the shared tools, `summarizing` | Run, processMessage, runAgentLoop, runLLMIteration, ProcessDirect, ProcessHeartbeat | bus, sessions, tools, subagents |
| Message tool `pkg/tools/message.go` | channel, chat, `sentInRound`, with no lock | SetContext, Execute, HasSentInRound | agent loop, bus |
| Subagents `pkg/tools/subagent.go`, `spawn.go` | tasks, one RWMutex | Spawn, runTask, Execute | agent loop, bus |
| Channel manager, base channel `pkg/channels` | allow list, dispatcher goroutine | HandleMessage, StartAll, StopAll, dispatchOutbound | bus, chat services |
| Sessions `pkg/session` | per chat: messages, summary; one file per session | AddFullMessage, SetHistory, SetSummary, TruncateHistory, Save, loadSessions | agent loop, summarizer |
| Heartbeat, state, devices `pkg/heartbeat`, `pkg/state`, `pkg/devices` | last channel, ticker | executeHeartbeat, SetLastChannel, send | agent loop, bus |
| Tiered memory, drift `internal/memory`, `internal/drift` | working entries by month, preferences with versions, performance | Write, Replace, RunConsolidation, Snapshot, Rollback | agent loop, memory commands |
| Providers, auth, skills, artifacts, routing, MCP, migration, voice, health | files, tokens | I/O, parsing, validation | |

**autoManage** (`autoManage/`, TypeScript) watches the trace files of agents and
shows them on a dashboard. **QuickClaw** (`QuickClaw/`, TypeScript) provisions a
workspace and its host, and leaves scripts there. **TasteKit** (`TasteKit/tastekit`,
TypeScript) interviews a user, compiles artifacts, and manages the workspace after
that.

| Component | State it keeps | Operations | Interacts with |
|---|---|---|---|
| Ingestion `autoManage/src/ingest`, `status`, `storage` | an offset and a remainder per file; rows and a status per agent in memory, exported to a file after each change | start, onFileChange, readNewLines, appendEvents, upsertStatus, pruneOldEvents, deriveStatus | trace files, the stream |
| Stream and dashboard `runtime`, `app/api`, `ui` | subscribers; per page: the card, the viewer, the alerts | publish, the two listings, applyStreamEvent | ingestion |
| Provisioning `QuickClaw/src/commands`, `core` | none; the workspace, `openclaw.json`, hooks and cron jobs | create, verify | the host's commands, the user, the agent |
| Coding scripts `core/ops/coding.ts` | a state file with a hash, an instant and a count | heartbeat, ralph loop | tmux, the coding agent |
| Interview `packages/core/interview`, `cli/.../onboard.ts` | the session file: turns, coverage, answers | onboard, resume, quit, extraction | a model, the user, compile |
| Compiler `packages/core/compiler` | artifacts, `derivation.v1.yaml` | compile, resume | the session file |
| Layout, traces `packages/core/utils`, `tracing` | artifacts and directories in one of two layouts | resolve*, migrateWorkspaceLayout, logEvent | every command |
| Drift, consolidation `packages/core/drift` | proposals, plans | detect, apply, memory-consolidate | traces, the constitution, memories |
| Trust, MCP `packages/core/trust`, `mcp` | pins, registry, bindings | add, inspect, bind, pin-mcp, audit | servers |
| Skills graph `packages/core/skills` | none | graph, recommendations | the manifest |
| Adapters, export, generators, evaluation, voice | none | formatting, one question to a model | artifacts |

Every component, modelled or not, is listed in `PROJECT.json` with its sources.

### What is hard about it

- *Interleaving.* The scheduler releases its mutex between collecting due jobs,
  running them and writing them back. The message tool has no lock, and the loop,
  cron jobs and the heartbeat share it. The summarizer rewrites a session while a
  round adds to it. Consolidation rewrites a memory the agent appends to.
- *Crash and restart.* `jobs.json` is rewritten in place; a session is in memory
  only until the round has ended; the offsets of autoManage are not kept at all.
- *Failing steps.* Saves fail silently or after memory has changed; model calls fail
  between two parts of a summary.
- *Bounded queues.* Two channels of 100; subagents publish with a mutex locked.
- *Two processes, one file.* Cron commands, memory commands and a second agent beside
  a gateway; two state managers inside one gateway; onboarding beside a compile; a
  tracer beside a migration.
- *State that outlives its round.* The flag and the chat in the message tool; the
  derivation of a compile that another session resumes.
- *Pieces.* A trace file ends in half a line, or is replaced by a shorter one; a file
  is torn when its writer is killed.
- *Two connections.* A listing and a stream reach the page in any order.
- *Programs run again.* `create`, `compile --resume`, `onboard --resume`, a migration and a
  heartbeat find what an earlier run left half-done.
- *Servers that change* between the questions of one bind.

The hazards, each at its line and with the properties that watch it, are in
`PROJECT.json`.

### What makes each component correct

- Scheduler: a one-shot job runs at most once, across everything; an enabled job
  with an instant to come is never stranded; what is removed stays removed; due jobs
  run; what a restart loads is what was running.
- Bus: each channel is a FIFO queue; nobody sends on a closed channel; publishers
  and writers get through.
- Rounds: a reaction to each message, no answer beside a message just sent, and
  messages go where they were meant.
- Gateway: messages are served once and in order, subagents report once, and nobody
  stays stuck.
- Sessions: order and latest messages survive; what leaves the history is in the
  summary; an answer that went out survives a crash.
- Ingestion: each complete line becomes one row, once, and is stored in the end; the
  agent's row says what its files say. Dashboard: the card follows the stream.
- Provisioning: success means that `verify` agrees, and repetition takes nothing from the
  user. Heartbeat: restarts exceed the budget by no more than what went wrong allows, a stall is
  one, and a stalled session is restarted.
- Interview: no answer on file is lost, no coverage undone. Compiler: success means a
  whole set of artifacts from one session; less autonomy never means fewer questions;
  compiling again succeeds.
- Workspace: a migration loses nothing; an event is counted once; an audit that is
  silent means the names and schemas of tools that were pinned; cycles and chains are those of the graph; a
  plan accounts for every memory.

## 2. The modules

| Module | Models | Composes with |
|---|---|---|
| `CronService` | `pkg/cron/service.go`, `pkg/tools/cron.go` | |
| `CronPromise` | what the scheduler promises | refined by `CronService` |
| `CronCli` | the cron commands of `main.go` | extends `CronService` |
| `FifoQueue` | a closable FIFO queue | refined by `MessageBus`, twice |
| `MessageBus` | `pkg/bus/bus.go` | |
| `AgentRounds` | Run, runAgentLoop and the message tool | |
| `Gateway` | channels, loop, timers, subagents, dispatcher | the bus as two bounded queues |
| `Sessions` | `pkg/session/manager.go`, compression and summarizer | |
| `Ingestion` | autoManage's tailer, parser, store, status, service | |
| `Dashboard` | autoManage's streams, listings and page | extends `Ingestion` |
| `Provision` | QuickClaw's `create` and `verify` | |
| `CodingOps` | the heartbeat and the ralph loop | |
| `QuickClaw` | | extends `Provision`, `CodingOps` |
| `Rubrics`, `Library`, `Compilers` | TasteKit's rubrics, skills and playbooks, compilers, as functions | |
| `Interview` | `tastekit onboard` | extends `Rubrics`, `Compilers` |
| `Compile` | `tastekit compile` | extends `Interview`, `Library` |
| `Onboarding` | both, by one user on one workspace | extends `Compile` |
| `Layout` | artifacts on disk, migration, traces | |
| `Drift` | `tastekit drift detect`, `apply` | extends `Layout` |
| `Trust` | MCP servers, pins, audits | |
| `SkillsGraph` | `tastekit skills graph` | |
| `Consolidation` | `tastekit drift memory-consolidate` | |
| `Workspace` | commands after onboarding | extends the five above |
| `CronProofs`, `GatewayProofs`, `MonitorProofs` | theorems about `CronCli` and what it extends; `Gateway` and `MessageBus`; `Dashboard` and `Ingestion` | extend these and TLAPS |
| The other `*Proofs` | theorems about the module named and what it extends | extend it and TLAPS |
| `MC*` | constants of the instances for TLC | extend the module named |

### CronService, CronCli, CronPromise

Each critical section of the mutex is one action. `CheckJobs` is a tick of
`checkJobs`: it collects the due jobs, sets their next run to nil and saves.
`RunJob` takes one collected job, if it still exists, and calls its handler, which
runs without the lock; `FinishJob` is the section after it, which looks the job up
again. `AddJob`, `UpdateJob`, `RemoveJob`, `EnableJob` are the tool's calls; `add`
of the tool is `AddJob` and, later and separately, `UpdateJob` with the copy that
`AddJob` returned. A save succeeds, or, with `SaveMayFail`, leaves the file alone
while memory has changed; `Crash` ends the process and, with `TornWrites`, may leave
a file that no longer parses, which `Boot` takes for an empty one on its way to a
service that is up but not running. `Boot` loads, recomputes every next run and
starts the loop. Time is a counter; one unit is one tick of the loop. `Delays` holds
how far ahead one-shot jobs are set, `CronTimes` the instants an expression matches.

`CronCli` adds a command as a process with a copy of the file. `SharedSpec` lets it
run beside the gateway, `OfflineSpec` only while the gateway is down, and `LiveSpec` adds
fairness to the latter. `CronPromise`
is the scheduler seen from outside: jobs begin and end, one goroutine at a time, a
one-shot job once, a removed job never.

### MessageBus, FifoQueue

The read lock is held from `Publish` to `Return`, with `Send` in between, blocked
while the channel is full. A writer first announces itself, which keeps new readers
out, and enters when the readers are gone: this is Go's RWMutex. `Consume` takes no
lock; once a channel is closed and empty, each receive from it gives a zero message, with
`ok` true (`ReceiveZero`). The gateway never calls Close, RegisterHandler or GetHandler: they are modelled
because they are the bus's interface.

### AgentRounds

One round is: set the three fields of the message tool, one store at a time; let the
model call the tool, each call of which sets the fields again (`ExecuteWithContext`) and
fills in the channel and the chat id it was not given, each by itself; answer; publish the
answer unless the flag says that the tool has sent. The loop and the
timers have rounds of their own over one tool. Histories mark what a round sent and
whether another round overlapped it.

### Gateway

Adapters write (`UserWrites`, `HandleMessage`), the loop consumes, works, may spawn
a subagent or consult one, sends and replies; timers do the same with no message; a
subagent works, may write to the user, locks the mutex, reports on the inbound queue
and unlocks; the dispatcher empties the outbound queue. Every send waits for room.
Reports are only logged by `processSystemMessage`, whatever the comments in
`main.go:610` and `cron.go:327` and the template of the heartbeat say about results
being sent to the user; `ConsumeInbound` hence deals with a report on the spot. Without a
channel no dispatcher is started (`channels/manager.go:190`): everything that
publishes then blocks after 100 answers. At shutdown the bus is not closed.

### Sessions

A round adds the question, calls of tools and their results, and the answer.
`ContextError` takes a copy of the history and `Compress` writes back half of it.
The answer is saved in two steps, `Snapshot` under the lock and `Rename` outside it;
the summarizer reads the history (`ReadHistory`), waits for the model
(`SummaryArrives`), sets the summary, truncates the history as it is by then, and
saves. A message is its number and its role; a summary is the set of numbers it
covers: what it was made from. `gone` collects what was given up openly: dropped by
compression (which tells the user), results of tools and oversized messages (which
the summarizer skips), and what a crash took from memory. `replied` has the answers that
went out, as long as memory covers them; `stale` says that the last write failed or was not of the
latest snapshot, as `newest` tells. A short history may be
summarized at any time, since its length in tokens is abstracted.

### Ingestion, Dashboard

A line is two pieces of text, of which a reader may find the first only (`Append1`,
`FinishLine`); `Rotate` empties a file; `Tick` is the clock. A file that has changed is
*dirty* until the watcher reports it. `HandleFile` is the whole handler of a change, which the code
runs without giving way: read from the offset, cut into lines with the remainder, parse,
and, if there is an event (`Ingest`), derive and store the status, store and prune the
events, publish. Either of the two exports of the database may fail (`AgentSaveFails`,
`EventSaveFails`), and the process may end in one or between them (`CrashWhileSaving`); a
write goes over the file in place, so that it may leave the old content, an empty file, which
opens as a new database, or a torn one (`disk` is `None`), which never opens again. Lines of one instant
have equal time stamps, and the stable sort lets the one read last win. The next life
of the service reads every file from the start. In `Dashboard` the server answers the two
listings at one instant and the page receives the answer at another; the stream is a
sequence that the page consumes one event at a time, and that breaks when the process ends.

### Provision, CodingOps

`create` is a program; `pc` is its next step, each step an action, in the order of
`create.ts`. A command succeeds, fails or is killed; `runShell` gives 0 for the latter.
Meanwhile the user edits `openclaw.json`, the agent writes its memory and the
gateway comes and goes. `create` may be interrupted between two steps and run again.
`faults` collects what went wrong outside the program, so that properties can except
it by name. `CodingOps` translates the two scripts from the strings in `coding.ts`; the
heartbeat reads its file (`Read`), looks at the pane and decides (`Look`), restarts, and writes the
file. It may be killed in between (`Abort`); `>` empties the file before it is written, so that a kill or a full
disk leaves it empty (`LoseFile`), which reads as no restarts; and several may run across
each other, since nothing prevents it. `aborts`, `losses` and `overlaps` count these. A pane may come back to
what it showed; `back` says that it has, unseen, since the clock was started. Time is an age,
capped by the window. `verify` runs two commands of its own, which may fail (`RuntimeCommands`).

### Interview, Compile, Onboarding

The interview is a loop: a reply of the model updates the coverage (with cascades, in
twentieths), is saved, and the user answers, skips or leaves. What the model may reply
depends on the rubric of its prompt, which is the domain's of the moment; a reply may name
dimensions that the resumed session does not have, and a confidence only grows. At the end the model
extracts the answers, which may lack the shape that was asked for. A compile reads
the session once, resumes or begins a derivation, and writes its files one at a time
in five steps; each step may fail or be killed between two files and writes the
derivation at its end. `disk` says of a file which session and answers it was compiled from. What
the compilers write is in `Compilers` and `Library` as functions of answers and domain,
in so far as something else depends on it: approvals, limits, blocked tools, variables
and skills of playbook steps.

### Layout, Drift, Trust, SkillsGraph, Consolidation, Workspace

`Program` is the sequence of copies of `migrateWorkspaceLayout`; the migration walks
through it and may be killed anywhere, tearing the file it is at. `latest` and `entries`
record what was last written where readers look (`import` and `drift apply` may write elsewhere,
see section 5), and for traces what a run has recorded, wherever it went. `detect` reads all traces and
counts; a torn line makes it throw. A bind lists the tools of a server and then asks
for its fingerprint, so that a server may change in between. What a server lists has a part that
the fingerprint covers (`Hashed`: tool names and schemas, resource URIs, prompt names) and one that it does not (annotations,
which are bound as risk hints); a listing of resources or prompts that fails counts as empty (`Shown`), while one of tools fails the command. The fields `of`
remember what the server really had. The calls of one fingerprint are one step, and so are those of an inspect. `analyzeSkillGraph` is a sequence of recursive functions over the skills and their
relations. `Dfs` is the search of `detectCycles`: what is called `depth` bounds its recursion by the
number of skills, which no path exceeds, `before` is its stack, and a search is the colors and the cycles
so far. Skills have ids of their own (`WorkspaceAssumption`), as the compiler gives each skill a
directory that has its id (`skills-compiler.ts:73`); a manifest written by hand with an id twice may have two
pipelines that share that skill. A behaviour of `Workspace` does as much of each as its case
has budget for.

## 3. The runs

| Run | Asks | Result |
|---|---|---|
| `cron_core` | `OneShotAtMostOnce`, `EnabledJobsAreScheduled`, `RemovedStaysRemoved`, and the refinement of `CronPromise`, with failing saves, torn files, crashes and restarts | holds |
| `cron_live` | `AddedJobsAreKept`, `DiskIsCurrent`, `DueJobsRun`, `RemindersTrigger`, with commands while the gateway is down, crashes and restarts, and saves that succeed | holds |
| `bus` | refinement of two FIFO queues, no send on a closed channel, publishers and writers return (`EverybodyReturns`) | holds |
| `rounds` | `NoReplyAfterSend`, `NoSilentRound`, `NothingStrays` | holds |
| `rounds_duplicate` | `NoDuplicateReply` in a single round | violated: a call of the tool that fails resets the flag of the one that sent |
| `gateway` | `UsersAreServedInOrder`, `SubagentsReportOnce`, `MessagesAreServed`, `SpawnedTasksReport` | holds |
| `gateway_deadlock` | `SpawnedTasksReport` with a full queue | violated: the reporter holds the mutex the only consumer waits for |
| `sessions` | `MessagesInOrder`, `NothingForgotten`, `RepliesAreOnDisk`, `SummaryRemembers` | holds |
| `monitor` | `EachLineOnce`, `StatusFollowsTrace`, `LinesAreStored`, `CardFollowsStream` | holds |
| `quickclaw` | `SuccessIsVerified`, `RerunsKeepTheHost`, `RestartBudget`, `StallIsReal`, `StalledIsRestarted` | holds |
| `onboarding` | `AnswersSurvive`, `SuccessIsWhole`, `LessAutonomyAsksMore`, `RecompilingSucceeds` | holds |
| `workspace` | `NothingIsLost`, `EventsCountOnce`, `SilenceMeansPinned`, `AnalysisIsTrue`, `PlanAccountsForAll` | holds |

Every property of a passing run comes with a mutant of a definition of the model, a
plausible bug, which violates it; the mutants stand next to the definitions and
are marked as such.

Many properties except something by name: `faults`, `spoiled`, `mixed`, `astray`,
`changed`, `half`, `mishaps`, `stale`, rounds that overlap. Each exception is a fault that the code does not
handle, and section 5 says what happens then.

### Bounds

- *Cron.* Two or three jobs of different kinds, one loop, two or three ticks, delays
  of zero and one. Jobs interact only through the store and the file as a whole, so a
  second job is enough for one to be saved or lost with the other. Two ticks give a
  job a run, a second instant and a restart between them; `Stop` and `Crash` at every
  point do the rest. Two loops at once need `Start` to be called twice, which the gateway
  never does: the theorems allow it (`RestartSpec`), no run does.
- *Bus.* Capacity one, two publishers with two messages each, two writers: full and
  empty channels, a writer behind a blocked publisher, a second writer behind the first.
- *Rounds.* The loop and a timer, two chats on two channels, two tool calls a round.
  The state between rounds is only the tool, so `Idle` rounds repeat without a bound.
- *Gateway.* One user with two messages, one timer with one round, two subagents,
  room for three inbound messages: one more message than can be waiting while the loop
  waits for the mutex. The deadlock needs only a queue of one.
- *Sessions.* The thresholds are 4 to keep and 2 retries, as in the code, 5 messages to
  trigger a summary instead of 20, and more than 2 to summarize in two parts instead of more than
  10, so that a summary may have one part or two; no tool call or round begins after the
  seventh message. That leaves room for a second summary, a compression before, within and
  after a summary, and a crash (bound: one) between any two steps.
- *Monitor.* Two runs, so that two files interleave in one table; instants at which several lines are
  written; retention two, so that the third line prunes; a clock that makes an agent stale after one instant. A
  behaviour has one of four budgets (`MCBudgets`): three lines in one life; two lines with two
  lives, a rotation and failing exports; a page and two lines; two pages, one after the
  other, across a restart and a failing export. The four together would only multiply
  independent steps.
- *QuickClaw.* Four sets of options (preview, ask, refuse, allow), two hosts (all there
  with a readable configuration; two programs missing and an unreadable one), with and
  without secrets; two creates; two sets of steps that may fail. The heartbeat has three
  outputs of the pane, so that one may come back after two others, a window of
  three minutes, a budget of two restarts, two heartbeats that may overlap, and two faults of three
  kinds (killed, file lost, overlapping). A heartbeat takes less than a minute, since the script never waits.
- *Onboarding.* `MCCases` gives each behaviour a budget of onboards, turns, torn files, changes of
  domain, compiles and failures: two onboards with five turns, a tear and a change;
  one session that is compiled four times with two failures; two onboards between two
  compiles; and every domain in the shortest and the deepest interview, once through. A
  reply of the model says nothing, ends, resolves and skips two (with a negative delta, which
  counts for nothing), or resolves all dimensions of its domain.
- *Workspace.* Twelve cases: three migrations with two kills and three writes; migrations,
  traces and torn lines; traces before and after a migration that drift reads; drift
  applied twice; seven tools and events; three servers of which two share a command and three listings, of which two
  differ in the annotations alone, with two names, two pins, two upgrades or two binds, in four cases; all graphs of three skills with at most two distinct feeds and one requirement
  each, one of them of no skill; all plans for three memories of which some
  are similar, short, recent or salient. Three is the least number with a chain and a
  cycle that share a skill, or a merge that a third memory might join.

`CHECK_DEADLOCK FALSE` is set where the system may rest: when the gateway has shut
down, or its users and timers have used their bound, when a session has had its
last message, and in the four runs of the TypeScript programs when their budget is used up.

### Fairness

- Clock, loop and handlers of the scheduler make progress (WF): tickers fire and
  handlers are bounded by the timeouts of provider and tools. Nobody has to call the
  tool or to start a gateway again.
- Bus: senders and consumers progress (WF) and a waiting writer is admitted (WF), as
  Go's RWMutex promises.
- Gateway: SF for the steps of a goroutine that needs the mutex, since Go hands a
  mutex to a waiter that has starved and since a full queue may have room and fill up
  again; blocked senders on a Go channel are served first in, first out. WF for the
  dispatcher and the adapters. Nobody has to write, fire or spawn.
- Monitor: the watcher reports a change in the end (WF on `Notified` for each file):
  chokidar watches the directories, and the handler runs to its end. Nobody has to write, and no
  server has to live.
- QuickClaw: minutes pass between two heartbeats (SF on `Minute`; a run in between does not
  stop the clock), and a heartbeat that is due runs (WF): openclaw's cron starts it.
  No session has to print, hang or die.
- Onboarding: a compile that runs goes on (WF), and a user who wants artifacts
  compiles again (WF on `Recompile`), as the last line of a failed one asks for. Nobody has
  to answer.
- `AgentRounds`, `Sessions` and `Workspace` are checked for safety only.

## 4. What is proved

For every value of the constants that satisfies the named assumptions (the bounds
of the model included):

| Module | Theorem | Argument |
|---|---|---|
| `CronProofs` | `TypeCorrect`, `EnabledJobsStayScheduled`, over `RestartSpec` | `DownIsFree`: a process that is down has no goroutines and no copies of jobs. `PendingIsScheduled`: a copy that the tool will write back belongs to a job that was created, and has a next run if its schedule still has an instant to come. Without the latter the late write-back of the tool could strand a job. An exhausted schedule stays exhausted as the clock goes on. |
| | `OneShotOnce`, `RemovedStaysGone`, `PromiseIsKept` | `RecordOK`: a record of a one-shot job, in memory, in the file or in the tool's hands, is armed for the job's own instant or not at all. `RunOK`: a job that waits to run or was started is past its instant, and once its handler has returned no record arms it and no copy is left to overwrite it. `OneLoop`: the gateway has one loop. The refinement follows from that and from the invariants above, action by action. |
| | `DiskKeepsUp`, `AddedJobsStay`, `OfflineDiskKeepsUp` | While no save fails every critical section ends with memory and file equal, up to the next runs that a restart computes. `CliInv`: a command's copy is the file, since the gateway is down as long as it is held, and what was promised is in both. |
| `GatewayProofs`, the bus | `BusTypeCorrect`, `CloseIsSafe`, `ImplementsFifo` | `NothingLost`: what was accepted is what was received followed by the buffer; a sender holds the read lock, so a writer cannot be inside; a channel that is empty has delivered what it accepted, so zero messages come last. |
| `GatewayProofs`, the gateway | `TypeCorrect`, `ReportsAreExclusive` | Messages under way are pairwise different and were published; whoever holds the mutex is a subagent about to report. |
| | `ServedInOrder`, `ReportedOnce` | Both are inductive beside `RestingIsEmpty`, a loop that rests has no message: what is dealt with, what the loop has, and the queue are one sequence, to which a step appends at the end or along which it moves. Moving along it changes nothing of it, and only a publisher's own message is appended. |
| `AgentRoundsProofs` | `TypeCorrect`, `NobodyIsIgnored`, `LastSendSilences`, `MessagesStay` | `RoundOK` ties, while no other round overlaps, each field of the tool to the round that set it; `Overlaps` says that two active rounds are both marked. |
| `SessionsProofs` | `OrderIsKept`, `LatestMessagesStay` | The copy that compression took and the snapshots that are being written are in order too, and their numbers are below the next one; the copy has the latest messages because only the round that holds it adds any. |
| | `NothingIsForgotten`, `SummariesRemember` | `KeptInv`: the copy of a compression has, with the summary and what was given up, all that was said; and while no message came since the summarizer read the history, all but the messages to keep is covered by the summary it writes, whatever compression has cut meanwhile. |
| | `RepliesAreSaved` | `DiskInv`: memory, and the latest snapshot, which may replace the file, have every answer that was given and that memory has not dropped since; so has the file, unless the last write failed or was of an older snapshot. A snapshot that the summarizer takes between the answer and the round's save has the answer too, since it is the last message. |
| `MonitorProofs` | `EachLineIsStoredOnce` | `OnceInv`: the offset is the length of what was read of each file, the remainder is its last, unfinished line, and the rows of this life that are still in the table are the last ones of those read, in the order of each file. |
| | `StatusFollowsTheTrace` | `FirstInv` on top: in the first life without pruning, the rows are all lines read, and the agent's row has the numbers of requests and of responses among these and an event of the greatest instant, in whatever order files were read. |
| | `CardsFollowTheStream` | `CardInv`: the last update that is on the stream and not consumed shows the agent's row; without one, a card that the stream has set does. |
| `QuickClawProofs` | `TypeCorrect`, `BudgetIsKept`, `StallsAreReal` | `Accounted`: the sessions started, and those that undecided heartbeats may start, exceed the count in the file, and the count in the hands of each running heartbeat, by at most one and what is excused; hence a stale count that is written back loses no more than the heartbeats that ran across it. `ClocksAreRight`: without overlaps, the clock in the file and in the heartbeat's hands started no earlier than the pane last changed, unless it has come back. |
| | `RerunsAreSafe`, `SuccessSatisfiesVerify` | The former is inductive beside the type invariant. `ProgressInv`: what `create` has passed stays true until it ends, step by step (`ChecksPassed`, `FilesWritten`, `HostPrepared`), whatever the user and the agent do in between, as long as no command was killed. |
| `OnboardingProofs` | `AnswersStay` | `InterviewInv`: the running command goes on from the session on file or has begun a newer one, and what it has is on file when it asks. A reply of any length lowers no confidence (induction over its updates and their cascades). |
| | `SuccessLeavesAWhole`, `LessAutonomyIsSafer` | `CompileInv`: what a derivation that can be read calls done is on disk from its session, unless sessions were mixed; the running command is one step ahead of it and has written the first files of that step; success means that five steps are done. Each shipped playbook takes only what it has been given and calls only skills of its domain. For the guardrails, a comparison of the tiers. |
| `WorkspaceProofs` | `MigrationsLoseNothing`, `DetectCounts` | `LayoutInv`: which path readers resolve to at each step of the migration, that a copy that is done has what was last written, and that the lines of each trace tell the run's entries, in the one file or the other. What `detect` counts follows from the lines it reads. |
| | `PlansAccountForAll` | The plan is built group by group; what is grouped so far and what is left are disjoint and all there is. |
| | `SilenceIsConsent` | The policy has one pin for each reference, with the fingerprint that was pinned last; the fingerprint of a binding was taken of what its server had, less a listing that failed; and a bind asks no server twice, so that a name is bound once. What a fingerprint covers is a projection of a listing: silence says nothing of annotations. |
| | `AnalysesAreTrue` | Each function of the analysis is a recursion that keeps what was true at its beginning. For the pipelines: all that chains have is visited, and a source, whose id no other skill has, is visited by its own chain only. For the cycles `SearchOK`: the gray skills are those of the path, which is a path of the graph; what was reported are cycles; and as long as nothing was reported, edges from black skills lead to black ones and no walk among them goes on forever. A search of depth k keeps this if k and the path together are as long as there are skills (induction over k; that a path without repetitions is no longer is the pigeonhole principle). In the end all skills are black, so that a cycle without a report would be such a walk. |

Each invariant that carries a theorem was first checked with TLC on the instance of the
run that checks the property.

Some theorems assume more than the modules declare. `LatestMessagesStay` assumes `Keep <= 4`, the
value of the code (with more to keep, compression may take some of them).
`DiskKeepsUp`, `AddedJobsStay` and `OfflineDiskKeepsUp` assume `~SaveMayFail`, the last two also
`~TornWrites`, as the run `cron_live` does: with a save that fails they are false.

The library states induction with an operator as a parameter, which none of the provers can
instantiate. `NumberInduction`, in five modules, is the same principle for a set of numbers, from the fact that a set of
numbers that is not empty has a least element; recursive functions over sequences
(`Only`, `Updated`, `Inferred`, `Dfs` and others) are shown to exist with it, and then to do what is said
of them. This is why the models have recursive functions there, and folds only where nothing is
proved.

`ReportsAreExclusive`, `LatestMessagesStay` and the type invariants
are stated by theorems only. Of the runs' properties, only those of liveness under
fairness are model-checked and not proved, since the proof system does not reach them: `DueJobsRun`,
`RemindersTrigger`, `EverybodyReturns`, `MessagesAreServed`, `SpawnedTasksReport`, `LinesAreStored`,
`StalledIsRestarted`, `RecompilingSucceeds`. Of the analysis of skills, the orphans, hubs, missing references
and pipeline paths (`getPipelinePath`) are modelled, and no property is about them.

## 5. Where the code does less than one might think

What the models show of the code beyond the properties that hold. The first five can be reproduced with a run's cfg and a few changes:

- *A reminder of a gateway that was down never triggers*: `Start` recomputes a past instant
  to nil, and so does `AddJob` with one that has come already. `CronLive.cfg` and
  `RemindersTrigger` less its last exception.
- *A job that `cron add` reported is lost*: the gateway saves its own copy over it.
  `MCCronCli` with `SharedSpec` and `AddedJobsAreKept`, `EveryJobs = {every1}`, no other job and none in `HandWritten`.
- *A command is not answered*: the flag of the round before is read. `MCAgentRounds` with
  `Timers = {}` and the invariant `CommandsAreAnswered`.
- *A summary in two parts starts from nothing*: `MCSessions` with `SummaryRemembers` less its exception
  for a summary in two parts (`"parts"`).
- *The heartbeat exceeds its budget*: `MCQuickClaw` with `RestartBudget` less `losses`, `aborts` or
  `overlaps`; *it restarts a session that works*: with `StallIsReal` less `back`.

AutoClaw, besides:

- The tool's `add` is two critical sections (`tools/cron.go:190`): the loop may run the job in between, without its command.
- The answer of an agent job is discarded (`tools/cron.go:327`), and an answer is dropped
  also when the tool wrote to another chat (`agent/loop.go:178`).
- An answer is published beside a message of the tool if a later call of the tool in the same
  round has failed (`rounds_duplicate`): the flag tells of the last call. A model that names only a channel
  writes there to the chat id of its round, whoever that is (`tools/message.go:77`).
- A round that overlaps another may find the other's chat, or half of it, and the other's flag in the tool.
- A closed bus hands out zero messages for ever, as if they had been sent (`bus/bus.go:35`); the gateway never closes it.
- A subagent cancelled before it starts reports nothing (`tools/subagent.go:113`).
- The file lacks the last answer when a write fails, which nobody is told, and when the summarizer and the round
  rename their snapshots in the wrong order (`session/manager.go:229`), until the next save.
- `forceCompression` in a tool loop may cut between a call and its results (`agent/loop.go:784`).
- `Stop` returns while a handler runs; a `Start` after it makes a second loop (`cron/service.go:114`).
- The heartbeat's state manager reads the last channel once (`heartbeat/service.go:61`); the version
  of the next snapshot of preferences is kept in memory only (`internal/memory/preferences.go:99`).

autoManage:

- A restart reads all files again, so that rows are doubled; a request of the first life
  with the batch of a restart keeps an agent "blocked". Responses are subtracted, not matched as
  `Planning/01-architecture-and-phases.md:73` says: one to another request unblocks
  (`status/derive.ts:36`). Nothing starts the service
  after a restart until a page is loaded: the stream's request does not.
- An idle agent is shown as such only when it writes again. An error that is followed by
  another event in the same batch raises no alert.
- A listing that the stream has overtaken overwrites the card, and leaves gaps or
  duplicates in the viewer.
- A file that was replaced by a longer one is read from the old offset. A failing export loses lines
  in silence; a crash between two exports separates events and status. A torn `automanage.db`
  makes the promise of the store reject, which is kept (`runtime/service.ts:25`): every request fails, in later
  processes too, until somebody removes the file.
- Of events of one instant in two files, the one that is read last decides the status.

QuickClaw:

- A command that was killed has exit code `null`, which counts as success (`core/shell.ts:42`).
- With the default `allowGlobalConfigWrites: false` create cannot succeed; without `--config`, verify
  asks for the defaults, whatever create was asked.
- `openclaw.json` that does not parse is overwritten; `channels.slack` and the hook token
  are replaced. If the listing of cron jobs fails, they are added a second time.
- Creating again overwrites `MEMORY.md` and the log of today. An interrupted create leaves the report
  of the one before.
- Restarts of the heartbeat are never forgiven. A session that works is killed if its pane shows the same 120 lines
  at each look for the whole window, whatever it showed between (`core/ops/coding.ts:172`).
- The restart budget is spent again whenever the state file is left empty by a kill or a full disk
  (`core/ops/coding.ts:189`), and by one more restart for a heartbeat killed before it writes the file
  or running across another. `ralph-loop.sh` loses its backslashes to the template (`core/ops/coding.ts:63`).

TasteKit, interview and compiler:

- `/save` ends the interview with the answers that stand for none, and onboarding marks its step as done
  (`docs/quickstart.md:57`: "Save progress and quit"); compile takes them like any others and never calls
  `isSessionComplete` (`interview/session.ts:30`).
- A kill after extraction has saved and before the session is finished leaves a complete session without answers, which
  compiles to defaults. What the user has typed when the model fails is lost.
- Resuming with another depth or domain keeps the coverage of the old one. `general-agent` has
  `autonomy_boundaries` twice, so that it is never all covered. The first message of the interviewer is not in the model's history.
- After a failed compile and another interview, `--resume` mixes artifacts of both, though the
  derivation is said to hold a snapshot (`compiler/derivation.ts:7`). `--resume` on a derivation that is done does nothing and reports success.
- Answers without the shape asked for fail every compile at the first step. An autonomy that is missing asks for no
  approvals. Above a risk of 0.7 the tier from 0.5 to 0.7 asks for approval and the
  ones below do not. The legacy path takes an autonomy of 0 for 0.5.
- A change of domain leaves the old domain's skills and playbooks. A torn `session.json` blocks
  onboarding and compiling until it is removed.

TasteKit, workspace:

- `drift apply` writes the constitution of the old layout, also when readers look in the new one, marks the
  proposal applied, and a compile discards it. Applied twice, a principle is there twice. Only
  `add_principle` is carried out. Detection makes new proposals each time, and throws for ever after one torn line.
- A copy that a kill has torn is not made again; empty new directories hide the old content
  until the migration runs again; a trace that is open during the migration goes on in the
  old directory. `migrateWorkspaceLayout` is called by tests only.
- `mcp bind` replaces the file of bindings, so that unreachable servers drop out; generated guardrails are
  not saved. The fingerprint depends on the order of the tools, though the comment at `mcp/client.ts:208` says that they are sorted.
  It has no annotations: a server that makes a tool destructive, or drops the hint, is bound with other risk hints and stays silent. A listing
  of resources or prompts that fails is taken for an empty one (`mcp/client.ts:177`, `:192`: "Server may not support resources"), so that an unchanged server is reported, or
  a change goes unseen if it failed at pin and bind. A server that changes its tools in the middle of a bind is bound with the old ones and the new fingerprint.
  Two servers with one command share a pin.
- A graph that is one cycle has no chains; hubs count a relation twice when both ends declare it.
- Consolidation plans are saved and never carried out.

## 6. What is not modelled

- *I/O whose outcome is an input of the models*: channel adapters, providers, authentication, the
  other tools, devices, voice, health, logging; TasteKit's adapters, exports, generators,
  evaluation and voice, each of which reads artifacts, formats them or asks a model once, and keeps nothing.
- *Heartbeat and last channel* (AutoClaw): two state managers over one file, each
  with a copy read at its start. Nothing ties the copies together, so that there is no
  property to state beyond the defect above.
- *Tiered memory* (AutoClaw): consolidation is a command that reads, rewrites and promotes with no
  lock against an agent that appends and nothing against a crash. Every safety property
  one would state fails at once.
- *AutoClaw's copy of drift and consolidation*: the same algorithms as `Drift` and
  `Consolidation`. Its artifacts, routing, MCP client, workspaces and migration: sequential conversions.
- In the modelled components of AutoClaw: names and texts of jobs; the context fields of the spawn and
  subagent tools; fields of subagent tasks that nothing reads; two session keys that fall on
  one file name; `autoclaw agent` beside a gateway; the pairing of tool calls with
  their results, which compression may cut.
- In autoManage: statistics of the parser, settings, discovery of new workspaces, a rotation that
  cuts a character in two, several pages at once, acknowledgements and filters.
- In QuickClaw: texts of the templates, prompts, scripts that only start a program.
- In TasteKit: wording of prompts, replies and artifacts; lint and pack of skills; pins of skill sources; risk
  scores of tools; the legacy paths of trust and bindings; `--since` and `--skill`;
  observations and tensions of drift; staleness and gaps of coverage, which the command never asks for.

## 7. What is left

The order of work was scheduler with tool and commands, bus, rounds, gateway,
sessions; then ingestion with the dashboard; provisioning with the heartbeat; interview
with compiler; and the workspace. Still worth doing:

1. An abstract specification of ingestion, a log in which each line is recorded once, that
   `Ingestion` refines.
2. State managers and tiered memory, once the code gives them a lock or an order of writes to
   be checked against.
