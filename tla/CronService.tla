---------------------------- MODULE CronService ----------------------------
(***************************************************************************)
(* The scheduler of the AutoClaw gateway (AutoClaw/pkg/cron/service.go)    *)
(* and the cron tool that edits its jobs while it runs                     *)
(* (AutoClaw/pkg/tools/cron.go).                                           *)
(*                                                                         *)
(* One mutex protects the in-memory store, so every critical section is    *)
(* one action.  A loop goroutine collects the due jobs in one critical     *)
(* section, and then, with the mutex released, runs them one by one: the   *)
(* job is copied in a second critical section, its handler runs with no    *)
(* lock at all, and its new state is written in a third.  Everything the   *)
(* agent does to the jobs may happen in between, and so may the death of   *)
(* the process, which leaves only jobs.json behind.                        *)
(*                                                                         *)
(* The kind and the schedule of a job never change after AddJob, so they   *)
(* are kept outside the job records: the kind of a job is the set its id   *)
(* belongs to, and at[j] is the AtMS of a one-shot job.  Ids are random    *)
(* 64-bit numbers in the code and are never reused here.                   *)
(***************************************************************************)
EXTENDS Integers, FiniteSets

CONSTANTS
  OneShotJobs,  (* ids of the jobs whose Schedule.Kind is "at"              *)
  EveryJobs,    (* ids of the jobs whose Schedule.Kind is "every"           *)
  CronJobs,     (* ids of the jobs whose Schedule.Kind is "cron"            *)
  EveryMS,      (* the interval of each "every" job; 0 is an invalid one    *)
  CronTimes,    (* the instants that the expression of a "cron" job matches *)
  HandWritten,  (* jobs found in jobs.json when the system is installed     *)
  Delays,       (* how far ahead a one-shot job is scheduled                *)
  Loops,        (* slots for the runLoop goroutines of one process          *)
  SaveMayFail,  (* may writing jobs.json fail?                              *)
  TornWrites,   (* may a crash tear the file that is being written?         *)
  MaxTime,      (* bound: the clock stops here                              *)
  Absent, NoJob, NoLoop

JobIds == OneShotJobs \cup EveryJobs \cup CronJobs

\* A nil *int64.
Nil == -1

\* CronJob: the fields that the scheduler reads or writes.
Job == [enabled: BOOLEAN, next: Nat \cup {Nil},
        command: BOOLEAN, deleteAfterRun: BOOLEAN]

ASSUME JobKinds ==
  /\ OneShotJobs \cap EveryJobs = {}
  /\ OneShotJobs \cap CronJobs = {}
  /\ EveryJobs \cap CronJobs = {}
  /\ HandWritten \subseteq JobIds
  /\ EveryMS \in [EveryJobs -> Nat]
  /\ CronTimes \in [CronJobs -> SUBSET Nat]

ASSUME Parameters ==
  /\ Delays \subseteq Nat
  /\ MaxTime \in Nat
  /\ SaveMayFail \in BOOLEAN
  /\ TornWrites \in BOOLEAN

ASSUME Sentinels ==
  /\ Absent \notin Job
  /\ NoJob \notin JobIds
  /\ NoLoop \notin Loops

VARIABLES
  now,      (* time.Now().UnixMilli(): one unit is one tick of the loops    *)
  up,       (* is the gateway process alive?                                *)
  running,  (* cs.running                                                   *)
  stopChan, (* the loop whose stop channel cs.stopChan is                   *)
  loop,     (* the runLoop goroutines                                       *)
  store,    (* cs.store.Jobs                                                *)
  disk,     (* the jobs in jobs.json ...                                    *)
  torn,     (* ... unless the file is no longer well-formed JSON            *)
  pending,  (* copies that CronTool.addJob still has to write back          *)
  at,       (* Schedule.AtMS of the one-shot jobs                           *)
  created,  (* the ids used so far                                          *)
  starts    (* history: how often the handler of a one-shot job was called  *)

service == <<up, running, stopChan>>
files   == <<disk, torn>>
history == <<at, created, starts>>
vars    == <<now, service, loop, store, files, pending, history>>

EmptyStore == [j \in JobIds |-> Absent]

-----------------------------------------------------------------------------
(* Schedules.                                                              *)

\* gronx.NextTickAfter: the first matching instant after t, or none.
NextTickAfter(j, t) ==
  LET later      == {x \in CronTimes[j] : x > t}
      IsFirst(x) == \A y \in later : x <= y
  IN  IF \E x \in later : IsFirst(x)
      THEN CHOOSE x \in later : IsFirst(x)
      ELSE Nil

\* Mutant: an instant that has passed is armed again.
ComputeNextRunPast(j, atMS, t) ==
  CASE j \in OneShotJobs -> atMS
    [] j \in EveryJobs   -> IF EveryMS[j] > 0 THEN t + EveryMS[j] ELSE Nil
    [] j \in CronJobs    -> NextTickAfter(j, t)

ComputeNextRun(j, atMS, t) ==
  CASE j \in OneShotJobs -> IF atMS > t THEN atMS ELSE Nil
    [] j \in EveryJobs   -> IF EveryMS[j] > 0 THEN t + EveryMS[j] ELSE Nil
    [] j \in CronJobs    -> NextTickAfter(j, t)

AtOf(j) == IF j \in OneShotJobs THEN at[j] ELSE Nil

NextRun(j) == ComputeNextRun(j, AtOf(j), now)

\* Mutant: the store is made anew from the enabled jobs alone.
RecomputeEnabledOnly(s) ==
  [j \in JobIds |->
     IF s[j] # Absent /\ s[j].enabled THEN [s[j] EXCEPT !.next = NextRun(j)]
                                      ELSE Absent]

RecomputeNextRuns(s) ==
  [j \in JobIds |->
     IF s[j] # Absent /\ s[j].enabled THEN [s[j] EXCEPT !.next = NextRun(j)]
                                      ELSE s[j]]

NewJob(j, atMS) ==
  [enabled        |-> TRUE,
   next           |-> ComputeNextRun(j, atMS, now),
   command        |-> FALSE,
   deleteAfterRun |-> j \in OneShotJobs]

\* Mutant: a recurring job is not armed again after its run.
AfterRunUnarmed(j) ==
  IF j \in OneShotJobs
  THEN IF store[j].deleteAfterRun
       THEN Absent
       ELSE [store[j] EXCEPT !.enabled = FALSE, !.next = Nil]
  ELSE store[j]

\* The record after a run; Absent when a one-shot job is deleted.
AfterRun(j) ==
  IF j \in OneShotJobs
  THEN IF store[j].deleteAfterRun
       THEN Absent
       ELSE [store[j] EXCEPT !.enabled = FALSE, !.next = Nil]
  ELSE [store[j] EXCEPT !.next = NextRun(j)]

\* Mutant: an instant that is missed by a tick is missed for ever.
IsDueExactly(j) == /\ store[j] # Absent
                   /\ store[j].enabled
                   /\ store[j].next # Nil
                   /\ store[j].next = now

IsDue(j) == /\ store[j] # Absent
            /\ store[j].enabled
            /\ store[j].next # Nil
            /\ store[j].next <= now

Executing(j) == \E l \in Loops : loop[l].pc = "call" /\ loop[l].job = j

Queued(j) == \E l \in Loops : j \in loop[l].due

-----------------------------------------------------------------------------
(* jobs.json is rewritten in place by os.WriteFile.  A failed write leaves *)
(* the old file or a truncated one; every caller but AddJob only logs it.  *)
(* While the file is torn, disk keeps what it held before.  The deletion of *)
(* a one-shot job after its run saves twice (removeJobUnsafe, then          *)
(* executeJobByID) in one critical section: the second write decides.       *)

SaveOk(s) == disk' = s /\ torn' = FALSE

SaveError == /\ SaveMayFail
             /\ UNCHANGED disk
             /\ torn' \in {torn, TRUE}

Save(s) == SaveOk(s) \/ SaveError

\* loadStore leaves an empty store behind when the file does not parse.
LoadedStore == IF torn THEN EmptyStore ELSE disk

-----------------------------------------------------------------------------
(* The life of the service.                                                *)

FreeLoop == [pc |-> "free", due |-> {}, job |-> NoJob,
             command |-> FALSE, stopped |-> FALSE]

\* CronService.Start: load, recompute every enabled job, save, start a loop.
StartService(l) ==
  \/ /\ torn
     /\ store' = EmptyStore
     /\ UNCHANGED <<running, stopChan, loop, files>>
  \/ /\ ~torn
     /\ store' = RecomputeNextRuns(disk)
     /\ \/ /\ SaveOk(store')
           /\ running' = TRUE
           /\ stopChan' = l
           /\ loop' = [loop EXCEPT ![l] = [FreeLoop EXCEPT !.pc = "select"]]
        \/ /\ SaveError
           /\ UNCHANGED <<running, stopChan, loop>>

\* gatewayCmd: a new process calls NewCronService and then Start.
Boot(l) ==
  /\ ~up
  /\ up' = TRUE
  /\ StartService(l)
  /\ UNCHANGED <<now, pending, history>>

\* A further Start in the same process, after a Stop or a failed Start.
Start(l) ==
  /\ up
  /\ ~running
  /\ loop[l].pc = "free"
  /\ StartService(l)
  /\ UNCHANGED <<now, up, pending, history>>

\* CronService.Stop closes the channel of the current loop and returns at once.
Stop ==
  /\ up
  /\ running
  /\ running' = FALSE
  /\ stopChan' = NoLoop
  /\ loop' = [loop EXCEPT ![stopChan].stopped = TRUE]
  /\ UNCHANGED <<now, up, store, files, pending, history>>

\* The process dies, perhaps while it is writing the file.
Crash ==
  /\ up
  /\ up' = FALSE
  /\ running' = FALSE
  /\ stopChan' = NoLoop
  /\ loop' = [l \in Loops |-> FreeLoop]
  /\ store' = EmptyStore
  /\ pending' = EmptyStore
  /\ torn' \in {torn, TornWrites \/ torn}
  /\ UNCHANGED <<now, disk, history>>

Tick == /\ now < MaxTime
        /\ now' = now + 1
        /\ UNCHANGED <<service, loop, store, files, pending, history>>

-----------------------------------------------------------------------------
(* runLoop.                                                                *)

\* Mutant: the loop forgets the jobs it has collected.
AfterJobForgets(due) == "select"

AfterJob(due) == IF due = {} THEN "select" ELSE "drain"

\* checkJobs: collect the due jobs and clear their next run.  A call that
\* finds the service stopped returns without touching anything.
CheckJobs(l) ==
  LET due == {j \in JobIds : IsDue(j)} IN
  /\ loop[l].pc = "select"
  /\ running
  /\ store' = [j \in JobIds |-> IF j \in due THEN [store[j] EXCEPT !.next = Nil]
                                             ELSE store[j]]
  /\ Save(store')
  /\ loop' = [loop EXCEPT ![l] = [@ EXCEPT !.pc = AfterJob(due), !.due = due]]
  /\ UNCHANGED <<now, service, pending, history>>

\* executeJobByID, first half: the job is gone, nothing runs.
SkipRemovedJob(l, j) ==
  /\ loop[l].pc = "drain"
  /\ j \in loop[l].due
  /\ store[j] = Absent
  /\ loop' = [loop EXCEPT ![l] = [@ EXCEPT !.pc = AfterJob(loop[l].due \ {j}),
                                          !.due = loop[l].due \ {j}]]
  /\ UNCHANGED <<now, service, store, files, pending, history>>

\* executeJobByID, first half: copy the job and call the handler.
RunJob(l, j) ==
  /\ loop[l].pc = "drain"
  /\ j \in loop[l].due
  /\ store[j] # Absent
  /\ loop' = [loop EXCEPT ![l] = [@ EXCEPT !.pc = "call",
                                          !.due = loop[l].due \ {j},
                                          !.job = j,
                                          !.command = store[j].command]]
  /\ starts' = IF j \in OneShotJobs THEN [starts EXCEPT ![j] = @ + 1] ELSE starts
  /\ UNCHANGED <<now, service, store, files, pending, at, created>>

\* Mutant: the new state of the job is not saved.
FinishJobUnsaved(l) ==
  LET j == loop[l].job IN
  /\ loop[l].pc = "call"
  /\ loop' = [loop EXCEPT ![l] = [@ EXCEPT !.pc = AfterJob(loop[l].due),
                                          !.job = NoJob,
                                          !.command = FALSE]]
  /\ store' = IF store[j] = Absent THEN store ELSE [store EXCEPT ![j] = AfterRun(j)]
  /\ UNCHANGED <<now, service, files, pending, history>>

\* executeJobByID, second half: the handler has returned.
FinishJob(l) ==
  LET j == loop[l].job IN
  /\ loop[l].pc = "call"
  /\ loop' = [loop EXCEPT ![l] = [@ EXCEPT !.pc = AfterJob(loop[l].due),
                                          !.job = NoJob,
                                          !.command = FALSE]]
  /\ \/ /\ store[j] = Absent
        /\ UNCHANGED <<store, files>>
     \/ /\ store[j] # Absent
        /\ store' = [store EXCEPT ![j] = AfterRun(j)]
        /\ Save(store')
  /\ UNCHANGED <<now, service, pending, history>>

\* The goroutine returns once it sees its closed channel; until then the
\* select may still prefer the ticker.
ExitLoop(l) ==
  /\ loop[l].pc = "select"
  /\ loop[l].stopped
  /\ loop' = [loop EXCEPT ![l] = FreeLoop]
  /\ UNCHANGED <<now, service, store, files, pending, history>>

-----------------------------------------------------------------------------
(* The cron tool.  Agent turns run in several goroutines, so its calls     *)
(* interleave with each other and with the loop.                           *)

\* CronTool.addJob up to the return of AddJob.  A failed save is reported to
\* the agent, but the job stays in memory.
AddJob(j, d, withCommand) ==
  LET atMS == IF j \in OneShotJobs THEN now + d ELSE Nil
      job  == NewJob(j, atMS)
  IN
  /\ up
  /\ j \notin created
  /\ created' = created \cup {j}
  /\ at' = IF j \in OneShotJobs THEN [at EXCEPT ![j] = atMS] ELSE at
  /\ store' = [store EXCEPT ![j] = job]
  /\ \/ /\ SaveOk(store')
        /\ pending' = IF withCommand
                      THEN [pending EXCEPT ![j] = [job EXCEPT !.command = TRUE]]
                      ELSE pending
     \/ /\ SaveError
        /\ UNCHANGED pending
  /\ UNCHANGED <<now, service, loop, starts>>

\* Mutant: the copy is written back even when the job has been removed.
UpdateJobUpserts(j) ==
  /\ up
  /\ pending[j] # Absent
  /\ pending' = [pending EXCEPT ![j] = Absent]
  /\ store' = [store EXCEPT ![j] = pending[j]]
  /\ Save(store')
  /\ UNCHANGED <<now, service, loop, history>>

\* The rest of CronTool.addJob for a job with a command: the copy made by
\* AddJob replaces the job, whatever happened to it since.
UpdateJob(j) ==
  /\ up
  /\ pending[j] # Absent
  /\ pending' = [pending EXCEPT ![j] = Absent]
  /\ \/ /\ store[j] = Absent
        /\ UNCHANGED <<store, files>>
     \/ /\ store[j] # Absent
        /\ store' = [store EXCEPT ![j] = pending[j]]
        /\ Save(store')
  /\ UNCHANGED <<now, service, loop, history>>

RemoveJob(j) ==
  /\ up
  /\ store[j] # Absent
  /\ store' = [store EXCEPT ![j] = Absent]
  /\ Save(store')
  /\ UNCHANGED <<now, service, loop, pending, history>>

EnableJob(j, enabled) ==
  /\ up
  /\ store[j] # Absent
  /\ store' = [store EXCEPT ![j] = [@ EXCEPT
                                      !.enabled = enabled,
                                      !.next = IF enabled THEN NextRun(j) ELSE Nil]]
  /\ Save(store')
  /\ UNCHANGED <<now, service, loop, pending, history>>

-----------------------------------------------------------------------------

Init ==
  /\ now = 0
  /\ up = FALSE
  /\ running = FALSE
  /\ stopChan = NoLoop
  /\ loop = [l \in Loops |-> FreeLoop]
  /\ store = EmptyStore
  /\ disk = [j \in JobIds |->
               IF j \in HandWritten
               THEN [enabled |-> TRUE, next |-> Nil,
                     command |-> FALSE, deleteAfterRun |-> FALSE]
               ELSE Absent]
  /\ torn = FALSE
  /\ pending = EmptyStore
  /\ at \in [OneShotJobs -> Delays \cup {0}]
  /\ \A j \in OneShotJobs \ HandWritten : at[j] = 0
  /\ created = HandWritten
  /\ starts = [j \in OneShotJobs |-> 0]

LoopStep(l) ==
  \/ CheckJobs(l)
  \/ FinishJob(l)
  \/ ExitLoop(l)
  \/ \E j \in JobIds : SkipRemovedJob(l, j) \/ RunJob(l, j)

\* The tool, when nobody enables a job that is enabled already.
ToolStep(j) ==
  \/ \E d \in Delays, withCommand \in BOOLEAN : AddJob(j, d, withCommand)
  \/ UpdateJob(j)
  \/ RemoveJob(j)
  \/ EnableJob(j, FALSE)
  \/ /\ store[j] # Absent /\ ~store[j].enabled
     /\ EnableJob(j, TRUE)

\* What happens while the process lives and nobody stops the service.
Operate ==
  \/ Tick
  \/ \E l \in Loops : Boot(l) \/ LoopStep(l)
  \/ \E j \in JobIds : ToolStep(j)

\* The agent may also enable a job that is enabled.
EnableAgain == \E j \in JobIds : EnableJob(j, TRUE)

\* gatewayCmd calls Start once, and Stop only on its way out.
Next ==
  \/ Operate
  \/ EnableAgain
  \/ Crash
  \/ Stop

Spec == Init /\ [][Next]_vars

\* The service used as a library: it may also be started again.
RestartNext == Next \/ \E l \in Loops : Start(l)

RestartSpec == Init /\ [][RestartNext]_vars

-----------------------------------------------------------------------------
(* What must hold.                                                         *)

LoopState == [pc: {"free", "select", "drain", "call"},
              due: SUBSET JobIds, job: JobIds \cup {NoJob},
              command: BOOLEAN, stopped: BOOLEAN]

\* The state has the types the code gives it; a goroutine that drains has jobs
\* left, one that calls a handler has a job, and one that waits has neither.
TypeOK ==
  /\ now \in Nat
  /\ up \in BOOLEAN
  /\ running \in BOOLEAN
  /\ stopChan \in Loops \cup {NoLoop}
  /\ loop \in [Loops -> LoopState]
  /\ \A l \in Loops : /\ loop[l].pc = "call" <=> loop[l].job # NoJob
                      /\ loop[l].pc = "drain" => loop[l].due # {}
                      /\ loop[l].pc \in {"free", "select"} => loop[l].due = {}
  /\ store \in [JobIds -> Job \cup {Absent}]
  /\ disk \in [JobIds -> Job \cup {Absent}]
  /\ torn \in BOOLEAN
  /\ pending \in [JobIds -> Job \cup {Absent}]
  /\ at \in [OneShotJobs -> Nat]
  /\ created \in SUBSET JobIds
  /\ starts \in [OneShotJobs -> Nat]

\* The handler of a one-shot job is called at most once, across failed saves,
\* torn files, crashes, restarts of the process, late write-backs of a stale
\* copy, and jobs that are disabled and enabled again (checkJobs clears the
\* next run before it unlocks, and computeNextRun never arms a past instant).
OneShotAtMostOnce == \A j \in OneShotJobs : starts[j] <= 1

\* While the service runs, an enabled job whose schedule still has an instant
\* to come is armed, waits in a goroutine's due list, or is being run: no
\* interleaving of the loop with the tool leaves it stranded.
EnabledJobsAreScheduled ==
  running => \A j \in JobIds :
    /\ store[j] # Absent
    /\ store[j].enabled
    /\ NextRun(j) # Nil
    => store[j].next # Nil \/ Queued(j) \/ Executing(j)

\* What a restart would load is what the running service works with: every
\* critical section that changes the store saves it before it unlocks.
DiskIsCurrent == running => disk = store /\ ~torn

\* A job that was created and is gone, from memory and from jobs.json.
Gone(j) == /\ j \in created
           /\ disk[j] = Absent
           /\ store[j] = Absent

\* A removed job never comes back: not by the update that follows its run, not
\* by a stale copy that is written back, not by a restart (RemoveJob and
\* removeJobUnsafe; executeJobByID and UpdateJob look the job up again).
RemovedStaysRemoved == [][\A j \in JobIds : Gone(j) => Gone(j)']_vars

\* A due job is run, unless somebody removes, disables or postpones it first, or
\* the gateway dies (which empties its store).
DueJobsRun ==
  \A j \in JobIds :
    (running /\ IsDue(j)) ~> \/ Executing(j)
                            \/ store[j] = Absent
                            \/ ~store[j].enabled
                            \/ store[j].next > now

\* jobs.json holds an armed one-shot job whose instant the clock will reach.
Reminder(j) == /\ ~torn
               /\ disk[j] # Absent
               /\ disk[j].enabled
               /\ disk[j].next # Nil
               /\ at[j] <= MaxTime

\* A saved reminder triggers ("Remind me in 10 minutes" triggers once after 10min,
\* README of AutoClaw), through any number of restarts before its instant.  The
\* exceptions: somebody removes or disables it first, and no gateway is up at its
\* instant or, later, before it has run.
RemindersTrigger ==
  \A j \in OneShotJobs :
    Reminder(j) ~> \/ starts[j] > 0
                   \/ disk[j] = Absent
                   \/ ~disk[j].enabled
                   \/ ~up /\ at[j] <= now

(***************************************************************************)
(* The promise, seen from outside: see CronPromise.                        *)
(***************************************************************************)
Promise == INSTANCE CronPromise
  WITH executing <- {j \in JobIds : Executing(j)},
       ran       <- {j \in OneShotJobs : starts[j] > 0},
       gone      <- {j \in JobIds : Gone(j)}

KeepsPromise == Promise!Spec
=============================================================================
