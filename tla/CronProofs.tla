----------------------------- MODULE CronProofs -----------------------------
(***************************************************************************)
(* Theorems about the scheduler, for every set of jobs, every schedule and *)
(* every horizon.  CronService: its types, that enabled jobs stay          *)
(* scheduled, and that it implements CronPromise, whatever fails.  CronCli: *)
(* what the commands and the gateway keep while every save succeeds and    *)
(* commands are used only while no gateway runs.                           *)
(***************************************************************************)
EXTENDS CronCli, TLAPS

-----------------------------------------------------------------------------
(* The operators the actions are built from.                               *)

\* A one-shot job is armed for its own instant, and only while that is ahead.
LEMMA OneShotNextRun ==
  ASSUME NEW j \in OneShotJobs, NEW atMS, NEW t
  PROVE  ComputeNextRun(j, atMS, t) = IF atMS > t THEN atMS ELSE Nil
BY JobKinds DEF ComputeNextRun

\* An interval job is armed one interval ahead.
LEMMA EveryNextRun ==
  ASSUME NEW j \in EveryJobs, NEW atMS, NEW t
  PROVE  ComputeNextRun(j, atMS, t) = IF EveryMS[j] > 0 THEN t + EveryMS[j] ELSE Nil
<1>1. j \notin OneShotJobs /\ j \notin CronJobs
  BY JobKinds
<1>. QED  BY <1>1 DEF ComputeNextRun

\* The clock of a job never yields anything but an instant or nil.
LEMMA ComputeNextRunType ==
  ASSUME NEW j \in JobIds, NEW atMS \in Int, NEW t \in Nat
  PROVE  ComputeNextRun(j, atMS, t) \in Nat \cup {Nil}
<1>1. CASE j \in OneShotJobs
  BY <1>1, JobKinds DEF ComputeNextRun
<1>2. CASE j \in EveryJobs
  <2>1. EveryMS[j] \in Nat
    BY <1>2, JobKinds
  <2>2. ComputeNextRun(j, atMS, t) = IF EveryMS[j] > 0 THEN t + EveryMS[j] ELSE Nil
    BY <1>2, EveryNextRun
  <2>. QED  BY <2>1, <2>2
<1>3. CASE j \in CronJobs
  <2>1. j \notin OneShotJobs /\ j \notin EveryJobs
    BY <1>3, JobKinds
  <2>2. ComputeNextRun(j, atMS, t) = NextTickAfter(j, t)
    BY <1>3, <2>1 DEF ComputeNextRun
  <2>3. CronTimes[j] \subseteq Nat
    BY <1>3, JobKinds
  <2>. QED  BY <2>2, <2>3 DEF NextTickAfter
<1>. QED  BY <1>1, <1>2, <1>3 DEF JobIds

LEMMA NextRunType ==
  ASSUME TypeOK, NEW j \in JobIds
  PROVE  NextRun(j) \in Nat \cup {Nil}
<1>1. AtOf(j) \in Int
  BY DEF AtOf, TypeOK, Nil
<1>. QED  BY <1>1, ComputeNextRunType DEF NextRun, TypeOK

LEMMA RecomputeType ==
  ASSUME TypeOK, NEW s \in [JobIds -> Job \cup {Absent}]
  PROVE  RecomputeNextRuns(s) \in [JobIds -> Job \cup {Absent}]
<1>1. ASSUME NEW j \in JobIds
      PROVE  (IF s[j] # Absent /\ s[j].enabled THEN [s[j] EXCEPT !.next = NextRun(j)]
                                               ELSE s[j]) \in Job \cup {Absent}
  BY NextRunType, Sentinels DEF Job
<1>. QED  BY <1>1 DEF RecomputeNextRuns

LEMMA AfterRunType ==
  ASSUME TypeOK, NEW j \in JobIds, store[j] # Absent
  PROVE  AfterRun(j) \in Job \cup {Absent}
<1>1. store[j] \in Job
  BY DEF TypeOK
<1>. QED  BY <1>1, NextRunType DEF AfterRun, Job, Nil

LEMMA NewJobType ==
  ASSUME NEW j \in JobIds, NEW atMS \in Int, now \in Nat
  PROVE  NewJob(j, atMS) \in Job
BY ComputeNextRunType DEF NewJob, Job

\* Whatever a write of jobs.json does, the file holds a store.
LEMMA SaveType ==
  ASSUME disk \in [JobIds -> Job \cup {Absent}], torn \in BOOLEAN,
         NEW s \in [JobIds -> Job \cup {Absent}], Save(s)
  PROVE  /\ disk' \in [JobIds -> Job \cup {Absent}]
         /\ torn' \in BOOLEAN
BY DEF Save, SaveOk, SaveError

-----------------------------------------------------------------------------
(* Type correctness.                                                       *)

\* The part of TypeOK that speaks of the goroutines.
LoopsOK ==
  /\ loop \in [Loops -> LoopState]
  /\ \A l \in Loops : /\ loop[l].pc = "call" <=> loop[l].job # NoJob
                      /\ loop[l].pc = "drain" => loop[l].due # {}
                      /\ loop[l].pc \in {"free", "select"} => loop[l].due = {}

LEMMA FreeLoopOK ==
  /\ FreeLoop \in LoopState
  /\ [FreeLoop EXCEPT !.pc = "select"] \in LoopState
BY DEF FreeLoop, LoopState

\* A consistent state of a goroutine.
LoopOK(r) ==
  /\ r \in LoopState
  /\ r.pc = "call" <=> r.job # NoJob
  /\ r.pc = "drain" => r.due # {}
  /\ r.pc \in {"free", "select"} => r.due = {}

LEMMA LoopsAreOK == TypeOK => LoopsOK /\ \A l \in Loops : LoopOK(loop[l])
BY DEF TypeOK, LoopsOK, LoopOK

LEMMA MoveLoop ==
  ASSUME LoopsOK, NEW l \in Loops, NEW r, LoopOK(r), loop' = [loop EXCEPT ![l] = r]
  PROVE  LoopsOK'
BY DEF LoopsOK, LoopOK

LEMMA InitTypeOK == Init => TypeOK
<1>. SUFFICES ASSUME Init PROVE TypeOK
  OBVIOUS
<1>1. EmptyStore \in [JobIds -> Job \cup {Absent}]
  BY DEF EmptyStore
<1>2. [enabled |-> TRUE, next |-> Nil,
       command |-> FALSE, deleteAfterRun |-> FALSE] \in Job
  BY DEF Job, Nil
<1>3. disk \in [JobIds -> Job \cup {Absent}]
  BY <1>2 DEF Init
<1>4. at \in [OneShotJobs -> Nat]
  <2>1. Delays \cup {0} \subseteq Nat
    BY Parameters
  <2>. QED  BY <2>1 DEF Init
<1>5. created \in SUBSET JobIds
  BY JobKinds DEF Init
<1>6. LoopsOK
  BY FreeLoopOK DEF Init, LoopsOK, FreeLoop
<1>. QED  BY <1>1, <1>3, <1>4, <1>5, <1>6 DEF Init, TypeOK, LoopsOK

LEMMA StartServiceType ==
  ASSUME TypeOK, NEW l \in Loops, StartService(l), loop[l].pc = "free"
  PROVE  /\ running' \in BOOLEAN
         /\ stopChan' \in Loops \cup {NoLoop}
         /\ LoopsOK'
         /\ store' \in [JobIds -> Job \cup {Absent}]
         /\ disk' \in [JobIds -> Job \cup {Absent}]
         /\ torn' \in BOOLEAN
<1>1. CASE torn /\ store' = EmptyStore /\ UNCHANGED <<running, stopChan, loop, files>>
  BY <1>1 DEF TypeOK, LoopsOK, EmptyStore, files
<1>2. CASE ~torn /\ store' = RecomputeNextRuns(disk)
  <2>1. store' \in [JobIds -> Job \cup {Absent}]
    BY <1>2, RecomputeType DEF TypeOK
  <2>2. CASE /\ SaveOk(store')
             /\ running' = TRUE
             /\ stopChan' = l
             /\ loop' = [loop EXCEPT ![l] = [FreeLoop EXCEPT !.pc = "select"]]
    <3>1. LoopsOK'
      BY <2>2, FreeLoopOK DEF TypeOK, LoopsOK, FreeLoop
    <3>. QED  BY <2>1, <2>2, <3>1 DEF SaveOk
  <2>3. CASE SaveError /\ UNCHANGED <<running, stopChan, loop>>
    BY <2>1, <2>3 DEF SaveError, TypeOK, LoopsOK
  <2>. QED  BY <1>2, <1>1, <2>2, <2>3 DEF StartService
<1>. QED  BY <1>1, <1>2 DEF StartService

\* A process that is down has no goroutines and holds no copies of jobs.
DownIsFree == ~up => /\ loop = [l \in Loops |-> FreeLoop]
                     /\ pending = EmptyStore
                     /\ running = FALSE

\* One step of any kind keeps every variable in its type.
LEMMA NextTypeOK == TypeOK /\ DownIsFree /\ [RestartNext]_vars => TypeOK'
<1>. SUFFICES ASSUME TypeOK, DownIsFree, [RestartNext]_vars PROVE TypeOK'
  OBVIOUS
<1>. USE DEF history, service, files
<1>0. /\ LoopsOK
      /\ EmptyStore \in [JobIds -> Job \cup {Absent}]
  BY DEF TypeOK, LoopsOK, EmptyStore
<1>1. CASE Tick
  BY <1>1 DEF Tick, TypeOK
<1>2. ASSUME NEW l \in Loops, Boot(l) PROVE TypeOK'
  <2>1. loop[l].pc = "free"
    BY <1>2 DEF Boot, DownIsFree, FreeLoop
  <2>2. StartService(l)
    BY <1>2 DEF Boot
  <2>. QED  BY <1>2, <2>1, <2>2, StartServiceType DEF Boot, TypeOK, LoopsOK
<1>3. ASSUME NEW l \in Loops, Start(l) PROVE TypeOK'
  <2>1. loop[l].pc = "free" /\ StartService(l)
    BY <1>3 DEF Start
  <2>. QED  BY <1>3, <2>1, StartServiceType DEF Start, TypeOK, LoopsOK
<1>4. CASE Stop
  <2>2. loop' = [l \in Loops |-> IF l = stopChan THEN [loop[l] EXCEPT !.stopped = TRUE]
                                               ELSE loop[l]]
    BY <1>0, <1>4 DEF Stop, LoopsOK
  <2>3. ASSUME NEW l \in Loops
        PROVE  /\ loop'[l] \in LoopState
               /\ loop'[l].pc = loop[l].pc
               /\ loop'[l].job = loop[l].job
               /\ loop'[l].due = loop[l].due
    <3>1. loop[l] \in LoopState
      BY <1>0 DEF LoopsOK
    <3>. QED  BY <2>2, <3>1 DEF LoopState
  <2>4. loop' \in [Loops -> LoopState]
    BY <2>2, <2>3
  <2>1. LoopsOK'
    BY <1>0, <2>3, <2>4 DEF LoopsOK
  <2>. QED  BY <1>4, <2>1 DEF Stop, TypeOK, LoopsOK
<1>5. CASE Crash
  <2>1. LoopsOK'
    BY <1>5, FreeLoopOK DEF Crash, LoopsOK, FreeLoop
  <2>. QED  BY <1>5, <1>0, <2>1, Parameters DEF Crash, TypeOK, LoopsOK
<1>6. ASSUME NEW l \in Loops, CheckJobs(l) PROVE TypeOK'
  <2>. DEFINE due == {j \in JobIds : IsDue(j)}
  <2>1. store' \in [JobIds -> Job \cup {Absent}]
    <3>1. ASSUME NEW j \in JobIds
          PROVE  (IF j \in due THEN [store[j] EXCEPT !.next = Nil] ELSE store[j])
                    \in Job \cup {Absent}
      <4>1. CASE j \in due
        <5>1. store[j] \in Job
          BY <4>1 DEF IsDue, TypeOK
        <5>. QED  BY <4>1, <5>1 DEF Job
      <4>2. CASE j \notin due
        BY <4>2 DEF TypeOK
      <4>. QED  BY <4>1, <4>2
    <3>. QED  BY <1>6, <3>1 DEF CheckJobs
  <2>2. LoopsOK'
    <3>. DEFINE r == [loop[l] EXCEPT !.pc = AfterJob(due), !.due = due]
    <3>1. due \in SUBSET JobIds
      OBVIOUS
    <3>2. loop[l].pc = "select" /\ loop' = [loop EXCEPT ![l] = r]
      BY <1>6 DEF CheckJobs
    <3>. HIDE DEF due
    <3>3. LoopOK(r)
      BY <3>1, <3>2, LoopsAreOK DEF LoopOK, LoopState, AfterJob
    <3>. QED  BY <1>0, <3>2, <3>3, MoveLoop
  <2>3. Save(store')
    BY <1>6 DEF CheckJobs
  <2>. QED  BY <1>6, <2>1, <2>2, <2>3, SaveType DEF CheckJobs, TypeOK, LoopsOK
<1>7. ASSUME NEW l \in Loops, NEW j \in JobIds, SkipRemovedJob(l, j) PROVE TypeOK'
  <2>. DEFINE due == loop[l].due \ {j}
              r   == [loop[l] EXCEPT !.pc = AfterJob(due), !.due = due]
  <2>1. LoopsOK'
    <3>1. loop[l].pc = "drain" /\ loop' = [loop EXCEPT ![l] = r]
      BY <1>7 DEF SkipRemovedJob
    <3>2. LoopOK(r)
      BY <3>1, LoopsAreOK DEF LoopOK, LoopState, AfterJob
    <3>. QED  BY <1>0, <3>1, <3>2, MoveLoop
  <2>. QED  BY <1>7, <2>1 DEF SkipRemovedJob, TypeOK, LoopsOK
<1>8. ASSUME NEW l \in Loops, NEW j \in JobIds, RunJob(l, j) PROVE TypeOK'
  <2>1. store[j].command \in BOOLEAN
    BY <1>8 DEF RunJob, TypeOK, Job
  <2>2. LoopsOK'
    <3>. DEFINE r == [loop[l] EXCEPT !.pc = "call", !.due = loop[l].due \ {j},
                                     !.job = j, !.command = store[j].command]
    <3>1. loop' = [loop EXCEPT ![l] = r]
      BY <1>8 DEF RunJob
    <3>2. LoopOK(r)
      BY <2>1, LoopsAreOK, Sentinels DEF LoopOK, LoopState
    <3>. QED  BY <1>0, <3>1, <3>2, MoveLoop
  <2>3. starts' \in [OneShotJobs -> Nat]
    BY <1>8 DEF RunJob, TypeOK
  <2>. QED  BY <1>8, <2>2, <2>3 DEF RunJob, TypeOK, LoopsOK
<1>9. ASSUME NEW l \in Loops, FinishJob(l) PROVE TypeOK'
  <2>. DEFINE j == loop[l].job
  <2>1. j \in JobIds
    BY <1>9, <1>0 DEF FinishJob, LoopsOK, LoopState
  <2>2. LoopsOK'
    <3>. DEFINE r == [loop[l] EXCEPT !.pc = AfterJob(loop[l].due), !.job = NoJob,
                                     !.command = FALSE]
    <3>1. loop' = [loop EXCEPT ![l] = r]
      BY <1>9 DEF FinishJob
    <3>2. LoopOK(r)
      BY LoopsAreOK DEF LoopOK, LoopState, AfterJob
    <3>. QED  BY <1>0, <3>1, <3>2, MoveLoop
  <2>3. CASE store[j] = Absent /\ UNCHANGED <<store, files>>
    BY <1>9, <2>2, <2>3 DEF FinishJob, TypeOK, LoopsOK
  <2>4. CASE /\ store[j] # Absent
             /\ store' = [store EXCEPT ![j] = AfterRun(j)]
             /\ Save(store')
    <3>1. AfterRun(j) \in Job \cup {Absent}
      BY <2>1, <2>4, AfterRunType
    <3>2. store' \in [JobIds -> Job \cup {Absent}]
      BY <2>1, <2>4, <3>1 DEF TypeOK
    <3>. QED  BY <1>9, <2>2, <2>4, <3>2, SaveType DEF FinishJob, TypeOK, LoopsOK
  <2>. QED  BY <1>9, <2>3, <2>4 DEF FinishJob
<1>10. ASSUME NEW l \in Loops, ExitLoop(l) PROVE TypeOK'
  <2>1. LoopsOK'
    BY <1>10, <1>0, FreeLoopOK DEF ExitLoop, LoopsOK, FreeLoop
  <2>. QED  BY <1>10, <2>1 DEF ExitLoop, TypeOK, LoopsOK
<1>11. ASSUME NEW j \in JobIds, NEW d \in Delays, NEW withCommand \in BOOLEAN,
              AddJob(j, d, withCommand)
       PROVE  TypeOK'
  <2>. DEFINE atMS == IF j \in OneShotJobs THEN now + d ELSE Nil
              job  == NewJob(j, atMS)
  <2>1. atMS \in Int /\ (j \in OneShotJobs => atMS \in Nat)
    BY Parameters DEF TypeOK, Nil
  <2>2. job \in Job
    BY <2>1, NewJobType DEF TypeOK
  <2>3. at' \in [OneShotJobs -> Nat]
    BY <1>11, <2>1 DEF AddJob, TypeOK
  <2>4. store' \in [JobIds -> Job \cup {Absent}]
    BY <1>11, <2>2 DEF AddJob, TypeOK
  <2>5. Save(store')
    BY <1>11 DEF AddJob, Save
  <2>6. [job EXCEPT !.command = TRUE] \in Job
    BY <2>2 DEF Job
  <2>7. pending' \in [JobIds -> Job \cup {Absent}]
    <3>. HIDE DEF job
    <3>1. \/ pending' = [pending EXCEPT ![j] = [job EXCEPT !.command = TRUE]]
          \/ pending' = pending
      BY <1>11 DEF AddJob, job
    <3>. QED  BY <2>6, <3>1 DEF TypeOK
  <2>. QED  BY <1>11, <2>3, <2>4, <2>5, <2>7, SaveType DEF AddJob, TypeOK
<1>12. ASSUME NEW j \in JobIds, UpdateJob(j) PROVE TypeOK'
  <2>1. pending' \in [JobIds -> Job \cup {Absent}]
    BY <1>12 DEF UpdateJob, TypeOK
  <2>2. CASE store[j] = Absent /\ UNCHANGED <<store, files>>
    BY <1>12, <2>1, <2>2 DEF UpdateJob, TypeOK
  <2>3. CASE /\ store[j] # Absent
             /\ store' = [store EXCEPT ![j] = pending[j]]
             /\ Save(store')
    <3>1. store' \in [JobIds -> Job \cup {Absent}]
      BY <2>3 DEF TypeOK
    <3>. QED  BY <1>12, <2>1, <2>3, <3>1, SaveType DEF UpdateJob, TypeOK
  <2>. QED  BY <1>12, <2>2, <2>3 DEF UpdateJob
<1>13. ASSUME NEW j \in JobIds, RemoveJob(j) PROVE TypeOK'
  <2>1. store' \in [JobIds -> Job \cup {Absent}] /\ Save(store')
    BY <1>13 DEF RemoveJob, TypeOK
  <2>. QED  BY <1>13, <2>1, SaveType DEF RemoveJob, TypeOK
<1>14. ASSUME NEW j \in JobIds, NEW enabled \in BOOLEAN, EnableJob(j, enabled)
       PROVE  TypeOK'
  <2>1. store[j] \in Job
    BY <1>14 DEF EnableJob, TypeOK
  <2>2. NextRun(j) \in Nat \cup {Nil}
    BY NextRunType
  <2>3. store' \in [JobIds -> Job \cup {Absent}] /\ Save(store')
    BY <1>14, <2>1, <2>2 DEF EnableJob, TypeOK, Job
  <2>. QED  BY <1>14, <2>3, SaveType DEF EnableJob, TypeOK
<1>15. CASE UNCHANGED vars
  BY <1>15 DEF vars, TypeOK
<1>. QED
  BY <1>1, <1>2, <1>3, <1>4, <1>5, <1>6, <1>7, <1>8, <1>9, <1>10, <1>11, <1>12,
     <1>13, <1>14, <1>15 DEF RestartNext, Next, Operate, EnableAgain, LoopStep, ToolStep

LEMMA NextDownIsFree == TypeOK /\ DownIsFree /\ [RestartNext]_vars => DownIsFree'
<1>. SUFFICES ASSUME TypeOK, DownIsFree, [RestartNext]_vars PROVE DownIsFree'
  OBVIOUS
<1>. USE DEF history, service, files
<1>1. ASSUME UNCHANGED <<up, running, loop, pending>> PROVE DownIsFree'
  BY <1>1 DEF DownIsFree
<1>2. ASSUME up' PROVE DownIsFree'
  BY <1>2 DEF DownIsFree
<1>3. CASE Crash
  BY <1>3 DEF Crash, DownIsFree
<1>4. CASE Tick \/ UNCHANGED vars
  BY <1>1, <1>4 DEF Tick, vars
<1>5. CASE Stop \/ \E l \in Loops : Boot(l) \/ Start(l)
  BY <1>2, <1>5 DEF Stop, Boot, Start
<1>6. ASSUME NEW l \in Loops, LoopStep(l) PROVE DownIsFree'
  <2>1. loop[l].pc # "free"
    BY <1>6 DEF LoopStep, CheckJobs, FinishJob, ExitLoop, SkipRemovedJob, RunJob
  <2>2. up
    BY <2>1 DEF DownIsFree, FreeLoop
  <2>3. UNCHANGED up
    BY <1>6 DEF LoopStep, CheckJobs, FinishJob, ExitLoop, SkipRemovedJob, RunJob
  <2>. QED  BY <1>2, <2>2, <2>3
<1>7. ASSUME NEW j \in JobIds, ToolStep(j) \/ EnableJob(j, TRUE) PROVE DownIsFree'
  BY <1>2, <1>7 DEF ToolStep, AddJob, UpdateJob, RemoveJob, EnableJob
<1>. QED
  BY <1>3, <1>4, <1>5, <1>6, <1>7 DEF RestartNext, Next, Operate, EnableAgain

\* In every reachable state each variable has its type: the scheduler's state
\* and the goroutines, even when the service is stopped and started at will.
THEOREM TypeCorrect == RestartSpec => [](TypeOK /\ DownIsFree)
<1>1. Init => TypeOK /\ DownIsFree
  BY InitTypeOK DEF Init, DownIsFree
<1>2. TypeOK /\ DownIsFree /\ [RestartNext]_vars => (TypeOK /\ DownIsFree)'
  BY NextTypeOK, NextDownIsFree
<1>. QED  BY <1>1, <1>2, PTL DEF RestartSpec

LEMMA SpecIsRestartSpec == Spec => RestartSpec
<1>1. [Next]_vars => [RestartNext]_vars
  BY DEF RestartNext
<1>. QED  BY <1>1, PTL DEF Spec, RestartSpec

-----------------------------------------------------------------------------
(* Enabled jobs stay scheduled.                                            *)

\* What the loop, the tool and Start maintain together: the copies that the
\* tool will write back are armed whenever the schedule has an instant left.
PendingIsScheduled ==
  \A j \in JobIds : pending[j] # Absent =>
    /\ j \in created
    /\ NextRun(j) # Nil => pending[j].next # Nil

ScheduleInv == EnabledJobsAreScheduled /\ PendingIsScheduled

\* The next run depends on the clock and on the job's own instant only.
LEMMA SameNextRun ==
  ASSUME NEW j \in JobIds, now' = now, AtOf(j)' = AtOf(j)
  PROVE  NextRun(j)' = NextRun(j)
BY DEF NextRun

\* A schedule that is exhausted stays exhausted.
LEMMA ExhaustedStaysExhausted ==
  ASSUME TypeOK, NEW j \in JobIds, now' = now + 1, at' = at, NextRun(j)' # Nil
  PROVE  NextRun(j) # Nil
<1>0. now \in Nat
  BY DEF TypeOK
<1>1. CASE j \in OneShotJobs
  <2>1. at[j] \in Nat
    BY <1>1 DEF TypeOK
  <2>2. NextRun(j) = IF at[j] > now THEN at[j] ELSE Nil
    BY <1>1, OneShotNextRun DEF NextRun, AtOf
  <2>3. NextRun(j)' = IF at[j] > now + 1 THEN at[j] ELSE Nil
    BY <1>1, OneShotNextRun DEF NextRun, AtOf
  <2>. QED  BY <1>0, <2>1, <2>2, <2>3 DEF Nil
<1>2. CASE j \in EveryJobs
  <2>1. EveryMS[j] \in Nat /\ j \notin OneShotJobs
    BY <1>2, JobKinds
  <2>2. NextRun(j) = IF EveryMS[j] > 0 THEN now + EveryMS[j] ELSE Nil
    BY <1>2, EveryNextRun DEF NextRun
  <2>3. NextRun(j)' = IF EveryMS[j] > 0 THEN now + 1 + EveryMS[j] ELSE Nil
    BY <1>2, EveryNextRun DEF NextRun
  <2>. QED  BY <1>0, <2>1, <2>2, <2>3 DEF Nil
<1>3. CASE j \in CronJobs
  <2>1. CronTimes[j] \subseteq Nat /\ j \notin OneShotJobs /\ j \notin EveryJobs
    BY <1>3, JobKinds
  <2>2. NextRun(j) = NextTickAfter(j, now)
    BY <1>3, <2>1 DEF NextRun, AtOf, ComputeNextRun
  <2>3. NextRun(j)' = NextTickAfter(j, now + 1)
    BY <1>3, <2>1 DEF NextRun, AtOf, ComputeNextRun
  <2>4. PICK x \in CronTimes[j] :
          x > now + 1 /\ \A y \in CronTimes[j] : y > now + 1 => x <= y
    BY <2>3 DEF NextTickAfter
  <2>5. \E x0 \in {y \in CronTimes[j] : y > now} :
          \A y \in {z \in CronTimes[j] : z > now} : x0 <= y
    <3>1. CASE now + 1 \in CronTimes[j]
      BY <1>0, <2>1, <3>1
    <3>2. CASE now + 1 \notin CronTimes[j]
      BY <1>0, <2>1, <2>4, <3>2
    <3>. QED  BY <3>1, <3>2
  <2>6. NextTickAfter(j, now) \in CronTimes[j]
    BY <2>5 DEF NextTickAfter
  <2>. QED  BY <2>1, <2>2, <2>6 DEF Nil
<1>. QED  BY <1>1, <1>2, <1>3 DEF JobIds

LEMMA NextScheduleInv ==
  TypeOK /\ DownIsFree /\ ScheduleInv /\ [RestartNext]_vars => ScheduleInv'
<1>. SUFFICES ASSUME TypeOK, DownIsFree, ScheduleInv, [RestartNext]_vars
              PROVE  ScheduleInv'
  OBVIOUS
<1>. USE DEF history, service, files
\* Steps that leave the clock, the instants and the copies alone.
<1>a. ASSUME UNCHANGED <<now, at, created>>,
             \A j \in JobIds : pending'[j] # Absent => pending'[j] = pending[j]
      PROVE  PendingIsScheduled'
  <2>1. \A j \in JobIds : NextRun(j)' = NextRun(j)
    BY <1>a, SameNextRun DEF AtOf
  <2>. QED  BY <1>a, <2>1 DEF ScheduleInv, PendingIsScheduled
\* ... and, of the jobs, change one, which they leave armed if they can.
<1>b. ASSUME UNCHANGED <<now, at, running, loop>>, NEW j \in JobIds,
             \A i \in JobIds \ {j} : store'[i] = store[i],
             \/ store'[j] = Absent
             \/ ~store'[j].enabled
             \/ NextRun(j) # Nil => store'[j].next # Nil
      PROVE  EnabledJobsAreScheduled'
  <2>1. \A i \in JobIds : NextRun(i)' = NextRun(i)
    BY <1>b, SameNextRun DEF AtOf
  <2>. QED
    BY <1>b, <2>1 DEF ScheduleInv, EnabledJobsAreScheduled, Queued, Executing
<1>1. CASE Tick
  <2>1. now' = now + 1 /\ UNCHANGED <<running, loop, store, pending, at, created>>
    BY <1>1 DEF Tick
  <2>2. \A j \in JobIds : NextRun(j)' # Nil => NextRun(j) # Nil
    BY <2>1, ExhaustedStaysExhausted
  <2>. QED
    BY <2>1, <2>2 DEF ScheduleInv, EnabledJobsAreScheduled, PendingIsScheduled,
                      Queued, Executing
<1>2. ASSUME NEW l \in Loops, Boot(l) \/ Start(l) PROVE ScheduleInv'
  <2>1. UNCHANGED <<now, at, created, pending>> /\ StartService(l) /\ ~running
    BY <1>2 DEF Boot, Start, DownIsFree
  <2>2. \A j \in JobIds : NextRun(j)' = NextRun(j)
    BY <2>1, SameNextRun DEF AtOf
  <2>3. ~running' \/ store' = RecomputeNextRuns(disk)
    BY <2>1 DEF StartService
  <2>4. ASSUME NEW j \in JobIds, store' = RecomputeNextRuns(disk),
               store'[j] # Absent, store'[j].enabled, NextRun(j) # Nil
        PROVE  store'[j].next # Nil
    <3>1. store'[j] = IF disk[j] # Absent /\ disk[j].enabled
                      THEN [disk[j] EXCEPT !.next = NextRun(j)] ELSE disk[j]
      BY <2>4 DEF RecomputeNextRuns
    <3>2. disk[j] \in Job
      BY <2>4, <3>1 DEF TypeOK
    <3>. QED  BY <2>4, <3>1, <3>2 DEF Job
  <2>5. EnabledJobsAreScheduled'
    BY <2>2, <2>3, <2>4 DEF EnabledJobsAreScheduled
  <2>. QED  BY <1>a, <2>1, <2>5 DEF ScheduleInv
<1>3. CASE Stop \/ Crash
  <2>1. ~running' /\ UNCHANGED <<now, at, created>>
    BY <1>3 DEF Stop, Crash
  <2>2. \A j \in JobIds : pending'[j] # Absent => pending'[j] = pending[j]
    BY <1>3 DEF Stop, Crash, EmptyStore
  <2>. QED  BY <1>a, <2>1, <2>2 DEF ScheduleInv, EnabledJobsAreScheduled
<1>4. ASSUME NEW l \in Loops, CheckJobs(l) PROVE ScheduleInv'
  <2>. DEFINE due == {j \in JobIds : IsDue(j)}
  <2>1. /\ UNCHANGED <<now, at, created, pending, running>>
        /\ store' = [j \in JobIds |-> IF j \in due THEN [store[j] EXCEPT !.next = Nil]
                                                   ELSE store[j]]
        /\ loop[l].pc = "select"
        /\ loop' = [loop EXCEPT ![l] = [@ EXCEPT !.pc = AfterJob(due), !.due = due]]
    BY <1>4 DEF CheckJobs
  <2>2. \A j \in JobIds : NextRun(j)' = NextRun(j)
    BY <2>1, SameNextRun DEF AtOf
  <2>3. loop'[l].due = due /\ \A m \in Loops \ {l} : loop'[m] = loop[m]
    <3>. HIDE DEF due
    <3>. QED  BY <2>1 DEF TypeOK, LoopState
  <2>4. \A j \in due : Queued(j)'
    BY <2>3 DEF Queued
  <2>5. ASSUME NEW j \in JobIds, Queued(j) \/ Executing(j) PROVE Queued(j)' \/ Executing(j)'
    <3>1. loop[l].due = {} /\ loop[l].pc # "call"
      BY <2>1, LoopsAreOK DEF LoopOK
    <3>2. PICK m \in Loops \ {l} : j \in loop[m].due \/ (loop[m].pc = "call" /\ loop[m].job = j)
      BY <2>5, <3>1 DEF Queued, Executing
    <3>. QED  BY <2>3, <3>2 DEF Queued, Executing
  <2>6. \A j \in JobIds \ due : store'[j] = store[j]
    BY <2>1
  <2>7. EnabledJobsAreScheduled'
    <3>. HIDE DEF due
    <3>. QED
      BY <2>1, <2>2, <2>4, <2>5, <2>6 DEF ScheduleInv, EnabledJobsAreScheduled
  <2>. QED  BY <1>a, <2>1, <2>7 DEF ScheduleInv
<1>5. ASSUME NEW l \in Loops, NEW j \in JobIds, SkipRemovedJob(l, j) \/ RunJob(l, j)
      PROVE  ScheduleInv'
  <2>1. UNCHANGED <<now, at, created, pending, running, store>>
    BY <1>5 DEF SkipRemovedJob, RunJob
  <2>2. \A i \in JobIds : NextRun(i)' = NextRun(i)
    BY <2>1, SameNextRun DEF AtOf
  <2>3. /\ loop[l].pc = "drain"
        /\ loop'[l].due = loop[l].due \ {j}
        /\ \A m \in Loops \ {l} : loop'[m] = loop[m]
        /\ store[j] = Absent \/ (loop'[l].pc = "call" /\ loop'[l].job = j)
    <3>1. loop[l].pc = "drain"
      BY <1>5 DEF SkipRemovedJob, RunJob
    <3>2. loop \in [Loops -> LoopState]
      BY DEF TypeOK
    <3>3. CASE SkipRemovedJob(l, j)
      <4>1. /\ store[j] = Absent
            /\ loop' = [loop EXCEPT ![l] = [@ EXCEPT !.pc = AfterJob(loop[l].due \ {j}),
                                                    !.due = loop[l].due \ {j}]]
        BY <3>3 DEF SkipRemovedJob
      <4>2. loop'[l].due = loop[l].due \ {j} /\ \A m \in Loops \ {l} : loop'[m] = loop[m]
        BY <3>2, <4>1 DEF LoopState
      <4>. QED  BY <3>1, <4>1, <4>2
    <3>4. CASE RunJob(l, j)
      <4>1. loop' = [loop EXCEPT ![l] = [@ EXCEPT !.pc = "call",
                                                  !.due = loop[l].due \ {j},
                                                  !.job = j,
                                                  !.command = store[j].command]]
        BY <3>4 DEF RunJob
      <4>2. /\ loop'[l].due = loop[l].due \ {j} /\ loop'[l].pc = "call" /\ loop'[l].job = j
            /\ \A m \in Loops \ {l} : loop'[m] = loop[m]
        BY <3>2, <4>1 DEF LoopState
      <4>. QED  BY <3>1, <4>2
    <3>. QED  BY <1>5, <3>3, <3>4
  <2>4. ASSUME NEW i \in JobIds, Queued(i) \/ Executing(i), store[i] # Absent
        PROVE  Queued(i)' \/ Executing(i)'
    <3>1. PICK m \in Loops : i \in loop[m].due \/ (loop[m].pc = "call" /\ loop[m].job = i)
      BY <2>4 DEF Queued, Executing
    <3>2. CASE m # l
      BY <2>3, <3>1, <3>2 DEF Queued, Executing
    <3>3. CASE m = l /\ i # j
      BY <2>3, <3>1, <3>3 DEF Queued
    <3>4. CASE m = l /\ i = j
      BY <2>3, <2>4, <3>4 DEF Executing
    <3>. QED  BY <3>2, <3>3, <3>4
  <2>5. EnabledJobsAreScheduled'
    BY <2>1, <2>2, <2>4 DEF ScheduleInv, EnabledJobsAreScheduled
  <2>. QED  BY <1>a, <2>1, <2>5 DEF ScheduleInv
<1>6. ASSUME NEW l \in Loops, FinishJob(l) PROVE ScheduleInv'
  <2>. DEFINE j == loop[l].job
  <2>1. j \in JobIds
    BY <1>6, LoopsAreOK DEF FinishJob, LoopOK, LoopState
  <2>2. /\ UNCHANGED <<now, at, created, pending, running>>
        /\ loop[l].pc = "call"
        /\ loop' = [loop EXCEPT ![l] = [@ EXCEPT !.pc = AfterJob(loop[l].due),
                                                !.job = NoJob, !.command = FALSE]]
    BY <1>6 DEF FinishJob
  <2>3. loop'[l].due = loop[l].due /\ \A m \in Loops \ {l} : loop'[m] = loop[m]
    BY <2>2 DEF TypeOK, LoopState
  <2>4. ASSUME NEW i \in JobIds, i # j, Queued(i) \/ Executing(i)
        PROVE  Queued(i)' \/ Executing(i)'
    BY <2>2, <2>3, <2>4 DEF Queued, Executing
  <2>5. \A i \in JobIds : NextRun(i)' = NextRun(i)
    BY <2>2, SameNextRun DEF AtOf
  <2>6. \A i \in JobIds \ {j} : store'[i] = store[i]
    BY <1>6, <2>1 DEF FinishJob, TypeOK
  <2>7. \/ store'[j] = Absent
        \/ ~store'[j].enabled
        \/ store'[j].next = NextRun(j)
    <3>1. CASE store[j] = Absent
      BY <1>6, <3>1 DEF FinishJob
    <3>2. CASE store[j] # Absent
      <4>1. store[j] \in Job
        BY <2>1, <3>2 DEF TypeOK
      <4>2. store'[j] = AfterRun(j)
        BY <1>6, <2>1, <3>2 DEF FinishJob, TypeOK
      <4>. QED  BY <4>1, <4>2 DEF AfterRun, Job
    <3>. QED  BY <3>1, <3>2
  <2>8. EnabledJobsAreScheduled'
    BY <2>1, <2>2, <2>4, <2>5, <2>6, <2>7 DEF ScheduleInv, EnabledJobsAreScheduled
  <2>. QED  BY <1>a, <2>2, <2>8 DEF ScheduleInv
<1>7. ASSUME NEW l \in Loops, ExitLoop(l) PROVE ScheduleInv'
  <2>1. /\ UNCHANGED <<now, at, created, pending, running, store>>
        /\ loop[l].due = {} /\ loop[l].pc # "call"
        /\ \A m \in Loops \ {l} : loop'[m] = loop[m]
    BY <1>7, LoopsAreOK DEF ExitLoop, LoopOK
  <2>2. \A i \in JobIds : NextRun(i)' = NextRun(i)
    BY <2>1, SameNextRun DEF AtOf
  <2>3. \A i \in JobIds : Queued(i) \/ Executing(i) => Queued(i)' \/ Executing(i)'
    BY <2>1 DEF Queued, Executing
  <2>4. EnabledJobsAreScheduled'
    BY <2>1, <2>2, <2>3 DEF ScheduleInv, EnabledJobsAreScheduled
  <2>. QED  BY <1>a, <2>1, <2>4 DEF ScheduleInv
<1>8. ASSUME NEW j \in JobIds, NEW d \in Delays, NEW withCommand \in BOOLEAN,
             AddJob(j, d, withCommand)
      PROVE  ScheduleInv'
  <2>. DEFINE atMS == IF j \in OneShotJobs THEN now + d ELSE Nil
  <2>1. /\ UNCHANGED <<now, running, loop>>
        /\ j \notin created
        /\ created' = created \cup {j}
        /\ at' = IF j \in OneShotJobs THEN [at EXCEPT ![j] = atMS] ELSE at
        /\ store' = [store EXCEPT ![j] = NewJob(j, atMS)]
        /\ \/ pending' = [pending EXCEPT ![j] = [NewJob(j, atMS) EXCEPT !.command = TRUE]]
           \/ pending' = pending
    BY <1>8 DEF AddJob
  <2>2. AtOf(j)' = atMS /\ \A i \in JobIds \ {j} : AtOf(i)' = AtOf(i)
    BY <2>1 DEF AtOf, TypeOK
  <2>3. /\ NextRun(j)' = ComputeNextRun(j, atMS, now)
        /\ \A i \in JobIds \ {j} : NextRun(i)' = NextRun(i)
    <3>. HIDE DEF atMS
    <3>. QED  BY <2>1, <2>2 DEF NextRun
  <2>4. /\ store'[j].next = NextRun(j)'
        /\ \A i \in JobIds \ {j} : store'[i] = store[i]
    <3>. HIDE DEF atMS
    <3>. QED  BY <2>1, <2>3 DEF TypeOK, NewJob
  <2>5. EnabledJobsAreScheduled'
    BY <2>1, <2>3, <2>4 DEF ScheduleInv, EnabledJobsAreScheduled, Queued, Executing
  <2>6. pending'[j] # Absent => pending'[j].next = NextRun(j)'
    <3>. HIDE DEF atMS
    <3>1. pending[j] = Absent
      BY <2>1 DEF ScheduleInv, PendingIsScheduled
    <3>. QED  BY <2>1, <2>3, <3>1 DEF TypeOK, NewJob
  <2>7. \A i \in JobIds \ {j} : pending'[i] = pending[i]
    <3>. HIDE DEF atMS
    <3>. QED  BY <2>1 DEF TypeOK
  <2>8. PendingIsScheduled'
    BY <2>1, <2>3, <2>6, <2>7 DEF ScheduleInv, PendingIsScheduled
  <2>. QED  BY <2>5, <2>8 DEF ScheduleInv
<1>9. ASSUME NEW j \in JobIds, UpdateJob(j) PROVE ScheduleInv'
  <2>1. /\ UNCHANGED <<now, at, created, running, loop>>
        /\ \A i \in JobIds : pending'[i] # Absent => pending'[i] = pending[i]
    BY <1>9 DEF UpdateJob, TypeOK
  <2>2. /\ \A i \in JobIds \ {j} : store'[i] = store[i]
        /\ store'[j] = Absent \/ (NextRun(j) # Nil => store'[j].next # Nil)
    BY <1>9 DEF UpdateJob, TypeOK, ScheduleInv, PendingIsScheduled
  <2>. QED  BY <1>a, <1>b, <2>1, <2>2 DEF ScheduleInv
<1>10. ASSUME NEW j \in JobIds, RemoveJob(j) PROVE ScheduleInv'
  <2>1. /\ UNCHANGED <<now, at, created, running, loop, pending>>
        /\ \A i \in JobIds \ {j} : store'[i] = store[i]
        /\ store'[j] = Absent
    BY <1>10 DEF RemoveJob, TypeOK
  <2>. QED  BY <1>a, <1>b, <2>1 DEF ScheduleInv
<1>11. ASSUME NEW j \in JobIds, NEW enabled \in BOOLEAN, EnableJob(j, enabled)
       PROVE  ScheduleInv'
  <2>1. UNCHANGED <<now, at, created, running, loop, pending>> /\ store[j] \in Job
    BY <1>11 DEF EnableJob, TypeOK
  <2>2. /\ \A i \in JobIds \ {j} : store'[i] = store[i]
        /\ ~store'[j].enabled \/ store'[j].next = NextRun(j)
    BY <1>11, <2>1 DEF EnableJob, TypeOK, Job
  <2>. QED  BY <1>a, <1>b, <2>1, <2>2 DEF ScheduleInv
<1>12. CASE UNCHANGED vars
  <2>1. \A i \in JobIds : NextRun(i)' = NextRun(i)
    BY <1>12, SameNextRun DEF vars, AtOf
  <2>. QED
    BY <1>12, <2>1 DEF vars, ScheduleInv, EnabledJobsAreScheduled, PendingIsScheduled,
                       Queued, Executing
<1>. QED
  BY <1>1, <1>2, <1>3, <1>4, <1>5, <1>6, <1>7, <1>8, <1>9, <1>10, <1>11, <1>12
  DEF RestartNext, Next, Operate, EnableAgain, LoopStep, ToolStep

\* While the service runs, no interleaving of the loops, the tool, failing saves
\* and restarts strands an enabled job whose schedule has an instant to come.
THEOREM EnabledJobsStayScheduled == RestartSpec => []EnabledJobsAreScheduled
<1>1. Init => ScheduleInv
  BY DEF Init, ScheduleInv, EnabledJobsAreScheduled, PendingIsScheduled, EmptyStore
<1>2. TypeOK /\ DownIsFree /\ ScheduleInv /\ [RestartNext]_vars => ScheduleInv'
  BY NextScheduleInv
<1>3. ScheduleInv => EnabledJobsAreScheduled
  BY DEF ScheduleInv
<1>4. RestartSpec => [](TypeOK /\ DownIsFree)
  BY TypeCorrect
<1>. QED  BY <1>1, <1>2, <1>3, <1>4, PTL DEF RestartSpec


-----------------------------------------------------------------------------
(* CronService implements CronPromise: the handler of a one-shot job is    *)
(* called at most once, no job is run twice at the same time, and a job    *)
(* that is gone is never run.                                              *)

\* gatewayCmd starts one loop per process.
OneLoop == \A l, m \in Loops : loop[l].pc # "free" /\ loop[m].pc # "free" => l = m

\* A record of a one-shot job, in memory, in the file or in the tool's hands, is
\* armed for the job's own instant or not at all, and a disabled one is not armed.
RecordOK(r, j) ==
  r # Absent => /\ j \in created
                /\ r.next \in {Nil, at[j]}
                /\ ~r.enabled => r.next = Nil
                /\ r.deleteAfterRun <=> j \notin HandWritten

\* A one-shot job that waits to run or has been started is past its instant.
\* Once its handler has returned nothing can arm it again: a copy that the tool
\* still holds has no job left to overwrite.
RunOK(j) ==
  /\ Queued(j) \/ starts[j] > 0 => at[j] <= now /\ j \in created
  /\ Executing(j) => starts[j] > 0 /\ ~Queued(j)
  /\ starts[j] > 0 /\ ~Executing(j) =>
       /\ ~Queued(j)
       /\ store[j] # Absent => store[j].next = Nil
       /\ pending[j] # Absent => store[j] = Absent
  /\ starts[j] <= 1

OnceInv ==
  /\ OneLoop
  /\ HandWritten \subseteq created
  /\ \A j \in OneShotJobs :
       /\ RecordOK(store[j], j)
       /\ RecordOK(disk[j], j)
       /\ RecordOK(pending[j], j)
       /\ pending[j] # Absent => j \notin HandWritten
       /\ RunOK(j)

\* While one goroutine is alive all the others are free.
LEMMA OthersAreFree ==
  ASSUME TypeOK, OneLoop, NEW l \in Loops, loop[l].pc # "free"
  PROVE  \A m \in Loops \ {l} :
           loop[m].pc = "free" /\ loop[m].due = {} /\ loop[m].job = NoJob
BY LoopsAreOK DEF OneLoop, LoopOK

LEMMA OnlyLoop ==
  ASSUME TypeOK, OneLoop, NEW l \in Loops, loop[l].pc # "free", NEW j \in JobIds
  PROVE  /\ Queued(j) <=> j \in loop[l].due
         /\ Executing(j) <=> loop[l].pc = "call" /\ loop[l].job = j
BY OthersAreFree DEF Queued, Executing

\* Where a job stands after a step of the only goroutine.
LEMMA OnlyLoopMoves ==
  ASSUME TypeOK, OneLoop, NEW l \in Loops, loop[l].pc # "free", NEW r,
         loop' = [loop EXCEPT ![l] = r], NEW j \in JobIds
  PROVE  /\ Queued(j)' <=> j \in r.due
         /\ Executing(j)' <=> r.pc = "call" /\ r.job = j
<1>1. loop'[l] = r /\ \A m \in Loops \ {l} : loop'[m] = loop[m]
  BY DEF TypeOK
<1>. QED  BY <1>1, OthersAreFree DEF Queued, Executing

LEMMA StaysOneLoop ==
  ASSUME TypeOK, OneLoop, NEW l \in Loops, loop[l].pc # "free", NEW r,
         loop' = [loop EXCEPT ![l] = r]
  PROVE  OneLoop'
BY OthersAreFree DEF OneLoop, TypeOK

LEMMA SavedRecord ==
  ASSUME NEW j \in JobIds, Save(store')
  PROVE  disk'[j] = store'[j] \/ disk'[j] = disk[j]
BY DEF Save, SaveOk, SaveError

LEMMA OneShotsAreJobs == OneShotJobs \subseteq JobIds
BY DEF JobIds

\* Steps that leave the goroutines, the instants and the history alone, and of
\* the one-shot jobs in memory change at most job k.
LEMMA QuietStep ==
  ASSUME TypeOK, OnceInv, UNCHANGED <<now, loop, at, created, starts>>,
         NEW k \in JobIds,
         \A j \in JobIds \ {k} : store'[j] = store[j] /\ pending'[j] = pending[j],
         \A j \in JobIds : disk'[j] = store'[j] \/ disk'[j] = disk[j],
         k \in OneShotJobs => /\ RecordOK(store'[k], k)
                              /\ pending'[k] \in {pending[k], Absent}
                              /\ pending'[k] # Absent => store'[k] = Absent \/ store[k] # Absent
                              /\ starts[k] > 0 /\ ~Executing(k) /\ store'[k] # Absent
                                   => store'[k].next = Nil
  PROVE  OnceInv'
<1>1. \A j \in JobIds : (Queued(j)' <=> Queued(j)) /\ (Executing(j)' <=> Executing(j))
  BY DEF Queued, Executing
<1>2. OneLoop' /\ (HandWritten \subseteq created)'
  BY DEF OnceInv, OneLoop
<1>3. ASSUME NEW j \in OneShotJobs, j # k
      PROVE  /\ RecordOK(store[j], j)'
             /\ RecordOK(disk[j], j)'
             /\ RecordOK(pending[j], j)'
             /\ (pending[j] # Absent => j \notin HandWritten)'
             /\ RunOK(j)'
  <2>1. j \in JobIds /\ store'[j] = store[j] /\ pending'[j] = pending[j]
    BY <1>3, OneShotsAreJobs
  <2>2. disk'[j] = store[j] \/ disk'[j] = disk[j]
    BY <2>1
  <2>. QED  BY <1>1, <2>1, <2>2 DEF OnceInv, RecordOK, RunOK
<1>4. ASSUME k \in OneShotJobs
      PROVE  /\ RecordOK(store[k], k)'
             /\ RecordOK(disk[k], k)'
             /\ RecordOK(pending[k], k)'
             /\ (pending[k] # Absent => k \notin HandWritten)'
             /\ RunOK(k)'
  <2>1. disk'[k] = store'[k] \/ disk'[k] = disk[k]
    OBVIOUS
  <2>2. RecordOK(store[k], k)' /\ RecordOK(disk[k], k)' /\ RecordOK(pending[k], k)'
    BY <1>4, <2>1 DEF OnceInv, RecordOK
  <2>3. RunOK(k)'
    BY <1>1, <1>4 DEF OnceInv, RunOK
  <2>. QED  BY <1>4, <2>2, <2>3 DEF OnceInv
<1>. QED  BY <1>2, <1>3, <1>4 DEF OnceInv

LEMMA InitOnce == Init => OnceInv
<1>. SUFFICES ASSUME Init PROVE OnceInv
  OBVIOUS
<1>1. \A j \in JobIds : ~Queued(j) /\ ~Executing(j)
  BY DEF Init, Queued, Executing, FreeLoop
<1>2. OneLoop /\ HandWritten \subseteq created
  BY DEF Init, OneLoop, FreeLoop
<1>3. ASSUME NEW j \in OneShotJobs
      PROVE  /\ store[j] = Absent
             /\ pending[j] = Absent
             /\ RecordOK(disk[j], j)
             /\ starts[j] = 0
  BY <1>3, OneShotsAreJobs DEF Init, EmptyStore, RecordOK
<1>. QED  BY <1>1, <1>2, <1>3, OneShotsAreJobs DEF OnceInv, RecordOK, RunOK

LEMMA NextOnce == TypeOK /\ DownIsFree /\ OnceInv /\ [Next]_vars => OnceInv'
<1>. SUFFICES ASSUME TypeOK, DownIsFree, OnceInv, [Next]_vars PROVE OnceInv'
  OBVIOUS
<1>. USE DEF history, service, files
<1>0. OneLoop /\ OneShotJobs \subseteq JobIds
  BY OneShotsAreJobs DEF OnceInv
<1>1. CASE Tick
  <2>1. now' = now + 1 /\ UNCHANGED <<loop, store, disk, pending, at, created, starts>>
    BY <1>1 DEF Tick
  <2>2. now \in Nat /\ \A j \in OneShotJobs : at[j] \in Nat
    BY DEF TypeOK
  <2>3. \A j \in JobIds : (Queued(j)' <=> Queued(j)) /\ (Executing(j)' <=> Executing(j))
    BY <2>1 DEF Queued, Executing
  <2>4. \A j \in OneShotJobs : RunOK(j)'
    BY <1>0, <2>1, <2>2, <2>3 DEF OnceInv, RunOK
  <2>. QED  BY <2>1, <2>4 DEF OnceInv, OneLoop, RecordOK
<1>2. ASSUME NEW l \in Loops, Boot(l) PROVE OnceInv'
  <2>1. /\ UNCHANGED <<now, at, created, starts, pending>>
        /\ pending = EmptyStore
        /\ StartService(l)
        /\ \A m \in Loops : loop[m] = FreeLoop
    BY <1>2 DEF Boot, DownIsFree
  <2>2. \A m \in Loops : /\ loop'[m] \in {FreeLoop, [FreeLoop EXCEPT !.pc = "select"]}
                         /\ m # l => loop'[m] = FreeLoop
    BY <2>1 DEF StartService, TypeOK
  <2>3. OneLoop' /\ \A j \in JobIds : ~Queued(j)' /\ ~Executing(j)'
    BY <2>2 DEF OneLoop, Queued, Executing, FreeLoop
  <2>4. ASSUME NEW j \in OneShotJobs
        PROVE  /\ RecordOK(store[j], j)'
               /\ disk'[j] \in {store'[j], disk[j]}
               /\ starts[j] > 0 /\ store'[j] # Absent => store'[j].next = Nil
    <3>1. CASE torn /\ store' = EmptyStore /\ UNCHANGED files
      BY <1>0, <3>1 DEF EmptyStore, RecordOK
    <3>2. CASE store' = RecomputeNextRuns(disk) /\ Save(store')
      <4>1. store'[j] = IF disk[j] # Absent /\ disk[j].enabled
                        THEN [disk[j] EXCEPT !.next = NextRun(j)] ELSE disk[j]
        BY <1>0, <3>2 DEF RecomputeNextRuns
      <4>2. NextRun(j) = IF at[j] > now THEN at[j] ELSE Nil
        BY OneShotNextRun DEF NextRun, AtOf
      <4>3. disk[j] \in Job \cup {Absent} /\ at[j] \in Nat /\ now \in Nat
        BY <1>0 DEF TypeOK
      <4>4. RecordOK(disk[j], j) /\ (starts[j] > 0 => at[j] <= now)
        BY DEF OnceInv, RunOK
      <4>5. CASE disk[j] = Absent \/ ~disk[j].enabled
        BY <1>0, <2>1, <3>2, <4>1, <4>4, <4>5, SavedRecord DEF RecordOK
      <4>6. CASE disk[j] # Absent /\ disk[j].enabled
        <5>1. disk[j] \in Job
          BY <4>3, <4>6
        <5>2. /\ store'[j] = [disk[j] EXCEPT !.next = NextRun(j)]
              /\ store'[j].next = NextRun(j)
              /\ store'[j].enabled
              /\ store'[j].deleteAfterRun = disk[j].deleteAfterRun
          BY <4>1, <4>6, <5>1 DEF Job
        <5>3. RecordOK(store[j], j)'
          BY <2>1, <4>2, <4>4, <4>6, <5>2 DEF RecordOK
        <5>4. starts[j] > 0 => store'[j].next = Nil
          BY <4>2, <4>3, <4>4, <5>2
        <5>. QED  BY <1>0, <3>2, <5>3, <5>4, SavedRecord
      <4>. QED  BY <4>5, <4>6
    <3>3. SaveError \/ SaveOk(store') => Save(store')
      BY DEF Save
    <3>. QED  BY <2>1, <3>1, <3>2, <3>3 DEF StartService
  <2>5. ASSUME NEW j \in OneShotJobs
        PROVE  /\ RecordOK(store[j], j)'
               /\ RecordOK(disk[j], j)'
               /\ RecordOK(pending[j], j)'
               /\ (pending[j] # Absent => j \notin HandWritten)'
               /\ RunOK(j)'
    <3>1. pending'[j] = Absent
      BY <1>0, <2>1 DEF EmptyStore
    <3>2. RecordOK(disk[j], j)'
      BY <2>1, <2>4 DEF OnceInv, RecordOK
    <3>3. RunOK(j)'
      BY <1>0, <2>1, <2>3, <2>4, <3>1 DEF OnceInv, RunOK
    <3>. QED  BY <2>4, <3>1, <3>2, <3>3 DEF RecordOK
  <2>. QED  BY <2>1, <2>3, <2>5 DEF OnceInv
<1>3. CASE Stop
  <2>1. /\ UNCHANGED <<now, at, created, starts, pending, store, disk>>
        /\ \A m \in Loops : /\ loop'[m].pc = loop[m].pc
                            /\ loop'[m].due = loop[m].due
                            /\ loop'[m].job = loop[m].job
    BY <1>3 DEF Stop, TypeOK, LoopState
  <2>2. OneLoop' /\ \A j \in JobIds : (Queued(j)' <=> Queued(j)) /\ (Executing(j)' <=> Executing(j))
    BY <1>0, <2>1 DEF OneLoop, Queued, Executing
  <2>. QED  BY <1>0, <2>1, <2>2 DEF OnceInv, RecordOK, RunOK
<1>4. CASE Crash
  <2>1. /\ UNCHANGED <<now, at, created, starts, disk>>
        /\ \A j \in JobIds : store'[j] = Absent /\ pending'[j] = Absent
        /\ \A m \in Loops : loop'[m] = FreeLoop
    BY <1>4 DEF Crash, EmptyStore
  <2>2. OneLoop' /\ \A j \in JobIds : ~Queued(j)' /\ ~Executing(j)'
    BY <2>1 DEF OneLoop, Queued, Executing, FreeLoop
  <2>. QED  BY <1>0, <2>1, <2>2 DEF OnceInv, RecordOK, RunOK
<1>5. ASSUME NEW l \in Loops, CheckJobs(l) PROVE OnceInv'
  <2>. DEFINE due == {j \in JobIds : IsDue(j)}
              r   == [loop[l] EXCEPT !.pc = AfterJob(due), !.due = due]
  <2>1. /\ UNCHANGED <<now, at, created, starts, pending>>
        /\ store' = [j \in JobIds |-> IF j \in due THEN [store[j] EXCEPT !.next = Nil]
                                                   ELSE store[j]]
        /\ Save(store')
        /\ loop[l].pc = "select"
        /\ loop' = [loop EXCEPT ![l] = r]
    BY <1>5 DEF CheckJobs
  <2>2. r.due = due /\ r.pc # "call"
    <3>. HIDE DEF due
    <3>. QED  BY DEF TypeOK, LoopState, AfterJob
  <2>3. OneLoop' /\ \A j \in JobIds : (Queued(j)' <=> j \in due) /\ ~Executing(j)'
    <3>. HIDE DEF r, due
    <3>. QED  BY <1>0, <2>1, <2>2, OnlyLoopMoves, StaysOneLoop
  <2>4. \A j \in JobIds : ~Queued(j) /\ ~Executing(j)
    BY <1>0, <2>1, OnlyLoop, LoopsAreOK DEF LoopOK
  <2>5. ASSUME NEW j \in OneShotJobs
        PROVE  /\ RecordOK(store[j], j)'
               /\ RecordOK(disk[j], j)'
               /\ RecordOK(pending[j], j)'
               /\ (pending[j] # Absent => j \notin HandWritten)'
               /\ RunOK(j)'
    <3>1. j \in due => /\ store[j] \in Job /\ store[j].next = at[j] /\ at[j] <= now
                       /\ j \in created
                       /\ ~(starts[j] > 0)
      BY <1>0, <2>4 DEF IsDue, TypeOK, OnceInv, RecordOK, RunOK
    <3>2. /\ j \in due => store'[j] = [store[j] EXCEPT !.next = Nil]
          /\ j \notin due => store'[j] = store[j]
      BY <1>0, <2>1
    <3>3. RecordOK(store[j], j)'
      <4>. HIDE DEF due
      <4>1. CASE j \in due
        <5>1. /\ store'[j].next = Nil
              /\ store'[j].deleteAfterRun = store[j].deleteAfterRun
          BY <3>1, <3>2, <4>1 DEF Job
        <5>2. RecordOK(store[j], j) /\ store[j] # Absent
          BY <3>1, <4>1, Sentinels DEF OnceInv
        <5>. QED  BY <2>1, <5>1, <5>2 DEF RecordOK
      <4>2. CASE j \notin due
        BY <2>1, <3>2, <4>2 DEF OnceInv, RecordOK
      <4>. QED  BY <4>1, <4>2
    <3>4. RecordOK(disk[j], j)'
      BY <1>0, <2>1, <3>3, SavedRecord DEF OnceInv, RecordOK
    <3>5. RunOK(j)'
      <4>. HIDE DEF due
      <4>. QED  BY <1>0, <2>1, <2>3, <2>4, <3>1, <3>2 DEF OnceInv, RunOK
    <3>. QED  BY <2>1, <3>3, <3>4, <3>5 DEF OnceInv, RecordOK
  <2>. QED  BY <2>1, <2>3, <2>5 DEF OnceInv
<1>6. ASSUME NEW l \in Loops, NEW k \in JobIds, SkipRemovedJob(l, k) PROVE OnceInv'
  <2>. DEFINE due == loop[l].due \ {k}
              r   == [loop[l] EXCEPT !.pc = AfterJob(due), !.due = due]
  <2>1. /\ UNCHANGED <<now, at, created, starts, pending, store, disk>>
        /\ loop[l].pc = "drain"
        /\ loop' = [loop EXCEPT ![l] = r]
        /\ r.due = due /\ r.pc # "call"
    BY <1>6 DEF SkipRemovedJob, AfterJob, TypeOK, LoopState
  <2>2. \A j \in JobIds : /\ Queued(j) <=> j \in loop[l].due
                          /\ ~Executing(j)
    BY <1>0, <2>1, OnlyLoop
  <2>3. OneLoop' /\ \A j \in JobIds : (Queued(j)' => Queued(j)) /\ ~Executing(j)'
    <3>. HIDE DEF r
    <3>. QED  BY <1>0, <2>1, <2>2, OnlyLoopMoves, StaysOneLoop
  <2>4. \A j \in OneShotJobs : RunOK(j)'
    BY <1>0, <2>1, <2>2, <2>3 DEF OnceInv, RunOK
  <2>. QED  BY <2>1, <2>3, <2>4 DEF OnceInv, RecordOK
<1>7. ASSUME NEW l \in Loops, NEW k \in JobIds, RunJob(l, k) PROVE OnceInv'
  <2>. DEFINE r == [loop[l] EXCEPT !.pc = "call", !.due = loop[l].due \ {k},
                                   !.job = k, !.command = store[k].command]
  <2>1. /\ UNCHANGED <<now, at, created, pending, store, disk>>
        /\ loop[l].pc = "drain"
        /\ k \in loop[l].due
        /\ loop' = [loop EXCEPT ![l] = r]
        /\ starts' = IF k \in OneShotJobs THEN [starts EXCEPT ![k] = @ + 1] ELSE starts
    BY <1>7 DEF RunJob
  <2>2. r.due = loop[l].due \ {k} /\ r.pc = "call" /\ r.job = k
    BY DEF TypeOK, LoopState
  <2>3. \A j \in JobIds : /\ Queued(j) <=> j \in loop[l].due
                          /\ ~Executing(j)
    BY <1>0, <2>1, OnlyLoop
  <2>4. OneLoop' /\ \A j \in JobIds : /\ Queued(j)' <=> j \in loop[l].due \ {k}
                                      /\ Executing(j)' <=> j = k
    <3>. HIDE DEF r
    <3>. QED  BY <1>0, <2>1, <2>2, OnlyLoopMoves, StaysOneLoop
  <2>5. ASSUME NEW j \in OneShotJobs PROVE RunOK(j)'
    <3>1. CASE j = k
      <4>1. starts[j] = 0 /\ starts'[j] = 1
        BY <1>0, <2>1, <2>3, <3>1 DEF OnceInv, RunOK, TypeOK
      <4>. QED  BY <1>0, <2>1, <2>3, <2>4, <3>1, <4>1 DEF OnceInv, RunOK
    <3>2. CASE j # k
      <4>1. starts'[j] = starts[j]
        BY <2>1, <3>2 DEF TypeOK
      <4>. QED  BY <1>0, <2>1, <2>3, <2>4, <3>2, <4>1 DEF OnceInv, RunOK
    <3>. QED  BY <3>1, <3>2
  <2>. QED  BY <2>1, <2>4, <2>5 DEF OnceInv, RecordOK
<1>8. ASSUME NEW l \in Loops, FinishJob(l) PROVE OnceInv'
  <2>. PICK k : k = loop[l].job
    OBVIOUS
  <2>. DEFINE r == [loop[l] EXCEPT !.pc = AfterJob(loop[l].due), !.job = NoJob,
                                   !.command = FALSE]
  <2>1. /\ UNCHANGED <<now, at, created, starts, pending>>
        /\ loop[l].pc = "call"
        /\ loop' = [loop EXCEPT ![l] = r]
    BY <1>8 DEF FinishJob
  <2>2. k \in JobIds
    BY <2>1, LoopsAreOK DEF LoopOK, LoopState
  <2>3. r.due = loop[l].due /\ r.pc # "call"
    BY DEF TypeOK, LoopState, AfterJob
  <2>4. \A j \in JobIds : /\ Queued(j) <=> j \in loop[l].due
                          /\ Executing(j) <=> j = k
    BY <1>0, <2>1, OnlyLoop
  <2>5. OneLoop' /\ \A j \in JobIds : (Queued(j)' <=> j \in loop[l].due) /\ ~Executing(j)'
    <3>. HIDE DEF r
    <3>. QED  BY <1>0, <2>1, <2>3, OnlyLoopMoves, StaysOneLoop
  <2>6. \A j \in JobIds : disk'[j] = store'[j] \/ disk'[j] = disk[j]
    BY <1>8, SavedRecord DEF FinishJob
  <2>7. \A j \in JobIds \ {k} : store'[j] = store[j]
    BY <1>8, <2>2 DEF FinishJob, TypeOK
  <2>8. ASSUME k \in OneShotJobs
        PROVE  /\ RecordOK(store[k], k)'
               /\ store'[k] # Absent => store'[k].next = Nil /\ k \in HandWritten
    <3>1. CASE store[k] = Absent
      BY <1>8, <3>1 DEF FinishJob, RecordOK
    <3>2. CASE store[k] # Absent
      <4>1. store[k] \in Job /\ RecordOK(store[k], k)
        BY <2>2, <2>8, <3>2 DEF TypeOK, OnceInv
      <4>2. store'[k] = AfterRun(k)
        BY <1>8, <2>2, <3>2 DEF FinishJob, TypeOK
      <4>3. CASE store[k].deleteAfterRun
        BY <2>8, <4>1, <4>2, <4>3 DEF AfterRun, RecordOK
      <4>4. CASE ~store[k].deleteAfterRun
        <5>1. store'[k] = [store[k] EXCEPT !.enabled = FALSE, !.next = Nil]
          BY <2>8, <4>2, <4>4 DEF AfterRun
        <5>2. /\ ~store'[k].enabled
              /\ store'[k].next = Nil
              /\ store'[k].deleteAfterRun = store[k].deleteAfterRun
          BY <4>1, <5>1 DEF Job
        <5>. QED  BY <2>1, <3>2, <4>1, <4>4, <5>2 DEF RecordOK
      <4>. QED  BY <4>3, <4>4
    <3>. QED  BY <3>1, <3>2
  <2>9. ASSUME NEW j \in OneShotJobs
        PROVE  /\ RecordOK(store[j], j)'
               /\ RecordOK(disk[j], j)'
               /\ RecordOK(pending[j], j)'
               /\ (pending[j] # Absent => j \notin HandWritten)'
               /\ RunOK(j)'
    <3>. HIDE DEF r
    <3>1. RecordOK(store[j], j)'
      BY <1>0, <2>1, <2>7, <2>8 DEF OnceInv, RecordOK
    <3>2. RecordOK(disk[j], j)'
      BY <1>0, <2>1, <2>6, <3>1 DEF OnceInv, RecordOK
    <3>3. RunOK(j)'
      BY <1>0, <2>1, <2>4, <2>5, <2>7, <2>8 DEF OnceInv, RunOK
    <3>. QED  BY <2>1, <3>1, <3>2, <3>3 DEF OnceInv, RecordOK
  <2>. QED  BY <2>1, <2>5, <2>9 DEF OnceInv
<1>9. ASSUME NEW l \in Loops, ExitLoop(l) PROVE OnceInv'
  <2>1. /\ UNCHANGED <<now, at, created, starts, pending, store, disk>>
        /\ loop[l].pc = "select"
        /\ loop' = [loop EXCEPT ![l] = FreeLoop]
    BY <1>9 DEF ExitLoop
  <2>2. \A j \in JobIds : ~Queued(j) /\ ~Executing(j)
    BY <1>0, <2>1, OnlyLoop, LoopsAreOK DEF LoopOK
  <2>3. OneLoop' /\ \A j \in JobIds : ~Queued(j)' /\ ~Executing(j)'
    <3>1. FreeLoop.due = {} /\ FreeLoop.pc = "free"
      BY DEF FreeLoop
    <3>. QED  BY <1>0, <2>1, <3>1, OnlyLoopMoves, StaysOneLoop
  <2>. QED  BY <1>0, <2>1, <2>2, <2>3 DEF OnceInv, RecordOK, RunOK
<1>10. ASSUME NEW k \in JobIds, NEW d \in Delays, NEW withCommand \in BOOLEAN,
              AddJob(k, d, withCommand)
       PROVE  OnceInv'
  <2>. PICK atMS : atMS = IF k \in OneShotJobs THEN now + d ELSE Nil
    OBVIOUS
  <2>. PICK job : job = NewJob(k, atMS)
    OBVIOUS
  <2>1. /\ UNCHANGED <<now, loop, starts>>
        /\ k \notin created
        /\ created' = created \cup {k}
        /\ at' = IF k \in OneShotJobs THEN [at EXCEPT ![k] = atMS] ELSE at
        /\ store' = [store EXCEPT ![k] = job]
        /\ Save(store')
        /\ \/ pending' = [pending EXCEPT ![k] = [job EXCEPT !.command = TRUE]]
           \/ pending' = pending
    BY <1>10 DEF AddJob, Save
  <2>2. \A j \in JobIds : (Queued(j)' <=> Queued(j)) /\ (Executing(j)' <=> Executing(j))
    BY <2>1 DEF Queued, Executing
  <2>3. OneLoop' /\ (HandWritten \subseteq created)'
    BY <2>1 DEF OnceInv, OneLoop
  <2>4. ASSUME NEW j \in OneShotJobs, j # k
        PROVE  /\ RecordOK(store[j], j)'
               /\ RecordOK(disk[j], j)'
               /\ RecordOK(pending[j], j)'
               /\ (pending[j] # Absent => j \notin HandWritten)'
               /\ RunOK(j)'
    <3>1. /\ store'[j] = store[j] /\ pending'[j] = pending[j] /\ at'[j] = at[j]
          /\ j \in created' <=> j \in created
          /\ j \in JobIds
      BY <1>0, <2>1, <2>4 DEF TypeOK
    <3>2. disk'[j] = store[j] \/ disk'[j] = disk[j]
      BY <2>1, <3>1, SavedRecord
    <3>. QED  BY <2>1, <2>2, <3>1, <3>2 DEF OnceInv, RecordOK, RunOK
  <2>5. ASSUME k \in OneShotJobs
        PROVE  /\ RecordOK(store[k], k)'
               /\ RecordOK(disk[k], k)'
               /\ RecordOK(pending[k], k)'
               /\ (pending[k] # Absent => k \notin HandWritten)'
               /\ RunOK(k)'
    <3>1. /\ store'[k] = job /\ at'[k] = atMS /\ k \in created'
          /\ pending'[k] \in {[job EXCEPT !.command = TRUE], pending[k]}
      BY <2>1, <2>5 DEF TypeOK
    <3>2. /\ k \notin HandWritten
          /\ disk[k] = Absent /\ pending[k] = Absent
          /\ ~Queued(k) /\ ~Executing(k) /\ ~(starts[k] > 0) /\ starts[k] <= 1
      BY <2>1, <2>5 DEF OnceInv, RecordOK, RunOK
    <3>3. /\ job.enabled
          /\ job.next = IF atMS > now THEN atMS ELSE Nil
          /\ job.deleteAfterRun
          /\ [job EXCEPT !.command = TRUE].enabled
          /\ [job EXCEPT !.command = TRUE].next = job.next
          /\ [job EXCEPT !.command = TRUE].deleteAfterRun
      BY <2>5, OneShotNextRun DEF NewJob
    <3>4. RecordOK(store[k], k)'
      BY <3>1, <3>2, <3>3 DEF RecordOK
    <3>5. RecordOK(disk[k], k)'
      <4>1. disk'[k] = store'[k] \/ disk'[k] = disk[k]
        BY <2>1, SavedRecord
      <4>. QED  BY <3>2, <3>4, <4>1 DEF RecordOK
    <3>6. RecordOK(pending[k], k)'
      BY <3>1, <3>2, <3>3 DEF RecordOK
    <3>7. RunOK(k)'
      BY <2>1, <2>2, <3>2 DEF RunOK
    <3>. QED  BY <3>2, <3>4, <3>5, <3>6, <3>7
  <2>. QED  BY <2>3, <2>4, <2>5 DEF OnceInv
<1>11. ASSUME NEW k \in JobIds, UpdateJob(k) PROVE OnceInv'
  <2>1. /\ UNCHANGED <<now, loop, at, created, starts>>
        /\ pending[k] # Absent
        /\ pending'[k] = Absent
        /\ \A j \in JobIds \ {k} : store'[j] = store[j] /\ pending'[j] = pending[j]
        /\ \A j \in JobIds : disk'[j] = store'[j] \/ disk'[j] = disk[j]
    BY <1>11, SavedRecord DEF UpdateJob, TypeOK
  <2>2. \/ store[k] = Absent /\ store'[k] = Absent
        \/ store[k] # Absent /\ store'[k] = pending[k]
    BY <1>11 DEF UpdateJob, TypeOK
  <2>3. k \in OneShotJobs =>
          /\ RecordOK(store'[k], k)
          /\ starts[k] > 0 /\ ~Executing(k) => store'[k] = Absent
    BY <2>1, <2>2 DEF OnceInv, RecordOK, RunOK
  <2>. QED  BY <2>1, <2>3, QuietStep
<1>12. ASSUME NEW k \in JobIds, RemoveJob(k) PROVE OnceInv'
  <2>1. /\ UNCHANGED <<now, loop, at, created, starts, pending>>
        /\ store'[k] = Absent
        /\ \A j \in JobIds \ {k} : store'[j] = store[j]
        /\ \A j \in JobIds : disk'[j] = store'[j] \/ disk'[j] = disk[j]
    BY <1>12, SavedRecord DEF RemoveJob, TypeOK
  <2>2. RecordOK(store'[k], k)
    BY <2>1 DEF RecordOK
  <2>. QED  BY <2>1, <2>2, QuietStep
<1>13. ASSUME NEW k \in JobIds, NEW enabled \in BOOLEAN, EnableJob(k, enabled)
       PROVE  OnceInv'
  <2>1. /\ UNCHANGED <<now, loop, at, created, starts, pending>>
        /\ store[k] \in Job /\ store[k] # Absent
        /\ \A j \in JobIds \ {k} : store'[j] = store[j]
        /\ \A j \in JobIds : disk'[j] = store'[j] \/ disk'[j] = disk[j]
    BY <1>13, SavedRecord DEF EnableJob, TypeOK
  <2>2. /\ store'[k].enabled = enabled
        /\ store'[k].next = IF enabled THEN NextRun(k) ELSE Nil
        /\ store'[k].deleteAfterRun = store[k].deleteAfterRun
    BY <1>13, <2>1 DEF EnableJob, TypeOK, Job
  <2>3. ASSUME k \in OneShotJobs
        PROVE  /\ RecordOK(store'[k], k)
               /\ starts[k] > 0 => store'[k].next = Nil
    <3>1. NextRun(k) = IF at[k] > now THEN at[k] ELSE Nil
      BY <2>3, OneShotNextRun DEF NextRun, AtOf
    <3>2. at[k] \in Nat /\ now \in Nat
      BY <2>3 DEF TypeOK
    <3>3. RecordOK(store[k], k) /\ (starts[k] > 0 => at[k] <= now)
      BY <2>3 DEF OnceInv, RunOK
    <3>4. RecordOK(store'[k], k)
      BY <2>1, <2>2, <3>1, <3>3 DEF RecordOK
    <3>. QED  BY <2>2, <3>1, <3>2, <3>3, <3>4
  <2>. QED  BY <2>1, <2>3, QuietStep
<1>14. CASE UNCHANGED vars
  <2>1. OneLoop' /\ \A j \in JobIds : (Queued(j)' <=> Queued(j)) /\ (Executing(j)' <=> Executing(j))
    BY <1>0, <1>14 DEF vars, OneLoop, Queued, Executing
  <2>. QED  BY <1>0, <1>14, <2>1 DEF vars, OnceInv, RecordOK, RunOK
<1>. QED
  BY <1>1, <1>2, <1>3, <1>4, <1>5, <1>6, <1>7, <1>8, <1>9, <1>10, <1>11, <1>12,
     <1>13, <1>14 DEF Next, Operate, EnableAgain, LoopStep, ToolStep

\* What the reachable states of the gateway have in common.
PromiseInv == TypeOK /\ DownIsFree /\ OnceInv

LEMMA PromiseInvHolds == Spec => []PromiseInv
<1>1. Init => OnceInv
  BY InitOnce
<1>2. TypeOK /\ DownIsFree /\ OnceInv /\ [Next]_vars => OnceInv'
  BY NextOnce
<1>3. Spec => [](TypeOK /\ DownIsFree)
  BY SpecIsRestartSpec, TypeCorrect
<1>. QED  BY <1>1, <1>2, <1>3, PTL DEF Spec, PromiseInv

\* The handler of a one-shot job is called at most once.
THEOREM OneShotOnce == Spec => []OneShotAtMostOnce
<1>1. PromiseInv => OneShotAtMostOnce
  BY DEF PromiseInv, OnceInv, RunOK, OneShotAtMostOnce
<1>. QED  BY <1>1, PromiseInvHolds, PTL

-----------------------------------------------------------------------------
(* Removed jobs.                                                           *)

LEMMA GoneStays ==
  ASSUME TypeOK, [RestartNext]_vars, NEW j \in JobIds, Gone(j)
  PROVE  Gone(j)'
<1>. USE DEF history, service, files
<1>0. j \in created /\ disk[j] = Absent /\ store[j] = Absent
  BY DEF Gone
<1>a. ASSUME created' = created, store'[j] = Absent, Save(store') \/ disk' = disk
      PROVE  Gone(j)'
  BY <1>0, <1>a, SavedRecord DEF Gone
<1>1. CASE Tick \/ Stop \/ UNCHANGED vars
  BY <1>0, <1>a, <1>1 DEF Tick, Stop, vars
<1>2. ASSUME NEW l \in Loops, Boot(l) \/ Start(l) PROVE Gone(j)'
  <2>1. created' = created /\ StartService(l)
    BY <1>2 DEF Boot, Start
  <2>2. RecomputeNextRuns(disk)[j] = Absent /\ EmptyStore[j] = Absent
    BY <1>0 DEF RecomputeNextRuns, EmptyStore
  <2>. QED  BY <1>a, <2>1, <2>2 DEF StartService, Save
<1>3. CASE Crash
  BY <1>0, <1>a, <1>3 DEF Crash, EmptyStore
<1>4. ASSUME NEW l \in Loops, LoopStep(l) PROVE Gone(j)'
  <2>1. CASE CheckJobs(l)
    BY <1>0, <1>a, <2>1 DEF CheckJobs, IsDue
  <2>2. CASE FinishJob(l)
    BY <1>0, <1>a, <2>2 DEF FinishJob, TypeOK
  <2>3. CASE ExitLoop(l) \/ \E k \in JobIds : SkipRemovedJob(l, k) \/ RunJob(l, k)
    BY <1>0, <1>a, <2>3 DEF ExitLoop, SkipRemovedJob, RunJob
  <2>. QED  BY <1>4, <2>1, <2>2, <2>3 DEF LoopStep
<1>5. ASSUME NEW k \in JobIds, NEW d \in Delays, NEW withCommand \in BOOLEAN,
             AddJob(k, d, withCommand)
      PROVE  Gone(j)'
  <2>1. /\ k # j
        /\ j \in created'
        /\ Save(store')
        /\ store' = [store EXCEPT ![k] = store'[k]]
    BY <1>0, <1>5 DEF AddJob, Save, TypeOK
  <2>2. store'[j] = Absent
    BY <1>0, <2>1 DEF TypeOK
  <2>. QED  BY <1>0, <2>1, <2>2, SavedRecord DEF Gone
<1>6. ASSUME NEW k \in JobIds, UpdateJob(k) \/ RemoveJob(k) PROVE Gone(j)'
  BY <1>0, <1>a, <1>6 DEF UpdateJob, RemoveJob, TypeOK
<1>7. ASSUME NEW k \in JobIds, NEW enabled \in BOOLEAN, EnableJob(k, enabled)
      PROVE  Gone(j)'
  BY <1>0, <1>a, <1>7 DEF EnableJob, TypeOK
<1>. QED
  BY <1>1, <1>2, <1>3, <1>4, <1>5, <1>6, <1>7
  DEF RestartNext, Next, Operate, EnableAgain, ToolStep

\* A job that has left memory and jobs.json never comes back, however often the
\* service is stopped, started and killed.
THEOREM RemovedStaysGone == RestartSpec => RemovedStaysRemoved
<1>1. TypeOK /\ [RestartNext]_vars => [\A j \in JobIds : Gone(j) => Gone(j)']_vars
  BY GoneStays
<1>. QED  BY <1>1, TypeCorrect, PTL DEF RestartSpec, RemovedStaysRemoved

-----------------------------------------------------------------------------
(* The refinement.                                                         *)

executingJobs == {j \in JobIds : Executing(j)}
ranJobs       == {j \in OneShotJobs : starts[j] > 0}
goneJobs      == {j \in JobIds : Gone(j)}

LEMMA PromiseInit == Init => Promise!Init
<1>. SUFFICES ASSUME Init PROVE Promise!Init
  OBVIOUS
<1>1. executingJobs = {}
  BY DEF Init, Executing, FreeLoop, executingJobs
<1>2. ranJobs = {}
  BY DEF Init, ranJobs
<1>3. goneJobs = {}
  <2>1. [enabled |-> TRUE, next |-> Nil,
         command |-> FALSE, deleteAfterRun |-> FALSE] \in Job
    BY DEF Job, Nil
  <2>2. \A j \in JobIds : j \in created => disk[j] # Absent
    BY <2>1, Sentinels DEF Init
  <2>. QED  BY <2>2 DEF goneJobs, Gone
<1>. QED  BY <1>1, <1>2, <1>3 DEF Promise!Init, executingJobs, ranJobs, goneJobs

LEMMA PromiseStep == PromiseInv /\ [Next]_vars => [Promise!Next]_Promise!promise
<1>. SUFFICES ASSUME PromiseInv, [Next]_vars PROVE Promise!Next
  OBVIOUS
<1>. USE DEF history, service, files
<1>0. TypeOK /\ DownIsFree /\ OnceInv /\ OneLoop /\ OneShotJobs \subseteq JobIds
  BY OneShotsAreJobs DEF PromiseInv, OnceInv
<1>f. goneJobs \subseteq goneJobs' /\ goneJobs' \subseteq JobIds
  BY <1>0, GoneStays DEF RestartNext, goneJobs
<1>f2. Promise!Forget
  BY <1>f DEF Promise!Forget, goneJobs
<1>a. ASSUME starts' = starts, \A j \in JobIds : Executing(j)' <=> Executing(j)
      PROVE  Promise!Next
  <2>1. UNCHANGED <<executingJobs, ranJobs>>
    BY <1>a DEF executingJobs, ranJobs
  <2>. QED  BY <1>f2, <2>1 DEF Promise!Next, Promise!Lose, executingJobs, ranJobs
<1>1. CASE Tick \/ UNCHANGED vars
  BY <1>a, <1>1 DEF Tick, vars, Executing
<1>2. CASE Stop
  <2>1. starts' = starts /\ \A m \in Loops : /\ loop'[m].pc = loop[m].pc
                                              /\ loop'[m].job = loop[m].job
    BY <1>0, <1>2 DEF Stop, TypeOK, LoopState
  <2>. QED  BY <1>a, <2>1 DEF Executing
<1>3. ASSUME NEW l \in Loops, Boot(l) PROVE Promise!Next
  <2>1. /\ starts' = starts
        /\ StartService(l)
        /\ \A m \in Loops : loop[m] = FreeLoop
    BY <1>0, <1>3 DEF Boot, DownIsFree
  <2>2. \A m \in Loops : loop'[m] \in {FreeLoop, [FreeLoop EXCEPT !.pc = "select"]}
    BY <1>0, <2>1 DEF StartService, TypeOK
  <2>3. \A j \in JobIds : ~Executing(j)' /\ ~Executing(j)
    BY <2>1, <2>2 DEF Executing, FreeLoop
  <2>. QED  BY <1>a, <2>1, <2>3
<1>4. CASE Crash
  <2>1. executingJobs' = {}
    BY <1>4 DEF Crash, FreeLoop, Executing, executingJobs
  <2>2. ranJobs' = ranJobs
    BY <1>4 DEF Crash, ranJobs
  <2>. QED  BY <1>f2, <2>1, <2>2 DEF Promise!Next, Promise!Die, executingJobs, ranJobs
<1>5. ASSUME NEW l \in Loops, CheckJobs(l) \/ ExitLoop(l) PROVE Promise!Next
  <2>1. /\ loop[l].pc = "select"
        /\ starts' = starts
        /\ \A m \in Loops \ {l} : loop'[m] = loop[m]
        /\ loop'[l].pc # "call"
    <3>1. CASE CheckJobs(l)
      <4>. PICK due : due = {j \in JobIds : IsDue(j)}
        OBVIOUS
      <4>1. /\ loop[l].pc = "select"
            /\ starts' = starts
            /\ loop' = [loop EXCEPT ![l] = [@ EXCEPT !.pc = AfterJob(due), !.due = due]]
        BY <3>1 DEF CheckJobs
      <4>. QED  BY <1>0, <4>1 DEF AfterJob, TypeOK, LoopState
    <3>2. CASE ExitLoop(l)
      BY <1>0, <3>2 DEF ExitLoop, FreeLoop, TypeOK
    <3>. QED  BY <1>5, <3>1, <3>2
  <2>. QED  BY <1>a, <2>1 DEF Executing
<1>6. ASSUME NEW l \in Loops, NEW k \in JobIds, SkipRemovedJob(l, k) PROVE Promise!Next
  <2>1. /\ loop[l].pc = "drain"
        /\ starts' = starts
        /\ \A m \in Loops \ {l} : loop'[m] = loop[m]
        /\ loop'[l].pc # "call"
    BY <1>0, <1>6 DEF SkipRemovedJob, AfterJob, TypeOK, LoopState
  <2>. QED  BY <1>a, <2>1 DEF Executing
<1>7. ASSUME NEW l \in Loops, NEW k \in JobIds, RunJob(l, k) PROVE Promise!Next
  <2>1. /\ loop[l].pc = "drain"
        /\ k \in loop[l].due
        /\ store[k] # Absent
        /\ starts' = IF k \in OneShotJobs THEN [starts EXCEPT ![k] = @ + 1] ELSE starts
    BY <1>7 DEF RunJob
  <2>2. \A m \in Loops \ {l} : loop'[m] = loop[m]
    BY <1>0, <1>7 DEF RunJob, TypeOK
  <2>3. loop'[l].pc = "call" /\ loop'[l].job = k
    BY <1>0, <1>7 DEF RunJob, TypeOK, LoopState
  <2>4. \A j \in JobIds : ~Executing(j) /\ (Queued(j) <=> j \in loop[l].due)
    BY <1>0, <2>1, OnlyLoop
  <2>5. \A j \in JobIds : Executing(j)' <=> j = k
    BY <2>2, <2>3, <2>4 DEF Executing
  <2>6. k \in OneShotJobs => ~(starts[k] > 0)
    BY <1>0, <2>1, <2>4 DEF OnceInv, RunOK
  <2>7. executingJobs' = executingJobs \cup {k} /\ k \notin executingJobs
    BY <2>4, <2>5 DEF executingJobs
  <2>8. ranJobs' = ranJobs \cup ({k} \cap OneShotJobs) /\ k \notin ranJobs
    <3>1. CASE k \in OneShotJobs
      <4>1. starts'[k] > 0 /\ \A j \in OneShotJobs \ {k} : starts'[j] = starts[j]
        BY <1>0, <2>1, <3>1 DEF TypeOK
      <4>. QED  BY <2>6, <3>1, <4>1 DEF ranJobs
    <3>2. CASE k \notin OneShotJobs
      BY <2>1, <3>2 DEF ranJobs
    <3>. QED  BY <3>1, <3>2
  <2>9. k \notin goneJobs
    BY <2>1 DEF goneJobs, Gone
  <2>10. Promise!Begin(k)
    BY <1>f2, <2>7, <2>8, <2>9 DEF Promise!Begin, executingJobs, ranJobs, goneJobs
  <2>. QED  BY <2>10 DEF Promise!Next
<1>8. ASSUME NEW l \in Loops, FinishJob(l) PROVE Promise!Next
  <2>. PICK k : k = loop[l].job
    OBVIOUS
  <2>1. loop[l].pc = "call" /\ starts' = starts
    BY <1>8 DEF FinishJob
  <2>2. k \in JobIds
    BY <1>0, <2>1, LoopsAreOK DEF LoopOK, LoopState
  <2>3. /\ \A m \in Loops \ {l} : loop'[m] = loop[m]
        /\ loop'[l].pc # "call"
    BY <1>0, <1>8 DEF FinishJob, AfterJob, TypeOK, LoopState
  <2>4. \A j \in JobIds : Executing(j) <=> j = k
    BY <1>0, <2>1, OnlyLoop
  <2>5. \A j \in JobIds : ~Executing(j)'
    BY <1>0, <2>1, <2>3, OthersAreFree DEF Executing
  <2>6. executingJobs' = executingJobs \ {k} /\ k \in executingJobs
    BY <2>2, <2>4, <2>5 DEF executingJobs
  <2>7. ranJobs' = ranJobs
    BY <2>1 DEF ranJobs
  <2>8. Promise!End(k)
    BY <1>f2, <2>6, <2>7 DEF Promise!End, executingJobs, ranJobs
  <2>. QED  BY <2>2, <2>8 DEF Promise!Next
<1>9. ASSUME NEW k \in JobIds, ToolStep(k) \/ EnableJob(k, TRUE) PROVE Promise!Next
  <2>1. starts' = starts /\ loop' = loop
    BY <1>9 DEF ToolStep, AddJob, UpdateJob, RemoveJob, EnableJob
  <2>. QED  BY <1>a, <2>1 DEF Executing
<1>. QED
  BY <1>1, <1>2, <1>3, <1>4, <1>5, <1>6, <1>7, <1>8, <1>9
  DEF Next, Operate, EnableAgain, LoopStep

\* The scheduler implements the promise: no job is run twice at the same time, a
\* one-shot job is started at most once, and a job that is gone is never started.
THEOREM PromiseIsKept == Spec => KeepsPromise
<1>. QED  BY PromiseInvHolds, PromiseInit, PromiseStep, PTL
          DEF Spec, KeepsPromise, Promise!Spec

-----------------------------------------------------------------------------
(* While every save succeeds, jobs.json holds what the service works with. *)

LEMMA SavesSucceed ==
  ASSUME ~SaveMayFail, NEW s, Save(s)
  PROVE  disk' = s /\ torn' = FALSE
BY DEF Save, SaveOk, SaveError

LEMMA NextDiskIsCurrent ==
  ASSUME ~SaveMayFail
  PROVE  DiskIsCurrent /\ [RestartNext]_vars => DiskIsCurrent'
<1>. SUFFICES ASSUME DiskIsCurrent, [RestartNext]_vars PROVE DiskIsCurrent'
  OBVIOUS
<1>. USE DEF service, files, history
<1>1. ASSUME UNCHANGED <<running, store, disk, torn>> PROVE DiskIsCurrent'
  BY <1>1 DEF DiskIsCurrent
<1>2. ASSUME Save(store') PROVE DiskIsCurrent'
  BY <1>2, SavesSucceed DEF DiskIsCurrent
<1>3. ASSUME ~running' PROVE DiskIsCurrent'
  BY <1>3 DEF DiskIsCurrent
\* A Start that succeeds has read a well-formed file, and has written it.
<1>4. ASSUME NEW l \in Loops, StartService(l) PROVE DiskIsCurrent'
  BY <1>4 DEF StartService, SaveOk, SaveError, DiskIsCurrent
<1>5. CASE Tick \/ UNCHANGED vars
  BY <1>1, <1>5 DEF Tick, vars
<1>6. CASE Crash \/ Stop
  BY <1>3, <1>6 DEF Crash, Stop
<1>7. CASE \E l \in Loops : Boot(l) \/ Start(l)
  BY <1>4, <1>7 DEF Boot, Start
<1>8. ASSUME NEW l \in Loops, LoopStep(l) PROVE DiskIsCurrent'
  <2>1. CASE CheckJobs(l)
    BY <1>2, <2>1 DEF CheckJobs
  <2>2. CASE FinishJob(l)
    BY <1>1, <1>2, <2>2 DEF FinishJob
  <2>3. CASE ExitLoop(l) \/ \E j \in JobIds : SkipRemovedJob(l, j) \/ RunJob(l, j)
    BY <1>1, <2>3 DEF ExitLoop, SkipRemovedJob, RunJob
  <2>. QED  BY <1>8, <2>1, <2>2, <2>3 DEF LoopStep
<1>9. ASSUME NEW j \in JobIds, ToolStep(j) \/ EnableJob(j, TRUE) PROVE DiskIsCurrent'
  <2>1. ASSUME NEW d \in Delays, NEW c \in BOOLEAN, AddJob(j, d, c) PROVE DiskIsCurrent'
    BY <1>2, <2>1 DEF AddJob, Save
  <2>2. CASE UpdateJob(j)
    BY <1>1, <1>2, <2>2 DEF UpdateJob
  <2>3. CASE RemoveJob(j)
    BY <1>2, <2>3 DEF RemoveJob
  <2>4. ASSUME NEW b \in BOOLEAN, EnableJob(j, b) PROVE DiskIsCurrent'
    BY <1>2, <2>4 DEF EnableJob
  <2>. QED  BY <1>9, <2>1, <2>2, <2>3, <2>4 DEF ToolStep
<1>. QED
  BY <1>5, <1>6, <1>7, <1>8, <1>9 DEF RestartNext, Next, Operate, EnableAgain

\* As long as no save fails, what a restart would load is what the running service
\* works with, even when the service is stopped and started at will and crashes
\* tear the file of a service that is running.
THEOREM DiskKeepsUp == ~SaveMayFail => (RestartSpec => []DiskIsCurrent)
<1>. SUFFICES ASSUME ~SaveMayFail PROVE RestartSpec => []DiskIsCurrent
  OBVIOUS
<1>1. Init => DiskIsCurrent
  BY DEF Init, DiskIsCurrent
<1>2. DiskIsCurrent /\ [RestartNext]_vars => DiskIsCurrent'
  BY NextDiskIsCurrent
<1>. QED  BY <1>1, <1>2, PTL DEF RestartSpec

-----------------------------------------------------------------------------
(* Commands that are used one at a time, while no gateway runs.            *)

\* No command is under way while a gateway is up, and the copy that a command
\* works on is the file itself.
CliInv ==
  /\ ~torn
  /\ up => running /\ CliIdle
  /\ CliIdle \/ cli = disk
  /\ promised \subseteq JobIds
  /\ AddedJobsAreKept

OfflineInv == TypeOK /\ DownIsFree /\ DiskIsCurrent /\ CliInv

LEMMA GatewaySteps == GatewayStep => [RestartNext]_vars
BY DEF GatewayStep, RestartNext, Next

\* What a step of the gateway does to the file: nothing, unless a gateway runs
\* when it ends.
LEMMA GatewayEffect ==
  ASSUME ~SaveMayFail, ~TornWrites, TypeOK, DownIsFree, ~torn, up => running,
         Operate \/ EnableAgain \/ Crash
  PROVE  /\ up' => running' /\ ~torn'
         /\ ~up' => UNCHANGED <<disk, torn>>
         /\ ~up /\ up' => \A j \in JobIds : disk[j] # Absent => disk'[j] # Absent
<1>. USE DEF service, files, history
<1>1. CASE Tick
  BY <1>1 DEF Tick
<1>2. CASE Crash
  BY <1>2 DEF Crash, TypeOK
<1>3. ASSUME NEW l \in Loops, Boot(l)
      PROVE  /\ up' /\ running' /\ ~torn'
             /\ \A j \in JobIds : disk[j] # Absent => disk'[j] # Absent
  <2>1. running' /\ ~torn' /\ disk' = RecomputeNextRuns(disk)
    BY <1>3 DEF Boot, StartService, SaveOk, SaveError
  <2>2. ASSUME NEW j \in JobIds, disk[j] # Absent PROVE disk'[j] # Absent
    <3>1. disk[j] \in Job
      BY <2>2 DEF TypeOK
    <3>2. [disk[j] EXCEPT !.next = NextRun(j)] \in Job
      BY <3>1, NextRunType DEF Job
    <3>3. disk'[j] \in {disk[j], [disk[j] EXCEPT !.next = NextRun(j)]}
      BY <2>1 DEF RecomputeNextRuns
    <3>. QED  BY <2>2, <3>2, <3>3, Sentinels
  <2>. QED  BY <1>3, <2>1, <2>2 DEF Boot
<1>4. ASSUME NEW l \in Loops, LoopStep(l) PROVE up /\ up' /\ running' /\ ~torn'
  <2>1. up
    <3>1. loop[l].pc # "free"
      BY <1>4 DEF LoopStep, CheckJobs, FinishJob, ExitLoop, SkipRemovedJob, RunJob
    <3>. QED  BY <3>1 DEF DownIsFree, FreeLoop
  <2>2. UNCHANGED <<up, running>>
    BY <1>4 DEF LoopStep, CheckJobs, FinishJob, ExitLoop, SkipRemovedJob, RunJob
  <2>3. ~torn'
    BY <1>4, SavesSucceed DEF LoopStep, CheckJobs, FinishJob, ExitLoop,
                              SkipRemovedJob, RunJob
  <2>. QED  BY <2>1, <2>2, <2>3
<1>5. ASSUME NEW j \in JobIds, ToolStep(j) \/ EnableJob(j, TRUE)
      PROVE  up /\ up' /\ running' /\ ~torn'
  <2>1. up /\ UNCHANGED <<up, running>>
    BY <1>5 DEF ToolStep, AddJob, UpdateJob, RemoveJob, EnableJob
  <2>2. ~torn'
    BY <1>5, SavesSucceed DEF ToolStep, AddJob, UpdateJob, RemoveJob, EnableJob,
                              SaveOk, SaveError
  <2>. QED  BY <2>1, <2>2
<1>. QED  BY <1>1, <1>2, <1>3, <1>4, <1>5 DEF Operate, EnableAgain

LEMMA GatewayKeepsOffline ==
  ASSUME ~SaveMayFail, ~TornWrites, OfflineInv, GatewayStep, up' => up \/ CliIdle
  PROVE  OfflineInv'
<1>1. TypeOK' /\ DownIsFree' /\ DiskIsCurrent'
  BY GatewaySteps, NextTypeOK, NextDownIsFree, NextDiskIsCurrent DEF OfflineInv
<1>2. /\ up' => running' /\ ~torn'
      /\ ~up' => UNCHANGED <<disk, torn>>
      /\ ~up /\ up' => \A j \in JobIds : disk[j] # Absent => disk'[j] # Absent
  BY GatewayEffect DEF OfflineInv, CliInv, GatewayStep
<1>3. /\ cli' = cli
      /\ promised' = {j \in promised :
                        ~(up /\ store[j] # Absent /\ up' /\ store'[j] = Absent)}
  BY DEF GatewayStep, NoCommand
<1>4. promised \subseteq JobIds
  BY DEF OfflineInv, CliInv
<1>5. ASSUME NEW j \in promised' PROVE ~torn' /\ disk'[j] # Absent
  <2>1. j \in promised /\ disk[j] # Absent /\ ~torn
    BY <1>3, <1>5 DEF OfflineInv, CliInv, AddedJobsAreKept
  <2>2. CASE ~up'
    BY <1>2, <2>1, <2>2
  <2>3. CASE up /\ up'
    BY <1>1, <1>2, <1>3, <1>5, <2>1, <2>3 DEF DiskIsCurrent, OfflineInv, CliInv
  <2>4. CASE ~up /\ up'
    BY <1>2, <1>4, <2>1, <2>4
  <2>. QED  BY <2>2, <2>3, <2>4
<1>6. ~torn' /\ (up' => running' /\ CliIdle')
  BY <1>2, <1>3 DEF OfflineInv, CliInv, CliIdle
<1>7. CliIdle' \/ cli' = disk'
  BY <1>2, <1>3, <1>6 DEF OfflineInv, CliInv, CliIdle
<1>. QED  BY <1>1, <1>3, <1>4, <1>5, <1>6, <1>7 DEF OfflineInv, CliInv, AddedJobsAreKept

\* A command that saves replaces the file by its copy with one job changed.
LEMMA CliSaveKeeps ==
  ASSUME ~SaveMayFail, OfflineInv, ~up, NEW j \in JobIds, NEW r \in Job \cup {Absent},
         CliSave([cli EXCEPT ![j] = r]),
         created' \in SUBSET JobIds,
         promised' \subseteq promised \cup {j},
         r = Absent => j \notin promised'
  PROVE  OfflineInv'
<1>1. /\ cli = disk /\ disk \in [JobIds -> Job \cup {Absent}]
      /\ disk' = [disk EXCEPT ![j] = r] /\ torn' = FALSE /\ cli' = NoJob
      /\ UNCHANGED <<now, service, loop, store, pending, starts, at>>
  BY DEF CliSave, SaveOk, OfflineInv, CliInv, CliIdle, TypeOK
<1>2. TypeOK' /\ DownIsFree' /\ ~running'
  BY <1>1 DEF OfflineInv, TypeOK, DownIsFree, service
<1>3. \A i \in promised' : disk'[i] # Absent
  BY <1>1 DEF OfflineInv, CliInv, AddedJobsAreKept
<1>. QED  BY <1>1, <1>2, <1>3
          DEF OfflineInv, CliInv, AddedJobsAreKept, DiskIsCurrent, CliIdle, service

LEMMA CliKeepsOffline ==
  ASSUME ~SaveMayFail, OfflineInv, CliStep, ~up
  PROVE  OfflineInv'
<1>. USE DEF OfflineInv
<1>1. ASSUME UNCHANGED <<vars, promised>>, cli' \in {NoJob, disk} PROVE OfflineInv'
  <2>1. TypeOK' /\ DownIsFree' /\ DiskIsCurrent'
    BY <1>1 DEF vars, service, files, history, TypeOK, DownIsFree, DiskIsCurrent
  <2>. QED  BY <1>1, <2>1 DEF vars, service, files, CliInv, CliIdle, AddedJobsAreKept
<1>2. CASE CliLoad \/ CliExit
  BY <1>1, <1>2 DEF CliLoad, CliExit, LoadedStore, CliInv
<1>3. ASSUME NEW j \in JobIds, CliAdd(j) PROVE OfflineInv'
  <2>1. NewJob(j, Nil) \in Job
    BY NewJobType DEF TypeOK, Nil
  <2>2. created' \in SUBSET JobIds
    BY <1>3 DEF CliAdd, TypeOK
  <2>. QED  BY <1>3, <2>1, <2>2, CliSaveKeeps, Sentinels DEF CliAdd
<1>4. ASSUME NEW j \in JobIds, CliRemove(j) PROVE OfflineInv'
  BY <1>4, CliSaveKeeps DEF CliRemove, TypeOK
<1>5. ASSUME NEW j \in JobIds, NEW enabled \in BOOLEAN, CliEnable(j, enabled)
      PROVE  OfflineInv'
  <2>1. cli = disk /\ cli[j] \in Job /\ cli \in [JobIds -> Job \cup {Absent}]
    BY <1>5 DEF CliEnable, CliInv, TypeOK
  <2>2. PICK n \in Nat \cup {Nil} : n = IF enabled THEN NextRun(j) ELSE Nil
    BY NextRunType
  <2>3. PICK r \in Job : r = [cli[j] EXCEPT !.enabled = enabled, !.next = n]
    BY <2>1 DEF Job
  <2>4. [cli EXCEPT ![j].enabled = enabled, ![j].next = n] = [cli EXCEPT ![j] = r]
    BY <2>1, <2>3
  <2>5. CliSave([cli EXCEPT ![j] = r])
    BY <1>5, <2>2, <2>4 DEF CliEnable
  <2>6. UNCHANGED <<created, promised>> /\ r # Absent
    BY <1>5, Sentinels DEF CliEnable
  <2>. QED  BY <2>5, <2>6, CliSaveKeeps DEF TypeOK
<1>. QED  BY <1>2, <1>3, <1>4, <1>5 DEF CliStep

LEMMA OfflineInvHolds ==
  ASSUME ~SaveMayFail, ~TornWrites
  PROVE  OfflineSpec => []OfflineInv
<1>1. CliInit => OfflineInv
  BY InitTypeOK DEF CliInit, OfflineInv, CliInv, CliIdle, AddedJobsAreKept,
                    DiskIsCurrent, Init, DownIsFree
<1>2. OfflineInv /\ [\/ GatewayStep /\ (up' => up \/ CliIdle)
                     \/ CliStep /\ ~up]_allVars => OfflineInv'
  <2>1. ASSUME OfflineInv, UNCHANGED allVars PROVE OfflineInv'
    BY <2>1 DEF allVars, cliVars, vars, service, files, history, OfflineInv, CliInv,
                CliIdle, AddedJobsAreKept, DiskIsCurrent, DownIsFree, TypeOK
  <2>. QED  BY <2>1, GatewayKeepsOffline, CliKeepsOffline
<1>. QED  BY <1>1, <1>2, PTL DEF OfflineSpec

\* While no write fails or is torn, a job that "cron add" has reported stays in
\* jobs.json until a command or the agent removes it, for any number
\* of commands, gateways and crashes: commands are used one at a time and
\* only while no gateway runs, so none of the copies is ever stale.
THEOREM AddedJobsStay ==
  ~SaveMayFail /\ ~TornWrites => (OfflineSpec => []AddedJobsAreKept)
<1>. SUFFICES ASSUME ~SaveMayFail, ~TornWrites PROVE OfflineSpec => []AddedJobsAreKept
  OBVIOUS
<1>1. OfflineInv => AddedJobsAreKept
  BY DEF OfflineInv, CliInv
<1>. QED  BY <1>1, OfflineInvHolds, PTL

\* ... and between the commands the gateway works with what the file says.
THEOREM OfflineDiskKeepsUp ==
  ~SaveMayFail /\ ~TornWrites => (OfflineSpec => []DiskIsCurrent)
<1>. SUFFICES ASSUME ~SaveMayFail, ~TornWrites PROVE OfflineSpec => []DiskIsCurrent
  OBVIOUS
<1>1. OfflineInv => DiskIsCurrent
  BY DEF OfflineInv
<1>. QED  BY <1>1, OfflineInvHolds, PTL
=============================================================================
