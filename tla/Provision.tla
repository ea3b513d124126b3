----------------------------- MODULE Provision -----------------------------
(***************************************************************************)
(* QuickClaw: `create` provisions a workspace and the openclaw host around *)
(* it, `verify` checks both.  create is one program, a step of it one      *)
(* action; every command it runs succeeds, fails, or is killed by a        *)
(* signal, which runShell reports as success (`code ?? 0`).  Around it the *)
(* user edits openclaw.json, the agent writes its memory, the gateway      *)
(* comes and goes, and create may be interrupted or run again.             *)
(***************************************************************************)
EXTENDS Integers, Sequences, FiniteSets, SequencesExt

CONSTANTS
  Options,       \* what create is asked: a set of records, see Option
  Environments,  \* [secrets, hookToken, sentryToken]: which variables are set
  Hosts,         \* [bins, oc, gateway]: hosts to begin with
  Losses,        \* bound: the sets of hooks and jobs whose command may fail
  MaxCommands,   \* bound: creates
  UserMappings   \* the mappings that the user adds, in this order

Option == [preview : BOOLEAN, confirm : BOOLEAN, autoInstall : BOOLEAN,
           allowGlobal : BOOLEAN]

(* buildDefaultConfig: what verify takes when it is given no file.         *)
DefaultOption == [preview |-> FALSE, confirm |-> FALSE, autoInstall |-> FALSE,
                  allowGlobal |-> FALSE]

Binaries == {"openclaw", "tastekit", "claude", "codex", "tmux", "git"}
RequiredHooks == {"session-memory", "command-logger", "boot-md",
                  "bootstrap-extra-files"}
CronJobs == {"quickclaw-nightly-extraction", "quickclaw-morning-priorities",
             "quickclaw-ops-monitor", "quickclaw-coding-heartbeat"}
Documents == {"AGENTS.md", "SOUL.md", "IDENTITY.md", "USER.md", "MEMORY.md",
              "HEARTBEAT.md", "memory/today", "ops/coding-policy.md",
              "memory/README.md", "ops/safety/trust-ladder.md",
              "ops/safety/approval-queue.md", "ops/sentry/triage-policy.md",
              "ops/sentry/staging-vs-production.md"}
Scripts == {"create-worktree.sh", "ralph-loop.sh", "verify-prd-checklist.sh",
            "tmux-health-check.sh", "notify-complete.sh", "tmux-heartbeat.sh",
            "wake-coding-session.sh", "nightly-memory-extract.sh"}

(* A host that QuickClaw has not been on: openclaw.json, if it can be read, *)
(* has the mappings of its user only.                                      *)
Host == [bins : SUBSET STRING, gateway : BOOLEAN,
         oc : [ok : BOOLEAN, mappings : Seq(STRING \ {"sentry"}),
               token : STRING, slack : STRING]]

ASSUME ProvisionAssumption ==
  /\ Options \subseteq Option /\ Hosts \subseteq Host
  /\ MaxCommands \in Nat /\ UserMappings \in Seq(STRING \ {"sentry"})

VARIABLES
  env,      \* the environment variables
  bins,     \* the binaries on the PATH ("clawdbot" serves for "openclaw")
  gateway,  \* the openclaw daemon answers
  hooks,    \* hooks that are enabled
  jobs,     \* openclaw's cron jobs, as it lists them
  oc,       \* openclaw.json: [ok, mappings, token, slack]
  rules,    \* Sentry rules named "QuickClaw AutoFix Alerts"
  files,    \* files in the workspace
  memory,   \* MEMORY.md: "none", "seed" (as generated) or "grown"
  reports,  \* the apply report on disk: "none", "success" or "failure"
  verified, \* the outcome of the last verify: "none", "success" or "failure"
  pc,       \* the step of create that comes next
  cmd,      \* its options
  check,    \* the failing checks of its preflight
  acts,     \* the actions that it records as failed
  user,     \* history: the mappings of the user
  faults,   \* history: "killed", "blind" (cron list failed), "erased"
  edits, commands

host == <<bins, gateway, hooks, jobs, oc, rules>>
tree == <<files, memory, reports, verified>>
run  == <<pc, cmd, check, acts>>
past == <<user, faults, edits, commands>>
provisionVars == <<env, host, tree, run, past>>

-----------------------------------------------------------------------------
(* Checks.                                                                 *)

OpenClawBinary == bins \cap {"openclaw", "clawdbot"} # {}

(* runPreflight: the names of the checks that fail.                        *)
Missing(present) ==
  (Binaries \ present)
    \ (IF present \cap {"openclaw", "clawdbot"} = {} THEN {} ELSE {"openclaw"})

Preflight(present) ==
  Missing(present) \cup (IF env.secrets THEN {} ELSE {"secret"})

(* verify: the names of the checks that fail, when the commands in down do *)
(* not answer.  Jobs that cannot be listed are not looked for.             *)
RequiredFiles(o) ==
  {"memory/README.md", "ops/safety/trust-ladder.md", "ops/safety/approval-queue.md",
   "tmux-heartbeat.sh", "wake-coding-session.sh"}
  \cup (IF o.allowGlobal THEN {} ELSE {"openclaw.config.patch.json"})

RuntimeCommands == {"openclaw_hooks_check", "openclaw_cron_list"}

RuntimeFails(down) ==
  IF ~OpenClawBinary THEN {"openclaw_runtime"}
  ELSE (IF gateway THEN {} ELSE {"openclaw_health"})
       \cup (RequiredHooks \ hooks) \cup down
       \cup (IF "openclaw_cron_list" \in down THEN {} ELSE CronJobs \ ToSet(jobs))

WebhookAnswers == env.hookToken /\ gateway /\ "sentry" \in ToSet(oc.mappings)

VerifyFails(o, down) ==
  Preflight(bins) \cup (RequiredFiles(o) \ files) \cup RuntimeFails(down)
    \cup (IF WebhookAnswers THEN {} ELSE {"sentry_webhook_route_test"})

-----------------------------------------------------------------------------
(* create.                                                                 *)

(* The config is parsed; the workspace is made, the checks are run and the *)
(* plan is written, in preview too.                                        *)
Plan(o) ==
  /\ pc = "idle" /\ commands < MaxCommands
  /\ commands' = commands + 1
  /\ cmd' = o /\ acts' = {}
  /\ check' = Preflight(bins)
  /\ files' = files \cup {"plan-report.v1.json"}
  /\ pc' = IF o.preview THEN "idle"
           ELSE IF o.autoInstall /\ Missing(bins) # {}
           THEN "install" ELSE "confirm"
  /\ UNCHANGED <<env, host, memory, reports, verified, user, faults, edits>>

(* A binary whose installation is killed counts as installed; the second   *)
(* preflight finds it missing all the same.                                *)
Install ==
  /\ pc = "install"
  /\ \E good \in SUBSET Missing(bins) :
       \E killed \in SUBSET (Missing(bins) \ good) :
         /\ bins' = bins \cup good
         /\ check' = Preflight(bins')
         /\ acts' = IF Missing(bins) = good \cup killed THEN acts
                    ELSE acts \cup {"auto_install_cli"}
         /\ faults' = IF killed = {} THEN faults ELSE faults \cup {"killed"}
  /\ pc' = "confirm"
  /\ UNCHANGED <<env, gateway, hooks, jobs, oc, rules, tree, cmd, user, edits,
                 commands>>

(* The user may say no; assertPreflight throws when a check has failed.    *)
Confirm ==
  /\ pc = "confirm"
  /\ \/ cmd.confirm /\ pc' = "idle"
     \/ pc' = IF check = {} THEN "onboard" ELSE "idle"
  /\ UNCHANGED <<env, host, tree, cmd, check, acts, past>>

(* openclaw onboard writes a workspace of its own and installs the daemon. *)
Onboard ==
  /\ pc = "onboard"
  /\ \/ pc' = "idle" /\ UNCHANGED <<files, gateway, faults>>
     \/ /\ pc' = "docs"
        /\ files' = files \cup {"BOOTSTRAP.md"}
        /\ gateway' \in {gateway, TRUE}
        /\ UNCHANGED faults
     \/ /\ pc' = "docs"
        /\ faults' = faults \cup {"killed"}
        /\ UNCHANGED <<files, gateway>>
  /\ UNCHANGED <<env, bins, hooks, jobs, oc, rules, memory, reports, verified, cmd, check,
                 acts, user, edits, commands>>

(* Every document is written anew, MEMORY.md and the log of today as well. *)
\* Mutant: one document is filtered out with the seed of the memory.
WriteWorkspaceDocsShort ==
  /\ pc = "docs"
  /\ files' = (files \cup (Documents \ {"memory/README.md"})) \ {"BOOTSTRAP.md"}
  /\ memory' = "seed"
  /\ pc' = "ops"
  /\ UNCHANGED <<env, host, reports, verified, cmd, check, acts, past>>

WriteWorkspaceDocs ==
  /\ pc = "docs"
  /\ files' = (files \cup Documents) \ {"BOOTSTRAP.md"}
  /\ memory' = "seed"
  /\ pc' = "ops"
  /\ UNCHANGED <<env, host, reports, verified, cmd, check, acts, past>>

SetupCodingOps ==
  /\ pc = "ops"
  /\ files' = files \cup Scripts
  /\ pc' = "hooks"
  /\ UNCHANGED <<env, host, memory, reports, verified, cmd, check, acts, past>>

(* Hooks are enabled one by one, whatever became of the ones before.       *)
SetupHooks ==
  /\ pc = "hooks"
  /\ \E lost \in {l \cap RequiredHooks : l \in Losses}, killed \in BOOLEAN :
       /\ hooks' = hooks \cup (RequiredHooks \ lost)
       /\ acts' = IF lost # {} /\ ~killed THEN acts \cup {"hooks"} ELSE acts
       /\ faults' = IF lost # {} /\ killed THEN faults \cup {"killed"} ELSE faults
  /\ pc' = "cron"
  /\ UNCHANGED <<env, bins, gateway, jobs, oc, rules, tree, cmd, check, user, edits,
                 commands>>

(* A listing that fails shows no job: all are added, again too.            *)
SetupCronJobs ==
  /\ pc = "cron"
  /\ \E listed \in BOOLEAN, lost \in {l \cap CronJobs : l \in Losses},
        killed \in BOOLEAN :
       LET wanted == IF listed THEN CronJobs \ ToSet(jobs) ELSE CronJobs
           failed == lost \cap wanted
       IN  /\ jobs' = jobs \o SetToSeq(wanted \ failed)
           /\ acts' = IF failed # {} /\ ~killed THEN acts \cup {"cron"} ELSE acts
           /\ faults' = faults \cup (IF listed THEN {} ELSE {"blind"})
                               \cup (IF failed # {} /\ killed THEN {"killed"} ELSE {})
  /\ pc' = "sentry"
  /\ UNCHANGED <<env, bins, gateway, hooks, oc, rules, tree, cmd, check, user, edits,
                 commands>>

(* loadOpenClawConfig: a file that does not parse is an empty one.         *)
LoadedConfig ==
  IF oc.ok THEN oc ELSE [ok |-> TRUE, mappings |-> <<>>, token |-> "none", slack |-> "none"]

(* The patch is spread over channels and hooks: Slack's settings and the   *)
(* hook token are replaced, by nothing when the variable is not set.       *)
\* Mutant: the mapping is added to what is there.
PatchedConfigTwice ==
  [LoadedConfig EXCEPT !.mappings = Append(@, "sentry"), !.slack = "quickclaw",
                       !.token = IF env.hookToken THEN "quickclaw" ELSE "none"]

(* mappings.filter: all mappings but the one of that name, in their order. *)
Without(s, name) ==
  LET kept[i \in 0 .. Len(s)] ==
        IF i = 0 THEN <<>>
        ELSE IF s[i] = name THEN kept[i - 1] ELSE Append(kept[i - 1], s[i])
  IN  kept[Len(s)]

PatchedConfig ==
  [ok       |-> TRUE,
   mappings |-> Append(Without(LoadedConfig.mappings, "sentry"), "sentry"),
   token    |-> IF env.hookToken THEN "quickclaw" ELSE "none",
   slack    |-> "quickclaw"]

SetupSentryPipeline ==
  /\ pc = "sentry"
  /\ oc' = IF cmd.allowGlobal THEN PatchedConfig ELSE oc
  /\ faults' = IF cmd.allowGlobal /\ ~oc.ok THEN faults \cup {"erased"} ELSE faults
  /\ files' = files \cup {"hook-transform.js", "resolve-sentry-issue.sh"}
                    \cup (IF cmd.allowGlobal THEN {} ELSE {"openclaw.config.patch.json"})
  /\ \E validated, alerts, smoke \in BOOLEAN :
       /\ validated => env.sentryToken
       /\ alerts => validated
       /\ smoke => cmd.allowGlobal /\ env.hookToken /\ gateway
       /\ rules' = IF alerts /\ rules = 0 THEN 1 ELSE rules
       /\ acts' = IF validated /\ alerts /\ smoke THEN acts
                  ELSE acts \cup {"sentry_pipeline"}
  /\ pc' = "bridge"
  /\ UNCHANGED <<env, bins, gateway, hooks, jobs, memory, reports, verified, cmd, check, user,
                 edits, commands>>

RunTasteKitBridge ==
  /\ pc = "bridge"
  /\ acts' \in {acts, acts \cup {"tastekit_bridge"}}
  /\ pc' = "report"
  /\ UNCHANGED <<env, host, tree, cmd, check, past>>

WriteApplyReport ==
  /\ pc = "report"
  /\ reports' = IF acts = {} THEN "success" ELSE "failure"
  /\ pc' = "reported"
  /\ UNCHANGED <<env, host, files, memory, verified, cmd, check, acts, past>>

Return ==
  /\ pc = "reported"
  /\ pc' = "idle"
  /\ UNCHANGED <<env, host, tree, cmd, check, acts, past>>

(* create is stopped between two steps: what was done stays.               *)
Interrupt ==
  /\ pc \notin {"idle", "reported"}
  /\ pc' = "idle"
  /\ UNCHANGED <<env, host, tree, cmd, check, acts, past>>

-----------------------------------------------------------------------------
(* verify, and the others.                                                 *)

(* It changes nothing but its own report.                                  *)
Verify(o) ==
  /\ pc = "idle"
  /\ \E down \in SUBSET RuntimeCommands :
       verified' = IF VerifyFails(o, down) = {} THEN "success" ELSE "failure"
  /\ UNCHANGED <<env, host, files, memory, reports, run, past>>

UserMaps ==
  /\ oc.ok /\ edits < Len(UserMappings)
  /\ edits' = edits + 1
  /\ user' = Append(user, UserMappings[edits'])
  /\ oc' = [oc EXCEPT !.mappings = Append(@, UserMappings[edits'])]
  /\ UNCHANGED <<env, bins, gateway, hooks, jobs, rules, tree, run, faults, commands>>

AgentRemembers ==
  /\ memory = "seed" /\ pc = "idle"
  /\ memory' = "grown"
  /\ UNCHANGED <<env, host, files, reports, verified, run, past>>

ProvisionInit ==
  /\ env \in Environments
  /\ \E h \in Hosts : /\ bins = h.bins /\ oc = h.oc /\ gateway = h.gateway
                      /\ user = h.oc.mappings
  /\ hooks = {} /\ jobs = <<>> /\ rules = 0
  /\ files = {} /\ memory = "none"
  /\ reports = "none" /\ verified = "none"
  /\ pc = "idle" /\ cmd \in {CHOOSE o \in Options : TRUE}
  /\ check = {} /\ acts = {}
  /\ faults = {} /\ edits = 0 /\ commands = 0

Create ==
  \/ (\E o \in Options : Plan(o)) \/ Install \/ Confirm \/ Onboard
  \/ WriteWorkspaceDocs \/ SetupCodingOps \/ SetupHooks \/ SetupCronJobs
  \/ SetupSentryPipeline \/ RunTasteKitBridge \/ WriteApplyReport \/ Return

ProvisionNext ==
  \/ Create \/ Interrupt
  \/ (\E o \in Options \cup {DefaultOption} : Verify(o)) \/ UserMaps \/ AgentRemembers

-----------------------------------------------------------------------------
(* Properties.                                                             *)

(* A create that reports success leaves a host and a workspace on which    *)
(* verify, with the same options, has nothing to say beyond whether the    *)
(* gateway and the commands that verify runs answer: every one of the      *)
(* steps whose result is recorded did what verify looks for.  This needs   *)
(* that no command was killed: create takes that for success (create.ts,   *)
(* verify.ts, runShell).                                                   *)
SuccessIsVerified ==
  pc = "reported" /\ reports = "success" /\ "killed" \notin faults
    => /\ \A down \in SUBSET RuntimeCommands :
            VerifyFails(cmd, down)
              \subseteq {"openclaw_health", "sentry_webhook_route_test"} \cup down
       /\ oc.ok /\ "sentry" \in ToSet(oc.mappings) /\ rules = 1

(* However often create runs, is interrupted and runs again, it leaves the *)
(* user's own mappings as they are, in their order, with one of its own,   *)
(* and each of its cron jobs is there at most once; unless openclaw.json   *)
(* did not parse, or openclaw would not list its jobs (setupSentryPipeline *)
(* and setupCronJobs).                                                     *)
RerunsKeepTheHost ==
  /\ "erased" \notin faults /\ oc.ok =>
       /\ Without(oc.mappings, "sentry") = user
       /\ \A i, k \in DOMAIN oc.mappings :
            oc.mappings[i] = "sentry" /\ oc.mappings[k] = "sentry" => i = k
  /\ "blind" \notin faults => IsInjective(jobs)
=============================================================================
