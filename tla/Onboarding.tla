----------------------------- MODULE Onboarding -----------------------------
(***************************************************************************)
(* From an interview to the artifacts: onboard and compile, run again and  *)
(* again by one user on one workspace, which share the session file.       *)
(***************************************************************************)
EXTENDS Compile

CONSTANT Cases
(* A set of [project, budget]: what a behaviour begins with, and how much  *)
(* of each it has, budget = [onboards, turns, tears, domains, compiles,    *)
(* failures]; to each of these domains the user may turn once, and compile *)
(* until so many have succeeded.                                           *)

VARIABLE budget

vars == <<interviewVars, compileVars, budget>>

Init ==
  /\ \E c \in Cases : budget = c.budget /\ project = c.project
  /\ InterviewInit /\ CompileInit

Turns == IF ivw.pc = "idle" THEN 0 ELSE Len(ivw.turns)

InterviewNext ==
  /\ \/ /\ onboards < budget.onboards
        /\ \E resume \in BOOLEAN, depth \in {project.depth, "operator"} :
             Onboard(resume, depth)
     \/ Turns < budget.turns /\ (AnswerTurn \/ Skip)
     \/ Opening \/ Save \/ Reply \/ Extract \/ Finish \/ Quit
     \/ tears < budget.tears /\ Tear
  /\ UNCHANGED <<compileVars, budget>>

Edit ==
  /\ \E d \in budget.domains :
       /\ ChangeDomain(d)
       /\ budget' = [budget EXCEPT !.domains = budget.domains \ {d}]
  /\ UNCHANGED compileVars

CompileNext ==
  /\ \/ CompileSteps
     \/ successes < budget.compiles /\ \E resume \in BOOLEAN : Compile(resume)
     \/ failures < budget.failures /\ (Fail \/ TearDerivation)
  /\ UNCHANGED <<interviewVars, budget>>

Next == InterviewNext \/ Edit \/ CompileNext

(* A compile that runs goes on, and the user runs it again until it has    *)
(* succeeded, as its last line asks for; failures are bounded.             *)
Recompile == successes < budget.compiles /\ Compile(TRUE)

Fairness ==
  /\ WF_compileVars(CompileSteps /\ UNCHANGED <<interviewVars, budget>>)
  /\ WF_compileVars(Recompile /\ UNCHANGED <<interviewVars, budget>>)

Spec == Init /\ [][Next]_vars /\ Fairness

-----------------------------------------------------------------------------
(* Properties.                                                             *)

(* A compile that reports success leaves every file that the session calls *)
(* for, all from the same session and answers, and playbooks whose steps   *)
(* have what they take and call skills of the manifest; also when failures *)
(* and kills came in between, unless it went on with a derivation that     *)
(* another session had begun (compile, compileSkills, compilePlaybooks).   *)
SuccessIsWhole ==
  result = "success" /\ ~mixed =>
    \E basis \in {disk[f] : f \in DOMAIN disk} :
      /\ deriv.basis = basis /\ deriv.done = 5
      /\ \A step \in Steps : \A k \in DOMAIN Files(step, basis) :
           /\ Files(step, basis)[k] \in DOMAIN disk
           /\ disk[Files(step, basis)[k]] = basis
      /\ LET playbooks == Playbooks(basis.domain, Careful(basis)) IN
         \A k \in DOMAIN playbooks :
           Runnable(playbooks[k], Ids(Skills(disk[<<"skill", "manifest">>].domain)))

(* Of two users who differ in autonomy alone, the one who grants less is   *)
(* asked about no fewer actions and allowed no more calls, as long as the  *)
(* action's risk is at most 0.7, and a taboo is blocked for both; above    *)
(* 0.7 the middle tier is stricter than the ones below (guardrails.v1.yaml *)
(* as it lies on disk, compileGuardrails).                                 *)
Actions ==
  [ ops : SUBSET {"write", "delete", "execute", "publish"},
    resource : {"drafts/*", "emails/*", "deals/*", "deploy/*", "reports/*",
                "responses/*"},
    risk : {5, 7}, tags : {{}, {"escalation"}}, about : {"personal information"} ]

LessAutonomyAsksMore ==
  comp.pc = "run" /\ comp.step = 2 /\ comp.written = 1 =>
    LET basis == disk[<<"self", "guardrails">>]
        mine == Guardrails(basis.answers, basis.domain)
    IN /\ \A taboo \in basis.answers.never : taboo \in mine.blocked
       /\ \A a \in Level :
            a < basis.answers.autonomy =>
              LET other == Guardrails([basis.answers EXCEPT !.autonomy = a],
                                      basis.domain)
              IN /\ \A act \in Actions :
                      NeedsApproval(mine, act) => NeedsApproval(other, act)
                 /\ other.limits[1] <= mine.limits[1]
                 /\ mine.limits[2] # 0 => other.limits[2] # 0

(* Once failures are over, compiling again succeeds, whatever file they    *)
(* left half-written, if the session file can be read and its answers have *)
(* the shape that was asked for (compile --resume).                        *)
RecompilingSucceeds ==
  <>[](Whole(file) /\ Basis(file).answers.whole /\ budget.compiles > 0)
    => <>(result = "success")
=============================================================================
