------------------------------ MODULE Library ------------------------------
(***************************************************************************)
(* The skills and playbooks that TasteKit ships for each domain, as far as *)
(* they refer to each other: which skill needs or feeds which, the sections*)
(* of its SKILL.md that the linter knows, and for every step of a playbook *)
(* the variables that its template takes, those it gives, and the skill it *)
(* calls.                                                                  *)
(***************************************************************************)
EXTENDS Integers, Sequences, FiniteSets

NoSkill == "none"

(* Every shipped SKILL.md has these sections.                              *)
Shipped == {"Purpose", "When to use", "Inputs", "Outputs", "Procedure",
            "Quality checks", "Guardrail notes"}

Skill(id, risk, needs, feeds) ==
  [id |-> id, risk |-> risk, needs |-> needs, feeds |-> feeds,
   sections |-> Shipped, tiers |-> {}]

Step(uses, gives) == [skill |-> NoSkill, uses |-> uses, gives |-> gives,
                      gate |-> FALSE]
Call(skill, uses, gives) == [Step(uses, gives) EXCEPT !.skill = skill]
Gate(uses, gives) == [Step(uses, gives) EXCEPT !.gate = TRUE]

Playbook(id, inputs, steps) == [id |-> id, inputs |-> inputs, steps |-> steps]

-----------------------------------------------------------------------------
(* Skills.                                                                 *)

ResearchTrends == Skill("research-trends", "low", {}, {"generate-post-options"})
GeneratePostOptions ==
  Skill("generate-post-options", "low", {"research-trends"}, {})
WebResearch == Skill("web-research", "low", {}, {"competitive-analysis"})
CompetitiveAnalysis == Skill("competitive-analysis", "low", {"web-research"}, {})
LeadQualification == Skill("lead-qualification", "low", {}, {"outreach-email"})
OutreachEmail == Skill("outreach-email", "med", {"lead-qualification"}, {})
TicketTriage == Skill("ticket-triage", "low", {}, {"response-draft"})
ResponseDraft == Skill("response-draft", "med", {"ticket-triage"}, {})
CodeReview == Skill("code-review", "low", {}, {"refactor-plan"})
RefactorPlan == Skill("refactor-plan", "med", {"code-review"}, {})
ContextSynthesis == Skill("context-synthesis", "low", {}, {"task-orchestration"})
TaskOrchestration ==
  Skill("task-orchestration", "low", {"context-synthesis"}, {})

(* The skill for a domain that has none names the tiers of disclosure and  *)
(* the cases in which it should not be used.                               *)
GenericSkill ==
  [Skill("general-task", "low", {}, {}) EXCEPT
     !.sections = Shipped \cup {"When not to use"},
     !.tiers = {"Minimal context", "On invoke", "On demand"}]

(* resolveDomainSkills, and the generic skill when there is none.          *)
Skills(domain) ==
  CASE domain = "content"     -> <<ResearchTrends, GeneratePostOptions>>
    [] domain = "research"    -> <<WebResearch, CompetitiveAnalysis>>
    [] domain = "sales"       -> <<LeadQualification, OutreachEmail>>
    [] domain = "support"     -> <<TicketTriage, ResponseDraft>>
    [] domain = "development" -> <<CodeReview, RefactorPlan>>
    [] domain = "general"     -> <<ContextSynthesis, TaskOrchestration>>
    [] OTHER                  -> <<GenericSkill>>

(* lintSkills: what it reports as an error.                                *)
RequiredSections == Shipped \cup {"When not to use", "Progressive disclosure"}

LintErrors(skill) == RequiredSections \ skill.sections

-----------------------------------------------------------------------------
(* Playbooks.                                                              *)

SimplePost ==
  Playbook("simple-post", {"topic", "platform", "tone_override"},
    << Step({}, {"context_summary"}),
       Call("generate-post-options", {"topic", "platform"}, {"post_options"}),
       Gate({"post_options"}, {"selected_post"}),
       Step({"selected_post", "platform"}, {"final_post"}) >>)

ResearchAndPost ==
  Playbook("research-and-post", {"niche", "platform", "timeframe"},
    << Call("research-trends", {"niche", "platform", "timeframe"}, {"trend_data"}),
       Step({"trend_data"}, {"selected_angle"}),
       Call("generate-post-options", {"selected_angle", "platform"},
            {"post_options"}),
       Gate({"post_options", "trend_data"}, {"selected_post"}),
       Step({"selected_post", "platform"}, {"final_post"}) >>)

ContentCalendar ==
  Playbook("content-calendar", {"niche", "platforms", "posts_per_week"},
    << Call("research-trends", {"niche", "platforms"}, {"trend_data"}),
       Step({"trend_data", "posts_per_week", "platforms"}, {"theme_plan"}),
       Gate({"theme_plan"}, {"approved_plan"}),
       Step({"approved_plan"}, {"calendar_file"}) >>)

QuickLookup ==
  Playbook("quick-lookup", {"question", "source_preferences"},
    << Call("web-research", {"question"}, {"research_findings"}),
       Step({"research_findings"}, {"answer"}),
       Step({"answer"}, {"final_answer"}) >>)

DeepDiveAnalysis ==
  Playbook("deep-dive-analysis", {"topic", "scope", "output_format"},
    << Step({"topic"}, {"research_plan"}),
       Call("web-research", {"topic"}, {"raw_findings"}),
       Step({"raw_findings"}, {"verified_findings"}),
       Step({"verified_findings", "research_plan"}, {"analysis"}),
       Gate({"analysis"}, {"approved_analysis"}),
       Step({"approved_analysis", "output_format"}, {"final_report"}) >>)

LeadOutreach ==
  Playbook("lead-outreach", {"lead_data", "outreach_type"},
    << Call("lead-qualification", {"lead_data"}, {"qualification"}),
       Step({"qualification"}, {"approach_decision"}),
       Call("outreach-email",
            {"lead_data", "outreach_type", "approach_decision"}, {"draft_email"}),
       Gate({"draft_email", "qualification"}, {"approved_email"}),
       Step({"approved_email"}, {"send_result"}) >>)

ProposalWorkflow ==
  Playbook("proposal-workflow", {"prospect", "requirements", "proposal_format"},
    << Step({"prospect", "requirements"}, {"solution_mapping"}),
       Step({"solution_mapping", "proposal_format"}, {"draft_proposal"}),
       Gate({"draft_proposal", "requirements"}, {"approved_proposal"}),
       Step({"approved_proposal"}, {"delivered_proposal"}) >>)

StandardTicket ==
  Playbook("standard-ticket", {"ticket", "channel"},
    << Call("ticket-triage", {"ticket"}, {"triage_result"}),
       Step({"ticket", "triage_result"}, {"resolution"}),
       Call("response-draft", {"ticket", "channel", "triage_result", "resolution"},
            {"draft_response"}),
       Gate({"draft_response", "triage_result"}, {"approved_response"}),
       Step({"approved_response", "channel"}, {"sent_response"}) >>)

EscalationWorkflow ==
  Playbook("escalation-workflow", {"ticket", "reason", "target_team"},
    << Step({"ticket", "reason"}, {"severity_assessment"}),
       Step({"ticket", "severity_assessment"}, {"escalation_context"}),
       Step({"escalation_context"}, {"escalation_package"}),
       Call("response-draft", {"ticket"}, {"customer_notification"}),
       Gate({"escalation_package", "customer_notification"},
            {"approved_handoff"}) >>)

GeneralTaskExecution ==
  Playbook("general-task-execution", {"goal", "context_sources", "constraints"},
    << Call("context-synthesis", {"goal", "context_sources"}, {"context_brief"}),
       Step({"goal", "constraints", "context_brief"}, {"execution_plan"}),
       Call("task-orchestration", {"goal", "constraints", "context_brief"},
            {"execution_result"}),
       Gate({"execution_result"}, {"approved_result"}),
       Step({"approved_result"}, {"final_output"}) >>)

ResearchThenAct ==
  Playbook("research-then-act", {"question", "sources", "decision_deadline"},
    << Call("context-synthesis", {"question", "sources"},
            {"brief", "confidence_map", "open_questions"}),
       Step({"brief", "confidence_map", "decision_deadline"},
            {"recommended_path"}),
       Call("task-orchestration", {"question", "brief", "decision_deadline"},
            {"path_result"}),
       Step({"path_result"}, {"delivery_packet"}) >>)

(* generateGenericPlaybook: with an autonomy below a half it has a review.  *)
GenericPlaybook(careful) ==
  LET review == IF careful THEN <<Gate({}, {"approved_result"})>> ELSE <<>>
      result == IF careful THEN {"approved_result"} ELSE {"task_result"}
  IN Playbook("general-task", {"task", "context"},
       << Step({}, {"task_analysis"}), Step({}, {"task_result"}) >>
         \o review \o << Step(result, {"final_output"}) >>)

(* resolveDomainPlaybooks, and the generic one when there is none:         *)
(* development-agent has none.                                             *)
Playbooks(domain, careful) ==
  CASE domain = "content"  -> <<SimplePost, ResearchAndPost, ContentCalendar>>
    [] domain = "research" -> <<QuickLookup, DeepDiveAnalysis>>
    [] domain = "sales"    -> <<LeadOutreach, ProposalWorkflow>>
    [] domain = "support"  -> <<StandardTicket, EscalationWorkflow>>
    [] domain = "general"  -> <<GeneralTaskExecution, ResearchThenAct>>
    [] OTHER               -> <<GenericPlaybook(careful)>>

(* Every step of a playbook takes what an earlier one gives, or an input,  *)
(* and calls a skill of these.                                             *)
Runnable(playbook, skills) ==
  \A k \in DOMAIN playbook.steps :
    /\ playbook.steps[k].uses \subseteq
         playbook.inputs \cup UNION {playbook.steps[m].gives : m \in 1 .. k - 1}
    /\ playbook.steps[k].skill \in skills \cup {NoSkill}
=============================================================================
