------------------------------ MODULE Rubrics ------------------------------
(***************************************************************************)
(* TasteKit's rubrics: the dimensions that an interview explores, in the   *)
(* order in which the interviewer lists them.  A dimension belongs to a    *)
(* depth and to every deeper one; its wording, hints and criteria are left *)
(* out.  Resolving one may cascade: it adds some confidence to others.     *)
(* Confidence is counted in twentieths: 1.5 is 30.                         *)
(***************************************************************************)
EXTENDS Integers, Sequences, SequencesExt

Depths == <<"quick", "guided", "operator">>
Threshold == 30
Started == 6

-----------------------------------------------------------------------------
(* The dimensions of each rubric that the quick interview has, that the    *)
(* guided one adds, and that the operator's adds.                          *)

UniversalQuick == << "core_purpose", "guiding_principles",
                     "communication_tone", "autonomy_boundaries" >>
UniversalGuided == << "accuracy_evidence", "hard_boundaries" >>
UniversalOperator == << "cost_resource_sensitivity" >>

ContentQuick == << "brand_identity", "target_platforms", "content_workflow",
                   "content_goal" >>
ContentGuided == << "brand_voice_detail", "content_types", "forbidden_topics",
                    "posting_cadence", "research_autonomy",
                    "tools_integrations", "success_metrics",
                    "audience_engagement" >>
ContentOperator == << "exemplar_content", "platform_adaptation",
                      "edge_cases_content", "growth_experimentation" >>

DevelopmentQuick == << "engineering_identity", "core_technical_values",
                       "collaboration_style", "learning_philosophy",
                       "failure_tolerance" >>
DevelopmentGuided == << "code_quality_bar", "output_format_preferences",
                        "naming_conventions", "code_structure_preferences",
                        "testing_output_expectations", "commit_message_format",
                        "pr_description_quality", "documentation_voice",
                        "error_message_philosophy", "logging_approach",
                        "type_safety_stance" >>
DevelopmentOperator == << "ci_cd_philosophy", "incident_response",
                          "api_design_principles", "technical_debt_management",
                          "legacy_code_approach", "mentoring_voice",
                          "open_source_etiquette", "tech_stack_opinions" >>

ResearchQuick == << "research_methodology", "source_preferences",
                    "synthesis_style", "output_format", "depth_vs_breadth" >>
ResearchGuided == << "citation_standards", "bias_awareness",
                     "data_interpretation", "competitive_analysis_style",
                     "temporal_scope", "cross_referencing",
                     "fact_checking_rigor", "research_tools" >>
ResearchOperator == << "methodology_documentation", "hypothesis_framing",
                       "stakeholder_communication", "research_ethics",
                       "uncertainty_quantification" >>

SalesQuick == << "sales_philosophy", "communication_style",
                 "lead_qualification", "deal_management",
                 "customer_relationship" >>
SalesGuided == << "outreach_cadence", "objection_handling", "proposal_style",
                  "crm_workflow", "follow_up_philosophy",
                  "negotiation_approach", "reporting_preferences",
                  "territory_focus" >>
SalesOperator == << "enterprise_vs_smb", "multi_stakeholder",
                    "competitive_positioning", "pricing_strategy",
                    "compliance_awareness" >>

SupportQuick == << "support_philosophy", "tone_and_empathy",
                   "escalation_approach", "knowledge_management",
                   "response_style" >>
SupportGuided == << "ticket_triage", "resolution_workflow",
                    "customer_communication", "sla_awareness",
                    "documentation_style", "feedback_collection",
                    "multi_channel", "known_issue_handling" >>
SupportOperator == << "vip_handling", "crisis_communication",
                      "root_cause_analysis", "team_coordination",
                      "quality_assurance" >>

GeneralQuick == << "mission_scope", "decision_style", "autonomy_boundaries",
                   "communication_contract", "evidence_rigor",
                   "risk_escalation" >>
GeneralGuided == << "planning_horizon", "tooling_preferences",
                    "context_window_management", "output_artifact_preferences",
                    "feedback_loop", "quality_bar" >>
GeneralOperator == << "exception_handling", "collaboration_style",
                      "prioritization_framework", "performance_constraints",
                      "memory_retention_preferences",
                      "governance_auditability" >>

-----------------------------------------------------------------------------
Tiers(q, g, o) == [quick |-> q, guided |-> q \o g, operator |-> q \o g \o o]

Universal == Tiers(UniversalQuick, UniversalGuided, UniversalOperator)

Rubric ==
  [ content     |-> Tiers(ContentQuick, ContentGuided, ContentOperator),
    development |-> Tiers(DevelopmentQuick, DevelopmentGuided,
                          DevelopmentOperator),
    research    |-> Tiers(ResearchQuick, ResearchGuided, ResearchOperator),
    sales       |-> Tiers(SalesQuick, SalesGuided, SalesOperator),
    support     |-> Tiers(SupportQuick, SupportGuided, SupportOperator),
    general     |-> Tiers(GeneralQuick, GeneralGuided, GeneralOperator) ]

Domains == DOMAIN Rubric

(* A domain without a rubric, which only an edited tastekit.yaml can name, *)
(* has the universal dimensions alone.                                     *)
Dimensions(domain, depth) ==
  Universal[depth]
    \o (IF domain \in Domains THEN Rubric[domain][depth] ELSE <<>>)

(* What resolving a dimension adds to another; to none, if it has no name. *)
(* The interviewer takes the first dimension of a name: of the two that    *)
(* general-agent calls "autonomy_boundaries" the universal one counts.     *)
NoCascade == [to |-> "", weight |-> 0]

Cascade(domain, dim) ==
  CASE dim = "core_purpose"        -> [to |-> "guiding_principles", weight |-> 4]
    [] dim = "guiding_principles"  -> [to |-> "communication_tone", weight |-> 3]
    [] dim = "autonomy_boundaries" -> [to |-> "hard_boundaries", weight |-> 6]
    [] dim = "accuracy_evidence"   -> [to |-> "hard_boundaries", weight |-> 3]
    [] domain = "general" /\ dim = "mission_scope" ->
         [to |-> "prioritization_framework", weight |-> 4]
    [] domain = "general" /\ dim = "decision_style" ->
         [to |-> "autonomy_boundaries", weight |-> 4]
    [] domain = "general" /\ dim = "evidence_rigor" ->
         [to |-> "quality_bar", weight |-> 4]
    [] OTHER -> NoCascade

(* The first place at which a sequence of records has this id, or 0.       *)
Place(seq, id) == SelectInSeq(seq, LAMBDA d : d.id = id)

(* general-agent has its "autonomy_boundaries" twice.                      *)
HasTwins(domain, depth) ==
  LET d == Dimensions(domain, depth) IN
  \E m, n \in DOMAIN d : m # n /\ d[m] = d[n]
=============================================================================
