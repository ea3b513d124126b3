----------------------------- MODULE Compilers -----------------------------
(***************************************************************************)
(* TasteKit's compilers for guardrails and the memory policy, as functions *)
(* of the interview's answers and the domain, and what the rules they      *)
(* write say of an action.  Autonomy, cost and risk count in tenths; a     *)
(* value that the answers lack compares as false with every bound, as an   *)
(* undefined one does in JavaScript.                                       *)
(***************************************************************************)
EXTENDS Integers, FiniteSets

Unset == -1
Level == 0 .. 10
Below(x, bound) == x # Unset /\ x < bound
AtLeast(x, bound) == x # Unset /\ x >= bound

(* The structured answers of an interview: whether the reply had the shape *)
(* that was asked for, the two tradeoffs, and the taboos.                  *)
Answer == [whole : BOOLEAN, autonomy : Level \cup {Unset},
           cost : Level \cup {Unset},
           never : SUBSET STRING, escalate : SUBSET STRING]

(* getEmptyAnswers; the legacy path without answers compiles the same.     *)
EmptyAnswers == [whole |-> TRUE, autonomy |-> 5, cost |-> 5,
                 never |-> {}, escalate |-> {}]

-----------------------------------------------------------------------------
(* Guardrails.                                                             *)

(* What the agent is allowed to touch, by domain.                          *)
Permissions(domain) ==
  CASE domain = "content" ->
         { <<{"content/*", "analytics/*", "trends/*"}, {"read"}>>,
           <<{"drafts/*", "content/*"}, {"write"}>>,
           <<{"posts/*", "social/*"}, {"publish", "post"}>> }
    [] domain = "sales" ->
         { <<{"leads/*", "contacts/*", "deals/*"}, {"read"}>>,
           <<{"leads/*", "contacts/*", "deals/*"}, {"write"}>>,
           <<{"emails/*", "messages/*"}, {"write", "execute"}>> }
    [] domain = "development" ->
         { <<{"src/*", "tests/*", "docs/*", "config/*"}, {"read"}>>,
           <<{"src/*", "tests/*", "docs/*"}, {"write"}>>,
           <<{"tests/*", "scripts/*"}, {"execute"}>> }
    [] domain = "research" ->
         { <<{"sources/*", "papers/*", "data/*"}, {"read"}>>,
           <<{"notes/*", "reports/*", "analysis/*"}, {"write"}>> }
    [] domain = "support" ->
         { <<{"tickets/*", "knowledge-base/*", "customers/*"}, {"read"}>>,
           <<{"tickets/*", "responses/*"}, {"write"}>> }
    [] OTHER -> { <<{"*"}, {"read"}>>, <<{"*"}, {"write"}>> }

ExtraApprovals(domain) ==
  CASE domain = "content"     -> {"approve_publish"}
    [] domain = "sales"       -> {"approve_outreach", "approve_deal_changes"}
    [] domain = "development" -> {"approve_deploy"}
    [] domain = "research"    -> {"approve_data_export"}
    [] domain = "support"     -> {"approve_customer_response",
                                  "approve_escalation"}
    [] OTHER                  -> {}

(* Calls per hour before cost is considered.                               *)
BaseLimit(domain) ==
  CASE domain = "content" -> 150
    [] domain \in {"development", "research"} -> 200
    [] OTHER -> 100

\* Mutant: the tiers follow each other the wrong way round.
AutonomyRulesReversed(autonomy) ==
  CASE Below(autonomy, 3) -> {"approve_destructive"}
    [] ~Below(autonomy, 3) /\ Below(autonomy, 5) -> {"approve_writes_and_deletes"}
    [] ~Below(autonomy, 5) /\ Below(autonomy, 7) -> {"approve_all_writes"}
    [] OTHER -> {}

(* buildApprovalRules, tiers 1 to 3.                                       *)
AutonomyRules(autonomy) ==
  CASE Below(autonomy, 3) -> {"approve_all_writes"}
    [] ~Below(autonomy, 3) /\ Below(autonomy, 5) -> {"approve_writes_and_deletes"}
    [] ~Below(autonomy, 5) /\ Below(autonomy, 7) -> {"approve_destructive"}
    [] OTHER -> {}

Rules(answers, domain) ==
  AutonomyRules(answers.autonomy) \cup {"approve_high_risk"}
    \cup IF AtLeast(answers.autonomy, 8) THEN {} ELSE ExtraApprovals(domain)

(* compileGuardrails.  The limits are those of all calls, of deletions and *)
(* of executions; 0 stands for none of its own.                            *)
Guardrails(answers, domain) ==
  [ permissions |-> Permissions(domain),
    rules       |-> Rules(answers, domain),
    blocked     |-> answers.never,
    escalated   |-> answers.escalate,
    limits      |-> << (BaseLimit(domain) *
                          IF answers.cost > 7 THEN 5 ELSE 10) \div 10,
                       IF Below(answers.autonomy, 5) THEN 10 ELSE 0,
                       IF Below(answers.autonomy, 5) THEN 25 ELSE 0 >> ]

(* What the text of a rule says of an action, which has operations, a      *)
(* resource, a risk, tags and a description.                               *)
Asks(rule, act) ==
  LET does(ops) == act.ops \cap ops # {} IN
  CASE rule = "approve_all_writes" -> does({"write", "delete", "execute"})
    [] rule = "approve_writes_and_deletes" -> does({"write", "delete"})
    [] rule = "approve_destructive" -> does({"delete"}) \/ act.risk > 7
    [] rule = "approve_high_risk" -> act.risk > 9
    [] rule = "approve_publish" -> does({"publish", "post"})
    [] rule = "approve_outreach" -> does({"execute"}) /\ act.resource = "emails/*"
    [] rule = "approve_deal_changes" -> does({"write"}) /\ act.resource = "deals/*"
    [] rule = "approve_deploy" -> does({"execute"}) /\ act.resource = "deploy/*"
    [] rule = "approve_data_export" ->
         does({"publish"}) \/ act.resource = "reports/*"
    [] rule = "approve_customer_response" ->
         does({"write"}) /\ act.resource = "responses/*"
    [] rule = "approve_escalation" -> "escalation" \in act.tags

NeedsApproval(g, act) ==
  \/ \E rule \in g.rules : Asks(rule, act)
  \/ act.tags \cap g.escalated # {}

Blocked(g, act) == act.about \in g.blocked

-----------------------------------------------------------------------------
(* The memory policy.                                                      *)

SharedSalience == {"user_preferences", "corrections", "feedback"}

DomainSalience(domain) ==
  CASE domain = "content" -> {"brand_voice", "audience_signals",
                              "content_performance", "platform_rules"}
    [] domain = "sales" -> {"deal_context", "customer_relationship",
                            "pricing_terms", "competitive_intel"}
    [] domain = "development" -> {"code_patterns", "bug_context",
                                  "tech_decisions", "test_results"}
    [] domain = "research" -> {"source_quality", "methodology", "findings",
                               "contradictions"}
    [] domain = "support" -> {"customer_issue", "resolution_pattern",
                              "customer_sentiment", "escalation_context"}
    [] OTHER -> {}

DefaultTTL(domain) ==
  CASE domain = "sales" -> 180 [] domain = "development" -> 120
    [] domain = "research" -> 365 [] OTHER -> 90

PiiSensitive(domain) == domain \in {"sales", "support"}

(* Halves are rounded up, as Math.round does.                              *)
MemoryPolicy(answers, domain) ==
  LET redact == PiiSensitive(domain) \/ "personal information" \in answers.never
      tenths == CASE answers.cost > 7 -> 6
                  [] Below(answers.cost, 3) -> 15
                  [] OTHER -> 10
  IN [ salience |-> SharedSalience \cup DomainSalience(domain),
       redact   |-> redact,
       ttl      |-> (DefaultTTL(domain) * tenths + 5) \div 10,
       daily    |-> AtLeast(answers.autonomy, 7),
       mode     |-> IF AtLeast(answers.autonomy, 6)
                      THEN "consolidate" ELSE "revise" ]
=============================================================================
