------------------------------ MODULE Workspace ------------------------------
(***************************************************************************)
(* What a user does with a TasteKit workspace after onboarding.  Commands  *)
(* on artifacts and traces share the layout on disk; trust, the skill      *)
(* graph and memories have files of their own, so that a behaviour that    *)
(* looks at one of them leaves the others alone.                           *)
(***************************************************************************)
EXTENDS Drift, Trust, SkillsGraph, Consolidation

CONSTANTS
  Cases,   \* a set of [layout, left]: how often a behaviour may do what
  Events,  \* what an agent writes into its trace
  Manifests, Memories

\* What the environment of a behaviour may do, and how often.
Chances == {"migrations", "kills", "writes", "runs", "events", "tears", "detects",
            "applies", "upgrades", "toggles", "adds", "pins", "binds", "graphs", "plans"}

\* The names of what lies in the spaces.
EntryNames == {"manifest", "skill", "playbook"} \cup ToSet(RunNames)

ASSUME WorkspaceAssumption ==
  /\ Cases \subseteq [layout : Layouts, left : [Chances -> Nat]]
  /\ RunNames \in Seq(STRING)
  \* None is no file and no directory.
  /\ \A names \in (SUBSET EntryNames) \cup {DOMAIN Version(0), DOMAIN Torn} :
       DOMAIN None # names
  \* A skill has a directory of its own, which has its id.
  /\ \A m \in Manifests : m \in Seq(Skills) /\ IsInjective(Order(m))
  /\ Memories \subseteq Seq([words : SUBSET STRING, recent : BOOLEAN, salience : 0 .. 10])

VARIABLE left  \* of the budget: a bag of what the environment may still do

vars == <<layoutVars, driftVars, trustVars, graphVars, memoryVars, left>>

Spend(what) == left[what] > 0 /\ left' = [left EXCEPT ![what] = left[what] - 1]

Init ==
  /\ \E c \in Cases :
       /\ LayoutInit(c.layout) /\ left = c.left
       /\ manifest \in IF left["graphs"] > 0 THEN Manifests ELSE {<<>>}
       /\ memories \in IF left["plans"] > 0 THEN Memories ELSE {<<>>}
  /\ DriftInit /\ TrustInit
  /\ analysis = NoAnalysis /\ plan = NoPlan

LayoutNext ==
  \/ /\ MigrationSteps /\ UNCHANGED left
  \/ Spend("migrations") /\ Migrate
  \/ Spend("kills") /\ Kill
  \/ /\ Spend("writes")
     /\ Recompile(left["writes"]) \/ SaveSession(left["writes"]) \/ Import(left["writes"])
  \/ \E r \in ToSet(RunNames) :
       \/ Spend("runs") /\ OpenTrace(r)
       \/ Spend("events") /\ \E e \in Events : Trace(r, e)
       \/ Spend("tears") /\ TearTrace(r)

DriftNext ==
  \/ Spend("detects") /\ Detect
  \/ Spend("applies") /\ \E k \in DOMAIN proposals : Apply(k)

TrustNext ==
  \/ Spend("upgrades") /\ \E s \in Servers, t \in Listings : Upgrade(s, t)
  \/ Spend("toggles") /\ \E s \in Servers : Toggle(s)
  \/ Spend("adds") /\ \E n \in Names, s \in Servers : Add(n, s)
  \/ Spend("pins") /\ \/ InitPolicy
                      \/ \E n \in Names, m \in {"strict", "warn"} : Pin(n, m)
  \/ Spend("binds") /\ \/ Bind(DOMAIN registry)
                       \/ \E n \in DOMAIN registry : Bind({n})
  \/ /\ left["binds"] + left["pins"] > 0 /\ UNCHANGED left
     /\ \E n \in Names : Inspect(n)
  \/ /\ BindSteps \/ Audit
     /\ UNCHANGED left

Next ==
  \/ LayoutNext /\ UNCHANGED <<driftVars, trustVars, graphVars, memoryVars>>
  \/ DriftNext /\ UNCHANGED <<trustVars, graphVars, memoryVars>>
  \/ TrustNext /\ UNCHANGED <<layoutVars, driftVars, graphVars, memoryVars>>
  \/ /\ Spend("graphs") /\ Analyze
     /\ UNCHANGED <<layoutVars, driftVars, trustVars, memoryVars>>
  \/ /\ Spend("plans") /\ Consolidate
     /\ UNCHANGED <<layoutVars, driftVars, trustVars, graphVars>>

Spec == Init /\ [][Next]_vars
=============================================================================
