---------------------------- MODULE Consolidation ----------------------------
(***************************************************************************)
(* `tastekit drift memory-consolidate`: plans which memories are kept,     *)
(* which are pruned, and which are merged.  The plan is saved, and no      *)
(* command carries it out.                                                 *)
(***************************************************************************)
EXTENDS Integers, Sequences, FiniteSets, SequencesExt

CONSTANT Short  \* words of at most two letters, which no comparison sees

VARIABLES
  memories, \* in the order of their files: [words, recent, salience (tenths)]
  plan      \* [keep, prune, merge], or NoPlan

memoryVars == <<memories, plan>>

NoPlan == [keep |-> {}, prune |-> {}, merge |-> {}]

(* A salience of zero is read as none: one half.                           *)
Salience(m) == IF m.salience = 0 THEN 5 ELSE m.salience

Keeps(m) == m.recent \/ Salience(m) > 7

Tokens(m) == m.words \ Short

(* Jaccard similarity of at least 0.6.                                     *)
Similar(a, b) ==
  \/ Tokens(a) = {} /\ Tokens(b) = {}
  \/ /\ Tokens(a) # {} /\ Tokens(b) # {}
     /\ 5 * Cardinality(Tokens(a) \cap Tokens(b))
          >= 3 * Cardinality(Tokens(a) \cup Tokens(b))

\* Mutant: a memory that is in a group already joins the next one, too.
GroupTwice(kept, merged, i) ==
  IF i \in merged THEN {}
  ELSE {i} \cup {j \in kept : j > i /\ Similar(memories[i], memories[j])}

(* detectMerges: the group of i takes what is like it and in no group yet. *)
Group(kept, merged, i) ==
  IF i \in merged THEN {}
  ELSE {i} \cup {j \in kept \ merged : j > i /\ Similar(memories[i], memories[j])}

Groups(kept) ==
  LET upTo[i \in 0 .. Len(memories)] ==
        IF i = 0 THEN {}
        ELSE LET g == Group(kept, UNION upTo[i - 1], i) IN
             IF i \in kept /\ Cardinality(g) > 1 THEN upTo[i - 1] \cup {g}
             ELSE upTo[i - 1]
  IN  upTo[Len(memories)]

(* The memory of the highest salience, the first of equals.                *)
Primary(g) ==
  CHOOSE i \in g : \A j \in g :
    \/ Salience(memories[i]) > Salience(memories[j])
    \/ Salience(memories[i]) = Salience(memories[j]) /\ i <= j

(* Its content, and what the others have more.                             *)
Merged(g) ==
  LET first == memories[Primary(g)] IN
  [ source |-> g,
    words |-> first.words \cup UNION {Tokens(memories[i]) \ Tokens(first) : i \in g} ]

(* generateConsolidationPlan.                                              *)
Consolidate ==
  /\ plan = NoPlan
  /\ LET kept == {i \in DOMAIN memories : Keeps(memories[i])}
         groups == Groups(kept)
     IN plan' = [ keep |-> kept \ UNION groups, prune |-> DOMAIN memories \ kept,
                  merge |-> {Merged(g) : g \in groups} ]
  /\ UNCHANGED memories

-----------------------------------------------------------------------------
(* Properties.                                                             *)

(* A plan accounts for every memory once: it is kept, or pruned, or in one *)
(* merge; a recent or salient one is not pruned, and a merge has the words *)
(* of all its sources that are longer than two letters (detectMerges).     *)
PlanAccountsForAll ==
  plan # NoPlan =>
    \A i \in DOMAIN memories :
      LET in == {m \in plan.merge : i \in m.source} IN
      /\ Cardinality(in) + Cardinality({i} \cap plan.keep)
           + Cardinality({i} \cap plan.prune) = 1
      /\ memories[i].recent => i \notin plan.prune
      /\ \A m \in in : Tokens(memories[i]) \subseteq m.words
=============================================================================
