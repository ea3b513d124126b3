----------------------------- MODULE SkillsGraph -----------------------------
(***************************************************************************)
(* `tastekit skills graph`: the skills of a manifest feed each other and   *)
(* require each other; analyzeSkillGraph finds chains and cycles.          *)
(***************************************************************************)
EXTENDS Integers, Sequences, FiniteSets, SequencesExt

VARIABLES
  manifest, \* a sequence of Skills
  analysis  \* of the manifest, or NoAnalysis

graphVars == <<manifest, analysis>>

NoAnalysis == [done |-> FALSE]

Skills == [id : STRING, feeds : Seq(STRING), needs : Seq(STRING), instead : Seq(STRING)]

Order(skills) == [k \in DOMAIN skills |-> skills[k].id]
Ids(skills) == ToSet(Order(skills))

\* The place of the first element of s that is in S.
FirstIn(s, S) ==
  CHOOSE k \in DOMAIN s : s[k] \in S /\ \A m \in 1 .. k - 1 : s[m] \notin S

(* Each relation that is declared, in the order of the declarations.       *)
Declared(skills) ==
  LET upTo[k \in 0 .. Len(skills)] ==
        IF k = 0 THEN <<>>
        ELSE LET s == skills[k] IN
             upTo[k - 1] \o [j \in DOMAIN s.feeds |-> <<s.id, s.feeds[j]>>]
                         \o [j \in DOMAIN s.needs |-> <<s.needs[j], s.id>>]
  IN  upTo[Len(skills)]

(* Those that name what is no skill are left out.                          *)
Known(skills, e) == e[1] \in Ids(skills) /\ e[2] \in Ids(skills)

(* outEdges: what each skill feeds, in the order in which it was seen.     *)
Out(skills) ==
  LET declared == Declared(skills)
      after[k \in 0 .. Len(declared)] ==
        IF k = 0 THEN [i \in Ids(skills) |-> <<>>]
        ELSE LET out == after[k - 1]
                 e == declared[k]
             IN IF ~Known(skills, e) \/ e[2] \in ToSet(out[e[1]]) THEN out
                ELSE [out EXCEPT ![e[1]] = Append(@, e[2])]
  IN  after[Len(declared)]

Sources(skills, out) ==
  {i \in Ids(skills) : out[i] # <<>> /\ \A j \in Ids(skills) : i \notin ToSet(out[j])}

(* A relation that both its ends declare counts twice.                     *)
Connections(skills, i) ==
  LET known == SelectSeq(Declared(skills), LAMBDA e : Known(skills, e)) IN
  Len(SelectSeq(known, LAMBDA e : e[1] = i)) + Len(SelectSeq(known, LAMBDA e : e[2] = i))

MissingRefs(skills) ==
  UNION { {<<s.id, r[1], r[2]>> :
             r \in {q \in (ToSet(s.feeds) \X {"feeds_into"})
                            \cup (ToSet(s.needs) \X {"prerequisites"})
                            \cup (ToSet(s.instead) \X {"alternatives"}) :
                      q[1] \notin Ids(skills)}} :
          s \in ToSet(skills) }

-----------------------------------------------------------------------------
(* Chains.                                                                 *)

(* followChain: the first target that no chain has, as long as there is one. *)
Chain(out, start, visited) ==
  LET after[k \in 0 .. Cardinality(DOMAIN out)] ==
        IF k = 0 THEN <<start>>
        ELSE LET chain == after[k - 1]
                 targets == out[Last(chain)]
                 new == ToSet(targets) \ (visited \cup ToSet(chain))
             IN IF new = {} THEN chain ELSE Append(chain, targets[FirstIn(targets, new)])
  IN  after[Cardinality(DOMAIN out)]

(* detectPipelines: what one chain has visited is lost to the next, also   *)
(* when the chain is too short to be reported.                             *)
Pipelines(skills, out) ==
  LET after[k \in 0 .. Len(skills)] ==
        IF k = 0 THEN [visited |-> {}, found |-> <<>>]
        ELSE LET acc == after[k - 1]
                 chain == Chain(out, skills[k].id, acc.visited)
             IN IF skills[k].id \notin Sources(skills, out) THEN acc
                ELSE [ visited |-> acc.visited \cup ToSet(chain),
                       found |-> IF Len(chain) < 2 THEN acc.found
                                 ELSE Append(acc.found, chain) ]
  IN  after[Len(skills)].found

(* getPipelinePath: the first id that each skill feeds.                    *)
PipelinePath(skills, start) ==
  FoldLeft(LAMBDA path, step :
             LET feeds == skills[FirstIn(Order(skills), {Last(path)})].feeds
             IN IF feeds = <<>> \/ feeds[1] \notin Ids(skills) \ ToSet(path)
                  THEN path ELSE Append(path, feeds[1]),
           <<start>>, [step \in DOMAIN skills |-> step])

(* recommendNextSkill.                                                     *)
Recommended(skills, completed) ==
  LET after[k \in 0 .. Len(skills)] ==
        IF k = 0 THEN skills[FirstIn(Order(skills), {completed})].feeds
        ELSE IF /\ completed \in ToSet(skills[k].needs)
                /\ skills[k].id \notin ToSet(after[k - 1])
               THEN Append(after[k - 1], skills[k].id)
               ELSE after[k - 1]
  IN  after[Len(skills)]

-----------------------------------------------------------------------------
(* Cycles.                                                                 *)

Searches(out) == [color : [DOMAIN out -> {"white", "gray", "black"}],
                  cycles : Seq(Seq(DOMAIN out))]

Paint(search, node, color) == [search EXCEPT !.color = [@ EXCEPT ![node] = color]]
Report(search, cycle) == [search EXCEPT !.cycles = Append(@, cycle)]

(* dfs: a neighbour that is on the path (gray) closes a cycle, one that no *)
(* search has seen (white) is searched.                                    *)
Entered(out, dfs, before, node, search) ==
  LET path == Append(before, node)
      after[k \in 0 .. Len(out[node])] ==
        IF k = 0 THEN Paint(search, node, "gray")
        ELSE LET acc == after[k - 1]
                 n == out[node][k]
             IN IF acc.color[n] = "gray" /\ n \in ToSet(path)
                  THEN Report(acc, SubSeq(path, FirstIn(path, {n}), Len(path)))
                ELSE IF acc.color[n] = "white" THEN dfs[path][n][acc]
                ELSE acc
  IN  Paint(after[Len(out[node])], node, "black")

\* No path is longer than there are skills: dfs 0 is called by none.
Dfs(out) ==
  LET dfs[depth \in 0 .. Cardinality(DOMAIN out)] ==
        [before \in Seq(DOMAIN out) |-> [node \in DOMAIN out |-> [search \in Searches(out) |->
           IF depth = 0 THEN search
           ELSE Entered(out, dfs[depth - 1], before, node, search)]]]
  IN  dfs[Cardinality(DOMAIN out)]

Searched(skills, out, from) ==
  LET after[k \in 0 .. Len(from)] ==
        IF k = 0 THEN [color |-> [i \in Ids(skills) |-> "white"], cycles |-> <<>>]
        ELSE LET acc == after[k - 1] IN
             IF acc.color[from[k]] = "white" THEN Dfs(out)[<<>>][from[k]][acc] ELSE acc
  IN  after[Len(from)].cycles

\* Mutant: a search begins only where a chain would begin.
CyclesFromSources(skills, out) ==
  Searched(skills, out, SelectSeq(Order(skills), LAMBDA i : i \in Sources(skills, out)))

(* detectCycles.                                                           *)
Cycles(skills, out) == Searched(skills, out, Order(skills))

(* analyzeSkillGraph.                                                      *)
Analyze ==
  /\ analysis = NoAnalysis
  /\ LET out == Out(manifest) IN
     analysis' =
       [ done |-> TRUE,
         edges |-> {e \in Ids(manifest) \X Ids(manifest) : e[2] \in ToSet(out[e[1]])},
         orphans |-> {i \in Ids(manifest) : Connections(manifest, i) = 0},
         hubs |-> {i \in Ids(manifest) : Connections(manifest, i) >= 3},
         pipelines |-> Pipelines(manifest, out), cycles |-> Cycles(manifest, out),
         missing |-> MissingRefs(manifest),
         paths |-> {PipelinePath(manifest, i) : i \in Ids(manifest)},
         next |-> [i \in Ids(manifest) |-> Recommended(manifest, i)] ]
  /\ UNCHANGED manifest

-----------------------------------------------------------------------------
(* Properties.                                                             *)

Follows(edges, path) == \A k \in 1 .. Len(path) - 1 : <<path[k], path[k + 1]>> \in edges

IsCycle(edges, c) ==
  Follows(edges, c) /\ IsInjective(c) /\ <<c[Len(c)], c[1]>> \in edges

(* Where there is a cycle one is reported, and all that are reported are   *)
(* cycles of the graph; chains are paths from skills that nothing feeds,   *)
(* and share no skill; and what is recommended after a skill has all that  *)
(* it feeds and all that require it (detectCycles, detectPipelines,        *)
(* recommendNextSkill).                                                    *)
AnalysisIsTrue ==
  analysis.done =>
    /\ \A n \in 1 .. Cardinality(Ids(manifest)) : \A c \in [1 .. n -> Ids(manifest)] :
         IsCycle(analysis.edges, c) => analysis.cycles # <<>>
    /\ \A c \in ToSet(analysis.cycles) : IsCycle(analysis.edges, c)
    /\ \A k, m \in DOMAIN analysis.pipelines :
         LET p == analysis.pipelines[k] IN
         /\ Follows(analysis.edges, p) /\ Len(p) >= 2
         /\ \A e \in analysis.edges : e[2] # p[1]
         /\ k # m => ToSet(p) \cap ToSet(analysis.pipelines[m]) = {}
    /\ \A e \in analysis.edges : e[2] \in ToSet(analysis.next[e[1]])
=============================================================================
