--------------------------- MODULE MCOnboarding ---------------------------
(* Interviews that are stopped, torn and resumed while the domain changes; *)
(* compiles that fail and are run again; sessions that change in between;  *)
(* and one interview and one compile for every domain and depth.           *)
EXTENDS Onboarding

Project(domain, depth) ==
  [domain |-> domain, depth |-> depth, provider |-> "none",
   override |-> "none", keys |-> {"openai"}, ollama |-> FALSE]

Budget(o, t, te, d, c, f) ==
  [onboards |-> o, turns |-> t, tears |-> te, domains |-> d, compiles |-> c,
   failures |-> f]

Case(p, b) == [project |-> p, budget |-> b]

MCCases ==
  { Case(Project("general", "quick"), b) :
      b \in { Budget(2, 5, 1, {"content"}, 0, 0), Budget(1, 1, 0, {}, 4, 2),
              Budget(2, 1, 0, {"content"}, 2, 1) } }
  \cup { Case(Project(domain, depth), Budget(1, 3, 0, {}, 1, 0)) :
           domain \in Domains \cup {"other"}, depth \in {"quick", "operator"} }
  \cup { Case([Project("sales", "guided") EXCEPT !.override = o, !.ollama = TRUE,
                                                !.provider = "openai"],
              Budget(1, 1, 0, {}, 0, 0)) : o \in {"anthropic", "ollama"} }

Touch(id, delta, skip) == [id |-> id, delta |-> delta, skip |-> skip]

(* Nothing; a wish to end; two dimensions of the universal rubric, one of  *)
(* them skipped; every dimension of the rubric, once.                      *)
Everything(domain) ==
  LET dims == Dimensions(domain, "operator")
      places == SelectSeq([k \in DOMAIN dims |-> k],
                          LAMBDA k : \A m \in 1 .. k - 1 : dims[m] # dims[k])
  IN  [k \in DOMAIN places |-> Touch(dims[places[k]], 20, FALSE)]

ReplyTo(domain, updates, complete) ==
  [domain |-> domain, updates |-> updates, complete |-> complete]

MCReplies ==
  UNION { { ReplyTo(d, <<>>, FALSE), ReplyTo(d, <<>>, TRUE),
            ReplyTo(d, << Touch("core_purpose", 12, FALSE),
                          Touch("hard_boundaries", -6, TRUE) >>, FALSE),
            ReplyTo(d, Everything(d), FALSE) } : d \in Domains \cup {"other"} }

Extracted(whole, autonomy, cost) ==
  [whole |-> whole, autonomy |-> autonomy, cost |-> cost,
   never |-> {"personal information"}, escalate |-> {"legal"}]

MCExtractions ==
  { Extracted(TRUE, 9, 8), Extracted(TRUE, 6, 2), Extracted(TRUE, 4, 5),
    Extracted(FALSE, Unset, Unset) }
=============================================================================
