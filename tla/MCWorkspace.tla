----------------------------- MODULE MCWorkspace -----------------------------
(* Migrations that are killed and begun again while commands and agents    *)
(* write; drift that is detected before and after; servers that change     *)
(* while they are pinned and bound; all graphs of three skills; all plans  *)
(* for three memories.                                                     *)
EXTENDS Workspace

MCNone == [none |-> TRUE]

Case(layout, some) ==
  [layout |-> layout, left |-> [what \in Chances |->
     IF what \in DOMAIN some THEN some[what] ELSE 0]]

MCCases ==
  { Case(1, [migrations |-> 3, kills |-> 2, writes |-> 3]),
    Case(1, [migrations |-> 2, kills |-> 1, writes |-> 1, runs |-> 1, events |-> 1,
             tears |-> 1]),
    Case(1, [migrations |-> 1, runs |-> 2, events |-> 2, detects |-> 1]),
    Case(1, [migrations |-> 1, runs |-> 1, events |-> 3, detects |-> 1]),
    Case(1, [runs |-> 1, events |-> 3, tears |-> 1, detects |-> 2, applies |-> 2,
             writes |-> 1]),
    Case(2, [writes |-> 1, runs |-> 2, events |-> 4, detects |-> 1]),
    Case(2, [adds |-> 2, pins |-> 2, binds |-> 1]),
    Case(2, [upgrades |-> 1, toggles |-> 1, adds |-> 1, pins |-> 2, binds |-> 1]),
    Case(2, [upgrades |-> 1, adds |-> 1, pins |-> 2, binds |-> 2]),
    Case(2, [upgrades |-> 2, adds |-> 1, pins |-> 2, binds |-> 1]),
    Case(2, [graphs |-> 1]), Case(2, [plans |-> 1]) }

MCReasons == {"tone", "scope"}
MCRunNames == <<"r1", "r2">>
MCEvents ==
  { [event |-> "rejected", reason |-> "tone"], [event |-> "error", principled |-> TRUE],
    [event |-> "agent_wrote"], [event |-> "user_wrote", soon |-> TRUE] }
  \cup { [event |-> "tool", skill |-> "write", tool |-> t] : t \in 1 .. 3 }

MCServers == { [command |-> "npx", args |-> 1], [command |-> "npx", args |-> 2],
               [command |-> "uvx", args |-> 1] }
MCListings ==
  { [tools |-> "read", hints |-> "low", resources |-> {"notes"}, prompts |-> {}],
    [tools |-> "read", hints |-> "high", resources |-> {"notes"}, prompts |-> {}],
    [tools |-> "read write", hints |-> "high", resources |-> {}, prompts |-> {"draft"}] }
MCNames == {"files", "mail"}

Some(seqs) == {s \in seqs : \A k, m \in DOMAIN s : s[k] = s[m] => k = m}
Skill(id, feeds, needs) == [id |-> id, feeds |-> feeds, needs |-> needs, instead |-> <<>>]

MCManifests ==
  { <<Skill("plan", f1, n1), Skill("write", f2, n2), Skill("post", f3, n3)>> :
      f1, f2, f3 \in Some(BoundedSeq({"plan", "write", "post"}, 2)),
      n1, n2, n3 \in {<<>>, <<"post">>, <<"edit">>} }

MCShort == {"ad"}
MCMemories ==
  [1 .. 3 -> [words : {{"ad"}, {"use", "tea"}, {"use", "tea", "now"},
                       {"tea", "now", "yes", "ad"}, {"use", "tea", "now", "yes"}},
              recent : BOOLEAN, salience : {0, 8}]]
=============================================================================
