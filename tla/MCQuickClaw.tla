---------------------------- MODULE MCQuickClaw ----------------------------
EXTENDS QuickClaw
O(p, c, i, g) == [preview |-> p, confirm |-> c, autoInstall |-> i, allowGlobal |-> g]
MCOptions == { O(TRUE, FALSE, TRUE, TRUE), O(FALSE, TRUE, TRUE, TRUE),
               O(FALSE, FALSE, FALSE, FALSE), O(FALSE, FALSE, FALSE, TRUE) }
MCEnvironments == { [secrets |-> TRUE, hookToken |-> TRUE, sentryToken |-> TRUE],
                    [secrets |-> FALSE, hookToken |-> FALSE, sentryToken |-> TRUE] }
Readable == [ok |-> TRUE, mappings |-> <<"own">>, token |-> "user", slack |-> "user"]
MCHosts == { [bins |-> Binaries, oc |-> Readable, gateway |-> FALSE],
             [bins |-> (Binaries \ {"openclaw", "tmux"}) \cup {"clawdbot"},
              oc |-> [Readable EXCEPT !.ok = FALSE], gateway |-> TRUE] }
MCUserMappings == <<"github">>
MCLosses == { {}, {"boot-md", "quickclaw-ops-monitor"} }
=============================================================================
