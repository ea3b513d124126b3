--------------------------- MODULE MCAgentRounds ---------------------------
(* Small instances of AgentRounds for TLC.                                *)
EXTENDS AgentRounds

CONSTANTS loop, cron

Telegram == [channel |-> "telegram", chatID |-> "7"]
Discord  == [channel |-> "discord", chatID |-> "9"]
TwoChats == {Telegram, Discord}
Nowhere  == [channel |-> "", chatID |-> ""]
=============================================================================
