\* One round of the loop, no timers: the answer beside a message of the tool.
CONSTANTS
  loop = loop
  cron = cron
  Loop = loop
  Timers = {}
  Chats <- TwoChats
  NoChat <- Nowhere
  MaxCalls = 2
SPECIFICATION Spec
INVARIANT NoDuplicateReply
