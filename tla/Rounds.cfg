\* The loop and a timer, two chats on two channels.
CONSTANTS
  loop = loop
  cron = cron
  Loop = loop
  Timers = {cron}
  Chats <- TwoChats
  NoChat <- Nowhere
  MaxCalls = 2
SPECIFICATION Spec
INVARIANTS NoReplyAfterSend NoSilentRound NothingStrays
