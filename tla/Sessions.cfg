\* A summary after more than five messages, in one part or two; the second
\* message is too long for the summarizer.
CONSTANTS
  Keep = 4
  SummarizeAt = 5
  BatchLimit = 2
  MaxRetries = 2
  BigIds = {2}
  MaxIds = 7
  Nothing = Nothing
SPECIFICATION Spec
INVARIANTS MessagesInOrder NothingForgotten RepliesAreOnDisk
PROPERTIES SummaryRemembers
CHECK_DEADLOCK FALSE
