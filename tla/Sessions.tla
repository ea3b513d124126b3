------------------------------ MODULE Sessions ------------------------------
(***************************************************************************)
(* One conversation of AutoClaw: its messages and its summary in the       *)
(* session manager, its file, the rounds of the agent that add to it and   *)
(* compress it when the model refuses it, and the summarizer that replaces *)
(* its older messages by a summary in the background.                      *)
(*                                                                         *)
(* The agent loop serves the messages of a chat one after the other, so a  *)
(* session has at most one round; the summarizer runs beside it, and both  *)
(* save the session: a snapshot under the lock, then a file that is        *)
(* renamed, outside the lock, over the last one.                           *)
(***************************************************************************)
EXTENDS Naturals, FiniteSets, SequencesExt

CONSTANTS
  Keep,         (* messages that a summary leaves alone: 4 in the code        *)
  SummarizeAt,  (* a longer history is summarized: 20 in the code             *)
  BatchLimit,   (* more messages are summarized in two parts: 10 in the code  *)
  MaxRetries,   (* compressions for one call of the model: 2 in the code      *)
  BigIds,       (* messages too long for the summarizer                       *)
  MaxIds,       (* bound: no round and no tool call begins after so many      *)
  Nothing

ASSUME SessionParameters ==
  /\ Keep \in Nat \ {0} /\ SummarizeAt \in Nat /\ BatchLimit \in Nat
  /\ MaxRetries \in Nat /\ MaxIds \in Nat
  /\ BigIds \subseteq Nat

VARIABLES
  session,     (* the messages and what the summary covers, in memory         *)
  file,        (* the same in the file, or Nothing                            *)
  round,       (* the round of the agent loop                                 *)
  summarizer,  (* the goroutine that maybeSummarize starts                    *)
  pending,     (* the snapshots that are being written                        *)
  next,        (* the number of the next message                              *)
  born,        (* history: the next message when the process started          *)
  gone,        (* history: messages that were given up openly                 *)
  replied,     (* history: answers handed out that memory still covers        *)
  newest,      (* history: who took the latest snapshot                       *)
  stale,       (* history: the last write failed, or was of an older snapshot *)
  mishaps      (* history: crashes, and summaries that leave something out    *)

vars == <<session, file, round, summarizer, pending, next, born, gone, replied, newest, stale,
          mishaps>>

-----------------------------------------------------------------------------
(* Messages.                                                               *)

Message(id, role) == [id |-> id, role |-> role]

Note == Message(0, "system")

IdsIn(messages) == {m.id : m \in ToSet(messages)} \ {0}

EmptySession == [messages |-> <<>>, summary |-> {}]

\* What the model is told of the conversation: its summary and its messages.
Covered(s) == IdsIn(s.messages) \cup s.summary

\* TruncateHistory.
Truncated(messages) ==
  IF Len(messages) <= Keep THEN messages
  ELSE SubSeq(messages, Len(messages) - Keep + 1, Len(messages))

\* Mutant: the kept half of the conversation includes the last message.
CompressedTwice(messages) ==
  LET mid == (Len(messages) - 2) \div 2
  IN <<Head(messages), Note>> \o SubSeq(messages, mid + 2, Len(messages)) \o <<Last(messages)>>

\* forceCompression: the first message, a note, the second half, the last message.
Compressed(messages) ==
  LET mid == (Len(messages) - 2) \div 2
  IN <<Head(messages), Note>> \o SubSeq(messages, mid + 2, Len(messages) - 1)
                              \o <<Last(messages)>>

\* What a summary is made of: no results of tools and no message that is too long.
Valid(m) == m.role \in {"user", "assistant"} /\ m.id \notin BigIds

ValidOf(messages, n) ==
  LET upTo[k \in 0 .. n] ==
        IF k = 0 THEN <<>>
        ELSE IF Valid(messages[k]) THEN Append(upTo[k - 1], messages[k])
        ELSE upTo[k - 1]
  IN  upTo[n]

\* Mutant: one message more is left out of the summary than is kept.
ToSummarizeShort(messages) == ValidOf(messages, Len(messages) - Keep - 1)

ToSummarize(messages) == ValidOf(messages, Len(messages) - Keep)

InParts(batch) == Len(batch) > BatchLimit

\* Mutant: the summary so far is not handed to the model.
SummariesAnew(batch, summary) == {Nothing, IdsIn(batch)}

\* What a summary may cover: with few messages, the summary so far as well, unless
\* the call fails.  More are summarized in two parts, each of which may fail, and
\* then merged; the summary so far is not used.
Summaries(batch, summary) ==
  IF ~InParts(batch) THEN {Nothing, summary \cup IdsIn(batch)}
  ELSE LET mid == Len(batch) \div 2
           first == IdsIn(SubSeq(batch, 1, mid))
           second == IdsIn(SubSeq(batch, mid + 1, Len(batch)))
       IN {Nothing} \cup {a \cup b : a \in {{}, first}, b \in {{}, second}}

\* AddFullMessage.
Add(role) ==
  /\ session' = [session EXCEPT !.messages = Append(session.messages, Message(next, role))]
  /\ next' = next + 1

-----------------------------------------------------------------------------
(* The round: runAgentLoop and runLLMIteration.                            *)

Resting == [pc |-> "idle", retries |-> 0, copy |-> <<>>]

StartRound ==
  /\ round.pc = "idle"
  /\ next <= MaxIds
  /\ Add("user")
  /\ round' = [Resting EXCEPT !.pc = "thinking"]
  /\ UNCHANGED <<file, summarizer, pending, born, gone, replied, newest, stale, mishaps>>

\* The model asks for tools.
CallTools ==
  /\ round.pc = "thinking"
  /\ next <= MaxIds
  /\ Add("assistant")
  /\ round' = [round EXCEPT !.pc = "tools"]
  /\ UNCHANGED <<file, summarizer, pending, born, gone, replied, newest, stale, mishaps>>

\* A tool has ended; after the last of them the model is called again.
ToolEnds ==
  /\ round.pc = "tools"
  /\ Add("tool")
  /\ \/ round' = [round EXCEPT !.pc = "thinking", !.retries = 0]
     \/ next < MaxIds /\ UNCHANGED round
  /\ UNCHANGED <<file, summarizer, pending, born, gone, replied, newest, stale, mishaps>>

MayRetry == round.retries < MaxRetries

\* The model refuses the context: forceCompression takes a copy of the history,
\* or returns when there is little to drop.
ContextError ==
  /\ round.pc = "thinking"
  /\ MayRetry
  /\ round' = IF Len(session.messages) <= 4
              THEN [round EXCEPT !.retries = round.retries + 1]
              ELSE [round EXCEPT !.pc = "compressing", !.copy = session.messages]
  /\ UNCHANGED <<session, file, summarizer, pending, next, born, gone, replied, newest, stale, mishaps>>

\* SetHistory in forceCompression.
Compress ==
  /\ round.pc = "compressing"
  /\ LET messages == Compressed(round.copy)
     IN /\ session' = [session EXCEPT !.messages = messages]
        /\ gone' = gone \cup (IdsIn(round.copy) \ IdsIn(messages))
  /\ replied' = replied \cap Covered(session')
  /\ round' = [pc |-> "compressed", retries |-> round.retries + 1, copy |-> <<>>]
  /\ UNCHANGED <<file, summarizer, pending, next, born, newest, stale, mishaps>>

\* The call fails for good; the user is told, the session is not saved.
RoundFails ==
  /\ round.pc = "thinking"
  /\ round' = Resting
  /\ UNCHANGED <<session, file, summarizer, pending, next, born, gone, replied, newest, stale, mishaps>>

\* Mutant: the session is not saved after the answer.
AnswerUnsaved ==
  /\ round.pc = "thinking"
  /\ Add("assistant")
  /\ round' = [round EXCEPT !.pc = "saved"]
  /\ UNCHANGED <<file, summarizer, pending, born, gone, replied, newest, stale, mishaps>>

\* The model answers, or has used up its iterations.
Answer ==
  /\ round.pc = "thinking"
  /\ Add("assistant")
  /\ round' = [round EXCEPT !.pc = "answered"]
  /\ UNCHANGED <<file, summarizer, pending, born, gone, replied, newest, stale, mishaps>>

\* maybeSummarize, then the answer goes out.  A short history is summarized too
\* when its messages are long.
Finish ==
  /\ round.pc = "saved"
  /\ \/ /\ summarizer.pc = "idle"
        /\ summarizer' = [summarizer EXCEPT !.pc = "started"]
     \/ /\ summarizer.pc # "idle" \/ Len(session.messages) <= SummarizeAt
        /\ UNCHANGED summarizer
  /\ round' = Resting
  /\ replied' = replied \cup {next - 1}
  /\ UNCHANGED <<session, file, pending, next, born, gone, newest, stale, mishaps>>

-----------------------------------------------------------------------------
(* The summarizer: summarizeSession.                                       *)

Sleeping == [pc |-> "idle", batch |-> <<>>, summary |-> {}, seen |-> 0]

ReadHistory ==
  /\ summarizer.pc = "started"
  /\ summarizer' =
       IF Len(session.messages) <= Keep \/ ToSummarize(session.messages) = <<>>
       THEN Sleeping
       ELSE [pc |-> "asking", batch |-> ToSummarize(session.messages),
             summary |-> session.summary, seen |-> next]
  /\ UNCHANGED <<session, file, round, pending, next, born, gone, replied, newest, stale, mishaps>>

SummaryArrives ==
  /\ summarizer.pc = "asking"
  /\ \E summary \in Summaries(summarizer.batch, summarizer.summary) :
       summarizer' = IF summary = Nothing THEN Sleeping
                     ELSE [summarizer EXCEPT !.pc = "summarized", !.batch = <<>>,
                                             !.summary = summary]
  /\ mishaps' = IF InParts(summarizer.batch) THEN mishaps \cup {"parts"} ELSE mishaps
  /\ UNCHANGED <<session, file, round, pending, next, born, gone, replied, newest, stale>>

SetSummary ==
  /\ summarizer.pc = "summarized"
  /\ session' = [session EXCEPT !.summary = summarizer.summary]
  /\ summarizer' = [summarizer EXCEPT !.pc = "truncating", !.summary = {}]
  /\ replied' = replied \cap Covered(session')
  /\ UNCHANGED <<file, round, pending, next, born, gone, newest, stale, mishaps>>

\* Messages that came since the history was read push others out of the last ones
\* that are kept, which the summary does not cover.
TruncateHistory ==
  /\ summarizer.pc = "truncating"
  /\ LET messages == Truncated(session.messages)
         dropped == ToSet(session.messages) \ ToSet(messages)
     IN /\ session' = [session EXCEPT !.messages = messages]
        /\ gone' = gone \cup {m.id : m \in {d \in dropped : d.role = "tool" \/ d.id \in BigIds}}
  /\ mishaps' = IF next = summarizer.seen THEN mishaps ELSE mishaps \cup {"race"}
  /\ summarizer' = [summarizer EXCEPT !.pc = "truncated", !.seen = 0]
  /\ replied' = replied \cap Covered(session')
  /\ UNCHANGED <<file, round, pending, next, born, newest, stale>>

-----------------------------------------------------------------------------
(* SessionManager.Save, by the round and by the summarizer.                *)

Savers == {"round", "summarizer"}

Wants(saver) == IF saver = "round" THEN round.pc \in {"compressed", "answered"}
                                   ELSE summarizer.pc = "truncated"

\* What a saver goes on with.
Saved(saver) ==
  IF saver = "round"
  THEN /\ round' = [round EXCEPT !.pc = IF round.pc = "answered" THEN "saved" ELSE "thinking"]
       /\ UNCHANGED summarizer
  ELSE /\ summarizer' = Sleeping
       /\ UNCHANGED round

\* The copy under the read lock.
Snapshot(saver) ==
  /\ Wants(saver)
  /\ pending[saver] = Nothing
  /\ pending' = [pending EXCEPT ![saver] = session]
  /\ newest' = saver
  /\ UNCHANGED <<session, file, round, summarizer, next, born, gone, replied, stale, mishaps>>

\* The temporary file replaces the file of the session, which may have been written
\* from a later snapshot.
Rename(saver) ==
  /\ pending[saver] # Nothing
  /\ file' = pending[saver]
  /\ pending' = [pending EXCEPT ![saver] = Nothing]
  /\ stale' = (saver # newest)
  /\ Saved(saver)
  /\ UNCHANGED <<session, next, born, gone, replied, newest, mishaps>>

\* Writing fails; nobody looks at the error.
SaveFails(saver) ==
  /\ pending[saver] # Nothing
  /\ pending' = [pending EXCEPT ![saver] = Nothing]
  /\ stale' = TRUE
  /\ Saved(saver)
  /\ UNCHANGED <<session, file, next, born, gone, replied, newest, mishaps>>

\* The process dies and starts again: loadSessions.  Bound: once.
Restart ==
  /\ "crash" \notin mishaps
  /\ mishaps' = mishaps \cup {"crash"}
  /\ session' = IF file = Nothing THEN EmptySession ELSE file
  /\ gone' = gone \cup (Covered(session) \ Covered(session'))
  /\ replied' = replied \cap Covered(session')
  /\ round' = Resting
  /\ summarizer' = Sleeping
  /\ pending' = [s \in Savers |-> Nothing]
  /\ born' = next
  /\ stale' = FALSE
  /\ UNCHANGED <<file, next, newest>>

-----------------------------------------------------------------------------

Init ==
  /\ session = EmptySession
  /\ file = Nothing
  /\ round = Resting
  /\ summarizer = Sleeping
  /\ pending = [s \in Savers |-> Nothing]
  /\ next = 1
  /\ born = 1
  /\ gone = {}
  /\ replied = {}
  /\ newest = "round"
  /\ stale = FALSE
  /\ mishaps = {}

RoundStep ==
  \/ StartRound \/ CallTools \/ ToolEnds
  \/ ContextError \/ Compress
  \/ Answer \/ RoundFails \/ Finish

SummarizerStep == ReadHistory \/ SummaryArrives \/ SetSummary \/ TruncateHistory

SaveStep(saver) == Snapshot(saver) \/ Rename(saver) \/ SaveFails(saver)

Next ==
  \/ RoundStep
  \/ SummarizerStep
  \/ \E saver \in Savers : SaveStep(saver)
  \/ Restart

Spec == Init /\ [][Next]_vars

-----------------------------------------------------------------------------
(* What must hold.                                                         *)

Roles == {"user", "assistant", "tool"}

Ids == 1 .. next - 1

Entries == [id: Ids, role: Roles] \cup {Note}

SessionStates == [messages: Seq(Entries), summary: SUBSET Ids]

\* The state has the types the code gives it.
TypeOK ==
  /\ next \in Nat \ {0} /\ born \in 1 .. next
  /\ session \in SessionStates
  /\ file \in SessionStates \cup {Nothing}
  /\ pending \in [Savers -> SessionStates \cup {Nothing}]
  /\ round \in [pc: {"idle", "thinking", "tools", "compressing", "compressed", "answered", "saved"},
                retries: 0 .. MaxRetries, copy: Seq(Entries)]
  /\ summarizer \in [pc: {"idle", "started", "asking", "summarized", "truncating", "truncated"},
                     batch: Seq(Entries), summary: SUBSET Ids, seen: 0 .. next]
  /\ gone \subseteq Ids /\ replied \subseteq Ids
  /\ newest \in Savers /\ stale \in BOOLEAN
  /\ mishaps \subseteq {"race", "parts", "crash"}

InOrder(messages) ==
  \A i, j \in 1 .. Len(messages) :
    i < j /\ messages[i] # Note /\ messages[j] # Note => messages[i].id < messages[j].id

\* The messages stay in the order in which they were said, each of them once,
\* in memory and in the file, through compressions, summaries and restarts.
MessagesInOrder ==
  /\ InOrder(session.messages)
  /\ file # Nothing => InOrder(file.messages)

\* "Keep last 4 messages for continuity": whatever the summarizer and compression
\* do to each other, all but one of as many of the latest messages are there.
RecentMessagesKept ==
  \A id \in born .. next - 1 : id + Keep > next => id \in IdsIn(session.messages)

\* What was said is in the session or in its summary, unless it was given up openly,
\* messages came while a summary was written, or one was written in two parts.
NothingForgotten ==
  mishaps \cap {"race", "parts"} = {} =>
    Ids \subseteq Covered(session) \cup gone

\* An answer that was handed out, and that the session in memory has not dropped since,
\* is in the file or in its summary, whatever the savers, the summarizer and compression
\* do to each other; except from a write that failed, or that put an older snapshot over
\* a later one, until the next write of the latest.
RepliesAreOnDisk ==
  ~stale => \A id \in replied : file # Nothing /\ id \in Covered(file)

\* What a summary covers stays covered as long as the process lives and no summary
\* is written in two parts.
SummaryRemembers ==
  [][session.summary \subseteq session'.summary \/ Restart \/ "parts" \in mishaps]_vars
=============================================================================
