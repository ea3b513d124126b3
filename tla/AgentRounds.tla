---------------------------- MODULE AgentRounds ----------------------------
(***************************************************************************)
(* Who is answered, and where (AutoClaw/pkg/agent/loop.go, with            *)
(* pkg/tools/message.go and pkg/tools/registry.go).                        *)
(*                                                                         *)
(* The agent works on a request in a round: model calls and tool calls,    *)
(* and then an answer.  The model may also write to a user by itself, with *)
(* the message tool.  There is one such tool for all the rounds: it        *)
(* remembers the chat to write to by default, and whether it has written,  *)
(* which is how the loop knows that it need not publish the answer.        *)
(*                                                                         *)
(* The loop goroutine serves the inbound messages one by one, but the cron *)
(* service and the heartbeat call the agent from goroutines of their own,  *)
(* and nothing guards the fields of the tool.                              *)
(***************************************************************************)
EXTENDS Naturals, FiniteSets

CONSTANTS
  Loop,     (* the goroutine of AgentLoop.Run                                *)
  Timers,   (* the goroutines of the cron service and of the heartbeat       *)
  Chats,    (* destinations: records of a channel and a chat id              *)
  NoChat,   (* an empty channel and an empty chat id: what a tool never used
               has, and what a call of it that names neither gives           *)
  MaxCalls  (* bound: calls of the message tool in one round (the code bounds
               the iterations of a round by max_tool_iterations)             *)

Agents == {Loop} \cup Timers

ASSUME RoundParameters ==
  /\ Loop \notin Timers
  /\ Chats \cup {NoChat} \subseteq [channel: STRING, chatID: STRING]
  /\ \A c \in Chats : c.channel # NoChat.channel /\ c.chatID # NoChat.chatID
  /\ MaxCalls \in Nat

VARIABLES
  tool,  (* MessageTool: defaultChannel, defaultChatID, sentInRound *)
  round  (* what each goroutine is doing                            *)

vars == <<tool, round>>

Fields == {"channel", "chatID", "sent"}

-----------------------------------------------------------------------------
(* The message tool.                                                       *)

\* Mutant: the send tracking is not reset.
FieldValueKept(c, f) ==
  CASE f = "channel" -> c.channel
    [] f = "chatID"  -> c.chatID
    [] f = "sent"    -> tool.sent

\* What SetContext writes.  The three fields are written by plain stores, one by
\* one, in any order: no lock is held and another goroutine may do the same.
FieldValue(c, f) ==
  CASE f = "channel" -> c.channel
    [] f = "chatID"  -> c.chatID
    [] f = "sent"    -> FALSE

\* MessageTool.SetContext, one store at a time; then the round goes on.
SetContext(a, before, after) ==
  /\ round[a].pc = before
  /\ \E f \in round[a].todo :
       /\ tool' = [tool EXCEPT ![f] = FieldValue(round[a].chat, f)]
       /\ round' = [round EXCEPT ![a] =
                      [@ EXCEPT !.todo = round[a].todo \ {f},
                                !.pc = IF round[a].todo = {f} THEN after ELSE before]]

-----------------------------------------------------------------------------
(* A round.                                                                *)

Idle == [pc |-> "idle", kind |-> "none", chat |-> NoChat, todo |-> {},
         to |-> NoChat, calls |-> 0, lastSent |-> FALSE, wrote |-> FALSE,
         strayed |-> FALSE, replied |-> FALSE, disturbed |-> FALSE]

\* Between the first and the last access of the round to the tool.
Active(a) == round[a].pc \notin {"idle", "done"}

\* Where processMessage sends a message: commands are answered at once, reports
\* of subagents are only logged, and the rest starts with updateToolContexts.
FirstPc(kind) == CASE kind = "user"    -> "context"
                   [] kind = "command" -> "answered"
                   [] kind = "system"  -> "done"

\* A goroutine begins a round: Run with the next message of the bus, a timer
\* with its prompt (ProcessDirectWithChannel, ProcessHeartbeat).
Start(a, kind, c) ==
  /\ round[a].pc = "idle"
  /\ a \in Timers => kind # "system"
  /\ LET others  == {b \in Agents \ {a} : Active(b)}
         touches == FirstPc(kind) # "done"
         mine    == [Idle EXCEPT !.pc = FirstPc(kind), !.kind = kind, !.chat = c,
                                 !.todo = IF kind = "user" THEN Fields ELSE {},
                                 !.disturbed = others # {}]
     IN  round' = [b \in Agents |->
                     IF b = a THEN mine
                     ELSE [round[b] EXCEPT
                             !.disturbed = @ \/ (touches /\ b \in others)]]
  /\ UNCHANGED tool

\* runAgentLoop: updateToolContexts.
UpdateToolContexts(a) == SetContext(a, "context", "model")

\* What a call of the tool may name: a channel, a chat id, both or neither.
Destinations == {[channel |-> c.channel, chatID |-> d.chatID] :
                   c \in Chats \cup {NoChat}, d \in Chats \cup {NoChat}}

\* runLLMIteration: the model calls the message tool, with or without a channel
\* and a chat id of its own choice.  ExecuteWithContext sets the context again ...
CallMessageTool(a, to) ==
  /\ round[a].pc = "model"
  /\ round[a].calls < MaxCalls
  /\ round' = [round EXCEPT ![a] = [@ EXCEPT !.pc = "registry", !.todo = Fields,
                                            !.calls = round[a].calls + 1, !.to = to]]
  /\ UNCHANGED tool

ExecuteWithContext(a) == SetContext(a, "registry", "execute")

\* ... and executes the tool, which refuses a call without content ...
ExecuteFails(a) ==
  /\ round[a].pc = "execute"
  /\ round' = [round EXCEPT ![a] = [@ EXCEPT !.pc = "model", !.to = NoChat,
                                            !.lastSent = FALSE]]
  /\ UNCHANGED tool

\* A destination with its empty parts filled in from another one.
Completed(to, default) ==
  [channel |-> IF to.channel = NoChat.channel THEN default.channel ELSE to.channel,
   chatID  |-> IF to.chatID = NoChat.chatID THEN default.chatID ELSE to.chatID]

\* Mutant: a call that names half a destination goes to the default one.
RecipientWhole(to) ==
  IF to.channel = NoChat.channel \/ to.chatID = NoChat.chatID
  THEN [channel |-> tool.channel, chatID |-> tool.chatID]
  ELSE to

\* Where the tool sends to: each part by itself comes from the call, or else from
\* the fields of the tool.
Recipient(to) == Completed(to, tool)

\* Where the message should go, by what the round and the model know.
Intended(a) == Completed(round[a].to, round[a].chat)

\* ... or publishes the message ...
ExecuteSends(a) ==
  LET r == Recipient(round[a].to) IN
  /\ round[a].pc = "execute"
  /\ round' = [round EXCEPT ![a] =
                 [@ EXCEPT !.pc = "sent", !.wrote = TRUE,
                           !.strayed = round[a].strayed \/ r # Intended(a)]]
  /\ UNCHANGED tool

\* ... and then records that it has.
RecordSent(a) ==
  /\ round[a].pc = "sent"
  /\ tool' = [tool EXCEPT !.sent = TRUE]
  /\ round' = [round EXCEPT ![a] = [@ EXCEPT !.pc = "model", !.to = NoChat,
                                            !.lastSent = TRUE]]

\* The model answers, the iterations are used up, or the model call fails: in
\* every case there is a text.
Answer(a) ==
  /\ round[a].pc = "model"
  /\ round' = [round EXCEPT ![a].pc = "answered"]
  /\ UNCHANGED tool

\* Mutant: the loop does not ask the tool.
RepliesAlways == TRUE

\* Run publishes the answer unless the tool has written in this round.
Replies == ~tool.sent

\* Run and its callers have the answer.  Only Run publishes it; ExecuteJob and
\* the handler of the heartbeat drop it.
Finish(a) ==
  /\ round[a].pc = "answered"
  /\ round' = [round EXCEPT ![a] = [@ EXCEPT !.pc = "done",
                                            !.replied = a = Loop /\ Replies]]
  /\ UNCHANGED tool

Return(a) ==
  /\ round[a].pc = "done"
  /\ round' = [round EXCEPT ![a] = Idle]
  /\ UNCHANGED tool

-----------------------------------------------------------------------------

Init == /\ tool = [channel |-> NoChat.channel, chatID |-> NoChat.chatID, sent |-> FALSE]
        /\ round = [a \in Agents |-> Idle]

RoundStep(a) ==
  \/ \E kind \in {"user", "command", "system"}, c \in Chats : Start(a, kind, c)
  \/ UpdateToolContexts(a)
  \/ \E to \in Destinations : CallMessageTool(a, to)
  \/ ExecuteWithContext(a)
  \/ ExecuteFails(a)
  \/ ExecuteSends(a)
  \/ RecordSent(a)
  \/ Answer(a)
  \/ Finish(a)
  \/ Return(a)

Next == \E a \in Agents : RoundStep(a)

Spec == Init /\ [][Next]_vars

-----------------------------------------------------------------------------
(* What must hold.                                                         *)

\* The types of the code; a round that is setting the context has a field left.
TypeOK ==
  /\ tool \in [channel: STRING, chatID: STRING, sent: BOOLEAN]
  /\ round \in [Agents -> [pc: {"idle", "context", "model", "registry", "execute",
                                "sent", "answered", "done"},
                           kind: {"none", "user", "command", "system"},
                           chat: Chats \cup {NoChat},
                           todo: SUBSET Fields,
                           to: [channel: STRING, chatID: STRING],
                           calls: 0 .. MaxCalls,
                           lastSent: BOOLEAN,
                           wrote: BOOLEAN,
                           strayed: BOOLEAN,
                           replied: BOOLEAN,
                           disturbed: BOOLEAN]]
  /\ \A a \in Agents : round[a].todo # {} <=> round[a].pc \in {"context", "registry"}

\* A round of the loop about a user's message is over, and no other goroutine had
\* a round meanwhile.
UserServed == /\ round[Loop].pc = "done"
              /\ round[Loop].kind = "user"
              /\ ~round[Loop].disturbed

\* "Check if the message tool already sent a response during this round.  If so,
\* skip publishing to avoid duplicate messages to the user" (Run).  This is false:
\* each call of the tool resets the flag, so that a call that fails makes the loop
\* forget what an earlier one has sent.
NoDuplicateReply == UserServed /\ round[Loop].replied => ~round[Loop].wrote

\* What the code does instead: the answer is not published when the last call of
\* the tool in the round has sent, whatever other rounds have left in the flag.
NoReplyAfterSend == UserServed /\ round[Loop].replied => ~round[Loop].lastSent

\* A user's message is never left without any reaction: whatever earlier rounds,
\* of the loop or of the timers, have left in the tool, either the answer is
\* published or the tool has written to somebody in this very round.
NoSilentRound == UserServed => round[Loop].replied \/ round[Loop].wrote

\* What the tool sends goes to the channel and to the chat id that the model has
\* named, and where it has named none to those of the round, as long as no other
\* round runs ("ExecuteWithContext executes a tool with channel/chatID context",
\* registry.go).  A model that names a channel only writes to the id of its round
\* on that channel, which may be nobody's: this is what it is documented to do.
NothingStrays == \A a \in Agents : round[a].strayed => round[a].disturbed

\* Every command is answered ("Tracks whether a message was sent in the current
\* processing round", MessageTool).
CommandsAreAnswered ==
  round[Loop].pc = "done" /\ round[Loop].kind = "command" => round[Loop].replied
=============================================================================
