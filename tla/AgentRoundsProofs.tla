------------------------- MODULE AgentRoundsProofs -------------------------
(***************************************************************************)
(* Theorems about AgentRounds, for every set of timers and chats and any   *)
(* number of tool calls in a round.                                        *)
(*                                                                         *)
(* The argument: while a round has never overlapped another one, nobody    *)
(* else touches the tool, so the tool holds what this round has stored.    *)
(***************************************************************************)
EXTENDS AgentRounds, TLAPS

-----------------------------------------------------------------------------
(* The inductive invariant.                                                *)

\* Two rounds that are active together know that they are disturbed.
Overlaps ==
  \A a, b \in Agents : a # b /\ Active(a) /\ Active(b) => round[a].disturbed

\* The destination that the round has stored is the one the tool holds.
TargetKnown(a) ==
  /\ "channel" \notin round[a].todo => tool.channel = round[a].chat.channel
  /\ "chatID" \notin round[a].todo => tool.chatID = round[a].chat.chatID

\* The flag says whether the last call of the tool in this round has sent.
FlagKnown(a) ==
  /\ round[a].pc \in {"context", "registry"} /\ "sent" \notin round[a].todo => ~tool.sent
  /\ round[a].pc = "execute" => ~tool.sent
  /\ round[a].pc \in {"model", "answered"} => (tool.sent <=> round[a].lastSent)

RoundOK(a) ==
  /\ round[a].pc = "context" => ~round[a].lastSent
  /\ round[a].lastSent \/ round[a].pc = "sent" => round[a].wrote
  /\ round[a].pc \in {"context", "model", "registry", "execute", "sent"}
       => round[a].kind = "user"
  /\ round[a].strayed => round[a].disturbed
  /\ Active(a) /\ round[a].kind = "user" /\ ~round[a].disturbed
       => TargetKnown(a) /\ FlagKnown(a)
  /\ a = Loop /\ round[a].pc = "done" /\ round[a].kind = "user" /\ ~round[a].disturbed
       => (round[a].replied <=> ~round[a].lastSent)

RoundsInv == TypeOK /\ Overlaps /\ \A a \in Agents : RoundOK(a)

-----------------------------------------------------------------------------
(* Frame lemmas.                                                           *)

\* A round keeps its invariant when another one, which is active, takes a step.
LEMMA ActiveOther ==
  ASSUME RoundsInv, NEW a \in Agents, Active(a), NEW b \in Agents, b # a,
         round'[b] = round[b]
  PROVE  RoundOK(b)'
<1>1. RoundOK(b)
  BY DEF RoundsInv
<1>2. Active(b) => round[b].disturbed
  BY DEF RoundsInv, Overlaps
<1>3. Active(b)' <=> Active(b)
  BY DEF Active
<1>. QED  BY <1>1, <1>2, <1>3 DEF RoundOK

\* A round keeps its invariant when the tool does.
LEMMA ToolUnchanged ==
  ASSUME RoundsInv, NEW b \in Agents, round'[b] = round[b], UNCHANGED tool
  PROVE  RoundOK(b)'
<1>1. RoundOK(b)
  BY DEF RoundsInv
<1>. QED  BY <1>1 DEF RoundOK, Active, TargetKnown, FlagKnown

\* A step of one round that does not begin one.
OneRoundMoves(a) ==
  /\ \A b \in Agents \ {a} : round'[b] = round[b]
  /\ Active(a)' => Active(a)
  /\ round'[a].disturbed = round[a].disturbed \/ ~Active(a)'

LEMMA OverlapsKept ==
  ASSUME RoundsInv, NEW a \in Agents, OneRoundMoves(a)
  PROVE  Overlaps'
<1>. SUFFICES ASSUME NEW b \in Agents, NEW c \in Agents, b # c, Active(b)', Active(c)'
              PROVE  round'[b].disturbed
  BY DEF Overlaps
<1>1. Active(b) /\ Active(c)
  BY DEF OneRoundMoves, Active
<1>2. round[b].disturbed
  BY <1>1 DEF RoundsInv, Overlaps
<1>3. round'[b].disturbed = round[b].disturbed
  BY DEF OneRoundMoves
<1>. QED  BY <1>2, <1>3

-----------------------------------------------------------------------------
(* The initial state.                                                      *)

LEMMA RoundsInit == Init => RoundsInv
<1>. SUFFICES ASSUME Init PROVE RoundsInv
  OBVIOUS
<1>1. NoChat \in [channel: STRING, chatID: STRING]
  BY RoundParameters
<1>2. TypeOK
  BY <1>1, RoundParameters DEF Init, TypeOK, Idle
<1>3. Overlaps /\ \A a \in Agents : RoundOK(a)
  BY DEF Init, Idle, Overlaps, RoundOK, Active
<1>. QED  BY <1>2, <1>3 DEF RoundsInv

-----------------------------------------------------------------------------
(* The steps.                                                              *)

RoundRecord == [pc: {"idle", "context", "model", "registry", "execute",
                     "sent", "answered", "done"},
                kind: {"none", "user", "command", "system"},
                chat: Chats \cup {NoChat},
                todo: SUBSET Fields,
                to: [channel: STRING, chatID: STRING],
                calls: 0 .. MaxCalls,
                lastSent: BOOLEAN,
                wrote: BOOLEAN,
                strayed: BOOLEAN,
                replied: BOOLEAN,
                disturbed: BOOLEAN]

\* What TypeOK says of one round, and the chats.
LEMMA RoundTypes ==
  ASSUME TypeOK, NEW a \in Agents
  PROVE  /\ round[a] \in RoundRecord
         /\ round[a].todo # {} <=> round[a].pc \in {"context", "registry"}
         /\ round[a].chat \in [channel: STRING, chatID: STRING]
BY RoundParameters DEF TypeOK, RoundRecord

\* TypeOK follows from the types of the tool and of the round that moved.
LEMMA TypesKept ==
  ASSUME TypeOK, NEW a \in Agents, NEW r \in RoundRecord,
         round' = [round EXCEPT ![a] = r],
         r.todo # {} <=> r.pc \in {"context", "registry"},
         tool' \in [channel: STRING, chatID: STRING, sent: BOOLEAN]
  PROVE  TypeOK'
BY DEF TypeOK, RoundRecord

LEMMA StepStart ==
  ASSUME RoundsInv, NEW a \in Agents, NEW kind \in {"user", "command", "system"},
         NEW c \in Chats, Start(a, kind, c)
  PROVE  RoundsInv'
<1>. DEFINE others == {b \in Agents \ {a} : Active(b)}
<1>1. /\ round[a].pc = "idle"
      /\ round' \in [Agents -> RoundRecord]
      /\ UNCHANGED tool
  <2>1. FirstPc(kind) \in {"context", "answered", "done"}
    BY DEF FirstPc
  <2>2. \A b \in Agents : round[b] \in RoundRecord
    BY RoundTypes DEF RoundsInv
  <2>3. ASSUME NEW x \in BOOLEAN, NEW t \in SUBSET Fields
        PROVE  [Idle EXCEPT !.pc = FirstPc(kind), !.kind = kind, !.chat = c,
                            !.todo = t, !.disturbed = x] \in RoundRecord
    <3>1. Idle \in RoundRecord
      BY RoundParameters DEF Idle, RoundRecord
    <3>2. c \in Chats \cup {NoChat}
      OBVIOUS
    <3>. QED  BY <2>1, <2>3, <3>1, <3>2 DEF RoundRecord
  <2>4. ASSUME NEW b \in Agents, NEW x \in BOOLEAN
        PROVE  [round[b] EXCEPT !.disturbed = x] \in RoundRecord
    BY <2>2 DEF RoundRecord
  <2>5. \A b \in Agents : round[b].disturbed \in BOOLEAN
    BY <2>2 DEF RoundRecord
  <2>6. (IF kind = "user" THEN Fields ELSE {}) \in SUBSET Fields
    OBVIOUS
  <2>. QED  BY <2>3, <2>4, <2>5, <2>6 DEF Start
<1>2. /\ round'[a].pc = FirstPc(kind) /\ round'[a].kind = kind /\ round'[a].chat = c
      /\ round'[a].todo = IF kind = "user" THEN Fields ELSE {}
      /\ ~round'[a].lastSent /\ ~round'[a].wrote /\ ~round'[a].strayed
      /\ round'[a].disturbed = (others # {})
  BY DEF Start, Idle
<1>3. ASSUME NEW b \in Agents, b # a
      PROVE  /\ round'[b] = [round[b] EXCEPT !.disturbed = round'[b].disturbed]
             /\ round[b].disturbed => round'[b].disturbed
             /\ FirstPc(kind) # "done" /\ Active(b) => round'[b].disturbed
  <2>1. PICK x \in BOOLEAN : /\ round'[b] = [round[b] EXCEPT !.disturbed = x]
                             /\ x = (round[b].disturbed
                                     \/ (FirstPc(kind) # "done" /\ b \in others))
    <3>1. round[b].disturbed \in BOOLEAN
      BY RoundTypes DEF RoundsInv, RoundRecord
    <3>. QED  BY <1>3, <3>1 DEF Start
  <2>2. round[b] \in RoundRecord
    BY RoundTypes DEF RoundsInv
  <2>3. round'[b].disturbed = x
    BY <2>1, <2>2 DEF RoundRecord
  <2>. QED  BY <1>3, <2>1, <2>3
<1>4. ASSUME NEW b \in Agents, b # a
      PROVE  /\ round'[b].pc = round[b].pc /\ round'[b].kind = round[b].kind
             /\ round'[b].chat = round[b].chat /\ round'[b].todo = round[b].todo
             /\ round'[b].lastSent = round[b].lastSent
             /\ round'[b].wrote = round[b].wrote
             /\ round'[b].strayed = round[b].strayed
             /\ round'[b].replied = round[b].replied
  <2>1. PICK x : round'[b] = [round[b] EXCEPT !.disturbed = x]
    BY <1>3, <1>4
  <2>2. round[b] \in RoundRecord
    BY RoundTypes DEF RoundsInv
  <2>. QED  BY <2>1, <2>2 DEF RoundRecord
<1>5. Fields # {} /\ (FirstPc(kind) = "context" <=> kind = "user")
      /\ (FirstPc(kind) = "done" <=> kind = "system")
      /\ FirstPc(kind) \in {"context", "answered", "done"}
  BY DEF Fields, FirstPc
<1>6. TypeOK'
  <2>1. \A b \in Agents : round'[b].todo # {} <=> round'[b].pc \in {"context", "registry"}
    BY <1>2, <1>4, <1>5, RoundTypes DEF RoundsInv
  <2>. QED  BY <1>1, <2>1 DEF TypeOK, RoundsInv, RoundRecord
<1>7. Overlaps'
  <2>. SUFFICES ASSUME NEW b \in Agents, NEW d \in Agents, b # d, Active(b)', Active(d)'
                PROVE  round'[b].disturbed
    BY DEF Overlaps
  <2>1. CASE b = a
    <3>1. d \in others
      BY <1>4, <2>1 DEF Active
    <3>. QED  BY <1>2, <2>1, <3>1
  <2>2. CASE b # a /\ d = a
    <3>1. FirstPc(kind) # "done" /\ Active(b)
      BY <1>2, <1>4, <2>2 DEF Active
    <3>. QED  BY <1>3, <2>2, <3>1
  <2>3. CASE b # a /\ d # a
    <3>1. Active(b) /\ Active(d)
      BY <1>4, <2>3 DEF Active
    <3>2. round[b].disturbed
      BY <3>1 DEF RoundsInv, Overlaps
    <3>. QED  BY <1>3, <2>3, <3>2
  <2>. QED  BY <2>1, <2>2, <2>3
<1>8. RoundOK(a)'
  <2>1. kind = "user" => TargetKnown(a)' /\ FlagKnown(a)'
    BY <1>2, <1>5 DEF TargetKnown, FlagKnown, Fields
  <2>2. kind # "system" => round'[a].pc # "done"
    BY <1>2, <1>5
  <2>. QED  BY <1>2, <1>5, <2>1, <2>2 DEF RoundOK, Active
<1>9. ASSUME NEW b \in Agents, b # a PROVE RoundOK(b)'
  <2>1. RoundOK(b)
    BY DEF RoundsInv
  <2>2. Active(b)' <=> Active(b)
    BY <1>4, <1>9 DEF Active
  <2>3. TargetKnown(b) => TargetKnown(b)'
    BY <1>1, <1>4, <1>9 DEF TargetKnown
  <2>4. FlagKnown(b) => FlagKnown(b)'
    BY <1>1, <1>4, <1>9 DEF FlagKnown
  <2>. QED  BY <1>3, <1>4, <1>9, <2>1, <2>2, <2>3, <2>4 DEF RoundOK
<1>. QED  BY <1>6, <1>7, <1>8, <1>9 DEF RoundsInv

\* What is left to show of a step of one round.
LEMMA OneStep ==
  ASSUME RoundsInv, NEW a \in Agents, Active(a) \/ UNCHANGED tool,
         OneRoundMoves(a), TypeOK', RoundOK(a)'
  PROVE  RoundsInv'
<1>1. Overlaps'
  BY OverlapsKept
<1>2. ASSUME NEW b \in Agents, b # a PROVE RoundOK(b)'
  <2>1. round'[b] = round[b]
    BY <1>2 DEF OneRoundMoves
  <2>. QED  BY <1>2, <2>1, ActiveOther, ToolUnchanged
<1>. QED  BY <1>1, <1>2 DEF RoundsInv

LEMMA StepSetContext ==
  ASSUME RoundsInv, NEW a \in Agents, UpdateToolContexts(a) \/ ExecuteWithContext(a)
  PROVE  RoundsInv'
<1>1. PICK f \in round[a].todo :
        /\ tool' = [tool EXCEPT ![f] = FieldValue(round[a].chat, f)]
        /\ round' = [round EXCEPT ![a] =
             [@ EXCEPT !.todo = round[a].todo \ {f},
                       !.pc = IF round[a].todo = {f}
                              THEN IF round[a].pc = "context" THEN "model" ELSE "execute"
                              ELSE round[a].pc]]
  <2>1. CASE UpdateToolContexts(a)
    <3>1. round[a].pc = "context"
      BY <2>1 DEF UpdateToolContexts, SetContext
    <3>. QED  BY <2>1, <3>1 DEF UpdateToolContexts, SetContext
  <2>2. CASE ExecuteWithContext(a)
    <3>1. round[a].pc = "registry" /\ round[a].pc # "context"
      BY <2>2 DEF ExecuteWithContext, SetContext
    <3>. QED  BY <2>2, <3>1 DEF ExecuteWithContext, SetContext
  <2>. QED  BY <2>1, <2>2
<1>2. round[a].pc \in {"context", "registry"}
  BY DEF UpdateToolContexts, ExecuteWithContext, SetContext
<1>3. round[a] \in RoundRecord /\ f \in Fields
      /\ round[a].chat \in [channel: STRING, chatID: STRING]
      /\ tool \in [channel: STRING, chatID: STRING, sent: BOOLEAN]
      /\ round \in [Agents -> RoundRecord]
  BY RoundTypes DEF RoundsInv, RoundRecord, TypeOK
<1>4. PICK r : r = [round[a] EXCEPT !.todo = round[a].todo \ {f},
                       !.pc = IF round[a].todo = {f}
                              THEN IF round[a].pc = "context" THEN "model" ELSE "execute"
                              ELSE round[a].pc]
  OBVIOUS
<1>5. round' = [round EXCEPT ![a] = r] /\ round'[a] = r
  BY <1>1, <1>3, <1>4
<1>6. r \in RoundRecord
  BY <1>2, <1>3, <1>4 DEF RoundRecord
<1>7. /\ r.todo = round[a].todo \ {f} /\ r.chat = round[a].chat /\ r.kind = round[a].kind
      /\ r.lastSent = round[a].lastSent /\ r.wrote = round[a].wrote
      /\ r.strayed = round[a].strayed /\ r.disturbed = round[a].disturbed
      /\ \/ r.todo # {} /\ r.pc = round[a].pc
         \/ r.todo = {} /\ round[a].pc = "context" /\ r.pc = "model"
         \/ r.todo = {} /\ round[a].pc = "registry" /\ r.pc = "execute"
  BY <1>2, <1>3, <1>4 DEF RoundRecord
<1>8. /\ tool' \in [channel: STRING, chatID: STRING, sent: BOOLEAN]
      /\ f = "channel" => tool'.channel = round[a].chat.channel
      /\ f # "channel" => tool'.channel = tool.channel
      /\ f = "chatID" => tool'.chatID = round[a].chat.chatID
      /\ f # "chatID" => tool'.chatID = tool.chatID
      /\ f = "sent" => ~tool'.sent
      /\ f # "sent" => tool'.sent = tool.sent
  BY <1>1, <1>3 DEF FieldValue, Fields
<1>9. TypeOK'
  <2>1. r.todo # {} <=> r.pc \in {"context", "registry"}
    BY <1>2, <1>7
  <2>. QED  BY <1>5, <1>6, <1>8, <2>1, TypesKept DEF RoundsInv
<1>10. Active(a) /\ OneRoundMoves(a)
  BY <1>2, <1>5, <1>7 DEF Active, OneRoundMoves
<1>11. RoundOK(a)'
  <2>1. RoundOK(a)
    BY DEF RoundsInv
  <2>2. TargetKnown(a) => TargetKnown(a)'
    BY <1>5, <1>7, <1>8 DEF TargetKnown
  <2>3. round[a].pc = "context" => ~round[a].lastSent
    BY <2>1 DEF RoundOK
  <2>4. FlagKnown(a) => FlagKnown(a)'
    BY <1>2, <1>5, <1>7, <1>8, <2>3 DEF FlagKnown
  <2>. QED  BY <1>2, <1>5, <1>7, <2>1, <2>2, <2>4 DEF RoundOK, Active
<1>. QED  BY <1>9, <1>10, <1>11, OneStep

\* The actions that change one round and, at most, set the flag of the tool.
LEMMA StepModel ==
  ASSUME RoundsInv, NEW a \in Agents,
         NEW r \in RoundRecord, round' = [round EXCEPT ![a] = r],
         UNCHANGED tool \/ tool' = [tool EXCEPT !.sent = TRUE],
         Active(a) \/ UNCHANGED tool,
         r.todo # {} <=> r.pc \in {"context", "registry"},
         r.pc \notin {"idle", "done"} => Active(a),
         r.disturbed = round[a].disturbed \/ r.pc = "idle",
         RoundOK(a)'
  PROVE  RoundsInv'
<1>1. round'[a] = r
  BY DEF RoundsInv, TypeOK
<1>2. tool' \in [channel: STRING, chatID: STRING, sent: BOOLEAN]
  BY DEF RoundsInv, TypeOK
<1>3. TypeOK'
  BY <1>2, TypesKept DEF RoundsInv
<1>4. OneRoundMoves(a)
  BY <1>1 DEF OneRoundMoves, Active
<1>. QED  BY <1>3, <1>4, OneStep

LEMMA StepCall ==
  ASSUME RoundsInv, NEW a \in Agents, NEW to \in Destinations,
         CallMessageTool(a, to)
  PROVE  RoundsInv'
<1>1. round[a] \in RoundRecord /\ round[a].pc = "model" /\ UNCHANGED tool /\ RoundOK(a)
  BY RoundTypes DEF RoundsInv, CallMessageTool
<1>2. PICK r : r = [round[a] EXCEPT !.pc = "registry", !.todo = Fields,
                                    !.calls = round[a].calls + 1, !.to = to]
  OBVIOUS
<1>3. round' = [round EXCEPT ![a] = r] /\ round'[a] = r
  <2>1. round' = [round EXCEPT ![a] = r]
    BY <1>2 DEF CallMessageTool
  <2>2. DOMAIN round = Agents
    BY DEF RoundsInv, TypeOK
  <2>. QED  BY <2>1, <2>2
<1>4. r \in RoundRecord
  <2>1. round[a].calls + 1 \in 0 .. MaxCalls
    BY <1>1, RoundParameters DEF RoundRecord, CallMessageTool
  <2>2. to \in [channel: STRING, chatID: STRING]
    BY RoundParameters DEF Destinations
  <2>. QED  BY <1>1, <1>2, <2>1, <2>2 DEF RoundRecord
<1>5. /\ r.pc = "registry" /\ r.todo = Fields /\ r.kind = round[a].kind
      /\ r.lastSent = round[a].lastSent /\ r.wrote = round[a].wrote
      /\ r.strayed = round[a].strayed /\ r.disturbed = round[a].disturbed
  BY <1>1, <1>2 DEF RoundRecord
<1>6. RoundOK(a)'
  <2>1. TargetKnown(a)' /\ FlagKnown(a)'
    BY <1>3, <1>5 DEF TargetKnown, FlagKnown, Fields
  <2>. QED  BY <1>1, <1>3, <1>5, <2>1 DEF RoundOK, Active
<1>. QED  BY <1>1, <1>3, <1>4, <1>5, <1>6, StepModel DEF Active, Fields

LEMMA StepExecuteFails ==
  ASSUME RoundsInv, NEW a \in Agents, ExecuteFails(a)
  PROVE  RoundsInv'
<1>1. /\ round[a] \in RoundRecord /\ round[a].pc = "execute" /\ round[a].todo = {}
      /\ UNCHANGED tool /\ RoundOK(a)
  BY RoundTypes DEF RoundsInv, ExecuteFails
<1>2. PICK r : r = [round[a] EXCEPT !.pc = "model", !.to = NoChat, !.lastSent = FALSE]
  OBVIOUS
<1>3. round' = [round EXCEPT ![a] = r] /\ round'[a] = r
  BY <1>2 DEF ExecuteFails, RoundsInv, TypeOK
<1>4. r \in RoundRecord
  BY <1>1, <1>2, RoundParameters DEF RoundRecord
<1>5. /\ r.pc = "model" /\ r.todo = {} /\ r.kind = round[a].kind /\ ~r.lastSent
      /\ r.chat = round[a].chat /\ r.wrote = round[a].wrote
      /\ r.strayed = round[a].strayed /\ r.disturbed = round[a].disturbed
  BY <1>1, <1>2 DEF RoundRecord
<1>6. RoundOK(a)'
  <2>1. TargetKnown(a) => TargetKnown(a)'
    BY <1>1, <1>3, <1>5 DEF TargetKnown
  <2>2. FlagKnown(a) => FlagKnown(a)'
    BY <1>1, <1>3, <1>5 DEF FlagKnown
  <2>. QED  BY <1>1, <1>3, <1>5, <2>1, <2>2 DEF RoundOK, Active
<1>. QED  BY <1>1, <1>3, <1>4, <1>5, <1>6, StepModel DEF Active

LEMMA StepExecuteSends ==
  ASSUME RoundsInv, NEW a \in Agents, ExecuteSends(a)
  PROVE  RoundsInv'
<1>1. /\ round[a] \in RoundRecord /\ round[a].pc = "execute" /\ round[a].todo = {}
      /\ UNCHANGED tool /\ RoundOK(a)
      /\ round[a].chat \in [channel: STRING, chatID: STRING]
      /\ tool \in [channel: STRING, chatID: STRING, sent: BOOLEAN]
  BY RoundTypes DEF RoundsInv, ExecuteSends, TypeOK
<1>2. PICK d : d = Recipient(round[a].to)
  OBVIOUS
<1>3. d \in [channel: STRING, chatID: STRING]
  BY <1>1, <1>2, RoundParameters DEF Recipient, Completed, RoundRecord
<1>4. PICK r : r = [round[a] EXCEPT !.pc = "sent", !.wrote = TRUE,
                            !.strayed = round[a].strayed \/ d # Intended(a)]
  OBVIOUS
<1>5. round' = [round EXCEPT ![a] = r] /\ round'[a] = r
  BY <1>2, <1>4 DEF ExecuteSends, RoundsInv, TypeOK
<1>6. r \in RoundRecord
  <2>1. (round[a].strayed \/ d # Intended(a)) \in BOOLEAN
    OBVIOUS
  <2>. QED  BY <1>1, <1>4, <2>1 DEF RoundRecord
<1>7. /\ r.pc = "sent" /\ r.todo = {} /\ r.kind = round[a].kind
      /\ r.lastSent = round[a].lastSent /\ r.wrote
      /\ r.chat = round[a].chat /\ r.disturbed = round[a].disturbed
      /\ r.strayed = (round[a].strayed \/ d # Intended(a))
  BY <1>1, <1>4 DEF RoundRecord
<1>8. RoundOK(a)'
  <2>1. TargetKnown(a) => TargetKnown(a)'
    BY <1>1, <1>5, <1>7 DEF TargetKnown
  <2>2. FlagKnown(a)'
    BY <1>5, <1>7 DEF FlagKnown
  <2>3. ~round[a].disturbed => d = Intended(a)
    <3>1. round[a].kind = "user" /\ Active(a)
      BY <1>1 DEF RoundOK, Active
    <3>2. ~round[a].disturbed => TargetKnown(a)
      BY <1>1, <3>1 DEF RoundOK
    <3>. QED  BY <1>1, <1>2, <3>2 DEF TargetKnown, Recipient, Intended, Completed
  <2>. QED  BY <1>1, <1>5, <1>7, <2>1, <2>2, <2>3 DEF RoundOK, Active
<1>. QED  BY <1>1, <1>5, <1>6, <1>7, <1>8, StepModel DEF Active

LEMMA StepRecordSent ==
  ASSUME RoundsInv, NEW a \in Agents, RecordSent(a)
  PROVE  RoundsInv'
<1>1. /\ round[a] \in RoundRecord /\ round[a].pc = "sent" /\ round[a].todo = {}
      /\ RoundOK(a) /\ tool \in [channel: STRING, chatID: STRING, sent: BOOLEAN]
  BY RoundTypes DEF RoundsInv, RecordSent, TypeOK
<1>2. PICK r : r = [round[a] EXCEPT !.pc = "model", !.to = NoChat, !.lastSent = TRUE]
  OBVIOUS
<1>3. /\ round' = [round EXCEPT ![a] = r] /\ round'[a] = r
      /\ tool' = [tool EXCEPT !.sent = TRUE] /\ tool'.sent
      /\ tool'.channel = tool.channel /\ tool'.chatID = tool.chatID
  BY <1>1, <1>2 DEF RecordSent, RoundsInv, TypeOK
<1>4. r \in RoundRecord
  BY <1>1, <1>2, RoundParameters DEF RoundRecord
<1>5. /\ r.pc = "model" /\ r.todo = {} /\ r.kind = round[a].kind /\ r.lastSent
      /\ r.chat = round[a].chat /\ r.wrote = round[a].wrote
      /\ r.strayed = round[a].strayed /\ r.disturbed = round[a].disturbed
  BY <1>1, <1>2 DEF RoundRecord
<1>6. RoundOK(a)'
  <2>1. TargetKnown(a) => TargetKnown(a)'
    BY <1>1, <1>3, <1>5 DEF TargetKnown
  <2>2. FlagKnown(a)'
    BY <1>3, <1>5 DEF FlagKnown
  <2>. QED  BY <1>1, <1>3, <1>5, <2>1, <2>2 DEF RoundOK, Active
<1>. QED  BY <1>1, <1>3, <1>4, <1>5, <1>6, StepModel DEF Active

LEMMA StepAnswer ==
  ASSUME RoundsInv, NEW a \in Agents, Answer(a)
  PROVE  RoundsInv'
<1>1. /\ round[a] \in RoundRecord /\ round[a].pc = "model" /\ round[a].todo = {}
      /\ UNCHANGED tool /\ RoundOK(a)
  BY RoundTypes DEF RoundsInv, Answer
<1>2. PICK r : r = [round[a] EXCEPT !.pc = "answered"]
  OBVIOUS
<1>3. round' = [round EXCEPT ![a] = r] /\ round'[a] = r
  BY <1>2 DEF Answer, RoundsInv, TypeOK
<1>4. r \in RoundRecord
  BY <1>1, <1>2 DEF RoundRecord
<1>5. /\ r.pc = "answered" /\ r.todo = {} /\ r.kind = round[a].kind
      /\ r.lastSent = round[a].lastSent
      /\ r.chat = round[a].chat /\ r.wrote = round[a].wrote
      /\ r.strayed = round[a].strayed /\ r.disturbed = round[a].disturbed
  BY <1>1, <1>2 DEF RoundRecord
<1>6. RoundOK(a)'
  <2>1. TargetKnown(a) => TargetKnown(a)'
    BY <1>1, <1>3, <1>5 DEF TargetKnown
  <2>2. FlagKnown(a) => FlagKnown(a)'
    BY <1>1, <1>3, <1>5 DEF FlagKnown
  <2>. QED  BY <1>1, <1>3, <1>5, <2>1, <2>2 DEF RoundOK, Active
<1>. QED  BY <1>1, <1>3, <1>4, <1>5, <1>6, StepModel DEF Active

LEMMA StepFinish ==
  ASSUME RoundsInv, NEW a \in Agents, Finish(a)
  PROVE  RoundsInv'
<1>1. /\ round[a] \in RoundRecord /\ round[a].pc = "answered" /\ round[a].todo = {}
      /\ UNCHANGED tool /\ RoundOK(a)
  BY RoundTypes DEF RoundsInv, Finish
<1>2. PICK r : r = [round[a] EXCEPT !.pc = "done", !.replied = a = Loop /\ Replies]
  OBVIOUS
<1>3. round' = [round EXCEPT ![a] = r] /\ round'[a] = r
  BY <1>2 DEF Finish, RoundsInv, TypeOK
<1>4. r \in RoundRecord
  <2>1. (a = Loop /\ Replies) \in BOOLEAN
    BY DEF Replies
  <2>. QED  BY <1>1, <1>2, <2>1 DEF RoundRecord
<1>5. /\ r.pc = "done" /\ r.todo = {} /\ r.kind = round[a].kind
      /\ r.lastSent = round[a].lastSent /\ r.wrote = round[a].wrote
      /\ r.strayed = round[a].strayed /\ r.disturbed = round[a].disturbed
      /\ r.replied = (a = Loop /\ Replies)
  BY <1>1, <1>2 DEF RoundRecord
<1>6. RoundOK(a)'
  <2>1. round[a].kind = "user" /\ ~round[a].disturbed => (Replies <=> ~round[a].lastSent)
    BY <1>1 DEF RoundOK, Active, FlagKnown, Replies
  <2>. QED  BY <1>1, <1>3, <1>5, <2>1 DEF RoundOK, Active
<1>. QED  BY <1>1, <1>3, <1>4, <1>5, <1>6, StepModel DEF Active

LEMMA StepReturn ==
  ASSUME RoundsInv, NEW a \in Agents, Return(a)
  PROVE  RoundsInv'
<1>1. UNCHANGED tool /\ round' = [round EXCEPT ![a] = Idle] /\ round'[a] = Idle
  BY DEF Return, RoundsInv, TypeOK
<1>2. Idle \in RoundRecord
  BY RoundParameters DEF Idle, RoundRecord
<1>3. TypeOK'
  <2>1. tool \in [channel: STRING, chatID: STRING, sent: BOOLEAN]
    BY DEF RoundsInv, TypeOK
  <2>2. Idle.todo = {} /\ Idle.pc = "idle"
    BY DEF Idle
  <2>. QED  BY <1>1, <1>2, <2>1, <2>2, TypesKept DEF RoundsInv
<1>4. RoundOK(a)'
  BY <1>1 DEF RoundOK, Idle, Active
<1>5. Overlaps'
  <2>. SUFFICES ASSUME NEW b \in Agents, NEW c \in Agents, b # c, Active(b)', Active(c)'
                PROVE  round'[b].disturbed
    BY DEF Overlaps
  <2>1. b # a /\ c # a
    BY <1>1 DEF Active, Idle
  <2>2. round'[b] = round[b] /\ round'[c] = round[c]
    BY <1>1, <2>1 DEF RoundsInv, TypeOK
  <2>. QED  BY <2>2 DEF RoundsInv, Overlaps, Active
<1>6. ASSUME NEW b \in Agents, b # a PROVE RoundOK(b)'
  <2>1. round'[b] = round[b]
    BY <1>1, <1>6 DEF RoundsInv, TypeOK
  <2>. QED  BY <1>1, <2>1, ToolUnchanged
<1>. QED  BY <1>3, <1>4, <1>5, <1>6 DEF RoundsInv

LEMMA RoundsNext == RoundsInv /\ [Next]_vars => RoundsInv'
<1>. SUFFICES ASSUME RoundsInv, [Next]_vars PROVE RoundsInv'
  OBVIOUS
<1>1. ASSUME NEW a \in Agents, RoundStep(a) PROVE RoundsInv'
  BY <1>1, StepStart, StepSetContext, StepCall, StepExecuteFails, StepExecuteSends,
     StepRecordSent, StepAnswer, StepFinish, StepReturn DEF RoundStep
<1>2. CASE UNCHANGED vars
  BY <1>2 DEF vars, RoundsInv, TypeOK, Overlaps, RoundOK, Active, TargetKnown, FlagKnown
<1>. QED  BY <1>1, <1>2 DEF Next

LEMMA RoundsInvariance == Spec => []RoundsInv
BY RoundsInit, RoundsNext, PTL DEF Spec

-----------------------------------------------------------------------------
(* The theorems.                                                           *)

\* The tool and the rounds keep their types.
THEOREM TypeCorrect == Spec => []TypeOK
<1>1. RoundsInv => TypeOK
  BY DEF RoundsInv
<1>. QED  BY <1>1, RoundsInvariance, PTL

\* A round nobody disturbs is answered, or has written to somebody itself,
\* whatever the rounds before it have left in the tool.
THEOREM NobodyIsIgnored == Spec => []NoSilentRound
<1>1. RoundsInv => NoSilentRound
  BY DEF RoundsInv, RoundOK, NoSilentRound, UserServed, Agents
<1>. QED  BY <1>1, RoundsInvariance, PTL

\* A round nobody disturbs is not answered when its last call of the tool has sent.
\* That it is not answered beside an earlier message is false.
THEOREM LastSendSilences == Spec => []NoReplyAfterSend
<1>1. RoundsInv => NoReplyAfterSend
  BY DEF RoundsInv, RoundOK, NoReplyAfterSend, UserServed, Agents
<1>. QED  BY <1>1, RoundsInvariance, PTL

\* Only a round that overlaps another one can write to a channel or a chat id that
\* neither its model has named nor, where that names none, the round itself has.
THEOREM MessagesStay == Spec => []NothingStrays
<1>1. RoundsInv => NothingStrays
  BY DEF RoundsInv, RoundOK, NothingStrays
<1>. QED  BY <1>1, RoundsInvariance, PTL
=============================================================================
