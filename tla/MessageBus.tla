----------------------------- MODULE MessageBus -----------------------------
(***************************************************************************)
(* The message bus of AutoClaw (AutoClaw/pkg/bus/bus.go): two bounded Go   *)
(* channels and a flag, under one sync.RWMutex.                            *)
(*                                                                         *)
(* A publisher holds the read lock while it is blocked on a full channel.  *)
(* That is what keeps Close from closing a channel somebody is sending on, *)
(* and what makes Close, and behind it every other publisher, wait for the *)
(* consumers: a writer that waits for the lock keeps new readers out.      *)
(***************************************************************************)
EXTENDS Naturals, Sequences

CONSTANTS
  Publishers,  (* goroutines that call PublishInbound and PublishOutbound *)
  Writers,     (* goroutines that call Close and RegisterHandler          *)
  Capacity,    (* of each Go channel: 100 in NewMessageBus                *)
  MaxCalls,    (* bound: messages per publisher                           *)
  MaxZeros     (* bound: receives from each channel once it has run dry   *)

ASSUME BusParameters ==
  /\ Capacity \in Nat \ {0}
  /\ MaxCalls \in Nat /\ MaxZeros \in Nat
  /\ Publishers \cap Writers = {}

\* The two Go channels.
Channels == {"inbound", "outbound"}

\* The messages of a publisher are numbered in the order of its calls.
BusMessages == Publishers \X (1 .. MaxCalls)

VARIABLES
  publisher,  (* what each publisher is doing                  *)
  calls,      (* bound: the calls each publisher has made      *)
  writer,     (* what each writer is doing                     *)
  buffer,     (* the messages in each Go channel               *)
  closed,     (* mb.closed                                     *)
  handlers,   (* has a handler been registered (mb.handlers)?  *)
  accepted,   (* history: the messages sent on each channel    *)
  received,   (* history: the messages consumed from each      *)
  zeros       (* history: the zero messages consumed from each *)

locks == <<publisher, calls, writer>>
busVars == <<locks, buffer, closed, handlers, accepted, received, zeros>>

-----------------------------------------------------------------------------
(* sync.RWMutex.  A writer first waits for the other writers; once it has  *)
(* announced itself, nobody enters as a reader until it is through.        *)

Idle == [pc |-> "idle"]

Sending(ch) == [pc |-> "sending", ch |-> ch]
Sent        == [pc |-> "sent"]

WriterWaits == \E w \in Writers : writer[w] # "idle"

IsReading(p) == publisher[p].pc # "idle"

-----------------------------------------------------------------------------

\* Mutant: the flag is not looked at.
PublishUnchecked(p, ch) ==
  /\ publisher[p].pc = "idle"
  /\ calls[p] < MaxCalls
  /\ ~WriterWaits
  /\ calls' = [calls EXCEPT ![p] = @ + 1]
  /\ publisher' = [publisher EXCEPT ![p] = Sending(ch)]
  /\ UNCHANGED <<writer, buffer, closed, handlers, accepted, received, zeros>>

\* PublishInbound and PublishOutbound: take the read lock and look at the flag.
\* A message that comes too late is dropped without a word.
Publish(p, ch) ==
  /\ publisher[p].pc = "idle"
  /\ calls[p] < MaxCalls
  /\ ~WriterWaits
  /\ calls' = [calls EXCEPT ![p] = @ + 1]
  /\ publisher' = [publisher EXCEPT ![p] = IF closed THEN Sent ELSE Sending(ch)]
  /\ UNCHANGED <<writer, buffer, closed, handlers, accepted, received, zeros>>

HasRoom(ch) == Len(buffer[ch]) < Capacity

\* The send, which blocks while the channel is full.
Send(p) ==
  LET ch == publisher[p].ch
      m  == <<p, calls[p]>>
  IN
  /\ publisher[p].pc = "sending"
  /\ HasRoom(ch)
  /\ buffer' = [buffer EXCEPT ![ch] = Append(@, m)]
  /\ accepted' = [accepted EXCEPT ![ch] = Append(@, m)]
  /\ publisher' = [publisher EXCEPT ![p] = Sent]
  /\ UNCHANGED <<calls, writer, closed, handlers, received, zeros>>

\* The deferred RUnlock.
Return(p) ==
  /\ publisher[p].pc = "sent"
  /\ publisher' = [publisher EXCEPT ![p] = Idle]
  /\ UNCHANGED <<calls, writer, buffer, closed, handlers, accepted, received, zeros>>

\* The receive of a message that was sent.
Receive(ch) ==
  /\ buffer[ch] # <<>>
  /\ received' = [received EXCEPT ![ch] = Append(@, Head(buffer[ch]))]
  /\ buffer' = [buffer EXCEPT ![ch] = Tail(@)]
  /\ UNCHANGED <<locks, closed, handlers, accepted, zeros>>

\* From a channel that is closed and empty every receive returns at once, with
\* a zero message, which the callers are told is one (ok is TRUE).
ReceiveZero(ch) ==
  /\ closed /\ buffer[ch] = <<>>
  /\ zeros[ch] < MaxZeros
  /\ zeros' = [zeros EXCEPT ![ch] = @ + 1]
  /\ UNCHANGED <<locks, buffer, closed, handlers, accepted, received>>

\* ConsumeInbound and SubscribeOutbound.  Their return when the context is done
\* changes nothing.
Consume(ch) == Receive(ch) \/ ReceiveZero(ch)

\* Lock: wait for the other writers, and announce oneself.
Announce(w, op) ==
  /\ ~WriterWaits
  /\ writer' = [writer EXCEPT ![w] = op]
  /\ UNCHANGED <<publisher, calls, buffer, closed, handlers, accepted, received, zeros>>

\* The critical section of a writer begins when the last reader has left.
Enter == \A p \in Publishers : ~IsReading(p)

\* Mutant: the bus is closed without waiting for the lock.
CloseAtOnce(w) ==
  /\ writer[w] = "close"
  /\ closed' = TRUE
  /\ writer' = [writer EXCEPT ![w] = "idle"]
  /\ UNCHANGED <<publisher, calls, buffer, handlers, accepted, received, zeros>>

\* Mutant: the lock is kept when the bus is closed already.
CloseLeaks(w) ==
  /\ writer[w] = "close"
  /\ Enter
  /\ closed' = TRUE
  /\ writer' = IF closed THEN writer ELSE [writer EXCEPT ![w] = "idle"]
  /\ UNCHANGED <<publisher, calls, buffer, handlers, accepted, received, zeros>>

Close(w) ==
  /\ writer[w] = "close"
  /\ Enter
  /\ closed' = TRUE
  /\ writer' = [writer EXCEPT ![w] = "idle"]
  /\ UNCHANGED <<publisher, calls, buffer, handlers, accepted, received, zeros>>

RegisterHandler(w) ==
  /\ writer[w] = "register"
  /\ Enter
  /\ handlers' = TRUE
  /\ writer' = [writer EXCEPT ![w] = "idle"]
  /\ UNCHANGED <<publisher, calls, buffer, closed, accepted, received, zeros>>

-----------------------------------------------------------------------------

BusInit ==
  /\ publisher = [p \in Publishers |-> Idle]
  /\ calls = [p \in Publishers |-> 0]
  /\ writer = [w \in Writers |-> "idle"]
  /\ buffer = [ch \in Channels |-> <<>>]
  /\ closed = FALSE
  /\ handlers = FALSE
  /\ accepted = [ch \in Channels |-> <<>>]
  /\ received = [ch \in Channels |-> <<>>]
  /\ zeros = [ch \in Channels |-> 0]

PublisherStep(p) == \/ \E ch \in Channels : Publish(p, ch)
                    \/ Send(p)
                    \/ Return(p)

WriterStep(w) == Close(w) \/ RegisterHandler(w)

BusNext ==
  \/ \E p \in Publishers : PublisherStep(p)
  \/ \E ch \in Channels : Consume(ch)
  \/ \E w \in Writers : WriterStep(w) \/ Announce(w, "close") \/ Announce(w, "register")

BusSpec == BusInit /\ [][BusNext]_busVars

(***************************************************************************)
(* Fairness.  Consumers keep consuming, the scheduler is fair to every     *)
(* goroutine, and the runtime admits the readers that waited behind a      *)
(* writer before the next writer.  Nobody has to call Close.               *)
(***************************************************************************)
BusFairness ==
  /\ \A p \in Publishers : WF_busVars(Send(p)) /\ WF_busVars(Return(p))
  /\ \A ch \in Channels : WF_busVars(Consume(ch))
  /\ \A w \in Writers : WF_busVars(WriterStep(w))

BusLiveSpec == BusSpec /\ BusFairness

-----------------------------------------------------------------------------
(* What must hold.                                                         *)

\* The state has the types the code gives it: a channel never holds more than
\* its capacity, and no two writers have the lock's attention.
BusTypeOK ==
  /\ publisher \in [Publishers -> {Idle, Sent} \cup {Sending(ch) : ch \in Channels}]
  /\ calls \in [Publishers -> 0 .. MaxCalls]
  /\ writer \in [Writers -> {"idle", "close", "register"}]
  /\ \A v, w \in Writers : writer[v] # "idle" /\ writer[w] # "idle" => v = w
  /\ buffer \in [Channels -> Seq(BusMessages)]
  /\ \A ch \in Channels : Len(buffer[ch]) <= Capacity
  /\ closed \in BOOLEAN
  /\ handlers \in BOOLEAN
  /\ accepted \in [Channels -> Seq(BusMessages)]
  /\ received \in [Channels -> Seq(BusMessages)]
  /\ zeros \in [Channels -> 0 .. MaxZeros]

\* Nobody is about to send on a closed channel, which would panic: the flag is
\* checked, and the message sent, under one read lock.
NoSendOnClosed == closed => \A p \in Publishers : publisher[p].pc # "sending"

Inbound == INSTANCE FifoQueue
  WITH Messages <- BusMessages, accepted <- accepted["inbound"],
       received <- received["inbound"], zeros <- zeros["inbound"]

Outbound == INSTANCE FifoQueue
  WITH Messages <- BusMessages, accepted <- accepted["outbound"],
       received <- received["outbound"], zeros <- zeros["outbound"]

\* Each channel is a FIFO queue that accepts nothing once the bus is closed, still
\* delivers what it had accepted before, and only then the zero messages that the
\* consumers cannot tell from messages.
IsFifo == Inbound!Spec /\ Outbound!Spec

\* A publisher that is blocked on a full channel gets its message through.
PublishersReturn == \A p \in Publishers : IsReading(p) ~> ~IsReading(p)

\* A writer that waits behind blocked publishers gets the lock.
WritersReturn == \A w \in Writers : writer[w] # "idle" ~> writer[w] = "idle"

\* While somebody consumes, nobody waits for ever: neither for room in a channel
\* nor, in Close and RegisterHandler, behind those who wait for room.
EverybodyReturns == PublishersReturn /\ WritersReturn
=============================================================================
