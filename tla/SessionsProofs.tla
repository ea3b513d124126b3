--------------------------- MODULE SessionsProofs ---------------------------
(***************************************************************************)
(* Proofs about Sessions, for any number of messages, retries and          *)
(* thresholds: the history stays in order, in memory and in the file,      *)
(* neither the summarizer nor compression takes the latest messages, what  *)
(* leaves the history is covered, and answers that went out are on disk.   *)
(*                                                                         *)
(* The order of the history alone is not inductive: compression writes     *)
(* back a copy that was taken before, and a save writes a snapshot that    *)
(* was taken before.  SessionsInv says the same of the copy and of the     *)
(* snapshots, and that no number is at or above the next one.  KeptInv     *)
(* adds that what a truncation would take is covered as long as no message *)
(* comes, in the history as in the copy; DiskInv, that the latest snapshot *)
(* has every answer that was given, as the file has.                       *)
(***************************************************************************)
EXTENDS Sessions, SequenceTheorems, WellFoundedInduction, TLAPS

Entry == [id: Nat, role: Roles] \cup {Note}

\* The numbers grow, and stay below n.
Ordered(messages, n) ==
  /\ messages \in Seq(Entry)
  /\ \A i \in 1 .. Len(messages) : messages[i].id < n
  /\ InOrder(messages)

\* The last messages are the last ones said since b, as far as Keep - 1 of them.
Recent(messages, b, n) ==
  \A k \in 1 .. Keep - 1 :
    b <= n - k => /\ k <= Len(messages)
                  /\ messages[Len(messages) - k + 1].id = n - k

\* A session whose history is in order.
Orderly(s, n) ==
  /\ s = [messages |-> s.messages, summary |-> s.summary]
  /\ Ordered(s.messages, n)

MemoryInv ==
  /\ next \in Nat \ {0} /\ born \in Nat \ {0} /\ born <= next
  /\ Orderly(session, next)
  /\ Keep <= 4 => Recent(session.messages, born, next)

CopyInv ==
  /\ round = [pc |-> round.pc, retries |-> round.retries, copy |-> round.copy]
  /\ round.pc = "compressing" => /\ Ordered(round.copy, next)
                                 /\ Len(round.copy) > 4
                                 /\ Keep <= 4 => Recent(round.copy, born, next)

FileInv ==
  /\ pending = [s \in Savers |-> pending[s]]
  /\ \A s \in Savers : pending[s] # Nothing => Orderly(pending[s], next)
  /\ file # Nothing => Orderly(file, next)

SessionsInv == MemoryInv /\ CopyInv /\ FileInv

-----------------------------------------------------------------------------
(* What the operations on histories preserve.                              *)

\* AddFullMessage puts a message with the next number at the end.
LEMMA AppendKeepsOrder ==
  ASSUME NEW messages, NEW n \in Nat \ {0}, NEW role \in Roles, Ordered(messages, n)
  PROVE  Ordered(Append(messages, Message(n, role)), n + 1)
<1> DEFINE out == Append(messages, Message(n, role))
<1>1. Message(n, role) \in Entry /\ Message(n, role).id = n
  BY DEF Message, Entry
<1>2. messages \in Seq(Entry)
  BY DEF Ordered
<1>3. /\ out \in Seq(Entry)
      /\ Len(out) = Len(messages) + 1
      /\ \A i \in 1 .. Len(messages) : out[i] = messages[i]
      /\ out[Len(messages) + 1] = Message(n, role)
  BY <1>1, <1>2, AppendProperties
<1>4. Len(messages) \in Nat
  BY <1>2, LenProperties
<1>5. \A i \in 1 .. Len(messages) : messages[i] \in Entry /\ messages[i].id < n
  BY <1>2, ElementOfSeq DEF Ordered
<1>6. ASSUME NEW i \in 1 .. Len(out), NEW j \in 1 .. Len(out), i < j,
             out[i] # Note, out[j] # Note
      PROVE  out[i].id < out[j].id
  <2>1. i \in 1 .. Len(messages) /\ out[i] = messages[i]
    BY <1>3, <1>4, <1>6
  <2>2. CASE j \in 1 .. Len(messages)
    BY <2>1, <2>2, <1>3, <1>6 DEF Ordered, InOrder
  <2>3. CASE j = Len(messages) + 1
    BY <2>1, <2>3, <1>1, <1>3, <1>5
  <2>4. QED BY <2>2, <2>3, <1>3, <1>4
<1>7. ASSUME NEW i \in 1 .. Len(out) PROVE out[i].id < n + 1
  <2>1. CASE i \in 1 .. Len(messages)
    BY <2>1, <1>3, <1>5 DEF Entry, Note, Message
  <2>2. CASE i = Len(messages) + 1
    BY <2>2, <1>1, <1>3
  <2>3. QED BY <2>1, <2>2, <1>3, <1>4
<1>8. QED BY <1>3, <1>6, <1>7 DEF Ordered, InOrder

\* ... and moves the latest ones up by one.
LEMMA AppendKeepsRecent ==
  ASSUME NEW messages \in Seq(Entry), NEW b \in Nat \ {0},
         NEW n \in Nat \ {0}, NEW role \in Roles, Recent(messages, b, n)
  PROVE  Recent(Append(messages, Message(n, role)), b, n + 1)
<1> DEFINE out == Append(messages, Message(n, role))
<1>1. Message(n, role) \in Entry /\ Message(n, role).id = n
  BY DEF Message, Entry
<1>2. /\ Len(out) = Len(messages) + 1
      /\ \A i \in 1 .. Len(messages) : out[i] = messages[i]
      /\ out[Len(messages) + 1] = Message(n, role)
  BY <1>1, AppendProperties
<1>3. Len(messages) \in Nat /\ Keep \in Nat
  BY LenProperties, SessionParameters
<1>4. ASSUME NEW k \in 1 .. Keep - 1, b <= n + 1 - k
      PROVE  k <= Len(out) /\ out[Len(out) - k + 1].id = n + 1 - k
  <2>1. CASE k = 1
    BY <2>1, <1>1, <1>2, <1>3
  <2>2. CASE k > 1
    <3>1. /\ k - 1 <= Len(messages)
          /\ messages[Len(messages) - (k - 1) + 1].id = n - (k - 1)
      <4>1. k - 1 \in 1 .. Keep - 1 /\ b <= n - (k - 1)
        BY <2>2, <1>3, <1>4
      <4>2. QED BY <4>1 DEF Recent
    <3>2. /\ Len(messages) - (k - 1) + 1 \in 1 .. Len(messages)
          /\ Len(out) - k + 1 = Len(messages) - (k - 1) + 1
      BY <3>1, <2>2, <1>2, <1>3
    <3>3. QED BY <3>1, <3>2, <1>2, <1>3
  <2>3. QED BY <2>1, <2>2, <1>3
<1>5. QED BY <1>4 DEF Recent

\* TruncateHistory keeps the end.
LEMMA TruncatedKeepsOrder ==
  ASSUME NEW messages, NEW n \in Nat \ {0}, Ordered(messages, n)
  PROVE  Ordered(Truncated(messages), n)
<1> DEFINE first == Len(messages) - Keep + 1
           out == SubSeq(messages, first, Len(messages))
<1>1. messages \in Seq(Entry) /\ Len(messages) \in Nat /\ Keep \in Nat \ {0}
  BY LenProperties, SessionParameters DEF Ordered
<1>2. CASE Len(messages) <= Keep
  BY <1>2 DEF Truncated
<1>3. CASE Len(messages) > Keep
  <2>1. first \in 1 .. Len(messages) /\ first \in Int /\ Len(messages) \in Int
    BY <1>1, <1>3
  <2>2. \A i \in first .. Len(messages) : messages[i] \in Entry
    <3>1. \A i \in 1 .. Len(messages) : messages[i] \in Entry
      BY <1>1, ElementOfSeq
    <3>2. \A i \in first .. Len(messages) : i \in 1 .. Len(messages)
      BY <1>1, <2>1
    <3>3. QED BY <3>1, <3>2
  <2>3. /\ out \in Seq(Entry)
        /\ Len(out) = IF first <= Len(messages) THEN Len(messages) - first + 1 ELSE 0
        /\ \A i \in 1 .. Len(messages) - first + 1 : out[i] = messages[first + i - 1]
    BY <2>1, <2>2, SubSeqProperties
  <2>4. Len(out) = Keep
    BY <2>1, <2>3, <1>1
  <2>5. \A i \in 1 .. Len(out) : /\ out[i] = messages[first + i - 1]
                                 /\ first + i - 1 \in 1 .. Len(messages)
    <3>1. \A i \in 1 .. Len(out) : /\ i \in 1 .. Len(messages) - first + 1
                                   /\ first + i - 1 \in 1 .. Len(messages)
      <4> HIDE DEF out
      <4>1. QED BY <2>4, <1>1, <1>3
    <3>2. QED BY <2>3, <3>1
  <2>6. \A i \in 1 .. Len(out) : out[i].id < n
    BY <2>5 DEF Ordered
  <2>7. ASSUME NEW i \in 1 .. Len(out), NEW j \in 1 .. Len(out), i < j,
               out[i] # Note, out[j] # Note
        PROVE  out[i].id < out[j].id
    <3>1. first + i - 1 < first + j - 1
      BY <2>1, <2>4, <1>1, <2>7
    <3>2. QED BY <3>1, <2>5, <2>7 DEF Ordered, InOrder
  <2>8. Truncated(messages) = out
    BY <1>1, <1>3 DEF Truncated
  <2>9. QED BY <2>3, <2>6, <2>7, <2>8 DEF Ordered, InOrder
<1>4. QED BY <1>1, <1>2, <1>3

LEMMA TruncatedKeepsRecent ==
  ASSUME NEW messages \in Seq(Entry), NEW b, NEW n, Recent(messages, b, n)
  PROVE  Recent(Truncated(messages), b, n)
<1> DEFINE first == Len(messages) - Keep + 1
           out == SubSeq(messages, first, Len(messages))
<1>1. Len(messages) \in Nat /\ Keep \in Nat \ {0}
  BY LenProperties, SessionParameters
<1>2. CASE Len(messages) <= Keep
  BY <1>2 DEF Truncated
<1>3. CASE Len(messages) > Keep
  <2>1. first \in 1 .. Len(messages) /\ first \in Int /\ Len(messages) \in Int
    BY <1>1, <1>3
  <2>2. \A i \in first .. Len(messages) : messages[i] \in Entry
    <3>1. \A i \in 1 .. Len(messages) : messages[i] \in Entry
      BY <1>1, ElementOfSeq
    <3>2. \A i \in first .. Len(messages) : i \in 1 .. Len(messages)
      BY <1>1, <2>1
    <3>3. QED BY <3>1, <3>2
  <2>3. /\ Len(out) = IF first <= Len(messages) THEN Len(messages) - first + 1 ELSE 0
        /\ \A i \in 1 .. Len(messages) - first + 1 : out[i] = messages[first + i - 1]
    BY <2>1, <2>2, SubSeqProperties
  <2>4. Len(out) = Keep
    BY <2>1, <2>3, <1>1
  <2>5. ASSUME NEW k \in 1 .. Keep - 1, b <= n - k
        PROVE  k <= Len(out) /\ out[Len(out) - k + 1].id = n - k
    <3>1. messages[Len(messages) - k + 1].id = n - k
      BY <2>5 DEF Recent
    <3>2. /\ Len(out) - k + 1 \in 1 .. Len(messages) - first + 1
          /\ first + (Len(out) - k + 1) - 1 = Len(messages) - k + 1
          /\ k <= Len(out)
      BY <2>4, <2>5, <1>1
    <3>3. QED BY <3>1, <3>2, <2>3
  <2>6. Truncated(messages) = out
    BY <1>1, <1>3 DEF Truncated
  <2>7. QED BY <2>5, <2>6 DEF Recent
<1>4. QED BY <1>1, <1>2, <1>3

\* What forceCompression makes of a history: the first message, the note, and the
\* end of the history.
LEMMA CompressedProperties ==
  ASSUME NEW messages \in Seq(Entry), Len(messages) > 4
  PROVE  \E mid \in Nat :
           /\ 1 <= mid /\ mid + 4 <= Len(messages)
           /\ Compressed(messages) \in Seq(Entry)
           /\ Len(Compressed(messages)) = Len(messages) - mid + 1
           /\ Compressed(messages)[1] = messages[1]
           /\ Compressed(messages)[2] = Note
           /\ \A i \in 3 .. Len(messages) - mid + 1 :
                Compressed(messages)[i] = messages[mid + i - 1]
<1> DEFINE mid == (Len(messages) - 2) \div 2
           head == <<Head(messages), Note>>
           kept == SubSeq(messages, mid + 2, Len(messages) - 1)
           last == <<Last(messages)>>
<1>1. Len(messages) \in Nat
  BY LenProperties
<1>2. mid \in Nat /\ 1 <= mid /\ mid + 4 <= Len(messages)
  BY <1>1
<1>3. \A i \in 1 .. Len(messages) : messages[i] \in Entry
  BY ElementOfSeq
<1>4. messages # <<>> /\ Head(messages) = messages[1] /\ Last(messages) = messages[Len(messages)]
  BY <1>1 DEF Last
<1>5. Note \in Entry
  BY DEF Note, Message, Entry
<1>6. head \in Seq(Entry) /\ Len(head) = 2 /\ head[1] = messages[1] /\ head[2] = Note
  BY <1>1, <1>3, <1>4, <1>5
<1>7. last \in Seq(Entry) /\ Len(last) = 1 /\ last[1] = messages[Len(messages)]
  BY <1>1, <1>3, <1>4
<1>8. /\ kept \in Seq(Entry)
      /\ Len(kept) = Len(messages) - mid - 2
      /\ \A i \in 1 .. Len(messages) - mid - 2 : kept[i] = messages[mid + i + 1]
  <2> HIDE DEF mid
  <2>1. mid + 2 \in Int /\ Len(messages) - 1 \in Int
    BY <1>1, <1>2
  <2>2. \A i \in mid + 2 .. Len(messages) - 1 : messages[i] \in Entry
    BY <1>1, <1>2, <1>3
  <2>3. /\ kept \in Seq(Entry)
        /\ Len(kept) = IF mid + 2 <= Len(messages) - 1
                       THEN (Len(messages) - 1) - (mid + 2) + 1 ELSE 0
        /\ \A i \in 1 .. (Len(messages) - 1) - (mid + 2) + 1 :
             kept[i] = messages[(mid + 2) + i - 1]
    BY <2>1, <2>2, SubSeqProperties
  <2>4. QED BY <2>3, <1>1, <1>2
<1> HIDE DEF mid, head, kept, last
<1>9. /\ head \o kept \in Seq(Entry)
      /\ Len(head \o kept) = Len(messages) - mid
      /\ (head \o kept)[1] = messages[1] /\ (head \o kept)[2] = Note
      /\ \A i \in 3 .. Len(messages) - mid : (head \o kept)[i] = messages[mid + i - 1]
  <2>1. /\ head \o kept \in Seq(Entry)
        /\ Len(head \o kept) = Len(head) + Len(kept)
        /\ \A i \in 1 .. Len(head) + Len(kept) :
             (head \o kept)[i] = IF i <= Len(head) THEN head[i] ELSE kept[i - Len(head)]
    BY <1>6, <1>8, ConcatProperties
  <2>2. \A i \in 3 .. Len(messages) - mid : kept[i - 2] = messages[mid + i - 1]
    <3>1. \A i \in 3 .. Len(messages) - mid :
            /\ i - 2 \in 1 .. Len(messages) - mid - 2
            /\ mid + (i - 2) + 1 = mid + i - 1
      BY <1>1, <1>2
    <3>2. QED BY <1>8, <3>1
  <2>3. QED BY <2>1, <2>2, <1>1, <1>2, <1>6, <1>8
<1>10. /\ (head \o kept) \o last \in Seq(Entry)
       /\ Len((head \o kept) \o last) = Len(messages) - mid + 1
       /\ ((head \o kept) \o last)[1] = messages[1]
       /\ ((head \o kept) \o last)[2] = Note
       /\ \A i \in 3 .. Len(messages) - mid + 1 :
            ((head \o kept) \o last)[i] = messages[mid + i - 1]
  <2> DEFINE front == head \o kept
  <2>1. /\ front \in Seq(Entry)
        /\ Len(front) = Len(messages) - mid
        /\ front[1] = messages[1] /\ front[2] = Note
        /\ \A i \in 3 .. Len(messages) - mid : front[i] = messages[mid + i - 1]
    BY <1>9
  <2> HIDE DEF front
  <2>2. /\ front \o last \in Seq(Entry)
        /\ Len(front \o last) = Len(front) + Len(last)
        /\ \A i \in 1 .. Len(front) + Len(last) :
             (front \o last)[i] = IF i <= Len(front) THEN front[i] ELSE last[i - Len(front)]
    BY <2>1, <1>7, ConcatProperties
  <2>3. (front \o last)[Len(messages) - mid + 1] = messages[mid + (Len(messages) - mid + 1) - 1]
    BY <2>1, <2>2, <1>1, <1>2, <1>7
  <2>4. \A i \in 1 .. Len(messages) - mid : (front \o last)[i] = front[i]
    BY <2>1, <2>2, <1>1, <1>2, <1>7
  <2>5. ASSUME NEW i \in 3 .. Len(messages) - mid + 1
        PROVE  (front \o last)[i] = messages[mid + i - 1]
    <3>1. CASE i = Len(messages) - mid + 1
      BY <2>3, <3>1
    <3>2. CASE i # Len(messages) - mid + 1
      <4>1. i \in 3 .. Len(messages) - mid /\ i \in 1 .. Len(messages) - mid
        BY <3>2, <1>1, <1>2
      <4>2. QED BY <4>1, <2>1, <2>4
    <3>3. QED BY <3>1, <3>2
  <2>6. 1 \in 1 .. Len(messages) - mid /\ 2 \in 1 .. Len(messages) - mid
    BY <1>1, <1>2
  <2>7. (front \o last)[1] = messages[1] /\ (front \o last)[2] = Note
    BY <2>1, <2>4, <2>6
  <2>8. Len(front \o last) = Len(messages) - mid + 1
    BY <2>1, <2>2, <1>7
  <2>9. front = head \o kept
    BY DEF front
  <2>10. QED BY <2>2, <2>5, <2>7, <2>8, <2>9, Zenon
<1>11. Compressed(messages) = (head \o kept) \o last
  BY DEF Compressed, mid, head, kept, last
<1>12. QED BY <1>2, <1>10, <1>11

LEMMA CompressedKeepsOrder ==
  ASSUME NEW messages, NEW n \in Nat \ {0}, Ordered(messages, n), Len(messages) > 4
  PROVE  Ordered(Compressed(messages), n)
<1> DEFINE out == Compressed(messages)
<1>1. messages \in Seq(Entry) /\ Len(messages) \in Nat
  BY LenProperties DEF Ordered
<1>2. PICK mid \in Nat :
        /\ 1 <= mid /\ mid + 4 <= Len(messages)
        /\ out \in Seq(Entry)
        /\ Len(out) = Len(messages) - mid + 1
        /\ out[1] = messages[1]
        /\ out[2] = Note
        /\ \A i \in 3 .. Len(messages) - mid + 1 : out[i] = messages[mid + i - 1]
  BY <1>1, CompressedProperties
<1> HIDE DEF out
<1>3. \A i \in 3 .. Len(out) : /\ mid + i - 1 \in 1 .. Len(messages)
                               /\ mid + i - 1 > 1
                               /\ out[i] = messages[mid + i - 1]
  BY <1>1, <1>2
<1>4. 1 \in 1 .. Len(messages)
  BY <1>1, <1>2
<1>5. ASSUME NEW i \in 1 .. Len(out) PROVE out[i].id < n
  <2>1. CASE i = 1
    BY <2>1, <1>2, <1>4 DEF Ordered
  <2>2. CASE i = 2
    BY <2>2, <1>2 DEF Note, Message
  <2>3. CASE i > 2
    <3>1. i \in 3 .. Len(out)
      BY <2>3, <1>1, <1>2
    <3>2. QED BY <3>1, <1>3 DEF Ordered
  <2>4. QED BY <2>1, <2>2, <2>3, <1>1, <1>2
<1>6. ASSUME NEW i \in 1 .. Len(out), NEW j \in 1 .. Len(out), i < j,
             out[i] # Note, out[j] # Note
      PROVE  out[i].id < out[j].id
  <2>1. j \in 3 .. Len(out) /\ i # 2
    BY <1>1, <1>2, <1>6
  <2>2. CASE i = 1
    <3>1. /\ out[j] = messages[mid + j - 1] /\ out[i] = messages[1]
          /\ 1 < mid + j - 1 /\ mid + j - 1 \in 1 .. Len(messages)
      BY <2>1, <2>2, <1>2, <1>3
    <3>2. QED BY <3>1, <1>4, <1>6 DEF Ordered, InOrder
  <2>3. CASE i > 2
    <3>1. /\ i \in 3 .. Len(out) /\ mid + i - 1 < mid + j - 1
      BY <2>1, <2>3, <1>1, <1>2, <1>6
    <3>2. QED BY <2>1, <3>1, <1>3, <1>6 DEF Ordered, InOrder
  <2>4. QED BY <2>1, <2>2, <2>3, <1>1, <1>2
<1>7. QED BY <1>2, <1>5, <1>6 DEF Ordered, InOrder, out

LEMMA CompressedKeepsRecent ==
  ASSUME NEW messages \in Seq(Entry), NEW b, NEW n, Recent(messages, b, n),
         Len(messages) > 4, Keep <= 4
  PROVE  Recent(Compressed(messages), b, n)
<1> DEFINE out == Compressed(messages)
<1>1. Len(messages) \in Nat /\ Keep \in Nat \ {0}
  BY LenProperties, SessionParameters
<1>2. PICK mid \in Nat :
        /\ 1 <= mid /\ mid + 4 <= Len(messages)
        /\ Len(out) = Len(messages) - mid + 1
        /\ \A i \in 3 .. Len(messages) - mid + 1 : out[i] = messages[mid + i - 1]
  BY CompressedProperties
<1> HIDE DEF out
<1>3. ASSUME NEW k \in 1 .. Keep - 1, b <= n - k
      PROVE  k <= Len(out) /\ out[Len(out) - k + 1].id = n - k
  <2>1. messages[Len(messages) - k + 1].id = n - k
    BY <1>3 DEF Recent
  <2>2. k \in 1 .. 3
    BY <1>1
  <2>3. /\ Len(out) - k + 1 \in 3 .. Len(messages) - mid + 1
        /\ mid + (Len(out) - k + 1) - 1 = Len(messages) - k + 1
        /\ k <= Len(out)
    BY <2>2, <1>1, <1>2
  <2>4. QED BY <2>1, <2>3, <1>2
<1>4. QED BY <1>3 DEF Recent, out

LEMMA OrderedLater ==
  ASSUME NEW messages, NEW n \in Nat, Ordered(messages, n)
  PROVE  Ordered(messages, n + 1)
<1>1. \A i \in 1 .. Len(messages) : messages[i].id \in Nat
  <2>1. \A i \in 1 .. Len(messages) : messages[i] \in Entry
    BY ElementOfSeq DEF Ordered
  <2>2. QED BY <2>1 DEF Entry, Note, Message
<1>2. QED BY <1>1 DEF Ordered

LEMMA OrderlyLater ==
  ASSUME NEW s, NEW n \in Nat, Orderly(s, n)
  PROVE  Orderly(s, n + 1)
BY OrderedLater DEF Orderly

-----------------------------------------------------------------------------
(* The inductive invariant.                                                *)

LEMMA InitInv == Init => SessionsInv
<1> SUFFICES ASSUME Init PROVE SessionsInv
  OBVIOUS
<1>1. Ordered(<<>>, 1)
  <2>1. <<>> \in Seq(Entry) /\ Len(<<>>) = 0
    OBVIOUS
  <2>2. QED BY <2>1 DEF Ordered, InOrder
<1>2. Recent(<<>>, 1, 1)
  BY SessionParameters DEF Recent
<1>3. MemoryInv
  BY <1>1, <1>2 DEF Init, MemoryInv, Orderly, EmptySession
<1>4. CopyInv
  BY DEF Init, CopyInv, Resting
<1>5. FileInv
  BY DEF Init, FileInv
<1>6. QED BY <1>3, <1>4, <1>5 DEF SessionsInv

\* A new message disturbs neither the session nor what is being written.
LEMMA AddKeepsMemory ==
  ASSUME SessionsInv, NEW role \in Roles, Add(role), UNCHANGED born
  PROVE  MemoryInv'
<1>1. /\ next \in Nat \ {0} /\ born \in Nat \ {0} /\ born <= next
      /\ session = [messages |-> session.messages, summary |-> session.summary]
      /\ Ordered(session.messages, next)
  BY DEF SessionsInv, MemoryInv, Orderly
<1>2. /\ next' = next + 1
      /\ session' = [messages |-> Append(session.messages, Message(next, role)),
                     summary |-> session.summary]
  BY <1>1 DEF Add
<1>3. Ordered(Append(session.messages, Message(next, role)), next + 1)
  BY <1>1, AppendKeepsOrder
<1>4. Keep <= 4 => Recent(Append(session.messages, Message(next, role)), born, next + 1)
  <2>1. session.messages \in Seq(Entry)
    BY <1>1 DEF Ordered
  <2>2. QED BY <1>1, <2>1, AppendKeepsRecent DEF SessionsInv, MemoryInv
<1>5. Orderly(session, next)'
  BY <1>2, <1>3 DEF Orderly
<1>6. (Keep <= 4 => Recent(session.messages, born, next))'
  BY <1>2, <1>4
<1>7. (next \in Nat \ {0} /\ born \in Nat \ {0} /\ born <= next)'
  BY <1>1, <1>2
<1>8. QED BY <1>5, <1>6, <1>7 DEF MemoryInv

LEMMA AddKeepsFile ==
  ASSUME SessionsInv, NEW role \in Roles, Add(role), UNCHANGED <<pending, file>>
  PROVE  FileInv'
<1>1. next \in Nat /\ next' = next + 1
  BY DEF SessionsInv, MemoryInv, Add
<1>2. QED BY <1>1, OrderlyLater DEF SessionsInv, FileInv

LEMMA AddKeepsInv ==
  ASSUME SessionsInv, NEW role \in Roles, Add(role), UNCHANGED <<born, pending, file>>,
         round' = [pc |-> round'.pc, retries |-> round'.retries, copy |-> round'.copy],
         round'.pc # "compressing"
  PROVE  SessionsInv'
<1>1. MemoryInv'
  BY AddKeepsMemory
<1>2. FileInv'
  BY AddKeepsFile
<1>3. CopyInv'
  BY DEF CopyInv
<1>4. QED BY <1>1, <1>2, <1>3 DEF SessionsInv

\* The steps of a round.
LEMMA RoundInv ==
  ASSUME SessionsInv, RoundStep
  PROVE  SessionsInv'
<1>0. round = [pc |-> round.pc, retries |-> round.retries, copy |-> round.copy]
  BY DEF SessionsInv, CopyInv
<1>1. "user" \in Roles /\ "assistant" \in Roles /\ "tool" \in Roles
  BY DEF Roles
<1>2. CASE StartRound
  <2>1. round' = [pc |-> "thinking", retries |-> 0, copy |-> <<>>]
    BY <1>2 DEF StartRound, Resting
  <2>2. Add("user") /\ UNCHANGED <<born, pending, file>>
    BY <1>2 DEF StartRound
  <2>3. QED BY <1>1, <2>1, <2>2, AddKeepsInv
<1>3. CASE CallTools
  <2>1. round' = [pc |-> "tools", retries |-> round.retries, copy |-> round.copy]
    BY <1>0, <1>3 DEF CallTools
  <2>2. Add("assistant") /\ UNCHANGED <<born, pending, file>>
    BY <1>3 DEF CallTools
  <2>3. QED BY <1>1, <2>1, <2>2, AddKeepsInv
<1>4. CASE ToolEnds
  <2>1. \/ round' = [pc |-> "thinking", retries |-> 0, copy |-> round.copy]
        \/ round' = [pc |-> "tools", retries |-> round.retries, copy |-> round.copy]
    BY <1>0, <1>4 DEF ToolEnds
  <2>2. Add("tool") /\ UNCHANGED <<born, pending, file>>
    BY <1>4 DEF ToolEnds
  <2>3. QED BY <1>1, <2>1, <2>2, AddKeepsInv
<1>5. CASE Answer
  <2>1. round' = [pc |-> "answered", retries |-> round.retries, copy |-> round.copy]
    BY <1>0, <1>5 DEF Answer
  <2>2. Add("assistant") /\ UNCHANGED <<born, pending, file>>
    BY <1>5 DEF Answer
  <2>3. QED BY <1>1, <2>1, <2>2, AddKeepsInv
<1>6. CASE ContextError
  <2>1. UNCHANGED <<session, file, pending, next, born>>
    BY <1>6 DEF ContextError
  <2>2. MemoryInv' /\ FileInv'
    BY <2>1 DEF SessionsInv, MemoryInv, FileInv
  <2>3. CASE Len(session.messages) <= 4
    <3>1. round' = [pc |-> "thinking", retries |-> round.retries + 1, copy |-> round.copy]
      BY <1>0, <1>6, <2>3 DEF ContextError
    <3>2. QED BY <2>2, <3>1 DEF SessionsInv, CopyInv
  <2>4. CASE ~(Len(session.messages) <= 4)
    <3>1. round' = [pc |-> "compressing", retries |-> round.retries,
                    copy |-> session.messages]
      BY <1>0, <1>6, <2>4 DEF ContextError
    <3>2. Ordered(session.messages, next)
      BY DEF SessionsInv, MemoryInv, Orderly
    <3>3. Len(session.messages) > 4
      BY <2>4, <3>2, LenProperties DEF Ordered
    <3>4. Keep <= 4 => Recent(session.messages, born, next)
      BY DEF SessionsInv, MemoryInv
    <3>5. CopyInv'
      BY <2>1, <3>1, <3>2, <3>3, <3>4 DEF CopyInv
    <3>6. QED BY <2>2, <3>5 DEF SessionsInv
  <2>5. QED BY <2>3, <2>4
<1>7. CASE Compress
  <2>1. UNCHANGED <<file, pending, next, born>>
    BY <1>7 DEF Compress
  <2>2. /\ session = [messages |-> session.messages, summary |-> session.summary]
        /\ next \in Nat \ {0} /\ born \in Nat \ {0} /\ born <= next
    BY DEF SessionsInv, MemoryInv, Orderly
  <2>3. /\ session' = [messages |-> Compressed(round.copy), summary |-> session.summary]
        /\ round' = [pc |-> "compressed", retries |-> round.retries + 1, copy |-> <<>>]
    BY <1>7, <2>2 DEF Compress
  <2>4. /\ Ordered(round.copy, next) /\ Len(round.copy) > 4
        /\ Keep <= 4 => Recent(round.copy, born, next)
    BY <1>7 DEF Compress, SessionsInv, CopyInv
  <2>5. Ordered(Compressed(round.copy), next)
    BY <2>2, <2>4, CompressedKeepsOrder
  <2>6. Keep <= 4 => Recent(Compressed(round.copy), born, next)
    BY <2>4, CompressedKeepsRecent DEF Ordered
  <2>7. MemoryInv'
    BY <2>1, <2>2, <2>3, <2>5, <2>6 DEF MemoryInv, Orderly
  <2>8. CopyInv'
    BY <2>3 DEF CopyInv
  <2>9. FileInv'
    BY <2>1 DEF SessionsInv, FileInv
  <2>10. QED BY <2>7, <2>8, <2>9 DEF SessionsInv
<1>8. CASE RoundFails \/ Finish
  <2>1. UNCHANGED <<session, file, pending, next, born>>
    BY <1>8 DEF RoundFails, Finish
  <2>2. round' = [pc |-> "idle", retries |-> 0, copy |-> <<>>]
    BY <1>8 DEF RoundFails, Finish, Resting
  <2>3. QED BY <2>1, <2>2 DEF SessionsInv, MemoryInv, CopyInv, FileInv
<1>9. QED BY <1>2, <1>3, <1>4, <1>5, <1>6, <1>7, <1>8 DEF RoundStep

\* The steps of the summarizer.
LEMMA SummarizerInv ==
  ASSUME SessionsInv, SummarizerStep
  PROVE  SessionsInv'
<1>1. UNCHANGED <<file, round, pending, next, born>>
  BY DEF SummarizerStep, ReadHistory, SummaryArrives, SetSummary, TruncateHistory
<1>2. FileInv' /\ CopyInv'
  BY <1>1 DEF SessionsInv, FileInv, CopyInv
<1>3. /\ session = [messages |-> session.messages, summary |-> session.summary]
      /\ Ordered(session.messages, next) /\ next \in Nat \ {0}
      /\ Keep <= 4 => Recent(session.messages, born, next)
  BY DEF SessionsInv, MemoryInv, Orderly
<1>4. CASE ReadHistory \/ SummaryArrives
  <2>1. UNCHANGED session
    BY <1>4 DEF ReadHistory, SummaryArrives
  <2>2. QED BY <1>1, <1>2, <2>1 DEF SessionsInv, MemoryInv
<1>5. CASE SetSummary
  <2>1. session' = [messages |-> session.messages, summary |-> summarizer.summary]
    BY <1>3, <1>5 DEF SetSummary
  <2>2. QED BY <1>1, <1>2, <1>3, <2>1 DEF SessionsInv, MemoryInv, Orderly
<1>6. CASE TruncateHistory
  <2>1. session' = [messages |-> Truncated(session.messages), summary |-> session.summary]
    BY <1>3, <1>6 DEF TruncateHistory
  <2>2. Ordered(Truncated(session.messages), next)
    BY <1>3, TruncatedKeepsOrder
  <2>3. Keep <= 4 => Recent(Truncated(session.messages), born, next)
    BY <1>3, TruncatedKeepsRecent DEF Ordered
  <2>4. MemoryInv'
    BY <1>1, <2>1, <2>2, <2>3 DEF SessionsInv, MemoryInv, Orderly
  <2>5. QED BY <1>2, <2>4 DEF SessionsInv
<1>7. QED BY <1>4, <1>5, <1>6 DEF SummarizerStep

\* Saving a session.
LEMMA SaveInv ==
  ASSUME SessionsInv, NEW saver \in Savers, SaveStep(saver)
  PROVE  SessionsInv'
<1>1. UNCHANGED <<session, next, born>>
  BY DEF SaveStep, Snapshot, Rename, SaveFails
<1>2. MemoryInv'
  BY <1>1 DEF SessionsInv, MemoryInv
<1>3. CopyInv'
  <2>1. CASE UNCHANGED round
    BY <1>1, <2>1 DEF SessionsInv, CopyInv
  <2>2. CASE \E pc \in {"saved", "thinking"} : round' = [round EXCEPT !.pc = pc]
    <3>1. PICK pc \in {"saved", "thinking"} : round' = [round EXCEPT !.pc = pc]
      BY <2>2
    <3>2. round' = [pc |-> pc, retries |-> round.retries, copy |-> round.copy]
      BY <3>1 DEF SessionsInv, CopyInv
    <3>3. QED BY <3>2 DEF CopyInv
  <2>3. QED BY <2>1, <2>2 DEF SaveStep, Snapshot, Rename, SaveFails, Saved
<1>4. /\ pending = [s \in Savers |-> pending[s]]
      /\ \A s \in Savers : pending[s] # Nothing => Orderly(pending[s], next)
      /\ file # Nothing => Orderly(file, next)
      /\ Orderly(session, next)
  BY DEF SessionsInv, FileInv, MemoryInv
<1>5. FileInv'
  <2>1. \/ /\ pending' = [pending EXCEPT ![saver] = session] /\ file' = file
        \/ /\ pending' = [pending EXCEPT ![saver] = Nothing]
           /\ file' = file \/ (pending[saver] # Nothing /\ file' = pending[saver])
    BY DEF SaveStep, Snapshot, Rename, SaveFails
  <2>2. file' # Nothing => Orderly(file', next)
    BY <1>4, <2>1
  <2>3. /\ pending' = [s \in Savers |-> pending'[s]]
        /\ \A s \in Savers : pending'[s] # Nothing => Orderly(pending'[s], next)
    BY <1>4, <2>1
  <2>4. QED BY <1>1, <2>2, <2>3 DEF FileInv, Orderly
<1>6. QED BY <1>2, <1>3, <1>5 DEF SessionsInv

\* A restart reads the file; what was said before it is no longer claimed to be there.
LEMMA RestartInv ==
  ASSUME SessionsInv, Restart
  PROVE  SessionsInv'
<1>1. /\ UNCHANGED <<file, next>> /\ born' = next /\ next \in Nat \ {0}
      /\ session' = IF file = Nothing THEN EmptySession ELSE file
      /\ round' = [pc |-> "idle", retries |-> 0, copy |-> <<>>]
      /\ pending' = [s \in Savers |-> Nothing]
  BY DEF Restart, SessionsInv, MemoryInv, Resting
<1>2. Orderly(EmptySession, next)
  <2>1. EmptySession = [messages |-> <<>>, summary |-> {}]
    BY DEF EmptySession
  <2>2. <<>> \in Seq(Entry) /\ Len(<<>>) = 0
    OBVIOUS
  <2>3. Ordered(<<>>, next)
    BY <2>2 DEF Ordered, InOrder
  <2>4. QED BY <2>1, <2>3 DEF Orderly
<1>3. Orderly(session', next)
  BY <1>1, <1>2 DEF SessionsInv, FileInv
<1>4. Recent(session'.messages, next, next)
  BY <1>1, SessionParameters DEF Recent
<1>5. MemoryInv'
  BY <1>1, <1>3, <1>4 DEF MemoryInv
<1>6. CopyInv'
  BY <1>1 DEF CopyInv
<1>7. FileInv'
  BY <1>1 DEF SessionsInv, FileInv
<1>8. QED BY <1>5, <1>6, <1>7 DEF SessionsInv

LEMMA InvariantHolds == Spec => []SessionsInv
<1>1. ASSUME SessionsInv, [Next]_vars PROVE SessionsInv'
  <2>1. CASE UNCHANGED vars
    BY <1>1, <2>1 DEF vars, SessionsInv, MemoryInv, CopyInv, FileInv
  <2>2. QED BY <1>1, <2>1, RoundInv, SummarizerInv, SaveInv, RestartInv DEF Next
<1>2. QED BY <1>1, InitInv, PTL DEF Spec

\* The history stays in the order in which it was said, in memory and in the file.
THEOREM OrderIsKept == Spec => []MessagesInOrder
<1>1. SessionsInv => MessagesInOrder
  BY DEF SessionsInv, MemoryInv, FileInv, Orderly, Ordered, MessagesInOrder
<1>2. QED BY <1>1, InvariantHolds, PTL

\* With no more to keep than the four messages of the code, the latest of them stay
\* in the history whatever the summarizer and compression do to each other.
THEOREM LatestMessagesStay ==
  ASSUME Keep <= 4
  PROVE  Spec => []RecentMessagesKept
<1>1. ASSUME SessionsInv PROVE RecentMessagesKept
  <2>1. /\ next \in Nat \ {0} /\ born \in Nat \ {0} /\ Keep \in Nat \ {0}
        /\ Recent(session.messages, born, next)
        /\ session.messages \in Seq(Entry)
    BY <1>1, SessionParameters DEF SessionsInv, MemoryInv, Orderly, Ordered
  <2>2. Len(session.messages) \in Nat
    BY <2>1, LenProperties
  <2>3. SUFFICES ASSUME NEW id \in born .. next - 1, id + Keep > next
                 PROVE  id \in IdsIn(session.messages)
    BY DEF RecentMessagesKept
  <2> DEFINE k == next - id
  <2>4. k \in 1 .. Keep - 1 /\ born <= next - k /\ next - k = id /\ id # 0
    BY <2>1, <2>3
  <2> HIDE DEF k
  <2>5. /\ k <= Len(session.messages)
        /\ session.messages[Len(session.messages) - k + 1].id = id
    BY <2>1, <2>4 DEF Recent
  <2>6. Len(session.messages) - k + 1 \in 1 .. Len(session.messages)
    BY <2>2, <2>4, <2>5, <2>1
  <2>7. QED BY <2>4, <2>5, <2>6 DEF IdsIn, ToSet
<1>2. QED BY <1>1, InvariantHolds, PTL

-----------------------------------------------------------------------------
(* What a summary is made of.                                              *)

\* The library's induction principles take an operator; this one takes the
\* set of the numbers of which the fact holds.
LEMMA NumberInduction ==
  ASSUME NEW T, 0 \in T, \A n \in Nat : n \in T => n + 1 \in T
  PROVE  Nat \subseteq T
<1>. SUFFICES ASSUME Nat \ T # {} PROVE FALSE
  OBVIOUS
<1>1. \A x, y \in Nat : <<x, y>> \in OpToRel(<, Nat) <=> x < y
  BY DEF OpToRel
<1>2. PICK n \in Nat \ T : \A y \in Nat \ T : ~(<<y, n>> \in OpToRel(<, Nat))
  BY NatLessThanWellFounded, WFMin
<1>3. n \in Nat /\ n \notin T
  OBVIOUS
<1>4. n # 0
  BY <1>3
<1>5. n - 1 \in Nat /\ n - 1 < n /\ (n - 1) + 1 = n
  BY <1>3, <1>4
<1>6. n - 1 \in T
  BY <1>1, <1>2, <1>3, <1>5
<1>. QED  BY <1>3, <1>5, <1>6

\* What the recursion in ValidOf defines.
Gathered(up, messages, n) ==
  up = [k \in 0 .. n |->
          IF k = 0 THEN <<>>
          ELSE IF Valid(messages[k]) THEN Append(up[k - 1], messages[k])
          ELSE up[k - 1]]

LEMMA GatheredExists ==
  ASSUME NEW messages  PROVE \A n \in Nat : \E up : Gathered(up, messages, n)
<1>. DEFINE T == {n \in Nat : \E up : Gathered(up, messages, n)}
<1>1. 0 \in T
  <2>1. Gathered([k \in 0 .. 0 |-> <<>>], messages, 0)
    BY DEF Gathered
  <2>. QED  BY <2>1
<1>2. ASSUME NEW n \in Nat, n \in T PROVE n + 1 \in T
  <2>1. PICK f : Gathered(f, messages, n)
    BY <1>2
  <2>. DEFINE g == [k \in 0 .. n + 1 |->
         IF k = n + 1
           THEN IF Valid(messages[k]) THEN Append(f[n], messages[k]) ELSE f[n]
           ELSE f[k]]
  <2>2. ASSUME NEW k \in 0 .. n + 1
        PROVE  g[k] = IF k = 0 THEN <<>>
                      ELSE IF Valid(messages[k]) THEN Append(g[k - 1], messages[k])
                      ELSE g[k - 1]
    <3>1. CASE k = 0
      BY <2>1, <3>1 DEF Gathered
    <3>2. CASE k \in 1 .. n
      <4>1. k - 1 \in 0 .. n /\ g[k - 1] = f[k - 1] /\ g[k] = f[k]
        BY <3>2
      <4>2. k \in 0 .. n /\ k # 0
        BY <3>2
      <4>3. f[k] = IF Valid(messages[k]) THEN Append(f[k - 1], messages[k]) ELSE f[k - 1]
        BY <2>1, <4>2 DEF Gathered
      <4>. QED  BY <3>2, <4>1, <4>3
    <3>3. CASE k = n + 1
      BY <3>3
    <3>. QED  BY <3>1, <3>2, <3>3
  <2>3. Gathered(g, messages, n + 1)
    BY <2>2 DEF Gathered
  <2>. QED  BY <2>3
<1>. HIDE DEF T
<1>3. Nat \subseteq T
  BY <1>1, <1>2, NumberInduction
<1>. QED  BY <1>3 DEF T

\* A truncation would take only what is covered: the summary knows it, or it
\* is a tool's result or too long for one, which nobody hides.
Spare(messages, covered) ==
  \A i \in 1 .. Len(messages) - Keep :
    \/ messages[i].id = 0 \/ messages[i].id \in covered
    \/ messages[i].role = "tool" \/ messages[i].id \in BigIds

LEMMA BatchCovers ==
  ASSUME NEW messages \in Seq(Entry), Len(messages) > Keep, NEW covered,
         IdsIn(ToSummarize(messages)) \subseteq covered
  PROVE  Spare(messages, covered)
<1>. DEFINE n == Len(messages) - Keep
<1>1. Len(messages) \in Nat /\ n \in Nat
  BY LenProperties, SessionParameters
<1>2. ToSummarize(messages) = (CHOOSE up : Gathered(up, messages, n))[n]
  BY DEF ToSummarize, ValidOf, Gathered
<1>. HIDE DEF n
<1>3. PICK up : Gathered(up, messages, n) /\ ToSummarize(messages) = up[n]
  BY <1>1, <1>2, GatheredExists
<1>. DEFINE Has(s, k) == \A i \in 1 .. k : Valid(messages[i]) =>
                           \E j \in 1 .. Len(s) : s[j] = messages[i]
            T == {k \in Nat : k <= n => up[k] \in Seq(Entry) /\ Has(up[k], k)}
<1>4. 0 \in T
  BY <1>1, <1>3, EmptySeq DEF Gathered
<1>5. ASSUME NEW k \in Nat, k \in T  PROVE k + 1 \in T
  <2>. SUFFICES ASSUME k + 1 <= n  PROVE up[k + 1] \in Seq(Entry) /\ Has(up[k + 1], k + 1)
    OBVIOUS
  <2>. DEFINE m == messages[k + 1]
  <2>1. up[k] \in Seq(Entry) /\ Has(up[k], k) /\ Len(up[k]) \in Nat
    BY <1>1, <1>5, LenProperties
  <2>2. /\ Valid(m) => up[k + 1] = Append(up[k], m)
        /\ ~Valid(m) => up[k + 1] = up[k]
    <3>1. k + 1 \in 0 .. n /\ k + 1 # 0 /\ (k + 1) - 1 = k
      BY <1>1
    <3>. QED  BY <1>3, <3>1 DEF Gathered
  <2>3. m \in Entry
    <3>1. k + 1 \in 1 .. Len(messages)
      BY <1>1, SessionParameters DEF n
    <3>. QED  BY <3>1, ElementOfSeq
  <2>4. CASE ~Valid(m)
    <3>1. ASSUME NEW i \in 1 .. k + 1, Valid(messages[i])  PROVE i \in 1 .. k
      BY <2>4, <3>1
    <3>. QED  BY <2>1, <2>2, <2>4, <3>1
  <2>5. CASE Valid(m)
    <3>. DEFINE s == Append(up[k], m)
    <3>1. /\ s \in Seq(Entry) /\ Len(s) = Len(up[k]) + 1 /\ s[Len(up[k]) + 1] = m
          /\ \A j \in 1 .. Len(up[k]) : s[j] = up[k][j]
      BY <2>1, <2>3, AppendProperties
    <3>. HIDE DEF s
    <3>2. ASSUME NEW i \in 1 .. k + 1, Valid(messages[i])
          PROVE  \E j \in 1 .. Len(s) : s[j] = messages[i]
      <4>1. CASE i = k + 1
        <5>1. Len(up[k]) + 1 \in 1 .. Len(s)
          BY <2>1, <3>1
        <5>. QED  BY <3>1, <4>1, <5>1
      <4>2. CASE i \in 1 .. k
        <5>1. PICK j \in 1 .. Len(up[k]) : up[k][j] = messages[i]
          BY <2>1, <3>2, <4>2
        <5>2. j \in 1 .. Len(s) /\ s[j] = up[k][j]
          BY <2>1, <3>1
        <5>. QED  BY <5>1, <5>2
      <4>. QED  BY <4>1, <4>2
    <3>3. up[k + 1] = s
      BY <2>2, <2>5 DEF s
    <3>. QED  BY <3>1, <3>2, <3>3
  <2>. QED  BY <2>4, <2>5
<1>. HIDE DEF T
<1>6. Nat \subseteq T
  BY <1>4, <1>5, NumberInduction
<1>7. up[n] \in Seq(Entry) /\ Has(up[n], n)
  BY <1>1, <1>6 DEF T
<1>8. ASSUME NEW i \in 1 .. n
      PROVE  \/ messages[i].id = 0 \/ messages[i].id \in covered
             \/ messages[i].role = "tool" \/ messages[i].id \in BigIds
  <2>1. messages[i] \in Entry
    <3>1. i \in 1 .. Len(messages)
      BY <1>1, SessionParameters DEF n
    <3>. QED  BY <3>1, ElementOfSeq
  <2>2. CASE Valid(messages[i])
    <3>1. PICK j \in 1 .. Len(up[n]) : up[n][j] = messages[i]
      BY <1>7, <2>2
    <3>2. messages[i].id \in {x.id : x \in ToSet(up[n])}
      BY <3>1 DEF ToSet
    <3>. QED  BY <1>3, <3>2 DEF IdsIn
  <2>3. CASE ~Valid(messages[i])
    BY <2>1, <2>3 DEF Valid, Entry, Roles, Note, Message
  <2>. QED  BY <2>2, <2>3
<1>. QED  BY <1>8 DEF Spare, n

-----------------------------------------------------------------------------
(* What the operations on histories lose.                                  *)

LEMMA IdOf ==
  ASSUME NEW messages \in Seq(Entry), NEW id
  PROVE  id \in IdsIn(messages) <=>
           id # 0 /\ \E i \in 1 .. Len(messages) : messages[i].id = id
BY LenProperties DEF IdsIn, ToSet

LEMMA AppendIds ==
  ASSUME NEW messages \in Seq(Entry), NEW n \in Nat \ {0}, NEW role \in Roles
  PROVE  IdsIn(Append(messages, Message(n, role))) = IdsIn(messages) \cup {n}
<1>. DEFINE m == Message(n, role)
            out == Append(messages, m)
<1>1. m \in Entry /\ m.id = n
  BY DEF Message, Entry
<1>2. /\ out \in Seq(Entry) /\ Len(out) = Len(messages) + 1 /\ Len(messages) \in Nat
      /\ out[Len(messages) + 1] = m
      /\ \A j \in 1 .. Len(messages) : out[j] = messages[j]
  BY <1>1, AppendProperties, LenProperties
<1>. HIDE DEF m, out
<1>3. ASSUME NEW id \in IdsIn(messages)  PROVE id \in IdsIn(out)
  <2>1. PICK i \in 1 .. Len(messages) : messages[i].id = id
    BY IdOf
  <2>2. i \in 1 .. Len(out) /\ out[i].id = id
    BY <1>2, <2>1
  <2>. QED  BY <1>2, <1>3, <2>2, IdOf
<1>4. n \in IdsIn(out)
  <2>1. Len(messages) + 1 \in 1 .. Len(out)
    BY <1>2
  <2>. QED  BY <1>1, <1>2, <2>1, IdOf
<1>5. ASSUME NEW id \in IdsIn(out)  PROVE id \in IdsIn(messages) \cup {n}
  <2>1. PICK i \in 1 .. Len(out) : out[i].id = id
    BY <1>2, IdOf
  <2>2. CASE i = Len(messages) + 1
    BY <1>1, <1>2, <2>1, <2>2
  <2>3. CASE i \in 1 .. Len(messages)
    <3>1. id # 0
      BY <1>2, <1>5, IdOf
    <3>. QED  BY <1>2, <2>1, <2>3, <3>1, IdOf
  <2>. QED  BY <1>2, <2>2, <2>3
<1>6. IdsIn(out) = IdsIn(messages) \cup {n}
  BY <1>3, <1>4, <1>5
<1>. QED  BY <1>6 DEF out, m

LEMMA TruncatedIs ==
  ASSUME NEW messages \in Seq(Entry)
  PROVE  /\ Truncated(messages) \in Seq(Entry)
         /\ ToSet(Truncated(messages)) \subseteq ToSet(messages)
         /\ \A i \in 1 .. Len(messages) :
              i > Len(messages) - Keep => messages[i] \in ToSet(Truncated(messages))
<1>. DEFINE first == Len(messages) - Keep + 1
            out == SubSeq(messages, first, Len(messages))
<1>1. Len(messages) \in Nat /\ Keep \in Nat \ {0}
  BY LenProperties, SessionParameters
<1>2. CASE Len(messages) <= Keep
  BY <1>1, <1>2, LenProperties DEF Truncated, ToSet
<1>3. CASE Len(messages) > Keep
  <2>1. first \in 1 .. Len(messages) /\ first \in Int /\ Len(messages) \in Int
    BY <1>1, <1>3
  <2>2. \A i \in first .. Len(messages) : messages[i] \in Entry
    <3>1. \A i \in 1 .. Len(messages) : messages[i] \in Entry
      BY ElementOfSeq
    <3>2. \A i \in first .. Len(messages) : i \in 1 .. Len(messages)
      BY <1>1, <2>1
    <3>. QED  BY <3>1, <3>2
  <2>3. /\ out \in Seq(Entry)
        /\ Len(out) = IF first <= Len(messages) THEN Len(messages) - first + 1 ELSE 0
        /\ \A i \in 1 .. Len(messages) - first + 1 : out[i] = messages[first + i - 1]
    BY <2>1, <2>2, SubSeqProperties
  <2>4. Truncated(messages) = out
    BY <1>1, <1>3 DEF Truncated
  <2>. HIDE DEF out
  <2>5. Len(out) = Keep /\ DOMAIN out = 1 .. Keep /\ DOMAIN messages = 1 .. Len(messages)
    BY <1>1, <2>1, <2>3, LenProperties
  <2>6. \A i \in 1 .. Keep : first + i - 1 \in 1 .. Len(messages) /\ out[i] = messages[first + i - 1]
    BY <1>1, <1>3, <2>3
  <2>7. ToSet(out) \subseteq ToSet(messages)
    BY <2>5, <2>6 DEF ToSet
  <2>8. ASSUME NEW i \in 1 .. Len(messages), i > Len(messages) - Keep
        PROVE  messages[i] \in ToSet(out)
    <3>1. PICK j \in 1 .. Keep : j = i - first + 1
      BY <1>1, <2>8
    <3>2. out[j] = messages[i]
      <4>1. first + j - 1 = i
        BY <1>1, <3>1
      <4>. QED  BY <2>6, <4>1
    <3>. QED  BY <2>5, <3>2 DEF ToSet
  <2>. QED  BY <2>3, <2>4, <2>7, <2>8
<1>. QED  BY <1>1, <1>2, <1>3

LEMMA CompressedSpares ==
  ASSUME NEW messages \in Seq(Entry), Len(messages) > 4, NEW covered,
         Spare(messages, covered)
  PROVE  Spare(Compressed(messages), covered)
<1>. DEFINE out == Compressed(messages)
<1>1. Len(messages) \in Nat /\ Keep \in Nat \ {0}
  BY LenProperties, SessionParameters
<1>2. PICK mid \in Nat :
        /\ 1 <= mid /\ mid + 4 <= Len(messages)
        /\ Len(out) = Len(messages) - mid + 1
        /\ out[1] = messages[1]
        /\ out[2] = Note
        /\ \A i \in 3 .. Len(messages) - mid + 1 : out[i] = messages[mid + i - 1]
  BY CompressedProperties
<1>. HIDE DEF out
<1>3. ASSUME NEW i \in 1 .. Len(out) - Keep
      PROVE  \/ out[i].id = 0 \/ out[i].id \in covered
             \/ out[i].role = "tool" \/ out[i].id \in BigIds
  <2>1. CASE i = 1
    <3>1. 1 \in 1 .. Len(messages) - Keep
      BY <1>1, <1>2, <1>3, <2>1
    <3>. QED  BY <1>2, <2>1, <3>1 DEF Spare
  <2>2. CASE i = 2
    BY <1>2, <2>2 DEF Note, Message
  <2>3. CASE i > 2
    <3>1. i \in 3 .. Len(messages) - mid + 1
      BY <1>1, <1>2, <2>3
    <3>2. PICK k \in 1 .. Len(messages) - Keep : k = mid + i - 1
      BY <1>1, <1>2, <2>3
    <3>3. out[i] = messages[k]
      BY <1>2, <3>1, <3>2
    <3>. QED  BY <3>2, <3>3 DEF Spare
  <2>. QED  BY <1>1, <1>2, <2>1, <2>2, <2>3
<1>. QED  BY <1>3 DEF Spare, out

-----------------------------------------------------------------------------
(* Nothing is forgotten.                                                   *)

Held(s, lost) == IdsIn(s.messages) \cup s.summary \cup lost

Remembering == summarizer.pc \in {"asking", "summarized", "truncating"}

\* What the summary covers, or will when it is there.
Covering ==
  IF summarizer.pc = "asking" THEN summarizer.summary \cup IdsIn(summarizer.batch)
  ELSE IF summarizer.pc = "summarized" THEN summarizer.summary
  ELSE session.summary

\* The copy that compression works on has all that the history has.
CopyHas ==
  round.pc = "compressing" =>
    /\ IdsIn(session.messages) \subseteq IdsIn(round.copy)
    /\ summarizer.pc = "started" => round.copy = session.messages

\* As long as no message comes, a truncation takes what is covered.
SummaryReady ==
  /\ summarizer = [pc |-> summarizer.pc, batch |-> summarizer.batch,
                   summary |-> summarizer.summary, seen |-> summarizer.seen]
  /\ Remembering => summarizer.seen \in Nat /\ summarizer.seen <= next
  /\ "parts" \notin mishaps =>
       /\ summarizer.pc \in {"asking", "summarized"} =>
            session.summary \subseteq summarizer.summary
       /\ Remembering /\ next = summarizer.seen =>
            /\ Spare(session.messages, Covering)
            /\ round.pc = "compressing" => Spare(round.copy, Covering)

KeptInv == SessionsInv /\ NothingForgotten /\ CopyHas /\ SummaryReady

LEMMA AddKeepsAll ==
  ASSUME KeptInv, NEW role \in Roles, Add(role), SessionsInv',
         UNCHANGED <<summarizer, gone, mishaps>>, round'.pc # "compressing"
  PROVE  KeptInv'
<1>. USE DEF KeptInv
<1>1. /\ next \in Nat \ {0} /\ session.messages \in Seq(Entry)
      /\ session = [messages |-> session.messages, summary |-> session.summary]
  BY DEF SessionsInv, MemoryInv, Orderly, Ordered
<1>2. /\ next' = next + 1
      /\ session'.summary = session.summary
      /\ session'.messages = Append(session.messages, Message(next, role))
  BY <1>1 DEF Add
<1>3. IdsIn(session'.messages) = IdsIn(session.messages) \cup {next}
  BY <1>1, <1>2, AppendIds
<1>4. NothingForgotten'
  <2>1. Ids' = Ids \cup {next}
    BY <1>1, <1>2 DEF Ids
  <2>2. mishaps' = mishaps /\ gone' = gone
    OBVIOUS
  <2>. QED  BY <1>2, <1>3, <2>1, <2>2 DEF NothingForgotten, Covered
<1>5. CopyHas'
  BY DEF CopyHas
<1>6. SummaryReady'
  BY <1>1, <1>2 DEF SummaryReady, Remembering
<1>. QED  BY <1>4, <1>5, <1>6

LEMMA RoundKeeps ==
  ASSUME KeptInv, RoundStep, SessionsInv'  PROVE KeptInv'
<1>. USE DEF KeptInv
<1>0. /\ round = [pc |-> round.pc, retries |-> round.retries, copy |-> round.copy]
      /\ session = [messages |-> session.messages, summary |-> session.summary]
      /\ session.messages \in Seq(Entry)
  BY DEF SessionsInv, CopyInv, MemoryInv, Orderly, Ordered
<1>1. "user" \in Roles /\ "assistant" \in Roles /\ "tool" \in Roles
  BY DEF Roles
<1>2. CASE StartRound
  BY <1>1, <1>2, AddKeepsAll DEF StartRound, Resting
<1>3. CASE CallTools
  <2>1. round'.pc = "tools"
    BY <1>0, <1>3 DEF CallTools
  <2>. QED  BY <1>1, <1>3, <2>1, AddKeepsAll DEF CallTools
<1>4. CASE ToolEnds
  <2>1. round'.pc \in {"thinking", "tools"}
    BY <1>0, <1>4 DEF ToolEnds
  <2>. QED  BY <1>1, <1>4, <2>1, AddKeepsAll DEF ToolEnds
<1>5. CASE Answer
  <2>1. round'.pc = "answered"
    BY <1>0, <1>5 DEF Answer
  <2>. QED  BY <1>1, <1>5, <2>1, AddKeepsAll DEF Answer
<1>6. CASE ContextError
  <2>1. /\ UNCHANGED <<session, summarizer, next, gone, mishaps>>
        /\ round'.pc = "compressing" => round'.copy = session.messages
    BY <1>0, <1>6 DEF ContextError
  <2>2. NothingForgotten' /\ CopyHas'
    BY <2>1 DEF NothingForgotten, Ids, CopyHas
  <2>3. Covering' = Covering /\ (Remembering' <=> Remembering)
    BY <2>1 DEF Covering, Remembering
  <2>4. SummaryReady'
    BY <2>1, <2>3 DEF SummaryReady
  <2>. QED  BY <2>2, <2>4
<1>7. CASE Compress
  <2>1. /\ round.pc = "compressing"
        /\ session'.messages = Compressed(round.copy) /\ session'.summary = session.summary
        /\ gone' = gone \cup (IdsIn(round.copy) \ IdsIn(session'.messages))
        /\ round'.pc = "compressed"
        /\ UNCHANGED <<summarizer, next, mishaps>>
    BY <1>0, <1>7 DEF Compress
  <2>2. round.copy \in Seq(Entry) /\ Len(round.copy) > 4
    BY <2>1 DEF SessionsInv, CopyInv, Ordered
  <2>3. NothingForgotten'
    <3>1. ASSUME NEW id \in IdsIn(session.messages)
          PROVE  id \in IdsIn(session'.messages) \cup gone'
      BY <2>1 DEF CopyHas
    <3>2. Ids' = Ids
      BY <2>1 DEF Ids
    <3>. QED  BY <2>1, <3>1, <3>2 DEF NothingForgotten, Covered
  <2>4. CopyHas'
    BY <2>1 DEF CopyHas
  <2>5. Covering' = Covering /\ (Remembering' <=> Remembering)
    BY <2>1 DEF Covering, Remembering
  <2>6. Spare(round.copy, Covering) => Spare(session'.messages, Covering)
    BY <2>1, <2>2, CompressedSpares
  <2>7. SummaryReady'
    BY <2>1, <2>5, <2>6 DEF SummaryReady
  <2>. QED  BY <2>3, <2>4, <2>7
<1>8. CASE RoundFails
  <2>1. round'.pc = "idle" /\ UNCHANGED <<session, summarizer, next, gone, mishaps>>
    BY <1>8 DEF RoundFails, Resting
  <2>. QED
    BY <2>1 DEF NothingForgotten, Ids, CopyHas, SummaryReady, Remembering, Covering
<1>9. CASE Finish
  <2>1. round'.pc = "idle" /\ UNCHANGED <<session, next, gone, mishaps>>
    BY <1>9 DEF Finish, Resting
  <2>2. \/ summarizer' = summarizer
        \/ /\ summarizer'.pc = "started"
           /\ summarizer' = [pc |-> summarizer'.pc, batch |-> summarizer'.batch,
                             summary |-> summarizer'.summary, seen |-> summarizer'.seen]
    <3>1. summarizer = [pc |-> summarizer.pc, batch |-> summarizer.batch,
                        summary |-> summarizer.summary, seen |-> summarizer.seen]
      BY DEF SummaryReady
    <3>2. ASSUME summarizer' = [summarizer EXCEPT !.pc = "started"]
          PROVE  summarizer' = [pc |-> "started", batch |-> summarizer.batch,
                                summary |-> summarizer.summary, seen |-> summarizer.seen]
      BY <3>1, <3>2
    <3>. QED  BY <1>9, <3>2 DEF Finish
  <2>3. NothingForgotten' /\ CopyHas'
    BY <2>1 DEF NothingForgotten, Ids, CopyHas
  <2>4. CASE summarizer' = summarizer
    <3>1. SummaryReady'
      BY <2>1, <2>4 DEF SummaryReady, Remembering, Covering
    <3>. QED  BY <2>3, <3>1
  <2>5. CASE summarizer' # summarizer
    <3>1. SummaryReady'
      BY <2>2, <2>5 DEF SummaryReady, Remembering
    <3>. QED  BY <2>3, <3>1
  <2>. QED  BY <2>4, <2>5
<1>. QED  BY <1>2, <1>3, <1>4, <1>5, <1>6, <1>7, <1>8, <1>9 DEF RoundStep

LEMMA SummarizerKeeps ==
  ASSUME KeptInv, SummarizerStep, SessionsInv'  PROVE KeptInv'
<1>. USE DEF KeptInv
<1>0. /\ session = [messages |-> session.messages, summary |-> session.summary]
      /\ session.messages \in Seq(Entry) /\ Len(session.messages) \in Nat
      /\ next \in Nat /\ Keep \in Nat
      /\ summarizer = [pc |-> summarizer.pc, batch |-> summarizer.batch,
                       summary |-> summarizer.summary, seen |-> summarizer.seen]
  BY LenProperties, SessionParameters
     DEF SessionsInv, MemoryInv, Orderly, Ordered, SummaryReady
<1>1. UNCHANGED <<round, next>> /\ Ids' = Ids
  BY DEF SummarizerStep, ReadHistory, SummaryArrives, SetSummary, TruncateHistory, Ids
<1>2. CASE ReadHistory
  <2>1. /\ summarizer.pc = "started" /\ UNCHANGED <<session, gone, mishaps>>
        /\ \/ summarizer' = Sleeping
           \/ /\ Len(session.messages) > Keep
              /\ summarizer' = [pc |-> "asking", batch |-> ToSummarize(session.messages),
                                summary |-> session.summary, seen |-> next]
    BY <1>0, <1>2 DEF ReadHistory
  <2>2. NothingForgotten'
    BY <1>1, <2>1 DEF NothingForgotten
  <2>3. CASE summarizer' = Sleeping
    BY <1>1, <2>1, <2>2, <2>3 DEF CopyHas, SummaryReady, Remembering, Sleeping
  <2>4. CASE summarizer' # Sleeping
    <3>1. /\ Len(session.messages) > Keep
          /\ summarizer'.pc = "asking" /\ summarizer'.batch = ToSummarize(session.messages)
          /\ summarizer'.summary = session.summary /\ summarizer'.seen = next
          /\ summarizer' = [pc |-> summarizer'.pc, batch |-> summarizer'.batch,
                            summary |-> summarizer'.summary, seen |-> summarizer'.seen]
      BY <2>1, <2>4
    <3>2. Covering' = session.summary \cup IdsIn(ToSummarize(session.messages))
      BY <3>1 DEF Covering
    <3>3. Spare(session.messages, Covering')
      BY <1>0, <3>1, <3>2, BatchCovers
    <3>4. CopyHas'
      BY <1>1, <2>1, <3>1 DEF CopyHas
    <3>5. round.pc = "compressing" => round.copy = session.messages
      BY <2>1 DEF CopyHas
    <3>6. SummaryReady'
      BY <1>0, <1>1, <2>1, <3>1, <3>3, <3>5 DEF SummaryReady
    <3>. QED  BY <2>2, <3>4, <3>6
  <2>. QED  BY <2>3, <2>4
<1>3. CASE SummaryArrives
  <2>1. PICK summary \in Summaries(summarizer.batch, summarizer.summary) :
          summarizer' = IF summary = Nothing THEN Sleeping
                        ELSE [summarizer EXCEPT !.pc = "summarized", !.batch = <<>>,
                                                !.summary = summary]
    BY <1>3 DEF SummaryArrives
  <2>2. /\ summarizer.pc = "asking" /\ UNCHANGED <<session, gone>>
        /\ mishaps' = IF InParts(summarizer.batch) THEN mishaps \cup {"parts"} ELSE mishaps
    BY <1>3 DEF SummaryArrives
  <2>3. NothingForgotten'
    BY <1>1, <2>2 DEF NothingForgotten
  <2>4. CASE summary = Nothing
    <3>1. summarizer' = Sleeping
      BY <2>1, <2>4
    <3>. QED
      BY <1>1, <2>2, <2>3, <3>1 DEF CopyHas, SummaryReady, Remembering, Sleeping
  <2>5. CASE summary # Nothing
    <3>1. summarizer' = [pc |-> "summarized", batch |-> <<>>, summary |-> summary,
                         seen |-> summarizer.seen]
      BY <1>0, <2>1, <2>5
    <3>2. /\ summarizer'.pc = "summarized" /\ summarizer'.summary = summary
          /\ summarizer'.seen = summarizer.seen
          /\ summarizer' = [pc |-> summarizer'.pc, batch |-> summarizer'.batch,
                            summary |-> summarizer'.summary, seen |-> summarizer'.seen]
      BY <3>1
    <3>3. CopyHas'
      BY <1>1, <2>2, <3>2 DEF CopyHas
    <3>4. ASSUME "parts" \notin mishaps'
          PROVE  "parts" \notin mishaps /\ summary = Covering
      <4>1. ~InParts(summarizer.batch) /\ "parts" \notin mishaps
        BY <2>2, <3>4
      <4>. QED  BY <2>2, <2>5, <4>1 DEF Summaries, Covering
    <3>5. Covering' = summary
      BY <3>2 DEF Covering
    <3>6. ASSUME "parts" \notin mishaps'
          PROVE  session.summary \subseteq summary /\ Covering' = Covering
      BY <2>2, <3>4, <3>5, <3>6 DEF SummaryReady, Covering
    <3>7. SummaryReady'
      BY <1>1, <2>2, <3>2, <3>4, <3>6 DEF SummaryReady, Remembering
    <3>. QED  BY <2>3, <3>3, <3>7
  <2>. QED  BY <2>4, <2>5
<1>4. CASE SetSummary
  <2>1. /\ summarizer.pc = "summarized" /\ UNCHANGED <<gone, mishaps>>
        /\ session'.summary = summarizer.summary /\ session'.messages = session.messages
        /\ summarizer' = [pc |-> "truncating", batch |-> summarizer.batch, summary |-> {},
                          seen |-> summarizer.seen]
    BY <1>0, <1>4 DEF SetSummary
  <2>2. /\ summarizer'.pc = "truncating" /\ summarizer'.seen = summarizer.seen
        /\ summarizer' = [pc |-> summarizer'.pc, batch |-> summarizer'.batch,
                          summary |-> summarizer'.summary, seen |-> summarizer'.seen]
    BY <2>1
  <2>3. NothingForgotten'
    <3>1. "parts" \notin mishaps => session.summary \subseteq session'.summary
      BY <2>1 DEF SummaryReady
    <3>. QED  BY <1>1, <2>1, <3>1 DEF NothingForgotten, Covered
  <2>4. CopyHas'
    BY <1>1, <2>1, <2>2 DEF CopyHas
  <2>5. Covering' = Covering
    BY <2>1, <2>2 DEF Covering
  <2>6. SummaryReady'
    BY <1>1, <2>1, <2>2, <2>5 DEF SummaryReady, Remembering
  <2>. QED  BY <2>3, <2>4, <2>6
<1>5. CASE TruncateHistory
  <2>. DEFINE kept == Truncated(session.messages)
  <2>1. /\ summarizer.pc = "truncating"
        /\ session'.messages = kept /\ session'.summary = session.summary
        /\ gone' = gone \cup {m.id : m \in {d \in ToSet(session.messages) \ ToSet(kept) :
                                              d.role = "tool" \/ d.id \in BigIds}}
        /\ mishaps' = IF next = summarizer.seen THEN mishaps ELSE mishaps \cup {"race"}
        /\ summarizer' = [pc |-> "truncated", batch |-> summarizer.batch,
                          summary |-> summarizer.summary, seen |-> 0]
    BY <1>0, <1>5 DEF TruncateHistory
  <2>. HIDE DEF kept
  <2>2. /\ kept \in Seq(Entry) /\ ToSet(kept) \subseteq ToSet(session.messages)
        /\ \A i \in 1 .. Len(session.messages) :
             i > Len(session.messages) - Keep => session.messages[i] \in ToSet(kept)
    BY <1>0, TruncatedIs DEF kept
  <2>3. IdsIn(kept) \subseteq IdsIn(session.messages)
    BY <2>2 DEF IdsIn
  <2>4. CopyHas'
    BY <1>1, <2>1, <2>3 DEF CopyHas
  <2>5. SummaryReady'
    BY <2>1 DEF SummaryReady, Remembering
  <2>6. ASSUME mishaps' \cap {"race", "parts"} = {}, NEW id \in IdsIn(session.messages)
        PROVE  id \in Held(session', gone')
    <3>1. PICK i \in 1 .. Len(session.messages) : session.messages[i].id = id /\ id # 0
      BY <1>0, <2>6, IdOf
    <3>. DEFINE m == session.messages[i]
    <3>2. m \in ToSet(session.messages)
      BY <1>0, <3>1, LenProperties DEF ToSet
    <3>3. CASE m \in ToSet(kept)
      BY <2>1, <3>1, <3>3 DEF Held, IdsIn
    <3>4. CASE m \notin ToSet(kept)
      <4>1. i \in 1 .. Len(session.messages) - Keep
        BY <1>0, <2>2, <3>4
      <4>2. Spare(session.messages, session.summary)
        BY <2>1, <2>6 DEF SummaryReady, Remembering, Covering
      <4>3. m.id \in session.summary \/ m.role = "tool" \/ m.id \in BigIds
        BY <3>1, <4>1, <4>2 DEF Spare
      <4>. HIDE DEF m
      <4>4. m.id = id
        BY <3>1 DEF m
      <4>. QED  BY <2>1, <3>2, <3>4, <4>3, <4>4 DEF Held
    <3>. QED  BY <3>3, <3>4
  <2>7. NothingForgotten'
    <3>. SUFFICES ASSUME mishaps' \cap {"race", "parts"} = {}  PROVE Ids' \subseteq Held(session', gone')
      BY DEF NothingForgotten, Covered, Held
    <3>1. mishaps \cap {"race", "parts"} = {}
      BY <2>1
    <3>2. Ids \subseteq Held(session, gone)
      BY <3>1 DEF NothingForgotten, Covered, Held
    <3>3. session.summary \cup gone \subseteq Held(session', gone')
      BY <2>1 DEF Held
    <3>. QED  BY <1>1, <2>6, <3>2, <3>3 DEF Held
  <2>. QED  BY <2>4, <2>5, <2>7
<1>. QED  BY <1>2, <1>3, <1>4, <1>5 DEF SummarizerStep

\* What a save leaves as it was.
LEMMA SaveLeaves ==
  ASSUME SessionsInv, SummaryReady, NEW saver \in Savers, SaveStep(saver)
  PROVE  /\ UNCHANGED <<session, next, gone, born, mishaps>>
         /\ round'.pc = "compressing" => round' = round
         /\ summarizer' = summarizer \/ summarizer' = Sleeping
<1>1. /\ UNCHANGED <<session, next, gone, born, mishaps>>
      /\ UNCHANGED <<round, summarizer>> \/ Saved(saver)
  BY DEF SaveStep, Snapshot, Rename, SaveFails
<1>2. round = [pc |-> round.pc, retries |-> round.retries, copy |-> round.copy]
  BY DEF SessionsInv, CopyInv
<1>3. ASSUME Saved(saver)
      PROVE  /\ round' = round \/ round'.pc \in {"saved", "thinking"}
             /\ summarizer' = summarizer \/ summarizer' = Sleeping
  <2>1. CASE saver = "round"
    <3>1. /\ round' = [round EXCEPT !.pc = IF round.pc = "answered" THEN "saved" ELSE "thinking"]
          /\ summarizer' = summarizer
      BY <1>3, <2>1 DEF Saved
    <3>2. round'.pc \in {"saved", "thinking"}
      BY <1>2, <3>1
    <3>. QED  BY <3>1, <3>2
  <2>2. CASE saver # "round"
    BY <1>3, <2>2 DEF Saved
  <2>. QED  BY <2>1, <2>2
<1>. QED  BY <1>1, <1>3

LEMMA SaveKeeps ==
  ASSUME KeptInv, NEW saver \in Savers, SaveStep(saver), SessionsInv'  PROVE KeptInv'
<1>. USE DEF KeptInv
<1>1. /\ UNCHANGED <<session, next, gone, mishaps>>
      /\ round'.pc = "compressing" => round' = round
      /\ summarizer' = summarizer \/ summarizer' = Sleeping
  BY SaveLeaves
<1>2. NothingForgotten'
  BY <1>1 DEF NothingForgotten, Ids
<1>3. CopyHas'
  BY <1>1 DEF CopyHas, Sleeping
<1>4. SummaryReady'
  <2>1. CASE summarizer' = Sleeping
    BY <2>1 DEF SummaryReady, Remembering, Sleeping
  <2>2. CASE summarizer' = summarizer
    <3>1. Covering' = Covering /\ (Remembering' <=> Remembering)
      BY <1>1, <2>2 DEF Covering, Remembering
    <3>. QED  BY <1>1, <2>2, <3>1 DEF SummaryReady
  <2>. QED  BY <1>1, <2>1, <2>2
<1>. QED  BY <1>2, <1>3, <1>4

LEMMA RestartKeeps ==
  ASSUME KeptInv, Restart, SessionsInv'  PROVE KeptInv'
<1>. USE DEF KeptInv
<1>1. /\ UNCHANGED <<next, file>> /\ Ids' = Ids
      /\ round'.pc = "idle" /\ summarizer' = Sleeping
      /\ mishaps' = mishaps \cup {"crash"}
      /\ gone' = gone \cup ((IdsIn(session.messages) \cup session.summary)
                              \ (IdsIn(session'.messages) \cup session'.summary))
  BY DEF Restart, Resting, Ids, Covered
<1>2. NothingForgotten'
  <2>1. mishaps' \cap {"race", "parts"} = {} => mishaps \cap {"race", "parts"} = {}
    BY <1>1
  <2>. QED  BY <1>1, <2>1 DEF NothingForgotten, Covered
<1>3. CopyHas' /\ SummaryReady'
  BY <1>1 DEF CopyHas, SummaryReady, Remembering, Sleeping
<1>. QED  BY <1>2, <1>3

LEMMA KeptInit == Init => KeptInv
<1>. SUFFICES ASSUME Init  PROVE KeptInv
  OBVIOUS
<1>1. SessionsInv
  BY InitInv
<1>2. NothingForgotten
  BY DEF Init, NothingForgotten, Ids
<1>3. CopyHas /\ SummaryReady
  BY DEF Init, CopyHas, SummaryReady, Remembering, Resting, Sleeping
<1>. QED  BY <1>1, <1>2, <1>3 DEF KeptInv

LEMMA StepsKeep ==
  ASSUME KeptInv, [Next]_vars, SessionsInv'  PROVE KeptInv'
<1>1. CASE UNCHANGED vars
  BY <1>1 DEF KeptInv, vars, NothingForgotten, Ids, CopyHas, SummaryReady, Remembering, Covering
<1>. QED  BY <1>1, RoundKeeps, SummarizerKeeps, SaveKeeps, RestartKeeps DEF Next

-----------------------------------------------------------------------------
(* What is on disk.                                                        *)

\* Answers that were handed out, or are about to be.
Given == replied \cup IF round.pc = "saved" THEN {next - 1} ELSE {}

\* Such answers are in the file, and in the latest snapshot, which may replace it.
Fresh ==
  \A id \in Given : /\ ~stale => file # Nothing /\ id \in Covered(file)
                    /\ pending[newest] # Nothing => id \in Covered(pending[newest])

\* The answer is the last message of the session until the round has ended.
AnswerLast ==
  round.pc \in {"answered", "saved"} =>
    /\ next - 1 # 0
    /\ session.messages # <<>>
    /\ session.messages[Len(session.messages)].id = next - 1

\* The session in memory has the answers that Fresh is about, and so has the snapshot of
\* the round on its way to the file, or one that the summarizer has taken after it.
DiskInv ==
  /\ newest \in Savers
  /\ Given \subseteq Covered(session)
  /\ AnswerLast
  /\ Fresh
  /\ pending["round"] # Nothing => round.pc \in {"compressed", "answered"}
  /\ round.pc = "answered" /\ pending["round"] # Nothing /\ pending[newest] # Nothing =>
       next - 1 \in Covered(pending[newest])

\* TruncateHistory keeps the last message.
LEMMA TruncatedKeepsLast ==
  ASSUME NEW messages \in Seq(Entry), messages # <<>>
  PROVE  /\ Truncated(messages) # <<>>
         /\ Truncated(messages)[Len(Truncated(messages))] = messages[Len(messages)]
<1>. DEFINE first == Len(messages) - Keep + 1
            out == SubSeq(messages, first, Len(messages))
<1>1. Len(messages) \in Nat /\ Keep \in Nat \ {0}
  BY LenProperties, SessionParameters
<1>2. CASE Len(messages) <= Keep
  BY <1>2 DEF Truncated
<1>3. CASE Len(messages) > Keep
  <2>1. first \in 1 .. Len(messages) /\ first \in Int /\ Len(messages) \in Int
    BY <1>1, <1>3
  <2>2. \A i \in first .. Len(messages) : messages[i] \in Entry
    <3>1. \A i \in 1 .. Len(messages) : messages[i] \in Entry
      BY ElementOfSeq
    <3>2. \A i \in first .. Len(messages) : i \in 1 .. Len(messages)
      BY <1>1, <2>1
    <3>. QED  BY <3>1, <3>2
  <2>3. /\ Len(out) = IF first <= Len(messages) THEN Len(messages) - first + 1 ELSE 0
        /\ \A i \in 1 .. Len(messages) - first + 1 : out[i] = messages[first + i - 1]
    BY <2>1, <2>2, SubSeqProperties
  <2>4. Truncated(messages) = out
    BY <1>1, <1>3 DEF Truncated
  <2>. HIDE DEF out
  <2>5. Len(out) = Keep /\ Keep \in 1 .. Len(messages) - first + 1
        /\ first + Keep - 1 = Len(messages)
    BY <1>1, <2>1, <2>3
  <2>6. out[Len(out)] = messages[Len(messages)]
    BY <2>3, <2>5
  <2>7. out # <<>>
    BY <1>1, <2>5
  <2>. QED  BY <2>4, <2>6, <2>7
<1>. QED  BY <1>1, <1>2, <1>3

\* AddFullMessage puts the message at the end.
LEMMA AddLast ==
  ASSUME SessionsInv, NEW role \in Roles, Add(role)
  PROVE  /\ next' = next + 1
         /\ session'.messages # <<>>
         /\ session'.messages[Len(session'.messages)].id = next
         /\ Covered(session') = Covered(session) \cup {next}
<1>. DEFINE messages == session.messages
            out == Append(messages, Message(next, role))
<1>1. /\ messages \in Seq(Entry) /\ next \in Nat \ {0}
      /\ session = [messages |-> session.messages, summary |-> session.summary]
  BY DEF SessionsInv, MemoryInv, Orderly, Ordered
<1>2. session'.messages = out /\ session'.summary = session.summary /\ next' = next + 1
  BY <1>1 DEF Add
<1>3. Message(next, role) \in Entry /\ Message(next, role).id = next
  BY <1>1 DEF Message, Entry
<1>4. Len(out) = Len(messages) + 1 /\ out[Len(messages) + 1] = Message(next, role)
  BY <1>1, <1>3, AppendProperties
<1>5. out # <<>> /\ out[Len(out)].id = next
  <2>1. Len(messages) \in Nat
    BY <1>1, LenProperties
  <2>. QED  BY <1>3, <1>4, <2>1
<1>6. IdsIn(out) = IdsIn(messages) \cup {next}
  BY <1>1, AppendIds
<1>. QED  BY <1>2, <1>5, <1>6 DEF Covered

\* The answer that waits to be saved, or to go out, is covered in memory.
LEMMA LastCovered ==
  ASSUME NEW s, s.messages \in Seq(Entry), s.messages # <<>>,
         NEW id, id # 0, s.messages[Len(s.messages)].id = id
  PROVE  id \in Covered(s)
<1>1. Len(s.messages) \in 1 .. Len(s.messages)
  BY LenProperties
<1>. QED  BY <1>1, IdOf DEF Covered

LEMMA AnswerCovered ==
  ASSUME SessionsInv, AnswerLast, round.pc \in {"answered", "saved"}
  PROVE  next - 1 \in Covered(session)
<1>1. session.messages \in Seq(Entry)
  BY DEF SessionsInv, MemoryInv, Orderly, Ordered
<1>. QED  BY <1>1, LastCovered DEF AnswerLast

\* The steps that save nothing.
LEMMA DiskStays ==
  ASSUME SessionsInv, DiskInv, UNCHANGED <<file, pending, newest, stale>>,
         AnswerLast', Given' \subseteq Covered(session)',
         Given' \subseteq Given,
         pending["round"] # Nothing =>
           /\ round'.pc \in {"compressed", "answered"}
           /\ round'.pc = "answered" => round.pc = "answered" /\ next' = next
  PROVE  DiskInv'
<1>1. Fresh'
  BY DEF DiskInv, Fresh
<1>2. round'.pc = "answered" /\ pending["round"] # Nothing /\ pending[newest] # Nothing =>
        next' - 1 \in Covered(pending[newest])
  BY DEF DiskInv
<1>. QED  BY <1>1, <1>2 DEF DiskInv, Covered

\* ... those of the round among them, which add a message at most.
LEMMA RoundStays ==
  ASSUME SessionsInv, DiskInv, UNCHANGED <<file, pending, newest, stale, replied>>,
         round.pc \in {"idle", "thinking", "tools"}, round'.pc # "saved",
         AnswerLast', Covered(session) \subseteq Covered(session')
  PROVE  DiskInv'
<1>1. pending["round"] = Nothing
  BY DEF DiskInv
<1>2. Given' = replied /\ replied \subseteq Given
  BY DEF Given
<1>3. Covered(session)' = Covered(session')
  BY DEF Covered, IdsIn
<1>. QED  BY <1>1, <1>2, <1>3, DiskStays DEF DiskInv

LEMMA RoundKeepsDisk ==
  ASSUME SessionsInv, DiskInv, RoundStep  PROVE DiskInv'
<1>0. /\ round = [pc |-> round.pc, retries |-> round.retries, copy |-> round.copy]
      /\ next \in Nat \ {0}
      /\ pending["round"] # Nothing => round.pc \in {"compressed", "answered"}
  BY DEF SessionsInv, CopyInv, MemoryInv, DiskInv
<1>1. CASE StartRound
  <2>1. round.pc = "idle" /\ round'.pc = "thinking" /\ Add("user")
    BY <1>1 DEF StartRound, Resting
  <2>2. Covered(session) \subseteq Covered(session')
    BY <2>1, AddLast DEF Roles
  <2>. QED  BY <1>1, <2>1, <2>2, RoundStays DEF StartRound, AnswerLast
<1>2. CASE CallTools
  <2>1. round.pc = "thinking" /\ round'.pc = "tools" /\ Add("assistant")
    BY <1>0, <1>2 DEF CallTools
  <2>2. Covered(session) \subseteq Covered(session')
    BY <2>1, AddLast DEF Roles
  <2>. QED  BY <1>2, <2>1, <2>2, RoundStays DEF CallTools, AnswerLast
<1>3. CASE ToolEnds
  <2>1. round.pc = "tools" /\ round'.pc \in {"thinking", "tools"} /\ Add("tool")
    BY <1>0, <1>3 DEF ToolEnds
  <2>2. Covered(session) \subseteq Covered(session')
    BY <2>1, AddLast DEF Roles
  <2>. QED  BY <1>3, <2>1, <2>2, RoundStays DEF ToolEnds, AnswerLast
<1>4. CASE Answer
  <2>1. round.pc = "thinking" /\ round'.pc = "answered" /\ Add("assistant")
    BY <1>0, <1>4 DEF Answer
  <2>2. /\ Covered(session) \subseteq Covered(session')
        /\ next' = next + 1
        /\ session'.messages # <<>>
        /\ session'.messages[Len(session'.messages)].id = next
    BY <2>1, AddLast DEF Roles
  <2>3. AnswerLast'
    BY <1>0, <2>2 DEF AnswerLast
  <2>. QED  BY <1>4, <2>1, <2>2, <2>3, RoundStays DEF Answer
<1>5. CASE ContextError
  <2>1. /\ round.pc = "thinking" /\ round'.pc \in {"thinking", "compressing"}
        /\ session' = session
    BY <1>0, <1>5 DEF ContextError
  <2>. QED  BY <1>5, <2>1, RoundStays DEF ContextError, AnswerLast
<1>6. CASE Compress
  <2>1. /\ round.pc = "compressing" /\ round'.pc = "compressed"
        /\ replied' = replied \cap Covered(session')
        /\ UNCHANGED <<file, pending, newest, stale>>
    BY <1>6 DEF Compress
  <2>2. Given' = replied \cap Covered(session') /\ replied \subseteq Given
    BY <2>1 DEF Given
  <2>3. Covered(session)' = Covered(session')
    BY DEF Covered, IdsIn
  <2>4. AnswerLast'
    BY <2>1 DEF AnswerLast
  <2>. QED  BY <1>0, <2>1, <2>2, <2>3, <2>4, DiskStays
<1>7. CASE RoundFails
  <2>1. round.pc = "thinking" /\ round'.pc = "idle" /\ session' = session
    BY <1>7 DEF RoundFails, Resting
  <2>. QED  BY <1>7, <2>1, RoundStays DEF RoundFails, AnswerLast
<1>8. CASE Finish
  <2>1. /\ round.pc = "saved" /\ round'.pc = "idle" /\ replied' = replied \cup {next - 1}
        /\ UNCHANGED <<session, file, pending, newest, stale>>
    BY <1>8 DEF Finish, Resting
  <2>2. Given' = Given
    BY <2>1 DEF Given
  <2>3. AnswerLast'
    BY <2>1 DEF AnswerLast
  <2>4. Covered(session)' = Covered(session)
    BY <2>1 DEF Covered, IdsIn
  <2>. QED  BY <1>0, <2>1, <2>2, <2>3, <2>4, DiskStays DEF DiskInv
<1>. QED  BY <1>1, <1>2, <1>3, <1>4, <1>5, <1>6, <1>7, <1>8 DEF RoundStep

LEMMA SummarizerKeepsDisk ==
  ASSUME SessionsInv, DiskInv, SummarizerStep, SessionsInv'  PROVE DiskInv'
<1>1. UNCHANGED <<file, round, pending, next, newest, stale>>
  BY DEF SummarizerStep, ReadHistory, SummaryArrives, SetSummary, TruncateHistory
<1>2. pending["round"] # Nothing => round.pc \in {"compressed", "answered"}
  BY DEF DiskInv
<1>3. Covered(session)' = Covered(session')
  BY DEF Covered, IdsIn
<1>4. CASE ReadHistory \/ SummaryArrives
  <2>1. UNCHANGED <<session, replied>>
    BY <1>4 DEF ReadHistory, SummaryArrives
  <2>2. AnswerLast' /\ Given' = Given
    BY <1>1, <2>1 DEF DiskInv, AnswerLast, Given
  <2>. QED  BY <1>1, <1>2, <1>3, <2>1, <2>2, DiskStays DEF DiskInv
<1>5. CASE SetSummary \/ TruncateHistory
  <2>1. replied' = replied \cap Covered(session')
    BY <1>5 DEF SetSummary, TruncateHistory
  <2>2. AnswerLast'
    <3>1. /\ session.messages \in Seq(Entry)
          /\ session = [messages |-> session.messages, summary |-> session.summary]
      BY DEF SessionsInv, MemoryInv, Orderly, Ordered
    <3>2. CASE SetSummary
      <4>1. session'.messages = session.messages
        BY <3>1, <3>2 DEF SetSummary
      <4>. QED  BY <1>1, <4>1 DEF DiskInv, AnswerLast
    <3>3. CASE TruncateHistory
      <4>1. session'.messages = Truncated(session.messages)
        BY <3>1, <3>3 DEF TruncateHistory
      <4>2. CASE round.pc \in {"answered", "saved"}
        <5>1. /\ next - 1 # 0 /\ session.messages # <<>>
              /\ session.messages[Len(session.messages)].id = next - 1
          BY <4>2 DEF DiskInv, AnswerLast
        <5>2. /\ Truncated(session.messages) # <<>>
              /\ Truncated(session.messages)[Len(Truncated(session.messages))]
                   = session.messages[Len(session.messages)]
          BY <3>1, <5>1, TruncatedKeepsLast
        <5>. QED  BY <1>1, <4>1, <5>1, <5>2 DEF AnswerLast
      <4>3. CASE round.pc \notin {"answered", "saved"}
        BY <1>1, <4>3 DEF AnswerLast
      <4>. QED  BY <4>2, <4>3
    <3>. QED  BY <1>5, <3>2, <3>3
  <2>3. Given' \subseteq Given
    BY <1>1, <2>1 DEF Given
  <2>4. Given' \subseteq Covered(session')
    <3>1. session'.messages \in Seq(Entry)
      BY DEF SessionsInv, MemoryInv, Orderly, Ordered
    <3>2. round'.pc = "saved" => next' - 1 \in Covered(session')
      BY <2>2, <3>1, LastCovered DEF AnswerLast
    <3>. QED  BY <2>1, <3>2 DEF Given
  <2>. QED  BY <1>1, <1>2, <1>3, <2>2, <2>3, <2>4, DiskStays
<1>. QED  BY <1>4, <1>5 DEF SummarizerStep

LEMMA SaveKeepsDisk ==
  ASSUME SessionsInv, DiskInv, NEW saver \in Savers, SaveStep(saver)
  PROVE  DiskInv'
<1>0. /\ round = [pc |-> round.pc, retries |-> round.retries, copy |-> round.copy]
      /\ pending = [s \in Savers |-> pending[s]]
      /\ next \in Nat \ {0} /\ Savers = {"round", "summarizer"}
  BY DEF SessionsInv, CopyInv, FileInv, MemoryInv, Savers
<1>1. /\ UNCHANGED <<session, next, replied>>
      /\ Covered(session)' = Covered(session)
  BY DEF SaveStep, Snapshot, Rename, SaveFails, Covered, IdsIn
<1>2. CASE Snapshot(saver)
  <2>1. /\ Wants(saver) /\ newest' = saver
        /\ pending' = [s \in Savers |-> IF s = saver THEN session ELSE pending[s]]
        /\ UNCHANGED <<file, round, stale>>
    BY <1>0, <1>2 DEF Snapshot
  <2>2. Given' = Given /\ AnswerLast'
    BY <1>1, <2>1 DEF DiskInv, Given, AnswerLast
  <2>3. pending'[newest'] = session
    BY <1>0, <2>1
  <2>4. Fresh'
    BY <2>1, <2>2, <2>3 DEF DiskInv, Fresh, Covered, IdsIn
  <2>5. pending'["round"] # Nothing => round'.pc \in {"compressed", "answered"}
    BY <1>0, <2>1 DEF DiskInv, Wants
  <2>6. round.pc = "answered" => next - 1 \in Covered(session)
    BY AnswerCovered DEF DiskInv
  <2>. QED  BY <1>1, <2>1, <2>2, <2>3, <2>4, <2>5, <2>6 DEF DiskInv, Covered, IdsIn
<1>3. CASE Rename(saver) \/ SaveFails(saver)
  <2>1. /\ pending[saver] # Nothing /\ newest' = newest
        /\ pending' = [s \in Savers |-> IF s = saver THEN Nothing ELSE pending[s]]
        /\ Saved(saver)
        /\ \/ file' = pending[saver] /\ stale' = (saver # newest)
           \/ stale' = TRUE
    BY <1>0, <1>3 DEF Rename, SaveFails
  <2>2. \/ /\ saver = "round" /\ round.pc = "answered" /\ round'.pc = "saved"
        \/ /\ saver = "round" /\ round.pc = "compressed" /\ round'.pc = "thinking"
        \/ /\ saver = "summarizer" /\ round' = round
    BY <1>0, <2>1 DEF Saved, DiskInv
  <2>3. AnswerLast'
    BY <1>1, <2>2 DEF DiskInv, AnswerLast
  <2>4. \A id \in Given' :
          \/ id \in Given
          \/ saver = "round" /\ round.pc = "answered" /\ id = next - 1
    BY <1>1, <2>2 DEF Given
  <2>5. Given' \subseteq Covered(session)
    BY <2>4, AnswerCovered DEF DiskInv
  <2>6. ASSUME NEW id \in Given', pending[newest] # Nothing
        PROVE  id \in Covered(pending[newest])
    BY <2>1, <2>4, <2>6 DEF DiskInv, Fresh
  <2>7. Fresh'
    <3>1. ASSUME NEW id \in Given', ~stale'
          PROVE  file' # Nothing /\ id \in Covered(file')
      BY <2>1, <2>6, <3>1
    <3>2. pending'[newest'] # Nothing => pending'[newest'] = pending[newest]
      BY <1>0, <2>1 DEF DiskInv
    <3>3. ASSUME NEW id \in Given', pending'[newest'] # Nothing
          PROVE  id \in Covered(pending'[newest'])
      BY <2>6, <3>2, <3>3
    <3>. QED  BY <3>1, <3>3 DEF Fresh, Covered, IdsIn
  <2>8. pending'["round"] # Nothing => /\ pending'["round"] = pending["round"]
                                       /\ round' = round
    BY <1>0, <2>1, <2>2
  <2>9. pending'[newest'] # Nothing => pending'[newest'] = pending[newest]
    BY <1>0, <2>1 DEF DiskInv
  <2>. QED  BY <1>1, <2>1, <2>3, <2>5, <2>7, <2>8, <2>9 DEF DiskInv, Covered, IdsIn
<1>. QED  BY <1>2, <1>3 DEF SaveStep

LEMMA RestartKeepsDisk ==
  ASSUME DiskInv, Restart  PROVE DiskInv'
<1>1. /\ round'.pc = "idle" /\ stale' = FALSE
      /\ session' = IF file = Nothing THEN EmptySession ELSE file
      /\ replied' = replied \cap Covered(session')
      /\ \A s \in Savers : pending'[s] = Nothing
      /\ UNCHANGED <<file, newest>>
  BY DEF Restart, Resting
<1>2. Given' = replied'
  BY <1>1 DEF Given
<1>3. Covered(EmptySession) = {}
  BY DEF Covered, IdsIn, EmptySession, ToSet
<1>4. \A id \in Given' : file # Nothing /\ id \in Covered(file)
  BY <1>1, <1>2, <1>3
<1>5. Fresh'
  BY <1>1, <1>4 DEF Fresh, DiskInv, Covered, IdsIn
<1>6. Given' \subseteq Covered(session)'
  BY <1>1, <1>2 DEF Covered, IdsIn
<1>7. pending'["round"] = Nothing /\ AnswerLast'
  BY <1>1 DEF AnswerLast, Savers
<1>. QED  BY <1>1, <1>5, <1>6, <1>7 DEF DiskInv

LEMMA AllKept == Spec => [](KeptInv /\ DiskInv)
<1>1. Init => DiskInv
  BY DEF Init, DiskInv, Resting, Given, Savers, Fresh, AnswerLast
<1>2. ASSUME KeptInv, DiskInv, [Next]_vars, SessionsInv'  PROVE KeptInv' /\ DiskInv'
  <2>1. KeptInv' /\ SessionsInv
    BY <1>2, StepsKeep DEF KeptInv
  <2>2. CASE UNCHANGED vars
    <3>1. /\ UNCHANGED <<file, pending, newest, stale, round, next, replied, session>>
          /\ Given' = Given /\ AnswerLast' /\ Covered(session)' = Covered(session)
          /\ pending["round"] # Nothing => round.pc \in {"compressed", "answered"}
      BY <1>2, <2>2 DEF vars, DiskInv, Given, AnswerLast, Covered, IdsIn
    <3>. QED  BY <1>2, <2>1, <3>1, DiskStays DEF DiskInv
  <2>3. CASE Next
    BY <1>2, <2>1, <2>3, RoundKeepsDisk, SummarizerKeepsDisk, SaveKeepsDisk, RestartKeepsDisk
       DEF Next
  <2>. QED  BY <1>2, <2>1, <2>2, <2>3
<1>. QED  BY <1>1, <1>2, KeptInit, InvariantHolds, PTL DEF Spec

\* What was said is in the history, in the summary, or was given up openly, for any
\* thresholds, unless messages came while a summary was written or it was written in
\* two parts (summarizeSession, forceCompression, loadSessions).
THEOREM NothingIsForgotten == Spec => []NothingForgotten
<1>1. KeptInv => NothingForgotten
  BY DEF KeptInv
<1>. QED  BY <1>1, AllKept, PTL

\* An answer that was handed out, and that the session in memory has not dropped since, is
\* in the file or in its summary, whatever the two savers, the summarizer and compression
\* do to each other and however often the process is restarted; except from a write that
\* failed, or that put an older snapshot over a later one, until the latest is written
\* (Save, loadSessions).
THEOREM RepliesAreSaved == Spec => []RepliesAreOnDisk
<1>1. DiskInv => RepliesAreOnDisk
  BY DEF DiskInv, RepliesAreOnDisk, Fresh, Given
<1>. QED  BY <1>1, AllKept, PTL

\* A summary never covers less than the last one did, unless one is written in two
\* parts or the process is restarted (summarizeBatch, SetSummary).
THEOREM SummariesRemember == Spec => SummaryRemembers
<1>1. ASSUME KeptInv, [Next]_vars
      PROVE  [session.summary \subseteq session'.summary \/ Restart \/ "parts" \in mishaps]_vars
  <2>0. session = [messages |-> session.messages, summary |-> session.summary]
    BY <1>1 DEF KeptInv, SessionsInv, MemoryInv, Orderly
  <2>1. CASE RoundStep
    <3>1. session'.summary = session.summary
      BY <2>0, <2>1 DEF RoundStep, StartRound, CallTools, ToolEnds, ContextError, Compress,
                        Answer, RoundFails, Finish, Add
    <3>. QED  BY <3>1
  <2>2. CASE SetSummary
    <3>1. session'.summary = summarizer.summary /\ summarizer.pc = "summarized"
      BY <2>0, <2>2 DEF SetSummary
    <3>. QED  BY <1>1, <3>1 DEF KeptInv, SummaryReady
  <2>3. CASE ReadHistory \/ SummaryArrives \/ TruncateHistory
    <3>1. session'.summary = session.summary
      BY <2>0, <2>3 DEF ReadHistory, SummaryArrives, TruncateHistory
    <3>. QED  BY <3>1
  <2>4. CASE \E saver \in Savers : SaveStep(saver)
    BY <2>4 DEF SaveStep, Snapshot, Rename, SaveFails
  <2>. QED  BY <1>1, <2>1, <2>2, <2>3, <2>4 DEF Next, SummarizerStep
<1>. QED  BY <1>1, AllKept, PTL DEF Spec, SummaryRemembers
=============================================================================
