--------------------------- MODULE QuickClawProofs ---------------------------
(***************************************************************************)
(* Theorems about QuickClaw.  About the heartbeat of a coding session, for *)
(* every window, budget and pane: the count in the file, and the count in  *)
(* the hands of each heartbeat that runs, cover the sessions started but   *)
(* for one per heartbeat that was killed or ran across another and a whole *)
(* budget per lost file; and the clock of a lonely heartbeat was started   *)
(* no earlier than the pane last changed, unless it has come back.         *)
(* About create, for every host, environment and set of options: it may    *)
(* run as often as one likes, and its success means what verify takes for  *)
(* success.                                                                *)
(***************************************************************************)
EXTENDS QuickClaw, SequenceTheorems, FiniteSetTheorems, TLAPS

Ages == {NotStale} \cup 0 .. Window

\* What a heartbeat may compare a pane with.
Hashes == {"", Dead} \cup Outputs

\* A heartbeat that may still start a session.
Undecided == {"read", "dead", "live", "stalled"}

BeatType == [pc : Undecided \cup {"idle", "started"}, hash : Hashes,
             since : Ages, restarts : Nat]

CodingTypeOK ==
  /\ session \in {"dead", "live"} /\ out \in Outputs
  /\ quiet \in 0 .. Window /\ back \in BOOLEAN
  /\ state \in [hash : Hashes, since : Ages, restarts : Nat]
  /\ beat \in [Beats -> BeatType]
  /\ restarts \in Nat /\ aborts \in Nat /\ losses \in Nat /\ overlaps \in Nat

-----------------------------------------------------------------------------
(* The inductive invariant.                                                *)

\* What may come on top of what a file tells.
Excused == MaxRestarts * losses + aborts + overlaps

UndecidedIn(beats) == {b \in Beats : beats[b].pc \in Undecided}

\* The n sessions started, and those that the heartbeats which have not decided
\* may still start, are at most one more than a count and what is excused.
Covers(count, beats, n, excused) ==
  n + Cardinality(UndecidedIn(beats)) <= count + 1 + excused

\* The count of a heartbeat, and the count k in the file, cover what was started;
\* when no heartbeat runs the file covers it without the one more.
Account(beats, k, n, excused) ==
  /\ k <= MaxRestarts /\ Covers(k, beats, n, excused)
  /\ \A b \in Beats : beats[b].pc # "idle" =>
       /\ beats[b].restarts <= MaxRestarts
       /\ Covers(beats[b].restarts, beats, n, excused)
  /\ \A b \in Beats : beats[b].pc = "started" => beats[b].restarts < MaxRestarts
  /\ (\A b \in Beats : beats[b].pc = "idle") => n <= k + excused

Accounted == Account(beat, state.restarts, restarts, Excused)

\* A clock that runs is no older than the pane that is compared with it, unless
\* the pane has come back.
Right(hash, since) == out = hash => since <= quiet \/ back

\* What a lonely heartbeat has read is the file, and the clocks in the file and
\* in its hands are right, but for the moment before a restart is written down.
ClocksAreRight ==
  aborts = 0 /\ overlaps = 0 =>
    /\ \A b, c \in Beats : Running(b) /\ Running(c) => b = c
    /\ (\A b \in Beats : beat[b].pc # "started") => Right(state.hash, state.since)
    /\ \A b \in Beats : beat[b].pc = "read" =>
         beat[b].hash = state.hash /\ beat[b].since = state.since
    /\ \A b \in Beats : beat[b].pc = "live" => Right(beat[b].hash, beat[b].since)
    /\ \A b \in Beats : beat[b].pc \in {"dead", "stalled", "started"} => beat[b].since = 0

HeartbeatInv == CodingTypeOK /\ Accounted /\ ClocksAreRight

-----------------------------------------------------------------------------
(* It holds at first and every step keeps it.                              *)

LEMMA Constants ==
  /\ Window \in Nat /\ Window > 0 /\ MaxRestarts \in Nat /\ MaxRestarts > 0
  /\ Items \in Nat
<1>1. /\ Window \in Nat \ {0} /\ MaxRestarts \in Nat \ {0} /\ Items \in Nat
  BY CodingAssumption DEF CodingAssumption
<1>. QED  BY <1>1

LEMMA Products ==
  ASSUME NEW m \in Nat, NEW l \in Nat
  PROVE  m * l \in Nat /\ m * (l + 1) = m * l + m
OBVIOUS

LEMMA Types ==
  ASSUME CodingTypeOK
  PROVE  /\ state.restarts \in Nat /\ restarts \in Nat /\ Excused \in Nat
         /\ state.since \in Ages /\ quiet \in 0 .. Window
         /\ \A b \in Beats : beat[b].restarts \in Nat /\ beat[b].since \in Ages
<1>1. MaxRestarts * losses \in Nat
  BY Products, Constants DEF CodingTypeOK
<1>2. Excused \in Nat
  <2>1. PICK p \in Nat : p = MaxRestarts * losses
    BY <1>1
  <2>2. p + aborts + overlaps \in Nat
    BY DEF CodingTypeOK
  <2>. QED  BY <2>1, <2>2 DEF Excused
<1>3. \A b \in Beats : beat[b] \in BeatType
  BY DEF CodingTypeOK
<1>. QED  BY <1>2, <1>3 DEF CodingTypeOK, BeatType

\* One heartbeat killed, or begun while another runs; one file lost.
LEMMA ExcusedGrows ==
  ASSUME CodingTypeOK
  PROVE  /\ MaxRestarts * losses + (aborts + 1) + overlaps = Excused + 1
         /\ MaxRestarts * losses + aborts + (overlaps + 1) = Excused + 1
         /\ MaxRestarts * (losses + 1) + aborts + overlaps = Excused + MaxRestarts
<1>1. PICK p \in Nat : p = MaxRestarts * losses /\ MaxRestarts * (losses + 1) = p + MaxRestarts
  BY Products, Constants DEF CodingTypeOK
<1>2. /\ p + (aborts + 1) + overlaps = p + aborts + overlaps + 1
      /\ p + aborts + (overlaps + 1) = p + aborts + overlaps + 1
      /\ (p + MaxRestarts) + aborts + overlaps = p + aborts + overlaps + MaxRestarts
  BY Constants DEF CodingTypeOK
<1>. QED  BY <1>1, <1>2 DEF Excused

LEMMA SomeHashes == "" \in Hashes /\ Dead \in Hashes /\ Outputs \subseteq Hashes
  BY DEF Hashes

LEMMA IdleType == Idle \in BeatType /\ Idle.pc = "idle"
  BY SomeHashes DEF Idle, BeatType, Ages, Undecided

LEMMA SmallAges == NotStale \in Ages /\ 0 \in Ages /\ 0 \in 0 .. Window
  BY Constants DEF Ages

\* One heartbeat goes on.
Updated(g, f, b, r) == g = [f EXCEPT ![b] = r]

\* How many have not decided, when one heartbeat goes on.
LEMMA Counts ==
  ASSUME NEW f \in [Beats -> BeatType], NEW b \in Beats, NEW r \in BeatType, NEW g,
         Updated(g, f, b, r)
  PROVE  /\ Cardinality(UndecidedIn(f)) \in Nat /\ Cardinality(UndecidedIn(g)) \in Nat
         /\ f[b].pc \in Undecided /\ r.pc \notin Undecided =>
              Cardinality(UndecidedIn(f)) = Cardinality(UndecidedIn(g)) + 1
         /\ f[b].pc \notin Undecided /\ r.pc \in Undecided =>
              Cardinality(UndecidedIn(g)) = Cardinality(UndecidedIn(f)) + 1
         /\ (f[b].pc \in Undecided <=> r.pc \in Undecided) =>
              Cardinality(UndecidedIn(g)) = Cardinality(UndecidedIn(f))
<1>1. g[b] = r /\ \A c \in Beats : c # b => g[c] = f[c]
  BY DEF Updated
<1>2. IsFiniteSet(UndecidedIn(f)) /\ IsFiniteSet(UndecidedIn(g))
  BY CodingAssumption, FS_Subset DEF CodingAssumption, UndecidedIn
<1>3. Cardinality(UndecidedIn(f)) \in Nat /\ Cardinality(UndecidedIn(g)) \in Nat
  BY <1>2, FS_CardinalityType
<1>4. ASSUME f[b].pc \in Undecided, r.pc \notin Undecided
      PROVE  Cardinality(UndecidedIn(f)) = Cardinality(UndecidedIn(g)) + 1
  <2>1. UndecidedIn(f) = UndecidedIn(g) \cup {b} /\ b \notin UndecidedIn(g)
    BY <1>1, <1>4 DEF UndecidedIn
  <2>. QED  BY <1>2, <2>1, FS_AddElement
<1>5. ASSUME f[b].pc \notin Undecided, r.pc \in Undecided
      PROVE  Cardinality(UndecidedIn(g)) = Cardinality(UndecidedIn(f)) + 1
  <2>1. UndecidedIn(g) = UndecidedIn(f) \cup {b} /\ b \notin UndecidedIn(f)
    BY <1>1, <1>5 DEF UndecidedIn
  <2>. QED  BY <1>2, <2>1, FS_AddElement
<1>6. ASSUME f[b].pc \in Undecided <=> r.pc \in Undecided
      PROVE  UndecidedIn(g) = UndecidedIn(f)
  BY <1>1, <1>6 DEF UndecidedIn
<1>. QED  BY <1>3, <1>4, <1>5, <1>6

\* What a heartbeat r and the file may say, when n + v sessions were started
\* or may be.
Fits(r, v, k, n, e) ==
  /\ k <= MaxRestarts /\ n + v <= k + 1 + e
  /\ r.pc # "idle" => r.restarts <= MaxRestarts /\ n + v <= r.restarts + 1 + e
  /\ r.pc = "started" => r.restarts < MaxRestarts
  /\ r.pc = "idle" => n <= k + e

\* The account after a step of one heartbeat.
LEMMA AccountKept ==
  ASSUME NEW f \in [Beats -> BeatType], NEW b \in Beats, NEW r \in BeatType,
         NEW g, Updated(g, f, b, r),
         NEW k0 \in Nat, NEW n0 \in Nat, NEW e0 \in Nat, Account(f, k0, n0, e0),
         NEW u \in Nat, u = Cardinality(UndecidedIn(f)),
         NEW v \in Nat, v = Cardinality(UndecidedIn(g)),
         NEW k \in Nat, NEW n \in Nat, NEW e \in Nat, Fits(r, v, k, n, e),
         (\E c \in Beats \ {b} : f[c].pc # "idle") => n + v + e0 <= n0 + u + e
  PROVE  Account(g, k, n, e)
<1>1. g[b] = r /\ \A c \in Beats : c # b => g[c] = f[c]
  BY DEF Updated
<1>2. ASSUME NEW c \in Beats, g[c].pc # "idle"
      PROVE  /\ g[c].restarts <= MaxRestarts /\ n + v <= g[c].restarts + 1 + e
             /\ g[c].pc = "started" => g[c].restarts < MaxRestarts
  <2>1. CASE c = b
    BY <1>1, <1>2, <2>1 DEF Fits
  <2>2. CASE c # b
    <3>1. g[c] = f[c] /\ f[c].pc # "idle"
      BY <1>1, <1>2, <2>2
    <3>2. PICK m \in Nat : m = f[c].restarts
      BY DEF BeatType
    <3>3. /\ m <= MaxRestarts /\ n0 + u <= m + 1 + e0
          /\ f[c].pc = "started" => m < MaxRestarts
      BY <3>1, <3>2 DEF Account, Covers
    <3>4. n + v + e0 <= n0 + u + e
      BY <2>2, <3>1
    <3>5. n + v <= m + 1 + e
      BY <3>3, <3>4
    <3>. QED  BY <3>1, <3>2, <3>3, <3>5
  <2>. QED  BY <2>1, <2>2
<1>3. (\A c \in Beats : g[c].pc = "idle") => r.pc = "idle"
  BY <1>1
<1>4. ASSUME NEW c \in Beats, g[c].pc = "started"  PROVE g[c].pc # "idle"
  BY <1>4
<1>. QED  BY <1>2, <1>3, <1>4 DEF Account, Covers, Fits

LEMMA HeartbeatInit ==
  ASSUME Init  PROVE HeartbeatInv
<1>1. CodingInit
  BY DEF Init
<1>2. CodingTypeOK
  <2>1. state \in [hash : Hashes, since : Ages, restarts : Nat]
    BY <1>1, SmallAges, SomeHashes DEF CodingInit, Empty
  <2>2. beat \in [Beats -> BeatType]
    BY <1>1, IdleType DEF CodingInit
  <2>. QED  BY <1>1, <2>1, <2>2, SmallAges DEF CodingTypeOK, CodingInit
<1>3. /\ \A b \in Beats : beat[b].pc = "idle"
      /\ state.restarts = 0 /\ state.since = -1 /\ restarts = 0 /\ losses = 0
      /\ aborts = 0 /\ overlaps = 0 /\ quiet = 0
  BY <1>1 DEF CodingInit, Idle, Empty, NotStale
<1>4. Accounted
  <2>1. UndecidedIn(beat) = {}
    BY <1>3 DEF UndecidedIn, Undecided
  <2>2. Cardinality(UndecidedIn(beat)) = 0
    BY <2>1, FS_EmptySet
  <2>. QED  BY <1>2, <1>3, <2>2, Types, Constants DEF Accounted, Account, Covers
<1>5. ClocksAreRight
  BY <1>3 DEF ClocksAreRight, Running, Right
<1>. QED  BY <1>2, <1>4, <1>5 DEF HeartbeatInv

\* Ages grow together, up to the window.
LEMMA OlderKeepsOrder ==
  ASSUME NEW i \in Ages, NEW k \in 0 .. Window, i <= k
  PROVE  Older(i) \in Ages /\ Older(k) \in 0 .. Window /\ Older(i) <= Older(k)
  BY Constants DEF Ages, NotStale, Older

LEMMA OlderType ==
  ASSUME NEW i \in Ages, NEW k \in 0 .. Window
  PROVE  Older(i) \in Ages /\ Older(k) \in 0 .. Window
  BY Constants DEF Ages, NotStale, Older

\* Steps that change no count and no heartbeat.
LEMMA AccountStays ==
  ASSUME Accounted, state'.restarts = state.restarts,
         UNCHANGED <<beat, restarts, faultVars>>
  PROVE  Accounted'
  BY DEF Accounted, Excused, faultVars

LEMMA MinuteKeeps ==
  ASSUME HeartbeatInv, Minute  PROVE HeartbeatInv'
<1>. USE DEF Minute, HeartbeatInv, faultVars
<1>1. /\ Older(state.since) \in Ages /\ Older(quiet) \in 0 .. Window
      /\ state.since <= quiet => Older(state.since) <= Older(quiet)
  BY OlderKeepsOrder, OlderType DEF CodingTypeOK
<1>2. /\ state'.since = Older(state.since) /\ state'.hash = state.hash
      /\ state'.restarts = state.restarts
  BY DEF CodingTypeOK
<1>3. CodingTypeOK'
  BY <1>1 DEF CodingTypeOK
<1>4. Accounted'
  BY <1>2, AccountStays
<1>5. ClocksAreRight'
  BY <1>1, <1>2 DEF ClocksAreRight, Running, Right
<1>. QED  BY <1>3, <1>4, <1>5

LEMMA PaneKeeps ==
  ASSUME HeartbeatInv, Prints \/ Dies \/ RalphRun  PROVE HeartbeatInv'
<1>. USE DEF HeartbeatInv, Prints, Dies, RalphRun, faultVars, paneVars
<1>1. CodingTypeOK'
  BY SmallAges DEF CodingTypeOK
<1>2. Accounted'
  BY AccountStays
<1>3. ClocksAreRight'
  <2>1. CASE Prints
    BY <2>1 DEF ClocksAreRight, Running, Right
  <2>2. CASE Dies \/ RalphRun
    BY <2>2 DEF ClocksAreRight, Running, Right
  <2>. QED  BY <2>1, <2>2
<1>. QED  BY <1>1, <1>2, <1>3

\* What a step of one heartbeat does to the table of heartbeats.
LEMMA BeatGoesOn ==
  ASSUME CodingTypeOK, NEW b \in Beats, NEW r \in BeatType, beat' = [beat EXCEPT ![b] = r]
  PROVE  /\ beat' \in [Beats -> BeatType] /\ beat'[b] = r
         /\ \A c \in Beats : c # b => beat'[c] = beat[c]
  BY DEF CodingTypeOK

LEMMA ReadKeeps ==
  ASSUME HeartbeatInv, NEW b \in Beats, Read(b)  PROVE HeartbeatInv'
<1>. USE DEF HeartbeatInv
<1>1. PICK r \in BeatType :
        /\ r = [pc |-> "read", hash |-> state.hash, since |-> state.since,
                restarts |-> state.restarts]
        /\ beat' = [beat EXCEPT ![b] = r]
  BY DEF Read, CodingTypeOK, BeatType, Undecided
<1>2. /\ r.pc = "read" /\ r.hash = state.hash /\ r.since = state.since
      /\ r.restarts = state.restarts
  BY <1>1
<1>3. /\ beat[b].pc = "idle"
      /\ overlaps' = IF Overlapping(b) THEN overlaps + 1 ELSE overlaps
      /\ UNCHANGED <<session, out, quiet, back, state, restarts, aborts, losses>>
  BY DEF Read, paneVars
<1>4. beat' \in [Beats -> BeatType] /\ beat'[b] = r /\ \A c \in Beats : c # b => beat'[c] = beat[c]
  BY <1>1, BeatGoesOn
<1>5. CodingTypeOK'
  <2>1. overlaps' \in Nat
    BY <1>3 DEF CodingTypeOK
  <2>. QED  BY <1>3, <1>4, <2>1 DEF CodingTypeOK
<1>6. Accounted'
  <2>1. PICK u \in Nat, v \in Nat :
          /\ u = Cardinality(UndecidedIn(beat)) /\ v = Cardinality(UndecidedIn(beat'))
          /\ v = u + 1
    <3>1. beat[b].pc \notin Undecided /\ r.pc \in Undecided
      BY <1>2, <1>3 DEF Undecided
    <3>2. beat \in [Beats -> BeatType]
      BY DEF CodingTypeOK
    <3>3. PICK g : g = beat' /\ Updated(g, beat, b, r)
      BY <1>1 DEF Updated
    <3>4. /\ Cardinality(UndecidedIn(beat)) \in Nat /\ Cardinality(UndecidedIn(g)) \in Nat
          /\ Cardinality(UndecidedIn(g)) = Cardinality(UndecidedIn(beat)) + 1
      BY <3>1, <3>2, <3>3, Counts
    <3>. QED  BY <3>3, <3>4
  <2>2. PICK x \in Nat, e \in Nat : /\ x = Excused /\ e = Excused'
                                    /\ e = IF Overlapping(b) THEN x + 1 ELSE x
    <3>1. Excused \in Nat
      BY Types
    <3>2. CASE Overlapping(b)
      <4>1. Excused' = Excused + 1
        BY <1>3, <3>2, ExcusedGrows DEF Excused
      <4>. QED  BY <3>1, <3>2, <4>1
    <3>3. CASE ~Overlapping(b)
      <4>1. Excused' = Excused
        BY <1>3, <3>3 DEF Excused
      <4>. QED  BY <3>1, <3>3, <4>1
    <3>. QED  BY <3>2, <3>3
  <2>3. PICK k \in Nat, n \in Nat : k = state.restarts /\ n = restarts
    BY Types
  <2>4. Account(beat, k, n, x)
    BY <2>2, <2>3 DEF Accounted
  <2>5. n + v <= k + 1 + e /\ k <= MaxRestarts
    <3>1. CASE Overlapping(b)
      BY <2>1, <2>2, <2>4, <3>1 DEF Account, Covers
    <3>2. CASE ~Overlapping(b)
      <4>1. \A c \in Beats : beat[c].pc = "idle"
        BY <1>3, <3>2 DEF Overlapping, Running
      <4>2. UndecidedIn(beat) = {}
        BY <4>1 DEF UndecidedIn, Undecided
      <4>3. u = 0 /\ n <= k + x
        BY <2>1, <2>4, <4>1, <4>2, FS_EmptySet DEF Account
      <4>. QED  BY <2>1, <2>2, <2>4, <3>2, <4>3 DEF Account
    <3>. QED  BY <3>1, <3>2
  <2>6. (\E c \in Beats \ {b} : beat[c].pc # "idle") => n + v + x <= n + u + e
    BY <2>1, <2>2 DEF Overlapping, Running
  <2>7. beat \in [Beats -> BeatType] /\ r.restarts = k /\ r.pc = "read"
    BY <1>2, <2>3 DEF CodingTypeOK
  <2>8. PICK g : g = beat' /\ Updated(g, beat, b, r)
    BY <1>1 DEF Updated
  <2>9. v = Cardinality(UndecidedIn(g))
    BY <2>1, <2>8
  <2>10. Fits(r, v, k, n, e)
    BY <2>5, <2>7 DEF Fits
  <2>11. Account(g, k, n, e)
    BY <2>1, <2>4, <2>6, <2>7, <2>8, <2>9, <2>10, AccountKept
  <2>. QED  BY <1>3, <2>2, <2>3, <2>8, <2>11 DEF Accounted
<1>7. ClocksAreRight'
  <2>1. overlaps' = 0 => overlaps = 0 /\ \A c \in Beats : c # b => ~Running(c)
    BY <1>3 DEF CodingTypeOK, Overlapping
  <2>. QED  BY <1>2, <1>3, <1>4, <2>1 DEF ClocksAreRight, Running, Right
<1>. QED  BY <1>5, <1>6, <1>7

LEMMA LookKeeps ==
  ASSUME HeartbeatInv, NEW b \in Beats, Look(b)  PROVE HeartbeatInv'
<1>. USE DEF HeartbeatInv
<1>1. PICK f : f = Found(b)
  OBVIOUS
<1>2. /\ f.pc \in {"dead", "stalled", "live"} /\ f.hash \in Hashes
      /\ f.since \in Ages
      /\ f.pc = "live" => f.hash = out /\ f.since = StaleSince(b)
      /\ f.pc # "live" => f.since = 0
  <2>1. beat[b].since \in Ages /\ out \in Outputs
    BY Types DEF CodingTypeOK
  <2>2. StaleSince(b) \in Ages
    BY <2>1, SmallAges DEF StaleSince
  <2>. QED  BY <1>1, <2>1, <2>2, SmallAges, SomeHashes DEF Found
<1>3. PICK r \in BeatType :
        /\ r.pc = f.pc /\ r.hash = f.hash /\ r.since = f.since
        /\ r.restarts = beat[b].restarts
        /\ beat' = [beat EXCEPT ![b] = r]
  <2>1. PICK m \in Nat : m = beat[b].restarts
    BY Types
  <2>2. PICK r : r = [pc |-> f.pc, hash |-> f.hash, since |-> f.since, restarts |-> m]
    OBVIOUS
  <2>3. r \in BeatType
    BY <1>2, <2>2 DEF BeatType, Undecided
  <2>4. beat' = [beat EXCEPT ![b] = r]
    BY <1>1, <2>1, <2>2 DEF Look, CodingTypeOK
  <2>. QED  BY <2>1, <2>2, <2>3, <2>4
<1>4. /\ beat[b].pc = "read" /\ back' = (back /\ Same(b) /\ beat[b].since # NotStale)
      /\ UNCHANGED <<session, out, quiet, state, restarts, aborts, losses, overlaps>>
  BY DEF Look, paneVars, faultVars
<1>5. beat' \in [Beats -> BeatType] /\ beat'[b] = r /\ \A c \in Beats : c # b => beat'[c] = beat[c]
  BY <1>3, BeatGoesOn
<1>6. CodingTypeOK'
  BY <1>4, <1>5 DEF CodingTypeOK
<1>7. Accounted'
  <2>1. beat \in [Beats -> BeatType] /\ r.pc \in Undecided /\ beat[b].pc \in Undecided
    BY <1>2, <1>3, <1>4 DEF Undecided, CodingTypeOK
  <2>2. PICK g : g = beat' /\ Updated(g, beat, b, r)
    BY <1>3 DEF Updated
  <2>3. PICK u \in Nat : u = Cardinality(UndecidedIn(beat)) /\ u = Cardinality(UndecidedIn(g))
    BY <2>1, <2>2, Counts
  <2>4. PICK k \in Nat, n \in Nat, x \in Nat, m \in Nat :
          k = state.restarts /\ n = restarts /\ x = Excused /\ m = beat[b].restarts
    BY Types
  <2>5. Account(beat, k, n, x)
    BY <2>4 DEF Accounted
  <2>6. m <= MaxRestarts /\ n + u <= m + 1 + x /\ k <= MaxRestarts /\ n + u <= k + 1 + x
    BY <1>4, <2>3, <2>4, <2>5 DEF Account, Covers
  <2>7. r.pc # "idle" /\ r.pc # "started" /\ r.restarts = m
    BY <1>3, <2>1, <2>4 DEF Undecided
  <2>8. Account(g, k, n, x)
    <3>1. n + u + x <= n + u + x
      BY <2>3, <2>4
    <3>2. Fits(r, u, k, n, x)
      BY <2>6, <2>7 DEF Fits
    <3>. QED  BY <2>1, <2>2, <2>3, <2>5, <3>1, <3>2, AccountKept
  <2>. QED  BY <1>4, <2>2, <2>4, <2>8 DEF Accounted, Excused
<1>8. ClocksAreRight'
  <2>. SUFFICES ASSUME aborts = 0, overlaps = 0  PROVE ClocksAreRight'
    BY <1>4 DEF ClocksAreRight
  <2>1. /\ \A c \in Beats : c # b => ~Running(c)
        /\ beat[b].hash = state.hash /\ beat[b].since = state.since
        /\ Right(state.hash, state.since)
    BY <1>4 DEF ClocksAreRight, Running
  <2>2. state.since \in Ages /\ quiet \in 0 .. Window
    BY Types
  <2>7. NotStale <= quiet /\ 0 <= quiet
    BY <2>2, Constants DEF NotStale
  <2>3. Right(state.hash, state.since)'
    <3>1. CASE Same(b) /\ state.since # NotStale
      BY <1>4, <2>1, <3>1 DEF Right
    <3>2. CASE ~Same(b)
      BY <1>4, <2>1, <3>2 DEF Right, Same
    <3>3. CASE state.since = NotStale
      BY <1>4, <2>7, <3>3 DEF Right
    <3>. QED  BY <3>1, <3>2, <3>3
  <2>4. r.pc = "live" => Right(r.hash, r.since)'
    <3>. SUFFICES ASSUME r.pc = "live"  PROVE Right(r.hash, r.since)'
      OBVIOUS
    <3>1. r.hash = out /\ r.since = StaleSince(b)
      BY <1>2, <1>3
    <3>2. CASE ~Same(b)
      BY <1>4, <2>7, <3>1, <3>2 DEF Right, StaleSince
    <3>3. CASE Same(b) /\ state.since = NotStale
      BY <1>4, <2>1, <2>7, <3>1, <3>3 DEF Right, StaleSince
    <3>4. CASE Same(b) /\ state.since # NotStale
      <4>1. r.since = state.since /\ out = state.hash
        BY <2>1, <3>1, <3>4 DEF StaleSince, Same
      <4>. QED  BY <1>4, <2>1, <3>4, <4>1 DEF Right
    <3>. QED  BY <3>2, <3>3, <3>4
  <2>5. \A c \in Beats : c # b => beat'[c].pc = "idle"
    BY <1>5, <2>1 DEF Running
  <2>6. r.pc # "read" /\ (r.pc # "live" => r.since = 0)
    BY <1>2, <1>3
  <2>. QED  BY <1>4, <1>5, <2>3, <2>4, <2>5, <2>6 DEF ClocksAreRight, Running, Right
<1>. QED  BY <1>6, <1>7, <1>8

\* A heartbeat that ends: what the file has then, and what may be excused.
LEMMA EndKeeps ==
  ASSUME HeartbeatInv, NEW b \in Beats, Running(b), beat' = [beat EXCEPT ![b] = Idle],
         NEW e \in Nat, NEW k \in Nat, k <= MaxRestarts,
         NEW s \in {0, 1}, s = (IF beat[b].pc = "started" THEN 1 ELSE 0),
         e >= Excused,
         \/ k + e >= state.restarts + Excused + s
         \/ k + e >= beat[b].restarts + Excused + s
  PROVE  Account(beat', k, restarts, e)
<1>1. beat \in [Beats -> BeatType] /\ Account(beat, state.restarts, restarts, Excused)
  BY DEF HeartbeatInv, CodingTypeOK, Accounted
<1>2. PICK g : g = beat'
  OBVIOUS
<1>3. Updated(g, beat, b, Idle)
  BY <1>2 DEF Updated
<1>4. PICK u \in Nat, v \in Nat :
        /\ u = Cardinality(UndecidedIn(beat)) /\ v = Cardinality(UndecidedIn(g))
        /\ u + s = v + 1
  <2>1. PICK u, v : u = Cardinality(UndecidedIn(beat)) /\ v = Cardinality(UndecidedIn(g))
    OBVIOUS
  <2>2. Idle \in BeatType /\ Idle.pc \notin Undecided
    BY IdleType DEF Undecided
  <2>3. u \in Nat /\ v \in Nat
    BY <1>1, <1>3, <2>1, <2>2, Counts
  <2>4. CASE beat[b].pc = "started"
    <3>1. beat[b].pc \notin Undecided
      BY <2>4 DEF Undecided
    <3>2. u = v
      BY <1>1, <1>3, <2>1, <2>2, <3>1, Counts
    <3>. QED  BY <2>1, <2>3, <2>4, <3>2
  <2>5. CASE beat[b].pc # "started"
    <3>1. beat[b].pc \in Undecided
      BY <1>1, <2>5 DEF Running, BeatType
    <3>2. u = v + 1
      BY <1>1, <1>3, <2>1, <2>2, <3>1, Counts
    <3>. QED  BY <2>1, <2>3, <2>5, <3>2
  <2>. QED  BY <2>4, <2>5
<1>5. PICK m \in Nat, c \in Nat, x \in Nat, n \in Nat :
        m = state.restarts /\ c = beat[b].restarts /\ x = Excused /\ n = restarts
  BY Types DEF HeartbeatInv
<1>6. n + u <= m + 1 + x /\ n + u <= c + 1 + x
  BY <1>1, <1>4, <1>5 DEF Account, Covers, Running
<1>7. (k + e >= m + x + s \/ k + e >= c + x + s) /\ e >= x
  BY <1>5
<1>8. n + v <= k + e /\ n <= k + e /\ n + v <= k + 1 + e /\ n + v + x <= n + u + e
  BY <1>4, <1>6, <1>7
<1>9. Account(beat, m, n, x)
  BY <1>1, <1>5
<1>10. Fits(Idle, v, k, n, e)
  BY <1>8, IdleType DEF Fits
<1>11. Account(g, k, n, e)
  BY <1>1, <1>3, <1>4, <1>8, <1>9, <1>10, AccountKept, IdleType
<1>. QED  BY <1>2, <1>5, <1>11

LEMMA RecordKeeps ==
  ASSUME HeartbeatInv, NEW b \in Beats, Record(b)  PROVE HeartbeatInv'
<1>. USE DEF HeartbeatInv
<1>1. /\ beat[b].pc = "live" /\ beat' = [beat EXCEPT ![b] = Idle]
      /\ state' = [hash |-> beat[b].hash, since |-> beat[b].since,
                   restarts |-> beat[b].restarts]
      /\ UNCHANGED <<session, out, quiet, back, restarts, aborts, losses, overlaps>>
  BY DEF Record, paneVars, faultVars
<1>2. /\ beat' \in [Beats -> BeatType] /\ beat'[b] = Idle
      /\ \A c \in Beats : c # b => beat'[c] = beat[c]
  BY <1>1, IdleType, BeatGoesOn
<1>3. beat[b] \in BeatType
  BY DEF CodingTypeOK
<1>4. CodingTypeOK'
  BY <1>1, <1>2, <1>3 DEF CodingTypeOK, BeatType
<1>5. Accounted'
  <2>1. Excused' = Excused /\ Running(b) /\ state'.restarts = beat[b].restarts
    BY <1>1 DEF Excused, Running
  <2>2. PICK x \in Nat, m \in Nat : x = Excused /\ m = beat[b].restarts
    BY Types
  <2>3. m <= MaxRestarts
    BY <2>1, <2>2 DEF Accounted, Account, Running
  <2>4. 0 = (IF beat[b].pc = "started" THEN 1 ELSE 0) /\ x >= x /\ m + x >= m + x + 0
    BY <1>1
  <2>5. Account(beat', m, restarts, x)
    BY <1>1, <2>1, <2>2, <2>3, <2>4, EndKeeps
  <2>. QED  BY <1>1, <2>1, <2>2, <2>5 DEF Accounted
<1>6. ClocksAreRight'
  <2>1. state'.hash = beat[b].hash /\ state'.since = beat[b].since /\ Idle.pc = "idle"
    BY <1>1, IdleType
  <2>. QED  BY <1>1, <1>2, <2>1 DEF ClocksAreRight, Running, Right
<1>. QED  BY <1>4, <1>5, <1>6

\* A heartbeat that ends and leaves the file alone.
LEMMA QuitKeeps ==
  ASSUME HeartbeatInv, NEW b \in Beats, beat[b].pc \in {"dead", "stalled"},
         beat' = [beat EXCEPT ![b] = Idle],
         UNCHANGED <<session, out, quiet, back, state, restarts, aborts, losses, overlaps>>
  PROVE  HeartbeatInv'
<1>. USE DEF HeartbeatInv
<1>1. /\ beat' \in [Beats -> BeatType] /\ beat'[b] = Idle
      /\ \A c \in Beats : c # b => beat'[c] = beat[c]
  BY IdleType, BeatGoesOn
<1>2. CodingTypeOK'
  BY <1>1 DEF CodingTypeOK
<1>3. Accounted'
  <2>1. Excused' = Excused /\ Running(b)
    BY DEF Excused, Running
  <2>2. PICK x \in Nat, k \in Nat : x = Excused /\ k = state.restarts
    BY Types
  <2>3. k <= MaxRestarts
    BY <2>2 DEF Accounted, Account
  <2>4. 0 = (IF beat[b].pc = "started" THEN 1 ELSE 0) /\ x >= x /\ k + x >= k + x + 0
    OBVIOUS
  <2>5. Account(beat', k, restarts, x)
    BY <2>1, <2>2, <2>3, <2>4, EndKeeps
  <2>. QED  BY <2>1, <2>2, <2>5 DEF Accounted
<1>4. ClocksAreRight'
  BY <1>1, IdleType DEF ClocksAreRight, Running, Right
<1>. QED  BY <1>2, <1>3, <1>4

LEMMA RestartKeeps ==
  ASSUME HeartbeatInv, NEW b \in Beats, Restart(b)  PROVE HeartbeatInv'
<1>. USE DEF HeartbeatInv
<1>1. beat[b].pc \in {"dead", "stalled"} /\ beat[b].restarts < MaxRestarts
  BY Types, Constants DEF Restart, Exhausted
<1>2. CASE beat[b].pc = "dead" /\ session = "live"
  BY <1>1, <1>2, QuitKeeps DEF Restart, paneVars, faultVars
<1>3. CASE ~(beat[b].pc = "dead" /\ session = "live")
  <2>1. /\ session' = "live" /\ out' \in Outputs /\ quiet' = 0
        /\ restarts' = restarts + 1
        /\ beat' = [beat EXCEPT ![b].pc = "started"]
        /\ UNCHANGED <<back, state, aborts, losses, overlaps>>
    BY <1>3 DEF Restart, faultVars
  <2>2. PICK r \in BeatType :
          /\ r.pc = "started" /\ r.restarts = beat[b].restarts /\ r.since = beat[b].since
          /\ beat' = [beat EXCEPT ![b] = r]
    <3>1. PICK q \in BeatType : q = beat[b]
      BY DEF CodingTypeOK
    <3>2. PICK r : r = [q EXCEPT !.pc = "started"]
      OBVIOUS
    <3>3. /\ r \in BeatType /\ r.pc = "started" /\ r.restarts = q.restarts
          /\ r.since = q.since
      BY <3>2 DEF BeatType, Undecided
    <3>4. beat' = [beat EXCEPT ![b] = r]
      BY <2>1, <3>1, <3>2
    <3>. QED  BY <3>1, <3>3, <3>4
  <2>3. /\ beat' \in [Beats -> BeatType] /\ beat'[b] = r
        /\ \A c \in Beats : c # b => beat'[c] = beat[c]
    BY <2>2, BeatGoesOn
  <2>4. CodingTypeOK'
    BY <2>1, <2>3, Types, SmallAges DEF CodingTypeOK
  <2>5. Accounted'
    <3>1. beat \in [Beats -> BeatType] /\ beat[b].pc \in Undecided /\ r.pc \notin Undecided
      BY <1>1, <2>2 DEF Undecided, CodingTypeOK
    <3>2. PICK g : g = beat' /\ Updated(g, beat, b, r)
      BY <2>2 DEF Updated
    <3>3. PICK u \in Nat, v \in Nat :
            /\ u = Cardinality(UndecidedIn(beat)) /\ v = Cardinality(UndecidedIn(g))
            /\ u = v + 1
      BY <3>1, <3>2, Counts
    <3>4. PICK k \in Nat, n \in Nat, x \in Nat, m \in Nat :
            k = state.restarts /\ n = restarts /\ x = Excused /\ m = beat[b].restarts
      BY Types
    <3>5. Account(beat, k, n, x)
      BY <3>4 DEF Accounted
    <3>6. m < MaxRestarts /\ n + u <= m + 1 + x /\ k <= MaxRestarts /\ n + u <= k + 1 + x
      BY <1>1, <3>3, <3>4, <3>5 DEF Account, Covers
    <3>7. PICK w \in Nat : w = n + 1 /\ w + v <= m + 1 + x /\ w + v <= k + 1 + x
                            /\ w + v + x <= n + u + x /\ m <= MaxRestarts
      <4>1. n + 1 + v = n + u
        BY <3>3
      <4>. QED  BY <3>3, <3>6, <4>1, Constants
    <3>8. r.pc = "started" /\ r.restarts = m
      BY <2>2, <3>4
    <3>9. /\ r.pc # "idle" /\ w + v <= r.restarts + 1 + x /\ r.restarts <= MaxRestarts
          /\ r.restarts < MaxRestarts /\ k <= MaxRestarts
      BY <3>6, <3>7, <3>8
    <3>10. Fits(r, v, k, w, x)
      BY <3>7, <3>9 DEF Fits
    <3>11. Account(g, k, w, x)
      BY <3>1, <3>2, <3>3, <3>5, <3>7, <3>10, AccountKept
    <3>. QED  BY <2>1, <3>2, <3>4, <3>7, <3>11 DEF Accounted, Excused
  <2>6. ClocksAreRight'
    BY <1>1, <2>1, <2>2, <2>3 DEF ClocksAreRight, Running, Right
  <2>. QED  BY <2>4, <2>5, <2>6
<1>. QED  BY <1>2, <1>3

LEMMA RecordRestartKeeps ==
  ASSUME HeartbeatInv, NEW b \in Beats, RecordRestart(b)
  PROVE  HeartbeatInv'
<1>. USE DEF HeartbeatInv
<1>1. /\ beat[b].pc = "started" /\ beat' = [beat EXCEPT ![b] = Idle]
      /\ state' = [hash |-> beat[b].hash, since |-> beat[b].since,
                   restarts |-> beat[b].restarts + 1]
      /\ UNCHANGED <<session, out, quiet, back, restarts, aborts, losses, overlaps>>
  BY DEF RecordRestart, paneVars, faultVars
<1>2. /\ beat' \in [Beats -> BeatType] /\ beat'[b] = Idle
      /\ \A c \in Beats : c # b => beat'[c] = beat[c]
  BY <1>1, IdleType, BeatGoesOn
<1>3. beat[b] \in BeatType /\ beat[b].restarts + 1 \in Nat
  BY Types DEF CodingTypeOK
<1>4. CodingTypeOK'
  BY <1>1, <1>2, <1>3 DEF CodingTypeOK, BeatType
<1>5. Accounted'
  <2>1. Excused' = Excused /\ Running(b) /\ state'.restarts = beat[b].restarts + 1
    BY <1>1 DEF Excused, Running
  <2>2. PICK x \in Nat, m \in Nat : x = Excused /\ m = beat[b].restarts
    BY Types
  <2>3. m < MaxRestarts
    BY <1>1, <2>2 DEF Accounted, Account
  <2>4. /\ 1 = (IF beat[b].pc = "started" THEN 1 ELSE 0)
        /\ x >= x /\ (m + 1) + x >= m + x + 1 /\ m + 1 \in Nat /\ m + 1 <= MaxRestarts
    BY <1>1, <2>3, Constants
  <2>5. Account(beat', m + 1, restarts, x)
    BY <1>1, <2>1, <2>2, <2>4, EndKeeps
  <2>. QED  BY <1>1, <2>1, <2>2, <2>5 DEF Accounted
<1>6. ClocksAreRight'
  <2>. SUFFICES ASSUME aborts = 0, overlaps = 0  PROVE ClocksAreRight'
    BY <1>1 DEF ClocksAreRight
  <2>1. state'.since = 0 /\ Idle.pc = "idle"
    BY <1>1, IdleType DEF ClocksAreRight
  <2>2. Right(state.hash, state.since)'
    BY <1>1, <2>1, Types DEF Right
  <2>. QED  BY <1>1, <1>2, <2>1, <2>2 DEF ClocksAreRight, Running
<1>. QED  BY <1>4, <1>5, <1>6

LEMMA AbortKeeps ==
  ASSUME HeartbeatInv, NEW b \in Beats, Abort(b)  PROVE HeartbeatInv'
<1>. USE DEF HeartbeatInv
<1>1. /\ Running(b) /\ beat' = [beat EXCEPT ![b] = Idle] /\ aborts' = aborts + 1
      /\ UNCHANGED <<session, out, quiet, back, state, restarts, losses, overlaps>>
  BY DEF Abort, paneVars
<1>2. beat' \in [Beats -> BeatType]
  BY <1>1, IdleType, BeatGoesOn
<1>3. CodingTypeOK' /\ aborts' # 0
  BY <1>1, <1>2 DEF CodingTypeOK
<1>4. Accounted'
  <2>1. Excused' = Excused + 1
    BY <1>1, ExcusedGrows DEF Excused
  <2>2. PICK x \in Nat, k \in Nat : x = Excused /\ k = state.restarts
    BY Types
  <2>3. k <= MaxRestarts
    BY <2>2 DEF Accounted, Account
  <2>4. PICK s \in {0, 1} : s = (IF beat[b].pc = "started" THEN 1 ELSE 0)
    OBVIOUS
  <2>5. x + 1 \in Nat /\ x + 1 >= x /\ k + (x + 1) >= k + x + s
    BY <2>4
  <2>6. Account(beat', k, restarts, x + 1)
    BY <1>1, <2>2, <2>3, <2>4, <2>5, EndKeeps
  <2>. QED  BY <1>1, <2>1, <2>2, <2>6 DEF Accounted
<1>5. ClocksAreRight'
  BY <1>3 DEF ClocksAreRight
<1>. QED  BY <1>3, <1>4, <1>5

LEMMA LoseFileKeeps ==
  ASSUME HeartbeatInv, NEW b \in Beats, LoseFile(b)  PROVE HeartbeatInv'
<1>. USE DEF HeartbeatInv
<1>1. /\ beat[b].pc \in {"live", "started"} /\ beat' = [beat EXCEPT ![b] = Idle]
      /\ losses' = losses + 1 /\ state' = Empty
      /\ UNCHANGED <<session, out, quiet, back, restarts, aborts, overlaps>>
  BY DEF LoseFile, paneVars
<1>2. /\ beat' \in [Beats -> BeatType] /\ beat'[b] = Idle
      /\ \A c \in Beats : c # b => beat'[c] = beat[c]
  BY <1>1, IdleType, BeatGoesOn
<1>3. state'.restarts = 0 /\ state'.since = NotStale
  BY <1>1 DEF Empty
<1>4. CodingTypeOK'
  <2>1. state' \in [hash : Hashes, since : Ages, restarts : Nat]
    BY <1>1, SmallAges, SomeHashes DEF Empty
  <2>. QED  BY <1>1, <1>2, <2>1 DEF CodingTypeOK
<1>5. Accounted'
  <2>1. Excused' = Excused + MaxRestarts /\ Running(b)
    BY <1>1, ExcusedGrows DEF Excused, Running
  <2>2. PICK x \in Nat, m \in Nat : x = Excused /\ m = beat[b].restarts
    BY Types
  <2>3. PICK s \in {0, 1} : s = (IF beat[b].pc = "started" THEN 1 ELSE 0)
    OBVIOUS
  <2>4. m <= MaxRestarts /\ (s = 1 => m < MaxRestarts)
    BY <2>1, <2>2, <2>3 DEF Accounted, Account, Running
  <2>5. /\ x + MaxRestarts \in Nat /\ x + MaxRestarts >= x /\ 0 <= MaxRestarts
        /\ 0 + (x + MaxRestarts) >= m + x + s
    BY <2>3, <2>4, Constants
  <2>6. Account(beat', 0, restarts, x + MaxRestarts)
    BY <1>1, <2>1, <2>2, <2>3, <2>5, EndKeeps
  <2>. QED  BY <1>1, <1>3, <2>1, <2>2, <2>6 DEF Accounted
<1>6. ClocksAreRight'
  <2>1. Right(state.hash, state.since)'
    BY <1>1, <1>3, Types DEF Right, NotStale
  <2>. QED  BY <1>1, <1>2, <2>1, IdleType DEF ClocksAreRight, Running, Right
<1>. QED  BY <1>4, <1>5, <1>6

LEMMA StepKeeps ==
  ASSUME HeartbeatInv, [Next]_vars
  PROVE  HeartbeatInv'
<1>1. CASE UNCHANGED codingVars
  <2>1. UNCHANGED <<session, out, quiet, back, state, beat, restarts, aborts, losses, overlaps>>
    BY <1>1 DEF codingVars, paneVars, faultVars
  <2>. QED  BY <2>1 DEF HeartbeatInv, CodingTypeOK, Accounted, Excused,
                       ClocksAreRight, Running, Right
<1>2. CASE SessionNext \/ ChecklistNext
  <2>1. CASE Minute
    BY <2>1, MinuteKeeps
  <2>2. CASE Prints \/ Dies \/ RalphRun
    BY <2>2, PaneKeeps
  <2>3. ASSUME NEW b \in Beats, Heartbeat(b) \/ Abort(b) \/ LoseFile(b)
        PROVE  HeartbeatInv'
    <3>1. CASE GiveUp(b)
      BY <3>1, QuitKeeps DEF GiveUp, paneVars, faultVars
    <3>2. CASE ~GiveUp(b)
      BY <2>3, <3>2, ReadKeeps, LookKeeps, RecordKeeps, RestartKeeps,
         RecordRestartKeeps, AbortKeeps, LoseFileKeeps DEF Heartbeat
    <3>. QED  BY <3>1, <3>2
  <2>. QED  BY <1>2, <2>1, <2>2, <2>3 DEF SessionNext, ChecklistNext
<1>. QED  BY <1>1, <1>2 DEF Next, HostNext, vars

LEMMA HeartbeatAlways == Spec => []HeartbeatInv
<1>1. Init => HeartbeatInv
  BY HeartbeatInit
<1>2. HeartbeatInv /\ [Next]_vars => HeartbeatInv'
  BY StepKeeps
<1>. QED  BY <1>1, <1>2, PTL DEF Spec

-----------------------------------------------------------------------------
(* The heartbeat's file and what it counts have their types.               *)
THEOREM TypeCorrect == Spec => []CodingTypeOK
<1>1. HeartbeatInv => CodingTypeOK
  BY DEF HeartbeatInv
<1>. QED  BY <1>1, HeartbeatAlways, PTL

(* However many heartbeats run at a time, they start no more sessions than *)
(* the budget, one for each of them that was killed or began while another *)
(* ran, and the budget again for each write that left the file empty       *)
(* (LAST_RESTARTS in tmux-heartbeat.sh).                                   *)
THEOREM BudgetIsKept == Spec => []RestartBudget
<1>1. HeartbeatInv => RestartBudget
  <2>. SUFFICES ASSUME HeartbeatInv  PROVE RestartBudget
    OBVIOUS
  <2>. USE DEF HeartbeatInv
  <2>1. PICK x \in Nat, n \in Nat, k \in Nat : x = Excused /\ n = restarts /\ k = state.restarts
    BY Types
  <2>2. SUFFICES n <= MaxRestarts + x
    <3>1. PICK p \in Nat : p = MaxRestarts * losses /\ MaxRestarts * (losses + 1) = p + MaxRestarts
      BY Products, Constants DEF CodingTypeOK
    <3>2. 1 + losses = losses + 1 /\ losses \in Nat /\ aborts \in Nat /\ overlaps \in Nat
      BY DEF CodingTypeOK
    <3>3. x = p + aborts + overlaps
      BY <2>1, <3>1 DEF Excused
    <3>4. MaxRestarts * (1 + losses) = p + MaxRestarts
      BY <3>1, <3>2
    <3>5. ASSUME n <= MaxRestarts + x  PROVE n <= (p + MaxRestarts) + aborts + overlaps
      BY <3>2, <3>3, <3>5, Constants
    <3>. QED  BY <2>1, <3>4, <3>5 DEF RestartBudget
  <2>3. Account(beat, k, n, x) /\ beat \in [Beats -> BeatType]
    BY <2>1 DEF Accounted, CodingTypeOK
  <2>4. IsFiniteSet(UndecidedIn(beat))
    BY CodingAssumption, FS_Subset DEF CodingAssumption, UndecidedIn
  <2>5. PICK u \in Nat : u = Cardinality(UndecidedIn(beat))
    BY <2>4, FS_CardinalityType
  <2>6. CASE \A b \in Beats : beat[b].pc = "idle"
    BY <2>3, <2>6, Constants DEF Account
  <2>7. ASSUME NEW b \in Beats, beat[b].pc # "idle"  PROVE n <= MaxRestarts + x
    <3>1. PICK m \in Nat : m = beat[b].restarts
      BY Types
    <3>2. /\ m <= MaxRestarts /\ n + u <= m + 1 + x
          /\ beat[b].pc = "started" => m < MaxRestarts
      BY <2>3, <2>5, <2>7, <3>1 DEF Account, Covers
    <3>3. CASE beat[b].pc = "started"
      BY <3>2, <3>3, Constants
    <3>4. CASE beat[b].pc # "started"
      <4>1. b \in UndecidedIn(beat)
        BY <2>3, <2>7, <3>4 DEF UndecidedIn, BeatType
      <4>2. u # 0
        BY <2>4, <2>5, <4>1, FS_EmptySet
      <4>. QED  BY <3>2, <4>2, Constants
    <3>. QED  BY <3>3, <3>4
  <2>. QED  BY <2>6, <2>7
<1>. QED  BY <1>1, HeartbeatAlways, PTL

(* A heartbeat takes a live session for stalled only if its pane has been  *)
(* the same for the whole window, or has changed and come back unseen, a   *)
(* heartbeat was killed or two ran at a time (LAST_HASH and                *)
(* LAST_STALE_SINCE).                                                      *)
THEOREM StallsAreReal == Spec => StallIsReal
<1>1. HeartbeatInv /\ [Next]_vars =>
        [ \A b \in Beats :
            beat[b].pc = "read" /\ beat'[b].pc = "stalled"
              => quiet >= Window \/ back \/ aborts > 0 \/ overlaps > 0 ]_codingVars
  <2>. SUFFICES ASSUME HeartbeatInv, [Next]_vars, codingVars' # codingVars,
                       NEW b \in Beats, beat[b].pc = "read", beat'[b].pc = "stalled",
                       aborts = 0, overlaps = 0
       PROVE  quiet >= Window \/ back
    BY DEF HeartbeatInv, CodingTypeOK
  <2>. USE DEF HeartbeatInv
  <2>1. SessionNext \/ ChecklistNext
    BY DEF Next, HostNext, vars, codingVars
  <2>2. PICK c \in Beats : Heartbeat(c) \/ Abort(c) \/ LoseFile(c)
    BY <2>1 DEF SessionNext, ChecklistNext, Minute, Prints, Dies, RalphRun
  <2>3. c = b
    BY <2>2 DEF CodingTypeOK, Heartbeat, Abort, LoseFile, Read, Look, Record, GiveUp,
                Restart, RecordRestart
  <2>4. Look(b)
    BY <2>2, <2>3, IdleType DEF Heartbeat, Abort, LoseFile, Read, Record, GiveUp, Restart,
       RecordRestart, CodingTypeOK
  <2>5. Found(b).pc = "stalled"
    BY <2>4 DEF Look, CodingTypeOK
  <2>6. out = beat[b].hash /\ beat[b].since >= Window
    BY <2>5 DEF Found, Stalled, Same
  <2>7. /\ beat[b].hash = state.hash /\ beat[b].since = state.since
        /\ \A d \in Beats : beat[d].pc # "started"
    BY DEF ClocksAreRight, Running
  <2>8. state.since <= quiet \/ back
    BY <2>6, <2>7 DEF ClocksAreRight, Right
  <2>. QED  BY <2>6, <2>7, <2>8, Types, Constants DEF Ages, NotStale
<1>. QED  BY <1>1, HeartbeatAlways, PTL DEF Spec, StallIsReal

-----------------------------------------------------------------------------
(* Lists.  The library's induction principles take an operator; these take *)
(* the set of the numbers, or lists, of which the fact holds.              *)

LEMMA NumberInduction ==
  ASSUME NEW T, 0 \in T, \A n \in Nat : n \in T => n + 1 \in T
  PROVE  Nat \subseteq T
<1>. SUFFICES ASSUME Nat \ T # {} PROVE FALSE
  OBVIOUS
<1>1. \A x, y \in Nat : <<x, y>> \in OpToRel(<, Nat) <=> x < y
  BY DEF OpToRel
<1>2. PICK n \in Nat \ T : \A y \in Nat \ T : ~(<<y, n>> \in OpToRel(<, Nat))
  BY NatLessThanWellFounded, WFMin
<1>3. n \in Nat /\ n \notin T
  OBVIOUS
<1>4. n # 0
  BY <1>3
<1>5. n - 1 \in Nat /\ n - 1 < n /\ (n - 1) + 1 = n
  BY <1>3, <1>4
<1>6. n - 1 \in T
  BY <1>1, <1>2, <1>3, <1>5
<1>. QED  BY <1>3, <1>5, <1>6

LEMMA ListInduction ==
  ASSUME NEW S, NEW T, <<>> \in T,
         \A s \in Seq(S), x \in S : s \in T => Append(s, x) \in T
  PROVE  Seq(S) \subseteq T
<1>. DEFINE U == {n \in Nat : \A s \in Seq(S) : Len(s) = n => s \in T}
<1>1. 0 \in U
  BY EmptySeq
<1>2. ASSUME NEW n \in Nat, n \in U PROVE n + 1 \in U
  <2>1. ASSUME NEW s \in Seq(S), Len(s) = n + 1 PROVE s \in T
    <3>1. s # <<>>
      BY <2>1, EmptySeq
    <3>2. PICK t \in Seq(S), x \in S : s = Append(t, x)
      BY <3>1, SequenceEmptyOrAppend
    <3>3. Len(t) = n
      BY <2>1, <3>2, AppendProperties, LenProperties
    <3>. QED  BY <1>2, <3>2, <3>3
  <2>. QED  BY <2>1
<1>. HIDE DEF U
<1>3. Nat \subseteq U
  BY <1>1, <1>2, NumberInduction
<1>. QED  BY <1>3, LenProperties DEF U

\* The prefixes of a list without the elements of a name: what the recursion in
\* Without defines.
Kept(kept, s, name, n) ==
  kept = [i \in 0 .. n |-> IF i = 0 THEN <<>>
                           ELSE IF s[i] = name THEN kept[i - 1]
                           ELSE Append(kept[i - 1], s[i])]

LEMMA KeptExists ==
  ASSUME NEW s, NEW name
  PROVE  \A n \in Nat : \E kept : Kept(kept, s, name, n)
<1>. DEFINE T == {n \in Nat : \E kept : Kept(kept, s, name, n)}
<1>1. 0 \in T
  <2>1. Kept([i \in 0 .. 0 |-> <<>>], s, name, 0)
    BY DEF Kept
  <2>. QED  BY <2>1
<1>2. ASSUME NEW n \in Nat, n \in T PROVE n + 1 \in T
  <2>1. PICK f : Kept(f, s, name, n)
    BY <1>2
  <2>. DEFINE g == [i \in 0 .. n + 1 |->
         IF i = n + 1 THEN IF s[i] = name THEN f[n] ELSE Append(f[n], s[i]) ELSE f[i]]
  <2>2. ASSUME NEW i \in 0 .. n + 1
        PROVE  g[i] = IF i = 0 THEN <<>>
                      ELSE IF s[i] = name THEN g[i - 1] ELSE Append(g[i - 1], s[i])
    <3>1. CASE i = 0
      BY <2>1, <3>1 DEF Kept
    <3>2. CASE i \in 1 .. n
      <4>1. i - 1 \in 0 .. n /\ g[i - 1] = f[i - 1] /\ g[i] = f[i]
        BY <3>2
      <4>2. i \in 0 .. n /\ i # 0
        BY <3>2
      <4>3. f[i] = IF s[i] = name THEN f[i - 1] ELSE Append(f[i - 1], s[i])
        BY <2>1, <4>2 DEF Kept
      <4>. QED  BY <3>2, <4>1, <4>3
    <3>3. CASE i = n + 1
      BY <3>3
    <3>. QED  BY <3>1, <3>2, <3>3
  <2>3. Kept(g, s, name, n + 1)
    BY <2>2 DEF Kept
  <2>. QED  BY <2>3
<1>. HIDE DEF T
<1>3. Nat \subseteq T
  BY <1>1, <1>2, NumberInduction
<1>. QED  BY <1>3 DEF T

LEMMA WithoutIsKept ==
  ASSUME NEW s, NEW name, Len(s) \in Nat
  PROVE  \E kept : Kept(kept, s, name, Len(s)) /\ Without(s, name) = kept[Len(s)]
<1>1. Without(s, name) = (CHOOSE kept : Kept(kept, s, name, Len(s)))[Len(s)]
  BY DEF Without, Kept
<1>. QED  BY <1>1, KeptExists

\* The recursion depends on the prefix it has seen only.
LEMMA KeptAgree ==
  ASSUME NEW s, NEW t, NEW name, NEW n \in Nat, NEW m \in Nat, n <= m,
         \A i \in 1 .. n : s[i] = t[i],
         NEW f, Kept(f, s, name, n), NEW g, Kept(g, t, name, m)
  PROVE  f[n] = g[n]
<1>. DEFINE T == {k \in Nat : k <= n => f[k] = g[k]}
<1>1. 0 \in T
  BY DEF Kept
<1>2. ASSUME NEW k \in Nat, k \in T PROVE k + 1 \in T
  <2>. SUFFICES ASSUME k + 1 <= n PROVE f[k + 1] = g[k + 1]
    OBVIOUS
  <2>1. /\ k + 1 \in 0 .. n /\ k + 1 \in 0 .. m /\ k + 1 # 0 /\ (k + 1) - 1 = k
        /\ k + 1 \in 1 .. n /\ f[k] = g[k]
    BY <1>2
  <2>2. f[k + 1] = IF s[k + 1] = name THEN f[k] ELSE Append(f[k], s[k + 1])
    BY <2>1 DEF Kept
  <2>3. g[k + 1] = IF t[k + 1] = name THEN g[k] ELSE Append(g[k], t[k + 1])
    BY <2>1 DEF Kept
  <2>. QED  BY <2>1, <2>2, <2>3
<1>. HIDE DEF T
<1>3. Nat \subseteq T
  BY <1>1, <1>2, NumberInduction
<1>. QED  BY <1>3 DEF T

LEMMA WithoutEmpty ==
  ASSUME NEW name  PROVE Without(<<>>, name) = <<>>
<1>1. Len(<<>>) = 0
  BY EmptySeq
<1>2. PICK f : Kept(f, <<>>, name, 0) /\ Without(<<>>, name) = f[0]
  BY <1>1, WithoutIsKept
<1>. QED  BY <1>2 DEF Kept

LEMMA WithoutAppend ==
  ASSUME NEW S, NEW s \in Seq(S), NEW x \in S, NEW name
  PROVE  Without(Append(s, x), name) =
           IF x = name THEN Without(s, name) ELSE Append(Without(s, name), x)
<1>1. /\ Len(s) \in Nat /\ Len(Append(s, x)) = Len(s) + 1
      /\ \A i \in 1 .. Len(s) : Append(s, x)[i] = s[i]
      /\ Append(s, x)[Len(s) + 1] = x
  BY AppendProperties, LenProperties
<1>2. PICK f : Kept(f, s, name, Len(s)) /\ Without(s, name) = f[Len(s)]
  BY <1>1, WithoutIsKept
<1>. DEFINE t == Append(s, x)
           n == Len(s)
<1>. HIDE DEF t, n
<1>3. Len(t) \in Nat
  BY <1>1 DEF t, n
<1>4. PICK g : Kept(g, t, name, Len(t)) /\ Without(t, name) = g[Len(t)]
  BY <1>3, WithoutIsKept
<1>5. n \in Nat /\ Len(t) = n + 1 /\ t[n + 1] = x /\ \A i \in 1 .. n : s[i] = t[i]
  BY <1>1 DEF t, n
<1>6. f[n] = g[n]
  BY <1>2, <1>4, <1>5, KeptAgree DEF n
<1>7. g[n + 1] = IF x = name THEN g[n] ELSE Append(g[n], x)
  <2>1. n + 1 \in 0 .. n + 1 /\ n + 1 # 0 /\ (n + 1) - 1 = n
    BY <1>5
  <2>. QED  BY <1>4, <1>5, <2>1 DEF Kept
<1>. QED  BY <1>2, <1>4, <1>5, <1>6, <1>7 DEF t, n

\* Nothing of that name is left, and a list that has nothing of it stays.
LEMMA WithoutType ==
  ASSUME NEW S, NEW name
  PROVE  \A s \in Seq(S) : Without(s, name) \in Seq(S \ {name})
<1>. DEFINE T == {s \in Seq(S) : Without(s, name) \in Seq(S \ {name})}
<1>1. <<>> \in T
  BY WithoutEmpty, EmptySeq
<1>2. ASSUME NEW s \in Seq(S), NEW x \in S, s \in T PROVE Append(s, x) \in T
  <2>1. Append(s, x) \in Seq(S)
    BY AppendProperties
  <2>2. CASE x = name
    BY <1>2, <2>1, <2>2, WithoutAppend
  <2>3. CASE x # name
    <3>1. Append(Without(s, name), x) \in Seq(S \ {name})
      BY <1>2, <2>3, AppendProperties
    <3>. QED  BY <2>1, <2>3, <3>1, WithoutAppend
  <2>. QED  BY <2>2, <2>3
<1>. HIDE DEF T
<1>3. Seq(S) \subseteq T
  BY <1>1, <1>2, ListInduction
<1>. QED  BY <1>3 DEF T

LEMMA WithoutNothing ==
  ASSUME NEW S, NEW name, name \notin S
  PROVE  \A s \in Seq(S) : Without(s, name) = s
<1>. DEFINE T == {s \in Seq(S) : Without(s, name) = s}
<1>1. <<>> \in T
  BY WithoutEmpty, EmptySeq
<1>2. ASSUME NEW s \in Seq(S), NEW x \in S, s \in T PROVE Append(s, x) \in T
  <2>1. Append(s, x) \in Seq(S)
    BY AppendProperties
  <2>2. x # name
    OBVIOUS
  <2>. QED  BY <1>2, <2>1, <2>2, WithoutAppend
<1>. HIDE DEF T
<1>3. Seq(S) \subseteq T
  BY <1>1, <1>2, ListInduction
<1>. QED  BY <1>3 DEF T

-----------------------------------------------------------------------------
(* Create leaves the host as it should.                                    *)

\* (The provers do not know that a literal is an element of STRING.)
Names == STRING \cup {"sentry", "quickclaw", "none"}

Config == [ok : BOOLEAN, mappings : Seq(Names), token : Names, slack : Names]

HostTypeOK ==
  /\ oc \in Config
  /\ user \in Seq(STRING \ {"sentry"})
  /\ edits \in Nat
  /\ jobs \in Seq(CronJobs)
  /\ rules \in {0, 1}

AtMostOnce(s, x) == \A i, k \in DOMAIN s : s[i] = x /\ s[k] = x => i = k

LEMMA OwnNames ==
  /\ "sentry" \in Names /\ "quickclaw" \in Names /\ "none" \in Names
  /\ STRING \ {"sentry"} \subseteq Names \ {"sentry"}
  /\ Names \ {"sentry"} \subseteq Names
BY DEF Names

\* A name that is not in a list can be appended once.
LEMMA AppendOnce ==
  ASSUME NEW S, NEW s \in Seq(S), NEW x \in S, NEW y
  PROVE  /\ x # y /\ AtMostOnce(s, y) => AtMostOnce(Append(s, x), y)
         /\ s \in Seq(S \ {y}) => AtMostOnce(Append(s, x), y)
<1>1. /\ DOMAIN s = 1 .. Len(s) /\ Len(s) \in Nat
      /\ DOMAIN Append(s, x) = 1 .. Len(s) + 1
      /\ \A i \in 1 .. Len(s) : Append(s, x)[i] = s[i]
      /\ Append(s, x)[Len(s) + 1] = x
  BY AppendProperties, LenProperties
<1>2. s \in Seq(S \ {y}) => \A i \in 1 .. Len(s) : s[i] # y
  BY ElementOfSeq
<1>. QED  BY <1>1, <1>2 DEF AtMostOnce

\* A list of a finite set lists each of its elements, and once.
LEMMA SetToSeqLists ==
  ASSUME NEW S, IsFiniteSet(S)
  PROVE  SetToSeq(S) \in Seq(S) /\ IsInjective(SetToSeq(S)) /\ ToSet(SetToSeq(S)) = S
<1>. DEFINE n == Cardinality(S)
<1>1. n \in Nat /\ ExistsBijection(1 .. n, S)
  BY FS_CardinalityType
<1>2. \E f \in [1 .. n -> S] : IsInjective(f)
  BY <1>1 DEF ExistsBijection, Bijection, Injection
<1>3. PICK f \in [1 .. n -> S] : f = SetToSeq(S) /\ IsInjective(f)
  BY <1>2 DEF SetToSeq
<1>4. f \in Injection(1 .. n, S)
  BY <1>3 DEF Injection
<1>5. Cardinality(1 .. n) = n
  BY <1>1, FS_Interval
<1>6. f \in Surjection(1 .. n, S)
  BY <1>4, <1>5, FS_Injection
<1>. QED  BY <1>1, <1>3, <1>6, SeqDef DEF Surjection, ToSet

LEMMA ConcatLists ==
  ASSUME NEW S, NEW s \in Seq(S), NEW t \in Seq(S)
  PROVE  /\ s \o t \in Seq(S)
         /\ ToSet(s \o t) = ToSet(s) \cup ToSet(t)
         /\ IsInjective(s) /\ IsInjective(t) /\ ToSet(s) \cap ToSet(t) = {}
              => IsInjective(s \o t)
<1>1. /\ s \o t \in Seq(S) /\ Len(s \o t) = Len(s) + Len(t)
      /\ \A i \in 1 .. Len(s) + Len(t) :
           (s \o t)[i] = IF i <= Len(s) THEN s[i] ELSE t[i - Len(s)]
      /\ Len(s) \in Nat /\ Len(t) \in Nat
      /\ DOMAIN s = 1 .. Len(s) /\ DOMAIN t = 1 .. Len(t)
      /\ DOMAIN (s \o t) = 1 .. Len(s) + Len(t)
  BY ConcatProperties, LenProperties
<1>. DEFINE u == s \o t
<1>. HIDE DEF u
<1>2. ToSet(u) \subseteq ToSet(s) \cup ToSet(t)
  BY <1>1 DEF ToSet, u
<1>3. ASSUME NEW i \in 1 .. Len(s) PROVE i \in DOMAIN u /\ u[i] = s[i]
  BY <1>1 DEF u
<1>4. ASSUME NEW i \in 1 .. Len(t) PROVE Len(s) + i \in DOMAIN u /\ u[Len(s) + i] = t[i]
  BY <1>1 DEF u
<1>5. ToSet(s) \subseteq ToSet(u) /\ ToSet(t) \subseteq ToSet(u)
  BY <1>1, <1>3, <1>4 DEF ToSet
<1>6. ASSUME IsInjective(s), IsInjective(t), ToSet(s) \cap ToSet(t) = {},
             NEW a \in DOMAIN u, NEW b \in DOMAIN u, u[a] = u[b]
      PROVE  a = b
  <2>1. CASE a <= Len(s) /\ b <= Len(s)
    BY <1>1, <1>6, <2>1 DEF IsInjective, u
  <2>2. CASE a > Len(s) /\ b > Len(s)
    <3>1. a - Len(s) \in DOMAIN t /\ b - Len(s) \in DOMAIN t
      BY <1>1, <2>2 DEF u
    <3>2. u[a] = t[a - Len(s)] /\ u[b] = t[b - Len(s)]
      BY <1>1, <2>2 DEF u
    <3>3. a - Len(s) = b - Len(s)
      BY <1>6, <3>1, <3>2 DEF IsInjective
    <3>. QED  BY <1>1, <3>3 DEF u
  <2>3. CASE a <= Len(s) /\ b > Len(s)
    <3>1. a \in DOMAIN s /\ b - Len(s) \in DOMAIN t
      BY <1>1, <2>3 DEF u
    <3>2. u[a] = s[a] /\ u[b] = t[b - Len(s)]
      BY <1>1, <2>3 DEF u
    <3>3. u[a] \in ToSet(s) /\ u[b] \in ToSet(t)
      BY <3>1, <3>2 DEF ToSet
    <3>. QED  BY <1>6, <3>3
  <2>4. CASE a > Len(s) /\ b <= Len(s)
    <3>1. b \in DOMAIN s /\ a - Len(s) \in DOMAIN t
      BY <1>1, <2>4 DEF u
    <3>2. u[b] = s[b] /\ u[a] = t[a - Len(s)]
      BY <1>1, <2>4 DEF u
    <3>3. u[b] \in ToSet(s) /\ u[a] \in ToSet(t)
      BY <3>1, <3>2 DEF ToSet
    <3>. QED  BY <1>6, <3>3
  <2>. QED  BY <1>1, <2>1, <2>2, <2>3, <2>4 DEF u
<1>. QED  BY <1>1, <1>2, <1>5, <1>6 DEF IsInjective, u

\* The file that create writes: the user's mappings and one of its own.
LEMMA PatchTyped ==
  ASSUME HostTypeOK
  PROVE  /\ PatchedConfig \in Config
         /\ PatchedConfig.ok /\ "sentry" \in ToSet(PatchedConfig.mappings)
         /\ AtMostOnce(PatchedConfig.mappings, "sentry")
         /\ oc.ok /\ Without(oc.mappings, "sentry") = user
              => Without(PatchedConfig.mappings, "sentry") = user
<1>. DEFINE m == LoadedConfig.mappings
            w == Without(m, "sentry")
<1>1. m \in Seq(Names)
  BY EmptySeq DEF HostTypeOK, LoadedConfig, Config
<1>2. w \in Seq(Names \ {"sentry"})
  BY <1>1, WithoutType
<1>3. w \in Seq(Names)
  BY <1>2, OwnNames, SeqMonotonic
<1>4. PatchedConfig.mappings = Append(w, "sentry") /\ PatchedConfig.ok
  BY DEF PatchedConfig
<1>. HIDE DEF m, w
<1>5. /\ Append(w, "sentry") \in Seq(Names)
      /\ "sentry" \in ToSet(Append(w, "sentry"))
  <2>1. /\ Append(w, "sentry") \in Seq(Names)
        /\ Append(w, "sentry")[Len(w) + 1] = "sentry"
        /\ Len(w) + 1 \in DOMAIN Append(w, "sentry")
    BY <1>3, OwnNames, AppendProperties, LenProperties
  <2>. QED  BY <2>1 DEF ToSet
<1>6. AtMostOnce(Append(w, "sentry"), "sentry")
  BY <1>2, <1>3, OwnNames, AppendOnce
<1>7. Without(Append(w, "sentry"), "sentry") = w
  <2>1. Without(Append(w, "sentry"), "sentry") = Without(w, "sentry")
    BY <1>3, OwnNames, WithoutAppend
  <2>2. Without(w, "sentry") = w
    BY <1>2, WithoutNothing
  <2>. QED  BY <2>1, <2>2
<1>8. oc.ok => m = oc.mappings
  BY DEF LoadedConfig, m
<1>9. PatchedConfig \in Config
  BY <1>4, <1>5, OwnNames DEF PatchedConfig, Config
<1>. QED  BY <1>4, <1>5, <1>6, <1>7, <1>8, <1>9 DEF w

\* What openclaw lists is a list of jobs, and create adds what it does not see.
LEMMA JobsAdded ==
  ASSUME HostTypeOK, NEW W, W \subseteq CronJobs, jobs' = jobs \o SetToSeq(W)
  PROVE  /\ jobs' \in Seq(CronJobs)
         /\ ToSet(jobs') = ToSet(jobs) \cup W
         /\ IsInjective(jobs) /\ W \cap ToSet(jobs) = {} => IsInjective(jobs')
<1>1. IsFiniteSet(CronJobs)
  <2>1. IsFiniteSet({} \cup {"quickclaw-nightly-extraction"})
    BY FS_EmptySet, FS_AddElement
  <2>2. IsFiniteSet({} \cup {"quickclaw-nightly-extraction"}
                       \cup {"quickclaw-morning-priorities"})
    BY <2>1, FS_AddElement
  <2>3. IsFiniteSet({} \cup {"quickclaw-nightly-extraction"}
                       \cup {"quickclaw-morning-priorities"}
                       \cup {"quickclaw-ops-monitor"})
    BY <2>2, FS_AddElement
  <2>4. IsFiniteSet({} \cup {"quickclaw-nightly-extraction"}
                       \cup {"quickclaw-morning-priorities"}
                       \cup {"quickclaw-ops-monitor"}
                       \cup {"quickclaw-coding-heartbeat"})
    BY <2>3, FS_AddElement
  <2>5. CronJobs = {} \cup {"quickclaw-nightly-extraction"}
                       \cup {"quickclaw-morning-priorities"}
                       \cup {"quickclaw-ops-monitor"}
                       \cup {"quickclaw-coding-heartbeat"}
    BY DEF CronJobs
  <2>. QED  BY <2>4, <2>5
<1>2. IsFiniteSet(W)
  BY <1>1, FS_Subset
<1>3. SetToSeq(W) \in Seq(W) /\ IsInjective(SetToSeq(W)) /\ ToSet(SetToSeq(W)) = W
  BY <1>2, SetToSeqLists
<1>4. SetToSeq(W) \in Seq(CronJobs) /\ jobs \in Seq(CronJobs)
  BY <1>3, SeqMonotonic DEF HostTypeOK
<1>. HIDE DEF CronJobs
<1>. QED  BY <1>3, <1>4, ConcatLists

\* What create does to the list of jobs: it adds those it has not seen, but for
\* those whose command fails.
LEMMA CronJobsStep ==
  ASSUME SetupCronJobs
  PROVE  \E listed \in BOOLEAN, W \in SUBSET CronJobs :
           /\ listed => W \cap ToSet(jobs) = {}
           /\ jobs' = jobs \o SetToSeq(W)
           /\ faults \subseteq faults' /\ ("blind" \notin faults' => listed)
           /\ acts' = {} /\ "killed" \notin faults' => CronJobs \subseteq W \cup ToSet(jobs)
<1>. DEFINE wanted(listed) == IF listed THEN CronJobs \ ToSet(jobs) ELSE CronJobs
            failed(listed, lost) == lost \cap wanted(listed)
<1>1. PICK listed \in BOOLEAN, lost \in {l \cap CronJobs : l \in Losses},
           killed \in BOOLEAN :
        /\ jobs' = jobs \o SetToSeq(wanted(listed) \ failed(listed, lost))
        /\ acts' = IF failed(listed, lost) # {} /\ ~killed THEN acts \cup {"cron"} ELSE acts
        /\ faults' = faults \cup (IF listed THEN {} ELSE {"blind"})
             \cup (IF failed(listed, lost) # {} /\ killed THEN {"killed"} ELSE {})
  BY DEF SetupCronJobs
<1>2. wanted(listed) \ failed(listed, lost) \in SUBSET CronJobs
  OBVIOUS
<1>3. listed => (wanted(listed) \ failed(listed, lost)) \cap ToSet(jobs) = {}
  OBVIOUS
<1>4. faults \subseteq faults' /\ ("blind" \notin faults' => listed)
  BY <1>1
<1>5. acts' = {} /\ "killed" \notin faults' => failed(listed, lost) = {}
  BY <1>1
<1>6. CronJobs \subseteq wanted(listed) \cup ToSet(jobs)
  OBVIOUS
<1>. QED  BY <1>1, <1>2, <1>3, <1>4, <1>5, <1>6

RerunInv == HostTypeOK /\ RerunsKeepTheHost

LEMMA RerunInit == Init => RerunInv
<1>. SUFFICES ASSUME Init PROVE RerunInv
  OBVIOUS
<1>1. ProvisionInit
  BY DEF Init
<1>2. PICK h \in Hosts : oc = h.oc /\ user = h.oc.mappings
  BY <1>1 DEF ProvisionInit
<1>3. /\ oc \in [ok : BOOLEAN, mappings : Seq(STRING \ {"sentry"}), token : STRING,
                 slack : STRING]
      /\ user = oc.mappings
  BY <1>2, ProvisionAssumption DEF Host
<1>4. user \in Seq(STRING \ {"sentry"}) /\ user \in Seq(Names)
  BY <1>3, OwnNames, SeqMonotonic
<1>5. HostTypeOK
  <2>1. oc \in Config
    BY <1>3, <1>4 DEF Config, Names
  <2>. QED  BY <1>1, <1>4, <2>1, EmptySeq DEF ProvisionInit, HostTypeOK
<1>6. Without(oc.mappings, "sentry") = user /\ AtMostOnce(oc.mappings, "sentry")
  BY <1>3, <1>4, WithoutNothing, ElementOfSeq, LenProperties DEF AtMostOnce
<1>7. IsInjective(jobs)
  BY <1>1 DEF ProvisionInit, IsInjective
<1>. QED  BY <1>5, <1>6, <1>7 DEF RerunInv, RerunsKeepTheHost, AtMostOnce

LEMMA RerunNext == RerunInv /\ [Next]_vars => RerunInv'
<1>. SUFFICES ASSUME RerunInv, [Next]_vars PROVE RerunInv'
  OBVIOUS
<1>. USE DEF RerunInv, provisionVars, host, tree, run, past
<1>1. ASSUME UNCHANGED <<oc, user, edits, jobs>>, rules' \in {0, 1}, faults \subseteq faults'
      PROVE  RerunInv'
  BY <1>1 DEF HostTypeOK, RerunsKeepTheHost
<1>2. CASE UNCHANGED vars \/ SessionNext \/ ChecklistNext
  BY <1>1, <1>2 DEF vars, SessionNext, ChecklistNext, HostTypeOK
<1>3. CASE HostNext
  <2>1. ProvisionNext
    BY <1>3 DEF HostNext
  <2>2. CASE SetupCronJobs
    <3>1. PICK listed \in BOOLEAN, W \in SUBSET CronJobs :
            /\ listed => W \cap ToSet(jobs) = {}
            /\ jobs' = jobs \o SetToSeq(W)
            /\ faults \subseteq faults' /\ ("blind" \notin faults' => listed)
      BY <2>2, CronJobsStep
    <3>4. /\ jobs' \in Seq(CronJobs)
          /\ listed /\ IsInjective(jobs) => IsInjective(jobs')
      BY <3>1, JobsAdded
    <3>5. UNCHANGED <<oc, user, edits, rules>>
      BY <2>2 DEF SetupCronJobs
    <3>. QED  BY <3>1, <3>4, <3>5 DEF HostTypeOK, RerunsKeepTheHost
  <2>3. CASE SetupSentryPipeline
    <3>1. /\ UNCHANGED <<user, edits, jobs>> /\ rules' \in {0, 1}
          /\ oc' = IF cmd.allowGlobal THEN PatchedConfig ELSE oc
          /\ faults' = IF cmd.allowGlobal /\ ~oc.ok THEN faults \cup {"erased"} ELSE faults
      BY <2>3 DEF SetupSentryPipeline, HostTypeOK
    <3>2. CASE cmd.allowGlobal
      BY <3>1, <3>2, PatchTyped DEF HostTypeOK, RerunsKeepTheHost, AtMostOnce
    <3>3. CASE ~cmd.allowGlobal
      BY <1>1, <3>1, <3>3
    <3>. QED  BY <3>2, <3>3
  <2>4. CASE UserMaps
    <3>1. PICK x : x = UserMappings[edits']
      OBVIOUS
    <3>2. /\ edits' = edits + 1 /\ oc.ok /\ edits < Len(UserMappings)
          /\ user' = Append(user, x) /\ oc' = [oc EXCEPT !.mappings = Append(@, x)]
          /\ UNCHANGED <<jobs, rules, faults>>
      BY <2>4, <3>1 DEF UserMaps
    <3>3. x \in STRING \ {"sentry"} /\ edits' \in Nat
      BY <3>1, <3>2, ProvisionAssumption, ElementOfSeq, LenProperties DEF HostTypeOK
    <3>4. /\ oc.mappings \in Seq(Names) /\ x \in Names /\ oc'.ok = oc.ok
          /\ oc'.mappings = Append(oc.mappings, x)
      BY <3>2, <3>3, OwnNames DEF HostTypeOK, Config
    <3>5. /\ oc'.mappings \in Seq(Names) /\ user' \in Seq(STRING \ {"sentry"})
          /\ Without(oc'.mappings, "sentry") = Append(Without(oc.mappings, "sentry"), x)
      <4>1. oc'.mappings \in Seq(Names)
        BY <3>4, AppendProperties
      <4>2. user' \in Seq(STRING \ {"sentry"})
        <5>1. user \in Seq(STRING \ {"sentry"})
          BY DEF HostTypeOK
        <5>. QED  BY <3>2, <3>3, <5>1, AppendProperties
      <4>3. Without(oc'.mappings, "sentry") = Append(Without(oc.mappings, "sentry"), x)
        BY <3>3, <3>4, WithoutAppend
      <4>. QED  BY <4>1, <4>2, <4>3
    <3>6. AtMostOnce(oc.mappings, "sentry") => AtMostOnce(oc'.mappings, "sentry")
      <4>1. x # "sentry"
        BY <3>3
      <4>2. AtMostOnce(oc.mappings, "sentry") => AtMostOnce(Append(oc.mappings, x), "sentry")
        BY <3>4, <4>1, AppendOnce
      <4>. QED  BY <3>4, <4>2
    <3>7. HostTypeOK'
      BY <3>2, <3>3, <3>5 DEF HostTypeOK, Config
    <3>. QED  BY <3>2, <3>4, <3>5, <3>6, <3>7 DEF RerunsKeepTheHost, AtMostOnce
  <2>5. CASE (\E o \in Options : Plan(o)) \/ Confirm \/ WriteWorkspaceDocs
             \/ SetupCodingOps \/ RunTasteKitBridge \/ WriteApplyReport \/ Return
             \/ Interrupt \/ (\E o \in Options \cup {DefaultOption} : Verify(o))
             \/ AgentRemembers
    BY <1>1, <2>5 DEF Plan, Confirm, WriteWorkspaceDocs, SetupCodingOps,
       RunTasteKitBridge, WriteApplyReport, Return, Interrupt, Verify, AgentRemembers,
       HostTypeOK
  <2>6. CASE Install \/ Onboard \/ SetupHooks
    BY <1>1, <2>6 DEF Install, Onboard, SetupHooks, HostTypeOK
  <2>. QED  BY <2>1, <2>2, <2>3, <2>4, <2>5, <2>6 DEF ProvisionNext, Create
<1>. QED  BY <1>2, <1>3 DEF Next

\* However often create runs, is interrupted and runs again, and whatever the user
\* adds meanwhile, the user's mappings stay as they are, with at most one of
\* QuickClaw's own, and each of its jobs is there at most once
\* (setupSentryPipeline, setupCronJobs).
THEOREM RerunsAreSafe == Spec => []RerunsKeepTheHost
<1>1. RerunInv => RerunsKeepTheHost
  BY DEF RerunInv
<1>. QED  BY <1>1, RerunInit, RerunNext, PTL DEF Spec

-----------------------------------------------------------------------------
(* A create that reports success has done what verify looks for.           *)

Checked == {"onboard", "docs", "ops", "hooks", "cron", "sentry", "bridge", "report",
            "reported"}
Documented == Checked \ {"onboard", "docs"}
Scripted == Documented \ {"ops"}
Hooked == Scripted \ {"hooks"}
Scheduled == Hooked \ {"cron"}
Piped == Scheduled \ {"sentry"}

\* No step so far has recorded a failure, and none was killed.
Clean == acts = {} /\ "killed" \notin faults

\* What the steps behind create have left: the checks passed, and each step that
\* has recorded no failure did what verify looks for.
ChecksPassed ==
  /\ pc = "confirm" => check = Preflight(bins)
  /\ pc \in Checked => Preflight(bins) = {}

FilesWritten ==
  /\ pc \in Documented => Documents \subseteq files
  /\ pc \in Scripted => Scripts \subseteq files
  /\ pc \in Piped /\ ~cmd.allowGlobal => "openclaw.config.patch.json" \in files

HostPrepared ==
  /\ pc \in Hooked /\ Clean => RequiredHooks \subseteq hooks
  /\ pc \in Scheduled /\ Clean => CronJobs \subseteq ToSet(jobs)
  /\ pc \in Piped /\ Clean => oc.ok /\ "sentry" \in ToSet(oc.mappings) /\ rules = 1

SuccessIsClean == pc = "reported" /\ reports = "success" => acts = {}

ProgressInv == ChecksPassed /\ FilesWritten /\ HostPrepared /\ SuccessIsClean

LEMMA ProgressInit == Init => ProgressInv
BY DEF Init, ProvisionInit, ProgressInv, ChecksPassed, FilesWritten, HostPrepared,
       SuccessIsClean, Checked, Documented, Scripted, Hooked, Scheduled, Piped

LEMMA SamePreflight ==
  ASSUME UNCHANGED <<env, bins>>  PROVE Preflight(bins)' = Preflight(bins)
BY DEF Preflight, Missing

\* Between the steps of create the user, the agent and verify leave what it has
\* done as it is.
LEMMA OthersKeepProgress ==
  ASSUME RerunInv, ProgressInv,
         \/ UserMaps \/ AgentRemembers
         \/ \E o \in Options \cup {DefaultOption} : Verify(o)
  PROVE  ProgressInv'
<1>. USE DEF host, tree, run, past
<1>1. UNCHANGED <<env, bins, gateway, hooks, jobs, rules, files, reports, pc, cmd, check,
                  acts, faults>>
  BY DEF UserMaps, AgentRemembers, Verify
<1>2. Preflight(bins)' = Preflight(bins)
  BY <1>1, SamePreflight
<1>3. oc.ok /\ "sentry" \in ToSet(oc.mappings) => oc'.ok /\ "sentry" \in ToSet(oc'.mappings)
  <2>1. CASE UserMaps
    <3>1. PICK x : x = UserMappings[edits']
      OBVIOUS
    <3>2. /\ oc' = [oc EXCEPT !.mappings = Append(@, x)]
          /\ edits' = edits + 1 /\ edits < Len(UserMappings)
      BY <2>1, <3>1 DEF UserMaps
    <3>3. x \in Names /\ oc.mappings \in Seq(Names)
      <4>1. edits' \in 1 .. Len(UserMappings)
        BY <3>2, ProvisionAssumption, LenProperties DEF RerunInv, HostTypeOK
      <4>2. x \in STRING \ {"sentry"}
        BY <3>1, <4>1, ProvisionAssumption, ElementOfSeq
      <4>. QED  BY <4>2, OwnNames DEF RerunInv, HostTypeOK, Config
    <3>4. oc'.ok = oc.ok /\ oc'.mappings = Append(oc.mappings, x)
      BY <3>2 DEF RerunInv, HostTypeOK, Config
    <3>5. ToSet(oc.mappings) \subseteq ToSet(Append(oc.mappings, x))
      BY <3>3, AppendProperties, LenProperties DEF ToSet
    <3>. QED  BY <3>4, <3>5
  <2>2. CASE UNCHANGED oc
    BY <2>2
  <2>. QED  BY <2>1, <2>2 DEF AgentRemembers, Verify
<1>4. ChecksPassed'
  BY <1>1, <1>2 DEF ProgressInv, ChecksPassed, Checked
<1>5. FilesWritten'
  BY <1>1 DEF ProgressInv, FilesWritten
<1>6. HostPrepared' /\ SuccessIsClean'
  BY <1>1, <1>3 DEF ProgressInv, HostPrepared, SuccessIsClean, Clean
<1>. QED  BY <1>4, <1>5, <1>6 DEF ProgressInv

LEMMA CreateKeepsProgress ==
  ASSUME RerunInv, ProgressInv, Create \/ Interrupt
  PROVE  ProgressInv'
<1>. USE DEF host, tree, run, past, Checked, Documented, Scripted, Hooked, Scheduled, Piped
\* A step to the start, or to a question, has nothing behind it.
<1>1. ASSUME pc' \in {"idle", "install"} PROVE ProgressInv'
  BY <1>1 DEF ProgressInv, ChecksPassed, FilesWritten, HostPrepared, SuccessIsClean
<1>2. ASSUME pc' = "confirm", check' = Preflight(bins)' PROVE ProgressInv'
  BY <1>2 DEF ProgressInv, ChecksPassed, FilesWritten, HostPrepared, SuccessIsClean
<1>3. ASSUME NEW o \in Options, Plan(o) PROVE ProgressInv'
  <2>1. check' = Preflight(bins)'
    BY <1>3, SamePreflight DEF Plan
  <2>. QED  BY <1>1, <1>2, <1>3, <2>1 DEF Plan
<1>4. CASE Install
  <2>1. check' = Preflight(bins)' /\ pc' = "confirm"
    <3>1. env' = env
      BY <1>4 DEF Install
    <3>2. check' = Preflight(bins')
      BY <1>4 DEF Install
    <3>. QED  BY <1>4, <3>1, <3>2 DEF Install, Preflight, Missing
  <2>. QED  BY <1>2, <2>1
<1>5. CASE Confirm \/ Onboard
  <2>1. CASE pc' = "idle"
    BY <1>1, <2>1
  <2>2. CASE pc' # "idle"
    <3>1. pc' \in {"onboard", "docs"} /\ UNCHANGED <<env, bins>> /\ Preflight(bins) = {}
      BY <1>5, <2>2 DEF Confirm, Onboard, ProgressInv, ChecksPassed
    <3>2. Preflight(bins)' = {}
      BY <3>1, SamePreflight
    <3>. QED  BY <3>1, <3>2 DEF ProgressInv, ChecksPassed, FilesWritten, HostPrepared,
                                SuccessIsClean
  <2>. QED  BY <2>1, <2>2
\* The steps that may end up in the report.
<1>6. ASSUME pc \in Checked, pc' \in Checked, UNCHANGED <<env, bins>> PROVE ChecksPassed'
  BY <1>6, SamePreflight DEF ProgressInv, ChecksPassed
<1>7. CASE WriteWorkspaceDocs \/ SetupCodingOps
  <2>1. ChecksPassed'
    BY <1>6, <1>7 DEF WriteWorkspaceDocs, SetupCodingOps
  <2>2. FilesWritten'
    BY <1>7 DEF WriteWorkspaceDocs, SetupCodingOps, ProgressInv, FilesWritten, Documents
  <2>3. HostPrepared' /\ SuccessIsClean'
    BY <1>7 DEF WriteWorkspaceDocs, SetupCodingOps, HostPrepared, SuccessIsClean
  <2>. QED  BY <2>1, <2>2, <2>3 DEF ProgressInv
<1>8. CASE SetupHooks
  <2>1. ChecksPassed'
    BY <1>6, <1>8 DEF SetupHooks
  <2>2. FilesWritten' /\ SuccessIsClean'
    BY <1>8 DEF SetupHooks, ProgressInv, FilesWritten, SuccessIsClean
  <2>3. Clean' => RequiredHooks \subseteq hooks'
    BY <1>8 DEF SetupHooks, Clean
  <2>4. HostPrepared'
    BY <1>8, <2>3 DEF SetupHooks, HostPrepared
  <2>. QED  BY <2>1, <2>2, <2>4 DEF ProgressInv
<1>9. CASE SetupCronJobs
  <2>1. PICK W \in SUBSET CronJobs :
          /\ jobs' = jobs \o SetToSeq(W)
          /\ acts' = {} /\ "killed" \notin faults' => CronJobs \subseteq W \cup ToSet(jobs)
    BY <1>9, CronJobsStep
  <2>2. ToSet(jobs') = ToSet(jobs) \cup W
    BY <2>1, JobsAdded DEF RerunInv
  <2>3. /\ pc = "cron" /\ pc' = "sentry" /\ acts \subseteq acts' /\ faults \subseteq faults'
        /\ UNCHANGED <<env, bins, hooks, oc, rules, files, cmd, reports>>
    BY <1>9 DEF SetupCronJobs
  <2>4. ChecksPassed'
    BY <1>6, <2>3
  <2>5. FilesWritten' /\ SuccessIsClean'
    BY <2>3 DEF ProgressInv, FilesWritten, SuccessIsClean
  <2>6. HostPrepared'
    BY <2>1, <2>2, <2>3 DEF ProgressInv, HostPrepared, Clean
  <2>. QED  BY <2>4, <2>5, <2>6 DEF ProgressInv
<1>10. CASE SetupSentryPipeline
  <2>1. /\ pc = "sentry" /\ pc' = "bridge" /\ faults \subseteq faults'
        /\ UNCHANGED <<env, bins, hooks, jobs, cmd, reports>>
        /\ files \subseteq files'
        /\ ~cmd.allowGlobal => "openclaw.config.patch.json" \in files'
        /\ oc' = IF cmd.allowGlobal THEN PatchedConfig ELSE oc
    BY <1>10 DEF SetupSentryPipeline
  <2>2. acts' = {} => acts = {} /\ cmd.allowGlobal /\ rules' = 1
    BY <1>10 DEF SetupSentryPipeline, RerunInv, HostTypeOK
  <2>3. acts' = {} => oc'.ok /\ "sentry" \in ToSet(oc'.mappings)
    BY <2>1, <2>2, PatchTyped DEF RerunInv
  <2>4. ChecksPassed'
    BY <1>6, <2>1
  <2>5. FilesWritten' /\ SuccessIsClean'
    BY <2>1 DEF ProgressInv, FilesWritten, SuccessIsClean
  <2>6. HostPrepared'
    BY <2>1, <2>2, <2>3 DEF ProgressInv, HostPrepared, Clean
  <2>. QED  BY <2>4, <2>5, <2>6 DEF ProgressInv
<1>11. CASE RunTasteKitBridge \/ WriteApplyReport
  <2>1. /\ pc \in Piped /\ pc' \in Piped /\ acts \subseteq acts'
        /\ UNCHANGED <<env, bins, gateway, hooks, jobs, oc, rules, files, cmd, faults>>
        /\ pc' = "reported" /\ reports' = "success" => acts' = {}
    BY <1>11 DEF RunTasteKitBridge, WriteApplyReport
  <2>2. ChecksPassed'
    BY <1>6, <2>1
  <2>3. FilesWritten' /\ SuccessIsClean'
    BY <2>1 DEF ProgressInv, FilesWritten, SuccessIsClean
  <2>4. HostPrepared'
    BY <2>1 DEF ProgressInv, HostPrepared, Clean
  <2>. QED  BY <2>2, <2>3, <2>4 DEF ProgressInv
<1>12. CASE Return \/ Interrupt
  BY <1>1, <1>12 DEF Return, Interrupt
<1>. QED  BY <1>3, <1>4, <1>5, <1>7, <1>8, <1>9, <1>10, <1>11, <1>12 DEF Create

LEMMA ProgressNext == RerunInv /\ ProgressInv /\ [Next]_vars => ProgressInv'
<1>. SUFFICES ASSUME RerunInv, ProgressInv, [Next]_vars PROVE ProgressInv'
  OBVIOUS
<1>1. CASE UNCHANGED provisionVars
  <2>1. UNCHANGED <<env, bins, hooks, jobs, oc, rules, files, reports, pc, cmd, check,
                    acts, faults>>
    BY <1>1 DEF provisionVars, host, tree, run, past
  <2>2. Preflight(bins)' = Preflight(bins)
    BY <2>1, SamePreflight
  <2>. QED
    BY <2>1, <2>2 DEF ProgressInv, ChecksPassed, FilesWritten, HostPrepared,
                      SuccessIsClean, Clean
<1>2. CASE ProvisionNext
  BY <1>2, OthersKeepProgress, CreateKeepsProgress DEF ProvisionNext
<1>. QED  BY <1>1, <1>2 DEF Next, HostNext, SessionNext, ChecklistNext, vars

\* A create that reports success, and none of whose commands was killed, leaves
\* nothing for verify to complain of but a gateway, or a command that verify runs,
\* which does not answer, for all options, environments and hosts (create.ts,
\* verify.ts, runShell).
THEOREM SuccessSatisfiesVerify == Spec => []SuccessIsVerified
<1>1. RerunInv /\ ProgressInv => SuccessIsVerified
  <2>. SUFFICES ASSUME RerunInv, ProgressInv, pc = "reported", reports = "success",
                       "killed" \notin faults
       PROVE  /\ \A down \in SUBSET RuntimeCommands :
                   VerifyFails(cmd, down)
                     \subseteq {"openclaw_health", "sentry_webhook_route_test"} \cup down
              /\ oc.ok /\ "sentry" \in ToSet(oc.mappings) /\ rules = 1
    BY DEF SuccessIsVerified
  <2>1. Clean /\ pc \in Piped /\ pc \in Scheduled /\ pc \in Hooked
        /\ pc \in Scripted /\ pc \in Documented /\ pc \in Checked
    BY DEF ProgressInv, SuccessIsClean, Clean, Checked, Documented, Scripted, Hooked,
           Scheduled, Piped
  <2>2. Preflight(bins) = {} /\ OpenClawBinary
    <3>1. Preflight(bins) = {}
      BY <2>1 DEF ProgressInv, ChecksPassed
    <3>. QED  BY <3>1 DEF Preflight, Missing, OpenClawBinary, Binaries
  <2>3. \A down : RuntimeFails(down) \subseteq {"openclaw_health"} \cup down
    BY <2>1, <2>2 DEF ProgressInv, HostPrepared, RuntimeFails
  <2>4. RequiredFiles(cmd) \subseteq files
    BY <2>1 DEF ProgressInv, FilesWritten, RequiredFiles, Documents, Scripts
  <2>. QED  BY <2>1, <2>2, <2>3, <2>4 DEF ProgressInv, HostPrepared, VerifyFails
<1>. QED  BY <1>1, RerunInit, RerunNext, ProgressInit, ProgressNext, PTL DEF Spec
=============================================================================
