---------------------------- MODULE MonitorProofs ----------------------------
(***************************************************************************)
(* Proofs about autoManage (Ingestion, Dashboard): every line of a trace   *)
(* file is stored once and in order, the agent's row says what the trace   *)
(* files say, and a card that the stream has set follows the agent.        *)
(*                                                                         *)
(* The first part is about Only, the entries of a sequence that are in a   *)
(* set: it is a recursive function, so what it computes is proved by       *)
(* induction on its argument (NumberInduction).  The second part is about  *)
(* one read of a file: which lines it completes, whatever pieces arrived.  *)
(* The third is the invariant OnceInv and its steps; the fourth the card;  *)
(* the fifth the agent's row.                                              *)
(***************************************************************************)
EXTENDS Dashboard, SequenceTheorems, WellFoundedInduction, FiniteSetTheorems, TLAPS

-----------------------------------------------------------------------------
(* What Only does.                                                         *)

\* The library's induction principles take an operator; this one takes the
\* set of the numbers of which the fact holds.
LEMMA NumberInduction ==
  ASSUME NEW T, 0 \in T, \A n \in Nat : n \in T => n + 1 \in T
  PROVE  Nat \subseteq T
<1>. SUFFICES ASSUME Nat \ T # {} PROVE FALSE
  OBVIOUS
<1>1. \A x, y \in Nat : <<x, y>> \in OpToRel(<, Nat) <=> x < y
  BY DEF OpToRel
<1>2. PICK n \in Nat \ T : \A y \in Nat \ T : ~(<<y, n>> \in OpToRel(<, Nat))
  BY NatLessThanWellFounded, WFMin
<1>3. n \in Nat /\ n \notin T
  OBVIOUS
<1>4. n # 0
  BY <1>3
<1>5. n - 1 \in Nat /\ n - 1 < n /\ (n - 1) + 1 = n
  BY <1>3, <1>4
<1>6. n - 1 \in T
  BY <1>1, <1>2, <1>3, <1>5
<1>. QED  BY <1>3, <1>5, <1>6

\* What the recursion in Only defines.
Picked(up, s, S, n) ==
  up = [k \in 0 .. n |->
          IF k = 0 THEN <<>>
          ELSE IF s[k] \in S THEN Append(up[k - 1], s[k])
          ELSE up[k - 1]]

\* Only, of the first n entries.
OnlyTo(s, S, n) == (CHOOSE up : Picked(up, s, S, n))[n]

LEMMA PickedExists ==
  ASSUME NEW s, NEW S  PROVE \A n \in Nat : \E up : Picked(up, s, S, n)
<1>. DEFINE T == {n \in Nat : \E up : Picked(up, s, S, n)}
<1>1. 0 \in T
  <2>1. Picked([k \in 0 .. 0 |-> <<>>], s, S, 0)
    BY DEF Picked
  <2>. QED  BY <2>1
<1>2. ASSUME NEW n \in Nat, n \in T PROVE n + 1 \in T
  <2>1. PICK f : Picked(f, s, S, n)
    BY <1>2
  <2>. DEFINE g == [k \in 0 .. n + 1 |->
         IF k = n + 1
           THEN IF s[k] \in S THEN Append(f[n], s[k]) ELSE f[n]
           ELSE f[k]]
  <2>2. ASSUME NEW k \in 0 .. n + 1
        PROVE  g[k] = IF k = 0 THEN <<>>
                      ELSE IF s[k] \in S THEN Append(g[k - 1], s[k])
                      ELSE g[k - 1]
    <3>1. CASE k = 0
      BY <2>1, <3>1 DEF Picked
    <3>2. CASE k \in 1 .. n
      <4>1. k - 1 \in 0 .. n /\ g[k - 1] = f[k - 1] /\ g[k] = f[k]
        BY <3>2
      <4>2. k \in 0 .. n /\ k # 0
        BY <3>2
      <4>3. f[k] = IF s[k] \in S THEN Append(f[k - 1], s[k]) ELSE f[k - 1]
        BY <2>1, <4>2 DEF Picked
      <4>. QED  BY <3>2, <4>1, <4>3
    <3>3. CASE k = n + 1
      BY <3>3
    <3>. QED  BY <3>1, <3>2, <3>3
  <2>3. Picked(g, s, S, n + 1)
    BY <2>2 DEF Picked
  <2>. QED  BY <2>3
<1>. HIDE DEF T
<1>3. Nat \subseteq T
  BY <1>1, <1>2, NumberInduction
<1>. QED  BY <1>3 DEF T

\* Two sequences of which the same entries are taken.
Alike(s, S, t, T, n) ==
  \A i \in 1 .. n : /\ s[i] \in S <=> t[i] \in T
                    /\ s[i] \in S => s[i] = t[i]

LEMMA PickedAlike ==
  ASSUME NEW s, NEW S, NEW t, NEW T, NEW n \in Nat, NEW m \in Nat,
         NEW u, Picked(u, s, S, n), NEW v, Picked(v, t, T, m),
         NEW k \in Nat, k <= n, k <= m, Alike(s, S, t, T, k)
  PROVE  u[k] = v[k]
<1>. DEFINE I == {i \in Nat : i <= k => u[i] = v[i]}
<1>1. 0 \in I
  <2>1. 0 \in 0 .. n /\ 0 \in 0 .. m
    OBVIOUS
  <2>. QED  BY <2>1 DEF Picked
<1>2. ASSUME NEW i \in Nat, i \in I PROVE i + 1 \in I
  <2>. SUFFICES ASSUME i + 1 <= k PROVE u[i + 1] = v[i + 1]
    OBVIOUS
  <2>1. u[i] = v[i]
    BY <1>2
  <2>2. /\ i + 1 \in 0 .. n /\ i + 1 \in 0 .. m /\ i + 1 # 0
        /\ (i + 1) - 1 = i /\ i + 1 \in 1 .. k
    OBVIOUS
  <2>3. u[i + 1] = IF s[i + 1] \in S THEN Append(u[i], s[i + 1]) ELSE u[i]
    BY <2>2 DEF Picked
  <2>4. v[i + 1] = IF t[i + 1] \in T THEN Append(v[i], t[i + 1]) ELSE v[i]
    BY <2>2 DEF Picked
  <2>5. /\ s[i + 1] \in S <=> t[i + 1] \in T
        /\ s[i + 1] \in S => s[i + 1] = t[i + 1]
    BY <2>2 DEF Alike
  <2>. QED  BY <2>1, <2>3, <2>4, <2>5
<1>. HIDE DEF I
<1>3. Nat \subseteq I
  BY <1>1, <1>2, NumberInduction
<1>4. k \in I
  BY <1>3
<1>. QED  BY <1>4 DEF I

LEMMA OnlyIsOnlyTo ==
  ASSUME NEW s, NEW S  PROVE Only(s, S) = OnlyTo(s, S, Len(s))
BY DEF Only, OnlyTo, Picked

LEMMA OnlyToStep ==
  ASSUME NEW s, NEW S
  PROVE  /\ OnlyTo(s, S, 0) = <<>>
         /\ \A n \in Nat :
              /\ s[n + 1] \in S => OnlyTo(s, S, n + 1) = Append(OnlyTo(s, S, n), s[n + 1])
              /\ s[n + 1] \notin S => OnlyTo(s, S, n + 1) = OnlyTo(s, S, n)
<1>1. OnlyTo(s, S, 0) = <<>>
  <2>. DEFINE up == CHOOSE u : Picked(u, s, S, 0)
  <2>1. Picked(up, s, S, 0)
    BY PickedExists
  <2>2. OnlyTo(s, S, 0) = up[0]
    BY DEF OnlyTo
  <2>. HIDE DEF up
  <2>3. 0 \in 0 .. 0
    OBVIOUS
  <2>. QED  BY <2>1, <2>2, <2>3 DEF Picked
<1>2. ASSUME NEW n \in Nat
      PROVE  /\ s[n + 1] \in S => OnlyTo(s, S, n + 1) = Append(OnlyTo(s, S, n), s[n + 1])
             /\ s[n + 1] \notin S => OnlyTo(s, S, n + 1) = OnlyTo(s, S, n)
  <2>. DEFINE u == CHOOSE up : Picked(up, s, S, n)
              v == CHOOSE up : Picked(up, s, S, n + 1)
  <2>1. Picked(u, s, S, n) /\ Picked(v, s, S, n + 1)
    <3>1. n + 1 \in Nat
      OBVIOUS
    <3>. QED  BY <3>1, PickedExists
  <2>2. OnlyTo(s, S, n) = u[n] /\ OnlyTo(s, S, n + 1) = v[n + 1]
    BY DEF OnlyTo
  <2>. HIDE DEF u, v
  <2>3. u[n] = v[n]
    <3>1. Alike(s, S, s, S, n)
      BY DEF Alike
    <3>2. n + 1 \in Nat /\ n <= n + 1 /\ n <= n
      OBVIOUS
    <3>. QED  BY <2>1, <3>1, <3>2, PickedAlike
  <2>4. v[n + 1] = IF s[n + 1] \in S THEN Append(v[n], s[n + 1]) ELSE v[n]
    <3>1. n + 1 \in 0 .. n + 1 /\ n + 1 # 0 /\ (n + 1) - 1 = n
      OBVIOUS
    <3>. QED  BY <2>1, <3>1 DEF Picked
  <2>. QED  BY <2>2, <2>3, <2>4
<1>. QED  BY <1>1, <1>2

LEMMA OnlyToAlike ==
  ASSUME NEW s, NEW S, NEW t, NEW T, NEW n \in Nat, Alike(s, S, t, T, n)
  PROVE  OnlyTo(s, S, n) = OnlyTo(t, T, n)
<1>. DEFINE u == CHOOSE up : Picked(up, s, S, n)
            v == CHOOSE up : Picked(up, t, T, n)
<1>1. Picked(u, s, S, n) /\ Picked(v, t, T, n)
  BY PickedExists
<1>2. OnlyTo(s, S, n) = u[n] /\ OnlyTo(t, T, n) = v[n]
  BY DEF OnlyTo
<1>. HIDE DEF u, v
<1>3. n <= n
  OBVIOUS
<1>4. u[n] = v[n]
  BY <1>1, <1>3, PickedAlike
<1>. QED  BY <1>2, <1>4

LEMMA OnlyAlike ==
  ASSUME NEW s, NEW S, NEW t, NEW T, Len(s) \in Nat, Len(t) = Len(s),
         Alike(s, S, t, T, Len(s))
  PROVE  Only(s, S) = Only(t, T)
BY OnlyIsOnlyTo, OnlyToAlike

\* The places of the entries that are taken.
Places(h, t, s, S, n) ==
  /\ h \in [1 .. Len(t) -> 1 .. n]
  /\ \A i \in 1 .. Len(t) : t[i] = s[h[i]] /\ s[h[i]] \in S
  /\ \A i, j \in 1 .. Len(t) : i < j => h[i] < h[j]
  /\ \A k \in 1 .. n : s[k] \in S => \E i \in 1 .. Len(t) : h[i] = k

LEMMA OnlyToPlaces ==
  ASSUME NEW X, NEW s \in Seq(X), NEW S
  PROVE  \A n \in Nat : n <= Len(s) =>
           /\ OnlyTo(s, S, n) \in Seq(X)
           /\ \E h : Places(h, OnlyTo(s, S, n), s, S, n)
<1>. DEFINE I == {n \in Nat : n <= Len(s) =>
                    /\ OnlyTo(s, S, n) \in Seq(X)
                    /\ \E h : Places(h, OnlyTo(s, S, n), s, S, n)}
<1>0. Len(s) \in Nat
  BY LenProperties
<1>1. 0 \in I
  <2>1. OnlyTo(s, S, 0) = <<>>
    BY OnlyToStep
  <2>2. <<>> \in Seq(X) /\ Len(<<>>) = 0
    BY EmptySeq
  <2>3. 1 .. Len(<<>>) = {} /\ 1 .. 0 = {}
    BY <2>2
  <2>4. Places([i \in 1 .. Len(<<>>) |-> 0], <<>>, s, S, 0)
    BY <2>3 DEF Places
  <2>. QED  BY <2>1, <2>2, <2>4
<1>2. ASSUME NEW n \in Nat, n \in I PROVE n + 1 \in I
  <2>. SUFFICES ASSUME n + 1 <= Len(s)
                PROVE  /\ OnlyTo(s, S, n + 1) \in Seq(X)
                       /\ \E h : Places(h, OnlyTo(s, S, n + 1), s, S, n + 1)
    OBVIOUS
  <2>. DEFINE t == OnlyTo(s, S, n)
  <2>1. t \in Seq(X) /\ Len(t) \in Nat
    BY <1>0, <1>2, LenProperties
  <2>2. PICK h : Places(h, t, s, S, n)
    BY <1>0, <1>2
  <2>3. s[n + 1] \in X
    <3>1. n + 1 \in 1 .. Len(s)
      BY <1>0
    <3>. QED  BY <3>1, ElementOfSeq
  <2>. HIDE DEF I
  <2>4. CASE s[n + 1] \notin S
    <3>1. OnlyTo(s, S, n + 1) = t
      BY <2>4, OnlyToStep
    <3>2. h \in [1 .. Len(t) -> 1 .. n + 1]
      <4>1. \A i \in 1 .. Len(t) : h[i] \in 1 .. n + 1
        BY <2>2 DEF Places
      <4>. QED  BY <2>2, <4>1 DEF Places
    <3>3. ASSUME NEW k \in 1 .. n + 1, s[k] \in S PROVE \E i \in 1 .. Len(t) : h[i] = k
      <4>1. k \in 1 .. n
        BY <2>4, <3>3
      <4>. QED  BY <2>2, <3>3, <4>1 DEF Places
    <3>. HIDE DEF t
    <3>4. Places(h, t, s, S, n + 1)
      <4>1. /\ \A i \in 1 .. Len(t) : t[i] = s[h[i]] /\ s[h[i]] \in S
            /\ \A i, j \in 1 .. Len(t) : i < j => h[i] < h[j]
        BY <2>2 DEF Places
      <4>. QED  BY <3>2, <3>3, <4>1 DEF Places
    <3>. QED  BY <2>1, <3>1, <3>4
  <2>5. CASE s[n + 1] \in S
    <3>. DEFINE w == Append(t, s[n + 1])
                g == [i \in 1 .. Len(w) |-> IF i = Len(w) THEN n + 1 ELSE h[i]]
    <3>1. OnlyTo(s, S, n + 1) = w
      BY <2>5, OnlyToStep
    <3>. HIDE DEF t
    <3>2. /\ w \in Seq(X) /\ Len(w) = Len(t) + 1 /\ w[Len(t) + 1] = s[n + 1]
          /\ \A i \in 1 .. Len(t) : w[i] = t[i]
      BY <2>1, <2>3, AppendProperties
    <3>. HIDE DEF w
    <3>3. \A i \in 1 .. Len(t) : h[i] \in 1 .. n /\ i \in 1 .. Len(w) /\ g[i] = h[i]
      <4>1. \A i \in 1 .. Len(t) : h[i] \in 1 .. n
        BY <2>2 DEF Places
      <4>2. \A i \in 1 .. Len(t) : i \in 1 .. Len(w) /\ i # Len(w)
        BY <2>1, <3>2
      <4>. QED  BY <4>1, <4>2
    <3>4. Len(w) \in 1 .. Len(w) /\ g[Len(w)] = n + 1
      BY <2>1, <3>2
    <3>5. \A i \in 1 .. Len(w) : i \in 1 .. Len(t) \/ i = Len(w)
      BY <2>1, <3>2
    <3>6. g \in [1 .. Len(w) -> 1 .. n + 1]
      <4>1. ASSUME NEW i \in 1 .. Len(w)
            PROVE  (IF i = Len(w) THEN n + 1 ELSE h[i]) \in 1 .. n + 1
        <5>1. CASE i = Len(w)
          BY <5>1
        <5>2. CASE i # Len(w)
          <6>1. h[i] \in 1 .. n
            BY <3>3, <3>5, <5>2
          <6>. QED  BY <5>2, <6>1
        <5>. QED  BY <5>1, <5>2
      <4>. QED  BY <4>1
    <3>. HIDE DEF g
    <3>7. ASSUME NEW i \in 1 .. Len(w) PROVE w[i] = s[g[i]] /\ s[g[i]] \in S
      <4>1. CASE i \in 1 .. Len(t)
        BY <2>2, <3>2, <3>3, <4>1 DEF Places
      <4>2. CASE i = Len(w)
        BY <2>5, <3>2, <3>4, <4>2
      <4>. QED  BY <3>5, <4>1, <4>2
    <3>8. ASSUME NEW i \in 1 .. Len(w), NEW j \in 1 .. Len(w), i < j
          PROVE  g[i] < g[j]
      <4>1. i \in 1 .. Len(t)
        BY <2>1, <3>2, <3>8
      <4>2. CASE j \in 1 .. Len(t)
        BY <2>2, <3>3, <3>8, <4>1, <4>2 DEF Places
      <4>3. CASE j = Len(w)
        <5>1. h[i] \in 1 .. n
          BY <3>3, <4>1
        <5>. QED  BY <3>3, <3>4, <4>1, <4>3, <5>1
      <4>. QED  BY <3>5, <4>2, <4>3
    <3>9. ASSUME NEW k \in 1 .. n + 1, s[k] \in S PROVE \E i \in 1 .. Len(w) : g[i] = k
      <4>1. CASE k \in 1 .. n
        <5>1. PICK i \in 1 .. Len(t) : h[i] = k
          BY <2>2, <3>9, <4>1 DEF Places
        <5>. QED  BY <3>3, <5>1
      <4>2. CASE k = n + 1
        BY <3>4, <4>2
      <4>. QED  BY <4>1, <4>2
    <3>10. Places(g, w, s, S, n + 1)
      BY <3>6, <3>7, <3>8, <3>9 DEF Places
    <3>. QED  BY <3>1, <3>2, <3>10
  <2>. QED  BY <2>4, <2>5
<1>. HIDE DEF I
<1>3. Nat \subseteq I
  BY <1>1, <1>2, NumberInduction
<1>. QED  BY <1>3 DEF I

LEMMA OnlyPlaces ==
  ASSUME NEW X, NEW s \in Seq(X), NEW S
  PROVE  /\ Only(s, S) \in Seq(X)
         /\ \E h : Places(h, Only(s, S), s, S, Len(s))
<1>1. Len(s) \in Nat /\ Len(s) <= Len(s)
  BY LenProperties
<1>. QED  BY <1>1, OnlyToPlaces, OnlyIsOnlyTo

LEMMA Regroup ==
  ASSUME NEW X
  PROVE  \A a, b, c \in Seq(X) : (a \o b) \o c = a \o (b \o c)
BY ConcatAssociative

LEMMA OnlyOfConcat ==
  ASSUME NEW X, NEW s \in Seq(X), NEW t \in Seq(X), NEW S
  PROVE  Only(s \o t, S) = Only(s, S) \o Only(t, S)
<1>. DEFINE n == Len(s)
            r == s \o t
            I == {k \in Nat : k <= Len(t) =>
                    OnlyTo(r, S, n + k) = OnlyTo(s, S, n) \o OnlyTo(t, S, k)}
<1>0. \A a, b, c \in Seq(X) : (a \o b) \o c = a \o (b \o c)
  BY Regroup
<1>1. n \in Nat /\ Len(t) \in Nat /\ n <= n
  BY LenProperties
<1>2. /\ r \in Seq(X) /\ Len(r) = n + Len(t)
      /\ \A i \in 1 .. n + Len(t) : r[i] = IF i <= n THEN s[i] ELSE t[i - n]
  BY ConcatProperties
<1>3. OnlyTo(s, S, n) \in Seq(X)
  BY <1>1, OnlyToPlaces
<1>4. OnlyTo(r, S, n) = OnlyTo(s, S, n)
  <2>1. \A i \in 1 .. n : r[i] = s[i]
    BY <1>1, <1>2
  <2>2. Alike(r, S, s, S, n)
    BY <2>1 DEF Alike
  <2>. QED  BY <1>1, <2>2, OnlyToAlike
<1>. HIDE DEF n, r
<1>5. 0 \in I
  <2>1. OnlyTo(t, S, 0) = <<>>
    BY OnlyToStep
  <2>2. OnlyTo(s, S, n) \o <<>> = OnlyTo(s, S, n)
    BY <1>3, ConcatEmptySeq
  <2>3. n + 0 = n
    BY <1>1
  <2>. QED  BY <1>4, <2>1, <2>2, <2>3
<1>6. ASSUME NEW k \in Nat, k \in I PROVE k + 1 \in I
  <2>0. SUFFICES ASSUME k + 1 <= Len(t)
                PROVE  OnlyTo(r, S, n + (k + 1)) = OnlyTo(s, S, n) \o OnlyTo(t, S, k + 1)
    OBVIOUS
  <2>1. OnlyTo(r, S, n + k) = OnlyTo(s, S, n) \o OnlyTo(t, S, k)
    BY <1>1, <1>6, <2>0
  <2>. HIDE DEF I
  <2>2. n + k \in Nat /\ n + (k + 1) = (n + k) + 1
    BY <1>1
  <2>3. r[(n + k) + 1] = t[k + 1] /\ t[k + 1] \in X
    <3>1. (n + k) + 1 \in 1 .. n + Len(t) /\ ~((n + k) + 1 <= n) /\ ((n + k) + 1) - n = k + 1
      BY <1>1, <2>0
    <3>2. k + 1 \in 1 .. Len(t)
      BY <1>1, <2>0
    <3>. QED  BY <1>2, <3>1, <3>2, ElementOfSeq
  <2>4. OnlyTo(t, S, k) \in Seq(X)
    BY <1>1, <2>0, OnlyToPlaces
  <2>5. CASE t[k + 1] \notin S
    <3>1. OnlyTo(r, S, (n + k) + 1) = OnlyTo(r, S, n + k)
      BY <2>2, <2>3, <2>5, OnlyToStep
    <3>2. OnlyTo(t, S, k + 1) = OnlyTo(t, S, k)
      BY <2>5, OnlyToStep
    <3>. QED  BY <2>1, <2>2, <3>1, <3>2
  <2>6. CASE t[k + 1] \in S
    <3>1. OnlyTo(r, S, (n + k) + 1) = Append(OnlyTo(r, S, n + k), t[k + 1])
      <4>1. r[(n + k) + 1] \in S
        BY <2>3, <2>6
      <4>2. OnlyTo(r, S, (n + k) + 1) = Append(OnlyTo(r, S, n + k), r[(n + k) + 1])
        BY <2>2, <4>1, OnlyToStep
      <4>. QED  BY <2>3, <4>2
    <3>2. OnlyTo(t, S, k + 1) = Append(OnlyTo(t, S, k), t[k + 1])
      BY <2>6, OnlyToStep
    <3>3. <<t[k + 1]>> \in Seq(X) /\ OnlyTo(s, S, n) \o OnlyTo(t, S, k) \in Seq(X)
      BY <1>3, <2>3, <2>4, ConcatProperties
    <3>4. OnlyTo(r, S, (n + k) + 1) = (OnlyTo(s, S, n) \o OnlyTo(t, S, k)) \o <<t[k + 1]>>
      BY <2>1, <2>3, <3>1, <3>3, AppendIsConcat
    <3>5. OnlyTo(t, S, k + 1) = OnlyTo(t, S, k) \o <<t[k + 1]>>
      BY <2>3, <2>4, <3>2, AppendIsConcat
    <3>6. OnlyTo(r, S, (n + k) + 1) = OnlyTo(s, S, n) \o OnlyTo(t, S, k + 1)
      <4>1. PICK a \in Seq(X), b \in Seq(X), y \in Seq(X) :
              a = OnlyTo(s, S, n) /\ b = OnlyTo(t, S, k) /\ y = <<t[k + 1]>>
        BY <1>3, <2>4, <3>3
      <4>2. (a \o b) \o y = a \o (b \o y)
        <5>1. \A q \in Seq(X) : \A z \in Seq(X) : (a \o q) \o z = a \o (q \o z)
          BY <1>0, Zenon
        <5>2. \A z \in Seq(X) : (a \o b) \o z = a \o (b \o z)
          BY <5>1, Zenon
        <5>. QED  BY <5>2, Zenon
      <4>. QED  BY <3>4, <3>5, <4>1, <4>2
    <3>. QED  BY <2>2, <3>6
  <2>. QED  BY <2>5, <2>6
<1>. HIDE DEF I
<1>7. Nat \subseteq I
  BY <1>5, <1>6, NumberInduction
<1>8. OnlyTo(r, S, n + Len(t)) = OnlyTo(s, S, n) \o OnlyTo(t, S, Len(t))
  <2>1. Len(t) \in I /\ Len(t) <= Len(t)
    BY <1>1, <1>7
  <2>. QED  BY <2>1 DEF I
<1>. QED  BY <1>2, <1>8, OnlyIsOnlyTo DEF n, r

LEMMA OnlyTakesAll ==
  ASSUME NEW X, NEW s \in Seq(X), NEW S, \A i \in 1 .. Len(s) : s[i] \in S
  PROVE  Only(s, S) = s
<1>. DEFINE I == {k \in Nat : k <= Len(s) => OnlyTo(s, S, k) = SubSeq(s, 1, k)}
<1>1. Len(s) \in Nat
  BY LenProperties
<1>2. 0 \in I
  <2>1. SubSeq(s, 1, 0) = <<>>
    BY SubSeqEmpty
  <2>. QED  BY <2>1, OnlyToStep
<1>3. ASSUME NEW k \in Nat, k \in I PROVE k + 1 \in I
  <2>. SUFFICES ASSUME k + 1 <= Len(s)
                PROVE  OnlyTo(s, S, k + 1) = SubSeq(s, 1, k + 1)
    OBVIOUS
  <2>1. OnlyTo(s, S, k) = SubSeq(s, 1, k)
    BY <1>1, <1>3
  <2>. HIDE DEF I
  <2>2. k + 1 \in 1 .. Len(s) /\ 1 \in 1 .. Len(s) /\ k + 1 \in 1 .. Len(s) /\ (k + 1) - 1 = k
    BY <1>1
  <2>3. s[k + 1] \in S /\ s[k + 1] \in X
    BY <2>2, ElementOfSeq
  <2>4. OnlyTo(s, S, k + 1) = Append(SubSeq(s, 1, k), s[k + 1])
    BY <2>1, <2>3, OnlyToStep
  <2>5. SubSeq(s, 1, k + 1) = SubSeq(s, 1, k) \o <<s[k + 1]>>
    BY <2>2, SubSeqRecursiveSecond
  <2>6. SubSeq(s, 1, k) \in Seq(X)
    <3>1. \A i \in 1 .. k : s[i] \in X
      <4>1. \A i \in 1 .. k : i \in 1 .. Len(s)
        BY <1>1
      <4>. QED  BY <4>1, ElementOfSeq
    <3>. QED  BY <3>1, SubSeqProperties
  <2>. QED  BY <2>3, <2>4, <2>5, <2>6, AppendIsConcat
<1>. HIDE DEF I
<1>4. Nat \subseteq I
  BY <1>2, <1>3, NumberInduction
<1>5. OnlyTo(s, S, Len(s)) = SubSeq(s, 1, Len(s))
  BY <1>1, <1>4 DEF I
<1>. QED  BY <1>5, OnlyIsOnlyTo, SubSeqFull

LEMMA OnlyTakesNone ==
  ASSUME NEW X, NEW s \in Seq(X), NEW S, \A i \in 1 .. Len(s) : s[i] \notin S
  PROVE  Only(s, S) = <<>>
<1>1. PICK h : Places(h, Only(s, S), s, S, Len(s))
  BY OnlyPlaces
<1>2. Only(s, S) \in Seq(X)
  BY OnlyPlaces
<1>3. ASSUME Only(s, S) # <<>> PROVE FALSE
  <2>1. Len(Only(s, S)) \in Nat \ {0}
    BY <1>2, <1>3, EmptySeq
  <2>2. 1 \in 1 .. Len(Only(s, S))
    BY <2>1
  <2>3. h[1] \in 1 .. Len(s) /\ s[h[1]] \in S
    BY <1>1, <2>2 DEF Places
  <2>. QED  BY <2>3
<1>. QED  BY <1>3

\* The elements of Only(s, S).
LEMMA OnlyElements ==
  ASSUME NEW X, NEW s \in Seq(X), NEW S
  PROVE  ToSet(Only(s, S)) = ToSet(s) \cap S
<1>1. PICK h : Places(h, Only(s, S), s, S, Len(s))
  BY OnlyPlaces
<1>. DEFINE t == Only(s, S)
<1>2. t \in Seq(X) /\ DOMAIN t = 1 .. Len(t) /\ DOMAIN s = 1 .. Len(s)
  BY OnlyPlaces, LenProperties
<1>3. ASSUME NEW i \in 1 .. Len(t) PROVE t[i] \in ToSet(s) \cap S
  <2>1. h[i] \in 1 .. Len(s) /\ t[i] = s[h[i]] /\ s[h[i]] \in S
    BY <1>1 DEF Places
  <2>. QED  BY <1>2, <2>1 DEF ToSet
<1>4. ASSUME NEW k \in 1 .. Len(s), s[k] \in S PROVE \E i \in 1 .. Len(t) : t[i] = s[k]
  <2>1. PICK i \in 1 .. Len(t) : h[i] = k
    BY <1>1, <1>4 DEF Places
  <2>. QED  BY <1>1, <2>1 DEF Places
<1>. HIDE DEF t
<1>5. ToSet(t) \subseteq ToSet(s) \cap S
  BY <1>2, <1>3 DEF ToSet
<1>6. ToSet(s) \cap S \subseteq ToSet(t)
  BY <1>2, <1>4 DEF ToSet
<1>. QED  BY <1>5, <1>6 DEF t

-----------------------------------------------------------------------------
(* Ends of sequences.                                                      *)

EndOf(s, t) ==
  /\ Len(s) <= Len(t)
  /\ \A i \in 1 .. Len(s) : s[i] = t[(Len(t) - Len(s)) + i]

LEMMA EndIsSuffix ==
  ASSUME NEW X, NEW s \in Seq(X), NEW t \in Seq(X), EndOf(s, t)
  PROVE  IsSuffix(s, t)
<1>. DEFINE m == Len(s)
            n == Len(t)
            u == Reverse(s)
            v == Reverse(t)
<1>1. m \in Nat /\ n \in Nat /\ m <= n
  BY LenProperties DEF EndOf
<1>2. u = [i \in 1 .. m |-> s[m - i + 1]] /\ v = [i \in 1 .. n |-> t[n - i + 1]]
  BY DEF Reverse
<1>3. \A i \in 1 .. m : m - i + 1 \in 1 .. m
  BY <1>1
<1>4. \A i \in 1 .. n : n - i + 1 \in 1 .. n
  BY <1>1
<1>5. u \in Seq(X) /\ Len(u) = m
  <2>1. u \in [1 .. m -> X]
    BY <1>2, <1>3, ElementOfSeq
  <2>. QED  BY <1>1, <2>1
<1>6. v \in Seq(X) /\ Len(v) = n
  <2>1. v \in [1 .. n -> X]
    BY <1>2, <1>4, ElementOfSeq
  <2>. QED  BY <1>1, <2>1
<1>. HIDE DEF u, v
<1>7. ASSUME NEW i \in 1 .. m PROVE u[i] = v[i]
  <2>1. u[i] = s[m - i + 1] /\ v[i] = t[n - i + 1]
    BY <1>1, <1>2
  <2>2. m - i + 1 \in 1 .. m /\ (n - m) + (m - i + 1) = n - i + 1
    BY <1>1
  <2>. QED  BY <2>1, <2>2 DEF EndOf
<1>8. SubSeq(u, 1, m) = SubSeq(v, 1, m)
  <2>1. \A i \in 1 .. m : u[i] \in X /\ v[i] \in X
    <3>1. \A i \in 1 .. m : i \in 1 .. Len(u)
      BY <1>5
    <3>. QED  BY <1>5, <1>7, <3>1, ElementOfSeq
  <2>. DEFINE a == SubSeq(u, 1, m)
              b == SubSeq(v, 1, m)
  <2>2. a \in Seq(X) /\ Len(a) = m /\ \A i \in 1 .. m : a[i] = u[i]
    BY <1>1, <2>1, SubSeqProperties
  <2>3. b \in Seq(X) /\ Len(b) = m /\ \A i \in 1 .. m : b[i] = v[i]
    BY <1>1, <2>1, SubSeqProperties
  <2>. HIDE DEF a, b
  <2>4. a = b
    BY <1>7, <2>2, <2>3, SeqEqual
  <2>. QED  BY <2>4 DEF a, b
<1>. QED  BY <1>1, <1>5, <1>6, <1>8 DEF IsSuffix, IsPrefix, u, v

LEMMA EndSplits ==
  ASSUME NEW X, NEW s \in Seq(X), NEW t \in Seq(X), EndOf(s, t)
  PROVE  \E u \in Seq(X) : t = u \o s
<1>. DEFINE m == Len(t) - Len(s)
            u == SubSeq(t, 1, m)
<1>1. Len(s) \in Nat /\ Len(t) \in Nat /\ m \in Nat /\ m <= Len(t)
  BY LenProperties DEF EndOf
<1>2. u \in Seq(X) /\ Len(u) = m /\ \A i \in 1 .. m : u[i] = t[i]
  <2>1. \A i \in 1 .. m : t[i] \in X
    <3>1. \A i \in 1 .. m : i \in 1 .. Len(t)
      BY <1>1
    <3>. QED  BY <3>1, ElementOfSeq
  <2>. QED  BY <1>1, <2>1, SubSeqProperties
<1>. HIDE DEF u
<1>3. /\ u \o s \in Seq(X) /\ Len(u \o s) = Len(t)
      /\ \A i \in 1 .. Len(t) : (u \o s)[i] = IF i <= m THEN u[i] ELSE s[i - m]
  BY <1>1, <1>2, ConcatProperties
<1>4. ASSUME NEW i \in 1 .. Len(t) PROVE (u \o s)[i] = t[i]
  <2>1. CASE i <= m
    BY <1>1, <1>2, <1>3, <2>1
  <2>2. CASE ~(i <= m)
    <3>1. i - m \in 1 .. Len(s) /\ (Len(t) - Len(s)) + (i - m) = i
      BY <1>1, <2>2
    <3>. QED  BY <1>3, <2>2, <3>1 DEF EndOf
  <2>. QED  BY <2>1, <2>2
<1>. DEFINE v == u \o s
<1>5. v = t
  <2>1. v \in Seq(X) /\ Len(v) = Len(t) /\ \A i \in 1 .. Len(v) : v[i] = t[i]
    BY <1>3, <1>4
  <2>. HIDE DEF v
  <2>. QED  BY <2>1, SeqEqual
<1>. QED  BY <1>2, <1>5

LEMMA ConcatHasEnd ==
  ASSUME NEW X, NEW s \in Seq(X), NEW u \in Seq(X)
  PROVE  EndOf(s, u \o s)
<1>1. Len(s) \in Nat /\ Len(u) \in Nat
  BY LenProperties
<1>2. /\ Len(u \o s) = Len(u) + Len(s)
      /\ \A i \in 1 .. Len(u) + Len(s) : (u \o s)[i] = IF i <= Len(u) THEN u[i] ELSE s[i - Len(u)]
  BY ConcatProperties
<1>3. ASSUME NEW i \in 1 .. Len(s) PROVE s[i] = (u \o s)[(Len(u \o s) - Len(s)) + i]
  <2>1. /\ (Len(u \o s) - Len(s)) + i = Len(u) + i /\ Len(u) + i \in 1 .. Len(u) + Len(s)
        /\ ~(Len(u) + i <= Len(u)) /\ (Len(u) + i) - Len(u) = i
    BY <1>1, <1>2
  <2>. QED  BY <1>2, <2>1
<1>. QED  BY <1>1, <1>2, <1>3 DEF EndOf

LEMMA EndOfEnd ==
  ASSUME NEW X, NEW s \in Seq(X), NEW t \in Seq(X), NEW u \in Seq(X),
         EndOf(s, t), EndOf(t, u)
  PROVE  EndOf(s, u)
<1>1. Len(s) \in Nat /\ Len(t) \in Nat /\ Len(u) \in Nat /\ Len(s) <= Len(t) /\ Len(t) <= Len(u)
  BY LenProperties DEF EndOf
<1>2. ASSUME NEW i \in 1 .. Len(s) PROVE s[i] = u[(Len(u) - Len(s)) + i]
  <2>. DEFINE j == (Len(t) - Len(s)) + i
  <2>1. j \in 1 .. Len(t) /\ (Len(u) - Len(t)) + j = (Len(u) - Len(s)) + i
    BY <1>1
  <2>2. s[i] = t[j]
    BY DEF EndOf
  <2>. HIDE DEF j
  <2>3. t[j] = u[(Len(u) - Len(t)) + j]
    BY <2>1 DEF EndOf
  <2>. QED  BY <2>1, <2>2, <2>3
<1>. QED  BY <1>1, <1>2 DEF EndOf

LEMMA EndExtends ==
  ASSUME NEW X, NEW s \in Seq(X), NEW t \in Seq(X), NEW v \in Seq(X), EndOf(s, t)
  PROVE  EndOf(s \o v, t \o v)
<1>1. PICK u \in Seq(X) : t = u \o s
  BY EndSplits
<1>2. s \o v \in Seq(X)
  BY ConcatProperties
<1>3. (u \o s) \o v = u \o (s \o v)
  BY ConcatAssociative
<1>4. EndOf(s \o v, u \o (s \o v))
  BY <1>2, ConcatHasEnd
<1>. QED  BY <1>1, <1>3, <1>4

LEMMA WholeEnd ==
  ASSUME NEW X, NEW s \in Seq(X), NEW t \in Seq(X), EndOf(s, t), Len(s) = Len(t)
  PROVE  s = t
<1>1. Len(s) \in Nat
  BY LenProperties
<1>2. \A i \in 1 .. Len(s) : s[i] = t[i]
  BY <1>1 DEF EndOf
<1>. QED  BY <1>2, SeqEqual

LEMMA SequenceIsEnd ==
  ASSUME NEW X, NEW s \in Seq(X)  PROVE EndOf(s, s)
BY LenProperties DEF EndOf

LEMMA OnlyOfEnd ==
  ASSUME NEW X, NEW s \in Seq(X), NEW t \in Seq(X), NEW S, EndOf(s, t)
  PROVE  EndOf(Only(s, S), Only(t, S))
<1>1. PICK u \in Seq(X) : t = u \o s
  BY EndSplits
<1>2. Only(t, S) = Only(u, S) \o Only(s, S)
  BY <1>1, OnlyOfConcat
<1>3. Only(u, S) \in Seq(X) /\ Only(s, S) \in Seq(X)
  BY OnlyPlaces
<1>. QED  BY <1>2, <1>3, ConcatHasEnd

\* What is at the end of a sequence that repeats nothing repeats nothing.
LEMMA EndIsInjective ==
  ASSUME NEW X, NEW s \in Seq(X), NEW t \in Seq(X), EndOf(s, t), IsInjective(t)
  PROVE  IsInjective(s)
<1>1. /\ Len(s) \in Nat /\ Len(t) \in Nat /\ Len(s) <= Len(t)
      /\ DOMAIN s = 1 .. Len(s) /\ DOMAIN t = 1 .. Len(t)
  BY LenProperties DEF EndOf
<1>2. ASSUME NEW i \in 1 .. Len(s), NEW j \in 1 .. Len(s), s[i] = s[j] PROVE i = j
  <2>. DEFINE a == (Len(t) - Len(s)) + i
              b == (Len(t) - Len(s)) + j
  <2>1. a \in 1 .. Len(t) /\ b \in 1 .. Len(t) /\ (a = b => i = j)
    BY <1>1
  <2>2. s[i] = t[a] /\ s[j] = t[b]
    BY DEF EndOf
  <2>. HIDE DEF a, b
  <2>. QED  BY <1>1, <1>2, <2>1, <2>2 DEF IsInjective
<1>. QED  BY <1>1, <1>2 DEF IsInjective

LEMMA ConcatIsInjective ==
  ASSUME NEW X, NEW s \in Seq(X), NEW t \in Seq(X), IsInjective(s), IsInjective(t),
         \A i \in 1 .. Len(s), j \in 1 .. Len(t) : s[i] # t[j]
  PROVE  IsInjective(s \o t)
<1>. DEFINE r == s \o t
<1>1. /\ Len(s) \in Nat /\ Len(t) \in Nat
      /\ DOMAIN s = 1 .. Len(s) /\ DOMAIN t = 1 .. Len(t)
  BY LenProperties
<1>2. /\ r \in Seq(X) /\ Len(r) = Len(s) + Len(t)
      /\ \A i \in 1 .. Len(s) + Len(t) : r[i] = IF i <= Len(s) THEN s[i] ELSE t[i - Len(s)]
  BY ConcatProperties
<1>. HIDE DEF r
<1>3. DOMAIN r = 1 .. Len(r)
  BY <1>2, LenProperties
<1>4. ASSUME NEW i \in 1 .. Len(r), NEW j \in 1 .. Len(r), r[i] = r[j] PROVE i = j
  <2>1. \A k \in 1 .. Len(r) : k <= Len(s) => k \in 1 .. Len(s) /\ r[k] = s[k]
    BY <1>1, <1>2
  <2>2. \A k \in 1 .. Len(r) : ~(k <= Len(s)) => k - Len(s) \in 1 .. Len(t) /\ r[k] = t[k - Len(s)]
    BY <1>1, <1>2
  <2>3. CASE i <= Len(s) /\ j <= Len(s)
    BY <1>1, <1>4, <2>1, <2>3 DEF IsInjective
  <2>4. CASE i <= Len(s) /\ ~(j <= Len(s))
    BY <1>4, <2>1, <2>2, <2>4
  <2>5. CASE ~(i <= Len(s)) /\ j <= Len(s)
    BY <1>4, <2>1, <2>2, <2>5
  <2>6. CASE ~(i <= Len(s)) /\ ~(j <= Len(s))
    <3>1. i - Len(s) \in 1 .. Len(t) /\ j - Len(s) \in 1 .. Len(t)
      BY <2>2, <2>6
    <3>2. t[i - Len(s)] = t[j - Len(s)]
      BY <1>4, <2>2, <2>6
    <3>3. i - Len(s) = j - Len(s)
      BY <1>1, <3>1, <3>2 DEF IsInjective
    <3>. QED  BY <1>1, <1>2, <3>3
  <2>. QED  BY <2>3, <2>4, <2>5, <2>6
<1>. QED  BY <1>3, <1>4 DEF IsInjective, r

-----------------------------------------------------------------------------
(* The files, and what a read makes of them.                               *)

Rises(s) == \A i, j \in 1 .. Len(s) : i < j => s[i] < s[j]

TraceInv ==
  /\ trace \in Seq([run : Runs, type : Types, at : Nat])
  /\ now \in Nat
  /\ \A e \in 1 .. Len(trace) : trace[e].at <= now

\* The lines of a file are events of its run, each once, in order.
LinesInv ==
  /\ lines = [f \in Runs |-> lines[f]]
  /\ half \in [Runs -> BOOLEAN]
  /\ \A f \in Runs :
       /\ lines[f] \in Seq(Nat)
       /\ \A k \in 1 .. Len(lines[f]) :
            lines[f][k] \in 1 .. Len(trace) /\ trace[lines[f][k]].run = f
       /\ Rises(lines[f])
       /\ half[f] => lines[f] # <<>>

FilesInv == TraceInv /\ LinesInv

Piece == Nat \X {1, 2}
Begun == Nat \X {1}

LEMMA FileFacts ==
  ASSUME FilesInv, NEW f \in Runs
  PROVE  /\ Len(trace) \in Nat /\ lines[f] \in Seq(Nat) /\ Len(lines[f]) \in Nat
         /\ \A k \in 1 .. Len(lines[f]) :
              /\ lines[f][k] \in 1 .. Len(trace) /\ lines[f][k] \in Nat
              /\ trace[lines[f][k]].run = f
         /\ Rises(lines[f])
<1>1. trace \in Seq([run : Runs, type : Types, at : Nat]) /\ lines[f] \in Seq(Nat)
  BY DEF FilesInv, TraceInv, LinesInv
<1>2. Len(trace) \in Nat /\ Len(lines[f]) \in Nat
  BY <1>1, LenProperties
<1>3. \A k \in 1 .. Len(lines[f]) : lines[f][k] \in Nat
  BY <1>1, ElementOfSeq
<1>. QED  BY <1>1, <1>2, <1>3 DEF FilesInv, LinesInv

LEMMA PieceFacts ==
  ASSUME FilesInv, NEW f \in Runs
  PROVE  /\ Pieces(f) \in Seq(Piece)
         /\ Len(Pieces(f)) = 2 * Len(lines[f]) - (IF half[f] THEN 1 ELSE 0)
         /\ Len(Pieces(f)) \in Nat
         /\ \A i \in 1 .. Len(Pieces(f)) :
              /\ (i + 1) \div 2 \in 1 .. Len(lines[f])
              /\ Pieces(f)[i] = <<lines[f][(i + 1) \div 2], 2 - (i % 2)>>
<1>. DEFINE n == 2 * Len(lines[f]) - (IF half[f] THEN 1 ELSE 0)
            e(i) == <<lines[f][(i + 1) \div 2], 2 - (i % 2)>>
<1>1. Len(lines[f]) \in Nat /\ \A k \in 1 .. Len(lines[f]) : lines[f][k] \in Nat
  BY FileFacts
<1>2. half[f] => Len(lines[f]) > 0
  <2>1. half[f] => lines[f] # <<>>
    BY DEF FilesInv, LinesInv
  <2>2. lines[f] \in Seq(Nat)
    BY FileFacts
  <2>. QED  BY <2>1, <2>2, EmptySeq
<1>3. n \in Nat
  BY <1>1, <1>2
<1>4. n <= 2 * Len(lines[f])
  <2>. PICK k \in Nat : k = Len(lines[f])
    BY <1>1
  <2>1. CASE half[f]
    BY <2>1
  <2>2. CASE ~half[f]
    BY <2>2
  <2>. QED  BY <2>1, <2>2
<1>. HIDE DEF n
<1>5. ASSUME NEW i \in 1 .. n
      PROVE  (i + 1) \div 2 \in 1 .. Len(lines[f]) /\ 2 - (i % 2) \in {1, 2}
  BY <1>1, <1>3, <1>4
<1>6. \A i \in 1 .. n : e(i) \in Piece
  BY <1>1, <1>5 DEF Piece
<1>7. Pieces(f) = [i \in 1 .. n |-> e(i)]
  BY DEF Pieces, n
<1>. HIDE DEF e
<1>8. Pieces(f) \in Seq(Piece) /\ Len(Pieces(f)) = n
  BY <1>3, <1>6, <1>7
<1>9. \A i \in 1 .. n : Pieces(f)[i] = e(i)
  BY <1>7
<1>. QED  BY <1>3, <1>5, <1>8, <1>9 DEF n, e

\* The pieces that end a line, in the order in which they stand.
LEMMA EndsFacts ==
  ASSUME NEW merged \in Seq(Piece)
  PROVE  /\ Ends(merged) \in Seq(Nat) /\ Len(Ends(merged)) \in Nat
         /\ \A n \in 1 .. Len(Ends(merged)) :
              /\ Ends(merged)[n] \in 1 .. Len(merged)
              /\ merged[Ends(merged)[n]][2] = 2
         /\ Rises(Ends(merged))
         /\ \A i \in 1 .. Len(merged) : merged[i][2] = 2 =>
              \E n \in 1 .. Len(Ends(merged)) : Ends(merged)[n] = i
<1>. DEFINE m == Len(merged)
            id == [i \in 1 .. m |-> i]
            S == {i \in 1 .. m : merged[i][2] = 2}
            ends == Ends(merged)
<1>1. m \in Nat
  BY LenProperties
<1>2. id \in Seq(Nat) /\ Len(id) = m /\ \A i \in 1 .. m : id[i] = i
  BY <1>1
<1>3. ends = Only(id, S)
  BY DEF Ends
<1>. HIDE DEF id, ends
<1>4. ends \in Seq(Nat)
  BY <1>2, <1>3, OnlyPlaces
<1>5. PICK h : Places(h, ends, id, S, m)
  BY <1>2, <1>3, OnlyPlaces
<1>6. \A n \in 1 .. Len(ends) : h[n] \in 1 .. m /\ ends[n] = h[n] /\ ends[n] \in S
  BY <1>2, <1>5 DEF Places
<1>7. Rises(ends)
  <2>1. \A n, k \in 1 .. Len(ends) : n < k => h[n] < h[k]
    BY <1>5 DEF Places
  <2>. QED  BY <1>6, <2>1 DEF Rises
<1>8. ASSUME NEW i \in 1 .. m, merged[i][2] = 2 PROVE \E n \in 1 .. Len(ends) : ends[n] = i
  <2>1. id[i] \in S
    BY <1>2, <1>8
  <2>2. PICK n \in 1 .. Len(ends) : h[n] = i
    BY <1>5, <2>1 DEF Places
  <2>. QED  BY <1>6, <2>2
<1>9. Len(ends) \in Nat
  BY <1>4, LenProperties
<1>. QED  BY <1>4, <1>6, <1>7, <1>8, <1>9 DEF ends

\* Line n of a read: from behind the end of the line before to its own end.
LineOf(merged, n) == SubSeq(merged, Start(Ends(merged), n), Ends(merged)[n])

LEMMA LineFacts ==
  ASSUME NEW merged \in Seq(Piece), NEW n \in 1 .. Len(Ends(merged))
  PROVE  /\ Start(Ends(merged), n) \in 1 .. Ends(merged)[n]
         /\ LineOf(merged, n) \in Seq(Piece)
         /\ Len(LineOf(merged, n)) = Ends(merged)[n] - Start(Ends(merged), n) + 1
         /\ \A i \in 1 .. Len(LineOf(merged, n)) :
              LineOf(merged, n)[i] = merged[Start(Ends(merged), n) + i - 1]
<1>. DEFINE ends == Ends(merged)
            a == Start(ends, n)
            b == ends[n]
<1>1. ends \in Seq(Nat) /\ Len(ends) \in Nat /\ Rises(ends) /\ Len(merged) \in Nat
  BY EndsFacts, LenProperties
<1>2. \A k \in 1 .. Len(ends) : ends[k] \in 1 .. Len(merged)
  BY EndsFacts
<1>3. b \in 1 .. Len(merged)
  BY <1>2
<1>4. a \in 1 .. b
  <2>1. CASE n = 1
    BY <1>1, <1>3, <2>1 DEF Start
  <2>2. CASE n # 1
    <3>1. n - 1 \in 1 .. Len(ends) /\ n - 1 < n
      BY <1>1, <2>2
    <3>2. ends[n - 1] < ends[n]
      BY <1>1, <3>1 DEF Rises
    <3>3. ends[n - 1] \in 1 .. Len(merged)
      BY <1>2, <3>1
    <3>. QED  BY <1>1, <1>3, <2>2, <3>2, <3>3 DEF Start
  <2>. QED  BY <2>1, <2>2
<1>. HIDE DEF a, b, ends
<1>5. \A i \in a .. b : merged[i] \in Piece
  <2>1. \A i \in a .. b : i \in 1 .. Len(merged)
    BY <1>1, <1>3, <1>4
  <2>. QED  BY <2>1, ElementOfSeq
<1>6. LineOf(merged, n) = SubSeq(merged, a, b)
  BY DEF LineOf, a, b, ends
<1>7. a \in Int /\ b \in Int /\ a <= b
  BY <1>1, <1>3, <1>4
<1>8. /\ SubSeq(merged, a, b) \in Seq(Piece)
      /\ Len(SubSeq(merged, a, b)) = b - a + 1
      /\ \A i \in 1 .. b - a + 1 : SubSeq(merged, a, b)[i] = merged[a + i - 1]
  BY <1>5, <1>7, SubSeqProperties
<1>. QED  BY <1>4, <1>6, <1>8 DEF a, b, ends

LEMMA MergedFacts ==
  ASSUME FilesInv, NEW f \in Runs, offset[f] \in Nat, remainder[f] \in Seq(Begun)
  PROVE  /\ Merged(f) \in Seq(Piece)
         /\ \E r \in Nat, o \in Nat :
              /\ o <= Len(Pieces(f))
              /\ ~Rotated(f) => o = offset[f] /\ r = Len(remainder[f])
              /\ Len(Merged(f)) = r + (Len(Pieces(f)) - o)
              /\ \A i \in 1 .. Len(Merged(f)) :
                   /\ i <= r => /\ Merged(f)[i] \in Begun
                                /\ ~Rotated(f) => Merged(f)[i] = remainder[f][i]
                   /\ r < i => Merged(f)[i] = Pieces(f)[o + (i - r)]
<1>. DEFINE ps == Pieces(f)
            p == Len(Pieces(f))
            rem == remainder[f]
            o == offset[f]
            new == SubSeq(ps, o + 1, p)
<1>1. ps \in Seq(Piece) /\ p \in Nat
  BY PieceFacts
<1>2. CASE Rotated(f)
  <2>1. Merged(f) = ps
    BY <1>2 DEF Merged
  <2>2. \A i \in 1 .. p : ps[i] = ps[0 + (i - 0)] /\ ~(i <= 0)
    BY <1>1
  <2>3. p = 0 + (p - 0) /\ 0 <= p /\ 0 \in Nat
    BY <1>1
  <2>. HIDE DEF ps, p
  <2>4. Len(ps) = p
    BY DEF ps, p
  <2>. QED  BY <1>1, <1>2, <2>1, <2>2, <2>3, <2>4 DEF ps, p
<1>3. CASE ~Rotated(f)
  <2>1. o \in Nat /\ o <= p /\ rem \in Seq(Begun) /\ Len(rem) \in Nat
    BY <1>1, <1>3, LenProperties DEF Rotated
  <2>2. Merged(f) = rem \o new
    BY <1>3 DEF Merged
  <2>3. rem \in Seq(Piece)
    <3>1. Begun \subseteq Piece
      BY DEF Begun, Piece
    <3>. QED  BY <2>1, <3>1, SeqMonotonic
  <2>. HIDE DEF ps, p, rem, o
  <2>4. Len(ps) = p
    BY DEF ps, p
  <2>5. new \in Seq(Piece) /\ Len(new) = p - o /\ \A i \in 1 .. p - o : new[i] = ps[o + i]
    <3>1. \A i \in o + 1 .. p : ps[i] \in Piece
      <4>1. \A i \in o + 1 .. p : i \in 1 .. Len(ps)
        BY <1>1, <2>1, <2>4
      <4>. QED  BY <1>1, <4>1, ElementOfSeq
    <3>2. o + 1 \in Int /\ p \in Int /\ p - (o + 1) + 1 = p - o
      BY <1>1, <2>1
    <3>3. /\ new \in Seq(Piece)
          /\ Len(new) = IF o + 1 <= p THEN p - (o + 1) + 1 ELSE 0
          /\ \A i \in 1 .. p - (o + 1) + 1 : new[i] = ps[(o + 1) + i - 1]
      BY <3>1, <3>2, SubSeqProperties
    <3>4. \A i \in 1 .. p - o : (o + 1) + i - 1 = o + i
      BY <1>1, <2>1
    <3>. HIDE DEF new
    <3>5. Len(new) = p - o
      BY <1>1, <2>1, <3>3
    <3>. QED  BY <3>2, <3>3, <3>4, <3>5
  <2>. HIDE DEF new
  <2>6. /\ rem \o new \in Seq(Piece) /\ Len(rem \o new) = Len(rem) + (p - o)
        /\ \A i \in 1 .. Len(rem) + (p - o) :
             (rem \o new)[i] = IF i <= Len(rem) THEN rem[i] ELSE new[i - Len(rem)]
    BY <2>3, <2>5, ConcatProperties
  <2>7. ASSUME NEW i \in 1 .. Len(rem) + (p - o)
        PROVE  /\ i <= Len(rem) => (rem \o new)[i] \in Begun /\ (rem \o new)[i] = rem[i]
               /\ Len(rem) < i => (rem \o new)[i] = ps[o + (i - Len(rem))]
    <3>1. CASE i <= Len(rem)
      <4>1. i \in 1 .. Len(rem)
        BY <2>1, <3>1
      <4>2. rem[i] \in Begun
        BY <2>1, <4>1, ElementOfSeq
      <4>. QED  BY <2>1, <2>6, <3>1, <4>2
    <3>2. CASE Len(rem) < i
      <4>1. i - Len(rem) \in 1 .. p - o /\ ~(i <= Len(rem))
        BY <1>1, <2>1, <3>2
      <4>. QED  BY <2>1, <2>5, <2>6, <3>2, <4>1
    <3>. QED  BY <2>1, <3>1, <3>2
  <2>8. PICK m, r : m = Merged(f) /\ r = Len(rem)
    OBVIOUS
  <2>9. /\ m \in Seq(Piece) /\ Len(m) = r + (p - o) /\ r \in Nat
        /\ \A i \in 1 .. Len(m) : /\ i <= r => m[i] \in Begun /\ m[i] = rem[i]
                                  /\ r < i => m[i] = ps[o + (i - r)]
    BY <2>1, <2>2, <2>6, <2>7, <2>8
  <2>. QED  BY <1>3, <2>1, <2>8, <2>9 DEF ps, p, o, rem
<1>. QED  BY <1>2, <1>3

\* The events of a batch are lines of the file that were not complete at the
\* last read, in their order.
LEMMA BatchIsNew ==
  ASSUME FilesInv, NEW f \in Runs, offset[f] \in Nat, remainder[f] \in Seq(Begun)
  PROVE  /\ Batch(f) \in Seq(Nat)
         /\ Rises(Batch(f))
         /\ \A i \in 1 .. Len(Batch(f)) :
              \E k \in 1 .. Len(lines[f]) :
                 /\ Batch(f)[i] = lines[f][k]
                 /\ 2 * k <= Len(Pieces(f))
                 /\ ~Rotated(f) => offset[f] < 2 * k
<1>. DEFINE merged == Merged(f)
            ends == Ends(merged)
            L(n) == LineOf(merged, n)
            es == [n \in 1 .. Len(ends) |-> EventOf(L(n))]
            E == 1 .. Len(trace)
<1>1. merged \in Seq(Piece)
  BY MergedFacts
<1>2. PICK r \in Nat, o \in Nat :
        /\ o <= Len(Pieces(f))
        /\ ~Rotated(f) => o = offset[f]
        /\ Len(merged) = r + (Len(Pieces(f)) - o)
        /\ \A i \in 1 .. Len(merged) :
             /\ i <= r => merged[i] \in Begun
             /\ r < i => merged[i] = Pieces(f)[o + (i - r)]
  <2>1. PICK r \in Nat, o \in Nat :
          /\ o <= Len(Pieces(f))
          /\ ~Rotated(f) => o = offset[f] /\ r = Len(remainder[f])
          /\ Len(Merged(f)) = r + (Len(Pieces(f)) - o)
          /\ \A i \in 1 .. Len(Merged(f)) :
               /\ i <= r => /\ Merged(f)[i] \in Begun
                            /\ ~Rotated(f) => Merged(f)[i] = remainder[f][i]
               /\ r < i => Merged(f)[i] = Pieces(f)[o + (i - r)]
    BY MergedFacts, Zenon
  <2>. HIDE DEF merged, ends, es, E
  <2>2. merged = Merged(f)
    BY DEF merged
  <2>3. \A i \in 1 .. Len(merged) :
          /\ i <= r => merged[i] \in Begun
          /\ r < i => merged[i] = Pieces(f)[o + (i - r)]
    BY <2>1, <2>2
  <2>. QED  BY <2>1, <2>2, <2>3
<1>3. /\ Len(ends) \in Nat /\ Rises(ends) /\ Len(merged) \in Nat
      /\ \A n \in 1 .. Len(ends) : ends[n] \in 1 .. Len(merged) /\ merged[ends[n]][2] = 2
  BY <1>1, EndsFacts, LenProperties
<1>4. Batch(f) = Only(es, E)
  <2>. DEFINE ls == [n \in 1 .. Len(ends) |-> L(n)]
  <2>1. ReadAppended(f).lines = ls
    BY DEF ReadAppended, LineOf
  <2>2. Len(ls) = Len(ends) /\ \A n \in 1 .. Len(ends) : ls[n] = L(n)
    BY <1>3
  <2>3. [n \in 1 .. Len(ls) |-> EventOf(ls[n])] = es
    BY <2>2
  <2>. HIDE DEF ls, es
  <2>. QED  BY <2>1, <2>3 DEF Batch, ParseTraceLines
<1>. HIDE DEF merged, ends
\* The line that ends with piece j of the file, if it is valid, is line j \div 2.
<1>5. ASSUME NEW n \in 1 .. Len(ends), EventOf(L(n)) \in E
      PROVE  /\ r < ends[n] /\ ends[n] - r \in Nat
             /\ (o + (ends[n] - r)) % 2 = 0
             /\ (o + (ends[n] - r)) \div 2 \in 1 .. Len(lines[f])
             /\ EventOf(L(n)) = lines[f][(o + (ends[n] - r)) \div 2]
             /\ o + (ends[n] - r) <= Len(Pieces(f))
  <2>. DEFINE b == ends[n]
              a == Start(ends, n)
              l == L(n)
              j == o + (b - r)
  <2>1. b \in 1 .. Len(merged) /\ merged[b][2] = 2
    BY <1>3
  <2>2. r < b
    <3>1. ASSUME b <= r PROVE FALSE
      <4>1. merged[b] \in Begun
        BY <1>2, <2>1, <3>1
      <4>. QED  BY <2>1, <4>1 DEF Begun
    <3>. QED  BY <1>3, <2>1, <3>1
  <2>3. Len(Pieces(f)) \in Nat
    BY PieceFacts
  <2>4. b - r \in Nat /\ j \in 1 .. Len(Pieces(f))
    <3>1. PICK i \in Nat : i = b
      BY <1>3, <2>1
    <3>2. r < i /\ i <= r + (Len(Pieces(f)) - o) /\ o <= Len(Pieces(f))
      BY <1>2, <2>1, <2>2, <3>1
    <3>. HIDE DEF b
    <3>3. i - r \in Nat /\ o + (i - r) \in 1 .. Len(Pieces(f))
      BY <2>3, <3>2
    <3>. QED  BY <3>1, <3>3
  <2>5. merged[b] = Pieces(f)[j]
    BY <1>2, <2>1, <2>2
  <2>6. /\ (j + 1) \div 2 \in 1 .. Len(lines[f])
        /\ merged[b] = <<lines[f][(j + 1) \div 2], 2 - (j % 2)>>
    BY <2>4, <2>5, PieceFacts
  <2>7. j % 2 = 0 /\ (j + 1) \div 2 = j \div 2
    <3>1. PICK i \in Nat : i = j
      BY <2>3, <2>4
    <3>2. 2 - (i % 2) = 2
      BY <2>1, <2>6, <3>1
    <3>3. i % 2 = 0 /\ (i + 1) \div 2 = i \div 2
      BY <3>2
    <3>. QED  BY <3>1, <3>3
  <2>9. /\ a \in 1 .. b /\ Len(l) = b - a + 1
        /\ \A i \in 1 .. Len(l) : l[i] = merged[a + i - 1]
    BY <1>1, LineFacts DEF ends
  <2>10. Valid(l) /\ EventOf(l) = l[1][1]
    <3>1. None \notin E
      BY MonitorAssumption, FileFacts
    <3>. QED  BY <1>5, <3>1 DEF EventOf
  <2>11. Len(l) = 2 /\ l[2] = <<l[1][1], 2>>
    BY <2>10 DEF Valid
  <2>. HIDE DEF l, a
  <2>12. l[2] = merged[b]
    <3>1. 2 \in 1 .. Len(l) /\ a + 2 - 1 = b
      <4>1. b \in Nat /\ a \in Nat /\ 2 = b - a + 1
        <5>1. PICK e \in Nat : e = b
          BY <1>3, <2>1
        <5>2. a \in 1 .. e
          BY <2>9, <5>1
        <5>3. Len(l) = e - a + 1
          BY <2>9, <5>1
        <5>4. Len(l) = 2
          BY <2>11
        <5>5. a \in Nat /\ 2 = e - a + 1
          <6>1. PICK c \in 1 .. e : c = a
            BY <5>2
          <6>2. e - c + 1 = 2
            BY <5>3, <5>4, <6>1
          <6>3. c \in Nat
            BY <6>1
          <6>. QED  BY <6>1, <6>2, <6>3
        <5>. QED  BY <5>1, <5>5
      <4>. HIDE DEF b
      <4>. QED  BY <2>11, <4>1
    <3>. QED  BY <2>9, <3>1
  <2>13. EventOf(l) = lines[f][j \div 2]
    BY <2>6, <2>7, <2>10, <2>11, <2>12
  <2>. QED  BY <2>2, <2>4, <2>6, <2>7, <2>13 DEF l
<1>6. es \in Seq(Nat \cup {None}) /\ Len(es) = Len(ends)
  <2>1. \A n \in 1 .. Len(ends) : es[n] \in Nat \cup {None}
    <3>1. ASSUME NEW n \in 1 .. Len(ends) PROVE EventOf(L(n)) \in Nat \cup {None}
      <4>1. CASE Valid(L(n))
        <5>1. Len(L(n)) = 2 /\ L(n) \in Seq(Piece)
          BY <1>1, <4>1, LineFacts DEF Valid, ends
        <5>. DEFINE l == L(n)
        <5>. HIDE DEF l
        <5>2. l[1] \in Piece
          <6>1. 1 \in 1 .. Len(l)
            BY <5>1 DEF l
          <6>. QED  BY <5>1, <6>1, ElementOfSeq DEF l
        <5>3. l[1][1] \in Nat
          BY <5>2 DEF Piece
        <5>. QED  BY <4>1, <5>3 DEF EventOf, l
      <4>2. CASE ~Valid(L(n))
        BY <4>2 DEF EventOf
      <4>. QED  BY <4>1, <4>2
    <3>. QED  BY <3>1
  <2>. QED  BY <1>3, <2>1
<1>7. \A n \in 1 .. Len(ends) : es[n] = EventOf(L(n))
  OBVIOUS
<1>. HIDE DEF es, L
<1>8. PICK g : Places(g, Batch(f), es, E, Len(ends))
  BY <1>4, <1>6, OnlyPlaces
<1>9. \A i \in 1 .. Len(Batch(f)) :
        g[i] \in 1 .. Len(ends) /\ Batch(f)[i] = EventOf(L(g[i])) /\ EventOf(L(g[i])) \in E
  BY <1>7, <1>8 DEF Places
<1>. DEFINE at(i) == (o + (ends[g[i]] - r)) \div 2
<1>10. ASSUME NEW i \in 1 .. Len(Batch(f))
       PROVE  /\ at(i) \in 1 .. Len(lines[f]) /\ Batch(f)[i] = lines[f][at(i)]
              /\ 2 * at(i) <= Len(Pieces(f))
              /\ o < 2 * at(i)
              /\ 2 * at(i) = o + (ends[g[i]] - r)
  <2>1. PICK n \in 1 .. Len(ends) : n = g[i]
    BY <1>9
  <2>2. PICK j : j = o + (ends[n] - r)
    OBVIOUS
  <2>3. /\ r < ends[n] /\ ends[n] - r \in Nat
        /\ j % 2 = 0
        /\ j \div 2 \in 1 .. Len(lines[f])
        /\ EventOf(L(n)) = lines[f][j \div 2]
        /\ j <= Len(Pieces(f))
    BY <1>5, <1>9, <2>1, <2>2
  <2>4. ends[n] \in Nat /\ o \in Nat /\ r \in Nat
    BY <1>3
  <2>5. j \in Nat /\ o < j
    <3>1. PICK e \in Nat : e = ends[n]
      BY <2>4
    <3>2. r < e /\ j = o + (e - r)
      BY <2>2, <2>3, <3>1
    <3>. QED  BY <2>4, <3>2
  <2>6. 2 * (j \div 2) = j
    BY <2>3, <2>5
  <2>. QED  BY <1>9, <2>1, <2>2, <2>3, <2>5, <2>6
<1>11. \A i \in 1 .. Len(Batch(f)) :
         \E k \in 1 .. Len(lines[f]) :
            /\ Batch(f)[i] = lines[f][k]
            /\ 2 * k <= Len(Pieces(f))
            /\ ~Rotated(f) => offset[f] < 2 * k
  BY <1>2, <1>10
<1>12. Rises(Batch(f))
  <2>1. ASSUME NEW i \in 1 .. Len(Batch(f)), NEW j \in 1 .. Len(Batch(f)), i < j
        PROVE  Batch(f)[i] < Batch(f)[j]
    <3>1. g[i] \in 1 .. Len(ends) /\ g[j] \in 1 .. Len(ends) /\ g[i] < g[j]
      BY <1>9, <1>8, <2>1 DEF Places
    <3>2. /\ ends[g[i]] < ends[g[j]] /\ ends[g[i]] \in Nat /\ ends[g[j]] \in Nat
      BY <1>3, <3>1 DEF Rises
    <3>3. PICK a, b : a = at(i) /\ b = at(j)
      OBVIOUS
    <3>4. a \in 1 .. Len(lines[f]) /\ b \in 1 .. Len(lines[f])
      BY <1>10, <3>3
    <3>5. 2 * a = o + (ends[g[i]] - r) /\ 2 * b = o + (ends[g[j]] - r)
      BY <1>10, <3>3
    <3>6. a < b
      <4>1. PICK c \in Nat, d \in Nat : c = ends[g[i]] /\ d = ends[g[j]]
        BY <3>2
      <4>2. a \in Nat /\ b \in Nat /\ c < d /\ 2 * a = o + (c - r) /\ 2 * b = o + (d - r)
        BY <3>2, <3>4, <3>5, <4>1, FileFacts
      <4>. QED  BY <4>2
    <3>7. Batch(f)[i] = lines[f][a] /\ Batch(f)[j] = lines[f][b]
      BY <1>10, <3>3
    <3>8. Rises(lines[f])
      BY FileFacts
    <3>. QED  BY <3>4, <3>6, <3>7, <3>8 DEF Rises
  <2>. QED  BY <2>1 DEF Rises
<1>13. Batch(f) \in Seq(Nat)
  <2>. DEFINE s == Batch(f)
  <2>1. s \in Seq(Nat \cup {None})
    BY <1>4, <1>6, OnlyPlaces
  <2>2. \A i \in 1 .. Len(s) : s[i] \in Nat
    BY <1>10, FileFacts
  <2>. HIDE DEF s
  <2>3. Len(s) \in Nat /\ s = [i \in 1 .. Len(s) |-> s[i]]
    BY <2>1, LenProperties
  <2>. QED  BY <2>2, <2>3 DEF s
<1>. QED  BY <1>11, <1>12, <1>13

\* What is left of a read is the beginning of a line.
LEMMA LeftIsBegun ==
  ASSUME FilesInv, NEW f \in Runs, offset[f] \in Nat, remainder[f] \in Seq(Begun)
  PROVE  ReadAppended(f).remainder \in Seq(Begun)
<1>. DEFINE merged == Merged(f)
            ends == Ends(merged)
            m == Len(merged)
            c == Len(ends)
            a == Start(ends, c + 1)
<1>1. merged \in Seq(Piece) /\ m \in Nat
  BY MergedFacts, LenProperties
<1>. HIDE DEF merged
<1>2. /\ c \in Nat /\ Rises(ends)
      /\ \A n \in 1 .. c : ends[n] \in 1 .. m /\ merged[ends[n]][2] = 2
      /\ \A i \in 1 .. m : merged[i][2] = 2 => \E n \in 1 .. c : ends[n] = i
  BY <1>1, EndsFacts
<1>3. ReadAppended(f).remainder = SubSeq(merged, a, m)
  BY DEF ReadAppended, merged
<1>. HIDE DEF ends, m
<1>4. a \in Nat \ {0} /\ \A n \in 1 .. c : ends[n] < a
  <2>1. CASE c = 0
    BY <2>1 DEF Start
  <2>2. CASE c # 0
    <3>1. c \in 1 .. c /\ c + 1 # 1 /\ (c + 1) - 1 = c
      BY <1>2, <2>2
    <3>2. a = ends[c] + 1
      BY <3>1 DEF Start
    <3>3. ASSUME NEW n \in 1 .. c PROVE ends[n] <= ends[c]
      <4>1. CASE n = c
        BY <1>2, <3>1, <4>1
      <4>2. CASE n < c
        BY <1>2, <3>1, <4>2 DEF Rises
      <4>. QED  BY <1>2, <4>1, <4>2
    <3>4. \A n \in 1 .. c : ends[n] \in Nat
      BY <1>1, <1>2
    <3>. QED  BY <1>1, <1>2, <3>1, <3>2, <3>3, <3>4
  <2>. QED  BY <2>1, <2>2
<1>. HIDE DEF a
<1>5. ASSUME NEW i \in a .. m PROVE merged[i] \in Begun
  <2>1. i \in 1 .. m
    BY <1>1, <1>4
  <2>2. merged[i] \in Piece
    BY <1>1, <2>1, ElementOfSeq DEF m
  <2>3. merged[i][2] # 2
    <3>1. ASSUME merged[i][2] = 2 PROVE FALSE
      <4>1. PICK n \in 1 .. c : ends[n] = i
        BY <1>2, <2>1, <3>1
      <4>2. ends[n] < a /\ i >= a
        BY <1>1, <1>4, <4>1
      <4>. QED  BY <1>1, <1>4, <4>1, <4>2
    <3>. QED  BY <3>1
  <2>. QED  BY <2>2, <2>3 DEF Piece, Begun
<1>. QED  BY <1>1, <1>3, <1>4, <1>5, SubSeqProperties

-----------------------------------------------------------------------------
(* A file that was read from its start, and that stayed.                   *)

\* The beginning of line (o + 1) \div 2, if o pieces have been read.
Left(ls, o) == IF o % 2 = 1 THEN << <<ls[(o + 1) \div 2], 1>> >> ELSE <<>>

ReadSoFar(f) ==
  /\ offset[f] \in Nat /\ offset[f] <= Len(Pieces(f))
  /\ remainder[f] = Left(lines[f], offset[f])

\* A read finds the pieces from the start of the line that was left.
LEMMA WholeMerged ==
  ASSUME FilesInv, NEW f \in Runs, ReadSoFar(f), remainder[f] \in Seq(Begun),
         NEW a \in Nat, a = offset[f] \div 2
  PROVE  /\ 2 * a <= Len(Pieces(f))
         /\ Len(Merged(f)) = Len(Pieces(f)) - 2 * a
         /\ \A i \in 1 .. Len(Merged(f)) : Merged(f)[i] = Pieces(f)[2 * a + i]
<1>. DEFINE p == Len(Pieces(f))
            merged == Merged(f)
<1>1. p \in Nat /\ offset[f] \in Nat /\ offset[f] <= p /\ ~Rotated(f)
  BY PieceFacts DEF ReadSoFar, Rotated
<1>2. PICK r \in Nat, o \in Nat :
        /\ o = offset[f] /\ r = Len(remainder[f])
        /\ Len(merged) = r + (p - o)
        /\ \A i \in 1 .. Len(merged) :
             /\ i <= r => merged[i] = remainder[f][i]
             /\ r < i => merged[i] = Pieces(f)[o + (i - r)]
  <2>1. PICK r \in Nat, o \in Nat :
          /\ o <= Len(Pieces(f))
          /\ ~Rotated(f) => o = offset[f] /\ r = Len(remainder[f])
          /\ Len(Merged(f)) = r + (Len(Pieces(f)) - o)
          /\ \A i \in 1 .. Len(Merged(f)) :
               /\ i <= r => /\ Merged(f)[i] \in Begun
                            /\ ~Rotated(f) => Merged(f)[i] = remainder[f][i]
               /\ r < i => Merged(f)[i] = Pieces(f)[o + (i - r)]
    BY <1>1, MergedFacts, Zenon
  <2>2. merged = Merged(f) /\ p = Len(Pieces(f))
    OBVIOUS
  <2>. HIDE DEF merged, p
  <2>. QED  BY <1>1, <2>1, <2>2
<1>. HIDE DEF merged, p
<1>3. CASE o % 2 = 1
  <2>1. /\ remainder[f] = << <<lines[f][(o + 1) \div 2], 1>> >>
    BY <1>2, <1>3 DEF ReadSoFar, Left
  <2>2. r = 1 /\ remainder[f][1] = <<lines[f][(o + 1) \div 2], 1>>
    BY <1>2, <2>1
  <2>3. o = 2 * a + 1
    BY <1>2, <1>3
  <2>4. o \in 1 .. p /\ Pieces(f)[o] = <<lines[f][(o + 1) \div 2], 2 - (o % 2)>>
    <3>1. o \in 1 .. p
      BY <1>1, <1>2, <2>3
    <3>. QED  BY <3>1, PieceFacts DEF p
  <2>5. Pieces(f)[2 * a + 1] = remainder[f][1]
    BY <1>3, <2>2, <2>3, <2>4
  <2>6. Len(merged) = p - 2 * a
    <3>1. Len(merged) = r + (p - o)
      BY <1>2
    <3>. QED  BY <1>1, <2>2, <2>3, <3>1
  <2>7. ASSUME NEW i \in 1 .. Len(merged) PROVE merged[i] = Pieces(f)[2 * a + i]
    <3>1. CASE i = 1
      <4>1. 1 \in 1 .. Len(merged) /\ 1 <= r
        BY <2>2, <3>1
      <4>2. merged[1] = remainder[f][1]
        BY <1>2, <4>1
      <4>. QED  BY <2>5, <3>1, <4>2
    <3>2. CASE i # 1
      <4>1. r < i /\ o + (i - r) = 2 * a + i
        BY <1>1, <2>2, <2>3, <2>6, <3>2
      <4>. QED  BY <1>2, <4>1
    <3>. QED  BY <3>1, <3>2
  <2>8. 2 * a <= p
    BY <1>1, <2>3, <2>4
  <2>. QED  BY <2>6, <2>7, <2>8 DEF merged, p
<1>4. CASE o % 2 # 1
  <2>1. remainder[f] = <<>>
    <3>1. Left(lines[f], o) = <<>>
      BY <1>4 DEF Left
    <3>. QED  BY <1>2, <3>1 DEF ReadSoFar
  <2>2. r = 0
    BY <1>2, <2>1, EmptySeq
  <2>3. o = 2 * a
    <3>1. a = o \div 2
      BY <1>2
    <3>2. o % 2 = 0
      BY <1>4
    <3>. QED  BY <3>1, <3>2
  <2>4. Len(merged) = p - 2 * a
    BY <1>1, <1>2, <2>2, <2>3
  <2>5. ASSUME NEW i \in 1 .. Len(merged) PROVE merged[i] = Pieces(f)[2 * a + i]
    <3>1. r < i /\ o + (i - r) = 2 * a + i
      BY <1>1, <2>2, <2>3, <2>4
    <3>. QED  BY <1>2, <3>1
  <2>. QED  BY <1>1, <1>2, <2>3, <2>4, <2>5 DEF merged, p
<1>. QED  BY <1>3, <1>4

\* Every second piece ends a line.
LEMMA EveryOther ==
  ASSUME NEW merged \in Seq(Piece),
         \A i \in 1 .. Len(merged) : merged[i][2] = 2 <=> i % 2 = 0
  PROVE  /\ Len(Ends(merged)) = Len(merged) \div 2
         /\ \A n \in 1 .. Len(Ends(merged)) : Ends(merged)[n] = 2 * n
<1>. DEFINE ends == Ends(merged)
            m == Len(merged)
            c == Len(ends)
            I == {n \in Nat : n + 1 <= c => ends[n + 1] = 2 * (n + 1)}
<1>1. m \in Nat
  BY LenProperties
<1>2. /\ c \in Nat /\ Rises(ends)
      /\ \A n \in 1 .. c : ends[n] \in 1 .. m /\ ends[n] % 2 = 0
      /\ \A i \in 1 .. m : i % 2 = 0 => \E n \in 1 .. c : ends[n] = i
  <2>1. /\ c \in Nat /\ Rises(ends)
        /\ \A n \in 1 .. c : ends[n] \in 1 .. m /\ merged[ends[n]][2] = 2
        /\ \A i \in 1 .. m : merged[i][2] = 2 => \E n \in 1 .. c : ends[n] = i
    BY EndsFacts
  <2>. QED  BY <2>1
<1>. HIDE DEF ends, m
<1>3. 0 \in I
  <2>. SUFFICES ASSUME 1 <= c PROVE ends[1] = 2
    OBVIOUS
  <2>1. PICK e \in 1 .. m : e = ends[1] /\ e % 2 = 0
    BY <1>2
  <2>2. 2 \in 1 .. m /\ 2 % 2 = 0 /\ e >= 2
    BY <1>1, <2>1
  <2>3. PICK n \in 1 .. c : ends[n] = 2
    BY <1>2, <2>2
  <2>4. CASE n = 1
    BY <2>3, <2>4
  <2>5. CASE n # 1
    <3>1. 1 \in 1 .. c /\ 1 < n
      BY <1>2, <2>5
    <3>2. ends[1] < ends[n]
      BY <1>2, <3>1 DEF Rises
    <3>. QED  BY <2>1, <2>2, <2>3, <3>2
  <2>. QED  BY <2>4, <2>5
<1>4. ASSUME NEW n \in Nat, n \in I PROVE n + 1 \in I
  <2>. SUFFICES ASSUME (n + 1) + 1 <= c PROVE ends[(n + 1) + 1] = 2 * ((n + 1) + 1)
    OBVIOUS
  <2>. DEFINE k == (n + 1) + 1
  <2>1. ends[n + 1] = 2 * (n + 1)
    BY <1>2, <1>4
  <2>. HIDE DEF I
  <2>2. n + 1 \in 1 .. c /\ k \in 1 .. c /\ n + 1 < k
    BY <1>2
  <2>3. PICK e \in 1 .. m : e = ends[k] /\ e % 2 = 0
    BY <1>2, <2>2
  <2>4. ends[n + 1] < ends[k]
    BY <1>2, <2>2 DEF Rises
  <2>5. 2 * (n + 1) < e
    BY <2>1, <2>3, <2>4
  <2>6. 2 * k <= e
    <3>1. e \in Int /\ e % 2 = 0
      BY <1>1, <2>3
    <3>2. PICK q \in Int : e = 2 * q
      BY <3>1
    <3>3. n + 1 < q
      BY <2>5, <3>2
    <3>. QED  BY <3>2, <3>3
  <2>7. 2 * k \in 1 .. m /\ (2 * k) % 2 = 0
    BY <1>1, <2>3, <2>6
  <2>8. PICK j \in 1 .. c : ends[j] = 2 * k
    BY <1>2, <2>7
  <2>9. CASE j <= n + 1
    <3>1. CASE j = n + 1
      BY <2>1, <2>8, <3>1
    <3>2. CASE j < n + 1
      <4>1. ends[j] < ends[n + 1]
        BY <1>2, <2>2, <3>2 DEF Rises
      <4>. QED  BY <2>1, <2>8, <4>1
    <3>. QED  BY <1>2, <2>9, <3>1, <3>2
  <2>10. CASE j = k
    BY <2>8, <2>10
  <2>11. CASE k < j
    <3>1. ends[k] < ends[j]
      BY <1>2, <2>2, <2>11 DEF Rises
    <3>2. e < 2 * k
      BY <2>3, <2>8, <3>1
    <3>. QED  BY <1>1, <2>3, <2>6, <3>2
  <2>. QED  BY <1>2, <2>9, <2>10, <2>11
<1>. HIDE DEF I
<1>5. Nat \subseteq I
  BY <1>3, <1>4, NumberInduction
<1>6. ASSUME NEW n \in 1 .. c PROVE ends[n] = 2 * n
  <2>1. n - 1 \in Nat /\ (n - 1) + 1 = n /\ n <= c
    BY <1>2
  <2>. QED  BY <1>5, <2>1 DEF I
<1>7. c = m \div 2
  <2>1. c <= m \div 2
    <3>1. CASE c = 0
      BY <1>1, <3>1
    <3>2. CASE c # 0
      <4>1. ends[c] = 2 * c /\ ends[c] \in 1 .. m
        BY <1>2, <1>6, <3>2
      <4>. QED  BY <1>1, <1>2, <4>1
    <3>. QED  BY <3>1, <3>2
  <2>2. c >= m \div 2
    <3>. DEFINE h == m \div 2
    <3>1. h \in Nat /\ 2 * h <= m
      BY <1>1
    <3>. HIDE DEF h
    <3>2. CASE h = 0
      BY <1>2, <3>2 DEF h
    <3>3. CASE h # 0
      <4>1. 2 * h \in 1 .. m /\ (2 * h) % 2 = 0
        BY <1>1, <3>1, <3>3
      <4>2. PICK n \in 1 .. c : ends[n] = 2 * h
        BY <1>2, <4>1
      <4>3. n = h
        BY <1>6, <3>1, <4>2
      <4>. QED  BY <1>2, <3>1, <4>3 DEF h
    <3>. QED  BY <3>2, <3>3
  <2>. QED  BY <1>1, <1>2, <2>1, <2>2
<1>. QED  BY <1>6, <1>7 DEF ends, m

\* The valid lines of a file up to line n.
TakenTo(events, ls, n) ==
  Only(SubSeq(ls, 1, n), {e \in 1 .. Len(events) : events[e].type # "junk"})

\* A read of a file that stayed makes a batch of the valid lines completed
\* since, and keeps the beginning of the next.
LEMMA BatchIsWhole ==
  ASSUME FilesInv, NEW f \in Runs, ReadSoFar(f), remainder[f] \in Seq(Begun)
  PROVE  /\ TakenTo(trace, lines[f], Len(Pieces(f)) \div 2)
              = TakenTo(trace, lines[f], offset[f] \div 2) \o Batch(f)
         /\ ReadAppended(f).remainder = Left(lines[f], Len(Pieces(f)))
<1>. DEFINE p == Len(Pieces(f))
            a == offset[f] \div 2
            b == p \div 2
            merged == Merged(f)
            ends == Ends(merged)
            m == Len(merged)
            L(n) == LineOf(merged, n)
            es == [n \in 1 .. Len(ends) |-> EventOf(L(n))]
            E == 1 .. Len(trace)
            sub == SubSeq(lines[f], a + 1, b)
<1>1. p \in Nat /\ offset[f] \in Nat /\ offset[f] <= p
  BY PieceFacts DEF ReadSoFar
<1>2. a \in Nat /\ b \in Nat /\ a <= b /\ 2 * b <= p /\ p <= 2 * b + 1
  <2>1. PICK o \in Nat : o = offset[f]
    BY <1>1
  <2>2. a = o \div 2
    BY <2>1
  <2>. HIDE DEF a, p
  <2>. QED  BY <1>1, <2>1, <2>2
<1>3. /\ merged \in Seq(Piece) /\ 2 * a <= p /\ m = p - 2 * a
      /\ \A i \in 1 .. m : merged[i] = Pieces(f)[2 * a + i]
  <2>1. merged \in Seq(Piece)
    BY <1>1, MergedFacts
  <2>2. \E c : c = a
    OBVIOUS
  <2>. QED  BY <1>2, <2>1, WholeMerged
<1>4. Len(lines[f]) \in Nat /\ b <= Len(lines[f]) /\ p <= 2 * Len(lines[f])
  <2>1. Len(lines[f]) \in Nat /\ p = 2 * Len(lines[f]) - (IF half[f] THEN 1 ELSE 0)
    BY FileFacts, PieceFacts
  <2>2. p <= 2 * Len(lines[f])
    <3>1. CASE half[f]
      BY <1>1, <2>1, <3>1
    <3>2. CASE ~half[f]
      BY <1>1, <2>1, <3>2
    <3>. QED  BY <3>1, <3>2
  <2>3. PICK k \in Nat, q \in Nat, c \in Nat : k = Len(lines[f]) /\ q = p /\ c = b
    BY <1>1, <1>2, <2>1
  <2>4. 2 * c <= q /\ q <= 2 * k
    BY <1>2, <2>2, <2>3
  <2>5. c <= k
    BY <2>4
  <2>. QED  BY <2>2, <2>3, <2>5
<1>. HIDE DEF a, b, p, merged
<1>5. m \in Nat
  BY <1>3, LenProperties
<1>6. ASSUME NEW i \in 1 .. m
      PROVE  /\ a + ((i + 1) \div 2) \in 1 .. Len(lines[f])
             /\ merged[i] = <<lines[f][a + ((i + 1) \div 2)], 2 - (i % 2)>>
  <2>. DEFINE j == 2 * a + i
  <2>1. j \in 1 .. p
    BY <1>1, <1>2, <1>3
  <2>2. /\ (j + 1) \div 2 \in 1 .. Len(lines[f])
        /\ Pieces(f)[j] = <<lines[f][(j + 1) \div 2], 2 - (j % 2)>>
    BY <2>1, PieceFacts DEF p
  <2>3. (j + 1) \div 2 = a + ((i + 1) \div 2) /\ j % 2 = i % 2
    <3>1. PICK x \in Nat, c \in Nat : x = i /\ c = a
      BY <1>2, <1>5
    <3>2. (2 * c + x + 1) \div 2 = c + ((x + 1) \div 2) /\ (2 * c + x) % 2 = x % 2
      OBVIOUS
    <3>. QED  BY <3>1, <3>2
  <2>. QED  BY <1>3, <2>2, <2>3
<1>7. \A i \in 1 .. m : merged[i][2] = 2 <=> i % 2 = 0
  <2>1. ASSUME NEW i \in 1 .. m PROVE merged[i][2] = 2 <=> i % 2 = 0
    <3>1. merged[i][2] = 2 - (i % 2)
      BY <1>6
    <3>2. PICK x \in 0 .. 1 : x = i % 2
      BY <1>5
    <3>. QED  BY <3>1, <3>2
  <2>. QED  BY <2>1
<1>8. Len(ends) = m \div 2 /\ \A n \in 1 .. Len(ends) : ends[n] = 2 * n
  BY <1>3, <1>7, EveryOther
<1>. HIDE DEF ends
<1>9. Len(ends) \in Nat /\ Len(ends) = b - a /\ m \div 2 = b - a
  <2>1. m = p - 2 * a
    BY <1>3
  <2>2. m \div 2 = (p \div 2) - a
    <3>1. PICK x \in Nat : x = m
      BY <1>5
    <3>2. p = x + 2 * a
      BY <1>1, <1>2, <2>1, <3>1
    <3>3. (x + 2 * a) \div 2 = (x \div 2) + a
      BY <1>2
    <3>. QED  BY <1>2, <3>1, <3>2, <3>3
  <2>. QED  BY <1>2, <1>8, <2>2 DEF b
<1>10. /\ sub \in Seq(Nat) /\ Len(sub) = b - a
       /\ \A n \in 1 .. b - a : sub[n] = lines[f][a + n]
  <2>1. \A i \in a + 1 .. b : lines[f][i] \in Nat
    <3>1. \A i \in a + 1 .. b : i \in 1 .. Len(lines[f])
      BY <1>2, <1>4
    <3>. QED  BY <3>1, FileFacts
  <2>2. a + 1 \in Int /\ b \in Int /\ b - (a + 1) + 1 = b - a
    BY <1>2
  <2>3. /\ sub \in Seq(Nat)
        /\ Len(sub) = IF a + 1 <= b THEN b - (a + 1) + 1 ELSE 0
        /\ \A i \in 1 .. b - (a + 1) + 1 : sub[i] = lines[f][(a + 1) + i - 1]
    BY <2>1, <2>2, SubSeqProperties
  <2>. HIDE DEF sub
  <2>4. Len(sub) = b - a
    BY <1>2, <2>3
  <2>5. \A n \in 1 .. b - a : (a + 1) + n - 1 = a + n
    BY <1>2
  <2>. QED  BY <2>2, <2>3, <2>4, <2>5
<1>. HIDE DEF sub
\* Each line of the read is a line of the file.
<1>11. ASSUME NEW n \in 1 .. Len(ends)
       PROVE  L(n) = << <<lines[f][a + n], 1>>, <<lines[f][a + n], 2>> >>
  <2>. DEFINE l == L(n)
              e == lines[f][a + n]
  <2>1. ends[n] = 2 * n
    BY <1>8
  <2>2. Start(ends, n) = 2 * n - 1
    <3>1. CASE n = 1
      BY <3>1 DEF Start
    <3>2. CASE n # 1
      <4>1. n - 1 \in 1 .. Len(ends)
        BY <1>9, <3>2
      <4>2. ends[n - 1] = 2 * (n - 1)
        BY <1>8, <4>1
      <4>. QED  BY <1>9, <3>2, <4>2 DEF Start
    <3>. QED  BY <3>1, <3>2
  <2>3. /\ l \in Seq(Piece)
        /\ Len(l) = ends[n] - Start(ends, n) + 1
        /\ \A i \in 1 .. Len(l) : l[i] = merged[Start(ends, n) + i - 1]
    BY <1>3, LineFacts DEF ends
  <2>. HIDE DEF l
  <2>4. Len(l) = 2
    BY <1>9, <2>1, <2>2, <2>3
  <2>5. l[1] = merged[2 * n - 1] /\ l[2] = merged[2 * n]
    <3>1. 1 \in 1 .. Len(l) /\ 2 \in 1 .. Len(l)
      BY <2>4
    <3>2. (2 * n - 1) + 1 - 1 = 2 * n - 1 /\ (2 * n - 1) + 2 - 1 = 2 * n
      BY <1>9
    <3>. QED  BY <2>2, <2>3, <3>1, <3>2
  <2>6. 2 * n - 1 \in 1 .. m /\ 2 * n \in 1 .. m
    BY <1>5, <1>8
  <2>7. /\ ((2 * n - 1) + 1) \div 2 = n /\ ((2 * n) + 1) \div 2 = n
        /\ (2 * n - 1) % 2 = 1 /\ (2 * n) % 2 = 0
    BY <1>9
  <2>8. l[1] = <<e, 1>>
    <3>1. PICK i \in 1 .. m : i = 2 * n - 1
      BY <2>6
    <3>2. merged[i] = <<lines[f][a + ((i + 1) \div 2)], 2 - (i % 2)>>
      BY <1>6
    <3>3. (i + 1) \div 2 = n /\ 2 - (i % 2) = 1
      BY <2>7, <3>1
    <3>. QED  BY <2>5, <3>1, <3>2, <3>3
  <2>9. l[2] = <<e, 2>>
    <3>1. PICK i \in 1 .. m : i = 2 * n
      BY <2>6
    <3>2. merged[i] = <<lines[f][a + ((i + 1) \div 2)], 2 - (i % 2)>>
      BY <1>6
    <3>3. (i + 1) \div 2 = n /\ 2 - (i % 2) = 2
      BY <2>7, <3>1
    <3>. QED  BY <2>5, <3>1, <3>2, <3>3
  <2>. HIDE DEF e
  <2>10. l = <<l[1], l[2]>>
    BY <2>3, <2>4
  <2>. QED  BY <2>8, <2>9, <2>10 DEF l, e
<1>12. Batch(f) = Only(es, E)
  <2>. DEFINE ls == [n \in 1 .. Len(ends) |-> L(n)]
  <2>1. ReadAppended(f).lines = ls
    BY DEF ReadAppended, LineOf, ends, merged
  <2>2. Len(ls) = Len(ends) /\ \A n \in 1 .. Len(ends) : ls[n] = L(n)
    BY <1>9
  <2>3. [n \in 1 .. Len(ls) |-> EventOf(ls[n])] = es
    BY <2>2
  <2>. HIDE DEF ls, es
  <2>. QED  BY <2>1, <2>3 DEF Batch, ParseTraceLines
<1>13. ASSUME NEW n \in 1 .. b - a
       PROVE  /\ es[n] \in E <=> sub[n] \in WellFormed
              /\ es[n] \in E => es[n] = sub[n]
  <2>. DEFINE e == lines[f][a + n]
              l == L(n)
  <2>1. n \in 1 .. Len(ends) /\ sub[n] = e
    BY <1>9, <1>10
  <2>2. e \in E /\ None \notin E
    <3>1. a + n \in 1 .. Len(lines[f])
      BY <1>2, <1>4
    <3>. QED  BY <3>1, FileFacts, MonitorAssumption
  <2>3. l = << <<e, 1>>, <<e, 2>> >>
    BY <1>11, <2>1
  <2>4. es[n] = EventOf(l)
    BY <2>1
  <2>. HIDE DEF l, e, es
  <2>5. Len(l) = 2 /\ l[1][1] = e /\ l = << <<l[1][1], 1>>, <<l[1][1], 2>> >>
    BY <2>3
  <2>6. Valid(l) <=> trace[e].type # "junk"
    BY <2>5 DEF Valid
  <2>7. EventOf(l) = IF trace[e].type # "junk" THEN e ELSE None
    BY <2>5, <2>6 DEF EventOf
  <2>8. e \in WellFormed <=> trace[e].type # "junk"
    BY <2>2 DEF WellFormed
  <2>. QED  BY <2>1, <2>2, <2>4, <2>7, <2>8
<1>14. Batch(f) = Only(sub, WellFormed)
  <2>1. Len(es) = b - a /\ Len(sub) = b - a /\ b - a \in Nat
    BY <1>9, <1>10
  <2>. HIDE DEF es
  <2>2. Alike(es, E, sub, WellFormed, b - a)
    BY <1>13 DEF Alike
  <2>. QED  BY <1>12, <2>1, <2>2, OnlyAlike
<1>15. TakenTo(trace, lines[f], b) = TakenTo(trace, lines[f], a) \o Batch(f)
  <2>1. SubSeq(lines[f], 1, a) \o SubSeq(lines[f], a + 1, b) = SubSeq(lines[f], 1, b)
    <3>1. /\ 1 \in 1 .. Len(lines[f]) + 1 /\ a \in 1 - 1 .. Len(lines[f])
          /\ b \in a .. Len(lines[f]) /\ lines[f] \in Seq(Nat)
      BY <1>2, <1>4, FileFacts
    <3>. QED  BY <3>1, ConcatAdjacentSubSeq
  <2>2. SubSeq(lines[f], 1, a) \in Seq(Nat)
    <3>1. \A i \in 1 .. a : lines[f][i] \in Nat
      <4>1. \A i \in 1 .. a : i \in 1 .. Len(lines[f])
        BY <1>2, <1>4
      <4>. QED  BY <4>1, FileFacts
    <3>. QED  BY <1>2, <3>1, SubSeqProperties
  <2>3. Only(SubSeq(lines[f], 1, a) \o sub, WellFormed)
          = Only(SubSeq(lines[f], 1, a), WellFormed) \o Only(sub, WellFormed)
    <3>1. PICK u \in Seq(Nat), v \in Seq(Nat) : u = SubSeq(lines[f], 1, a) /\ v = sub
      BY <1>10, <2>2
    <3>2. Only(u \o v, WellFormed) = Only(u, WellFormed) \o Only(v, WellFormed)
      BY OnlyOfConcat
    <3>. QED  BY <3>1, <3>2
  <2>. QED  BY <1>14, <2>1, <2>3 DEF TakenTo, WellFormed, sub
<1>16. ReadAppended(f).remainder = Left(lines[f], p)
  <2>. DEFINE c == Len(ends)
              s == Start(ends, c + 1)
              rest == SubSeq(merged, s, m)
  <2>1. ReadAppended(f).remainder = rest
    BY DEF ReadAppended, ends, merged
  <2>2. s = 2 * c + 1
    <3>1. CASE c = 0
      BY <3>1 DEF Start
    <3>2. CASE c # 0
      <4>1. c \in 1 .. c /\ (c + 1) - 1 = c /\ c + 1 # 1
        BY <1>9, <3>2
      <4>. QED  BY <1>8, <4>1 DEF Start
    <3>. QED  BY <3>1, <3>2
  <2>3. p = m + 2 * a
    BY <1>1, <1>2, <1>3
  <2>4. CASE m % 2 = 0
    <3>1. m < s /\ s \in Int
      BY <1>5, <1>8, <1>9, <2>2, <2>4
    <3>2. rest = <<>>
      BY <1>5, <3>1, SubSeqEmpty
    <3>3. p % 2 # 1
      BY <1>2, <1>5, <2>3, <2>4
    <3>. QED  BY <2>1, <3>2, <3>3 DEF Left
  <2>5. CASE m % 2 = 1
    <3>1. s = m /\ m \in 1 .. m
      BY <1>5, <1>8, <1>9, <2>2, <2>5
    <3>2. rest = <<merged[m]>>
      <4>1. merged[m] \in Piece
        BY <1>3, <3>1, ElementOfSeq DEF m
      <4>2. \A i \in m .. m : merged[i] \in Piece
        BY <1>5, <4>1
      <4>. DEFINE q == SubSeq(merged, m, m)
      <4>3. q \in Seq(Piece) /\ Len(q) = 1 /\ q[1] = merged[m]
        <5>1. m <= m /\ m - m + 1 = 1 /\ m + 1 - 1 = m /\ 1 \in 1 .. m - m + 1 /\ m \in Int
          BY <1>5
        <5>2. /\ q \in Seq(Piece) /\ Len(q) = IF m <= m THEN m - m + 1 ELSE 0
              /\ \A i \in 1 .. m - m + 1 : q[i] = merged[m + i - 1]
          BY <4>2, <5>1, SubSeqProperties
        <5>. HIDE DEF q
        <5>. QED  BY <5>1, <5>2
      <4>. HIDE DEF q
      <4>4. q = <<q[1]>>
        BY <4>3
      <4>. QED  BY <3>1, <4>3, <4>4 DEF q
    <3>3. merged[m] = <<lines[f][a + ((m + 1) \div 2)], 2 - (m % 2)>>
      BY <1>6, <3>1
    <3>4. p % 2 = 1 /\ (p + 1) \div 2 = a + ((m + 1) \div 2)
      BY <1>2, <1>5, <2>3, <2>5
    <3>5. merged[m] = <<lines[f][(p + 1) \div 2], 1>>
      BY <2>5, <3>3, <3>4
    <3>. QED  BY <2>1, <3>2, <3>4, <3>5 DEF Left
  <2>. QED  BY <1>5, <2>4, <2>5
<1>. QED  BY <1>15, <1>16 DEF a, b, p

-----------------------------------------------------------------------------
(* The inductive invariant.                                                *)

\* The pieces of a file with these lines.
Size(ls, h) == 2 * Len(ls) - (IF h THEN 1 ELSE 0)

\* Of a file that stayed, the offset and the remainder belong together.
ReadTo(ls, h, o, r) == o \in Nat /\ o <= Size(ls, h) /\ r = Left(ls, o)

\* The rows of this life.
AddedTo(rs, n) ==
  SubSeq(rs, IF n < Len(rs) THEN Len(rs) - n + 1 ELSE 1, Len(rs))

RunOf(events, f) == {e \in 1 .. Len(events) : events[e].run = f}

\* What the rows of this life hold of a file is what was taken of it, as far
\* as pruning has left it.
Followed(events, ls, n, rs, count, f) ==
  /\ EndOf(Only(AddedTo(rs, count), RunOf(events, f)), TakenTo(events, ls, n))
  /\ count <= Retention => Only(AddedTo(rs, count), RunOf(events, f)) = TakenTo(events, ls, n)

\* A line that is in a row of this life has been read.
Behind(ls, h, o, added) ==
  \A i \in 1 .. Len(added), k \in 1 .. Len(ls) :
    added[i] = ls[k] => 2 * k <= o /\ o <= Size(ls, h)

StoredRows(rs, n) ==
  /\ rs \in Seq(Nat) /\ Len(rs) <= Retention
  /\ \A i \in 1 .. Len(rs) : rs[i] \in 1 .. n

RowsInv ==
  /\ StoredRows(rows, Len(trace))
  /\ disk # None => StoredRows(disk.rows, Len(trace))
  /\ fresh \in Nat

TailInv ==
  /\ phase \in {"down", "serving", "watching"}
  /\ offset \in [Runs -> Nat]
  /\ remainder \in [Runs -> Seq(Begun)]

WatchInv ==
  /\ fresh <= Retention => fresh <= Len(rows)
  /\ IsInjective(AddedTo(rows, fresh))
  /\ \A f \in Runs : Behind(lines[f], half[f], offset[f], AddedTo(rows, fresh))
  /\ \A f \in Runs \ spoiled :
       /\ ReadTo(lines[f], half[f], offset[f], remainder[f])
       /\ Followed(trace, lines[f], offset[f] \div 2, rows, fresh, f)

OnceInv ==
  /\ FilesInv /\ RowsInv /\ TailInv
  /\ phase = "watching" => WatchInv

-----------------------------------------------------------------------------
(* The rows of this life, and what pruning leaves of them.                 *)

LEMMA LastFacts ==
  ASSUME NEW s \in Seq(Nat), NEW k \in Nat, k <= Len(s)
  PROVE  /\ SubSeq(s, Len(s) - k + 1, Len(s)) \in Seq(Nat)
         /\ Len(SubSeq(s, Len(s) - k + 1, Len(s))) = k
         /\ EndOf(SubSeq(s, Len(s) - k + 1, Len(s)), s)
<1>. DEFINE n == Len(s)
            a == n - k + 1
            t == SubSeq(s, a, n)
<1>1. n \in Nat /\ a \in Int /\ a >= 1 /\ n - a + 1 = k
  BY LenProperties
<1>2. \A i \in a .. n : s[i] \in Nat
  <2>1. \A i \in a .. n : i \in 1 .. Len(s)
    BY <1>1
  <2>. QED  BY <2>1, ElementOfSeq
<1>3. /\ t \in Seq(Nat)
      /\ Len(t) = IF a <= n THEN n - a + 1 ELSE 0
      /\ \A i \in 1 .. n - a + 1 : t[i] = s[a + i - 1]
  BY <1>1, <1>2, SubSeqProperties
<1>. HIDE DEF t
<1>4. Len(t) = k
  BY <1>1, <1>3
<1>5. \A i \in 1 .. k : a + i - 1 = (n - k) + i
  BY <1>1
<1>6. EndOf(t, s)
  BY <1>1, <1>3, <1>4, <1>5 DEF EndOf
<1>. QED  BY <1>3, <1>4, <1>6 DEF t

LEMMA AddedFacts ==
  ASSUME NEW rs \in Seq(Nat), NEW n \in Nat
  PROVE  /\ AddedTo(rs, n) \in Seq(Nat)
         /\ Len(AddedTo(rs, n)) = IF n < Len(rs) THEN n ELSE Len(rs)
         /\ EndOf(AddedTo(rs, n), rs)
<1>1. Len(rs) \in Nat
  BY LenProperties
<1>2. CASE n < Len(rs)
  <2>1. n <= Len(rs)
    BY <1>1, <1>2
  <2>2. AddedTo(rs, n) = SubSeq(rs, Len(rs) - n + 1, Len(rs))
    BY <1>2 DEF AddedTo
  <2>. QED  BY <1>2, <2>1, <2>2, LastFacts
<1>3. CASE ~(n < Len(rs))
  <2>1. AddedTo(rs, n) = SubSeq(rs, 1, Len(rs))
    BY <1>3 DEF AddedTo
  <2>2. SubSeq(rs, 1, Len(rs)) = rs
    BY SubSeqFull
  <2>. QED  BY <1>3, <2>1, <2>2, SequenceIsEnd
<1>. QED  BY <1>2, <1>3

LEMMA PruneFacts ==
  ASSUME NEW rs \in Seq(Nat)
  PROVE  /\ Prune(rs) \in Seq(Nat)
         /\ Len(Prune(rs)) = IF Len(rs) <= Retention THEN Len(rs) ELSE Retention
         /\ EndOf(Prune(rs), rs)
<1>1. Len(rs) \in Nat /\ Retention \in Nat
  BY LenProperties, MonitorAssumption
<1>2. CASE Len(rs) <= Retention
  BY <1>2, SequenceIsEnd DEF Prune
<1>3. CASE ~(Len(rs) <= Retention)
  <2>1. Retention <= Len(rs)
    BY <1>1, <1>3
  <2>2. Prune(rs) = SubSeq(rs, Len(rs) - Retention + 1, Len(rs))
    BY <1>3 DEF Prune
  <2>. QED  BY <1>1, <1>3, <2>1, <2>2, LastFacts
<1>. QED  BY <1>2, <1>3

LEMMA EndsNest ==
  ASSUME NEW X, NEW s \in Seq(X), NEW t \in Seq(X), NEW u \in Seq(X),
         EndOf(s, u), EndOf(t, u), Len(s) <= Len(t)
  PROVE  EndOf(s, t)
<1>1. Len(s) \in Nat /\ Len(t) \in Nat /\ Len(u) \in Nat /\ Len(t) <= Len(u)
  BY LenProperties DEF EndOf
<1>2. ASSUME NEW i \in 1 .. Len(s) PROVE s[i] = t[(Len(t) - Len(s)) + i]
  <2>1. PICK j \in 1 .. Len(t) : j = (Len(t) - Len(s)) + i
    <3>1. (Len(t) - Len(s)) + i \in 1 .. Len(t)
      BY <1>1
    <3>. QED  BY <3>1
  <2>2. (Len(u) - Len(t)) + j = (Len(u) - Len(s)) + i
    BY <1>1, <2>1
  <2>3. t[j] = u[(Len(u) - Len(t)) + j] /\ s[i] = u[(Len(u) - Len(s)) + i]
    BY DEF EndOf
  <2>. QED  BY <2>1, <2>2, <2>3
<1>. QED  BY <1>2 DEF EndOf

LEMMA EndElements ==
  ASSUME NEW X, NEW s \in Seq(X), NEW t \in Seq(X), EndOf(s, t)
  PROVE  \A i \in 1 .. Len(s) : \E j \in 1 .. Len(t) : s[i] = t[j]
<1>1. Len(s) \in Nat /\ Len(t) \in Nat /\ Len(s) <= Len(t)
  BY LenProperties DEF EndOf
<1>2. ASSUME NEW i \in 1 .. Len(s) PROVE \E j \in 1 .. Len(t) : s[i] = t[j]
  <2>1. (Len(t) - Len(s)) + i \in 1 .. Len(t)
    BY <1>1
  <2>. QED  BY <2>1 DEF EndOf
<1>. QED  BY <1>2

\* appendEvents adds a batch at the end and takes from the front.
LEMMA AddedGrows ==
  ASSUME NEW rs \in Seq(Nat), NEW b \in Seq(Nat), NEW n \in Nat
  PROVE  /\ EndOf(AddedTo(Prune(rs \o b), n + Len(b)), AddedTo(rs, n) \o b)
         /\ (n <= Retention => n <= Len(rs)) /\ n + Len(b) <= Retention
              => /\ n + Len(b) <= Len(Prune(rs \o b))
                 /\ AddedTo(Prune(rs \o b), n + Len(b)) = AddedTo(rs, n) \o b
<1>. DEFINE old == AddedTo(rs, n)
            all == rs \o b
            now2 == Prune(all)
            m == n + Len(b)
            new == AddedTo(now2, m)
            both == old \o b
<1>1. Len(rs) \in Nat /\ Len(b) \in Nat /\ Retention \in Nat
  BY LenProperties, MonitorAssumption
<1>2. all \in Seq(Nat) /\ Len(all) = Len(rs) + Len(b)
  BY ConcatProperties
<1>3. old \in Seq(Nat) /\ Len(old) = (IF n < Len(rs) THEN n ELSE Len(rs)) /\ EndOf(old, rs)
  BY AddedFacts
<1>. HIDE DEF old
<1>4. both \in Seq(Nat) /\ Len(both) = Len(old) + Len(b) /\ EndOf(both, all)
  BY <1>3, ConcatProperties, EndExtends
<1>. HIDE DEF all, both
<1>5. /\ now2 \in Seq(Nat) /\ EndOf(now2, all)
      /\ Len(now2) = IF Len(all) <= Retention THEN Len(all) ELSE Retention
  BY <1>2, PruneFacts
<1>. HIDE DEF now2
<1>6. m \in Nat
  BY <1>1
<1>7. /\ new \in Seq(Nat) /\ EndOf(new, now2)
      /\ Len(new) = IF m < Len(now2) THEN m ELSE Len(now2)
  BY <1>5, <1>6, AddedFacts
<1>. HIDE DEF new
<1>8. EndOf(new, all)
  BY <1>2, <1>5, <1>7, EndOfEnd
<1>9. PICK r \in Nat, l \in Nat, c \in Nat, d \in Nat, e \in Nat :
        r = Len(rs) /\ l = Len(b) /\ c = Len(old) /\ d = Len(now2) /\ e = Len(new)
  BY <1>1, <1>3, <1>5, <1>7, LenProperties
<1>10. /\ c = IF n < r THEN n ELSE r
       /\ d = IF r + l <= Retention THEN r + l ELSE Retention
       /\ e = IF n + l < d THEN n + l ELSE d
  BY <1>2, <1>3, <1>5, <1>7, <1>9
<1>11. e <= c + l
  BY <1>1, <1>10
<1>12. Len(new) <= Len(both)
  BY <1>4, <1>9, <1>11
<1>13. EndOf(new, both)
  BY <1>2, <1>4, <1>7, <1>8, <1>12, EndsNest
<1>14. ASSUME n <= Retention => n <= Len(rs), m <= Retention
       PROVE  m <= Len(now2) /\ new = both
  <2>1. n <= r /\ n + l <= Retention
    BY <1>1, <1>9, <1>14
  <2>2. n + l <= d /\ e = c + l
    BY <1>1, <1>10, <2>1
  <2>3. Len(new) = Len(both)
    BY <1>4, <1>9, <2>2
  <2>. QED  BY <1>4, <1>7, <1>9, <1>13, <2>2, <2>3, WholeEnd
<1>. QED  BY <1>13, <1>14 DEF old, all, now2, new, both

-----------------------------------------------------------------------------
(* What a read adds.                                                       *)

LEMMA SizeOfPieces ==
  ASSUME FilesInv, NEW f \in Runs
  PROVE  Size(lines[f], half[f]) = Len(Pieces(f)) /\ Len(Pieces(f)) \in Nat
BY PieceFacts DEF Size

\* No line of a batch is in a row of this life, and each is behind the new offset.
LEMMA BatchIsOnce ==
  ASSUME FilesInv, TailInv, NEW f \in Runs, NEW added \in Seq(Nat), IsInjective(added),
         \A g \in Runs : Behind(lines[g], half[g], offset[g], added)
  PROVE  /\ IsInjective(added \o Batch(f))
         /\ \A g \in Runs :
              Behind(lines[g], half[g],
                     IF g = f THEN Len(Pieces(f)) ELSE offset[g], added \o Batch(f))
<1>. DEFINE B == Batch(f)
            p == Len(Pieces(f))
<1>1. offset[f] \in Nat /\ remainder[f] \in Seq(Begun)
  BY DEF TailInv
<1>2. /\ B \in Seq(Nat) /\ Rises(B)
      /\ \A i \in 1 .. Len(B) :
           \E k \in 1 .. Len(lines[f]) :
              /\ B[i] = lines[f][k] /\ 2 * k <= p
              /\ ~Rotated(f) => offset[f] < 2 * k
  BY <1>1, BatchIsNew
<1>3. p = Size(lines[f], half[f]) /\ p \in Nat
  BY SizeOfPieces
<1>. HIDE DEF B, p
<1>4. /\ Len(added) \in Nat /\ Len(B) \in Nat
      /\ DOMAIN B = 1 .. Len(B)
  BY <1>2, LenProperties
<1>5. ASSUME NEW i \in 1 .. Len(added), NEW j \in 1 .. Len(B), added[i] = B[j]
      PROVE  FALSE
  <2>1. PICK k \in 1 .. Len(lines[f]) :
          B[j] = lines[f][k] /\ 2 * k <= p /\ (~Rotated(f) => offset[f] < 2 * k)
    BY <1>2
  <2>2. 2 * k <= offset[f] /\ offset[f] <= p
    BY <1>3, <1>5, <2>1 DEF Behind
  <2>3. ~Rotated(f)
    BY <1>1, <1>3, <2>2 DEF Rotated, p
  <2>4. k \in Nat
    BY <2>1, FileFacts
  <2>. QED  BY <1>1, <2>1, <2>2, <2>3, <2>4
<1>6. IsInjective(B)
  <2>1. \A i \in 1 .. Len(B) : B[i] \in Nat
    BY <1>2, ElementOfSeq
  <2>2. ASSUME NEW i \in 1 .. Len(B), NEW j \in 1 .. Len(B), B[i] = B[j] PROVE i = j
    <3>1. ~(i < j)
      BY <1>2, <2>1, <2>2 DEF Rises
    <3>2. ~(j < i)
      BY <1>2, <2>1, <2>2 DEF Rises
    <3>. QED  BY <1>4, <3>1, <3>2
  <2>. QED  BY <1>4, <2>2 DEF IsInjective
<1>7. IsInjective(added \o B)
  BY <1>2, <1>5, <1>6, ConcatIsInjective
<1>8. /\ added \o B \in Seq(Nat) /\ Len(added \o B) = Len(added) + Len(B)
      /\ \A i \in 1 .. Len(added) + Len(B) :
           (added \o B)[i] = IF i <= Len(added) THEN added[i] ELSE B[i - Len(added)]
  BY <1>2, ConcatProperties
<1>9. ASSUME NEW g \in Runs, NEW i \in 1 .. Len(added \o B), NEW k \in 1 .. Len(lines[g]),
             (added \o B)[i] = lines[g][k],
             NEW o, o = IF g = f THEN p ELSE offset[g]
      PROVE  2 * k <= o /\ o <= Size(lines[g], half[g])
  <2>0. k \in Nat /\ Len(lines[g]) \in Nat
    BY FileFacts
  <2>1. CASE i <= Len(added)
    <3>1. i \in 1 .. Len(added) /\ added[i] = lines[g][k]
      BY <1>4, <1>8, <1>9, <2>1
    <3>2. 2 * k <= offset[g] /\ offset[g] <= Size(lines[g], half[g])
      BY <3>1 DEF Behind
    <3>3. CASE g = f
      BY <1>1, <1>3, <1>9, <2>0, <3>2, <3>3
    <3>4. CASE g # f
      BY <1>9, <3>2, <3>4
    <3>. QED  BY <3>3, <3>4
  <2>2. CASE ~(i <= Len(added))
    <3>1. i - Len(added) \in 1 .. Len(B) /\ B[i - Len(added)] = lines[g][k]
      BY <1>4, <1>8, <1>9, <2>2
    <3>2. PICK x \in 1 .. Len(lines[f]) : B[i - Len(added)] = lines[f][x] /\ 2 * x <= p
      BY <1>2, <3>1
    <3>3. lines[f][x] = lines[g][k]
      BY <3>1, <3>2
    <3>4. g = f
      <4>1. trace[lines[f][x]].run = f
        BY <1>1, FileFacts
      <4>2. trace[lines[g][k]].run = g
        BY <1>1, <1>9, FileFacts
      <4>. QED  BY <3>3, <4>1, <4>2
    <3>5. x = k
      <4>1. Rises(lines[f]) /\ Len(lines[f]) \in Nat /\ lines[f][x] \in Nat
        BY FileFacts
      <4>2. ~(x < k) /\ ~(k < x)
        BY <3>3, <3>4, <4>1 DEF Rises
      <4>. QED  BY <3>4, <4>1, <4>2
    <3>. QED  BY <1>3, <1>9, <3>2, <3>4, <3>5
  <2>. QED  BY <1>4, <1>8, <2>1, <2>2
<1>10. \A g \in Runs :
         Behind(lines[g], half[g], IF g = f THEN p ELSE offset[g], added \o B)
  BY <1>9 DEF Behind
<1>. QED  BY <1>7, <1>10 DEF B, p

-----------------------------------------------------------------------------
(* The steps.                                                              *)

LEMMA HandleFileFacts ==
  ASSUME FilesInv, TailInv, NEW f \in Runs, HandleFile(f)
  PROVE  /\ FilesInv' /\ TailInv' /\ phase = "watching" /\ phase' = "watching"
         /\ trace' = trace /\ lines' = lines /\ half' = half
         /\ \A g \in Runs : g # f => offset'[g] = offset[g] /\ remainder'[g] = remainder[g]
         /\ offset'[f] = Len(Pieces(f)) /\ remainder'[f] = ReadAppended(f).remainder
<1>1. /\ phase = "watching" /\ phase' = phase
      /\ trace' = trace /\ lines' = lines /\ half' = half /\ now' = now
      /\ offset' = [offset EXCEPT ![f] = ReadAppended(f).offset]
      /\ remainder' = [remainder EXCEPT ![f] = ReadAppended(f).remainder]
  BY DEF HandleFile, Notified, fileVars
<1>2. FilesInv'
  BY <1>1 DEF FilesInv, TraceInv, LinesInv
<1>3. offset[f] \in Nat /\ remainder[f] \in Seq(Begun)
  BY DEF TailInv
<1>4. ReadAppended(f).offset = Len(Pieces(f))
  BY DEF ReadAppended
<1>5. Len(Pieces(f)) \in Nat /\ ReadAppended(f).remainder \in Seq(Begun)
  BY <1>3, PieceFacts, LeftIsBegun
<1>6. offset' \in [Runs -> Nat] /\ remainder' \in [Runs -> Seq(Begun)]
  BY <1>1, <1>4, <1>5 DEF TailInv
<1>7. \A g \in Runs : g # f => offset'[g] = offset[g] /\ remainder'[g] = remainder[g]
  BY <1>1 DEF TailInv
<1>8. offset'[f] = Len(Pieces(f)) /\ remainder'[f] = ReadAppended(f).remainder
  BY <1>1, <1>4 DEF TailInv
<1>. QED  BY <1>1, <1>2, <1>6, <1>7, <1>8 DEF TailInv

\* A read whose rows are added.
LEMMA ReadStep ==
  ASSUME OnceInv, NEW f \in Runs, HandleFile(f),
         rows' = Prune(rows \o Batch(f)), fresh' = fresh + Len(Batch(f)),
         spoiled \subseteq spoiled'
  PROVE  StoredRows(rows', Len(trace)) /\ fresh' \in Nat /\ WatchInv'
<1>. DEFINE B == Batch(f)
            p == Len(Pieces(f))
            added == AddedTo(rows, fresh)
            new == AddedTo(rows', fresh')
<1>1. FilesInv /\ RowsInv /\ TailInv /\ phase = "watching" /\ WatchInv
  BY DEF OnceInv, HandleFile, Notified
<1>2. /\ trace' = trace /\ lines' = lines /\ half' = half
      /\ \A g \in Runs : g # f => offset'[g] = offset[g] /\ remainder'[g] = remainder[g]
      /\ offset'[f] = p /\ remainder'[f] = ReadAppended(f).remainder
  BY <1>1, HandleFileFacts
<1>3. offset[f] \in Nat /\ remainder[f] \in Seq(Begun)
  BY <1>1 DEF TailInv
<1>4. rows \in Seq(Nat) /\ fresh \in Nat /\ Len(rows) \in Nat
  BY <1>1, LenProperties DEF RowsInv, StoredRows
<1>5. /\ B \in Seq(Nat) /\ Len(B) \in Nat
      /\ \A i \in 1 .. Len(B) : B[i] \in 1 .. Len(trace) /\ trace[B[i]].run = f
  <2>1. /\ B \in Seq(Nat)
        /\ \A i \in 1 .. Len(B) : \E k \in 1 .. Len(lines[f]) : B[i] = lines[f][k]
    BY <1>1, <1>3, BatchIsNew
  <2>. HIDE DEF B
  <2>2. ASSUME NEW i \in 1 .. Len(B)
        PROVE  B[i] \in 1 .. Len(trace) /\ trace[B[i]].run = f
    <3>1. PICK k \in 1 .. Len(lines[f]) : B[i] = lines[f][k]
      BY <2>1
    <3>2. lines[f][k] \in 1 .. Len(trace) /\ trace[lines[f][k]].run = f
      BY <1>1, FileFacts
    <3>. QED  BY <3>1, <3>2
  <2>. QED  BY <2>1, <2>2, LenProperties
<1>6. added \in Seq(Nat)
  BY <1>4, AddedFacts
<1>7. /\ IsInjective(added \o B)
      /\ \A g \in Runs :
           Behind(lines[g], half[g], IF g = f THEN p ELSE offset[g], added \o B)
  BY <1>1, <1>6, BatchIsOnce DEF WatchInv
<1>8. /\ EndOf(new, added \o B)
      /\ (fresh <= Retention => fresh <= Len(rows)) /\ fresh + Len(B) <= Retention
           => fresh + Len(B) <= Len(rows') /\ new = added \o B
  BY <1>4, <1>5, AddedGrows
<1>9. rows' \in Seq(Nat) /\ EndOf(rows', rows \o B) /\ Len(rows') <= Retention
  <2>1. rows \o B \in Seq(Nat)
    BY <1>4, <1>5, ConcatProperties
  <2>2. Len(rows \o B) \in Nat /\ Retention \in Nat
    BY <2>1, LenProperties, MonitorAssumption
  <2>3. PICK all \in Seq(Nat) : all = rows \o B
    BY <2>1
  <2>4. /\ Prune(all) \in Seq(Nat) /\ EndOf(Prune(all), all)
        /\ Len(Prune(all)) = IF Len(all) <= Retention THEN Len(all) ELSE Retention
    BY PruneFacts
  <2>5. Len(all) \in Nat
    BY LenProperties
  <2>6. Len(Prune(all)) <= Retention
    BY <2>2, <2>4, <2>5
  <2>7. rows' = Prune(all)
    BY <2>3
  <2>. QED  BY <2>3, <2>4, <2>6, <2>7
<1>10. fresh' \in Nat
  BY <1>4, <1>5
<1>11. new \in Seq(Nat) /\ added \o B \in Seq(Nat)
  BY <1>5, <1>6, <1>9, <1>10, AddedFacts, ConcatProperties
<1>12. StoredRows(rows', Len(trace))
  <2>1. /\ rows \o B \in Seq(Nat) /\ Len(rows \o B) = Len(rows) + Len(B)
        /\ \A i \in 1 .. Len(rows) + Len(B) :
             (rows \o B)[i] = IF i <= Len(rows) THEN rows[i] ELSE B[i - Len(rows)]
    BY <1>4, <1>5, ConcatProperties
  <2>. HIDE DEF B
  <2>2. ASSUME NEW i \in 1 .. Len(rows \o B) PROVE (rows \o B)[i] \in 1 .. Len(trace)
    <3>1. CASE i <= Len(rows)
      <4>1. i \in 1 .. Len(rows) /\ (rows \o B)[i] = rows[i]
        BY <1>4, <1>5, <2>1, <3>1
      <4>. QED  BY <1>1, <4>1 DEF RowsInv, StoredRows
    <3>2. CASE ~(i <= Len(rows))
      <4>1. i - Len(rows) \in 1 .. Len(B) /\ (rows \o B)[i] = B[i - Len(rows)]
        BY <1>4, <1>5, <2>1, <3>2
      <4>. QED  BY <1>5, <4>1
    <3>. QED  BY <1>4, <1>5, <2>1, <3>1, <3>2
  <2>3. \A i \in 1 .. Len(rows') : \E j \in 1 .. Len(rows \o B) : rows'[i] = (rows \o B)[j]
    <3>1. PICK s \in Seq(Nat), t \in Seq(Nat) : s = rows' /\ t = rows \o B /\ EndOf(s, t)
      BY <1>9, <2>1
    <3>2. EndOf(s, t)
      BY <3>1
    <3>3. \A i \in 1 .. Len(s) : \E j \in 1 .. Len(t) : s[i] = t[j]
      BY <3>2, EndElements
    <3>. QED  BY <3>1, <3>3
  <2>4. \A i \in 1 .. Len(rows') : rows'[i] \in 1 .. Len(trace)
    BY <2>2, <2>3
  <2>. QED  BY <1>9, <2>4 DEF StoredRows
<1>. HIDE DEF B, p, added, new
<1>13. IsInjective(new)
  BY <1>7, <1>8, <1>11, EndIsInjective
<1>14. ASSUME NEW g \in Runs PROVE Behind(lines'[g], half'[g], offset'[g], new)
  <2>1. offset'[g] = IF g = f THEN p ELSE offset[g]
    BY <1>2
  <2>2. Behind(lines[g], half[g], offset'[g], added \o B)
    BY <1>7, <2>1
  <2>3. \A i \in 1 .. Len(new) : \E j \in 1 .. Len(added \o B) : new[i] = (added \o B)[j]
    <3>1. PICK s \in Seq(Nat), t \in Seq(Nat) : s = new /\ t = added \o B /\ EndOf(s, t)
      BY <1>8, <1>11
    <3>2. EndOf(s, t)
      BY <3>1
    <3>3. \A i \in 1 .. Len(s) : \E j \in 1 .. Len(t) : s[i] = t[j]
      BY <3>2, EndElements
    <3>. QED  BY <3>1, <3>3
  <2>4. Behind(lines[g], half[g], offset'[g], new)
    BY <2>2, <2>3 DEF Behind
  <2>. QED  BY <1>2, <2>4
<1>15. fresh' <= Retention => fresh <= Retention /\ fresh' <= Len(rows') /\ new = added \o B
  <2>1. fresh' = fresh + Len(B) /\ Retention \in Nat
    BY MonitorAssumption DEF B
  <2>2. fresh' <= Retention => fresh <= Retention
    BY <1>4, <1>5, <2>1
  <2>3. fresh <= Retention => fresh <= Len(rows)
    BY <1>1 DEF WatchInv
  <2>. QED  BY <1>8, <2>1, <2>2, <2>3
<1>16. ASSUME NEW g \in Runs, g \notin spoiled'
       PROVE  /\ ReadTo(lines'[g], half'[g], offset'[g], remainder'[g])
              /\ Followed(trace', lines'[g], offset'[g] \div 2, rows', fresh', g)
  <2>. DEFINE R == RunOf(trace, g)
              before == Only(added, R)
  <2>1. /\ ReadTo(lines[g], half[g], offset[g], remainder[g])
        /\ Followed(trace, lines[g], offset[g] \div 2, rows, fresh, g)
    BY <1>1, <1>16 DEF WatchInv
  <2>2. PICK old : old = TakenTo(trace, lines[g], offset[g] \div 2)
    OBVIOUS
  <2>3. EndOf(before, old) /\ (fresh <= Retention => before = old)
    BY <2>1, <2>2 DEF Followed, added
  <2>4. offset[g] \in Nat /\ offset[g] <= Size(lines[g], half[g])
    BY <2>1 DEF ReadTo
  <2>5. Only(added \o B, R) = before \o Only(B, R) /\ before \in Seq(Nat)
    <3>1. PICK u \in Seq(Nat), v \in Seq(Nat) : u = added /\ v = B
      BY <1>5, <1>6
    <3>2. Only(u \o v, R) = Only(u, R) \o Only(v, R)
      BY OnlyOfConcat
    <3>3. Only(u, R) \in Seq(Nat)
      BY OnlyPlaces
    <3>. QED  BY <3>1, <3>2, <3>3
  <2>6. EndOf(Only(new, R), Only(added \o B, R))
    BY <1>8, <1>11, OnlyOfEnd
  <2>7. Only(new, R) \in Seq(Nat) /\ Only(added \o B, R) \in Seq(Nat)
    BY <1>11, OnlyPlaces
  <2>8. old \in Seq(Nat)
    <3>1. Size(lines[g], half[g]) = 2 * Len(lines[g]) - (IF half[g] THEN 1 ELSE 0)
      BY DEF Size
    <3>2. PICK o \in Nat, n \in Nat : o = offset[g] /\ n = Len(lines[g])
      BY <1>1, <2>4, FileFacts
    <3>3. o <= 2 * n
      <4>1. CASE half[g]
        BY <2>4, <3>1, <3>2, <4>1
      <4>2. CASE ~half[g]
        BY <2>4, <3>1, <3>2, <4>2
      <4>. QED  BY <4>1, <4>2
    <3>4. PICK c \in Nat : c = o \div 2 /\ c <= n
      BY <3>3
    <3>5. \A i \in 1 .. c : lines[g][i] \in Nat
      <4>1. \A i \in 1 .. c : i \in 1 .. Len(lines[g])
        BY <3>2, <3>4
      <4>. QED  BY <1>1, <4>1, FileFacts
    <3>6. SubSeq(lines[g], 1, c) \in Seq(Nat)
      BY <3>5, SubSeqProperties
    <3>. QED  BY <2>2, <3>2, <3>4, <3>6, OnlyPlaces DEF TakenTo
  <2>9. CASE g = f
    <3>1. ReadSoFar(f)
      BY <1>1, <2>1, <2>9, SizeOfPieces DEF ReadTo, ReadSoFar
    <3>2. /\ TakenTo(trace, lines[f], p \div 2) = old \o B
          /\ remainder'[f] = Left(lines[f], p)
      BY <1>1, <1>2, <1>3, <2>2, <2>9, <3>1, BatchIsWhole DEF B, p
    <3>3. Only(B, R) = B
      <4>1. \A i \in 1 .. Len(B) : B[i] \in R
        BY <1>5, <2>9 DEF RunOf
      <4>. QED  BY <1>5, <4>1, OnlyTakesAll
    <3>4. EndOf(before \o B, old \o B)
      BY <1>5, <2>3, <2>5, <2>8, EndExtends
    <3>5. PICK u, v : u = Only(new, R) /\ v = old \o B
      OBVIOUS
    <3>6. EndOf(u, before \o B) /\ EndOf(before \o B, v)
      BY <2>5, <2>6, <3>3, <3>4, <3>5
    <3>7. u \in Seq(Nat) /\ v \in Seq(Nat) /\ before \o B \in Seq(Nat)
      BY <1>5, <2>5, <2>7, <2>8, <3>5, ConcatProperties
    <3>8. EndOf(u, v)
      BY <3>6, <3>7, EndOfEnd
    <3>9. fresh' <= Retention => u = v
      BY <1>15, <2>3, <2>5, <3>3, <3>5
    <3>10. Followed(trace', lines'[g], offset'[g] \div 2, rows', fresh', g)
      BY <1>2, <2>9, <3>2, <3>5, <3>8, <3>9 DEF Followed, new
    <3>11. ReadTo(lines'[g], half'[g], offset'[g], remainder'[g])
      <4>1. p \in Nat /\ Size(lines[f], half[f]) = p /\ p <= p
        BY <1>1, SizeOfPieces DEF p
      <4>. QED  BY <1>2, <2>9, <3>2, <4>1 DEF ReadTo
    <3>. QED  BY <3>10, <3>11
  <2>10. CASE g # f
    <3>1. Only(B, R) = <<>>
      <4>1. \A i \in 1 .. Len(B) : B[i] \notin R
        BY <1>5, <2>10 DEF RunOf
      <4>. QED  BY <1>5, <4>1, OnlyTakesNone
    <3>2. Only(added \o B, R) = before
      BY <2>5, <3>1, ConcatEmptySeq
    <3>3. EndOf(Only(new, R), old)
      BY <2>3, <2>5, <2>6, <2>7, <2>8, <3>2, EndOfEnd
    <3>4. fresh' <= Retention => Only(new, R) = old
      BY <1>15, <2>3, <3>2
    <3>5. Followed(trace', lines'[g], offset'[g] \div 2, rows', fresh', g)
      BY <1>2, <2>2, <2>10, <3>3, <3>4 DEF Followed, new
    <3>. QED  BY <1>2, <2>1, <2>10, <3>5
  <2>. QED  BY <2>9, <2>10
<1>17. WatchInv'
  BY <1>13, <1>14, <1>15, <1>16 DEF WatchInv, new
<1>. QED  BY <1>10, <1>12, <1>17

-----------------------------------------------------------------------------
(* The files grow.                                                         *)

Prefix(s, t) == Len(s) <= Len(t) /\ \A i \in 1 .. Len(s) : t[i] = s[i]

LEMMA FollowedStays ==
  ASSUME NEW events, NEW later, Len(events) \in Nat, Len(later) \in Nat, Prefix(events, later),
         NEW ls \in Seq(Nat), NEW ls2 \in Seq(Nat), Prefix(ls, ls2),
         \A k \in 1 .. Len(ls) : ls[k] \in 1 .. Len(events),
         NEW n \in Nat, n <= Len(ls),
         NEW rs \in Seq(Nat), \A i \in 1 .. Len(rs) : rs[i] \in 1 .. Len(events),
         NEW count \in Nat, NEW f, Followed(events, ls, n, rs, count, f)
  PROVE  Followed(later, ls2, n, rs, count, f)
<1>. DEFINE added == AddedTo(rs, count)
            G(es) == {e \in 1 .. Len(es) : es[e].type # "junk"}
            s == SubSeq(ls, 1, n)
            t == SubSeq(ls2, 1, n)
<1>1. added \in Seq(Nat) /\ EndOf(added, rs)
  BY AddedFacts
<1>2. \A i \in 1 .. Len(added) : added[i] \in 1 .. Len(events)
  <2>1. \A i \in 1 .. Len(added) : \E j \in 1 .. Len(rs) : added[i] = rs[j]
    <3>1. PICK a \in Seq(Nat) : a = added /\ EndOf(a, rs)
      BY <1>1
    <3>2. EndOf(a, rs)
      BY <3>1
    <3>3. \A i \in 1 .. Len(a) : \E j \in 1 .. Len(rs) : a[i] = rs[j]
      BY <3>2, EndElements
    <3>. QED  BY <3>1, <3>3
  <2>. QED  BY <2>1
<1>3. \A e \in 1 .. Len(events) : /\ e \in RunOf(events, f) <=> e \in RunOf(later, f)
                                  /\ e \in G(events) <=> e \in G(later)
  BY DEF RunOf, Prefix
<1>4. Only(added, RunOf(events, f)) = Only(added, RunOf(later, f))
  <2>1. Len(added) \in Nat
    BY <1>1, LenProperties
  <2>2. Alike(added, RunOf(events, f), added, RunOf(later, f), Len(added))
    BY <1>2, <1>3 DEF Alike
  <2>. HIDE DEF added
  <2>. QED  BY <2>1, <2>2, OnlyAlike
<1>5. Len(ls) \in Nat /\ Len(ls2) \in Nat
  BY LenProperties
<1>6. /\ Len(s) = n /\ Len(t) = n
      /\ \A i \in 1 .. n : s[i] = ls[i] /\ t[i] = ls[i] /\ ls[i] \in 1 .. Len(events)
  <2>1. \A i \in 1 .. n : i \in 1 .. Len(ls) /\ i \in 1 .. Len(ls2)
    <3>1. n <= Len(ls) /\ Len(ls) <= Len(ls2)
      BY DEF Prefix
    <3>. QED  BY <1>5, <3>1
  <2>2. ASSUME NEW i \in 1 .. n PROVE ls[i] \in Nat /\ ls2[i] \in Nat /\ ls2[i] = ls[i]
    <3>1. ls[i] \in Nat
      BY <2>1, ElementOfSeq
    <3>2. ls2[i] = ls[i]
      BY <2>1 DEF Prefix
    <3>. QED  BY <3>1, <3>2
  <2>3. Len(s) = n /\ \A i \in 1 .. n : s[i] = ls[i]
    BY <2>2, SubSeqProperties
  <2>4. Len(t) = n /\ \A i \in 1 .. n : t[i] = ls2[i]
    BY <2>2, SubSeqProperties
  <2>. QED  BY <2>1, <2>2, <2>3, <2>4
<1>. HIDE DEF s, t, added
<1>7. Only(s, G(events)) = Only(t, G(later))
  <2>1. Alike(s, G(events), t, G(later), Len(s))
    BY <1>3, <1>6 DEF Alike
  <2>. HIDE DEF G
  <2>. QED  BY <1>6, <2>1, OnlyAlike
<1>8. TakenTo(events, ls, n) = TakenTo(later, ls2, n)
  BY <1>7 DEF TakenTo, s, t
<1>. QED  BY <1>4, <1>8 DEF Followed, added

LEMMA ReadStays ==
  ASSUME NEW ls \in Seq(Nat), NEW ls2 \in Seq(Nat), Prefix(ls, ls2),
         NEW h \in BOOLEAN, NEW h2 \in BOOLEAN, Size(ls, h) <= Size(ls2, h2),
         NEW o, NEW r, ReadTo(ls, h, o, r)
  PROVE  ReadTo(ls2, h2, o, r)
<1>1. PICK m \in Nat, n \in Nat, a \in Nat : m = Len(ls) /\ n = Len(ls2) /\ a = o
  BY LenProperties DEF ReadTo
<1>2. a <= Size(ls, h) /\ Size(ls, h) \in Int /\ Size(ls, h) <= 2 * m /\ Size(ls2, h2) \in Int
  BY <1>1 DEF ReadTo, Size
<1>3. a <= 2 * m /\ a <= Size(ls2, h2)
  BY <1>2
<1>4. a % 2 = 1 => (a + 1) \div 2 \in 1 .. m
  BY <1>3
<1>5. Left(ls, o) = Left(ls2, o)
  BY <1>1, <1>4 DEF Left, Prefix
<1>. QED  BY <1>1, <1>3, <1>5 DEF ReadTo

\* The entries of s are among the first n events; what ls2 has more is not.
Within(s, n) == \A i \in 1 .. Len(s) : s[i] \in 1 .. n

OnlyLater(ls, ls2, n) == \A k \in 1 .. Len(ls2) : k \in 1 .. Len(ls) \/ n < ls2[k]

LEMMA BehindStays ==
  ASSUME NEW ls \in Seq(Nat), NEW ls2 \in Seq(Nat), Prefix(ls, ls2),
         NEW h \in BOOLEAN, NEW h2 \in BOOLEAN, Size(ls, h) <= Size(ls2, h2),
         NEW n \in Nat, NEW added \in Seq(Nat), Within(added, n), OnlyLater(ls, ls2, n),
         NEW o \in Nat, Behind(ls, h, o, added)
  PROVE  Behind(ls2, h2, o, added)
<1>. SUFFICES ASSUME NEW i \in 1 .. Len(added), NEW k \in 1 .. Len(ls2), added[i] = ls2[k]
              PROVE  2 * k <= o /\ o <= Size(ls2, h2)
  BY DEF Behind
<1>1. Len(ls) \in Nat /\ Len(ls2) \in Nat
  BY LenProperties
<1>2. k \in 1 .. Len(ls)
  <2>1. added[i] \in 1 .. n
    BY DEF Within
  <2>. QED  BY <2>1 DEF OnlyLater
<1>3. added[i] = ls[k]
  BY <1>2 DEF Prefix
<1>4. 2 * k <= o /\ o <= Size(ls, h)
  BY <1>2, <1>3 DEF Behind
<1>5. Size(ls, h) \in Int /\ Size(ls2, h2) \in Int
  BY <1>1 DEF Size
<1>. QED  BY <1>4, <1>5

LEMMA GrowStep ==
  ASSUME OnceInv, FilesInv', Prefix(trace, trace'), spoiled \subseteq spoiled',
         UNCHANGED <<phase, offset, remainder, rows, fresh, disk>>,
         \A g \in Runs : /\ Prefix(lines[g], lines'[g])
                         /\ Size(lines[g], half[g]) <= Size(lines'[g], half'[g])
                         /\ \A k \in 1 .. Len(lines'[g]) :
                              k \in 1 .. Len(lines[g]) \/ Len(trace) < lines'[g][k]
  PROVE  OnceInv'
<1>1. FilesInv /\ RowsInv /\ TailInv
  BY DEF OnceInv
<1>2. Len(trace) \in Nat /\ Len(trace') \in Nat /\ Len(trace) <= Len(trace')
  BY <1>1, LenProperties DEF FilesInv, TraceInv, Prefix
<1>3. RowsInv'
  <2>1. 1 .. Len(trace) \subseteq 1 .. Len(trace')
    BY <1>2
  <2>2. rows' = rows /\ disk' = disk /\ fresh' = fresh
    OBVIOUS
  <2>. QED  BY <1>1, <2>1, <2>2 DEF RowsInv, StoredRows
<1>4. TailInv'
  BY <1>1 DEF TailInv
<1>5. ASSUME phase = "watching" PROVE WatchInv'
  <2>. DEFINE added == AddedTo(rows, fresh)
  <2>1. WatchInv
    BY <1>5 DEF OnceInv
  <2>2. rows \in Seq(Nat) /\ fresh \in Nat /\ \A i \in 1 .. Len(rows) : rows[i] \in 1 .. Len(trace)
    BY <1>1 DEF RowsInv, StoredRows
  <2>3. added \in Seq(Nat) /\ EndOf(added, rows)
    BY <2>2, AddedFacts
  <2>4. \A i \in 1 .. Len(added) : added[i] \in 1 .. Len(trace)
    <3>1. PICK a \in Seq(Nat), r \in Seq(Nat) : a = added /\ r = rows /\ EndOf(a, r)
      BY <2>2, <2>3
    <3>2. EndOf(a, r)
      BY <3>1
    <3>3. \A i \in 1 .. Len(a) : \E j \in 1 .. Len(r) : a[i] = r[j]
      BY <3>2, EndElements
    <3>. QED  BY <2>2, <3>1, <3>3
  <2>. HIDE DEF added
  <2>5. ASSUME NEW g \in Runs
        PROVE  /\ Behind(lines'[g], half'[g], offset[g], added)
               /\ g \notin spoiled =>
                    /\ ReadTo(lines'[g], half'[g], offset[g], remainder[g])
                    /\ Followed(trace', lines'[g], offset[g] \div 2, rows, fresh, g)
    <3>1. /\ lines[g] \in Seq(Nat) /\ lines'[g] \in Seq(Nat)
          /\ half[g] \in BOOLEAN /\ half'[g] \in BOOLEAN
      BY <1>1 DEF FilesInv, LinesInv
    <3>2. PICK ls \in Seq(Nat), ls2 \in Seq(Nat), h \in BOOLEAN, h2 \in BOOLEAN, o \in Nat :
            ls = lines[g] /\ ls2 = lines'[g] /\ h = half[g] /\ h2 = half'[g] /\ o = offset[g]
      BY <1>1, <3>1 DEF TailInv
    <3>3. Prefix(ls, ls2) /\ Size(ls, h) <= Size(ls2, h2)
      BY <3>2
    <3>4. \A k \in 1 .. Len(ls2) : k \in 1 .. Len(ls) \/ Len(trace) < ls2[k]
      BY <3>2
    <3>5. Behind(ls, h, o, added)
      BY <2>1, <3>2 DEF WatchInv, added
    <3>6. Behind(ls2, h2, o, added)
      <4>1. PICK n \in Nat, a \in Seq(Nat) : n = Len(trace) /\ a = added
        BY <1>2, <2>3
      <4>2. Within(a, n)
        BY <2>4, <4>1 DEF Within
      <4>3. OnlyLater(ls, ls2, n)
        BY <3>4, <4>1 DEF OnlyLater
      <4>4. Behind(ls, h, o, a)
        BY <3>5, <4>1
      <4>5. Behind(ls2, h2, o, a)
        BY <3>3, <4>2, <4>3, <4>4, BehindStays
      <4>. QED  BY <4>1, <4>5
    <3>7. ASSUME g \notin spoiled
          PROVE  /\ ReadTo(ls2, h2, o, remainder[g])
                 /\ Followed(trace', ls2, o \div 2, rows, fresh, g)
      <4>1. ReadTo(ls, h, o, remainder[g]) /\ Followed(trace, ls, o \div 2, rows, fresh, g)
        BY <2>1, <3>2, <3>7 DEF WatchInv
      <4>2. ReadTo(ls2, h2, o, remainder[g])
        BY <3>3, <4>1, ReadStays
      <4>3. PICK n \in Nat, c \in Nat : n = o \div 2 /\ c = Len(ls) /\ n <= c
        <5>1. PICK d \in Nat : d = Len(ls)
          BY LenProperties
        <5>2. o <= 2 * d
          BY <4>1, <5>1 DEF ReadTo, Size
        <5>3. o \div 2 \in Nat /\ o \div 2 <= d
          BY <5>2
        <5>. QED  BY <5>1, <5>3
      <4>4. \A k \in 1 .. Len(ls) : ls[k] \in 1 .. Len(trace)
        BY <1>1, <3>2, FileFacts
      <4>5. Followed(trace', ls2, n, rows, fresh, g)
        <5>0. PICK ev, ev2 : ev = trace /\ ev2 = trace'
          OBVIOUS
        <5>1. PICK r \in Seq(Nat), a \in Nat : ev = trace /\ ev2 = trace' /\ r = rows /\ a = fresh
          BY <2>2, <5>0
        <5>2. Len(ev) \in Nat /\ Len(ev2) \in Nat /\ Prefix(ev, ev2)
          BY <1>2, <5>1
        <5>3. \A k \in 1 .. Len(ls) : ls[k] \in 1 .. Len(ev)
          BY <4>4, <5>1
        <5>4. \A i \in 1 .. Len(r) : r[i] \in 1 .. Len(ev)
          BY <2>2, <5>1
        <5>5. n <= Len(ls) /\ Prefix(ls, ls2) /\ Followed(ev, ls, n, r, a, g)
          BY <3>3, <4>1, <4>3, <5>1
        <5>6. Followed(ev2, ls2, n, r, a, g)
          BY <5>2, <5>3, <5>4, <5>5, FollowedStays
        <5>. QED  BY <5>1, <5>6
      <4>. QED  BY <4>2, <4>3, <4>5
    <3>. QED  BY <3>2, <3>6, <3>7
  <2>6. rows' = rows /\ fresh' = fresh /\ offset' = offset /\ remainder' = remainder
    OBVIOUS
  <2>. QED  BY <2>1, <2>5, <2>6 DEF WatchInv, added
<1>. QED  BY <1>3, <1>4, <1>5 DEF OnceInv

LEMMA SamePrefix ==
  ASSUME NEW s, Len(s) \in Nat  PROVE Prefix(s, s)
BY DEF Prefix

LEMMA AppendStep ==
  ASSUME OnceInv, NEW f \in Runs, NEW t \in Types, Append1(f, t)
  PROVE  OnceInv'
<1>. DEFINE n == Len(trace)
            new == [run |-> f, type |-> t, at |-> now]
            Event == [run : Runs, type : Types, at : Nat]
<1>1. FilesInv
  BY DEF OnceInv
<1>2. /\ trace \in Seq(Event) /\ now \in Nat /\ n \in Nat /\ new \in Event
      /\ \A e \in 1 .. n : trace[e].at <= now
  BY <1>1, LenProperties DEF FilesInv, TraceInv
<1>3. trace' = Append(trace, new) /\ now' = now /\ ~half[f]
  BY DEF Append1
<1>4. /\ trace' \in Seq(Event) /\ Len(trace') = n + 1
      /\ \A e \in 1 .. n : trace'[e] = trace[e]
      /\ trace'[n + 1] = new
  BY <1>2, <1>3, AppendProperties
<1>5. /\ lines' = [lines EXCEPT ![f] = Append(@, n + 1)]
      /\ half' = [half EXCEPT ![f] = TRUE]
      /\ UNCHANGED <<phase, offset, remainder, rows, fresh, disk, spoiled>>
  BY <1>4 DEF Append1
<1>6. lines[f] \in Seq(Nat) /\ Len(lines[f]) \in Nat /\ n + 1 \in Nat
  BY <1>1, <1>2, LenProperties DEF FilesInv, LinesInv
<1>7. /\ lines'[f] = Append(lines[f], n + 1) /\ half'[f] = TRUE
      /\ \A g \in Runs : g # f => lines'[g] = lines[g] /\ half'[g] = half[g]
      /\ lines' = [g \in Runs |-> lines'[g]] /\ half' \in [Runs -> BOOLEAN]
  <2>1. lines = [g \in Runs |-> lines[g]] /\ half \in [Runs -> BOOLEAN]
    BY <1>1 DEF FilesInv, LinesInv
  <2>2. DOMAIN lines = Runs
    BY <2>1
  <2>. QED  BY <1>5, <2>1, <2>2
<1>8. /\ lines'[f] \in Seq(Nat) /\ Len(lines'[f]) = Len(lines[f]) + 1
      /\ \A i \in 1 .. Len(lines[f]) : lines'[f][i] = lines[f][i]
      /\ lines'[f][Len(lines[f]) + 1] = n + 1
  BY <1>6, <1>7, AppendProperties
<1>. HIDE DEF new
<1>9. TraceInv'
  <2>1. ASSUME NEW e \in 1 .. n + 1 PROVE trace'[e].at <= now
    <3>1. CASE e = n + 1
      BY <1>2, <1>4, <3>1 DEF new
    <3>2. CASE e # n + 1
      <4>1. e \in 1 .. n
        BY <1>2, <3>2
      <4>2. trace'[e] = trace[e] /\ trace[e].at <= now
        BY <1>2, <1>4, <4>1
      <4>. QED  BY <4>2
    <3>. QED  BY <3>1, <3>2
  <2>. QED  BY <1>2, <1>3, <1>4, <2>1 DEF TraceInv
<1>10. LinesInv'
  <2>1. ASSUME NEW g \in Runs
        PROVE  /\ lines'[g] \in Seq(Nat)
               /\ \A k \in 1 .. Len(lines'[g]) :
                    lines'[g][k] \in 1 .. Len(trace') /\ trace'[lines'[g][k]].run = g
               /\ Rises(lines'[g])
               /\ half'[g] => lines'[g] # <<>>
    <3>0. /\ lines[g] \in Seq(Nat) /\ Rises(lines[g]) /\ Len(lines[g]) \in Nat
          /\ \A k \in 1 .. Len(lines[g]) : lines[g][k] \in 1 .. n /\ trace[lines[g][k]].run = g
          /\ half[g] => lines[g] # <<>>
      BY <1>1, FileFacts DEF FilesInv, LinesInv
    <3>1. CASE g # f
      <4>1. lines'[g] = lines[g] /\ half'[g] = half[g]
        BY <1>7, <3>1
      <4>2. ASSUME NEW k \in 1 .. Len(lines[g])
            PROVE  lines[g][k] \in 1 .. n + 1 /\ trace'[lines[g][k]] = trace[lines[g][k]]
        <5>1. PICK e \in 1 .. n : e = lines[g][k]
          BY <3>0
        <5>2. e \in 1 .. n + 1
          BY <1>2, <5>1
        <5>3. trace'[e] = trace[e]
          BY <1>4, <5>1
        <5>. QED  BY <5>1, <5>2, <5>3
      <4>. QED  BY <1>4, <3>0, <4>1, <4>2
    <3>2. CASE g = f
      <4>1. ASSUME NEW k \in 1 .. Len(lines[f]) + 1
            PROVE  /\ lines'[f][k] \in 1 .. n + 1 /\ trace'[lines'[f][k]].run = f
                   /\ \A j \in 1 .. Len(lines[f]) + 1 : j < k => lines'[f][j] < lines'[f][k]
        <5>1. CASE k = Len(lines[f]) + 1
          <6>1. lines'[f][k] = n + 1 /\ trace'[n + 1].run = f
            BY <1>4, <1>8, <5>1 DEF new
          <6>2. ASSUME NEW j \in 1 .. Len(lines[f]) + 1, j < k PROVE lines'[f][j] < n + 1
            <7>1. j \in 1 .. Len(lines[f])
              BY <1>6, <5>1, <6>2
            <7>2. lines'[f][j] = lines[f][j] /\ lines[f][j] \in 1 .. n
              BY <1>8, <3>0, <3>2, <7>1
            <7>. QED  BY <1>2, <7>2
          <6>. QED  BY <1>2, <6>1, <6>2
        <5>2. CASE k # Len(lines[f]) + 1
          <6>1. k \in 1 .. Len(lines[f])
            BY <1>6, <5>2
          <6>2. lines'[f][k] = lines[f][k] /\ lines[f][k] \in 1 .. n /\ trace[lines[f][k]].run = f
            BY <1>8, <3>0, <3>2, <6>1
          <6>3. trace'[lines[f][k]] = trace[lines[f][k]]
            BY <1>4, <6>2
          <6>4. ASSUME NEW j \in 1 .. Len(lines[f]) + 1, j < k PROVE lines'[f][j] < lines'[f][k]
            <7>1. j \in 1 .. Len(lines[f])
              BY <1>6, <6>1, <6>4
            <7>. QED  BY <1>8, <3>0, <3>2, <6>1, <6>4, <7>1 DEF Rises
          <6>. QED  BY <1>2, <6>2, <6>3, <6>4
        <5>. QED  BY <5>1, <5>2
      <4>2. Len(lines'[f]) = Len(lines[f]) + 1
        BY <1>8
      <4>3. Rises(lines'[f])
        BY <4>1, <4>2 DEF Rises
      <4>4. lines'[f] # <<>>
        BY <1>6, <1>8, EmptySeq
      <4>. QED  BY <1>4, <1>8, <3>2, <4>1, <4>2, <4>3, <4>4
    <3>. QED  BY <3>1, <3>2
  <2>. QED  BY <1>7, <2>1 DEF LinesInv
<1>11. ASSUME NEW g \in Runs
       PROVE  /\ Prefix(lines[g], lines'[g])
              /\ Size(lines[g], half[g]) <= Size(lines'[g], half'[g])
              /\ \A k \in 1 .. Len(lines'[g]) :
                   k \in 1 .. Len(lines[g]) \/ Len(trace) < lines'[g][k]
  <2>0. Len(lines[g]) \in Nat
    BY <1>1, FileFacts
  <2>1. CASE g # f
    <3>1. Size(lines[g], half[g]) \in Int
      BY <2>0 DEF Size
    <3>. QED  BY <1>7, <2>0, <2>1, <3>1, SamePrefix
  <2>2. CASE g = f
    <3>1. Prefix(lines[f], lines'[f])
      BY <1>6, <1>8 DEF Prefix
    <3>2. Size(lines[f], half[f]) = 2 * Len(lines[f])
      BY <1>3, <1>6 DEF Size
    <3>3. Size(lines'[f], half'[f]) = 2 * (Len(lines[f]) + 1) - 1
      BY <1>7, <1>8 DEF Size
    <3>4. ASSUME NEW k \in 1 .. Len(lines'[f])
          PROVE  k \in 1 .. Len(lines[f]) \/ Len(trace) < lines'[f][k]
      <4>1. k \in 1 .. Len(lines[f]) \/ k = Len(lines[f]) + 1
        BY <1>6, <1>8
      <4>. QED  BY <1>2, <1>8, <4>1
    <3>. QED  BY <1>6, <2>2, <3>1, <3>2, <3>3, <3>4
  <2>. QED  BY <2>1, <2>2
<1>12. Prefix(trace, trace')
  BY <1>2, <1>4 DEF Prefix
<1>. QED  BY <1>5, <1>9, <1>10, <1>11, <1>12, GrowStep DEF FilesInv

LEMMA FinishStep ==
  ASSUME OnceInv, NEW f \in Runs, FinishLine(f)
  PROVE  OnceInv'
<1>1. FilesInv
  BY DEF OnceInv
<1>2. /\ half' = [half EXCEPT ![f] = FALSE] /\ half[f]
      /\ UNCHANGED <<trace, now, lines, phase, offset, remainder, rows, fresh, disk, spoiled>>
  BY DEF FinishLine
<1>3. /\ half \in [Runs -> BOOLEAN] /\ half' \in [Runs -> BOOLEAN]
      /\ \A g \in Runs : half'[g] => half[g]
  BY <1>1, <1>2 DEF FilesInv, LinesInv
<1>4. FilesInv'
  BY <1>1, <1>2, <1>3 DEF FilesInv, TraceInv, LinesInv
<1>5. Len(trace) \in Nat /\ Prefix(trace, trace')
  BY <1>1, <1>2, LenProperties, SamePrefix DEF FilesInv, TraceInv
<1>6. ASSUME NEW g \in Runs
      PROVE  /\ Prefix(lines[g], lines'[g])
             /\ Size(lines[g], half[g]) <= Size(lines'[g], half'[g])
             /\ \A k \in 1 .. Len(lines'[g]) :
                  k \in 1 .. Len(lines[g]) \/ Len(trace) < lines'[g][k]
  <2>1. lines'[g] = lines[g] /\ Len(lines[g]) \in Nat
    BY <1>1, <1>2, FileFacts
  <2>2. Size(lines[g], half[g]) <= Size(lines[g], half'[g])
    BY <1>3, <2>1 DEF Size
  <2>. QED  BY <2>1, <2>2, SamePrefix
<1>. QED  BY <1>2, <1>4, <1>5, <1>6, GrowStep

LEMMA TickStep ==
  ASSUME OnceInv, Tick
  PROVE  OnceInv'
<1>1. FilesInv
  BY DEF OnceInv
<1>2. /\ now' = now + 1
      /\ UNCHANGED <<trace, lines, half, phase, offset, remainder, rows, fresh, disk, spoiled>>
  BY DEF Tick, serviceVars, tailVars
<1>3. \A e \in 1 .. Len(trace) : trace[e].at \in Nat
  <2>1. trace \in Seq([run : Runs, type : Types, at : Nat])
    BY <1>1 DEF FilesInv, TraceInv
  <2>2. \A e \in 1 .. Len(trace) : trace[e] \in [run : Runs, type : Types, at : Nat]
    BY <2>1, ElementOfSeq
  <2>. QED  BY <2>2
<1>4. TraceInv'
  BY <1>1, <1>2, <1>3 DEF FilesInv, TraceInv
<1>5. FilesInv'
  BY <1>1, <1>2, <1>4 DEF FilesInv, LinesInv
<1>. QED  BY <1>2, <1>5 DEF OnceInv, RowsInv, StoredRows, TailInv, WatchInv

LEMMA RotateStep ==
  ASSUME OnceInv, NEW f \in Runs, Rotate(f)
  PROVE  OnceInv'
<1>1. FilesInv /\ RowsInv /\ TailInv
  BY DEF OnceInv
<1>2. /\ lines' = [lines EXCEPT ![f] = <<>>] /\ ~half[f] /\ spoiled' = spoiled \cup {f}
      /\ UNCHANGED <<trace, now, half, phase, offset, remainder, rows, fresh, disk>>
  BY DEF Rotate
<1>3. DOMAIN lines = Runs /\ half \in [Runs -> BOOLEAN]
  BY <1>1 DEF FilesInv, LinesInv
<1>4. /\ lines'[f] = <<>> /\ lines' = [g \in Runs |-> lines'[g]]
      /\ \A g \in Runs : g # f => lines'[g] = lines[g]
  BY <1>1, <1>2, <1>3 DEF FilesInv, LinesInv
<1>5. lines'[f] \in Seq(Nat) /\ Len(lines'[f]) = 0
  BY <1>4, EmptySeq
<1>6. FilesInv'
  <2>1. ASSUME NEW g \in Runs
        PROVE  /\ lines'[g] \in Seq(Nat)
               /\ \A k \in 1 .. Len(lines'[g]) :
                    lines'[g][k] \in 1 .. Len(trace) /\ trace[lines'[g][k]].run = g
               /\ Rises(lines'[g])
               /\ half[g] => lines'[g] # <<>>
    <3>1. CASE g = f
      BY <1>2, <1>5, <3>1 DEF Rises
    <3>2. CASE g # f
      BY <1>1, <1>4, <3>2 DEF FilesInv, LinesInv
    <3>. QED  BY <3>1, <3>2
  <2>2. LinesInv'
    BY <1>2, <1>3, <1>4, <2>1 DEF LinesInv
  <2>. QED  BY <1>1, <1>2, <2>2 DEF FilesInv, TraceInv
<1>7. RowsInv' /\ TailInv'
  BY <1>1, <1>2 DEF RowsInv, StoredRows, TailInv
<1>8. ASSUME phase = "watching" PROVE WatchInv'
  <2>1. WatchInv
    BY <1>8 DEF OnceInv
  <2>2. \A g \in Runs : Behind(lines'[g], half[g], offset[g], AddedTo(rows, fresh))
    BY <1>4, <1>5, <2>1 DEF WatchInv, Behind
  <2>3. \A g \in Runs \ spoiled' : g \in Runs \ spoiled /\ lines'[g] = lines[g]
    BY <1>2, <1>4
  <2>. QED  BY <1>2, <2>1, <2>2, <2>3 DEF WatchInv
<1>. QED  BY <1>2, <1>6, <1>7, <1>8 DEF OnceInv

\* The service reads lines and keeps nothing of them.
LEMMA SkipStep ==
  ASSUME OnceInv, NEW f \in Runs, HandleFile(f),
         rows' = rows, fresh' = fresh, spoiled' = spoiled \cup {f}
  PROVE  WatchInv'
<1>1. FilesInv /\ RowsInv /\ TailInv /\ phase = "watching" /\ WatchInv
  BY DEF OnceInv, HandleFile, Notified
<1>2. /\ trace' = trace /\ lines' = lines /\ half' = half
      /\ \A g \in Runs : g # f => offset'[g] = offset[g] /\ remainder'[g] = remainder[g]
      /\ offset'[f] = Len(Pieces(f))
  BY <1>1, HandleFileFacts
<1>3. ASSUME NEW g \in Runs
      PROVE  Behind(lines[g], half[g], offset'[g], AddedTo(rows, fresh))
  <2>1. Behind(lines[g], half[g], offset[g], AddedTo(rows, fresh))
    BY <1>1 DEF WatchInv
  <2>2. CASE g = f
    <3>1. PICK p \in Nat : p = Size(lines[f], half[f]) /\ offset'[f] = p
      BY <1>1, <1>2, SizeOfPieces
    <3>2. PICK o \in Nat : o = offset[f]
      BY <1>1 DEF TailInv
    <3>3. ASSUME NEW i \in 1 .. Len(AddedTo(rows, fresh)), NEW k \in 1 .. Len(lines[f]),
                 AddedTo(rows, fresh)[i] = lines[f][k]
          PROVE  2 * k <= p
      <4>1. 2 * k <= o /\ o <= p
        BY <2>1, <2>2, <3>1, <3>2, <3>3 DEF Behind
      <4>2. k \in Nat
        OBVIOUS
      <4>. QED  BY <4>1, <4>2
    <3>4. p <= p
      OBVIOUS
    <3>. QED  BY <2>2, <3>1, <3>3, <3>4 DEF Behind
  <2>3. CASE g # f
    BY <1>2, <2>1, <2>3
  <2>. QED  BY <2>2, <2>3
<1>4. \A g \in Runs \ spoiled' : g \in Runs \ spoiled /\ g # f
  OBVIOUS
<1>. QED  BY <1>1, <1>2, <1>3, <1>4 DEF WatchInv

LEMMA NewIsStored ==
  ASSUME NEW n  PROVE StoredRows(NewDatabase.rows, n)
<1>1. <<>> \in Seq(Nat) /\ Len(<<>>) = 0
  BY EmptySeq
<1>. QED  BY <1>1, MonitorAssumption DEF StoredRows, NewDatabase

LEMMA WatcherStep ==
  ASSUME OnceInv, NEW f \in Runs,
         NothingNew(f) \/ Ingest(f) \/ AgentSaveFails(f) \/ EventSaveFails(f)
  PROVE  OnceInv'
<1>1. FilesInv /\ RowsInv /\ TailInv
  BY DEF OnceInv
<1>2. HandleFile(f)
  BY DEF NothingNew, Ingest, AgentSaveFails, EventSaveFails
<1>3. FilesInv' /\ TailInv' /\ trace' = trace
  BY <1>1, <1>2, HandleFileFacts
<1>4. /\ StoredRows(rows, Len(trace)) /\ fresh \in Nat
      /\ disk # None => StoredRows(disk.rows, Len(trace))
  BY <1>1 DEF RowsInv
<1>5. ASSUME StoredRows(rows', Len(trace)), fresh' \in Nat, WatchInv',
             disk' # None => StoredRows(disk'.rows, Len(trace))
      PROVE  OnceInv'
  BY <1>3, <1>5 DEF OnceInv, RowsInv
<1>6. CASE NothingNew(f)
  <2>1. Batch(f) = <<>> /\ UNCHANGED <<rows, fresh, disk, spoiled>>
    BY <1>6 DEF NothingNew
  <2>2. rows \in Seq(Nat) /\ Len(rows) <= Retention
    BY <1>4 DEF StoredRows
  <2>3. rows' = Prune(rows \o Batch(f)) /\ fresh' = fresh + Len(Batch(f))
    <3>1. rows \o Batch(f) = rows
      BY <2>1, <2>2, ConcatEmptySeq
    <3>2. Len(Batch(f)) = 0
      BY <2>1
    <3>. QED  BY <1>4, <2>1, <2>2, <3>1, <3>2 DEF Prune
  <2>4. WatchInv'
    BY <1>2, <2>1, <2>3, ReadStep
  <2>. QED  BY <1>4, <1>5, <2>1, <2>4
<1>7. CASE Ingest(f)
  <2>1. /\ rows' = Prune(rows \o Batch(f)) /\ fresh' = fresh + Len(Batch(f))
        /\ disk' = [rows |-> rows', agent |-> agent'] /\ spoiled' = spoiled
    BY <1>7 DEF Ingest, AppendEvents
  <2>2. StoredRows(rows', Len(trace)) /\ fresh' \in Nat /\ WatchInv'
    BY <1>2, <2>1, ReadStep
  <2>. QED  BY <1>5, <2>1, <2>2
<1>8. CASE AgentSaveFails(f)
  <2>1. /\ UNCHANGED <<rows, fresh>> /\ spoiled' = spoiled \cup {f}
        /\ disk' \in LeftByAWrite(disk)
    BY <1>8 DEF AgentSaveFails
  <2>2. WatchInv'
    BY <1>2, <2>1, SkipStep
  <2>3. disk' # None => StoredRows(disk'.rows, Len(trace))
    BY <1>4, <2>1, NewIsStored DEF LeftByAWrite
  <2>. QED  BY <1>4, <1>5, <2>1, <2>2, <2>3
<1>9. CASE EventSaveFails(f)
  <2>1. /\ rows' = Prune(rows \o Batch(f)) /\ fresh' = fresh + Len(Batch(f))
        /\ disk' \in LeftByAWrite([rows |-> rows, agent |-> agent'])
        /\ spoiled' = spoiled \cup {f}
    BY <1>9 DEF EventSaveFails, AppendEvents
  <2>2. StoredRows(rows', Len(trace)) /\ fresh' \in Nat /\ WatchInv'
    BY <1>2, <2>1, ReadStep
  <2>3. disk' # None => StoredRows(disk'.rows, Len(trace))
    BY <1>4, <2>1, NewIsStored DEF LeftByAWrite
  <2>. QED  BY <1>5, <2>2, <2>3
<1>. QED  BY <1>6, <1>7, <1>8, <1>9

\* The process ends, or starts without watching.
LEMMA RestStep ==
  ASSUME OnceInv, UNCHANGED <<trace, now, lines, half, offset, remainder, rows, fresh>>,
         phase' \in {"down", "serving"},
         disk' # None => StoredRows(disk'.rows, Len(trace))
  PROVE  OnceInv'
BY DEF OnceInv, FilesInv, TraceInv, LinesInv, RowsInv, StoredRows, TailInv

LEMMA DieStep ==
  ASSUME OnceInv, Crash \/ (\E f \in Runs : CrashWhileSaving(f)) \/ StartServer
  PROVE  OnceInv'
<1>1. /\ StoredRows(rows, Len(trace))
      /\ disk # None => StoredRows(disk.rows, Len(trace))
  BY DEF OnceInv, RowsInv
<1>2. CASE Crash
  BY <1>1, <1>2, RestStep DEF Crash, Die, fileVars, tailVars
<1>3. CASE \E f \in Runs : CrashWhileSaving(f)
  <2>1. Die /\ \E a : disk' \in LeftByAWrite([rows |-> rows, agent |-> a])
    BY <1>3 DEF CrashWhileSaving
  <2>2. disk' # None => StoredRows(disk'.rows, Len(trace))
    BY <1>1, <2>1, NewIsStored DEF LeftByAWrite
  <2>. QED  BY <2>1, <2>2, RestStep DEF Die, fileVars, tailVars
<1>4. CASE StartServer
  BY <1>1, <1>4, RestStep DEF StartServer, fileVars, tailVars
<1>. QED  BY <1>2, <1>3, <1>4

LEMMA ServiceStarts ==
  ASSUME OnceInv, GetIngestionService
  PROVE  OnceInv'
<1>1. FilesInv /\ RowsInv
  BY DEF OnceInv
<1>2. /\ phase' = "watching" /\ disk # None /\ rows' = disk.rows /\ fresh' = 0 /\ disk' = disk
      /\ UNCHANGED <<trace, now, lines, half>>
      /\ offset' = [f \in Runs |-> 0] /\ remainder' = [f \in Runs |-> <<>>]
  BY DEF GetIngestionService, fileVars
<1>3. FilesInv' /\ RowsInv'
  BY <1>1, <1>2 DEF FilesInv, TraceInv, LinesInv, RowsInv
<1>4. TailInv'
  BY <1>2, EmptySeq DEF TailInv
<1>5. rows' \in Seq(Nat) /\ Len(rows') \in Nat
  BY <1>3, LenProperties DEF RowsInv, StoredRows
<1>6. AddedTo(rows', 0) = <<>>
  <2>1. PICK rs \in Seq(Nat) : rs = rows'
    BY <1>5
  <2>2. AddedTo(rs, 0) \in Seq(Nat) /\ Len(AddedTo(rs, 0)) = IF 0 < Len(rs) THEN 0 ELSE Len(rs)
    BY AddedFacts
  <2>3. Len(AddedTo(rs, 0)) = 0
    BY <1>5, <2>1, <2>2
  <2>. QED  BY <2>1, <2>2, <2>3, EmptySeq
<1>7. IsInjective(<<>>)
  BY DEF IsInjective
<1>8. ASSUME NEW f \in Runs
      PROVE  /\ Behind(lines[f], half[f], 0, <<>>)
             /\ ReadTo(lines[f], half[f], 0, <<>>)
             /\ Followed(trace, lines[f], 0, rows', 0, f)
  <2>1. lines[f] \in Seq(Nat) /\ Len(lines[f]) \in Nat
    BY <1>1, FileFacts
  <2>2. Behind(lines[f], half[f], 0, <<>>)
    BY DEF Behind
  <2>3. 0 <= Size(lines[f], half[f])
    <3>1. half[f] => lines[f] # <<>>
      BY <1>1 DEF FilesInv, LinesInv
    <3>2. half[f] => Len(lines[f]) # 0
      BY <2>1, <3>1, EmptySeq
    <3>. QED  BY <2>1, <3>2 DEF Size
  <2>4. Left(lines[f], 0) = <<>>
    BY DEF Left
  <2>5. ASSUME NEW S PROVE Only(<<>>, S) = <<>>
    <3>1. <<>> \in Seq(Nat) /\ Len(<<>>) = 0
      BY EmptySeq
    <3>. QED  BY <3>1, OnlyIsOnlyTo, OnlyToStep
  <2>6. SubSeq(lines[f], 1, 0) = <<>>
    BY <2>1, SubSeqEmpty
  <2>7. EndOf(<<>>, <<>>)
    BY DEF EndOf
  <2>. QED  BY <1>6, <2>2, <2>3, <2>4, <2>5, <2>6, <2>7 DEF ReadTo, Followed, TakenTo
<1>9. 0 \div 2 = 0
  OBVIOUS
<1>10. WatchInv'
  <2>1. \A f \in Runs : offset'[f] = 0 /\ remainder'[f] = <<>>
    BY <1>2
  <2>. QED  BY <1>2, <1>5, <1>6, <1>7, <1>8, <1>9, <2>1 DEF WatchInv
<1>. QED  BY <1>3, <1>4, <1>10 DEF OnceInv

LEMMA PageStep ==
  ASSUME OnceInv, UNCHANGED <<trace, now, lines, half, phase, offset, remainder, rows,
                              fresh, disk, spoiled>>
  PROVE  OnceInv'
BY DEF OnceInv, FilesInv, TraceInv, LinesInv, RowsInv, StoredRows, TailInv, WatchInv

LEMMA OnceInit ==
  ASSUME Init PROVE OnceInv
<1>1. /\ trace = <<>> /\ now = 0 /\ phase = "down" /\ rows = <<>> /\ fresh = 0 /\ disk.rows = <<>>
      /\ lines = [f \in Runs |-> <<>>] /\ half = [f \in Runs |-> FALSE]
      /\ offset = [f \in Runs |-> 0] /\ remainder = [f \in Runs |-> <<>>]
  BY DEF Init, IngestionInit, NewDatabase
<1>2. \A X : <<>> \in Seq(X) /\ Len(<<>>) = 0
  BY EmptySeq
<1>3. TraceInv
  BY <1>1, <1>2 DEF TraceInv
<1>4. LinesInv
  BY <1>1, <1>2 DEF LinesInv, Rises
<1>5. StoredRows(<<>>, Len(trace))
  BY <1>2, MonitorAssumption DEF StoredRows
<1>. QED  BY <1>1, <1>2, <1>3, <1>4, <1>5 DEF OnceInv, FilesInv, RowsInv, TailInv

LEMMA OnceNext ==
  ASSUME OnceInv, [Next]_allVars PROVE OnceInv'
<1>1. CASE AgentNext
  BY <1>1, AppendStep, FinishStep, RotateStep, TickStep DEF AgentNext
<1>2. CASE WatcherNext
  BY <1>2, WatcherStep DEF WatcherNext
<1>3. CASE StartServer
  BY <1>3, DieStep
<1>4. CASE RequestStartsService
  BY <1>4, ServiceStarts DEF RequestStartsService
<1>5. CASE ServerDies
  BY <1>5, DieStep DEF ServerDies, CrashNext
<1>6. CASE OpenPage
  BY <1>6, PageStep DEF OpenPage, fileVars, tailVars
<1>7. CASE Connect
  BY <1>7, PageStep DEF Connect, fileVars, serviceVars, tailVars
<1>8. CASE ApplyStreamEvent
  BY <1>8, PageStep DEF ApplyStreamEvent, fileVars, tailVars
<1>9. CASE UNCHANGED vars
  BY <1>9, PageStep DEF vars, fileVars, serviceVars, tailVars
<1>10. CASE CallsFail \/ ClickCard \/ HydrateAgents \/ HydrateEvents \/ AnswerAgents \/ AnswerEvents
  BY <1>9, <1>10 DEF CallsFail, ClickCard, HydrateAgents, HydrateEvents, AnswerAgents, AnswerEvents
<1>11. CASE UNCHANGED allVars
  BY <1>9, <1>11 DEF allVars
<1>. QED  BY <1>1, <1>2, <1>3, <1>4, <1>5, <1>6, <1>7, <1>8, <1>10, <1>11
          DEF Next, PageNext, ServerNext

LEMMA OnceHolds == Spec => []OnceInv
<1>. QED  BY OnceInit, OnceNext, PTL DEF Spec

LEMMA OnceImplies ==
  ASSUME OnceInv PROVE EachLineOnce
<1>. SUFFICES ASSUME phase = "watching" PROVE EachLineOnce
  BY DEF EachLineOnce
<1>1. FilesInv /\ RowsInv /\ TailInv /\ WatchInv
  BY DEF OnceInv
<1>2. Added = AddedTo(rows, fresh)
  BY DEF Added, AddedTo
<1>3. IsInjective(Added)
  BY <1>1, <1>2 DEF WatchInv
<1>4. ASSUME NEW f \in Runs \ spoiled
      PROVE  /\ IsSuffix(Mine(f), Taken(f))
             /\ fresh <= Retention => Mine(f) = Taken(f)
  <2>1. /\ ReadTo(lines[f], half[f], offset[f], remainder[f])
        /\ Followed(trace, lines[f], offset[f] \div 2, rows, fresh, f)
    BY <1>1 DEF WatchInv
  <2>2. Mine(f) = Only(AddedTo(rows, fresh), RunOf(trace, f))
    BY <1>2 DEF Mine, RunOf
  <2>3. Taken(f) = TakenTo(trace, lines[f], offset[f] \div 2)
    BY DEF Taken, TakenTo, WellFormed
  <2>4. EndOf(Mine(f), Taken(f)) /\ (fresh <= Retention => Mine(f) = Taken(f))
    BY <2>1, <2>2, <2>3 DEF Followed
  <2>5. Mine(f) \in Seq(Nat)
    <3>1. PICK a \in Seq(Nat) : a = AddedTo(rows, fresh)
      BY <1>1, AddedFacts DEF RowsInv, StoredRows
    <3>2. Only(a, RunOf(trace, f)) \in Seq(Nat)
      BY OnlyPlaces
    <3>. QED  BY <2>2, <3>1, <3>2
  <2>6. Taken(f) \in Seq(Nat)
    <3>1. PICK c \in Seq(Nat) : c = SubSeq(lines[f], 1, offset[f] \div 2)
      <4>1. PICK n \in Nat, o \in Nat, l \in Seq(Nat) :
              o = offset[f] /\ l = lines[f] /\ n = Len(l)
        BY <1>1, FileFacts DEF TailInv
      <4>2. o <= 2 * n
        <5>1. o <= Size(lines[f], half[f])
          BY <2>1, <4>1 DEF ReadTo
        <5>2. Size(lines[f], half[f]) = 2 * n - (IF half[f] THEN 1 ELSE 0)
          BY <4>1 DEF Size
        <5>3. half[f] => o <= 2 * n - 1
          BY <5>1, <5>2
        <5>4. ~half[f] => o <= 2 * n
          BY <5>1, <5>2
        <5>. QED  BY <5>3, <5>4
      <4>3. PICK b \in Nat : b = o \div 2 /\ b <= n
        BY <4>2
      <4>4. \A i \in 1 .. b : l[i] \in Nat
        <5>1. \A i \in 1 .. b : i \in 1 .. Len(l)
          BY <4>1, <4>3
        <5>. QED  BY <5>1, ElementOfSeq
      <4>5. SubSeq(l, 1, b) \in Seq(Nat)
        BY <4>4, SubSeqProperties
      <4>. QED  BY <4>1, <4>3, <4>5
    <3>2. Only(c, WellFormed) \in Seq(Nat)
      BY OnlyPlaces
    <3>. QED  BY <3>1, <3>2 DEF Taken
  <2>7. PICK u \in Seq(Nat), v \in Seq(Nat) : u = Mine(f) /\ v = Taken(f) /\ EndOf(u, v)
    BY <2>4, <2>5, <2>6
  <2>8. IsSuffix(u, v)
    <3>1. EndOf(u, v)
      BY <2>7
    <3>. QED  BY <3>1, EndIsSuffix
  <2>. QED  BY <2>4, <2>7, <2>8
<1>. QED  BY <1>3, <1>4 DEF EachLineOnce

(* Whatever the numbers of runs, lines, restarts and failing writes and    *)
(* whatever the retention: in one life of the service each line of a trace *)
(* file becomes one row, in the order of the file (EachLineOnce:           *)
(* TraceTailer.readAppendedLines, parseTraceLines, appendEvents).          *)
THEOREM EachLineIsStoredOnce == Spec => []EachLineOnce
<1>. QED  BY OnceHolds, OnceImplies, PTL

-----------------------------------------------------------------------------
(* The card.                                                               *)

IsUpdate(m) == m.type = "agent_updated"

Sequence(s) == Len(s) \in Nat /\ s = [i \in 1 .. Len(s) |-> s[i]]

Quiet(s) == \A i \in 1 .. Len(s) : ~IsUpdate(s[i])

\* The last update on its way shows a.
LastShows(s, a) ==
  \A i \in 1 .. Len(s) :
    IsUpdate(s[i]) /\ (\A j \in 1 .. Len(s) : i < j => ~IsUpdate(s[j])) => s[i].of = a

CardInv ==
  /\ Sequence(bus)
  /\ phase # "watching" \/ ~listening => bus = <<>> /\ ~fromStream
  /\ phase = "watching" /\ spoiled = {} =>
       /\ LastShows(bus, agent)
       /\ fromStream /\ Quiet(bus) => card = agent

LEMMA SequenceIsSeq ==
  ASSUME NEW s, Sequence(s)
  PROVE  s \in Seq({s[i] : i \in 1 .. Len(s)})
BY ElementOfSeq DEF Sequence

LEMMA SeqIsSequence ==
  ASSUME NEW X, NEW s \in Seq(X)
  PROVE  Sequence(s)
BY LenProperties DEF Sequence

LEMMA AnnouncedFacts ==
  ASSUME NEW evs, Len(evs) \in Nat, NEW snapshot
  PROVE  /\ Sequence(Announcements(evs, snapshot))
         /\ Len(Announcements(evs, snapshot)) >= 1
         /\ Announcements(evs, snapshot)[1] = [type |-> "agent_updated", of |-> snapshot]
         /\ \A i \in 1 .. Len(Announcements(evs, snapshot)) :
              i # 1 => ~IsUpdate(Announcements(evs, snapshot)[i])
<1>. DEFINE n == Len(evs)
            u == [type |-> "agent_updated", of |-> snapshot]
            e(i) == [type |-> "new_event", of |-> evs[i]]
            l == [type |-> "alert", of |-> snapshot.status]
            Others == {e(i) : i \in 1 .. n} \cup {l}
            X == {u} \cup Others
            a == <<u>>
            b == [i \in 1 .. n |-> e(i)]
            c == IF snapshot.status \in {"blocked", "error"} THEN <<l>> ELSE <<>>
<1>1. Announcements(evs, snapshot) = a \o b \o c
  BY DEF Announcements
<1>2. IsUpdate(u) /\ \A m \in Others : ~IsUpdate(m)
  BY DEF IsUpdate
<1>3. /\ a \in Seq(X) /\ Len(a) = 1 /\ a[1] = u
      /\ b \in Seq(Others) /\ c \in Seq(Others)
  <2>1. u \in X /\ l \in Others /\ \A i \in 1 .. n : e(i) \in Others
    OBVIOUS
  <2>. HIDE DEF u, l, e, X, Others
  <2>2. a \in Seq(X) /\ Len(a) = 1 /\ a[1] = u
    BY <2>1
  <2>3. b \in Seq(Others)
    BY <2>1, ElementOfSeq
  <2>4. <<l>> \in Seq(Others) /\ <<>> \in Seq(Others)
    BY <2>1
  <2>. QED  BY <2>2, <2>3, <2>4
<1>4. Others \subseteq X
  OBVIOUS
<1>. HIDE DEF a, b, c, u, Others, X
<1>5. b \o c \in Seq(Others) /\ Len(b \o c) \in Nat
  BY <1>3, ConcatProperties, LenProperties
<1>6. PICK d \in Seq(Others) : d = b \o c
  BY <1>5
<1>7. d \in Seq(X) /\ Len(d) \in Nat /\ \A i \in 1 .. Len(d) : d[i] \in Others
  BY <1>4, SeqMonotonic, LenProperties, ElementOfSeq
<1>8. (a \o b) \o c = a \o d
  <2>1. b \in Seq(X) /\ c \in Seq(X)
    BY <1>3, <1>4, SeqMonotonic
  <2>2. PICK x \in Seq(X), y \in Seq(X), z \in Seq(X) : x = a /\ y = b /\ z = c
    BY <1>3, <2>1
  <2>3. (x \o y) \o z = x \o (y \o z)
    <3>1. \A p, q, r \in Seq(X) : (p \o q) \o r = p \o (q \o r)
      BY Regroup, SMTT(30)
    <3>. QED  BY <3>1, Zenon
  <2>. QED  BY <1>6, <2>2, <2>3
<1>9. /\ a \o d \in Seq(X) /\ Len(a \o d) = 1 + Len(d)
      /\ \A i \in 1 .. 1 + Len(d) : (a \o d)[i] = IF i <= 1 THEN a[i] ELSE d[i - 1]
  <2>1. PICK x \in Seq(X) : x = a
    BY <1>3
  <2>2. /\ x \o d \in Seq(X) /\ Len(x \o d) = Len(x) + Len(d)
        /\ \A i \in 1 .. Len(x) + Len(d) : (x \o d)[i] = IF i <= Len(x) THEN x[i] ELSE d[i - Len(x)]
    BY <1>7, ConcatProperties
  <2>. QED  BY <1>3, <2>1, <2>2
<1>10. (a \o d)[1] = u
  BY <1>3, <1>7, <1>9
<1>11. ASSUME NEW i \in 1 .. 1 + Len(d), i # 1 PROVE ~IsUpdate((a \o d)[i])
  <2>1. i - 1 \in 1 .. Len(d) /\ (a \o d)[i] = d[i - 1]
    BY <1>7, <1>9, <1>11
  <2>. QED  BY <1>2, <1>7, <2>1
<1>12. Sequence(a \o d)
  BY <1>9, SeqIsSequence
<1>. QED  BY <1>1, <1>7, <1>8, <1>9, <1>10, <1>11, <1>12 DEF u

\* What is published comes after what is on its way.
LEMMA PublishFacts ==
  ASSUME NEW s, Sequence(s), NEW t, Sequence(t), Len(t) >= 1, NEW a,
         t[1] = [type |-> "agent_updated", of |-> a],
         \A i \in 1 .. Len(t) : i # 1 => ~IsUpdate(t[i])
  PROVE  Sequence(s \o t) /\ LastShows(s \o t, a) /\ ~Quiet(s \o t)
<1>. DEFINE X == {s[i] : i \in 1 .. Len(s)} \cup {t[i] : i \in 1 .. Len(t)}
            r == s \o t
            k == Len(s) + 1
<1>1. s \in Seq(X) /\ t \in Seq(X)
  <2>1. ASSUME NEW q, Sequence(q), {q[i] : i \in 1 .. Len(q)} \subseteq X PROVE q \in Seq(X)
    <3>1. Len(q) \in Nat /\ q = [i \in 1 .. Len(q) |-> q[i]] /\ \A i \in 1 .. Len(q) : q[i] \in X
      BY <2>1 DEF Sequence
    <3>. HIDE DEF X
    <3>. QED  BY <3>1
  <2>. QED  BY <2>1
<1>. HIDE DEF X
<1>2. /\ r \in Seq(X) /\ Len(r) = Len(s) + Len(t)
      /\ \A i \in 1 .. Len(s) + Len(t) : r[i] = IF i <= Len(s) THEN s[i] ELSE t[i - Len(s)]
  BY <1>1, ConcatProperties
<1>3. Len(s) \in Nat /\ Len(t) \in Nat
  BY DEF Sequence
<1>. HIDE DEF r
<1>4. k \in 1 .. Len(r) /\ r[k] = t[1]
  <2>1. k \in 1 .. Len(s) + Len(t) /\ ~(k <= Len(s)) /\ k - Len(s) = 1
    BY <1>3
  <2>. QED  BY <1>2, <2>1
<1>5. IsUpdate(r[k]) /\ r[k].of = a
  BY <1>4 DEF IsUpdate
<1>6. ASSUME NEW i \in 1 .. Len(r), k < i PROVE ~IsUpdate(r[i])
  <2>1. i - Len(s) \in 1 .. Len(t) /\ i - Len(s) # 1 /\ ~(i <= Len(s)) /\ i \in 1 .. Len(s) + Len(t)
    BY <1>2, <1>3, <1>6
  <2>2. r[i] = t[i - Len(s)]
    BY <1>2, <2>1
  <2>. QED  BY <2>1, <2>2
<1>7. LastShows(r, a)
  <2>. SUFFICES ASSUME NEW i \in 1 .. Len(r), IsUpdate(r[i]),
                       \A j \in 1 .. Len(r) : i < j => ~IsUpdate(r[j])
                PROVE  r[i].of = a
    BY DEF LastShows
  <2>1. ~(i < k)
    BY <1>4, <1>5
  <2>2. ~(k < i)
    BY <1>6
  <2>3. i = k
    BY <1>3, <2>1, <2>2
  <2>. QED  BY <1>5, <2>3
<1>8. ~Quiet(r)
  BY <1>4, <1>5 DEF Quiet
<1>9. Sequence(r)
  BY <1>2, SeqIsSequence
<1>. QED  BY <1>7, <1>8, <1>9 DEF r

\* What is left when the first message has been taken.
LEMMA TakeFacts ==
  ASSUME NEW s, Sequence(s), s # <<>>, NEW a, LastShows(s, a)
  PROVE  /\ LastShows(Tail(s), a)
         /\ IsUpdate(Head(s)) /\ Quiet(Tail(s)) => Head(s).of = a
         /\ ~IsUpdate(Head(s)) /\ Quiet(Tail(s)) => Quiet(s)
<1>. DEFINE X == {s[i] : i \in 1 .. Len(s)}
            r == Tail(s)
<1>1. s \in Seq(X)
  BY SequenceIsSeq
<1>. HIDE DEF X
<1>2. /\ r \in Seq(X) /\ Len(r) = Len(s) - 1 /\ Head(s) = s[1]
      /\ \A i \in 1 .. Len(r) : r[i] = s[i + 1]
  BY <1>1, HeadTailProperties
<1>3. Len(s) \in Nat /\ Len(s) # 0
  BY <1>1, LenProperties, EmptySeq
<1>. HIDE DEF r
<1>4. \A j \in 1 .. Len(s) : j # 1 => j - 1 \in 1 .. Len(r) /\ s[j] = r[j - 1]
  <2>. SUFFICES ASSUME NEW j \in 1 .. Len(s), j # 1
                PROVE  j - 1 \in 1 .. Len(r) /\ s[j] = r[j - 1]
    OBVIOUS
  <2>1. j - 1 \in 1 .. Len(r) /\ (j - 1) + 1 = j
    BY <1>2, <1>3
  <2>. QED  BY <1>2, <2>1
<1>5. LastShows(r, a)
  <2>. SUFFICES ASSUME NEW i \in 1 .. Len(r), IsUpdate(r[i]),
                       \A j \in 1 .. Len(r) : i < j => ~IsUpdate(r[j])
                PROVE  r[i].of = a
    BY DEF LastShows
  <2>1. i + 1 \in 1 .. Len(s) /\ r[i] = s[i + 1]
    BY <1>2, <1>3
  <2>2. ASSUME NEW j \in 1 .. Len(s), i + 1 < j PROVE ~IsUpdate(s[j])
    <3>1. j # 1 /\ i < j - 1
      BY <1>3, <2>2
    <3>. QED  BY <1>4, <3>1
  <2>. QED  BY <2>1, <2>2 DEF LastShows
<1>6. ASSUME IsUpdate(s[1]), Quiet(r) PROVE s[1].of = a
  <2>1. 1 \in 1 .. Len(s)
    BY <1>3
  <2>2. ASSUME NEW j \in 1 .. Len(s), 1 < j PROVE ~IsUpdate(s[j])
    <3>1. j # 1
      BY <2>2
    <3>. QED  BY <1>4, <1>6, <3>1 DEF Quiet
  <2>. QED  BY <1>6, <2>1, <2>2 DEF LastShows
<1>7. ASSUME ~IsUpdate(s[1]), Quiet(r) PROVE Quiet(s)
  BY <1>4, <1>7 DEF Quiet
<1>. QED  BY <1>2, <1>5, <1>6, <1>7 DEF r

LEMMA BatchSequence ==
  ASSUME OnceInv, NEW f \in Runs
  PROVE  Batch(f) \in Seq(Nat) /\ Len(Batch(f)) \in Nat
<1>1. FilesInv /\ offset[f] \in Nat /\ remainder[f] \in Seq(Begun)
  BY DEF OnceInv, TailInv
<1>2. Batch(f) \in Seq(Nat)
  BY <1>1, BatchIsNew
<1>. QED  BY <1>2, LenProperties

LEMMA CardWatcher ==
  ASSUME OnceInv, CardInv, NEW f \in Runs, UNCHANGED pageVars,
         NothingNew(f) \/ Ingest(f) \/ AgentSaveFails(f) \/ EventSaveFails(f)
  PROVE  CardInv'
<1>1. HandleFile(f)
  BY DEF NothingNew, Ingest, AgentSaveFails, EventSaveFails
<1>2. /\ phase = "watching" /\ phase' = phase /\ listening' = listening
      /\ card' = card /\ fromStream' = fromStream
  BY <1>1 DEF HandleFile, Notified, pageVars
<1>3. CASE NothingNew(f)
  BY <1>2, <1>3 DEF NothingNew, CardInv
<1>4. CASE AgentSaveFails(f) \/ EventSaveFails(f)
  <2>1. bus' = bus /\ spoiled' = spoiled \cup {f}
    BY <1>4 DEF AgentSaveFails, EventSaveFails
  <2>. QED  BY <1>2, <2>1 DEF CardInv
<1>5. CASE Ingest(f)
  <2>1. /\ bus' = (IF listening THEN bus \o Announcements(Batch(f), agent') ELSE bus)
        /\ spoiled' = spoiled
    BY <1>5 DEF Ingest
  <2>2. CASE listening
    <3>1. PICK a, evs : a = agent' /\ evs = Batch(f)
      OBVIOUS
    <3>2. Len(evs) \in Nat
      BY <3>1, BatchSequence
    <3>3. PICK t : t = Announcements(evs, a)
      OBVIOUS
    <3>4. Sequence(t) /\ Len(t) >= 1
      BY <3>2, <3>3, AnnouncedFacts
    <3>5. t[1] = [type |-> "agent_updated", of |-> a]
      BY <3>2, <3>3, AnnouncedFacts
    <3>6. \A i \in 1 .. Len(t) : i # 1 => ~IsUpdate(t[i])
      BY <3>2, <3>3, AnnouncedFacts
    <3>7. Sequence(bus)
      BY DEF CardInv
    <3>8. Sequence(bus \o t) /\ LastShows(bus \o t, a) /\ ~Quiet(bus \o t)
      BY <3>4, <3>5, <3>6, <3>7, PublishFacts
    <3>9. bus' = bus \o t
      BY <2>1, <2>2, <3>1, <3>3
    <3>. QED  BY <1>2, <2>2, <3>1, <3>8, <3>9 DEF CardInv
  <2>3. CASE ~listening
    <3>1. bus' = <<>> /\ ~fromStream /\ bus' = bus
      BY <2>1, <2>3 DEF CardInv
    <3>2. LastShows(<<>>, agent')
      BY DEF LastShows
    <3>. QED  BY <1>2, <2>3, <3>1, <3>2 DEF CardInv
  <2>. QED  BY <2>2, <2>3
<1>. QED  BY <1>3, <1>4, <1>5

LEMMA CardStream ==
  ASSUME CardInv, ApplyStreamEvent
  PROVE  CardInv'
<1>1. /\ bus # <<>> /\ bus' = Tail(bus)
      /\ card' = (IF IsUpdate(Head(bus)) THEN Head(bus).of ELSE card)
      /\ fromStream' = (fromStream \/ IsUpdate(Head(bus)))
      /\ UNCHANGED <<phase, listening, agent, spoiled>>
  BY DEF ApplyStreamEvent, IsUpdate
<1>2. Sequence(bus)
  BY DEF CardInv
<1>3. phase = "watching" /\ listening
  BY <1>1 DEF CardInv
<1>4. Sequence(Tail(bus))
  <2>1. PICK X : bus \in Seq(X)
    BY <1>2, SequenceIsSeq
  <2>2. Tail(bus) \in Seq(X)
    BY <1>1, <2>1, HeadTailProperties
  <2>. QED  BY <2>2, SeqIsSequence
<1>5. ASSUME spoiled = {}
      PROVE  /\ LastShows(Tail(bus), agent)
             /\ fromStream' /\ Quiet(Tail(bus)) => card' = agent
  <2>1. LastShows(bus, agent) /\ (fromStream /\ Quiet(bus) => card = agent)
    BY <1>3, <1>5 DEF CardInv
  <2>2. /\ LastShows(Tail(bus), agent)
        /\ IsUpdate(Head(bus)) /\ Quiet(Tail(bus)) => Head(bus).of = agent
        /\ ~IsUpdate(Head(bus)) /\ Quiet(Tail(bus)) => Quiet(bus)
    BY <1>1, <1>2, <2>1, TakeFacts
  <2>. QED  BY <1>1, <2>1, <2>2
<1>. QED  BY <1>1, <1>3, <1>4, <1>5 DEF CardInv

LEMMA CardNext ==
  ASSUME OnceInv, CardInv, [Next]_allVars
  PROVE  CardInv'
<1>0. Sequence(<<>>) /\ \A a : LastShows(<<>>, a)
  BY DEF Sequence, LastShows
<1>1. CASE AgentNext /\ UNCHANGED pageVars
  <2>1. UNCHANGED <<phase, agent, listening, bus, card, fromStream>>
    BY <1>1 DEF AgentNext, Append1, FinishLine, Rotate, Tick, serviceVars, pageVars
  <2>2. spoiled' = {} => spoiled = {}
    BY <1>1 DEF AgentNext, Append1, FinishLine, Rotate, Tick, serviceVars
  <2>. QED  BY <2>1, <2>2 DEF CardInv
<1>2. CASE WatcherNext /\ UNCHANGED pageVars
  BY <1>2, CardWatcher DEF WatcherNext
<1>3. CASE StartServer /\ UNCHANGED pageVars
  BY <1>3 DEF StartServer, pageVars, CardInv
<1>4. CASE RequestStartsService
  <2>1. /\ bus = <<>> /\ ~fromStream /\ phase' = "watching"
        /\ UNCHANGED <<bus, listening, fromStream, card>>
    BY <1>4 DEF RequestStartsService, GetIngestionService, pageVars, CardInv
  <2>. QED  BY <1>0, <2>1 DEF CardInv
<1>5. CASE ServerDies
  <2>1. phase' = "down" /\ bus' = <<>> /\ fromStream' = FALSE
    BY <1>5 DEF ServerDies, CrashNext, Crash, CrashWhileSaving, Die
  <2>. QED  BY <1>0, <2>1 DEF CardInv
<1>6. CASE OpenPage
  <2>1. bus' = <<>> /\ fromStream' = FALSE
    BY <1>6 DEF OpenPage
  <2>. QED  BY <1>0, <2>1 DEF CardInv
<1>7. CASE Connect
  BY <1>7 DEF Connect, serviceVars, pageVars, CardInv
<1>8. CASE ApplyStreamEvent
  BY <1>8, CardStream
<1>9. CASE HydrateAgents
  <2>1. fromStream' = FALSE /\ UNCHANGED vars
    BY <1>9 DEF HydrateAgents
  <2>. QED  BY <2>1 DEF CardInv, vars, serviceVars
<1>10. CASE CallsFail \/ ClickCard \/ HydrateEvents \/ AnswerAgents \/ AnswerEvents
  <2>1. UNCHANGED vars /\ UNCHANGED <<card, fromStream>>
    BY <1>10 DEF CallsFail, ClickCard, HydrateEvents, AnswerAgents, AnswerEvents
  <2>. QED  BY <2>1 DEF CardInv, vars, serviceVars
<1>11. CASE UNCHANGED allVars
  BY <1>11 DEF allVars, vars, serviceVars, pageVars, CardInv
<1>. QED  BY <1>1, <1>2, <1>3, <1>4, <1>5, <1>6, <1>7, <1>8, <1>9, <1>10, <1>11
          DEF Next, PageNext, ServerNext

LEMMA CardHolds == Spec => []CardInv
<1>1. Init => CardInv
  <2>. SUFFICES ASSUME Init PROVE CardInv
    OBVIOUS
  <2>1. bus = <<>> /\ ~fromStream /\ phase = "down"
    BY DEF Init, IngestionInit
  <2>. QED  BY <2>1 DEF CardInv, Sequence
<1>. QED  BY <1>1, OnceHolds, CardNext, PTL DEF Spec

(* A card that the present stream connection has set shows the service's   *)
(* agent once the stream is drained (CardFollowsStream: ingestLines'       *)
(* announcements, applyStreamEvent).                                       *)
THEOREM CardsFollowTheStream == Spec => []CardFollowsStream
<1>1. CardInv => CardFollowsStream
  BY DEF CardInv, CardFollowsStream, Quiet
<1>. QED  BY <1>1, CardHolds, PTL

-----------------------------------------------------------------------------
(* The agent's row.                                                        *)

OfKind(events, S, t) == {e \in S : events[e].type = t}

PlacesOf(events, evs, t) == {i \in 1 .. Len(evs) : events[evs[i]].type = t}

Open(asked, answered) == IF asked - answered > 0 THEN asked - answered ELSE 0

PendingIn(events, S) ==
  Open(Cardinality(OfKind(events, S, "approval_requested")),
       Cardinality(OfKind(events, S, "approval_response")))

\* Event d is no later than event e, nor a later line of the same file of that instant.
LatestOf(events, e, d) ==
  /\ events[d].at <= events[e].at
  /\ events[d].at = events[e].at /\ events[d].run = events[e].run => d <= e

\* Events of the same file come in the order of their lines.
InFileOrder(events, evs) ==
  \A i, j \in 1 .. Len(evs) :
    i < j /\ events[evs[i]].run = events[evs[j]].run => evs[i] < evs[j]

\* What the row says of a set of events.
Told(events, a, S) ==
  /\ a.last \in S
  /\ \A d \in S : LatestOf(events, a.last, d)
  /\ a.pending = PendingIn(events, S)
  /\ (a.status = "error") <=> (events[a.last].type = "error")
  /\ a.status = "blocked" <=> a.pending > 0 /\ events[a.last].type # "error"

FirstInv ==
  /\ life \in Nat
  /\ life = 0 => phase # "watching" /\ disk = NewDatabase
  /\ phase = "watching" /\ life = 1 /\ fresh <= Retention /\ spoiled = {} =>
       /\ Len(rows) = fresh
       /\ agent # None => Told(trace, agent, ToSet(rows))

\* Some set of numbers has a greatest.
LEMMA GreatestExists ==
  ASSUME NEW n \in Nat, NEW S \in SUBSET (1 .. n), S # {}
  PROVE  \E m \in S : \A d \in S : d <= m
<1>. DEFINE I == {k \in Nat : \A T \in SUBSET (1 .. k) : T # {} => \E m \in T : \A d \in T : d <= m}
<1>1. 0 \in I
  <2>1. 1 .. 0 = {}
    OBVIOUS
  <2>. QED  BY <2>1
<1>2. ASSUME NEW k \in Nat, k \in I PROVE k + 1 \in I
  <2>. SUFFICES ASSUME NEW T \in SUBSET (1 .. k + 1), T # {}
                PROVE  \E m \in T : \A d \in T : d <= m
    OBVIOUS
  <2>1. CASE k + 1 \in T
    BY <2>1
  <2>2. CASE k + 1 \notin T
    <3>1. T \in SUBSET (1 .. k)
      BY <2>2
    <3>. QED  BY <1>2, <3>1
  <2>. QED  BY <2>1, <2>2
<1>. HIDE DEF I
<1>3. Nat \subseteq I
  BY <1>1, <1>2, NumberInduction
<1>. QED  BY <1>3 DEF I

\* The rows that hold events of a kind, and those events.
LEMMA CountFacts ==
  ASSUME NEW evs \in Seq(Nat), IsInjective(evs), NEW events, NEW t
  PROVE  Cardinality(PlacesOf(events, evs, t)) = Cardinality(OfKind(events, ToSet(evs), t))
<1>. DEFINE A == {i \in 1 .. Len(evs) : events[evs[i]].type = t}
            B == {e \in ToSet(evs) : events[e].type = t}
            h == [i \in A |-> evs[i]]
<1>1. Len(evs) \in Nat /\ DOMAIN evs = 1 .. Len(evs)
  BY LenProperties
<1>2. \A i, j \in 1 .. Len(evs) : evs[i] = evs[j] => i = j
  BY <1>1 DEF IsInjective
<1>3. ToSet(evs) = {evs[i] : i \in 1 .. Len(evs)}
  BY <1>1 DEF ToSet
<1>4. IsFiniteSet(A)
  <2>1. IsFiniteSet(1 .. Len(evs)) /\ A \subseteq 1 .. Len(evs)
    BY <1>1, FS_Interval
  <2>. QED  BY <2>1, FS_Subset
<1>5. h \in Bijection(A, B)
  <2>1. \A i \in A : evs[i] \in B
    BY <1>3
  <2>2. \A e \in B : \E i \in A : evs[i] = e
    BY <1>3
  <2>3. \A i, j \in A : evs[i] = evs[j] => i = j
    BY <1>2
  <2>. HIDE DEF A, B
  <2>. QED  BY <2>1, <2>2, <2>3 DEF Bijection, Injection, Surjection, IsInjective
<1>. HIDE DEF A, B, h
<1>6. Cardinality(A) = Cardinality(B)
  BY <1>4, <1>5, FS_Bijection DEF ExistsBijection
<1>. QED  BY <1>6 DEF A, B, PlacesOf, OfKind

\* deriveStatus says of its events what they are.
LEMMA OnlyRises ==
  ASSUME NEW s \in Seq(Nat), Rises(s), NEW S
  PROVE  Rises(Only(s, S))
<1>1. PICK h : Places(h, Only(s, S), s, S, Len(s))
  BY OnlyPlaces
<1>. DEFINE t == Only(s, S)
<1>. HIDE DEF t
<1>2. /\ \A i \in 1 .. Len(t) : h[i] \in 1 .. Len(s) /\ t[i] = s[h[i]]
      /\ \A i, j \in 1 .. Len(t) : i < j => h[i] < h[j]
  BY <1>1 DEF Places, t
<1>3. Rises(t)
  BY <1>2 DEF Rises
<1>. QED  BY <1>3 DEF t

LEMMA TakenRises ==
  ASSUME NEW events, NEW ls \in Seq(Nat), Rises(ls), NEW n \in Nat, n <= Len(ls)
  PROVE  Rises(TakenTo(events, ls, n))
<1>. DEFINE s == SubSeq(ls, 1, n)
<1>1. Len(ls) \in Nat /\ \A i \in 1 .. n : ls[i] \in Nat
  <2>1. Len(ls) \in Nat
    BY LenProperties
  <2>. QED  BY <2>1, ElementOfSeq
<1>2. s \in Seq(Nat) /\ Len(s) = n /\ \A i \in 1 .. n : s[i] = ls[i]
  <2>1. /\ s \in Seq(Nat) /\ Len(s) = IF 1 <= n THEN n - 1 + 1 ELSE 0
        /\ \A i \in 1 .. n - 1 + 1 : s[i] = ls[1 + i - 1]
    BY <1>1, SubSeqProperties
  <2>. HIDE DEF s
  <2>. QED  BY <2>1
<1>. HIDE DEF s
<1>3. \A i, j \in 1 .. n : i < j => ls[i] < ls[j]
  <2>1. \A i \in 1 .. n : i \in 1 .. Len(ls)
    BY <1>1
  <2>. QED  BY <2>1, Zenon DEF Rises
<1>4. Rises(s)
  BY <1>2, <1>3 DEF Rises
<1>. QED  BY <1>2, <1>4, OnlyRises DEF TakenTo, s

LEMMA FileOrderFacts ==
  ASSUME NEW events, NEW evs \in Seq(Nat),
         \A i \in 1 .. Len(evs) : evs[i] \in 1 .. Len(events) /\ events[evs[i]].run \in Runs,
         \A f \in Runs : Rises(Only(evs, RunOf(events, f)))
  PROVE  InFileOrder(events, evs)
<1>. SUFFICES ASSUME NEW i \in 1 .. Len(evs), NEW j \in 1 .. Len(evs), i < j,
                     events[evs[i]].run = events[evs[j]].run
              PROVE  evs[i] < evs[j]
  BY DEF InFileOrder
<1>1. PICK f \in Runs : f = events[evs[i]].run
  OBVIOUS
<1>2. PICK t : t = Only(evs, RunOf(events, f)) /\ Rises(t)
  OBVIOUS
<1>3. PICK h : Places(h, t, evs, RunOf(events, f), Len(evs))
  BY <1>2, OnlyPlaces
<1>4. evs[i] \in RunOf(events, f) /\ evs[j] \in RunOf(events, f)
  BY <1>1 DEF RunOf
<1>5. PICK a \in 1 .. Len(t), b \in 1 .. Len(t) : h[a] = i /\ h[b] = j
  BY <1>3, <1>4 DEF Places
<1>6. a < b
  <2>1. a \in Nat /\ b \in Nat /\ i \in Nat /\ j \in Nat
    BY <1>2, LenProperties
  <2>2. a # b
    BY <1>5
  <2>3. ~(b < a)
    BY <1>3, <1>5, <2>1 DEF Places
  <2>. QED  BY <2>1, <2>2, <2>3
<1>7. t[a] = evs[i] /\ t[b] = evs[j]
  BY <1>3, <1>5 DEF Places
<1>. QED  BY <1>2, <1>6, <1>7 DEF Rises

\* The last of the events with the latest time stamp.
LEMMA LatestExists ==
  ASSUME FilesInv, NEW evs \in Seq(Nat), evs # <<>>,
         \A i \in 1 .. Len(evs) : evs[i] \in 1 .. Len(trace)
  PROVE  \E i \in 1 .. Len(evs) : \A j \in 1 .. Len(evs) :
           \/ trace[evs[j]].at < trace[evs[i]].at
           \/ trace[evs[j]].at = trace[evs[i]].at /\ j <= i
<1>. DEFINE At(i) == trace[evs[i]].at
<1>1. Len(evs) \in Nat \ {0} /\ now \in Nat
  BY LenProperties, EmptySeq DEF FilesInv, TraceInv
<1>2. \A i \in 1 .. Len(evs) : At(i) \in Nat /\ At(i) <= now
  <2>1. trace \in Seq([run : Runs, type : Types, at : Nat])
    BY DEF FilesInv, TraceInv
  <2>2. \A e \in 1 .. Len(trace) : trace[e] \in [run : Runs, type : Types, at : Nat]
    BY <2>1, ElementOfSeq
  <2>3. \A e \in 1 .. Len(trace) : trace[e].at \in Nat /\ trace[e].at <= now
    BY <2>2 DEF FilesInv, TraceInv
  <2>. QED  BY <2>3
<1>. HIDE DEF At
<1>3. PICK m \in Nat : /\ \A i \in 1 .. Len(evs) : At(i) <= m
                       /\ \E i \in 1 .. Len(evs) : At(i) = m
  <2>. DEFINE T == {k \in 1 .. now + 1 : \E i \in 1 .. Len(evs) : At(i) + 1 = k}
  <2>1. \A i \in 1 .. Len(evs) : At(i) + 1 \in T
    BY <1>1, <1>2
  <2>2. T # {} /\ T \in SUBSET (1 .. now + 1) /\ now + 1 \in Nat
    <3>1. 1 \in 1 .. Len(evs) /\ now + 1 \in Nat
      BY <1>1
    <3>2. At(1) + 1 \in T
      BY <2>1, <3>1
    <3>3. T \subseteq 1 .. now + 1
      OBVIOUS
    <3>. HIDE DEF T
    <3>. QED  BY <3>1, <3>2, <3>3
  <2>3. \A k \in T : k \in Nat /\ \E i \in 1 .. Len(evs) : At(i) + 1 = k
    BY <1>1
  <2>. HIDE DEF T
  <2>4. PICK g \in T : \A k \in T : k <= g
    BY <2>2, GreatestExists
  <2>5. PICK i \in 1 .. Len(evs) : At(i) + 1 = g
    BY <2>3
  <2>6. \A j \in 1 .. Len(evs) : At(j) <= At(i)
    BY <1>2, <2>1, <2>4, <2>5
  <2>. QED  BY <1>2, <2>6
<1>4. PICK i \in {k \in 1 .. Len(evs) : At(k) = m} :
        \A k \in {l \in 1 .. Len(evs) : At(l) = m} : k <= i
  BY <1>1, <1>3, GreatestExists
<1>5. \A j \in 1 .. Len(evs) : At(j) < At(i) \/ (At(j) = At(i) /\ j <= i)
  BY <1>2, <1>3, <1>4
<1>. QED  BY <1>4, <1>5 DEF At

LEMMA DeriveTells ==
  ASSUME FilesInv, NEW evs \in Seq(Nat), evs # <<>>, IsInjective(evs), InFileOrder(trace, evs),
         \A i \in 1 .. Len(evs) : evs[i] \in 1 .. Len(trace)
  PROVE  Told(trace, DeriveStatus(evs), ToSet(evs))
<1>. DEFINE S == ToSet(evs)
            n == Len(trace)
            last == LastEvent(evs)
            a == DeriveStatus(evs)
<1>1. Len(evs) \in Nat \ {0} /\ S = {evs[i] : i \in 1 .. Len(evs)}
  BY LenProperties, EmptySeq DEF ToSet
<1>2. S \in SUBSET (1 .. n) /\ S # {} /\ n \in Nat
  BY <1>1, LenProperties DEF FilesInv, TraceInv
<1>3. PICK m \in 1 .. Len(evs) :
        /\ last = evs[m]
        /\ \A j \in 1 .. Len(evs) :
             \/ trace[evs[j]].at < trace[evs[m]].at
             \/ trace[evs[j]].at = trace[evs[m]].at /\ j <= m
  <2>. DEFINE Top(i) == \A j \in 1 .. Len(evs) :
                          \/ trace[evs[j]].at < trace[evs[i]].at
                          \/ trace[evs[j]].at = trace[evs[i]].at /\ j <= i
  <2>1. \E i \in 1 .. Len(evs) : Top(i)
    BY LatestExists
  <2>2. last = evs[CHOOSE i \in 1 .. Len(evs) : Top(i)]
    BY DEF LastEvent
  <2>. HIDE DEF Top, last
  <2>3. PICK m : m = (CHOOSE i \in 1 .. Len(evs) : Top(i))
    OBVIOUS
  <2>4. m \in 1 .. Len(evs) /\ Top(m)
    BY <2>1, <2>3
  <2>5. last = evs[m]
    BY <2>2, <2>3
  <2>. QED  BY <2>4, <2>5 DEF Top
<1>4. \A i \in 1 .. Len(evs) : evs[i] \in Nat /\ trace[evs[i]].at \in Nat
  <2>1. trace \in Seq([run : Runs, type : Types, at : Nat])
    BY DEF FilesInv, TraceInv
  <2>2. \A e \in 1 .. n : trace[e] \in [run : Runs, type : Types, at : Nat]
    BY <2>1, ElementOfSeq
  <2>. QED  BY <1>2, <2>2
<1>5. ASSUME NEW j \in 1 .. Len(evs) PROVE LatestOf(trace, evs[m], evs[j])
  <2>1. trace[evs[j]].at <= trace[evs[m]].at
    <3>1. PICK x, y : x = trace[evs[j]].at /\ y = trace[evs[m]].at
      OBVIOUS
    <3>2. x \in Nat /\ y \in Nat /\ (x < y \/ x = y)
      BY <1>3, <1>4, <3>1
    <3>. QED  BY <3>1, <3>2
  <2>2. ASSUME trace[evs[j]].at = trace[evs[m]].at, trace[evs[j]].run = trace[evs[m]].run
        PROVE  evs[j] <= evs[m]
    <3>1. j <= m
      BY <1>3, <1>4, <2>2
    <3>2. j = m \/ j < m
      BY <3>1
    <3>3. j < m => evs[j] < evs[m]
      BY <2>2 DEF InFileOrder
    <3>. QED  BY <1>4, <3>2, <3>3
  <2>. QED  BY <2>1, <2>2 DEF LatestOf
<1>6. last \in S
  BY <1>1, <1>3
<1>7. ASSUME NEW d \in S PROVE LatestOf(trace, last, d)
  <2>1. PICK j \in 1 .. Len(evs) : d = evs[j]
    BY <1>1
  <2>. QED  BY <1>3, <1>5, <2>1
<1>8. Pending(evs) = PendingIn(trace, S)
  <2>1. /\ Cardinality(PlacesOf(trace, evs, "approval_requested"))
             = Cardinality(OfKind(trace, S, "approval_requested"))
        /\ Cardinality(PlacesOf(trace, evs, "approval_response"))
             = Cardinality(OfKind(trace, S, "approval_response"))
    BY CountFacts
  <2>2. Pending(evs) = Open(Cardinality(PlacesOf(trace, evs, "approval_requested")),
                            Cardinality(PlacesOf(trace, evs, "approval_response")))
    BY DEF Pending, Open, PlacesOf
  <2>. QED  BY <2>1, <2>2 DEF PendingIn
<1>9. a.last = last /\ a.pending = Pending(evs)
  BY DEF DeriveStatus
<1>10. a.status = (IF trace[last].type = "error" THEN "error"
                   ELSE IF Pending(evs) > 0 THEN "blocked"
                   ELSE IF trace[last].type = "session_end" THEN "completed"
                   ELSE IF now - trace[last].at > Staleness THEN "idle" ELSE "running")
  BY DEF DeriveStatus
<1>. HIDE DEF a, last, S
<1>11. /\ (a.status = "error") <=> (trace[last].type = "error")
       /\ a.status = "blocked" <=> Pending(evs) > 0 /\ trace[last].type # "error"
  BY <1>10
<1>12. Told(trace, a, S)
  BY <1>6, <1>7, <1>8, <1>9, <1>11 DEF Told
<1>. QED  BY <1>12 DEF a, S

\* Later events change nothing of what the row says.
LEMMA ToldStays ==
  ASSUME NEW events, NEW later, NEW a, NEW S \in SUBSET (1 .. Len(events)),
         Prefix(events, later), Told(events, a, S)
  PROVE  Told(later, a, S)
<1>1. \A e \in S : later[e] = events[e]
  BY DEF Prefix
<1>2. \A t : OfKind(later, S, t) = OfKind(events, S, t)
  BY <1>1 DEF OfKind
<1>3. PendingIn(later, S) = PendingIn(events, S)
  BY <1>2 DEF PendingIn
<1>. QED  BY <1>1, <1>3 DEF Told, LatestOf

LEMMA StoredEvents ==
  ASSUME NEW rs, NEW n \in Nat, StoredRows(rs, n)
  PROVE  rs \in Seq(Nat) /\ Len(rs) \in Nat /\ ToSet(rs) \in SUBSET (1 .. n)
<1>1. rs \in Seq(Nat) /\ \A i \in 1 .. Len(rs) : rs[i] \in 1 .. n
  BY DEF StoredRows
<1>2. Len(rs) \in Nat /\ DOMAIN rs = 1 .. Len(rs)
  BY <1>1, LenProperties
<1>. QED  BY <1>1, <1>2 DEF ToSet

\* In the first life, before pruning, all rows are of this life.
LEMMA AllAreAdded ==
  ASSUME NEW rs \in Seq(Nat)
  PROVE  AddedTo(rs, Len(rs)) = rs
<1>1. Len(rs) \in Nat /\ ~(Len(rs) < Len(rs))
  BY LenProperties
<1>2. SubSeq(rs, 1, Len(rs)) = rs
  BY SubSeqFull
<1>. QED  BY <1>1, <1>2 DEF AddedTo

LEMMA FirstIngest ==
  ASSUME OnceInv, OnceInv', FirstInv, NEW f \in Runs, Ingest(f)
  PROVE  FirstInv'
<1>1. /\ HandleFile(f) /\ Batch(f) # <<>> /\ agent' = DeriveStatus(rows \o Batch(f))
      /\ rows' = Prune(rows \o Batch(f)) /\ fresh' = fresh + Len(Batch(f)) /\ spoiled' = spoiled
  BY DEF Ingest, UpsertAgent, AppendEvents
<1>2. phase = "watching" /\ phase' = "watching" /\ trace' = trace /\ life' = life
  BY <1>1 DEF HandleFile, Notified, fileVars
<1>3. FilesInv /\ fresh \in Nat /\ StoredRows(rows, Len(trace)) /\ Len(trace) \in Nat
  BY LenProperties DEF OnceInv, RowsInv, FilesInv, TraceInv
<1>4. PICK b \in Seq(Nat) : b = Batch(f) /\ Len(b) \in Nat
  BY BatchSequence
<1>5. PICK rs \in Seq(Nat) : rs = rows /\ Len(rs) \in Nat
  BY <1>3, StoredEvents
<1>6. PICK all \in Seq(Nat) : all = rs \o b /\ Len(all) = Len(rs) + Len(b)
  BY ConcatProperties
<1>7. ASSUME life = 1, fresh' <= Retention, spoiled = {}
      PROVE  Len(rows') = fresh' /\ Told(trace, agent', ToSet(rows'))
  <2>1. Retention \in Nat /\ fresh <= Retention
    BY <1>1, <1>3, <1>4, <1>7, MonitorAssumption
  <2>2. Len(rs) = fresh
    BY <1>2, <1>5, <1>7, <2>1 DEF FirstInv
  <2>3. Len(all) = fresh'
    BY <1>1, <1>4, <1>6, <2>2
  <2>4. Prune(all) = all
    BY <1>7, <2>3 DEF Prune
  <2>5. rows' = all
    BY <1>1, <1>4, <1>5, <1>6, <2>4
  <2>6. AddedTo(all, Len(all)) = all
    BY AllAreAdded
  <2>7. WatchInv'
    BY <1>2 DEF OnceInv
  <2>8. IsInjective(all)
    BY <2>3, <2>5, <2>6, <2>7 DEF WatchInv
  <2>9. \A i \in 1 .. Len(all) : all[i] \in 1 .. Len(trace)
    BY <1>2, <2>5 DEF OnceInv, RowsInv, StoredRows
  <2>10. all # <<>>
    <3>1. Len(b) # 0
      BY <1>1, <1>4, EmptySeq
    <3>2. Len(all) # 0
      BY <1>4, <1>5, <1>6, <3>1
    <3>. QED  BY <3>2, EmptySeq
  <2>11. InFileOrder(trace, all)
    <3>1. ASSUME NEW g \in Runs PROVE Rises(Only(all, RunOf(trace, g)))
      <4>1. /\ ReadTo(lines'[g], half'[g], offset'[g], remainder'[g])
            /\ Only(all, RunOf(trace, g)) = TakenTo(trace, lines'[g], offset'[g] \div 2)
        BY <1>1, <1>2, <1>7, <2>3, <2>5, <2>6, <2>7 DEF WatchInv, Followed
      <4>2. lines'[g] \in Seq(Nat) /\ Rises(lines'[g])
        BY DEF OnceInv, FilesInv, LinesInv
      <4>3. Len(lines'[g]) \in Nat
        BY <4>2, LenProperties
      <4>4. offset'[g] \div 2 \in Nat /\ offset'[g] \div 2 <= Len(lines'[g])
        <5>1. PICK o, k : o = offset'[g] /\ k = Len(lines'[g])
          OBVIOUS
        <5>2. o \in Nat /\ k \in Nat /\ o <= 2 * k
          <6>1. CASE half'[g]
            BY <4>1, <4>3, <5>1, <6>1 DEF ReadTo, Size
          <6>2. CASE ~half'[g]
            BY <4>1, <4>3, <5>1, <6>2 DEF ReadTo, Size
          <6>. QED  BY <6>1, <6>2
        <5>3. o \div 2 \in Nat /\ o \div 2 <= k
          BY <5>2
        <5>. QED  BY <5>1, <5>3
      <4>. QED  BY <4>1, <4>2, <4>4, TakenRises
    <3>2. \A i \in 1 .. Len(all) : trace[all[i]].run \in Runs
      <4>1. trace \in Seq([run : Runs, type : Types, at : Nat])
        BY <1>3 DEF FilesInv, TraceInv
      <4>2. \A e \in 1 .. Len(trace) : trace[e] \in [run : Runs, type : Types, at : Nat]
        BY <4>1, ElementOfSeq
      <4>. QED  BY <2>9, <4>2
    <3>. QED  BY <2>9, <3>1, <3>2, FileOrderFacts
  <2>12. Told(trace, DeriveStatus(all), ToSet(all))
    BY <1>3, <2>8, <2>9, <2>10, <2>11, DeriveTells
  <2>. QED  BY <1>1, <1>4, <1>5, <1>6, <2>3, <2>5, <2>12
<1>. QED  BY <1>1, <1>2, <1>7 DEF FirstInv

LEMMA FirstGrows ==
  ASSUME OnceInv, FirstInv, Prefix(trace, trace'), spoiled' = {} => spoiled = {},
         UNCHANGED <<life, phase, rows, fresh, agent, disk>>
  PROVE  FirstInv'
<1>1. StoredRows(rows, Len(trace)) /\ Len(trace) \in Nat
  BY LenProperties DEF OnceInv, RowsInv, FilesInv, TraceInv
<1>2. PICK S : S = ToSet(rows) /\ S \in SUBSET (1 .. Len(trace))
  BY <1>1, StoredEvents
<1>3. ASSUME Told(trace, agent, S) PROVE Told(trace', agent, S)
  <2>1. PICK ev, ev2 : ev = trace /\ ev2 = trace'
    OBVIOUS
  <2>2. S \in SUBSET (1 .. Len(ev)) /\ Prefix(ev, ev2) /\ Told(ev, agent, S)
    BY <1>2, <1>3, <2>1
  <2>3. Told(ev2, agent, S)
    BY <2>2, ToldStays
  <2>. QED  BY <2>1, <2>3
<1>. QED  BY <1>2, <1>3 DEF FirstInv

LEMMA FirstNext ==
  ASSUME OnceInv, OnceInv', FirstInv, [Next]_allVars
  PROVE  FirstInv'
<1>0. Len(trace) \in Nat /\ trace \in Seq([run : Runs, type : Types, at : Nat]) /\ now \in Nat
  BY LenProperties DEF OnceInv, FilesInv, TraceInv
<1>. DEFINE kept == UNCHANGED <<life, phase, rows, fresh, agent, disk>>
<1>1. CASE AgentNext
  <2>1. CASE \E f \in Runs, t \in Types : Append1(f, t)
    <3>1. PICK f \in Runs, t \in Types : Append1(f, t)
      BY <2>1
    <3>2. kept /\ spoiled' = spoiled /\ trace' = Append(trace, [run |-> f, type |-> t, at |-> now])
      BY <3>1 DEF Append1
    <3>3. Prefix(trace, trace')
      <4>1. [run |-> f, type |-> t, at |-> now] \in [run : Runs, type : Types, at : Nat]
        BY <1>0
      <4>2. /\ Len(trace') = Len(trace) + 1
            /\ \A i \in 1 .. Len(trace) : trace'[i] = trace[i]
        BY <1>0, <3>2, <4>1, AppendProperties
      <4>. QED  BY <1>0, <4>2 DEF Prefix
    <3>. QED  BY <3>2, <3>3, FirstGrows
  <2>2. CASE (\E f \in Runs : FinishLine(f) \/ Rotate(f)) \/ Tick
    <3>1. kept /\ trace' = trace /\ (spoiled' = {} => spoiled = {})
      BY <2>2 DEF FinishLine, Rotate, Tick, serviceVars
    <3>2. Prefix(trace, trace')
      BY <1>0, <3>1, SamePrefix
    <3>. QED  BY <3>1, <3>2, FirstGrows
  <2>. QED  BY <1>1, <2>1, <2>2 DEF AgentNext
<1>2. ASSUME kept, trace' = trace, spoiled' = spoiled PROVE FirstInv'
  <2>1. Prefix(trace, trace')
    BY <1>0, <1>2, SamePrefix
  <2>. QED  BY <1>2, <2>1, FirstGrows
<1>3. ASSUME NEW f \in Runs, NothingNew(f) PROVE FirstInv'
  BY <1>2, <1>3 DEF NothingNew, HandleFile, fileVars
<1>4. ASSUME NEW f \in Runs, Ingest(f) PROVE FirstInv'
  BY <1>4, FirstIngest
<1>5. ASSUME NEW f \in Runs, AgentSaveFails(f) \/ EventSaveFails(f) PROVE FirstInv'
  <2>1. spoiled' = spoiled \cup {f} /\ HandleFile(f)
    BY <1>5 DEF AgentSaveFails, EventSaveFails
  <2>2. phase = "watching" /\ life' = life
    BY <2>1 DEF HandleFile, Notified
  <2>. QED  BY <2>1, <2>2 DEF FirstInv
<1>6. CASE WatcherNext
  BY <1>3, <1>4, <1>5, <1>6 DEF WatcherNext
<1>7. CASE StartServer
  BY <1>7 DEF StartServer, FirstInv
<1>8. CASE ServerDies
  <2>1. life' = life /\ phase = "watching" /\ phase' = "down"
    BY <1>8 DEF ServerDies, CrashNext, Crash, CrashWhileSaving, Die
  <2>. QED  BY <2>1 DEF FirstInv
<1>9. CASE RequestStartsService
  <2>1. /\ life' = life + 1 /\ rows' = disk.rows /\ agent' = disk.agent /\ fresh' = 0
    BY <1>9 DEF RequestStartsService, GetIngestionService
  <2>2. life' \in Nat /\ life' # 0
    BY <2>1 DEF FirstInv
  <2>3. life' = 1 => Len(rows') = 0 /\ agent' = None
    <3>1. life \in Nat
      BY DEF FirstInv
    <3>2. life' = 1 => life = 0
      BY <2>1, <3>1
    <3>3. Len(<<>>) = 0
      BY EmptySeq
    <3>. QED  BY <2>1, <3>2, <3>3 DEF FirstInv, NewDatabase
  <2>. QED  BY <2>1, <2>2, <2>3 DEF FirstInv
<1>10. CASE OpenPage \/ Connect \/ ApplyStreamEvent
  BY <1>2, <1>10 DEF OpenPage, Connect, ApplyStreamEvent, fileVars, serviceVars
<1>11. CASE UNCHANGED vars
  BY <1>2, <1>11 DEF vars, fileVars, serviceVars
<1>12. CASE CallsFail \/ ClickCard \/ HydrateAgents \/ HydrateEvents \/ AnswerAgents \/ AnswerEvents
  BY <1>11, <1>12 DEF CallsFail, ClickCard, HydrateAgents, HydrateEvents, AnswerAgents, AnswerEvents
<1>13. CASE UNCHANGED allVars
  BY <1>11, <1>13 DEF allVars
<1>. QED  BY <1>1, <1>6, <1>7, <1>8, <1>9, <1>10, <1>12, <1>13
          DEF Next, PageNext, ServerNext

LEMMA FirstHolds == Spec => []FirstInv
<1>1. Init => FirstInv
  BY DEF Init, IngestionInit, FirstInv, NewDatabase
<1>. QED  BY <1>1, OnceHolds, FirstNext, PTL DEF Spec

LEMMA FirstImplies ==
  ASSUME OnceInv, FirstInv PROVE StatusFollowsTrace
<1>. SUFFICES ASSUME phase = "watching", life = 1, fresh <= Retention, spoiled = {}, agent # None
              PROVE  StatusFollowsTrace
  BY DEF StatusFollowsTrace
<1>. DEFINE Read == UNION {ToSet(Taken(f)) : f \in Runs}
            S == ToSet(rows)
            open == Cardinality({e \in Read : trace[e].type = "approval_requested"})
                      - Cardinality({e \in Read : trace[e].type = "approval_response"})
<1>1. Len(rows) = fresh /\ Told(trace, agent, S)
  BY DEF FirstInv
<1>2. /\ FilesInv /\ WatchInv /\ rows \in Seq(Nat)
      /\ S \in SUBSET (1 .. Len(trace)) /\ Len(trace) \in Nat
  BY StoredEvents, LenProperties DEF OnceInv, RowsInv, FilesInv, TraceInv
<1>3. ASSUME NEW f \in Runs PROVE ToSet(Taken(f)) = S \cap RunOf(trace, f)
  <2>1. Followed(trace, lines[f], offset[f] \div 2, rows, fresh, f)
    BY <1>2 DEF WatchInv
  <2>2. Taken(f) = TakenTo(trace, lines[f], offset[f] \div 2)
    BY DEF Taken, TakenTo, WellFormed
  <2>3. AddedTo(rows, fresh) = rows
    BY <1>1, <1>2, AllAreAdded
  <2>4. Only(rows, RunOf(trace, f)) = Taken(f)
    BY <2>1, <2>2, <2>3 DEF Followed
  <2>5. PICK rs \in Seq(Nat) : rs = rows
    BY <1>2
  <2>6. ToSet(Only(rs, RunOf(trace, f))) = ToSet(rs) \cap RunOf(trace, f)
    BY OnlyElements
  <2>. QED  BY <2>4, <2>5, <2>6
<1>4. Read = S
  <2>1. ASSUME NEW e \in S PROVE \E f \in Runs : e \in RunOf(trace, f)
    <3>1. e \in 1 .. Len(trace)
      BY <1>2
    <3>2. trace[e] \in [run : Runs, type : Types, at : Nat]
      BY <1>2, <3>1, ElementOfSeq DEF FilesInv, TraceInv
    <3>3. trace[e].run \in Runs
      BY <3>2
    <3>. QED  BY <3>1, <3>3 DEF RunOf
  <2>. HIDE DEF S
  <2>. QED  BY <1>3, <2>1
<1>. HIDE DEF S, Read
<1>5. /\ agent.last \in Read /\ \A d \in Read : LatestOf(trace, agent.last, d)
      /\ agent.pending = PendingIn(trace, Read)
      /\ (agent.status = "error") <=> (trace[agent.last].type = "error")
      /\ agent.status = "blocked" <=> agent.pending > 0 /\ trace[agent.last].type # "error"
  BY <1>1, <1>4 DEF Told
<1>6. agent.pending = IF open > 0 THEN open ELSE 0
  BY <1>5 DEF PendingIn, Open, OfKind
<1>7. ASSUME NEW d \in Read
      PROVE  /\ trace[d].at <= trace[agent.last].at
             /\ trace[d].at = trace[agent.last].at /\ trace[d].run = trace[agent.last].run
                  => d <= agent.last
  BY <1>5 DEF LatestOf
<1>. HIDE DEF open
<1>. QED  BY <1>5, <1>6, <1>7 DEF StatusFollowsTrace, open, Read

(* In the first life, as long as nothing was pruned, replaced or lost, the *)
(* agent's row counts the requests and the responses of all the lines read *)
(* and knows one of the latest events, the last of those of its file, in   *)
(* whatever order they came (StatusFollowsTrace: deriveStatus over the     *)
(* stored and the new events).                                             *)
THEOREM StatusFollowsTheTrace == Spec => []StatusFollowsTrace
<1>. QED  BY OnceHolds, FirstHolds, FirstImplies, PTL
=============================================================================
