-------------------------- MODULE OnboardingProofs --------------------------
(***************************************************************************)
(* Proofs about interviews and compiles that share a session file, for any *)
(* replies of the model, any answers extracted and any number of commands: *)
(* no answer on file is lost, a compile that reports success has left a    *)
(* whole, and the guardrails it writes ask the more the less autonomy the  *)
(* user grants.                                                            *)
(*                                                                         *)
(* Two invariants carry them.  InterviewInv: the running command goes on   *)
(* from the session on file or has begun a newer one, and has written all  *)
(* of it when it asks the user.  CompileInv: what the derivation calls     *)
(* done is on disk from its session, and the running command is one step   *)
(* ahead of it.  That no reply lowers a confidence is an induction over    *)
(* the updates of the reply, for which the set of the numbers that have no *)
(* such result is shown to have no least element.                          *)
(***************************************************************************)
EXTENDS Onboarding, SequenceTheorems, WellFoundedInduction, TLAPS

\* The library's induction principles take an operator; this one takes the
\* set of the numbers of which the fact holds.
LEMMA NumberInduction ==
  ASSUME NEW T, 0 \in T, \A n \in Nat : n \in T => n + 1 \in T
  PROVE  Nat \subseteq T
<1>. SUFFICES ASSUME Nat \ T # {} PROVE FALSE
  OBVIOUS
<1>1. \A x, y \in Nat : <<x, y>> \in OpToRel(<, Nat) <=> x < y
  BY DEF OpToRel
<1>2. PICK n \in Nat \ T : \A y \in Nat \ T : ~(<<y, n>> \in OpToRel(<, Nat))
  BY NatLessThanWellFounded, WFMin
<1>3. n \in Nat /\ n \notin T
  OBVIOUS
<1>4. n # 0
  BY <1>3
<1>5. n - 1 \in Nat /\ n - 1 < n /\ (n - 1) + 1 = n
  BY <1>3, <1>4
<1>6. n - 1 \in T
  BY <1>1, <1>2, <1>3, <1>5
<1>. QED  BY <1>3, <1>5, <1>6

-----------------------------------------------------------------------------
(* Coverage.                                                               *)

IsCov(cov) ==
  /\ cov = [k \in DOMAIN cov |-> cov[k]]
  /\ \A k \in DOMAIN cov : cov[k].conf \in Nat

\* A coverage that is at least as far, dimension by dimension.
Grows(cov, next) ==
  /\ IsCov(next)
  /\ DOMAIN next = DOMAIN cov
  /\ \A k \in DOMAIN cov : cov[k].conf <= next[k].conf

LEMMA GrowsReflexive ==
  ASSUME NEW cov, IsCov(cov)  PROVE Grows(cov, cov)
BY DEF IsCov, Grows

LEMMA GrowsTransitive ==
  ASSUME NEW a, NEW b, NEW c, IsCov(a), Grows(a, b), Grows(b, c)  PROVE Grows(a, c)
BY DEF IsCov, Grows

\* One dimension that is further.
LEMMA OneGrows ==
  ASSUME NEW cov, IsCov(cov), NEW k, NEW d, k \in DOMAIN cov => d.conf \in Nat /\ cov[k].conf <= d.conf
  PROVE  Grows(cov, [cov EXCEPT ![k] = d])
BY DEF IsCov, Grows

LEMMA UpdateGrows ==
  ASSUME NEW cov, IsCov(cov), NEW u \in Updates  PROVE Grows(cov, Update(cov, u))
<1>. DEFINE k == Place(cov, u.id)
            conf == cov[k].conf + (IF u.delta > 0 THEN u.delta ELSE 0)
            status == CASE u.skip            -> "skipped"
                        [] conf >= Threshold -> "covered"
                        [] conf >= Started   -> "in_progress"
                        [] OTHER             -> cov[k].status
            d == [id |-> u.id, status |-> status, conf |-> conf]
<1>1. CASE \A i \in DOMAIN cov : cov[i].id # u.id
  BY <1>1, GrowsReflexive DEF Update
<1>2. CASE ~\A i \in DOMAIN cov : cov[i].id # u.id
  <2>1. Update(cov, u) = [cov EXCEPT ![k] = d]
    BY <1>2 DEF Update
  <2>2. u.delta \in Int
    BY DEF Updates
  <2>3. d.conf = conf
    OBVIOUS
  <2>. HIDE DEF d, k
  <2>4. k \in DOMAIN cov => conf \in Nat /\ cov[k].conf <= conf
    BY <2>2 DEF IsCov
  <2>. HIDE DEF conf
  <2>5. k \in DOMAIN cov => d.conf \in Nat /\ cov[k].conf <= d.conf
    BY <2>3, <2>4
  <2>6. Grows(cov, [cov EXCEPT ![k] = d])
    BY <2>5, OneGrows
  <2>. QED  BY <2>1, <2>6
<1>. QED  BY <1>1, <1>2

LEMMA CascadeWeight ==
  ASSUME NEW domain, NEW dim  PROVE Cascade(domain, dim).weight \in Nat /\ NoCascade.weight \in Nat
BY DEF Cascade, NoCascade

LEMMA InferGrows ==
  ASSUME NEW cov, IsCov(cov), NEW c, c.weight \in Nat  PROVE Grows(cov, Infer(cov, c))
<1>. DEFINE k == Place(cov, c.to)
            conf == cov[k].conf + c.weight
            status == CASE conf >= Threshold -> "covered"
                        [] conf >= Started /\ conf < Threshold
                             /\ cov[k].status = "not_started" -> "in_progress"
                        [] OTHER -> cov[k].status
            d == [id |-> c.to, status |-> status, conf |-> conf]
<1>1. CASE Infer(cov, c) = cov
  BY <1>1, GrowsReflexive
<1>2. CASE Infer(cov, c) # cov
  <2>1. Infer(cov, c) = [cov EXCEPT ![k] = d]
    BY <1>2 DEF Infer
  <2>3. d.conf = conf
    OBVIOUS
  <2>. HIDE DEF d, k
  <2>4. k \in DOMAIN cov => conf \in Nat /\ cov[k].conf <= conf
    BY DEF IsCov
  <2>. HIDE DEF conf
  <2>5. k \in DOMAIN cov => d.conf \in Nat /\ cov[k].conf <= d.conf
    BY <2>3, <2>4
  <2>6. Grows(cov, [cov EXCEPT ![k] = d])
    BY <2>5, OneGrows
  <2>. QED  BY <2>1, <2>6
<1>. QED  BY <1>1, <1>2

-----------------------------------------------------------------------------
(* Replies.  Updated and Inferred are recursive functions.                 *)

UpdatedTo(f, cov, updates, n) ==
  f = [k \in 0 .. n |-> IF k = 0 THEN cov ELSE Update(f[k - 1], updates[k])]

InferredTo(f, cov, cascades, n) ==
  f = [k \in 0 .. n |-> IF k = 0 THEN cov ELSE Infer(f[k - 1], cascades[k])]

LEMMA UpdatedExists ==
  ASSUME NEW cov, NEW updates
  PROVE  \A n \in Nat : \E f : UpdatedTo(f, cov, updates, n)
<1>. DEFINE T == {n \in Nat : \E f : UpdatedTo(f, cov, updates, n)}
<1>1. 0 \in T
  <2>1. UpdatedTo([k \in 0 .. 0 |-> cov], cov, updates, 0)
    BY DEF UpdatedTo
  <2>. QED  BY <2>1
<1>2. ASSUME NEW n \in Nat, n \in T PROVE n + 1 \in T
  <2>1. PICK f : UpdatedTo(f, cov, updates, n)
    BY <1>2
  <2>. DEFINE g == [k \in 0 .. n + 1 |->
                      IF k = n + 1 THEN Update(f[n], updates[k]) ELSE f[k]]
  <2>2. ASSUME NEW k \in 0 .. n + 1
        PROVE  g[k] = IF k = 0 THEN cov ELSE Update(g[k - 1], updates[k])
    <3>1. CASE k = 0
      BY <2>1, <3>1 DEF UpdatedTo
    <3>2. CASE k \in 1 .. n
      <4>1. k - 1 \in 0 .. n /\ g[k - 1] = f[k - 1] /\ g[k] = f[k]
        BY <3>2
      <4>2. k \in 0 .. n /\ k # 0
        BY <3>2
      <4>3. f[k] = Update(f[k - 1], updates[k])
        BY <2>1, <4>2 DEF UpdatedTo
      <4>. QED  BY <3>2, <4>1, <4>3
    <3>3. CASE k = n + 1
      BY <3>3
    <3>. QED  BY <3>1, <3>2, <3>3
  <2>3. UpdatedTo(g, cov, updates, n + 1)
    BY <2>2 DEF UpdatedTo
  <2>. QED  BY <2>3
<1>. HIDE DEF T
<1>3. Nat \subseteq T
  BY <1>1, <1>2, NumberInduction
<1>. QED  BY <1>3 DEF T

LEMMA InferredExists ==
  ASSUME NEW cov, NEW cascades
  PROVE  \A n \in Nat : \E f : InferredTo(f, cov, cascades, n)
<1>. DEFINE T == {n \in Nat : \E f : InferredTo(f, cov, cascades, n)}
<1>1. 0 \in T
  <2>1. InferredTo([k \in 0 .. 0 |-> cov], cov, cascades, 0)
    BY DEF InferredTo
  <2>. QED  BY <2>1
<1>2. ASSUME NEW n \in Nat, n \in T PROVE n + 1 \in T
  <2>1. PICK f : InferredTo(f, cov, cascades, n)
    BY <1>2
  <2>. DEFINE g == [k \in 0 .. n + 1 |->
                      IF k = n + 1 THEN Infer(f[n], cascades[k]) ELSE f[k]]
  <2>2. ASSUME NEW k \in 0 .. n + 1
        PROVE  g[k] = IF k = 0 THEN cov ELSE Infer(g[k - 1], cascades[k])
    <3>1. CASE k = 0
      BY <2>1, <3>1 DEF InferredTo
    <3>2. CASE k \in 1 .. n
      <4>1. k - 1 \in 0 .. n /\ g[k - 1] = f[k - 1] /\ g[k] = f[k]
        BY <3>2
      <4>2. k \in 0 .. n /\ k # 0
        BY <3>2
      <4>3. f[k] = Infer(f[k - 1], cascades[k])
        BY <2>1, <4>2 DEF InferredTo
      <4>. QED  BY <3>2, <4>1, <4>3
    <3>3. CASE k = n + 1
      BY <3>3
    <3>. QED  BY <3>1, <3>2, <3>3
  <2>3. InferredTo(g, cov, cascades, n + 1)
    BY <2>2 DEF InferredTo
  <2>. QED  BY <2>3
<1>. HIDE DEF T
<1>3. Nat \subseteq T
  BY <1>1, <1>2, NumberInduction
<1>. QED  BY <1>3 DEF T

\* A sequence of coverages, each of which grows from the one before.
LEMMA ChainGrows ==
  ASSUME NEW n \in Nat, NEW f, IsCov(f[0]),
         \A k \in 1 .. n : IsCov(f[k - 1]) => Grows(f[k - 1], f[k])
  PROVE  Grows(f[0], f[n])
<1>. DEFINE T == {k \in Nat : k <= n => Grows(f[0], f[k])}
<1>1. 0 \in T
  BY GrowsReflexive
<1>2. ASSUME NEW k \in Nat, k \in T PROVE k + 1 \in T
  <2>. SUFFICES ASSUME k + 1 <= n PROVE Grows(f[0], f[k + 1])
    OBVIOUS
  <2>1. Grows(f[0], f[k])
    BY <1>2
  <2>2. IsCov(f[k])
    BY <2>1 DEF Grows
  <2>3. k + 1 \in 1 .. n /\ (k + 1) - 1 = k
    OBVIOUS
  <2>4. Grows(f[k], f[k + 1])
    BY <2>2, <2>3
  <2>. QED  BY <2>1, <2>4, GrowsTransitive
<1>. HIDE DEF T
<1>3. Nat \subseteq T
  BY <1>1, <1>2, NumberInduction
<1>. QED  BY <1>3 DEF T

LEMMA UpdatedGrows ==
  ASSUME NEW cov, IsCov(cov), NEW updates \in Seq(Updates)
  PROVE  Grows(cov, Updated(cov, updates))
<1>. DEFINE n == Len(updates)
            f == CHOOSE f : UpdatedTo(f, cov, updates, n)
<1>1. n \in Nat
  OBVIOUS
<1>2. UpdatedTo(f, cov, updates, n)
  BY <1>1, UpdatedExists
<1>3. Updated(cov, updates) = f[n]
  BY DEF Updated, UpdatedTo
<1>. HIDE DEF f, n
<1>4. f[0] = cov
  BY <1>1, <1>2 DEF UpdatedTo
<1>5. ASSUME NEW k \in 1 .. n, IsCov(f[k - 1]) PROVE Grows(f[k - 1], f[k])
  <2>1. k \in 0 .. n /\ k # 0
    OBVIOUS
  <2>2. f[k] = Update(f[k - 1], updates[k])
    BY <1>2, <2>1 DEF UpdatedTo
  <2>3. updates[k] \in Updates
    BY ElementOfSeq DEF n
  <2>. QED  BY <1>5, <2>2, <2>3, UpdateGrows
<1>6. Grows(f[0], f[n])
  BY <1>1, <1>4, <1>5, ChainGrows
<1>. QED  BY <1>3, <1>4, <1>6

LEMMA InferredGrows ==
  ASSUME NEW cov, IsCov(cov), NEW cascades, Len(cascades) \in Nat,
         \A k \in 1 .. Len(cascades) : cascades[k].weight \in Nat
  PROVE  Grows(cov, Inferred(cov, cascades))
<1>. DEFINE n == Len(cascades)
            f == CHOOSE f : InferredTo(f, cov, cascades, n)
<1>1. n \in Nat
  OBVIOUS
<1>2. InferredTo(f, cov, cascades, n)
  BY <1>1, InferredExists
<1>3. Inferred(cov, cascades) = f[n]
  BY DEF Inferred, InferredTo
<1>. HIDE DEF f, n
<1>4. f[0] = cov
  BY <1>1, <1>2 DEF InferredTo
<1>5. ASSUME NEW k \in 1 .. n, IsCov(f[k - 1]) PROVE Grows(f[k - 1], f[k])
  <2>1. k \in 0 .. n /\ k # 0
    OBVIOUS
  <2>2. f[k] = Infer(f[k - 1], cascades[k])
    BY <1>2, <2>1 DEF InferredTo
  <2>3. cascades[k].weight \in Nat
    BY DEF n
  <2>. QED  BY <1>5, <2>2, <2>3, InferGrows
<1>6. Grows(f[0], f[n])
  BY <1>1, <1>4, <1>5, ChainGrows
<1>. QED  BY <1>3, <1>4, <1>6

\* Whatever the model reports, no dimension is set back.
LEMMA AdvanceGrows ==
  ASSUME NEW domain, NEW dims, NEW cov, IsCov(cov), NEW updates \in Seq(Updates)
  PROVE  Grows(cov, Advance(domain, dims, cov, updates))
<1>. DEFINE after == Updated(cov, updates)
            resolves(u) == LET k == Place(after, u.id) IN
              k # 0 /\ after[k].conf >= Threshold /\ u.id \in ToSet(dims)
            entry(n) == IF resolves(updates[n]) THEN Cascade(domain, updates[n].id)
                                                ELSE NoCascade
            cascades == [n \in 1 .. Len(updates) |-> entry(n)]
<1>1. Grows(cov, after)
  BY UpdatedGrows
<1>2. Advance(domain, dims, cov, updates) = Inferred(after, cascades)
  BY DEF Advance
<1>. HIDE DEF after, resolves
<1>3. \A n \in 1 .. Len(updates) : entry(n).weight \in Nat
  BY CascadeWeight
<1>. HIDE DEF entry
<1>4. Len(updates) \in Nat
  OBVIOUS
<1>5. cascades \in Seq({entry(n) : n \in 1 .. Len(updates)})
  BY <1>4, SeqDef
<1>6. Len(cascades) = Len(updates)
  BY <1>4, <1>5, LenProperties
<1>7. \A k \in 1 .. Len(cascades) : cascades[k].weight \in Nat
  BY <1>3, <1>6
<1>8. IsCov(after)
  BY <1>1 DEF Grows
<1>. HIDE DEF cascades
<1>9. Grows(after, Inferred(after, cascades))
  BY <1>4, <1>6, <1>7, <1>8, InferredGrows
<1>. QED  BY <1>1, <1>2, <1>9, GrowsTransitive

-----------------------------------------------------------------------------
(* The interview: what is on file, and what the running command knows.     *)

AnswersOK(a) == a = None \/ a \in Answer

\* A session: its number, coverage, turns and answers.
SessionOK(s) ==
  /\ s.id \in Nat /\ s.id <= made
  /\ IsCov(s.cov) /\ s.turns \in Seq(Int)
  /\ AnswersOK(s.answers)

FileOK == Whole(file) => SessionOK(file)

\* The state of a command that runs.
Command(pc, id, domain, dims, cov, turns, complete, answers, extracted) ==
  [ pc |-> pc, id |-> id, domain |-> domain, dims |-> dims, cov |-> cov,
    turns |-> turns, complete |-> complete, answers |-> answers,
    extracted |-> extracted ]

CommandOK ==
  ivw.pc # "idle" =>
    /\ ivw = Command(ivw.pc, ivw.id, ivw.domain, ivw.dims, ivw.cov, ivw.turns,
               ivw.complete, ivw.answers, ivw.extracted)
    /\ SessionOK(ivw)
    /\ ivw.pc = "opening" => ivw.turns = <<>>
    /\ ivw.pc = "final" => ivw.extracted \in Answer

\* The command has gone on with the session on file, or has begun a newer one.
Ahead ==
  ivw.pc # "idle" /\ Whole(file) =>
    \/ file.id < ivw.id
    \/ /\ file.id = ivw.id
       /\ IsPrefix(file.turns, ivw.turns) /\ Grows(file.cov, ivw.cov)

AskedOnFile ==
  ivw.pc = "ask" => /\ Whole(file) /\ file.id = ivw.id
                    /\ file.turns = ivw.turns /\ file.cov = ivw.cov

InterviewInv ==
  /\ made \in Nat /\ said \in Nat
  /\ FileOK /\ CommandOK /\ Ahead /\ AskedOnFile

\* What a step may make of the file.
Forward ==
  Whole(file) /\ Whole(file') =>
    IF file'.id = file.id
      THEN /\ IsPrefix(file.turns, file'.turns)
           /\ \A k \in DOMAIN file.cov : file.cov[k].conf <= file'.cov[k].conf
      ELSE file'.id > file.id

-----------------------------------------------------------------------------
(* Turns.                                                                  *)

LEMMA PrefixIsPointwise ==
  ASSUME NEW s \in Seq(Int), NEW t \in Seq(Int)
  PROVE  IsPrefix(s, t) <=> /\ Len(s) <= Len(t)
                            /\ \A i \in 1 .. Len(s) : s[i] = t[i]
<1>1. Len(s) \in Nat /\ Len(t) \in Nat
  OBVIOUS
<1>2. CASE Len(s) <= Len(t)
  <2>1. /\ SubSeq(s, 1, Len(s)) \in Seq(Int) /\ SubSeq(t, 1, Len(s)) \in Seq(Int)
        /\ Len(SubSeq(s, 1, Len(s))) = Len(s) /\ Len(SubSeq(t, 1, Len(s))) = Len(s)
        /\ \A i \in 1 .. Len(s) : /\ SubSeq(s, 1, Len(s))[i] = s[i]
                                  /\ SubSeq(t, 1, Len(s))[i] = t[i]
    BY <1>1, <1>2, SubSeqProperties
  <2>2. IsPrefix(s, t) <=> SubSeq(s, 1, Len(s)) = SubSeq(t, 1, Len(s))
    BY <1>1, <1>2 DEF IsPrefix
  <2>3. SubSeq(s, 1, Len(s)) = SubSeq(t, 1, Len(s)) <=>
          \A i \in 1 .. Len(s) : s[i] = t[i]
    BY <2>1, SeqEqual
  <2>. QED  BY <1>2, <2>2, <2>3
<1>3. CASE ~(Len(s) <= Len(t))
  BY <1>1, <1>3 DEF IsPrefix
<1>. QED  BY <1>2, <1>3

LEMMA PrefixReflexive ==
  ASSUME NEW s \in Seq(Int)  PROVE IsPrefix(s, s)
BY PrefixIsPointwise

LEMMA PrefixTransitive ==
  ASSUME NEW r \in Seq(Int), NEW s \in Seq(Int), NEW t \in Seq(Int),
         IsPrefix(r, s), IsPrefix(s, t)
  PROVE  IsPrefix(r, t)
<1>1. Len(r) \in Nat /\ Len(s) \in Nat /\ Len(t) \in Nat
  OBVIOUS
<1>2. /\ Len(r) <= Len(s) /\ \A i \in 1 .. Len(r) : r[i] = s[i]
      /\ Len(s) <= Len(t) /\ \A i \in 1 .. Len(s) : s[i] = t[i]
  BY PrefixIsPointwise
<1>3. Len(r) <= Len(t) /\ \A i \in 1 .. Len(r) : r[i] = t[i]
  BY <1>1, <1>2
<1>. QED  BY <1>3, PrefixIsPointwise

LEMMA PrefixOfAppend ==
  ASSUME NEW s \in Seq(Int), NEW e \in Int
  PROVE  Append(s, e) \in Seq(Int) /\ IsPrefix(s, Append(s, e))
<1>1. Append(s, e) \in Seq(Int)
  OBVIOUS
<1>2. Len(s) <= Len(Append(s, e)) /\ \A i \in 1 .. Len(s) : s[i] = Append(s, e)[i]
  OBVIOUS
<1>. QED  BY <1>1, <1>2, PrefixIsPointwise

-----------------------------------------------------------------------------
(* Steps of the interview.                                                 *)

LEMMA SessionIsWhole ==
  ASSUME NEW i  PROVE Whole(Session(i))
<1>1. /\ DOMAIN Session(i) = {"id", "domain", "cov", "turns", "complete", "answers"}
      /\ DOMAIN None = {"none"} /\ DOMAIN Torn = {"torn"}
  BY DEF Session, None, Torn
<1>2. Session(i) # None
  BY <1>1
<1>3. Session(i) # Torn
  BY <1>1
<1>. QED  BY <1>2, <1>3 DEF Whole

LEMMA Fields ==
  ASSUME NEW i
  PROVE  /\ Session(i).id = i.id /\ Session(i).cov = i.cov
         /\ Session(i).turns = i.turns /\ Session(i).answers = i.answers
BY DEF Session

LEMMA CommandEnds ==
  ASSUME NEW p, NEW i, NEW d, NEW ds, NEW c, NEW t, NEW o, NEW a, NEW e, NEW q, NEW v,
         NEW next, next = Command(p, i, d, ds, c, t, o, a, e),
         NEW after, after = [next EXCEPT !.complete = v, !.pc = q]
  PROVE  after = Command(q, i, d, ds, c, t, v, a, e)
BY DEF Command

\* The command writes a session that has gone on from what it had.
LEMMA SavingIsForward ==
  ASSUME InterviewInv, ivw.pc # "idle", NEW i, SessionOK(i), made' = made,
         i.id = ivw.id, IsPrefix(ivw.turns, i.turns), Grows(ivw.cov, i.cov),
         file' = Session(i)
  PROVE  FileOK' /\ Forward
<1>1. /\ file'.id = i.id /\ file'.cov = i.cov
      /\ file'.turns = i.turns /\ file'.answers = i.answers
  BY Fields
<1>2. FileOK'
  BY <1>1 DEF FileOK, SessionOK
<1>3. SessionOK(ivw) /\ (Whole(file) => SessionOK(file))
  BY DEF InterviewInv, CommandOK, FileOK
<1>4. Forward
  <2>. SUFFICES ASSUME Whole(file), Whole(file')
                PROVE  IF file'.id = file.id
                         THEN /\ IsPrefix(file.turns, file'.turns)
                              /\ \A k \in DOMAIN file.cov :
                                   file.cov[k].conf <= file'.cov[k].conf
                         ELSE file'.id > file.id
    BY DEF Forward
  <2>1. file.id \in Nat /\ ivw.id \in Nat
    BY <1>3 DEF SessionOK
  <2>2. CASE file.id < ivw.id
    BY <1>1, <2>1, <2>2
  <2>3. CASE /\ file.id = ivw.id
             /\ IsPrefix(file.turns, ivw.turns) /\ Grows(file.cov, ivw.cov)
    <3>1. IsPrefix(file.turns, i.turns)
      BY <1>3, <2>3, PrefixTransitive DEF SessionOK
    <3>2. Grows(file.cov, i.cov)
      BY <1>3, <2>3, GrowsTransitive DEF SessionOK
    <3>. QED  BY <1>1, <2>3, <3>1, <3>2 DEF Grows
  <2>. QED  BY <2>2, <2>3 DEF InterviewInv, Ahead
<1>. QED  BY <1>2, <1>4

\* The file is left alone.
LEMMA StayingIsForward ==
  ASSUME InterviewInv, file' = file  PROVE Forward
<1>1. Whole(file) => SessionOK(file)
  BY DEF InterviewInv, FileOK
<1>2. Whole(file) => IsPrefix(file.turns, file.turns)
  BY <1>1, PrefixReflexive DEF SessionOK
<1>3. Whole(file) => \A k \in DOMAIN file.cov : file.cov[k].conf <= file.cov[k].conf
  BY <1>1 DEF SessionOK, IsCov
<1>. QED  BY <1>2, <1>3 DEF Forward

LEMMA FreshIsCov ==
  ASSUME NEW dims  PROVE IsCov(NotStarted(dims))
BY DEF IsCov, NotStarted

LEMMA OnboardKeeps ==
  ASSUME InterviewInv, NEW resume \in BOOLEAN, NEW depth, Onboard(resume, depth)
  PROVE  InterviewInv' /\ Forward
<1>. DEFINE kept == Resumes(resume) /\ ~file.complete
            dims == Dimensions(project.domain, depth)
            new == [ pc |-> IF kept THEN "ask" ELSE "opening",
                    id |-> IF kept THEN file.id ELSE made + 1,
                    domain |-> project.domain, dims |-> dims,
                    cov |-> IF kept THEN file.cov ELSE NotStarted(dims),
                    turns |-> IF kept THEN file.turns ELSE <<>>,
                    complete |-> FALSE,
                    answers |-> IF kept THEN file.answers ELSE None,
                    extracted |-> None ]
<1>1. /\ ivw' = new /\ made' = made + (IF kept THEN 0 ELSE 1)
      /\ file' = file /\ said' = said
      /\ Resumes(resume) => Whole(file)
  BY DEF Onboard
<1>2. made \in Nat /\ said \in Nat /\ (Whole(file) => SessionOK(file))
  BY DEF InterviewInv, FileOK
<1>3. Forward
  BY <1>1, StayingIsForward
<1>4. made' \in Nat /\ made <= made'
  BY <1>1, <1>2
<1>5. FileOK'
  BY <1>1, <1>2, <1>4 DEF FileOK, SessionOK
<1>6. CASE kept
  <2>1. Whole(file) /\ SessionOK(file)
    BY <1>1, <1>2, <1>6
  <2>2. /\ new.pc = "ask" /\ new.id = file.id /\ new.cov = file.cov
        /\ new.turns = file.turns /\ new.answers = file.answers
    BY <1>6
  <2>3. new = Command(new.pc, new.id, new.domain, new.dims, new.cov, new.turns,
               new.complete, new.answers, new.extracted)
    BY DEF Command
  <2>. HIDE DEF new
  <2>4. SessionOK(ivw)'
    BY <1>1, <1>2, <1>4, <2>1, <2>2 DEF SessionOK
  <2>5. CommandOK'
    BY <1>1, <2>2, <2>3, <2>4 DEF CommandOK
  <2>6. IsPrefix(file.turns, file.turns) /\ Grows(file.cov, file.cov)
    BY <2>1, PrefixReflexive, GrowsReflexive DEF SessionOK
  <2>7. Ahead' /\ AskedOnFile'
    BY <1>1, <2>1, <2>2, <2>6 DEF Ahead, AskedOnFile
  <2>. QED  BY <1>1, <1>2, <1>3, <1>4, <1>5, <2>5, <2>7 DEF InterviewInv
<1>7. CASE ~kept
  <2>1. /\ new.pc = "opening" /\ new.id = made + 1 /\ new.cov = NotStarted(dims)
        /\ new.turns = <<>> /\ new.answers = None
    BY <1>7
  <2>2. made' = made + 1
    BY <1>1, <1>2, <1>7
  <2>3. new = Command(new.pc, new.id, new.domain, new.dims, new.cov, new.turns,
               new.complete, new.answers, new.extracted)
    BY DEF Command
  <2>. HIDE DEF new
  <2>4. IsCov(NotStarted(dims)) /\ <<>> \in Seq(Int)
    BY FreshIsCov, EmptySeq
  <2>5. SessionOK(ivw)'
    BY <1>1, <1>2, <2>1, <2>2, <2>4 DEF SessionOK, AnswersOK
  <2>6. CommandOK'
    BY <1>1, <2>1, <2>3, <2>5 DEF CommandOK
  <2>7. Ahead' /\ AskedOnFile'
    BY <1>1, <1>2, <2>1 DEF Ahead, AskedOnFile, SessionOK
  <2>. QED  BY <1>1, <1>2, <1>3, <1>4, <1>5, <2>6, <2>7 DEF InterviewInv
<1>. QED  BY <1>6, <1>7

LEMMA TurnKeeps ==
  ASSUME InterviewInv, AnswerTurn \/ Skip  PROVE InterviewInv' /\ Forward
<1>1. PICK e \in Int : ivw' = [ivw EXCEPT !.pc = "reply", !.turns = Append(ivw.turns, e)]
  <2>1. CASE AnswerTurn
    <3>1. said' \in Int
      BY <2>1 DEF AnswerTurn, InterviewInv
    <3>. QED  BY <2>1, <3>1 DEF AnswerTurn
  <2>2. CASE Skip
    <3>1. Skipped \in Int
      BY DEF Skipped
    <3>. QED  BY <2>2, <3>1 DEF Skip
  <2>. QED  BY <2>1, <2>2
<1>2. /\ ivw.pc = "ask" /\ file' = file /\ made' = made
      /\ said' \in Nat
  BY DEF AnswerTurn, Skip, InterviewInv
<1>3. Forward
  BY <1>2, StayingIsForward
<1>4. SessionOK(ivw)
  BY <1>2 DEF InterviewInv, CommandOK
<1>5. Append(ivw.turns, e) \in Seq(Int) /\ IsPrefix(ivw.turns, Append(ivw.turns, e))
  BY <1>4, PrefixOfAppend DEF SessionOK
<1>6. ivw' = Command("reply", ivw.id, ivw.domain, ivw.dims, ivw.cov, Append(ivw.turns, e),
               ivw.complete, ivw.answers, ivw.extracted)
  BY <1>1, <1>2 DEF InterviewInv, CommandOK, Command
<1>7. /\ ivw'.pc = "reply" /\ ivw'.id = ivw.id /\ ivw'.cov = ivw.cov
      /\ ivw'.turns = Append(ivw.turns, e) /\ ivw'.answers = ivw.answers
  BY <1>6 DEF Command
<1>8. SessionOK(ivw)'
  BY <1>2, <1>4, <1>5, <1>7 DEF SessionOK
<1>9. CommandOK'
  BY <1>6, <1>7, <1>8 DEF CommandOK, Command
<1>10. Ahead' /\ AskedOnFile'
  <2>1. Whole(file) /\ file.id = ivw.id /\ file.turns = ivw.turns /\ file.cov = ivw.cov
    BY <1>2 DEF InterviewInv, AskedOnFile
  <2>2. Grows(ivw.cov, ivw.cov)
    BY <1>4, GrowsReflexive DEF SessionOK
  <2>. QED  BY <1>2, <1>5, <1>7, <2>1, <2>2 DEF Ahead, AskedOnFile
<1>11. FileOK'
  BY <1>2 DEF InterviewInv, FileOK, SessionOK
<1>. QED  BY <1>2, <1>3, <1>9, <1>10, <1>11 DEF InterviewInv

LEMMA IdleKeeps ==
  ASSUME InterviewInv, ivw' = Idle, made' = made, said' = said, FileOK'
  PROVE  InterviewInv'
<1>1. ivw'.pc = "idle"
  BY DEF Idle
<1>. QED  BY <1>1 DEF InterviewInv, CommandOK, Ahead, AskedOnFile

LEMMA QuitKeeps ==
  ASSUME InterviewInv, Quit  PROVE InterviewInv' /\ Forward
<1>1. file' = file /\ made' = made /\ said' = said /\ ivw' = Idle
  BY DEF Quit
<1>2. FileOK'
  BY <1>1 DEF InterviewInv, FileOK, SessionOK
<1>. QED  BY <1>1, <1>2, IdleKeeps, StayingIsForward

LEMMA TearKeeps ==
  ASSUME InterviewInv, Tear  PROVE InterviewInv' /\ Forward
<1>1. file' = Torn /\ made' = made /\ said' = said /\ ivw' = Idle
  BY DEF Tear
<1>2. ~Whole(file')
  BY <1>1 DEF Whole
<1>3. FileOK' /\ Forward
  BY <1>2 DEF FileOK, Forward
<1>. QED  BY <1>1, <1>3, IdleKeeps

\* A reply: the session grows, is saved, and the command goes on or ends.
LEMMA RepliedKeeps ==
  ASSUME InterviewInv, ivw.pc \in {"opening", "reply"},
         NEW r \in Replies, NEW turns \in Seq(Int), IsPrefix(ivw.turns, turns),
         NEW cov, cov = Advance(ivw.domain, ivw.dims, ivw.cov, r.updates),
         NEW before, NEW next,
         next = Command(before, ivw.id, ivw.domain, ivw.dims, cov, turns,
                        ivw.complete, ivw.answers, ivw.extracted),
         NEW pc \in {"ask", "extract"}, NEW over,
         file' = Session(next),
         ivw' = Command(pc, ivw.id, ivw.domain, ivw.dims, cov, turns,
                        over, ivw.answers, ivw.extracted),
         made' = made, said' = said
  PROVE  InterviewInv' /\ Forward
<1>1. SessionOK(ivw)
  BY DEF InterviewInv, CommandOK
<1>2. Grows(ivw.cov, cov)
  <2>1. r.updates \in Seq(Updates)
    BY InterviewAssumption
  <2>. QED  BY <1>1, <2>1, AdvanceGrows DEF SessionOK
<1>5. /\ next.id = ivw.id /\ next.cov = cov /\ next.turns = turns
      /\ next.answers = ivw.answers
  BY DEF Command
<1>6. /\ ivw'.pc = pc /\ ivw'.id = ivw.id /\ ivw'.domain = ivw.domain
      /\ ivw'.dims = ivw.dims /\ ivw'.cov = cov /\ ivw'.turns = turns
      /\ ivw'.complete = over /\ ivw'.answers = ivw.answers
      /\ ivw'.extracted = ivw.extracted
  BY DEF Command
<1>7. SessionOK(next)
  BY <1>1, <1>2, <1>5 DEF SessionOK, Grows
<1>8. FileOK' /\ Forward
  BY <1>2, <1>5, <1>7, SavingIsForward
<1>9. SessionOK(ivw)'
  BY <1>1, <1>2, <1>6 DEF SessionOK, Grows
<1>10. CommandOK'
  BY <1>6, <1>9 DEF CommandOK
<1>11. /\ Whole(file') /\ file'.id = ivw.id /\ file'.cov = cov /\ file'.turns = turns
  BY <1>5, SessionIsWhole, Fields
<1>12. IsPrefix(turns, turns) /\ Grows(cov, cov)
  BY <1>2, PrefixReflexive, GrowsReflexive DEF Grows
<1>13. Ahead' /\ AskedOnFile'
  BY <1>6, <1>11, <1>12 DEF Ahead, AskedOnFile
<1>. QED  BY <1>8, <1>10, <1>13 DEF InterviewInv

LEMMA OpeningKeeps ==
  ASSUME InterviewInv, Opening  PROVE InterviewInv' /\ Forward
<1>1. PICK r \in Replies :
        LET next == [ivw EXCEPT !.pc = "ask", !.turns = <<Question>>,
                      !.cov = Advance(ivw.domain, ivw.dims, ivw.cov, r.updates)]
        IN ivw' = next /\ file' = Session(next)
  BY DEF Opening, RepliesTo
<1>2. PICK cov : cov = Advance(ivw.domain, ivw.dims, ivw.cov, r.updates)
  OBVIOUS
<1>3. ivw.pc = "opening" /\ made' = made /\ said' = said
  BY DEF Opening
<1>4. ivw.turns = <<>> /\ <<Question>> \in Seq(Int) /\ <<>> \in Seq(Int)
  BY <1>3 DEF InterviewInv, CommandOK, Question
<1>5. IsPrefix(ivw.turns, <<Question>>)
  <2>1. Len(<<>>) = 0 /\ Len(<<Question>>) = 1
    OBVIOUS
  <2>2. Len(<<>>) <= Len(<<Question>>) /\ \A i \in 1 .. Len(<<>>) : <<>>[i] = <<Question>>[i]
    BY <2>1
  <2>. QED  BY <1>4, <2>2, PrefixIsPointwise
<1>6. PICK turns \in Seq(Int) : turns = <<Question>> /\ IsPrefix(ivw.turns, turns)
  BY <1>4, <1>5
<1>7. PICK next : next = [ivw EXCEPT !.pc = "ask", !.turns = turns, !.cov = cov]
  OBVIOUS
<1>8. ivw' = next /\ file' = Session(next)
  BY <1>1, <1>2, <1>6, <1>7
<1>9. next = Command("ask", ivw.id, ivw.domain, ivw.dims, cov, turns,
                     ivw.complete, ivw.answers, ivw.extracted)
  BY <1>3, <1>7 DEF InterviewInv, CommandOK, Command
<1>10. /\ ivw' = Command("ask", ivw.id, ivw.domain, ivw.dims, cov, turns,
                        ivw.complete, ivw.answers, ivw.extracted)
       /\ ivw.pc \in {"opening", "reply"}
  BY <1>3, <1>8, <1>9
<1>. QED  BY <1>2, <1>3, <1>6, <1>8, <1>9, <1>10, RepliedKeeps

LEMMA ReplyKeeps ==
  ASSUME InterviewInv, Reply  PROVE InterviewInv' /\ Forward
<1>1. PICK r \in Replies :
        LET cov == Advance(ivw.domain, ivw.dims, ivw.cov, r.updates)
            over == r.complete \/ AllDimensionsCovered(cov)
            next == [ivw EXCEPT !.cov = cov, !.turns = Append(ivw.turns, Question)]
        IN /\ file' = Session(next)
           /\ ivw' = [next EXCEPT !.complete = over,
                                  !.pc = IF over THEN "extract" ELSE "ask"]
  BY DEF Reply, RepliesTo
<1>2. ivw.pc = "reply" /\ made' = made /\ said' = said
  BY DEF Reply
<1>3. PICK cov : cov = Advance(ivw.domain, ivw.dims, ivw.cov, r.updates)
  OBVIOUS
<1>4. PICK next, over, pc :
        /\ next = [ivw EXCEPT !.cov = cov, !.turns = Append(ivw.turns, Question)]
        /\ pc \in {"ask", "extract"} /\ file' = Session(next)
        /\ ivw' = [next EXCEPT !.complete = over, !.pc = pc]
  BY <1>1, <1>3
<1>6. ivw.turns \in Seq(Int) /\ Question \in Int
  BY <1>2 DEF InterviewInv, CommandOK, SessionOK, Question
<1>7. PICK turns \in Seq(Int) : turns = Append(ivw.turns, Question) /\ IsPrefix(ivw.turns, turns)
  BY <1>6, PrefixOfAppend
<1>8. next = [ivw EXCEPT !.cov = cov, !.turns = turns]
  BY <1>4, <1>7
<1>9. PICK after : after = [next EXCEPT !.complete = over, !.pc = pc]
  OBVIOUS
<1>10. file' = Session(next) /\ ivw' = after
  BY <1>4, <1>9
<1>11. next = Command("reply", ivw.id, ivw.domain, ivw.dims, cov, turns,
                      ivw.complete, ivw.answers, ivw.extracted)
  BY <1>2, <1>8 DEF InterviewInv, CommandOK, Command
<1>12. after = Command(pc, ivw.id, ivw.domain, ivw.dims, cov, turns,
                       over, ivw.answers, ivw.extracted)
  <2>1. PICK i, d, ds, o, a, e :
          /\ i = ivw.id /\ d = ivw.domain /\ ds = ivw.dims
          /\ o = ivw.complete /\ a = ivw.answers /\ e = ivw.extracted
    OBVIOUS
  <2>2. next = Command("reply", i, d, ds, cov, turns, o, a, e)
    BY <1>11, <2>1
  <2>3. after = Command(pc, i, d, ds, cov, turns, over, a, e)
    BY <1>9, <2>2 DEF Command
  <2>. QED  BY <2>1, <2>3
<1>13. /\ ivw' = Command(pc, ivw.id, ivw.domain, ivw.dims, cov, turns,
                        over, ivw.answers, ivw.extracted)
       /\ ivw.pc \in {"opening", "reply"} /\ pc \in {"ask", "extract"}
  BY <1>2, <1>4, <1>10, <1>12
<1>. QED  BY <1>2, <1>3, <1>7, <1>10, <1>11, <1>13, RepliedKeeps

\* The command writes what it has, and ends or knows the answers.
LEMMA SavedKeeps ==
  ASSUME InterviewInv, ivw.pc # "idle", NEW answers, AnswersOK(answers),
         file' = Session([ivw EXCEPT !.answers = answers]), made' = made
  PROVE  /\ FileOK' /\ Forward
         /\ Whole(file') /\ file'.id = ivw.id /\ file'.turns = ivw.turns
         /\ file'.cov = ivw.cov
<1>1. SessionOK(ivw)
  BY DEF InterviewInv, CommandOK
<1>2. PICK next : next = [ivw EXCEPT !.answers = answers]
  OBVIOUS
<1>3. /\ next.id = ivw.id /\ next.cov = ivw.cov /\ next.turns = ivw.turns
      /\ next.answers = answers
  BY <1>2 DEF InterviewInv, CommandOK, Command
<1>4. SessionOK(next)
  BY <1>1, <1>3 DEF SessionOK
<1>5. IsPrefix(ivw.turns, next.turns) /\ Grows(ivw.cov, next.cov)
  BY <1>1, <1>3, PrefixReflexive, GrowsReflexive DEF SessionOK
<1>6. file' = Session(next)
  BY <1>2
<1>7. FileOK' /\ Forward
  BY <1>3, <1>4, <1>5, <1>6, SavingIsForward
<1>8. Whole(file')
  BY <1>6, SessionIsWhole
<1>9. file'.id = ivw.id /\ file'.turns = ivw.turns /\ file'.cov = ivw.cov
  BY <1>3, <1>6, Fields
<1>. QED  BY <1>7, <1>8, <1>9

LEMMA FinishKeeps ==
  ASSUME InterviewInv, Finish  PROVE InterviewInv' /\ Forward
<1>1. /\ file' = Session([ivw EXCEPT !.answers = ivw.extracted]) /\ ivw.pc # "idle"
      /\ ivw' = Idle /\ made' = made /\ said' = said
  BY DEF Finish
<1>2. AnswersOK(ivw.extracted)
  BY DEF Finish, InterviewInv, CommandOK, AnswersOK
<1>3. FileOK' /\ Forward
  BY <1>1, <1>2, SavedKeeps
<1>. QED  BY <1>1, <1>3, IdleKeeps

\* No model is needed for the answers that stand for none.
LEMMA NoneIsAnAnswer == EmptyAnswers \in Answer
BY DEF EmptyAnswers, Answer, Level

LEMMA EndingKeeps ==
  ASSUME InterviewInv, Save \/ Extract  PROVE InterviewInv' /\ Forward
<1>1. PICK a \in Answer : ivw' = [ivw EXCEPT !.pc = "final", !.extracted = a]
  BY NoneIsAnAnswer, InterviewAssumption DEF Save, Extract
<1>2. /\ ivw.pc # "idle" /\ file' = Session(ivw) /\ made' = made /\ said' = said
  BY DEF Save, Extract
<1>3. SessionOK(ivw)
  BY <1>2 DEF InterviewInv, CommandOK
<1>4. ivw = [ivw EXCEPT !.answers = ivw.answers]
  BY <1>2 DEF InterviewInv, CommandOK, Command
<1>5. AnswersOK(ivw.answers) /\ file' = Session([ivw EXCEPT !.answers = ivw.answers])
  BY <1>2, <1>3, <1>4 DEF SessionOK
<1>6. /\ FileOK' /\ Forward
      /\ Whole(file') /\ file'.id = ivw.id /\ file'.turns = ivw.turns
      /\ file'.cov = ivw.cov
  BY <1>2, <1>5, SavedKeeps
<1>7. ivw' = Command("final", ivw.id, ivw.domain, ivw.dims, ivw.cov, ivw.turns,
               ivw.complete, ivw.answers, a)
  BY <1>1, <1>2 DEF InterviewInv, CommandOK, Command
<1>8. /\ ivw'.pc = "final" /\ ivw'.id = ivw.id /\ ivw'.cov = ivw.cov
      /\ ivw'.turns = ivw.turns /\ ivw'.answers = ivw.answers /\ ivw'.extracted = a
  BY <1>7 DEF Command
<1>9. SessionOK(ivw)'
  BY <1>2, <1>3, <1>8 DEF SessionOK
<1>10. CommandOK'
  BY <1>7, <1>8, <1>9 DEF CommandOK, Command
<1>11. IsPrefix(ivw.turns, ivw.turns) /\ Grows(ivw.cov, ivw.cov)
  BY <1>3, PrefixReflexive, GrowsReflexive DEF SessionOK
<1>12. Ahead' /\ AskedOnFile'
  BY <1>6, <1>8, <1>11 DEF Ahead, AskedOnFile
<1>. QED  BY <1>2, <1>6, <1>10, <1>12 DEF InterviewInv

LEMMA OtherKeeps ==
  ASSUME InterviewInv, UNCHANGED <<file, ivw, made, said>>  PROVE InterviewInv' /\ Forward
<1>1. Forward
  BY StayingIsForward
<1>2. InterviewInv'
  BY DEF InterviewInv, FileOK, CommandOK, Ahead, AskedOnFile, SessionOK
<1>. QED  BY <1>1, <1>2

LEMMA InterviewStep ==
  ASSUME InterviewInv, [Next]_vars  PROVE InterviewInv' /\ Forward
<1>1. CASE InterviewNext
  <2>1. CASE \E resume \in BOOLEAN, depth \in {project.depth, "operator"} :
               Onboard(resume, depth)
    BY <2>1, OnboardKeeps
  <2>2. CASE AnswerTurn \/ Skip
    BY <2>2, TurnKeeps
  <2>. QED
    BY <1>1, <2>1, <2>2, OpeningKeeps, EndingKeeps, ReplyKeeps, FinishKeeps, QuitKeeps,
       TearKeeps DEF InterviewNext
<1>2. CASE UNCHANGED interviewVars
  BY <1>2, OtherKeeps DEF interviewVars
<1>3. CASE Edit
  BY <1>3, OtherKeeps DEF Edit, ChangeDomain
<1>. QED  BY <1>1, <1>2, <1>3 DEF Next, CompileNext, vars, interviewVars

LEMMA InterviewStart == Init => InterviewInv
<1>. SUFFICES ASSUME Init PROVE InterviewInv
  OBVIOUS
<1>1. file = None /\ ivw = Idle /\ said = 0 /\ made = 0
  BY DEF Init, InterviewInit
<1>2. ~Whole(file) /\ ivw.pc = "idle"
  BY <1>1 DEF Whole, Idle
<1>. QED  BY <1>1, <1>2 DEF InterviewInv, FileOK, CommandOK, Ahead, AskedOnFile

\* No step takes an answer that is on file away.
THEOREM AnswersStay == Spec => AnswersSurvive
<1>1. InterviewInv /\ [Next]_vars => InterviewInv'
  BY InterviewStep
<1>2. InterviewInv /\ [Next]_vars =>
        [ /\ Whole(file) /\ Whole(file') =>
           IF file'.id = file.id
             THEN /\ IsPrefix(file.turns, file'.turns)
                  /\ \A k \in DOMAIN file.cov :
                       file.cov[k].conf <= file'.cov[k].conf
             ELSE file'.id > file.id
          /\ ivw'.pc = "ask" =>
           /\ Whole(file') /\ file'.id = ivw'.id
           /\ file'.turns = ivw'.turns /\ file'.cov = ivw'.cov ]_interviewVars
  <2>. SUFFICES ASSUME InterviewInv, [Next]_vars
                PROVE  /\ Forward
                       /\ ivw'.pc = "ask" =>
                            /\ Whole(file') /\ file'.id = ivw'.id
                            /\ file'.turns = ivw'.turns /\ file'.cov = ivw'.cov
    BY DEF Forward
  <2>1. InterviewInv' /\ Forward
    BY InterviewStep
  <2>2. AskedOnFile'
    BY <2>1 DEF InterviewInv
  <2>. QED  BY <2>1, <2>2 DEF AskedOnFile
<1>. QED  BY <1>1, <1>2, InterviewStart, PTL DEF Spec, AnswersSurvive

-----------------------------------------------------------------------------
(* The playbooks that are shipped.                                         *)

\* A step takes inputs of the playbook, or what it is given, and calls a skill.
Takes(step, inputs, skills, given) ==
  /\ step.uses \subseteq inputs \cup given
  /\ step.skill \in skills \cup {NoSkill}

LEMMA ThreeSteps ==
  ASSUME NEW p, NEW skills, NEW a, NEW b, NEW c,
         p.steps = <<a, b, c>>,
         Takes(a, p.inputs, skills, {}),
         Takes(b, p.inputs, skills, a.gives),
         Takes(c, p.inputs, skills, a.gives \cup b.gives)
  PROVE  Runnable(p, skills)
<1>1. /\ DOMAIN p.steps = 1 .. 3
      /\ p.steps[1] = a /\ p.steps[2] = b /\ p.steps[3] = c
  OBVIOUS
<1>2. UNION {p.steps[m].gives : m \in 1 .. 1 - 1} = {}
  BY <1>1
<1>3. UNION {p.steps[m].gives : m \in 1 .. 2 - 1} = a.gives
  BY <1>1
<1>4. UNION {p.steps[m].gives : m \in 1 .. 3 - 1} = a.gives \cup b.gives
  BY <1>1
<1>. QED  BY <1>1, <1>2, <1>3, <1>4 DEF Runnable, Takes

LEMMA FourSteps ==
  ASSUME NEW p, NEW skills, NEW a, NEW b, NEW c, NEW d,
         p.steps = <<a, b, c, d>>,
         Takes(a, p.inputs, skills, {}),
         Takes(b, p.inputs, skills, a.gives),
         Takes(c, p.inputs, skills, a.gives \cup b.gives),
         Takes(d, p.inputs, skills, a.gives \cup b.gives \cup c.gives)
  PROVE  Runnable(p, skills)
<1>1. /\ DOMAIN p.steps = 1 .. 4
      /\ p.steps[1] = a /\ p.steps[2] = b /\ p.steps[3] = c /\ p.steps[4] = d
  OBVIOUS
<1>2. UNION {p.steps[m].gives : m \in 1 .. 1 - 1} = {}
  BY <1>1
<1>3. UNION {p.steps[m].gives : m \in 1 .. 2 - 1} = a.gives
  BY <1>1
<1>4. UNION {p.steps[m].gives : m \in 1 .. 3 - 1} = a.gives \cup b.gives
  BY <1>1
<1>5. UNION {p.steps[m].gives : m \in 1 .. 4 - 1} = a.gives \cup b.gives \cup c.gives
  BY <1>1
<1>. QED  BY <1>1, <1>2, <1>3, <1>4, <1>5 DEF Runnable, Takes

LEMMA FiveSteps ==
  ASSUME NEW p, NEW skills, NEW a, NEW b, NEW c, NEW d, NEW e,
         p.steps = <<a, b, c, d, e>>,
         Takes(a, p.inputs, skills, {}),
         Takes(b, p.inputs, skills, a.gives),
         Takes(c, p.inputs, skills, a.gives \cup b.gives),
         Takes(d, p.inputs, skills, a.gives \cup b.gives \cup c.gives),
         Takes(e, p.inputs, skills, a.gives \cup b.gives \cup c.gives \cup d.gives)
  PROVE  Runnable(p, skills)
<1>1. /\ DOMAIN p.steps = 1 .. 5
      /\ p.steps[1] = a /\ p.steps[2] = b /\ p.steps[3] = c /\ p.steps[4] = d /\ p.steps[5] = e
  OBVIOUS
<1>2. UNION {p.steps[m].gives : m \in 1 .. 1 - 1} = {}
  BY <1>1
<1>3. UNION {p.steps[m].gives : m \in 1 .. 2 - 1} = a.gives
  BY <1>1
<1>4. UNION {p.steps[m].gives : m \in 1 .. 3 - 1} = a.gives \cup b.gives
  BY <1>1
<1>5. UNION {p.steps[m].gives : m \in 1 .. 4 - 1} = a.gives \cup b.gives \cup c.gives
  BY <1>1
<1>6. UNION {p.steps[m].gives : m \in 1 .. 5 - 1} = a.gives \cup b.gives \cup c.gives \cup d.gives
  BY <1>1
<1>. QED  BY <1>1, <1>2, <1>3, <1>4, <1>5, <1>6 DEF Runnable, Takes

LEMMA SixSteps ==
  ASSUME NEW p, NEW skills, NEW a, NEW b, NEW c, NEW d, NEW e, NEW f,
         p.steps = <<a, b, c, d, e, f>>,
         Takes(a, p.inputs, skills, {}),
         Takes(b, p.inputs, skills, a.gives),
         Takes(c, p.inputs, skills, a.gives \cup b.gives),
         Takes(d, p.inputs, skills, a.gives \cup b.gives \cup c.gives),
         Takes(e, p.inputs, skills, a.gives \cup b.gives \cup c.gives \cup d.gives),
         Takes(f, p.inputs, skills, a.gives \cup b.gives \cup c.gives \cup d.gives \cup e.gives)
  PROVE  Runnable(p, skills)
<1>1. /\ DOMAIN p.steps = 1 .. 6
      /\ p.steps[1] = a /\ p.steps[2] = b /\ p.steps[3] = c /\ p.steps[4] = d /\ p.steps[5] = e /\ p.steps[6] = f
  OBVIOUS
<1>2. UNION {p.steps[m].gives : m \in 1 .. 1 - 1} = {}
  BY <1>1
<1>3. UNION {p.steps[m].gives : m \in 1 .. 2 - 1} = a.gives
  BY <1>1
<1>4. UNION {p.steps[m].gives : m \in 1 .. 3 - 1} = a.gives \cup b.gives
  BY <1>1
<1>5. UNION {p.steps[m].gives : m \in 1 .. 4 - 1} = a.gives \cup b.gives \cup c.gives
  BY <1>1
<1>6. UNION {p.steps[m].gives : m \in 1 .. 5 - 1} = a.gives \cup b.gives \cup c.gives \cup d.gives
  BY <1>1
<1>7. UNION {p.steps[m].gives : m \in 1 .. 6 - 1} = a.gives \cup b.gives \cup c.gives \cup d.gives \cup e.gives
  BY <1>1
<1>. QED  BY <1>1, <1>2, <1>3, <1>4, <1>5, <1>6, <1>7 DEF Runnable, Takes

\* A sequence literal with one more element.
LEMMA OneMore ==
  ASSUME NEW S, NEW s \in Seq(S), NEW c \in S, NEW t, t = <<c>>, NEW u \in Seq(S),
         Len(u) = Len(s) + 1, \A i \in 1 .. Len(s) : u[i] = s[i], u[Len(s) + 1] = c
  PROVE  s \o t = u
<1>1. t \in Seq(S) /\ Len(t) = 1 /\ t[1] = c
  OBVIOUS
<1>2. /\ s \o t \in Seq(S) /\ Len(s \o t) = Len(s) + Len(t)
      /\ \A i \in 1 .. Len(s) + Len(t) :
           (s \o t)[i] = IF i <= Len(s) THEN s[i] ELSE t[i - Len(s)]
  BY <1>1, ConcatProperties
<1>3. \A i \in 1 .. Len(u) : (s \o t)[i] = u[i]
  BY <1>1, <1>2
<1>. QED  BY <1>1, <1>2, <1>3, SeqEqual

LEMMA TwoAndOne ==
  ASSUME NEW a, NEW b, NEW c
  PROVE  <<a, b>> \o <<c>> = <<a, b, c>>
<1>1. PICK S : S = {a, b, c}
  OBVIOUS
<1>2. <<a, b>> \in Seq(S) /\ <<a, b, c>> \in Seq(S)
  BY <1>1
<1>3. PICK s \in Seq(S), u \in Seq(S) : s = <<a, b>> /\ u = <<a, b, c>>
  BY <1>2
<1>4. PICK t : t = <<c>>
  OBVIOUS
<1>5. Len(u) = Len(s) + 1 /\ u[Len(s) + 1] = c /\ \A i \in 1 .. Len(s) : u[i] = s[i]
  BY <1>3
<1>6. s \o t = u
  BY <1>1, <1>4, <1>5, OneMore
<1>. QED  BY <1>3, <1>4, <1>6

LEMMA ThreeAndOne ==
  ASSUME NEW a, NEW b, NEW c, NEW d
  PROVE  <<a, b, c>> \o <<d>> = <<a, b, c, d>>
<1>1. PICK S : S = {a, b, c, d}
  OBVIOUS
<1>2. <<a, b, c>> \in Seq(S) /\ <<a, b, c, d>> \in Seq(S)
  BY <1>1
<1>3. PICK s \in Seq(S), u \in Seq(S) : s = <<a, b, c>> /\ u = <<a, b, c, d>>
  BY <1>2
<1>4. PICK t : t = <<d>>
  OBVIOUS
<1>5. Len(u) = Len(s) + 1 /\ u[Len(s) + 1] = d /\ \A i \in 1 .. Len(s) : u[i] = s[i]
  BY <1>3
<1>6. s \o t = u
  BY <1>1, <1>4, <1>5, OneMore
<1>. QED  BY <1>3, <1>4, <1>6

LEMMA ContentPlaybooks ==
  ASSUME NEW careful
  PROVE  \A k \in DOMAIN Playbooks("content", careful) :
           Runnable(Playbooks("content", careful)[k], Ids(Skills("content")))
<1>. DEFINE skills == Ids(Skills("content"))
<1>1. {"research-trends", "generate-post-options"} \subseteq skills
  BY DEF Ids, Skills, ResearchTrends, GeneratePostOptions, Skill
<1>. HIDE DEF skills
<1>2. Runnable(SimplePost, skills)
  BY <1>1, FourSteps DEF SimplePost, Playbook, Step, Call, Gate, Takes
<1>3. Runnable(ResearchAndPost, skills)
  BY <1>1, FiveSteps DEF ResearchAndPost, Playbook, Step, Call, Gate, Takes
<1>4. Runnable(ContentCalendar, skills)
  BY <1>1, FourSteps DEF ContentCalendar, Playbook, Step, Call, Gate, Takes
<1>. QED  BY <1>2, <1>3, <1>4 DEF Playbooks, skills

LEMMA ResearchPlaybooks ==
  ASSUME NEW careful
  PROVE  \A k \in DOMAIN Playbooks("research", careful) :
           Runnable(Playbooks("research", careful)[k], Ids(Skills("research")))
<1>. DEFINE skills == Ids(Skills("research"))
<1>1. "web-research" \in skills
  BY DEF Ids, Skills, WebResearch, CompetitiveAnalysis, Skill
<1>. HIDE DEF skills
<1>2. Runnable(QuickLookup, skills)
  BY <1>1, ThreeSteps DEF QuickLookup, Playbook, Step, Call, Gate, Takes
<1>3. Runnable(DeepDiveAnalysis, skills)
  BY <1>1, SixSteps DEF DeepDiveAnalysis, Playbook, Step, Call, Gate, Takes
<1>. QED  BY <1>2, <1>3 DEF Playbooks, skills

LEMMA SalesPlaybooks ==
  ASSUME NEW careful
  PROVE  \A k \in DOMAIN Playbooks("sales", careful) :
           Runnable(Playbooks("sales", careful)[k], Ids(Skills("sales")))
<1>. DEFINE skills == Ids(Skills("sales"))
<1>1. {"lead-qualification", "outreach-email"} \subseteq skills
  BY DEF Ids, Skills, LeadQualification, OutreachEmail, Skill
<1>. HIDE DEF skills
<1>2. Runnable(LeadOutreach, skills)
  BY <1>1, FiveSteps DEF LeadOutreach, Playbook, Step, Call, Gate, Takes
<1>3. Runnable(ProposalWorkflow, skills)
  BY <1>1, FourSteps DEF ProposalWorkflow, Playbook, Step, Call, Gate, Takes
<1>. QED  BY <1>2, <1>3 DEF Playbooks, skills

LEMMA SupportPlaybooks ==
  ASSUME NEW careful
  PROVE  \A k \in DOMAIN Playbooks("support", careful) :
           Runnable(Playbooks("support", careful)[k], Ids(Skills("support")))
<1>. DEFINE skills == Ids(Skills("support"))
<1>1. {"ticket-triage", "response-draft"} \subseteq skills
  BY DEF Ids, Skills, TicketTriage, ResponseDraft, Skill
<1>. HIDE DEF skills
<1>2. Runnable(StandardTicket, skills)
  BY <1>1, FiveSteps DEF StandardTicket, Playbook, Step, Call, Gate, Takes
<1>3. Runnable(EscalationWorkflow, skills)
  BY <1>1, FiveSteps DEF EscalationWorkflow, Playbook, Step, Call, Gate, Takes
<1>. QED  BY <1>2, <1>3 DEF Playbooks, skills

LEMMA GeneralPlaybooks ==
  ASSUME NEW careful
  PROVE  \A k \in DOMAIN Playbooks("general", careful) :
           Runnable(Playbooks("general", careful)[k], Ids(Skills("general")))
<1>. DEFINE skills == Ids(Skills("general"))
<1>1. {"context-synthesis", "task-orchestration"} \subseteq skills
  BY DEF Ids, Skills, ContextSynthesis, TaskOrchestration, Skill
<1>. HIDE DEF skills
<1>2. Runnable(GeneralTaskExecution, skills)
  BY <1>1, FiveSteps DEF GeneralTaskExecution, Playbook, Step, Call, Gate, Takes
<1>3. Runnable(ResearchThenAct, skills)
  BY <1>1, FourSteps DEF ResearchThenAct, Playbook, Step, Call, Gate, Takes
<1>. QED  BY <1>2, <1>3 DEF Playbooks, skills

\* The playbook of a domain that has none of its own calls no skill.
LEMMA GenericRuns ==
  ASSUME NEW careful, NEW skills
  PROVE  Runnable(GenericPlaybook(careful), skills)
<1>1. PICK a, b, c :
        /\ a = Step({}, {"task_analysis"}) /\ b = Step({}, {"task_result"})
        /\ c = Gate({}, {"approved_result"})
  OBVIOUS
<1>2. CASE careful
  <2>1. PICK d : d = Step({"approved_result"}, {"final_output"})
    OBVIOUS
  <2>2. <<a, b>> \o <<c>> = <<a, b, c>> /\ <<a, b, c>> \o <<d>> = <<a, b, c, d>>
    BY TwoAndOne, ThreeAndOne
  <2>3. GenericPlaybook(careful) =
          Playbook("general-task", {"task", "context"}, <<a, b>> \o <<c>> \o <<d>>)
    BY <1>1, <1>2, <2>1 DEF GenericPlaybook
  <2>4. PICK p : p = Playbook("general-task", {"task", "context"}, <<a, b, c, d>>)
    OBVIOUS
  <2>5. p.steps = <<a, b, c, d>> /\ p.inputs = {"task", "context"}
    BY <2>4 DEF Playbook
  <2>6. Runnable(p, skills)
    BY <1>1, <2>1, <2>5, FourSteps DEF Step, Gate, Takes
  <2>. QED  BY <2>2, <2>3, <2>4, <2>6
<1>3. CASE ~careful
  <2>1. PICK d : d = Step({"task_result"}, {"final_output"})
    OBVIOUS
  <2>2. <<a, b>> \o <<>> = <<a, b>> /\ <<a, b>> \o <<d>> = <<a, b, d>>
    <3>1. <<a, b>> \in Seq({a, b})
      OBVIOUS
    <3>. QED  BY <3>1, ConcatEmptySeq, TwoAndOne
  <2>3. GenericPlaybook(careful) =
          Playbook("general-task", {"task", "context"}, <<a, b>> \o <<>> \o <<d>>)
    BY <1>1, <1>3, <2>1 DEF GenericPlaybook
  <2>4. PICK p : p = Playbook("general-task", {"task", "context"}, <<a, b, d>>)
    OBVIOUS
  <2>5. p.steps = <<a, b, d>> /\ p.inputs = {"task", "context"}
    BY <2>4 DEF Playbook
  <2>6. Runnable(p, skills)
    BY <1>1, <2>1, <2>5, ThreeSteps DEF Step, Takes
  <2>. QED  BY <2>2, <2>3, <2>4, <2>6
<1>. QED  BY <1>2, <1>3

\* Every playbook that is compiled for a domain runs with the domain's skills.
LEMMA PlaybooksRun ==
  ASSUME NEW domain, NEW careful
  PROVE  \A k \in DOMAIN Playbooks(domain, careful) :
           Runnable(Playbooks(domain, careful)[k], Ids(Skills(domain)))
<1>1. CASE domain \in {"content", "research", "sales", "support", "general"}
  BY <1>1, ContentPlaybooks, ResearchPlaybooks, SalesPlaybooks, SupportPlaybooks,
     GeneralPlaybooks
<1>2. CASE domain \notin {"content", "research", "sales", "support", "general"}
  <2>1. Playbooks(domain, careful) = <<GenericPlaybook(careful)>>
    BY <1>2 DEF Playbooks
  <2>. QED  BY <2>1, GenericRuns
<1>. QED  BY <1>1, <1>2

-----------------------------------------------------------------------------
(* Guardrails.                                                             *)

\* What the rule of an autonomy asks about, a lower one's rule asks about too.
LEMMA LowerTierAsks ==
  ASSUME NEW autonomy \in Level, NEW a \in Level, a < autonomy,
         NEW act \in Actions, NEW rule \in AutonomyRules(autonomy), Asks(rule, act)
  PROVE  \E other \in AutonomyRules(a) : Asks(other, act)
<1>1. autonomy \in 0 .. 10 /\ a \in 0 .. 10 /\ act.risk \in {5, 7}
  BY DEF Level, Actions
<1>2. CASE autonomy < 3
  <2>1. rule = "approve_all_writes" /\ "approve_all_writes" \in AutonomyRules(a)
    BY <1>1, <1>2 DEF AutonomyRules, Below, Unset
  <2>. QED  BY <2>1
<1>3. CASE autonomy >= 3 /\ autonomy < 5
  <2>1. rule = "approve_writes_and_deletes"
    BY <1>1, <1>3 DEF AutonomyRules, Below, Unset
  <2>2. act.ops \cap {"write", "delete"} # {}
    BY <2>1 DEF Asks
  <2>3. Asks("approve_writes_and_deletes", act) /\ Asks("approve_all_writes", act)
    BY <2>2 DEF Asks
  <2>4. \/ "approve_all_writes" \in AutonomyRules(a)
        \/ "approve_writes_and_deletes" \in AutonomyRules(a)
    BY <1>1, <1>3 DEF AutonomyRules, Below, Unset
  <2>. QED  BY <2>3, <2>4
<1>4. CASE autonomy >= 5 /\ autonomy < 7
  <2>1. rule = "approve_destructive"
    BY <1>1, <1>4 DEF AutonomyRules, Below, Unset
  <2>2. act.ops \cap {"delete"} # {}
    BY <1>1, <2>1 DEF Asks
  <2>3. /\ Asks("approve_writes_and_deletes", act) /\ Asks("approve_all_writes", act)
        /\ Asks("approve_destructive", act)
    BY <2>2 DEF Asks
  <2>4. \/ "approve_all_writes" \in AutonomyRules(a)
        \/ "approve_writes_and_deletes" \in AutonomyRules(a)
        \/ "approve_destructive" \in AutonomyRules(a)
    BY <1>1, <1>4 DEF AutonomyRules, Below, Unset
  <2>. QED  BY <2>3, <2>4
<1>5. CASE autonomy >= 7
  BY <1>1, <1>5 DEF AutonomyRules, Below, Unset
<1>. QED  BY <1>1, <1>2, <1>3, <1>4, <1>5

\* Less autonomy: no fewer questions, no more calls.
LEMMA LessAutonomy ==
  ASSUME NEW answers \in Answer, NEW domain, NEW a \in Level, a < answers.autonomy
  PROVE  LET mine == Guardrails(answers, domain)
             other == Guardrails([answers EXCEPT !.autonomy = a], domain)
         IN /\ \A act \in Actions :
                 NeedsApproval(mine, act) => NeedsApproval(other, act)
            /\ other.limits[1] <= mine.limits[1]
            /\ mine.limits[2] # 0 => other.limits[2] # 0
<1>. DEFINE fewer == [answers EXCEPT !.autonomy = a]
            mine == Guardrails(answers, domain)
            other == Guardrails(fewer, domain)
<1>1. /\ fewer.autonomy = a /\ fewer.cost = answers.cost
      /\ fewer.escalate = answers.escalate
  BY DEF Answer
<1>2. answers.autonomy \in Level /\ answers.autonomy \in Int /\ a \in Int
  BY DEF Answer, Level, Unset
<1>3. /\ mine.rules = Rules(answers, domain) /\ other.rules = Rules(fewer, domain)
      /\ mine.escalated = answers.escalate /\ other.escalated = answers.escalate
  BY <1>1 DEF Guardrails
<1>4. PICK calls \in Int :
        calls = (BaseLimit(domain) * IF answers.cost > 7 THEN 5 ELSE 10) \div 10
  <2>1. BaseLimit(domain) \in {100, 150, 200}
    BY DEF BaseLimit
  <2>. QED  BY <2>1
<1>5. /\ mine.limits[1] = calls /\ other.limits[1] = calls
      /\ mine.limits[2] = (IF Below(answers.autonomy, 5) THEN 10 ELSE 0)
      /\ other.limits[2] = (IF Below(a, 5) THEN 10 ELSE 0)
  BY <1>1, <1>4 DEF Guardrails
<1>6. Below(answers.autonomy, 5) => Below(a, 5)
  BY <1>2 DEF Below, Level, Unset
<1>7. ASSUME NEW act \in Actions, NeedsApproval(mine, act)
      PROVE  NeedsApproval(other, act)
  <2>1. CASE act.tags \cap answers.escalate # {}
    BY <1>3, <2>1 DEF NeedsApproval
  <2>2. CASE \E rule \in Rules(answers, domain) : Asks(rule, act)
    <3>1. PICK rule \in Rules(answers, domain) : Asks(rule, act)
      BY <2>2
    <3>2. CASE rule \in AutonomyRules(answers.autonomy)
      <4>1. \E r \in AutonomyRules(a) : Asks(r, act)
        BY <1>2, <3>1, <3>2, LowerTierAsks
      <4>2. AutonomyRules(a) \subseteq other.rules
        BY <1>1, <1>3 DEF Rules
      <4>. QED  BY <4>1, <4>2 DEF NeedsApproval
    <3>3. CASE rule = "approve_high_risk"
      <4>1. rule \in other.rules
        BY <1>3, <3>3 DEF Rules
      <4>. QED  BY <3>1, <4>1 DEF NeedsApproval
    <3>4. CASE rule \in ExtraApprovals(domain) /\ ~AtLeast(answers.autonomy, 8)
      <4>1. ~AtLeast(a, 8)
        BY <1>2, <3>4 DEF AtLeast, Level, Unset
      <4>2. rule \in other.rules
        BY <1>1, <1>3, <3>4, <4>1 DEF Rules
      <4>. QED  BY <3>1, <4>2 DEF NeedsApproval
    <3>. QED  BY <3>1, <3>2, <3>3, <3>4 DEF Rules
  <2>. QED  BY <1>3, <1>7, <2>1, <2>2 DEF NeedsApproval
<1>. QED  BY <1>4, <1>5, <1>6, <1>7

-----------------------------------------------------------------------------
(* The compiler: what is on disk, and what the derivation says of it.      *)

OnDisk(f, basis) == f \in DOMAIN disk /\ disk[f] = basis

\* The first n files of a step are on disk, from this basis.
WrittenTo(step, basis, n) ==
  \A k \in 1 .. n : OnDisk(Files(step, basis)[k], basis)

StepsDone(basis, done) ==
  \A step \in 1 .. done : WrittenTo(step, basis, Len(Files(step, basis)))

\* A derivation that can be read tells the truth, unless sessions were mixed.
DerivationOK ==
  Whole(deriv) =>
    /\ deriv = [basis |-> deriv.basis, done |-> deriv.done]
    /\ deriv.done \in 0 .. 5
    /\ ~mixed => StepsDone(deriv.basis, deriv.done)

\* The running command is one step ahead of its derivation.
RunOK ==
  comp.pc # "idle" =>
    /\ comp = [ pc |-> "run", basis |-> comp.basis, written |-> comp.written,
                step |-> comp.step ]
    /\ Whole(deriv) /\ comp.step = deriv.done + 1
    /\ comp.basis.answers \in Answer
    /\ ~mixed => comp.basis = deriv.basis
    /\ comp.written \in Nat
    /\ comp.step \in Steps =>
         /\ comp.written <= Len(Files(comp.step, comp.basis))
         /\ WrittenTo(comp.step, comp.basis, comp.written)

SuccessOK ==
  result = "success" =>
    comp.pc = "idle" /\ Whole(deriv) /\ deriv.done = 5

CompileInv == DerivationOK /\ RunOK /\ SuccessOK /\ mixed \in BOOLEAN

-----------------------------------------------------------------------------
(* The files of a step.                                                    *)

LEMMA ShortSeq ==
  ASSUME NEW a, NEW b, NEW c,
         NEW s, s = <<a>> \/ s = <<a, b>> \/ s = <<a, b, c>>
  PROVE  Len(s) \in Nat /\ DOMAIN s = 1 .. Len(s)
<1>1. CASE s = <<a>>
  BY <1>1
<1>2. CASE s = <<a, b>>
  BY <1>2
<1>3. CASE s = <<a, b, c>>
  BY <1>3
<1>. QED  BY <1>1, <1>2, <1>3

LEMMA SkillsAreSeq ==
  ASSUME NEW domain
  PROVE  Len(Skills(domain)) \in Nat /\ DOMAIN Skills(domain) = 1 .. Len(Skills(domain))
<1>1. \E a, b : Skills(domain) = <<a>> \/ Skills(domain) = <<a, b>>
  BY DEF Skills
<1>. QED  BY <1>1, ShortSeq

LEMMA PlaybooksAreSeq ==
  ASSUME NEW domain, NEW careful
  PROVE  /\ Len(Playbooks(domain, careful)) \in Nat
         /\ DOMAIN Playbooks(domain, careful) = 1 .. Len(Playbooks(domain, careful))
<1>1. \E a, b, c : \/ Playbooks(domain, careful) = <<a>>
                   \/ Playbooks(domain, careful) = <<a, b>>
                   \/ Playbooks(domain, careful) = <<a, b, c>>
  BY DEF Playbooks
<1>. QED  BY <1>1, ShortSeq

LEMMA MappedIsSeq ==
  ASSUME NEW n \in Nat, NEW g, g = [k \in 1 .. n |-> g[k]]
  PROVE  Len(g) = n /\ g \in Seq({g[k] : k \in 1 .. n})
<1>1. g \in [1 .. n -> {g[k] : k \in 1 .. n}]
  OBVIOUS
<1>2. g \in Seq({g[k] : k \in 1 .. n})
  BY <1>1, SeqDef
<1>. QED  BY <1>1, <1>2, LenProperties

LEMMA SkillFiles ==
  ASSUME NEW basis
  PROVE  LET files == Files(4, basis) IN
           /\ Len(files) \in Nat \ {0} /\ DOMAIN files = 1 .. Len(files)
           /\ files[Len(files)] = <<"skill", "manifest">>
<1>. DEFINE skills == Skills(basis.domain)
            named == [k \in DOMAIN skills |-> <<"skill", skills[k].id>>]
<1>1. PICK n \in Nat : DOMAIN skills = 1 .. n
  BY SkillsAreSeq
<1>2. PICK g : g = named
  OBVIOUS
<1>3. g = [k \in 1 .. n |-> g[k]]
  BY <1>1, <1>2
<1>4. PICK S : g \in Seq(S) /\ Len(g) = n
  BY <1>3, MappedIsSeq
<1>5. PICK e : e = <<"skill", "manifest">>
  OBVIOUS
<1>6. Files(4, basis) = Append(g, e)
  BY <1>2, <1>5 DEF Files
<1>7. g \in Seq(S \cup {e}) /\ e \in S \cup {e}
  BY <1>4, SeqMonotonic
<1>8. /\ Len(Append(g, e)) = n + 1 /\ Append(g, e)[n + 1] = e
      /\ DOMAIN Append(g, e) = 1 .. n + 1
  BY <1>4, <1>7, AppendProperties, LenProperties
<1>. QED  BY <1>5, <1>6, <1>8

LEMMA FilesAreSeq ==
  ASSUME NEW step \in Steps, NEW basis
  PROVE  /\ Len(Files(step, basis)) \in Nat
         /\ DOMAIN Files(step, basis) = 1 .. Len(Files(step, basis))
<1>1. CASE step \in {1, 2, 3}
  <2>1. Files(step, basis) \in
          { << <<"self", "constitution">> >>, << <<"self", "guardrails">> >>,
            << <<"self", "memory">> >> }
    BY <1>1 DEF Files
  <2>2. \E a : Files(step, basis) = <<a>>
    BY <2>1, Zenon
  <2>. QED  BY <2>2, ShortSeq
<1>2. CASE step = 4
  BY <1>2, SkillFiles
<1>3. CASE step = 5
  <2>1. PICK careful : careful = Careful(basis)
    OBVIOUS
  <2>2. PICK seq : seq = Playbooks(basis.domain, careful)
    OBVIOUS
  <2>3. PICK n \in Nat : DOMAIN seq = 1 .. n
    BY <2>2, PlaybooksAreSeq
  <2>4. PICK g : g = [k \in DOMAIN seq |-> <<"playbook", seq[k].id>>]
    OBVIOUS
  <2>5. Files(step, basis) = g
    BY <1>3, <2>1, <2>2, <2>4 DEF Files
  <2>6. g = [k \in 1 .. n |-> g[k]]
    BY <2>3, <2>4
  <2>7. Len(g) = n /\ DOMAIN g = 1 .. n
    BY <2>6, MappedIsSeq
  <2>. QED  BY <2>5, <2>7
<1>. QED  BY <1>1, <1>2, <1>3 DEF Steps

-----------------------------------------------------------------------------
(* Steps of the compiler.                                                  *)

\* What has been written stays written if the disk keeps it.
LEMMA WrittenStays ==
  ASSUME NEW step, NEW basis, NEW n,
         WrittenTo(step, basis, n), \A f : OnDisk(f, basis) => OnDisk(f, basis)'
  PROVE  WrittenTo(step, basis, n)'
BY DEF WrittenTo

LEMMA DerivationIsWhole ==
  ASSUME NEW d, NEW basis, NEW done, d = [basis |-> basis, done |-> done]
  PROVE  Whole(d)
<1>1. /\ DOMAIN d = {"basis", "done"}
      /\ DOMAIN None = {"none"} /\ DOMAIN Torn = {"torn"}
  BY DEF None, Torn
<1>2. d # None
  BY <1>1
<1>3. d # Torn
  BY <1>1
<1>. QED  BY <1>2, <1>3 DEF Whole

LEMMA CompileKeeps ==
  ASSUME InterviewInv, CompileInv, NEW resume \in BOOLEAN, Compile(resume)
  PROVE  CompileInv'
<1>. DEFINE again == Continues(resume)
<1>1. PICK basis : basis = Basis(file)
  OBVIOUS
<1>2. basis.answers \in Answer
  <2>1. file.answers = None \/ file.answers \in Answer
    BY DEF Compile, InterviewInv, FileOK, SessionOK, AnswersOK
  <2>. QED  BY <1>1, <2>1, NoneIsAnAnswer DEF Basis
<1>3. /\ comp' = [pc |-> "run", basis |-> basis, written |-> 0,
                 step |-> IF again THEN deriv.done + 1 ELSE 1]
      /\ deriv' = IF again THEN deriv ELSE [basis |-> basis, done |-> 0]
      /\ mixed' = (again /\ (mixed \/ deriv.basis # basis))
      /\ result' = "none" /\ disk' = disk
  BY <1>1 DEF Compile, Begin
<1>4. /\ comp'.pc = "run" /\ comp'.basis = basis /\ comp'.written = 0
      /\ comp'.step = IF again THEN deriv.done + 1 ELSE 1
      /\ comp' = [ pc |-> "run", basis |-> comp'.basis, written |-> comp'.written,
                  step |-> comp'.step ]
  BY <1>3
<1>5. WrittenTo(comp.step, comp.basis, comp.written)'
  BY <1>4 DEF WrittenTo
<1>6. comp'.step \in Steps => comp'.written <= Len(Files(comp'.step, comp'.basis))
  BY <1>4, FilesAreSeq
<1>7. SuccessOK' /\ mixed' \in BOOLEAN
  BY <1>3 DEF SuccessOK
<1>8. CASE again
  <2>1. Whole(deriv) /\ deriv' = deriv
    BY <1>3, <1>8 DEF Continues, Whole
  <2>2. ~mixed' => ~mixed /\ deriv.basis = basis
    BY <1>3, <1>8
  <2>3. DerivationOK'
    BY <1>3, <2>1, <2>2 DEF CompileInv, DerivationOK, StepsDone, WrittenTo, OnDisk
  <2>4. RunOK'
    BY <1>2, <1>4, <1>5, <1>6, <1>8, <2>1, <2>2 DEF RunOK
  <2>. QED  BY <1>7, <2>3, <2>4 DEF CompileInv
<1>9. CASE ~again
  <2>1. deriv' = [basis |-> basis, done |-> 0] /\ Whole(deriv')
    BY <1>3, <1>9, DerivationIsWhole
  <2>2. deriv'.basis = basis /\ deriv'.done = 0
    BY <2>1
  <2>3. StepsDone(deriv.basis, deriv.done)'
    BY <2>2 DEF StepsDone
  <2>4. DerivationOK'
    BY <2>1, <2>2, <2>3 DEF DerivationOK
  <2>5. RunOK'
    BY <1>2, <1>4, <1>5, <1>6, <1>9, <2>1, <2>2 DEF RunOK
  <2>. QED  BY <1>7, <2>4, <2>5 DEF CompileInv
<1>. QED  BY <1>8, <1>9

LEMMA WriteKeeps ==
  ASSUME CompileInv, Write  PROVE CompileInv'
<1>1. /\ comp.pc = "run" /\ comp.step \in Steps
      /\ deriv' = deriv /\ result' = result /\ mixed' = mixed
  BY DEF Write, CanWrite
<1>2. PICK basis, step, n :
        basis = comp.basis /\ step = comp.step /\ n = comp.written
  OBVIOUS
<1>3. PICK new : new = Files(step, basis)[n + 1]
  OBVIOUS
<1>4. /\ n < Len(Files(step, basis)) /\ n \in Nat
      /\ disk' = [f \in DOMAIN disk \cup {new} |-> IF f = new THEN basis ELSE disk[f]]
      /\ comp' = [comp EXCEPT !.written = n + 1]
  BY <1>1, <1>2, <1>3 DEF Write, CompileInv, RunOK
<1>5. /\ comp = [pc |-> "run", basis |-> basis, written |-> n, step |-> step]
      /\ Whole(deriv) /\ step = deriv.done + 1 /\ basis.answers \in Answer
      /\ ~mixed => basis = deriv.basis
      /\ WrittenTo(step, basis, n)
  BY <1>1, <1>2 DEF CompileInv, RunOK
<1>6. comp' = [pc |-> "run", basis |-> basis, written |-> n + 1, step |-> step]
  BY <1>4, <1>5
<1>7. /\ comp'.pc = "run" /\ comp'.basis = basis /\ comp'.written = n + 1
      /\ comp'.step = step
  BY <1>6
<1>8. ASSUME NEW f, OnDisk(f, basis)  PROVE OnDisk(f, basis)'
  BY <1>4, <1>8 DEF OnDisk
<1>9. OnDisk(new, basis)'
  BY <1>4 DEF OnDisk
<1>10. WrittenTo(step, basis, n + 1)'
  <2>. SUFFICES ASSUME NEW k \in 1 .. n + 1  PROVE OnDisk(Files(step, basis)[k], basis)'
    BY DEF WrittenTo
  <2>1. CASE k = n + 1
    BY <1>3, <1>9, <2>1
  <2>2. CASE k \in 1 .. n
    BY <1>5, <1>8, <2>2 DEF WrittenTo
  <2>. QED  BY <1>4, <2>1, <2>2
<1>11. Len(Files(step, basis)) \in Nat
  BY <1>1, <1>2, FilesAreSeq
<1>12. RunOK'
  BY <1>1, <1>4, <1>5, <1>6, <1>7, <1>10, <1>11 DEF RunOK
<1>13. DerivationOK'
  <2>. SUFFICES ASSUME ~mixed, Whole(deriv)
                PROVE  StepsDone(deriv.basis, deriv.done)'
    BY <1>1 DEF CompileInv, DerivationOK
  <2>1. deriv.basis = basis /\ StepsDone(basis, deriv.done)
    BY <1>5 DEF CompileInv, DerivationOK
  <2>2. \A s \in 1 .. deriv.done : WrittenTo(s, basis, Len(Files(s, basis)))'
    BY <1>8, <2>1 DEF StepsDone, WrittenTo
  <2>. QED  BY <1>1, <2>1, <2>2 DEF StepsDone
<1>14. SuccessOK'
  BY <1>1 DEF CompileInv, SuccessOK
<1>. QED  BY <1>1, <1>12, <1>13, <1>14 DEF CompileInv

LEMMA RecordKeeps ==
  ASSUME CompileInv, Record  PROVE CompileInv'
<1>1. /\ comp.pc = "run" /\ comp.step \in Steps /\ disk' = disk
      /\ result' = result /\ mixed' = mixed
  BY DEF Record
<1>2. PICK basis, step, n :
        basis = comp.basis /\ step = comp.step /\ n = comp.written
  OBVIOUS
<1>3. PICK old, done : old = deriv.basis /\ done = deriv.done
  OBVIOUS
<1>4. /\ n = Len(Files(step, basis)) /\ deriv' = [deriv EXCEPT !.done = step]
      /\ comp' = [comp EXCEPT !.step = step + 1, !.written = 0]
  BY <1>1, <1>2 DEF Record
<1>5. /\ comp = [pc |-> "run", basis |-> basis, written |-> n, step |-> step]
      /\ Whole(deriv) /\ step = done + 1 /\ basis.answers \in Answer
      /\ ~mixed => basis = old
      /\ WrittenTo(step, basis, n)
  BY <1>1, <1>2, <1>3 DEF CompileInv, RunOK
<1>6. /\ deriv = [basis |-> old, done |-> done] /\ done \in 0 .. 5
      /\ ~mixed => StepsDone(old, done)
  BY <1>3, <1>5 DEF CompileInv, DerivationOK
<1>7. PICK d : d = [deriv EXCEPT !.done = step]
  OBVIOUS
<1>8. d = [basis |-> old, done |-> step] /\ deriv' = d
  BY <1>4, <1>6, <1>7
<1>9. PICK c : c = [comp EXCEPT !.step = step + 1, !.written = 0]
  OBVIOUS
<1>10. /\ comp' = c
       /\ c = [pc |-> "run", basis |-> basis, written |-> 0, step |-> step + 1]
  BY <1>4, <1>5, <1>9
<1>11. /\ deriv'.basis = old /\ deriv'.done = step /\ Whole(deriv')
       /\ deriv' = [basis |-> deriv'.basis, done |-> deriv'.done]
  BY <1>8, DerivationIsWhole
<1>12. /\ comp'.pc = "run" /\ comp'.basis = basis /\ comp'.written = 0
       /\ comp'.step = step + 1
       /\ comp' = [ pc |-> "run", basis |-> comp'.basis, written |-> comp'.written,
                   step |-> comp'.step ]
  BY <1>10
<1>13. step \in 1 .. 5
  BY <1>1, <1>2 DEF Steps
<1>14. DerivationOK'
  <2>1. ASSUME ~mixed  PROVE StepsDone(old, step)
    <3>1. WrittenTo(step, old, Len(Files(step, old)))
      BY <1>4, <1>5, <2>1
    <3>2. \A s \in 1 .. done : WrittenTo(s, old, Len(Files(s, old)))
      BY <1>6, <2>1 DEF StepsDone
    <3>3. \A s \in 1 .. step : s \in 1 .. done \/ s = step
      BY <1>5, <1>6
    <3>. QED  BY <3>1, <3>2, <3>3 DEF StepsDone
  <2>2. StepsDone(old, step) => StepsDone(old, step)'
    BY <1>1 DEF StepsDone, WrittenTo, OnDisk
  <2>. QED  BY <1>1, <1>11, <1>13, <2>1, <2>2 DEF DerivationOK
<1>15. RunOK'
  <2>1. WrittenTo(step + 1, basis, 0)'
    BY DEF WrittenTo
  <2>2. step + 1 \in Steps => 0 <= Len(Files(step + 1, basis))
    BY FilesAreSeq
  <2>. QED  BY <1>1, <1>5, <1>11, <1>12, <2>1, <2>2 DEF RunOK
<1>16. SuccessOK'
  BY <1>1 DEF CompileInv, SuccessOK
<1>. QED  BY <1>1, <1>14, <1>15, <1>16 DEF CompileInv

\* The command ends: with success only when nothing is left to do.
LEMMA EndKeeps ==
  ASSUME CompileInv, Succeed \/ Refuse \/ Fail \/ TearDerivation
  PROVE  CompileInv'
<1>1. /\ comp' = Idle /\ disk' = disk /\ mixed' = mixed
      /\ deriv' = deriv \/ deriv' = Torn
  BY DEF Succeed, Refuse, Fail, TearDerivation
<1>2. comp'.pc = "idle" /\ RunOK'
  BY <1>1 DEF RunOK, Idle
<1>3. DerivationOK'
  <2>1. CASE deriv' = Torn
    BY <2>1 DEF DerivationOK, Whole
  <2>2. CASE deriv' = deriv
    BY <1>1, <2>2 DEF CompileInv, DerivationOK, StepsDone, WrittenTo, OnDisk
  <2>. QED  BY <1>1, <2>1, <2>2
<1>4. SuccessOK'
  <2>1. CASE Succeed
    <3>1. /\ Whole(deriv) /\ comp.step = deriv.done + 1 /\ comp.step \notin Steps
          /\ deriv' = deriv
      BY <2>1 DEF Succeed, CompileInv, RunOK
    <3>2. deriv.done \in 0 .. 5
      BY <3>1 DEF CompileInv, DerivationOK
    <3>3. deriv.done = 5
      BY <3>1, <3>2 DEF Steps
    <3>. QED  BY <1>2, <3>1, <3>3 DEF SuccessOK
  <2>2. CASE Refuse \/ Fail \/ TearDerivation
    BY <2>2 DEF SuccessOK, Refuse, Fail, TearDerivation
  <2>. QED  BY <2>1, <2>2
<1>. QED  BY <1>1, <1>2, <1>3, <1>4 DEF CompileInv

LEMMA CompileStep ==
  ASSUME InterviewInv, CompileInv, [Next]_vars  PROVE CompileInv'
<1>1. CASE CompileNext
  BY <1>1, CompileKeeps, WriteKeeps, RecordKeeps, EndKeeps DEF CompileNext, CompileSteps
<1>2. CASE UNCHANGED compileVars
  BY <1>2 DEF compileVars, CompileInv, DerivationOK, RunOK, SuccessOK, StepsDone,
     WrittenTo, OnDisk
<1>. QED  BY <1>1, <1>2 DEF Next, InterviewNext, Edit, vars

LEMMA CompileStart == Init => CompileInv
<1>. SUFFICES ASSUME Init PROVE CompileInv
  OBVIOUS
<1>1. deriv = None /\ comp = Idle /\ result = "none" /\ mixed = FALSE
  BY DEF Init, CompileInit
<1>2. ~Whole(deriv) /\ comp.pc = "idle"
  BY <1>1 DEF Whole, Idle
<1>. QED  BY <1>1, <1>2 DEF CompileInv, DerivationOK, RunOK, SuccessOK

-----------------------------------------------------------------------------
(* What a compile leaves behind.                                           *)

\* Both invariants hold of every state.
LEMMA OnboardingIsSound == Spec => [](InterviewInv /\ CompileInv)
<1>1. InterviewInv /\ CompileInv /\ [Next]_vars => (InterviewInv /\ CompileInv)'
  BY InterviewStep, CompileStep
<1>. QED  BY <1>1, InterviewStart, CompileStart, PTL DEF Spec

LEMMA WholeOnSuccess ==
  ASSUME CompileInv, result = "success", ~mixed
  PROVE  \E basis \in {disk[f] : f \in DOMAIN disk} :
           /\ deriv.basis = basis /\ deriv.done = 5
           /\ \A step \in Steps : \A k \in DOMAIN Files(step, basis) :
                /\ Files(step, basis)[k] \in DOMAIN disk
                /\ disk[Files(step, basis)[k]] = basis
           /\ LET playbooks == Playbooks(basis.domain, Careful(basis)) IN
              \A k \in DOMAIN playbooks :
                Runnable(playbooks[k], Ids(Skills(disk[<<"skill", "manifest">>].domain)))
<1>1. PICK basis : basis = deriv.basis
  OBVIOUS
<1>2. deriv.done = 5 /\ StepsDone(basis, 5)
  BY <1>1 DEF CompileInv, SuccessOK, DerivationOK
<1>3. ASSUME NEW step \in Steps, NEW k \in DOMAIN Files(step, basis)
      PROVE  OnDisk(Files(step, basis)[k], basis)
  <2>1. k \in 1 .. Len(Files(step, basis))
    BY FilesAreSeq
  <2>. QED  BY <1>2, <2>1 DEF StepsDone, WrittenTo, Steps
<1>4. basis \in {disk[f] : f \in DOMAIN disk}
  <2>1. 1 \in Steps /\ 1 \in DOMAIN Files(1, basis)
    BY DEF Steps, Files
  <2>2. OnDisk(Files(1, basis)[1], basis)
    BY <1>3, <2>1
  <2>. QED  BY <2>2 DEF OnDisk
<1>5. disk[<<"skill", "manifest">>] = basis
  <2>1. 4 \in Steps
    BY DEF Steps
  <2>2. PICK last : /\ last \in DOMAIN Files(4, basis)
                    /\ Files(4, basis)[last] = <<"skill", "manifest">>
    BY SkillFiles
  <2>3. OnDisk(Files(4, basis)[last], basis)
    BY <1>3, <2>1, <2>2
  <2>. QED  BY <2>2, <2>3 DEF OnDisk
<1>6. \A k \in DOMAIN Playbooks(basis.domain, Careful(basis)) :
        Runnable(Playbooks(basis.domain, Careful(basis))[k], Ids(Skills(basis.domain)))
  BY PlaybooksRun
<1>7. \A step \in Steps : \A k \in DOMAIN Files(step, basis) :
        /\ Files(step, basis)[k] \in DOMAIN disk
        /\ disk[Files(step, basis)[k]] = basis
  BY <1>3 DEF OnDisk
<1>. QED  BY <1>1, <1>2, <1>4, <1>5, <1>6, <1>7

\* A compile that reports success has left every file the session calls for,
\* all from the same session and answers, and playbooks that can run, whatever
\* failed, was killed or was interviewed in between, unless it went on with a
\* derivation that another session had begun (compile).
THEOREM SuccessLeavesAWhole == Spec => []SuccessIsWhole
<1>1. CompileInv => SuccessIsWhole
  BY WholeOnSuccess DEF SuccessIsWhole
<1>. QED  BY <1>1, OnboardingIsSound, PTL

LEMMA AsksMoreHere ==
  ASSUME CompileInv, comp.pc = "run", comp.step = 2, comp.written = 1
  PROVE  LessAutonomyAsksMore
<1>1. PICK basis : basis = comp.basis
  OBVIOUS
<1>2. basis.answers \in Answer /\ WrittenTo(2, basis, 1)
  BY <1>1 DEF CompileInv, RunOK, Steps
<1>3. Files(2, basis)[1] = <<"self", "guardrails">>
  BY DEF Files
<1>4. disk[<<"self", "guardrails">>] = basis
  BY <1>2, <1>3 DEF WrittenTo, OnDisk
<1>5. \A taboo \in basis.answers.never :
        taboo \in Guardrails(basis.answers, basis.domain).blocked
  BY DEF Guardrails
<1>6. ASSUME NEW a \in Level, a < basis.answers.autonomy
      PROVE  LET mine == Guardrails(basis.answers, basis.domain)
                 other == Guardrails([basis.answers EXCEPT !.autonomy = a], basis.domain)
             IN /\ \A act \in Actions :
                     NeedsApproval(mine, act) => NeedsApproval(other, act)
                /\ other.limits[1] <= mine.limits[1]
                /\ mine.limits[2] # 0 => other.limits[2] # 0
  BY <1>2, <1>6, LessAutonomy
<1>. QED  BY <1>4, <1>5, <1>6 DEF LessAutonomyAsksMore

\* Whatever answers an interview has given, the guardrails compiled from them
\* ask of no action whose risk is at most 0.7 that those of a less autonomous
\* twin would let pass, and limit it no more (compileGuardrails).
THEOREM LessAutonomyIsSafer == Spec => []LessAutonomyAsksMore
<1>1. CompileInv => LessAutonomyAsksMore
  BY AsksMoreHere DEF LessAutonomyAsksMore
<1>. QED  BY <1>1, OnboardingIsSound, PTL
=============================================================================
