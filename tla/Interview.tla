----------------------------- MODULE Interview -----------------------------
(***************************************************************************)
(* `tastekit onboard`: the interviewer asks, the user answers, a model     *)
(* replies and reports which dimensions its reply has advanced, and the    *)
(* session file is written after every reply, so that the interview may    *)
(* stop anywhere and be resumed.  The process may be stopped, or the model *)
(* fail, between any two steps, and a write of the file may be torn.       *)
(***************************************************************************)
EXTENDS Rubrics, Compilers

CONSTANTS
  Replies,     \* what the model may reply: [domain, updates, complete]
  Extractions  \* the answers that the model may extract at the end

(* What a reply reports of a dimension, of the interview or not.           *)
Updates == [id : STRING, delta : Int, skip : BOOLEAN]

ASSUME InterviewAssumption ==
  /\ \A r \in Replies : r.updates \in Seq(Updates)
  /\ Extractions \subseteq Answer

VARIABLES
  project,  \* tastekit.yaml, the command line and the environment:
            \* [domain, depth, provider, override, keys, ollama]
  file,     \* session.json: None, Torn, or a session
  ivw,      \* the running onboard command
  said,     \* answers that the user has given so far
  made,     \* sessions created so far
  onboards, tears  \* commands and torn writes so far

interviewVars == <<project, file, ivw, said, made, onboards, tears>>

None == [none |-> TRUE]
Torn == [torn |-> TRUE]
Whole(f) == f # None /\ f # Torn
Idle == [pc |-> "idle"]

(* A transcript: what the interviewer says, topics that the user skips,    *)
(* and the answers, by their number.                                       *)
Question == 0
Skipped == -1

-----------------------------------------------------------------------------
(* Coverage: a sequence of [id, status, conf].                             *)

NotStarted(dims) ==
  [k \in DOMAIN dims |->
     [id |-> dims[k], status |-> "not_started", conf |-> 0]]

(* One dimension of a reply; a delta counts if it is positive.             *)
Update(cov, u) ==
  IF \A d \in DOMAIN cov : cov[d].id # u.id THEN cov
  ELSE LET k == Place(cov, u.id)
           conf == cov[k].conf + (IF u.delta > 0 THEN u.delta ELSE 0)
           status == CASE u.skip            -> "skipped"
                       [] conf >= Threshold -> "covered"
                       [] conf >= Started   -> "in_progress"
                       [] OTHER             -> cov[k].status
       IN [cov EXCEPT ![k] = [id |-> u.id, status |-> status, conf |-> conf]]

Updated(cov, updates) ==
  LET after[n \in 0 .. Len(updates)] ==
        IF n = 0 THEN cov ELSE Update(after[n - 1], updates[n])
  IN  after[Len(updates)]

(* applyCascades: the effect of one dimension on another.                  *)
Infer(cov, cascade) ==
  IF \A d \in DOMAIN cov : cov[d].id # cascade.to THEN cov
  ELSE LET k == Place(cov, cascade.to)
           conf == cov[k].conf + cascade.weight
           status == CASE conf >= Threshold -> "covered"
                       [] conf >= Started /\ conf < Threshold
                            /\ cov[k].status = "not_started" -> "in_progress"
                       [] OTHER -> cov[k].status
       IN IF cov[k].status \in {"covered", "skipped"} THEN cov
          ELSE [cov EXCEPT ![k] = [id |-> cascade.to, status |-> status, conf |-> conf]]

Inferred(cov, cascades) ==
  LET after[n \in 0 .. Len(cascades)] ==
        IF n = 0 THEN cov ELSE Infer(after[n - 1], cascades[n])
  IN  after[Len(cascades)]

(* applyCoverageUpdates: a dimension cascades each time that a reply       *)
(* touches it while its confidence suffices.                               *)
Advance(domain, dims, cov, updates) ==
  LET after == Updated(cov, updates)
      resolves(u) == LET k == Place(after, u.id) IN
        k # 0 /\ after[k].conf >= Threshold /\ u.id \in ToSet(dims)
  IN Inferred(after, [n \in 1 .. Len(updates) |->
                        IF resolves(updates[n]) THEN Cascade(domain, updates[n].id)
                                                ELSE NoCascade])

Closed(d) == d.status \in {"covered", "skipped"} \/ d.conf >= Threshold

AllDimensionsCovered(cov) == \A k \in DOMAIN cov : Closed(cov[k])

-----------------------------------------------------------------------------
(* The command.                                                            *)

(* resolveOnboardProviderConfig, autoDetectProvider and resolveProvider:   *)
(* the provider that is asked for, or the first one there is; "none" when  *)
(* its key is not set.                                                     *)
Provider(p) ==
  LET wanted == IF p.override # "none" THEN p.override ELSE p.provider
      found == CASE wanted # "none"        -> wanted
                 [] "anthropic" \in p.keys -> "anthropic"
                 [] "openai" \in p.keys    -> "openai"
                 [] p.ollama               -> "ollama"
                 [] OTHER                  -> "none"
  IN IF found \in p.keys \cup {"ollama"} THEN found ELSE "none"

(* The session as it is written: answers are the session's own, and stay   *)
(* those of an earlier save until the command ends.                        *)
Session(i) ==
  [ id |-> i.id, domain |-> i.domain, cov |-> i.cov, turns |-> i.turns,
    complete |-> i.complete, answers |-> i.answers ]

(* The interviewer's state becomes that of the file, or a fresh one.       *)
Resumes(resume) == resume /\ file # None

Onboard(resume, depth) ==
  /\ ivw.pc = "idle"
  /\ Provider(project) # "none"
  /\ Resumes(resume) => Whole(file)
  /\ LET kept == Resumes(resume) /\ ~file.complete
         dims == Dimensions(project.domain, depth)
     IN /\ ivw' = [ pc |-> IF kept THEN "ask" ELSE "opening",
                    id |-> IF kept THEN file.id ELSE made + 1,
                    domain |-> project.domain, dims |-> dims,
                    cov |-> IF kept THEN file.cov ELSE NotStarted(dims),
                    turns |-> IF kept THEN file.turns ELSE <<>>,
                    complete |-> FALSE,
                    answers |-> IF kept THEN file.answers ELSE None,
                    extracted |-> None ]
        /\ made' = made + (IF kept THEN 0 ELSE 1)
  /\ onboards' = onboards + 1
  /\ UNCHANGED <<project, file, said, tears>>

(* The prompt has the rubric of the domain.                                *)
RepliesTo(i) == {r \in Replies : r.domain = i.domain}

(* The model's first message; that it wants to end already is not heard.   *)
Opening ==
  /\ ivw.pc = "opening"
  /\ \E r \in RepliesTo(ivw) :
       LET next == [ivw EXCEPT !.pc = "ask", !.turns = <<Question>>,
                     !.cov = Advance(ivw.domain, ivw.dims, ivw.cov, r.updates)]
       IN ivw' = next /\ file' = Session(next)
  /\ UNCHANGED <<project, said, made, onboards, tears>>

AnswerTurn ==
  /\ ivw.pc = "ask"
  /\ said' = said + 1
  /\ ivw' = [ivw EXCEPT !.pc = "reply", !.turns = Append(ivw.turns, said')]
  /\ UNCHANGED <<project, file, made, onboards, tears>>

Skip ==
  /\ ivw.pc = "ask"
  /\ ivw' = [ivw EXCEPT !.pc = "reply", !.turns = Append(ivw.turns, Skipped)]
  /\ UNCHANGED <<project, file, said, made, onboards, tears>>

(* /save: the command ends as if the interview were over, with the answers *)
(* that stand for none.                                                    *)
Save ==
  /\ ivw.pc = "ask"
  /\ ivw' = [ivw EXCEPT !.pc = "final", !.extracted = EmptyAnswers]
  /\ file' = Session(ivw)
  /\ UNCHANGED <<project, said, made, onboards, tears>>

\* Mutant: the reply is not on the transcript when the file is written.
ReplyAfterSave ==
  /\ ivw.pc = "reply"
  /\ \E r \in RepliesTo(ivw) :
       LET cov == Advance(ivw.domain, ivw.dims, ivw.cov, r.updates)
           over == r.complete \/ AllDimensionsCovered(cov)
           next == [ivw EXCEPT !.cov = cov, !.turns = Append(ivw.turns, Question)]
       IN /\ file' = Session(ivw)
          /\ ivw' = [next EXCEPT !.complete = over,
                                 !.pc = IF over THEN "extract" ELSE "ask"]
  /\ UNCHANGED <<project, said, made, onboards, tears>>

(* The file is written before the interviewer knows that it is over.       *)
Reply ==
  /\ ivw.pc = "reply"
  /\ \E r \in RepliesTo(ivw) :
       LET cov == Advance(ivw.domain, ivw.dims, ivw.cov, r.updates)
           over == r.complete \/ AllDimensionsCovered(cov)
           next == [ivw EXCEPT !.cov = cov, !.turns = Append(ivw.turns, Question)]
       IN /\ file' = Session(next)
          /\ ivw' = [next EXCEPT !.complete = over,
                                 !.pc = IF over THEN "extract" ELSE "ask"]
  /\ UNCHANGED <<project, said, made, onboards, tears>>

(* A reply that is no JSON gives the empty answers.                        *)
Extract ==
  /\ ivw.pc = "extract"
  /\ \E a \in Extractions \cup {EmptyAnswers} :
       ivw' = [ivw EXCEPT !.pc = "final", !.extracted = a]
  /\ file' = Session(ivw)
  /\ UNCHANGED <<project, said, made, onboards, tears>>

Finish ==
  /\ ivw.pc = "final"
  /\ file' = Session([ivw EXCEPT !.answers = ivw.extracted])
  /\ ivw' = Idle
  /\ UNCHANGED <<project, said, made, onboards, tears>>

(* The process is stopped, or the model cannot be reached.                 *)
Quit ==
  /\ ivw.pc # "idle"
  /\ ivw' = Idle
  /\ UNCHANGED <<project, file, said, made, onboards, tears>>

(* The process is killed while it writes the file.                         *)
Tear ==
  /\ ivw.pc # "idle"
  /\ file' = Torn /\ ivw' = Idle
  /\ tears' = tears + 1
  /\ UNCHANGED <<project, said, made, onboards>>

(* The user edits tastekit.yaml.                                           *)
ChangeDomain(d) ==
  /\ project.domain # d
  /\ project' = [project EXCEPT !.domain = d]
  /\ UNCHANGED <<file, ivw, said, made, onboards, tears>>

InterviewInit ==
  /\ file = None /\ ivw = Idle
  /\ said = 0 /\ made = 0 /\ onboards = 0 /\ tears = 0

-----------------------------------------------------------------------------
(* Properties.                                                             *)

(* No command, stop or resume takes a turn that is on file away, as long   *)
(* as it is the same session and the file can be read, nor lowers the      *)
(* confidence in a dimension; a session is given up only for a newer one;  *)
(* and when the user is asked, all that was said before is on file, so     *)
(* that the interview may stop there (onboard.ts; "The interview saves     *)
(* state ... after every answer", docs/quickstart.md).                     *)
AnswersSurvive ==
  [][ /\ Whole(file) /\ Whole(file') =>
           IF file'.id = file.id
             THEN /\ IsPrefix(file.turns, file'.turns)
                  /\ \A k \in DOMAIN file.cov :
                       file.cov[k].conf <= file'.cov[k].conf
             ELSE file'.id > file.id
      /\ ivw'.pc = "ask" =>
           /\ Whole(file') /\ file'.id = ivw'.id
           /\ file'.turns = ivw'.turns /\ file'.cov = ivw'.cov ]_interviewVars
=============================================================================
