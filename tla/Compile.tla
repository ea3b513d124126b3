------------------------------ MODULE Compile ------------------------------
(***************************************************************************)
(* `tastekit compile`: five steps turn the session file into artifacts.    *)
(* derivation.v1.yaml records the steps that are done, so that a compile   *)
(* which failed or was killed goes on where it stopped, with the session   *)
(* that is on file by then.  Onboarding may go on meanwhile.               *)
(***************************************************************************)
EXTENDS Interview, Library

VARIABLES
  disk,   \* artifacts: file name -> what it was compiled from
  deriv,  \* derivation.v1.yaml: None, Torn, or [basis, done]
  comp,   \* the running compile command
  result, \* how the last one ended: "none", "success", "failed"
  mixed,  \* history: the derivation on disk was resumed with another session
  successes, failures  \* of them so far

compileVars == <<disk, deriv, comp, result, mixed, successes, failures>>

Steps == 1 .. 5  \* constitution, guardrails, memory, skills, playbooks

-----------------------------------------------------------------------------
(* What is compiled from a session: the answers on file, or none.          *)
Basis(f) ==
  [ id |-> f.id, domain |-> f.domain,
    answers |-> IF f.answers = None THEN EmptyAnswers ELSE f.answers ]

Careful(basis) == Below(basis.answers.autonomy, 5)

Ids(seq) == {seq[k].id : k \in DOMAIN seq}

(* The files of a step, in the order in which it writes them.              *)
Files(step, basis) ==
  LET named(kind, seq) == [k \in DOMAIN seq |-> <<kind, seq[k].id>>] IN
  CASE step = 1 -> << <<"self", "constitution">> >>
    [] step = 2 -> << <<"self", "guardrails">> >>
    [] step = 3 -> << <<"self", "memory">> >>
    [] step = 4 -> Append(named("skill", Skills(basis.domain)),
                          <<"skill", "manifest">>)
    [] step = 5 -> named("playbook", Playbooks(basis.domain, Careful(basis)))

(* readDerivationState and canResume: a derivation that can be read, with  *)
(* a step done, and not finished unless --resume is given.                 *)
Continues(resume) ==
  /\ deriv # None /\ deriv # Torn
  /\ deriv.done > 0
  /\ resume \/ deriv.done # 5

(* The first part of compile: it goes on with the old derivation, whatever *)
(* session that is of, or begins a new one.                                *)
Begin(basis, again) ==
  /\ comp' = [pc |-> "run", basis |-> basis, written |-> 0,
              step |-> IF again THEN deriv.done + 1 ELSE 1]
  /\ deriv' = IF again THEN deriv ELSE [basis |-> basis, done |-> 0]
  /\ mixed' = (again /\ (mixed \/ deriv.basis # basis))

\* Mutant: a derivation that cannot be read ends the command.
CompileUncaught(resume) ==
  /\ comp.pc = "idle" /\ Whole(file) /\ deriv # Torn
  /\ Begin(Basis(file), Continues(resume))
  /\ result' = "none"
  /\ UNCHANGED <<disk, successes, failures>>

(* compileCommand: nothing asks whether the interview is complete.         *)
Compile(resume) ==
  /\ comp.pc = "idle" /\ Whole(file)
  /\ Begin(Basis(file), Continues(resume))
  /\ result' = "none"
  /\ UNCHANGED <<disk, successes, failures>>

(* A reply of another shape than the one asked for stops the first step.   *)
CanWrite ==
  /\ comp.pc = "run" /\ comp.step \in Steps
  /\ comp.step = 1 => comp.basis.answers.whole

(* The next file of the step.                                              *)
Write ==
  /\ CanWrite
  /\ LET files == Files(comp.step, comp.basis) IN
     /\ comp.written < Len(files)
     /\ disk' = [f \in DOMAIN disk \cup {files[comp.written + 1]} |->
                   IF f = files[comp.written + 1] THEN comp.basis ELSE disk[f]]
  /\ comp' = [comp EXCEPT !.written = comp.written + 1]
  /\ UNCHANGED <<deriv, result, mixed, successes, failures>>

\* Mutant: a step is recorded before its last file is written.
RecordEarly ==
  /\ comp.pc = "run" /\ comp.step \in Steps
  /\ comp.written + 1 >= Len(Files(comp.step, comp.basis))
  /\ deriv' = [deriv EXCEPT !.done = comp.step]
  /\ comp' = IF comp.written = Len(Files(comp.step, comp.basis))
               THEN [comp EXCEPT !.step = comp.step + 1, !.written = 0]
               ELSE comp
  /\ UNCHANGED <<disk, result, mixed, successes, failures>>

(* The step is done, and the derivation says so; it keeps its old basis.   *)
Record ==
  /\ comp.pc = "run" /\ comp.step \in Steps
  /\ comp.written = Len(Files(comp.step, comp.basis))
  /\ deriv' = [deriv EXCEPT !.done = comp.step]
  /\ comp' = [comp EXCEPT !.step = comp.step + 1, !.written = 0]
  /\ UNCHANGED <<disk, result, mixed, successes, failures>>

Succeed ==
  /\ comp.pc = "run" /\ comp.step \notin Steps
  /\ comp' = Idle /\ result' = "success"
  /\ successes' = successes + 1
  /\ UNCHANGED <<disk, deriv, mixed, failures>>

(* A step throws: always the first one when the answers have no shape.     *)
Refuse ==
  /\ comp.pc = "run" /\ comp.step = 1 /\ ~comp.basis.answers.whole
  /\ comp' = Idle /\ result' = "failed"
  /\ UNCHANGED <<disk, deriv, mixed, successes, failures>>

Fail ==
  /\ comp.pc = "run"
  /\ comp' = Idle /\ result' = "failed"
  /\ failures' = failures + 1
  /\ UNCHANGED <<disk, deriv, mixed, successes>>

(* The process is killed while it writes the derivation, which is not      *)
(* written to a file of its own and renamed as the artifacts of self/ are. *)
TearDerivation ==
  /\ comp.pc = "run" /\ comp.written = 0
  /\ comp' = Idle /\ result' = "failed" /\ deriv' = Torn
  /\ failures' = failures + 1
  /\ UNCHANGED <<disk, mixed, successes>>

CompileInit ==
  /\ disk = [f \in {} |-> None] /\ deriv = None
  /\ comp = Idle /\ result = "none"
  /\ mixed = FALSE /\ successes = 0 /\ failures = 0

CompileSteps == Write \/ Record \/ Succeed \/ Refuse
=============================================================================
