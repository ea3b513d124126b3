--------------------------- MODULE WorkspaceProofs ---------------------------
(***************************************************************************)
(* Theorems about a TasteKit workspace, for any commands, runs, events,    *)
(* servers and memories.                                                   *)
(*                                                                         *)
(* The layout: while a migration is unfinished, what readers find is what  *)
(* was last written, or a copy that was torn, and each directory that the  *)
(* migration has gone through has all of the old one; a run's own file has *)
(* all its lines, and any copy of a trace is how the run began, or torn.   *)
(* Hence what detect counts has a place of its own among the events that   *)
(* were recorded.  Consolidation: its groups have no memory in common.     *)
(* Trust: the policy has one pin for each reference, the fingerprint that  *)
(* was pinned last; the fingerprint of a binding was taken of what its     *)
(* server had, or seemed to have; and no name is bound twice.              *)
(* The skills graph: each recursion of its analysis keeps what was true at *)
(* its beginning.  A search of a skill knows that the skills of its path   *)
(* are gray and no others, and that, as long as no cycle is reported, no   *)
(* walk among the black skills goes on forever.                            *)
(***************************************************************************)
EXTENDS Workspace, SequenceTheorems, FiniteSetTheorems, WellFoundedInduction, TLAPS

-----------------------------------------------------------------------------
(* The layout.                                                             *)

Lines == Events \cup {TornLine}

\* What is in a space of a layout, nothing if it has no directory.
In(ds, i, s) == IF ds[i][s] = None THEN NoNames ELSE ds[i][s]

TreeOK(tree, paths) ==
  DOMAIN tree = Layouts /\ \A i \in Layouts : DOMAIN tree[i] = paths

PathsOK ==
  /\ TreeOK(files, Artifacts) /\ TreeOK(dirs, Spaces)
  /\ DOMAIN latest = Artifacts /\ DOMAIN entries = Spaces
  /\ \A s \in Spaces : DOMAIN entries[s] \subseteq EntryNames
  /\ \A i \in Layouts, s \in Spaces : DOMAIN In(dirs, i, s) \subseteq DOMAIN entries[s]

Reached(k) == mig.pc = "run" /\ mig.at > k

\* What it has made and copied; a trace that is not copied is astray.
Carried(ds, lost, s) ==
  \A n \in DOMAIN In(ds, 1, s) :
    n \in DOMAIN In(ds, 2, s) \/ (s = "traces" /\ n \in lost)

MigOK ==
  /\ \/ mig = Idle
     \/ /\ mig.pc = "run" /\ mig.at \in 1 .. 11
        /\ mig = [pc |-> "run", at |-> mig.at] /\ half
  /\ Reached(1) => dirs[2]["skills"] # None
  /\ Reached(2) => dirs[2]["playbooks"] # None
  /\ Reached(3) => dirs[2]["traces"] # None
  /\ Reached(7) => Carried(dirs, astray, "skills")
  /\ Reached(8) => Carried(dirs, astray, "playbooks")
  /\ Reached(9) => Carried(dirs, astray, "traces")
  /\ ~half => \A s \in Spaces : dirs[2][s] = None \/ Carried(dirs, astray, s)

FilesOK == \A a \in Artifacts : Resolved(a) \in {latest[a], Torn}

\* What is in place 2 is what readers find, and as it was last written.
NamesOK ==
  \A s \in Spaces \ {"traces"} : \A n \in DOMAIN entries[s] :
    \/ n \in DOMAIN In(dirs, 2, s) /\ In(dirs, 2, s)[n] \in {entries[s][n], Torn}
    \/ /\ n \notin DOMAIN In(dirs, 2, s)
       /\ n \in DOMAIN In(dirs, 1, s) /\ In(dirs, 1, s)[n] \in {entries[s][n], Torn}

TracesOK ==
  \A r \in DOMAIN entries["traces"] \ astray :
    \/ r \in DOMAIN In(dirs, 2, "traces") /\ In(dirs, 2, "traces")[r] = entries["traces"][r]
    \/ /\ r \notin DOMAIN In(dirs, 2, "traces")
       /\ r \in DOMAIN In(dirs, 1, "traces") /\ In(dirs, 1, "traces")[r] = entries["traces"][r]

\* A run's own file has all its lines, and no copy of it is anywhere it is
\* not ahead of.
RunsOK ==
  \A r \in DOMAIN runs :
    /\ r \in EntryNames /\ runs[r] \in Layouts
    /\ dirs[runs[r]]["traces"] # None
    /\ r \in DOMAIN In(dirs, runs[r], "traces") <=> r \in DOMAIN entries["traces"]
    /\ r \in DOMAIN entries["traces"] =>
         In(dirs, runs[r], "traces")[r] = entries["traces"][r]
    /\ runs[r] = 2 => r \notin DOMAIN In(dirs, 1, "traces")

\* A trace anywhere has a torn line, or it is how the run began.
Tells(lines, told) ==
  \/ \E k \in 1 .. Len(lines) : lines[k] = TornLine
  \/ Len(lines) <= Len(told) /\ \A k \in 1 .. Len(lines) : lines[k] = told[k]

LinesOK ==
  /\ \A r \in DOMAIN entries["traces"] : entries["traces"][r] \in Seq(Lines)
  /\ \A i \in Layouts : \A r \in DOMAIN In(dirs, i, "traces") :
       /\ In(dirs, i, "traces")[r] \in Seq(Lines)
       /\ Tells(In(dirs, i, "traces")[r], entries["traces"][r])

LayoutInv ==
  PathsOK /\ MigOK /\ FilesOK /\ NamesOK /\ TracesOK /\ RunsOK /\ LinesOK

LEMMA NoneIsNothing ==
  /\ Torn # None /\ NoNames # None
  /\ \A n : Version(n) # None
  /\ \A d : (DOMAIN d) \subseteq EntryNames => d # None
<1>1. \A n : DOMAIN Version(n) = DOMAIN Version(0)
  BY DEF Version
<1>2. DOMAIN NoNames = {}
  BY DEF NoNames
<1>. QED  BY <1>1, <1>2, WorkspaceAssumption

LEMMA OneDir ==
  ASSUME NEW i \in Layouts, NEW s \in Spaces, NEW d, d # None, PathsOK,
         dirs' = [dirs EXCEPT ![i][s] = d]
  PROVE  /\ TreeOK(dirs', Spaces)
         /\ dirs'[i][s] = d /\ In(dirs', i, s) = d
         /\ \A j \in Layouts, t \in Spaces :
              (j # i \/ t # s) => dirs'[j][t] = dirs[j][t] /\ In(dirs', j, t) = In(dirs, j, t)
BY DEF In, PathsOK, TreeOK

LEMMA PutIs ==
  ASSUME NEW i \in Layouts, NEW s \in Spaces, NEW n \in EntryNames, NEW c,
         PathsOK, NEW d, d = Put(dirs[i][s], n, c)
  PROVE  /\ d # None /\ DOMAIN d = DOMAIN In(dirs, i, s) \cup {n} /\ d[n] = c
         /\ \A m \in DOMAIN In(dirs, i, s) : m # n => d[m] = In(dirs, i, s)[m]
<1>1. DOMAIN d = DOMAIN In(dirs, i, s) \cup {n}
  BY DEF In, NoNames, Put
<1>2. d # None
  BY <1>1, NoneIsNothing DEF PathsOK
<1>. QED  BY <1>1, <1>2 DEF In, NoNames, Put

LEMMA ProgramIs ==
  /\ Len(Program) = 10
  /\ Program[1] = <<"make", "skills">> /\ Program[2] = <<"make", "playbooks">>
  /\ Program[3] = <<"make", "traces">> /\ Program[4] = <<"file", "constitution">>
  /\ Program[5] = <<"file", "guardrails">> /\ Program[6] = <<"file", "memory">>
  /\ Program[7] = <<"dir", "skills">> /\ Program[8] = <<"dir", "playbooks">>
  /\ Program[9] = <<"dir", "traces">> /\ Program[10] = <<"file", "session">>
BY DEF Program

LEMMA StepIs ==
  ASSUME mig.at \in 1 .. 11, mig.pc = "run"
  PROVE  /\ At("make") => \/ mig.at = 1 /\ What = "skills"
                          \/ mig.at = 2 /\ What = "playbooks"
                          \/ mig.at = 3 /\ What = "traces"
         /\ At("file") => mig.at \in {4, 5, 6, 10} /\ What \in Artifacts
         /\ At("dir") => \/ mig.at = 7 /\ What = "skills"
                         \/ mig.at = 8 /\ What = "playbooks"
                         \/ mig.at = 9 /\ What = "traces"
<1>1. \/ mig.at = 1 \/ mig.at = 2 \/ mig.at = 3 \/ mig.at = 4 \/ mig.at = 5
      \/ mig.at = 6 \/ mig.at = 7 \/ mig.at = 8 \/ mig.at = 9 \/ mig.at = 10
      \/ mig.at = 11
  OBVIOUS
<1>. QED  BY <1>1, ProgramIs DEF At, What, Artifacts

LEMMA AdvancedIs ==
  ASSUME mig = [pc |-> "run", at |-> mig.at]
  PROVE  Advanced = [pc |-> "run", at |-> mig.at + 1]
BY DEF Advanced

LEMMA Running ==
  ASSUME MigOK, mig.pc = "run"
  PROVE  mig.at \in 1 .. 11 /\ mig = [pc |-> "run", at |-> mig.at] /\ half
<1>1. Idle.pc # "run"
  BY DEF Idle
<1>. QED  BY <1>1 DEF MigOK

-----------------------------------------------------------------------------
(* The migration.                                                          *)

LEMMA MigrateKeeps ==
  ASSUME LayoutInv, Migrate  PROVE LayoutInv'
<1>1. UNCHANGED <<files, dirs, runs, latest, entries, astray>>
  BY DEF Migrate
<1>3. PathsOK' /\ FilesOK'
  BY <1>1 DEF LayoutInv, PathsOK, FilesOK, Resolved, In
<1>4. NamesOK' /\ TracesOK'
  BY <1>1 DEF LayoutInv, NamesOK, TracesOK, In
<1>5. RunsOK'
  BY <1>1 DEF LayoutInv, RunsOK, In
<1>6. LinesOK'
  BY <1>1 DEF LayoutInv, LinesOK, In
<1>2. MigOK'
  BY DEF Migrate, MigOK, Reached
<1>. QED  BY <1>2, <1>3, <1>4, <1>5, <1>6 DEF LayoutInv

\* Directories that are made, and are empty, change nothing else.
LEMMA EmptyDirs ==
  ASSUME LayoutInv, UNCHANGED <<files, latest, entries, astray>>,
         TreeOK(dirs', Spaces),
         \A i \in Layouts, s \in Spaces :
           /\ In(dirs', i, s) = In(dirs, i, s)
           /\ dirs[i][s] # None => dirs'[i][s] # None
  PROVE  PathsOK' /\ FilesOK' /\ NamesOK' /\ TracesOK' /\ LinesOK'
<1>1. PathsOK' /\ FilesOK'
  BY DEF LayoutInv, PathsOK, FilesOK, Resolved
<1>2. NamesOK' /\ TracesOK'
  BY DEF LayoutInv, NamesOK, TracesOK, Layouts, Spaces
<1>3. LinesOK'
  BY DEF LayoutInv, LinesOK, Layouts, Spaces
<1>. QED  BY <1>1, <1>2, <1>3

LEMMA MakeKeeps ==
  ASSUME LayoutInv, Make  PROVE LayoutInv'
<1>. USE DEF LayoutInv
<1>1. mig.pc = "run" /\ mig.at \in 1 .. 11 /\ mig = [pc |-> "run", at |-> mig.at] /\ half
  BY Running DEF Make, At
<1>2. /\ What \in Spaces /\ mig.at \in 1 .. 3
      /\ \/ mig.at = 1 /\ What = "skills"
         \/ mig.at = 2 /\ What = "playbooks"
         \/ mig.at = 3 /\ What = "traces"
  <2>1. At("make")
    BY DEF Make
  <2>2. \/ mig.at = 1 /\ What = "skills"
        \/ mig.at = 2 /\ What = "playbooks"
        \/ mig.at = 3 /\ What = "traces"
    BY <1>1, <2>1, StepIs
  <2>. QED  BY <2>2 DEF Spaces
<1>3. /\ TreeOK(dirs', Spaces) /\ dirs'[2][What] # None
      /\ \A i \in Layouts, s \in Spaces :
           /\ In(dirs', i, s) = In(dirs, i, s)
           /\ dirs[i][s] # None => dirs'[i][s] # None
  <2>1. CASE dirs[2][What] # None
    <3>1. dirs' = dirs
      BY <2>1 DEF Make
    <3>. QED  BY <2>1, <3>1 DEF PathsOK
  <2>2. CASE dirs[2][What] = None
    <3>1. dirs' = [dirs EXCEPT ![2][What] = NoNames]
      BY <2>2 DEF Make
    <3>2. /\ TreeOK(dirs', Spaces) /\ dirs'[2][What] = NoNames
          /\ In(dirs', 2, What) = NoNames
          /\ \A j \in Layouts, t \in Spaces :
               (j # 2 \/ t # What) => dirs'[j][t] = dirs[j][t] /\ In(dirs', j, t) = In(dirs, j, t)
      <4>. HIDE DEF What
      <4>. QED  BY <1>2, <3>1, NoneIsNothing, OneDir DEF Layouts
    <3>3. In(dirs, 2, What) = NoNames
      BY <2>2 DEF In
    <3>4. TreeOK(dirs', Spaces) /\ dirs'[2][What] # None
      BY <3>2, NoneIsNothing
    <3>5. ASSUME NEW i \in Layouts, NEW s \in Spaces
          PROVE  /\ In(dirs', i, s) = In(dirs, i, s)
                 /\ dirs[i][s] # None => dirs'[i][s] # None
      <4>1. CASE i = 2 /\ s = What
        BY <3>2, <3>3, <3>4, <4>1
      <4>2. CASE ~(i = 2 /\ s = What)
        BY <3>2, <4>2
      <4>. QED  BY <4>1, <4>2
    <3>. QED  BY <3>4, <3>5
  <2>. QED  BY <2>1, <2>2
<1>4. UNCHANGED <<files, half, runs, latest, entries, astray>> /\ mig' = Advanced
  BY DEF Make
<1>5. PathsOK' /\ FilesOK' /\ NamesOK' /\ TracesOK' /\ LinesOK'
  BY <1>3, <1>4, EmptyDirs
<1>7. RunsOK'
  BY <1>3, <1>4 DEF RunsOK, Layouts, Spaces
<1>6. MigOK'
  <2>1. mig' = [pc |-> "run", at |-> mig.at + 1]
    BY <1>1, <1>4 DEF Advanced
  <2>2. /\ Reached(1) => dirs[2]["skills"] # None
        /\ Reached(2) => dirs[2]["playbooks"] # None
    BY DEF MigOK
  <2>3. mig'.pc = "run" /\ mig'.at \in 2 .. 4 /\ mig'.at = mig.at + 1 /\ half'
    BY <1>1, <1>2, <1>4, <2>1
  <2>. QED  BY <1>1, <1>2, <1>3, <2>1, <2>2, <2>3 DEF MigOK, Reached, Layouts, Spaces
<1>. QED  BY <1>5, <1>6, <1>7

\* The migration has gone on, and what it has copied is still there.
LEMMA Further ==
  ASSUME MigOK, half' = half, half, mig.at \in 4 .. 10, mig = [pc |-> "run", at |-> mig.at],
         mig' = mig \/ mig' = Advanced,
         \A s \in Spaces : dirs[2][s] # None => dirs'[2][s] # None,
         \A s \in Spaces : Carried(dirs, astray, s) => Carried(dirs', astray', s),
         mig' # mig => /\ mig.at = 7 => Carried(dirs', astray', "skills")
                       /\ mig.at = 8 => Carried(dirs', astray', "playbooks")
                       /\ mig.at = 9 => Carried(dirs', astray', "traces")
  PROVE  MigOK'
<1>1. mig' = [pc |-> "run", at |-> mig.at + 1] \/ mig' = mig
  BY AdvancedIs
<1>. mig.pc = "run" /\ mig.at \in 4 .. 10
  OBVIOUS
<1>2. /\ dirs[2]["skills"] # None /\ dirs[2]["playbooks"] # None /\ dirs[2]["traces"] # None
      /\ mig.at > 7 => Carried(dirs, astray, "skills")
      /\ mig.at > 8 => Carried(dirs, astray, "playbooks")
      /\ mig.at > 9 => Carried(dirs, astray, "traces")
  BY DEF MigOK, Reached
<1>3. /\ dirs'[2]["skills"] # None /\ dirs'[2]["playbooks"] # None
      /\ dirs'[2]["traces"] # None
  BY <1>2 DEF Spaces
<1>4. CASE mig' = mig
  BY <1>2, <1>3, <1>4 DEF MigOK, Reached, Spaces
<1>5. CASE mig' # mig
  <2>1. mig'.pc = "run" /\ mig'.at = mig.at + 1 /\ mig' = [pc |-> "run", at |-> mig'.at]
    BY <1>1, <1>5
  <2>2. /\ mig.at >= 7 => Carried(dirs', astray', "skills")
        /\ mig.at >= 8 => Carried(dirs', astray', "playbooks")
        /\ mig.at >= 9 => Carried(dirs', astray', "traces")
    BY <1>2, <1>5 DEF Spaces
  <2>. QED  BY <1>3, <2>1, <2>2 DEF MigOK, Reached
<1>. QED  BY <1>4, <1>5

LEMMA CopyFileKeeps ==
  ASSUME LayoutInv, CopyFile  PROVE LayoutInv'
<1>. USE DEF LayoutInv
<1>1. mig.pc = "run" /\ mig.at \in 1 .. 11 /\ mig = [pc |-> "run", at |-> mig.at] /\ half
  BY Running DEF CopyFile, At
<1>2. What \in Artifacts /\ mig.at \in {4, 5, 6, 10}
  BY <1>1, StepIs DEF CopyFile
<1>3. /\ TreeOK(files', Artifacts)
      /\ \A a \in Artifacts : (Resolved(a))' = Resolved(a)
  <2>1. CASE Copied(What)
    <3>1. files' = [files EXCEPT ![2][What] = files[1][What]]
      BY <2>1 DEF CopyFile
    <3>. QED  BY <1>2, <2>1, <3>1 DEF Copied, Resolved, PathsOK, TreeOK, Layouts
  <2>2. CASE ~Copied(What)
    BY <2>2 DEF CopyFile, Resolved, PathsOK
  <2>. QED  BY <2>1, <2>2
<1>4. UNCHANGED <<dirs, half, runs, latest, entries, astray>> /\ mig' = Advanced
  BY DEF CopyFile
<1>5. PathsOK' /\ FilesOK'
  BY <1>3, <1>4 DEF PathsOK, FilesOK, In
<1>6. NamesOK' /\ TracesOK' /\ RunsOK' /\ LinesOK'
  BY <1>4 DEF NamesOK, TracesOK, RunsOK, LinesOK, In
<1>7. MigOK'
  BY <1>1, <1>2, <1>4, Further DEF Carried, In
<1>. QED  BY <1>5, <1>6, <1>7

\* One more name in place 2.
LEMMA OneName ==
  ASSUME LayoutInv, NEW s \in Spaces, NEW n \in DOMAIN entries[s], NEW c,
         dirs' = [dirs EXCEPT ![2][s] = Put(dirs[2][s], n, c)],
         n \notin DOMAIN In(dirs, 2, s)
  PROVE  /\ TreeOK(dirs', Spaces)
         /\ \A t \in Spaces : dirs[2][t] # None => dirs'[2][t] # None
         /\ \A j \in Layouts, t \in Spaces : (j # 2 \/ t # s) => In(dirs', j, t) = In(dirs, j, t)
         /\ In(dirs', 1, s) = In(dirs, 1, s)
         /\ DOMAIN In(dirs', 2, s) = DOMAIN In(dirs, 2, s) \cup {n} /\ In(dirs', 2, s)[n] = c
         /\ \A m \in DOMAIN In(dirs, 2, s) : In(dirs', 2, s)[m] = In(dirs, 2, s)[m]
         /\ \A i \in Layouts : dirs[i][s] # None => dirs'[i][s] # None
<1>. DEFINE d == Put(dirs[2][s], n, c)
<1>1. /\ d # None /\ DOMAIN d = DOMAIN In(dirs, 2, s) \cup {n} /\ d[n] = c
      /\ \A m \in DOMAIN In(dirs, 2, s) : m # n => d[m] = In(dirs, 2, s)[m]
  <2>1. n \in EntryNames /\ PathsOK /\ 2 \in Layouts
    BY DEF LayoutInv, PathsOK, Layouts
  <2>2. \A e : e = Put(dirs[2][s], n, c) =>
          /\ e # None /\ DOMAIN e = DOMAIN In(dirs, 2, s) \cup {n} /\ e[n] = c
          /\ \A m \in DOMAIN In(dirs, 2, s) : m # n => e[m] = In(dirs, 2, s)[m]
    BY <2>1, PutIs
  <2>. QED  BY <2>2
<1>. HIDE DEF d
<1>2. dirs' = [dirs EXCEPT ![2][s] = d]
  BY DEF d
<1>3. /\ TreeOK(dirs', Spaces)
      /\ dirs'[2][s] = d /\ In(dirs', 2, s) = d
      /\ \A j \in Layouts, t \in Spaces : (j # 2 \/ t # s) => dirs'[j][t] = dirs[j][t] /\ In(dirs', j, t) = In(dirs, j, t)
  <2>1. PathsOK /\ 2 \in Layouts
    BY DEF LayoutInv, Layouts
  <2>. QED  BY <1>1, <1>2, <2>1 DEF PathsOK, TreeOK, In
<1>4. \A i \in Layouts, t \in Spaces : dirs[i][t] # None => dirs'[i][t] # None
  BY <1>1, <1>3
<1>5. 1 \in Layouts /\ 2 \in Layouts
  BY DEF Layouts
<1>6. \A t \in Spaces : dirs[2][t] # None => dirs'[2][t] # None
  BY <1>4, <1>5
<1>7. \A i \in Layouts : dirs[i][s] # None => dirs'[i][s] # None
  BY <1>4
<1>8. \A m \in DOMAIN In(dirs, 2, s) : In(dirs', 2, s)[m] = In(dirs, 2, s)[m]
  BY <1>1, <1>3
<1>9. In(dirs', 1, s) = In(dirs, 1, s)
  <2>1. dirs'[1][s] = dirs[1][s]
    BY <1>3, <1>5
  <2>. QED  BY <2>1 DEF In
<1>. QED  BY <1>1, <1>3, <1>6, <1>7, <1>8, <1>9

\* What a copy of one name leaves as it should be.
LEMMA OneCopy ==
  ASSUME LayoutInv, NEW s \in Spaces, NEW n \in DOMAIN In(dirs, 1, s), NEW c,
         n \notin DOMAIN In(dirs, 2, s),
         dirs' = [dirs EXCEPT ![2][s] = Put(dirs[2][s], n, c)],
         UNCHANGED <<files, runs, latest, entries>>,
         s # "traces" => astray' = astray /\ c \in {In(dirs, 1, s)[n], Torn},
         s = "traces" =>
           /\ c \in Seq(Lines) /\ Tells(c, entries["traces"][n])
           /\ \/ astray' = astray /\ c = In(dirs, 1, s)[n]
              \/ astray' = astray \cup {n}
  PROVE  /\ PathsOK' /\ FilesOK' /\ NamesOK' /\ TracesOK' /\ RunsOK' /\ LinesOK'
         /\ \A t \in Spaces : dirs[2][t] # None => dirs'[2][t] # None
         /\ \A t \in Spaces : Carried(dirs, astray, t) => Carried(dirs', astray', t)
<1>. USE DEF LayoutInv
<1>0. 1 \in Layouts /\ 2 \in Layouts /\ Layouts = {1, 2}
  BY DEF Layouts
<1>1. n \in DOMAIN entries[s]
  BY <1>0 DEF PathsOK
<1>2. /\ TreeOK(dirs', Spaces)
      /\ \A t \in Spaces : dirs[2][t] # None => dirs'[2][t] # None
      /\ \A j \in Layouts, t \in Spaces : (j # 2 \/ t # s) => In(dirs', j, t) = In(dirs, j, t)
      /\ In(dirs', 1, s) = In(dirs, 1, s)
      /\ DOMAIN In(dirs', 2, s) = DOMAIN In(dirs, 2, s) \cup {n} /\ In(dirs', 2, s)[n] = c
      /\ \A m \in DOMAIN In(dirs, 2, s) : In(dirs', 2, s)[m] = In(dirs, 2, s)[m]
      /\ \A i \in Layouts : dirs[i][s] # None => dirs'[i][s] # None
  BY <1>1, OneName
<1>3. \A t \in Spaces : In(dirs', 1, t) = In(dirs, 1, t)
  BY <1>0, <1>2
<1>4. \A t \in Spaces : t # s => In(dirs', 2, t) = In(dirs, 2, t)
  BY <1>0, <1>2
<1>5. PathsOK' /\ FilesOK'
  <2>1. ASSUME NEW i \in Layouts, NEW t \in Spaces
        PROVE  DOMAIN In(dirs', i, t) \subseteq DOMAIN entries[t]
    <3>1. DOMAIN In(dirs, i, t) \subseteq DOMAIN entries[t]
      BY DEF PathsOK
    <3>2. CASE i = 2 /\ t = s
      <4>1. DOMAIN In(dirs', 2, s) = DOMAIN In(dirs, 2, s) \cup {n}
        BY <1>2
      <4>. QED  BY <1>1, <3>1, <3>2, <4>1
    <3>3. CASE i # 2 \/ t # s
      <4>1. In(dirs', i, t) = In(dirs, i, t)
        BY <1>2, <3>3
      <4>. QED  BY <3>1, <4>1
    <3>. QED  BY <3>2, <3>3
  <2>. QED  BY <1>2, <2>1 DEF PathsOK, FilesOK, Resolved
<1>6. NamesOK'
  <2>1. ASSUME NEW t \in Spaces \ {"traces"}, NEW m \in DOMAIN entries[t]
        PROVE  \/ m \in DOMAIN In(dirs', 2, t) /\ In(dirs', 2, t)[m] \in {entries[t][m], Torn}
               \/ /\ m \notin DOMAIN In(dirs', 2, t)
                  /\ m \in DOMAIN In(dirs', 1, t) /\ In(dirs', 1, t)[m] \in {entries[t][m], Torn}
    <3>1. CASE t # s
      BY <1>3, <1>4, <3>1 DEF NamesOK
    <3>2. CASE t = s /\ m # n
      BY <1>2, <1>3, <3>2 DEF NamesOK
    <3>3. CASE t = s /\ m = n
      BY <1>2, <1>3, <3>3 DEF NamesOK
    <3>. QED  BY <3>1, <3>2, <3>3
  <2>. QED  BY <2>1 DEF NamesOK
<1>7. TracesOK'
  <2>1. CASE s = "traces"
    <3>1. ASSUME NEW r \in DOMAIN entries["traces"] \ astray'
          PROVE  \/ /\ r \in DOMAIN In(dirs', 2, s)
                    /\ In(dirs', 2, s)[r] = entries["traces"][r]
                 \/ /\ r \notin DOMAIN In(dirs', 2, s)
                    /\ r \in DOMAIN In(dirs', 1, s)
                    /\ In(dirs', 1, s)[r] = entries["traces"][r]
      <4>1. r \notin astray
        BY <2>1
      <4>2. CASE r = n
        BY <1>2, <2>1, <4>1, <4>2 DEF TracesOK
      <4>3. CASE r # n
        <5>1. In(dirs', 1, s) = In(dirs, 1, s) /\ DOMAIN In(dirs', 2, s) = DOMAIN In(dirs, 2, s) \cup {n}
          BY <1>2
        <5>2. r \in DOMAIN In(dirs', 2, s) <=> r \in DOMAIN In(dirs, 2, s)
          BY <4>3, <5>1
        <5>3. r \in DOMAIN In(dirs, 2, s) => In(dirs', 2, s)[r] = In(dirs, 2, s)[r]
          BY <1>2
        <5>4. \/ r \in DOMAIN In(dirs, 2, s) /\ In(dirs, 2, s)[r] = entries["traces"][r]
              \/ /\ r \notin DOMAIN In(dirs, 2, s)
                 /\ r \in DOMAIN In(dirs, 1, s) /\ In(dirs, 1, s)[r] = entries["traces"][r]
          BY <2>1, <4>1 DEF TracesOK
        <5>. QED  BY <5>1, <5>2, <5>3, <5>4
      <4>. QED  BY <4>2, <4>3
    <3>. QED  BY <2>1, <3>1 DEF TracesOK
  <2>2. CASE s # "traces"
    BY <1>3, <1>4, <2>2 DEF TracesOK, Spaces
  <2>. QED  BY <2>1, <2>2
<1>8. RunsOK'
  <2>1. ASSUME NEW r \in DOMAIN runs
        PROVE  In(dirs', runs[r], "traces") = In(dirs, runs[r], "traces")
               \/ /\ r # n
                  /\ s = "traces" /\ runs[r] = 2
    BY <1>0, <1>2, <1>3 DEF RunsOK, Spaces
  <2>2. \A r \in DOMAIN runs : dirs'[runs[r]]["traces"] # None
    BY <1>0, <1>2 DEF RunsOK, Spaces, PathsOK, TreeOK
  <2>3. ASSUME NEW r \in DOMAIN runs
        PROVE /\ r \in DOMAIN In(dirs', runs[r], "traces") <=> r \in DOMAIN entries["traces"]
              /\ r \in DOMAIN entries["traces"] =>
                    In(dirs', runs[r], "traces")[r] = entries["traces"][r]
    <3>1. /\ r \in DOMAIN In(dirs, runs[r], "traces") <=> r \in DOMAIN entries["traces"]
          /\ r \in DOMAIN entries["traces"] =>
               In(dirs, runs[r], "traces")[r] = entries["traces"][r]
      BY DEF RunsOK
    <3>2. CASE In(dirs', runs[r], "traces") = In(dirs, runs[r], "traces")
      BY <3>1, <3>2
    <3>3. CASE r # n /\ s = "traces" /\ runs[r] = 2
      <4>1. DOMAIN In(dirs', 2, s) = DOMAIN In(dirs, 2, s) \cup {n}
        BY <1>2
      <4>2. r \in DOMAIN In(dirs, 2, s) => In(dirs', 2, s)[r] = In(dirs, 2, s)[r]
        BY <1>2
      <4>. QED  BY <3>1, <3>3, <4>1, <4>2
    <3>. QED  BY <2>1, <3>2, <3>3
  <2>. QED  BY <1>3, <2>2, <2>3 DEF RunsOK, Spaces
<1>9. LinesOK'
  <2>1. "traces" \in Spaces
    BY DEF Spaces
  <2>2. ASSUME NEW i \in Layouts, NEW r \in DOMAIN In(dirs', i, "traces")
        PROVE  /\ In(dirs', i, "traces")[r] \in Seq(Lines)
               /\ Tells(In(dirs', i, "traces")[r], entries["traces"][r])
    <3>1. CASE i = 1 \/ s # "traces"
      BY <1>0, <1>3, <1>4, <2>1, <3>1 DEF LinesOK
    <3>2. CASE i = 2 /\ s = "traces"
      <4>1. CASE r = n
        BY <1>2, <3>2, <4>1
      <4>2. CASE r # n
        <5>1. /\ r \in DOMAIN In(dirs, 2, "traces")
              /\ In(dirs', i, "traces")[r] = In(dirs, 2, "traces")[r]
          <6>1. r \in DOMAIN In(dirs', 2, s)
            BY <3>2
          <6>2. r \in DOMAIN In(dirs, 2, s)
            BY <1>2, <4>2, <6>1
          <6>3. In(dirs', 2, s)[r] = In(dirs, 2, s)[r]
            BY <1>2, <6>2
          <6>. QED  BY <3>2, <6>2, <6>3
        <5>. QED  BY <1>0, <5>1 DEF LinesOK
      <4>. QED  BY <4>1, <4>2
    <3>. QED  BY <1>0, <3>1, <3>2
  <2>3. \A r \in DOMAIN entries'["traces"] : entries'["traces"][r] \in Seq(Lines)
    BY DEF LinesOK
  <2>4. ASSUME NEW i \in Layouts, NEW r \in DOMAIN In(dirs', i, "traces")
        PROVE  /\ In(dirs', i, "traces")[r] \in Seq(Lines)
               /\ Tells(In(dirs', i, "traces")[r], entries'["traces"][r])
    <3>1. entries' = entries
      OBVIOUS
    <3>. QED  BY <2>2, <3>1
  <2>. QED  BY <2>3, <2>4 DEF LinesOK
<1>10. \A t \in Spaces : Carried(dirs, astray, t) => Carried(dirs', astray', t)
  <2>1. ASSUME NEW t \in Spaces, Carried(dirs, astray, t)  PROVE Carried(dirs', astray', t)
    <3>1. CASE t # s
      BY <1>3, <1>4, <2>1, <3>1 DEF Carried
    <3>2. CASE t = s
      BY <1>2, <1>3, <2>1, <3>2 DEF Carried
    <3>. QED  BY <3>1, <3>2
  <2>. QED  BY <2>1
<1>. QED  BY <1>2, <1>5, <1>6, <1>7, <1>8, <1>9, <1>10

LEMMA CopyEntryKeeps ==
  ASSUME LayoutInv, CopyEntry  PROVE LayoutInv'
<1>. USE DEF LayoutInv
<1>1. mig.pc = "run" /\ mig.at \in 1 .. 11 /\ mig = [pc |-> "run", at |-> mig.at] /\ half
  BY Running DEF CopyEntry, At
<1>2. What \in Spaces /\ mig.at \in 7 .. 9 /\ dirs[2][What] # None
  <2>1. \/ mig.at = 7 /\ What = "skills"
        \/ mig.at = 8 /\ What = "playbooks"
        \/ mig.at = 9 /\ What = "traces"
    BY <1>1, StepIs DEF CopyEntry
  <2>. QED  BY <1>1, <2>1 DEF MigOK, Reached, Spaces
<1>3. PICK n \in Missing(What) :
        dirs' = [dirs EXCEPT ![2][What] = Put(dirs[2][What], n, dirs[1][What][n])]
  BY DEF CopyEntry
<1>4. UNCHANGED <<files, mig, half, runs, latest, entries, astray>>
  BY DEF CopyEntry
<1>5. /\ n \in DOMAIN In(dirs, 1, What) /\ n \notin DOMAIN In(dirs, 2, What)
      /\ dirs[1][What][n] = In(dirs, 1, What)[n]
  BY <1>2, <1>3 DEF Missing, In
<1>6. DEFINE s == What  c == dirs[1][What][n]
<1>7. s = "traces" => c \in Seq(Lines) /\ Tells(c, entries["traces"][n])
  BY <1>5 DEF LinesOK, Layouts
<1>8. /\ PathsOK' /\ FilesOK' /\ NamesOK' /\ TracesOK' /\ RunsOK' /\ LinesOK'
      /\ \A t \in Spaces : dirs[2][t] # None => dirs'[2][t] # None
      /\ \A t \in Spaces : Carried(dirs, astray, t) => Carried(dirs', astray', t)
  <2>. HIDE DEF s, c
  <2>1. s \in Spaces /\ n \in DOMAIN In(dirs, 1, s) /\ n \notin DOMAIN In(dirs, 2, s)
        /\ c = In(dirs, 1, s)[n]
        /\ dirs' = [dirs EXCEPT ![2][s] = Put(dirs[2][s], n, c)]
    BY <1>2, <1>3, <1>5 DEF s, c
  <2>. QED  BY <1>4, <1>7, <2>1, OneCopy
<1>9. MigOK'
  BY <1>1, <1>2, <1>4, <1>8, Further
<1>. QED  BY <1>8, <1>9

LEMMA EndDirKeeps ==
  ASSUME LayoutInv, EndDir  PROVE LayoutInv'
<1>. USE DEF LayoutInv
<1>1. mig.pc = "run" /\ mig.at \in 1 .. 11 /\ mig = [pc |-> "run", at |-> mig.at] /\ half
  BY Running DEF EndDir, At
<1>2. UNCHANGED <<files, dirs, half, runs, latest, entries, astray>> /\ mig' = Advanced
  BY DEF EndDir
<1>3. \/ mig.at = 7 /\ What = "skills"
      \/ mig.at = 8 /\ What = "playbooks"
      \/ mig.at = 9 /\ What = "traces"
  BY <1>1, StepIs DEF EndDir
<1>4. dirs[2][What] # None
  BY <1>1, <1>3 DEF MigOK, Reached
<1>5. Carried(dirs, astray, What)
  BY <1>4 DEF EndDir, Missing, Carried, In, NoNames
<1>6. MigOK'
  BY <1>1, <1>2, <1>3, <1>5, Further
<1>7. PathsOK' /\ FilesOK'
  BY <1>2 DEF PathsOK, FilesOK, Resolved
<1>8. NamesOK' /\ TracesOK' /\ RunsOK' /\ LinesOK'
  BY <1>2 DEF NamesOK, TracesOK, RunsOK, LinesOK
<1>. QED  BY <1>6, <1>7, <1>8

LEMMA EndMigrationKeeps ==
  ASSUME LayoutInv, EndMigration  PROVE LayoutInv'
<1>. USE DEF LayoutInv
<1>1. mig.pc = "run" /\ mig.at = 11
  BY Running, ProgramIs DEF EndMigration
<1>2. UNCHANGED <<files, dirs, runs, latest, entries, astray>> /\ mig' = Idle
  BY DEF EndMigration
<1>3. \A s \in Spaces : Carried(dirs, astray, s)
  BY <1>1 DEF MigOK, Reached, Spaces
<1>4. Idle.pc # "run"
  BY DEF Idle
<1>5. MigOK'
  BY <1>2, <1>3, <1>4 DEF MigOK, Reached
<1>7. PathsOK' /\ FilesOK'
  BY <1>2 DEF PathsOK, FilesOK, Resolved
<1>8. NamesOK' /\ TracesOK' /\ RunsOK' /\ LinesOK'
  BY <1>2 DEF NamesOK, TracesOK, RunsOK, LinesOK
<1>. QED  BY <1>5, <1>7, <1>8

LEMMA KillKeeps ==
  ASSUME LayoutInv, Kill  PROVE LayoutInv'
<1>. USE DEF LayoutInv
<1>1. mig.pc = "run" /\ mig.at \in 1 .. 11 /\ mig = [pc |-> "run", at |-> mig.at] /\ half
  BY Running DEF Kill
<1>2. UNCHANGED <<half, runs, latest, entries>> /\ mig' = Idle
  BY DEF Kill
<1>3. MigOK'
  <2>1. Idle.pc # "run"
    BY DEF Idle
  <2>. QED  BY <1>1, <1>2, <2>1 DEF MigOK, Reached
<1>4. CASE UNCHANGED <<files, dirs, astray>>
  <2>1. PathsOK' /\ FilesOK'
    BY <1>2, <1>4 DEF PathsOK, FilesOK, Resolved
  <2>2. NamesOK' /\ TracesOK' /\ RunsOK' /\ LinesOK'
    BY <1>2, <1>4 DEF NamesOK, TracesOK, RunsOK, LinesOK
  <2>. QED  BY <1>3, <2>1, <2>2
<1>5. CASE /\ At("file") /\ UNCHANGED <<dirs, astray>>
           /\ files' = [files EXCEPT ![2][What] = Torn]
  <2>1. What \in Artifacts
    BY <1>1, <1>5, StepIs
  <2>2. PathsOK' /\ FilesOK'
    <3>. PICK w \in Artifacts : w = What
      BY <2>1
    <3>1. TreeOK(files', Artifacts) /\ files'[2][w] = Torn
          /\ \A a \in Artifacts : a # w => (Resolved(a))' = Resolved(a)
      BY <1>5, <2>1 DEF PathsOK, TreeOK, Layouts, Resolved
    <3>2. (Resolved(w))' = Torn
      BY <3>1, NoneIsNothing DEF Resolved
    <3>3. \A a \in Artifacts : (Resolved(a))' \in {latest[a], Torn}
      BY <3>1, <3>2 DEF FilesOK
    <3>. QED  BY <1>2, <1>5, <3>1, <3>3 DEF PathsOK, FilesOK
  <2>3. NamesOK' /\ TracesOK' /\ RunsOK' /\ LinesOK'
    BY <1>2, <1>5 DEF NamesOK, TracesOK, RunsOK, LinesOK
  <2>. QED  BY <1>3, <2>2, <2>3
<1>6. ASSUME At("dir"), UNCHANGED files, NEW n \in Missing(What), NEW copy \in {0, 1},
             dirs' = [dirs EXCEPT ![2][What] = Put(dirs[2][What], n,
                        IF What # "traces" THEN Torn
                        ELSE IF copy = 0 THEN <<>>
                        ELSE Append(Front(dirs[1][What][n]), TornLine))],
             astray' = IF What = "traces" THEN astray \cup {n} ELSE astray
      PROVE  LayoutInv'
  <2>1. What \in Spaces /\ mig.at \in 7 .. 9 /\ dirs[2][What] # None
    <3>1. \/ mig.at = 7 /\ What = "skills"
          \/ mig.at = 8 /\ What = "playbooks"
          \/ mig.at = 9 /\ What = "traces"
      BY <1>1, <1>6, StepIs
    <3>. QED  BY <1>1, <3>1 DEF MigOK, Reached, Spaces
  <2>2. /\ n \in DOMAIN In(dirs, 1, What) /\ n \notin DOMAIN In(dirs, 2, What)
        /\ dirs[1][What][n] = In(dirs, 1, What)[n]
    BY <1>6, <2>1 DEF Missing, In
  <2>. DEFINE s == What
              c == IF What # "traces" THEN Torn ELSE IF copy = 0 THEN <<>>
                   ELSE Append(Front(dirs[1][What][n]), TornLine)
  <2>3. s = "traces" => c \in Seq(Lines) /\ Tells(c, entries["traces"][n])
    <3>1. CASE copy = 0
      BY <3>1, EmptySeq DEF LinesOK, Layouts, Tells
    <3>2. CASE copy = 1 /\ s = "traces"
      <4>. DEFINE old == In(dirs, 1, "traces")[n]
      <4>1. old \in Seq(Lines)
        BY <2>2, <3>2 DEF LinesOK, Layouts
      <4>2. Front(old) = SubSeq(old, 1, Len(old) - 1)
        BY DEF Front
      <4>3. Front(old) \in Seq(Lines)
        <5>1. Len(old) \in Nat /\ \A i \in 1 .. Len(old) - 1 : old[i] \in Lines
          BY <4>1
        <5>. HIDE DEF old
        <5>. QED  BY <4>2, <5>1, SubSeqProperties
      <4>4. c = Append(Front(old), TornLine) /\ TornLine \in Lines
        BY <2>2, <3>2 DEF Lines
      <4>5. c \in Seq(Lines) /\ Len(c) = Len(Front(old)) + 1 /\ c[Len(c)] = TornLine
        <5>. HIDE DEF old, c
        <5>. QED  BY <4>3, <4>4
      <4>. HIDE DEF c, old
      <4>6. Len(c) \in 1 .. Len(c)
        BY <4>3, <4>5
      <4>. QED  BY <4>5, <4>6 DEF Tells
    <3>. QED  BY <3>1, <3>2
  <2>4. s # "traces" => astray' = astray /\ c \in {In(dirs, 1, s)[n], Torn}
    BY <1>6
  <2>5. s = "traces" => astray' = astray \cup {n}
    BY <1>6
  <2>6. PathsOK' /\ FilesOK' /\ NamesOK' /\ TracesOK' /\ RunsOK' /\ LinesOK'
    <3>1. s \in Spaces /\ n \in DOMAIN In(dirs, 1, s) /\ n \notin DOMAIN In(dirs, 2, s)
          /\ dirs' = [dirs EXCEPT ![2][s] = Put(dirs[2][s], n, c)]
      BY <1>6, <2>1, <2>2
    <3>. HIDE DEF s, c
    <3>. QED  BY <1>2, <1>6, <2>3, <2>4, <2>5, <3>1, OneCopy
  <2>. QED  BY <1>3, <2>6
<1>. QED  BY <1>4, <1>5, <1>6 DEF Kill

-----------------------------------------------------------------------------
(* Those who write.                                                        *)

LEMMA WriteKeeps ==
  ASSUME PathsOK, FilesOK, NEW layout \in Layouts, NEW a \in Artifacts, NEW content,
         layout = 2 => content # None, Write(layout, a, content),
         UNCHANGED <<dirs, entries>>
  PROVE  PathsOK' /\ FilesOK'
<1>1. 1 \in Layouts /\ 2 \in Layouts /\ Layouts = {1, 2}
  BY DEF Layouts
<1>2. /\ TreeOK(files', Artifacts) /\ files'[layout][a] = content
      /\ \A i \in Layouts, b \in Artifacts :
           (i # layout \/ b # a) => files'[i][b] = files[i][b]
  BY DEF Write, PathsOK, TreeOK
<1>3. \A b \in Artifacts : b # a =>
        (Resolved(b))' = Resolved(b) /\ latest'[b] = latest[b]
  BY <1>1, <1>2 DEF Resolved, Write, PathsOK
<1>4. (Resolved(a))' \in {latest'[a], Torn}
  <2>1. CASE layout = 1 /\ files[2][a] # None
    BY <1>1, <1>2, <2>1 DEF Write, FilesOK, Resolved
  <2>2. CASE ~(layout = 1 /\ files[2][a] # None)
    <3>1. latest'[a] = content
      BY <2>2 DEF Write, PathsOK
    <3>2. CASE layout = 1
      BY <1>1, <1>2, <2>2, <3>1, <3>2 DEF Resolved
    <3>3. CASE layout = 2
      BY <1>1, <1>2, <3>1, <3>3 DEF Resolved
    <3>. QED  BY <1>1, <3>2, <3>3
  <2>. QED  BY <2>1, <2>2
<1>5. DOMAIN latest' = Artifacts
  BY DEF Write, PathsOK
<1>. QED  BY <1>2, <1>3, <1>4, <1>5 DEF PathsOK, FilesOK

LEMMA FileWritten ==
  ASSUME LayoutInv, PathsOK', FilesOK',
         UNCHANGED <<dirs, mig, half, runs, entries, astray>>
  PROVE  LayoutInv'
<1>1. MigOK'
  BY DEF LayoutInv, MigOK, Reached
<1>2. NamesOK' /\ TracesOK' /\ RunsOK' /\ LinesOK'
  BY DEF LayoutInv, NamesOK, TracesOK, RunsOK, LinesOK
<1>. QED  BY <1>1, <1>2 DEF LayoutInv

LEMMA SaveSessionKeeps ==
  ASSUME LayoutInv, NEW n, SaveSession(n)  PROVE LayoutInv'
<1>1. PICK layout \in Layouts : Write(layout, "session", Version(n))
  BY DEF SaveSession, Layouts
<1>2. UNCHANGED <<dirs, mig, half, runs, entries, astray>> /\ "session" \in Artifacts
  BY DEF SaveSession, Artifacts
<1>3. PathsOK' /\ FilesOK'
  BY <1>1, <1>2, WriteKeeps, NoneIsNothing DEF LayoutInv
<1>. QED  BY <1>2, <1>3, FileWritten

LEMMA ImportKeeps ==
  ASSUME LayoutInv, NEW n, Import(n)  PROVE LayoutInv'
<1>1. Write(1, "constitution", Version(n)) /\ 1 \in Layouts
  BY DEF Import, Layouts
<1>2. UNCHANGED <<dirs, mig, half, runs, entries, astray>> /\ "constitution" \in Artifacts
  BY DEF Import, Artifacts
<1>3. PathsOK' /\ FilesOK'
  BY <1>1, <1>2, WriteKeeps, NoneIsNothing DEF LayoutInv
<1>. QED  BY <1>2, <1>3, FileWritten

LEMMA ApplyKeeps ==
  ASSUME LayoutInv, NEW k, Apply(k)  PROVE LayoutInv'
<1>1. UNCHANGED <<dirs, mig, half, runs, entries, astray>>
  BY DEF Apply
<1>2. CASE UNCHANGED <<files, latest>>
  BY <1>1, <1>2, FileWritten DEF LayoutInv, PathsOK, FilesOK, Resolved
<1>3. ASSUME NEW content, Write(1, "constitution", content)  PROVE LayoutInv'
  <2>1. PathsOK' /\ FilesOK'
    BY <1>1, <1>3, WriteKeeps DEF LayoutInv, Layouts, Artifacts
  <2>. QED  BY <1>1, <2>1, FileWritten
<1>. QED  BY <1>2, <1>3 DEF Apply

LEMMA RecompileKeeps ==
  ASSUME LayoutInv, NEW n, Recompile(n)  PROVE LayoutInv'
<1>. USE DEF LayoutInv
<1>. DEFINE written == {"constitution", "guardrails", "memory"}
            name(s) == IF s = "skills" THEN "manifest" ELSE "playbook"
<1>0. 1 \in Layouts /\ 2 \in Layouts /\ Layouts = {1, 2}
  BY DEF Layouts
<1>1. /\ files' = [files EXCEPT ![2] = [a \in Artifacts |->
                     IF a \in written THEN Version(n) ELSE files[2][a]]]
      /\ latest' = [a \in Artifacts |->
                     IF a \in written THEN Version(n) ELSE latest[a]]
      /\ dirs' = [i \in Layouts |-> [s \in Spaces |->
                    IF s # "traces" /\ i = Place(s)
                      THEN Put(dirs[i][s], name(s), Version(n)) ELSE dirs[i][s]]]
      /\ entries' = [s \in Spaces |-> IF s = "traces" THEN entries[s]
                       ELSE Put(entries[s], name(s), Version(n))]
      /\ UNCHANGED <<mig, half, runs, astray>>
  BY DEF Recompile
<1>2. FilesOK' /\ TreeOK(files', Artifacts) /\ DOMAIN latest' = Artifacts
  <2>1. /\ TreeOK(files', Artifacts) /\ DOMAIN latest' = Artifacts
        /\ \A a \in Artifacts : files'[1][a] = files[1][a]
    BY <1>0, <1>1 DEF PathsOK, TreeOK
  <2>2. ASSUME NEW a \in Artifacts  PROVE (Resolved(a))' \in {latest'[a], Torn}
    <3>1. CASE a \in written
      <4>1. files'[2][a] = Version(n) /\ latest'[a] = Version(n)
        BY <1>0, <1>1, <3>1 DEF PathsOK, TreeOK
      <4>. QED  BY <4>1, NoneIsNothing DEF Resolved
    <3>2. CASE a \notin written
      <4>1. files'[2][a] = files[2][a] /\ latest'[a] = latest[a]
        BY <1>0, <1>1, <3>2 DEF PathsOK, TreeOK
      <4>. QED  BY <2>1, <4>1 DEF Resolved, FilesOK
    <3>. QED  BY <3>1, <3>2
  <2>. QED  BY <2>1, <2>2 DEF FilesOK
<1>3. TreeOK(dirs', Spaces) /\ DOMAIN entries' = Spaces
  BY <1>1 DEF TreeOK
<1>4. /\ \A i \in Layouts : dirs'[i]["traces"] = dirs[i]["traces"]
      /\ \A i \in Layouts : In(dirs', i, "traces") = In(dirs, i, "traces")
      /\ entries'["traces"] = entries["traces"]
  BY <1>1 DEF Spaces, In
<1>5. TracesOK' /\ RunsOK' /\ LinesOK'
  <2>1. TracesOK'
    BY <1>0, <1>1, <1>4 DEF TracesOK
  <2>2. RunsOK'
    <3>1. ASSUME NEW r \in DOMAIN runs
          PROVE  /\ dirs'[runs[r]]["traces"] = dirs[runs[r]]["traces"]
                 /\ In(dirs', runs[r], "traces") = In(dirs, runs[r], "traces")
      BY <1>4 DEF RunsOK
    <3>. QED  BY <1>0, <1>1, <1>4, <3>1 DEF RunsOK
  <2>3. LinesOK'
    BY <1>4 DEF LinesOK
  <2>. QED  BY <2>1, <2>2, <2>3
\* A space that is written: the name is now where readers look.
<1>6. ASSUME NEW s \in Spaces \ {"traces"}
      PROVE  /\ \A i \in Layouts : /\ i # Place(s) => dirs'[i][s] = dirs[i][s]
                                   /\ i # Place(s) => In(dirs', i, s) = In(dirs, i, s)
             /\ Place(s) \in Layouts
             /\ \A i \in Layouts : i = Place(s) =>
                  /\ dirs'[i][s] # None
                  /\ DOMAIN In(dirs', i, s) = DOMAIN In(dirs, i, s) \cup {name(s)}
                  /\ In(dirs', i, s)[name(s)] = Version(n)
                  /\ \A m \in DOMAIN In(dirs, i, s) :
                       m # name(s) => In(dirs', i, s)[m] = In(dirs, i, s)[m]
             /\ DOMAIN entries'[s] = DOMAIN entries[s] \cup {name(s)}
             /\ entries'[s][name(s)] = Version(n)
             /\ \A m \in DOMAIN entries[s] : m # name(s) => entries'[s][m] = entries[s][m]
             /\ name(s) \in EntryNames
  <2>1. name(s) \in EntryNames
    BY DEF EntryNames
  <2>2. PICK p \in Layouts : p = Place(s)
    BY <1>0 DEF Place
  <2>3. PICK w \in EntryNames : w = name(s)
    BY <2>1
  <2>. HIDE DEF name
  <2>4. \A i \in Layouts : /\ i # p => dirs'[i][s] = dirs[i][s]
                           /\ i # p => In(dirs', i, s) = In(dirs, i, s)
    BY <1>1, <2>2 DEF In
  <2>. DEFINE d == Put(dirs[p][s], w, Version(n))
  <2>5. /\ d # None /\ DOMAIN d = DOMAIN In(dirs, p, s) \cup {w} /\ d[w] = Version(n)
        /\ \A m \in DOMAIN In(dirs, p, s) : m # w => d[m] = In(dirs, p, s)[m]
    <3>. PICK c : c = Version(n)
      OBVIOUS
    <3>1. d = Put(dirs[p][s], w, c) /\ PathsOK /\ s \in Spaces
      OBVIOUS
    <3>. HIDE DEF d, written, LayoutInv
    <3>. QED  BY <3>1, PutIs
  <2>6. dirs'[p][s] = d
    BY <1>1, <2>2, <2>3
  <2>7. In(dirs', p, s) = d /\ dirs'[p][s] # None
    BY <2>5, <2>6 DEF In
  <2>8. /\ DOMAIN entries'[s] = DOMAIN entries[s] \cup {w}
        /\ entries'[s][w] = Version(n)
        /\ \A m \in DOMAIN entries[s] : m # w => entries'[s][m] = entries[s][m]
    <3>1. entries'[s] = Put(entries[s], w, Version(n))
      BY <1>1, <2>3
    <3>2. entries[s] # None
      BY NoneIsNothing DEF PathsOK
    <3>. QED  BY <3>1, <3>2 DEF Put
  <2>. HIDE DEF d
  <2>. QED  BY <2>2, <2>3, <2>4, <2>5, <2>7, <2>8
<1>. HIDE DEF name
<1>a. ASSUME NEW s \in Spaces \ {"traces"}, Place(s) = 1
      PROVE  dirs'[2][s] = dirs[2][s] /\ In(dirs', 2, s) = In(dirs, 2, s)
  <2>1. dirs'[2][s] = dirs[2][s]
    BY <1>0, <1>1, <1>a
  <2>. QED  BY <2>1 DEF In
<1>b. ASSUME NEW s \in Spaces \ {"traces"}, Place(s) = 2
      PROVE  dirs'[1][s] = dirs[1][s] /\ In(dirs', 1, s) = In(dirs, 1, s)
  <2>1. dirs'[1][s] = dirs[1][s]
    BY <1>0, <1>1, <1>b
  <2>. QED  BY <2>1 DEF In
<1>c. ASSUME NEW s \in Spaces \ {"traces"}, NEW i \in Layouts, i = Place(s), NEW m, m # name(s)
      PROVE  /\ m \in DOMAIN In(dirs', i, s) <=> m \in DOMAIN In(dirs, i, s)
             /\ m \in DOMAIN In(dirs, i, s) => In(dirs', i, s)[m] = In(dirs, i, s)[m]
  <2>1. /\ DOMAIN In(dirs', i, s) = DOMAIN In(dirs, i, s) \cup {name(s)}
        /\ \A k \in DOMAIN In(dirs, i, s) :
             k # name(s) => In(dirs', i, s)[k] = In(dirs, i, s)[k]
    BY <1>6, <1>c
  <2>. QED  BY <1>c, <2>1
<1>7. PathsOK'
  <2>1. ASSUME NEW s \in Spaces  PROVE DOMAIN entries'[s] \subseteq EntryNames
    <3>1. CASE s = "traces"
      BY <1>4, <3>1 DEF PathsOK
    <3>2. CASE s # "traces"
      <4>1. DOMAIN entries'[s] = DOMAIN entries[s] \cup {name(s)} /\ name(s) \in EntryNames
        BY <1>6, <3>2
      <4>. QED  BY <4>1 DEF PathsOK
    <3>. QED  BY <3>1, <3>2
  <2>2. ASSUME NEW i \in Layouts, NEW s \in Spaces
        PROVE  DOMAIN In(dirs', i, s) \subseteq DOMAIN entries'[s]
    <3>1. CASE s = "traces"
      BY <1>4, <3>1 DEF PathsOK
    <3>2. CASE s # "traces" /\ i # Place(s)
      BY <1>6, <3>2 DEF PathsOK
    <3>3. CASE s # "traces" /\ i = Place(s)
      <4>1. /\ DOMAIN In(dirs', i, s) = DOMAIN In(dirs, i, s) \cup {name(s)}
            /\ DOMAIN entries'[s] = DOMAIN entries[s] \cup {name(s)}
        BY <1>6, <3>3
      <4>. QED  BY <4>1 DEF PathsOK
    <3>. QED  BY <3>1, <3>2, <3>3
  <2>. QED  BY <1>2, <1>3, <2>1, <2>2 DEF PathsOK
<1>8. NamesOK'
  <2>1. ASSUME NEW s \in Spaces \ {"traces"}, NEW m \in DOMAIN entries'[s]
        PROVE  \/ m \in DOMAIN In(dirs', 2, s) /\ In(dirs', 2, s)[m] \in {entries'[s][m], Torn}
               \/ /\ m \notin DOMAIN In(dirs', 2, s)
                  /\ m \in DOMAIN In(dirs', 1, s)
                  /\ In(dirs', 1, s)[m] \in {entries'[s][m], Torn}
    <3>1. CASE Place(s) = 2
      <4>1. CASE m = name(s)
        BY <1>0, <1>6, <3>1, <4>1
      <4>2. CASE m # name(s)
        <5>1. m \in DOMAIN entries[s] /\ entries'[s][m] = entries[s][m]
          BY <1>6, <4>2
        <5>2. /\ m \in DOMAIN In(dirs', 2, s) <=> m \in DOMAIN In(dirs, 2, s)
              /\ m \in DOMAIN In(dirs, 2, s) => In(dirs', 2, s)[m] = In(dirs, 2, s)[m]
          BY <1>0, <1>c, <3>1, <4>2
        <5>3. \/ m \in DOMAIN In(dirs, 2, s) /\ In(dirs, 2, s)[m] \in {entries[s][m], Torn}
              \/ /\ m \notin DOMAIN In(dirs, 2, s)
                 /\ m \in DOMAIN In(dirs, 1, s) /\ In(dirs, 1, s)[m] \in {entries[s][m], Torn}
          BY <5>1 DEF NamesOK
        <5>. QED  BY <5>1, <5>2, <5>3, <1>b, <3>1

      <4>. QED  BY <4>1, <4>2
    <3>2. CASE Place(s) = 1
      <4>1. DOMAIN In(dirs', 2, s) = {}
        <5>1. dirs[2][s] = None
          BY <3>2 DEF Place
        <5>2. dirs'[2][s] = None
          BY <1>a, <3>2, <5>1
        <5>. QED  BY <5>2 DEF In, NoNames
      <4>2. DOMAIN In(dirs, 2, s) = {}
        BY <1>0, <1>6, <3>2, <4>1
      <4>3. CASE m = name(s)
        BY <1>0, <1>6, <3>2, <4>1, <4>3
      <4>4. CASE m # name(s)
        <5>1. m \in DOMAIN entries[s] /\ entries'[s][m] = entries[s][m]
          BY <1>6, <4>4
        <5>2. m \in DOMAIN In(dirs, 1, s) =>
                /\ m \in DOMAIN In(dirs', 1, s)
                /\ In(dirs', 1, s)[m] = In(dirs, 1, s)[m]
          BY <1>0, <1>c, <3>2, <4>4
        <5>3. m \in DOMAIN In(dirs, 1, s) /\ In(dirs, 1, s)[m] \in {entries[s][m], Torn}
          BY <4>2, <5>1 DEF NamesOK
        <5>. QED  BY <4>1, <5>1, <5>2, <5>3
      <4>. QED  BY <4>3, <4>4
    <3>. QED  BY <1>0, <1>6, <3>1, <3>2
  <2>. QED  BY <2>1 DEF NamesOK
<1>9. MigOK'
  <2>1. \A s \in Spaces : dirs[2][s] # None => dirs'[2][s] # None
    BY <1>0, <1>4, <1>6
  <2>2. ASSUME NEW s \in Spaces, Carried(dirs, astray, s)
        PROVE  Carried(dirs', astray', s) \/ dirs'[2][s] = None
    <3>1. CASE s = "traces"
      BY <1>0, <1>1, <1>4, <2>2, <3>1 DEF Carried
    <3>2. CASE s # "traces" /\ Place(s) = 2
      <4>0. s \in Spaces \ {"traces"}
        BY <3>2
      <4>1. In(dirs', 1, s) = In(dirs, 1, s)
        <5>1. \A i \in Layouts : i # Place(s) => In(dirs', i, s) = In(dirs, i, s)
          BY <1>6, <4>0
        <5>. QED  BY <1>0, <3>2, <5>1
      <4>2. DOMAIN In(dirs, 2, s) \subseteq DOMAIN In(dirs', 2, s)
        <5>1. \A i \in Layouts : i = Place(s) =>
                DOMAIN In(dirs', i, s) = DOMAIN In(dirs, i, s) \cup {name(s)}
          BY <1>6, <4>0
        <5>. HIDE DEF name
        <5>. QED  BY <1>0, <3>2, <5>1
      <4>. QED  BY <2>2, <3>2, <4>1, <4>2 DEF Carried
    <3>3. CASE s # "traces" /\ Place(s) = 1
      BY <1>a, <3>3 DEF Place
    <3>. QED  BY <1>6, <1>0, <3>1, <3>2, <3>3
  <2>3. ASSUME NEW s \in Spaces, dirs[2][s] = None
        PROVE  Carried(dirs', astray', s) \/ dirs'[2][s] = None
    <3>1. CASE s = "traces" \/ Place(s) = 1
      BY <1>0, <1>4, <1>a, <2>3, <3>1
    <3>2. CASE s # "traces" /\ Place(s) = 2
      <4>1. dirs[1][s] = None
        BY <2>3, <3>2 DEF Place
      <4>2. dirs'[1][s] = None
        BY <1>b, <3>2, <4>1
      <4>. QED  BY <4>2 DEF Carried, In, NoNames
    <3>. QED  BY <1>6, <1>0, <3>1, <3>2
  <2>4. mig.pc = "idle"
    BY DEF Recompile
  <2>. QED  BY <1>1, <2>1, <2>2, <2>3, <2>4 DEF MigOK, Reached
<1>. QED  BY <1>2, <1>5, <1>7, <1>8, <1>9

LEMMA OpenTraceKeeps ==
  ASSUME LayoutInv, NEW r \in EntryNames, OpenTrace(r)  PROVE LayoutInv'
<1>. USE DEF LayoutInv
<1>0. 1 \in Layouts /\ 2 \in Layouts /\ Layouts = {1, 2} /\ "traces" \in Spaces
  BY DEF Layouts, Spaces
<1>1. PICK p \in Layouts : p = Place("traces")
  BY <1>0 DEF Place
<1>2. /\ r \notin DOMAIN runs /\ r \notin DOMAIN entries["traces"]
      /\ runs' = [q \in DOMAIN runs \cup {r} |-> IF q = r THEN p ELSE runs[q]]
      /\ dirs' = IF dirs[p]["traces"] # None THEN dirs
                 ELSE [dirs EXCEPT ![p]["traces"] = NoNames]
      /\ UNCHANGED <<files, mig, half, latest, entries, astray>>
  BY <1>1 DEF OpenTrace
<1>3. /\ TreeOK(dirs', Spaces) /\ dirs'[p]["traces"] # None
      /\ \A i \in Layouts, s \in Spaces :
           /\ In(dirs', i, s) = In(dirs, i, s)
           /\ dirs[i][s] # None => dirs'[i][s] # None
      /\ \A i \in Layouts, s \in Spaces :
           (i # p \/ s # "traces") => dirs'[i][s] = dirs[i][s]
  <2>1. CASE dirs[p]["traces"] # None
    BY <1>2, <2>1 DEF PathsOK
  <2>2. CASE dirs[p]["traces"] = None
    <3>1. dirs' = [dirs EXCEPT ![p]["traces"] = NoNames]
      BY <1>2, <2>2
    <3>2. /\ TreeOK(dirs', Spaces) /\ dirs'[p]["traces"] = NoNames
          /\ \A i \in Layouts, s \in Spaces :
               (i # p \/ s # "traces") => dirs'[i][s] = dirs[i][s]
      <4>1. DOMAIN dirs = Layouts /\ \A i \in Layouts : DOMAIN dirs[i] = Spaces
        BY DEF PathsOK, TreeOK
      <4>2. DOMAIN dirs' = Layouts /\ \A i \in Layouts : i # p => dirs'[i] = dirs[i]
        BY <3>1, <4>1
      <4>3. dirs'[p] = [dirs[p] EXCEPT !["traces"] = NoNames]
        BY <3>1, <4>1
      <4>4. /\ DOMAIN dirs'[p] = Spaces /\ dirs'[p]["traces"] = NoNames
            /\ \A s \in Spaces : s # "traces" => dirs'[p][s] = dirs[p][s]
        BY <1>0, <4>1, <4>3
      <4>. QED  BY <4>1, <4>2, <4>4 DEF TreeOK
    <3>3. ASSUME NEW i \in Layouts, NEW s \in Spaces
          PROVE  /\ In(dirs', i, s) = In(dirs, i, s)
                 /\ dirs[i][s] # None => dirs'[i][s] # None
      <4>1. CASE i = p /\ s = "traces"
        BY <2>2, <3>2, <4>1, NoneIsNothing DEF In
      <4>2. CASE i # p \/ s # "traces"
        BY <3>2, <4>2 DEF In
      <4>. QED  BY <4>1, <4>2
    <3>. QED  BY <3>2, <3>3, NoneIsNothing
  <2>. QED  BY <2>1, <2>2
<1>4. PathsOK' /\ FilesOK' /\ NamesOK' /\ TracesOK' /\ LinesOK'
  BY <1>2, <1>3, EmptyDirs
<1>5. RunsOK'
  <2>1. ASSUME NEW q \in DOMAIN runs  PROVE q # r /\ runs'[q] = runs[q] /\ runs[q] \in Layouts
    BY <1>2 DEF RunsOK
  <2>2. ASSUME NEW q \in DOMAIN runs
        PROVE  /\ dirs'[runs[q]]["traces"] # None
               /\ In(dirs', runs[q], "traces") = In(dirs, runs[q], "traces")
    BY <1>0, <1>3, <2>1 DEF RunsOK
  <2>3. \A i \in Layouts : r \notin DOMAIN In(dirs', i, "traces")
    <3>1. \A i \in Layouts : DOMAIN In(dirs, i, "traces") \subseteq DOMAIN entries["traces"]
      BY <1>0 DEF PathsOK
    <3>2. \A i \in Layouts : In(dirs', i, "traces") = In(dirs, i, "traces")
      BY <1>0, <1>3
    <3>. QED  BY <1>2, <3>1, <3>2
  <2>4. ASSUME NEW q \in DOMAIN runs'
        PROVE  /\ q \in EntryNames /\ runs'[q] \in Layouts
               /\ dirs'[runs'[q]]["traces"] # None
               /\ q \in DOMAIN In(dirs', runs'[q], "traces") <=> q \in DOMAIN entries["traces"]
               /\ q \in DOMAIN entries["traces"] =>
                    In(dirs', runs'[q], "traces")[q] = entries["traces"][q]
               /\ runs'[q] = 2 => q \notin DOMAIN In(dirs', 1, "traces")
    <3>1. CASE q = r
      BY <1>0, <1>2, <1>3, <2>3, <3>1
    <3>2. CASE q # r
      <4>1. q \in DOMAIN runs
        BY <1>2, <3>2
      <4>. QED  BY <1>0, <1>3, <2>1, <2>2, <4>1 DEF RunsOK
    <3>. QED  BY <3>1, <3>2
  <2>. QED  BY <1>2, <2>4 DEF RunsOK
<1>6. MigOK'
  <2>1. \A s \in Spaces : Carried(dirs, astray, s) => Carried(dirs', astray', s)
    BY <1>0, <1>2, <1>3 DEF Carried
  <2>2. ASSUME NEW s \in Spaces, dirs[2][s] = None
        PROVE  dirs'[2][s] = None \/ Carried(dirs', astray', s)
    <3>1. CASE p = 2 /\ s = "traces"
      <4>1. dirs[1]["traces"] = None
        BY <1>1, <2>2, <3>1 DEF Place
      <4>2. DOMAIN In(dirs', 1, "traces") = {}
        BY <1>0, <1>3, <4>1 DEF In, NoNames
      <4>. QED  BY <3>1, <4>2 DEF Carried
    <3>2. CASE p # 2 \/ s # "traces"
      BY <1>0, <1>3, <2>2, <3>2
    <3>. QED  BY <3>1, <3>2
  <2>3. \A s \in Spaces : dirs[2][s] # None => dirs'[2][s] # None
    BY <1>0, <1>3
  <2>4. /\ Reached(1) => dirs'[2]["skills"] # None
        /\ Reached(2) => dirs'[2]["playbooks"] # None
        /\ Reached(3) => dirs'[2]["traces"] # None
    BY <2>3 DEF MigOK, Spaces
  <2>5. /\ Reached(7) => Carried(dirs', astray', "skills")
        /\ Reached(8) => Carried(dirs', astray', "playbooks")
        /\ Reached(9) => Carried(dirs', astray', "traces")
    BY <2>1 DEF MigOK, Spaces
  <2>6. ~half => \A s \in Spaces : dirs'[2][s] = None \/ Carried(dirs', astray', s)
    BY <2>1, <2>2 DEF MigOK
  <2>. QED  BY <1>2, <2>4, <2>5, <2>6 DEF MigOK, Reached
<1>. QED  BY <1>4, <1>5, <1>6

LEMMA TellsItself ==
  ASSUME NEW lines  PROVE Tells(lines, lines)
<1>1. CASE Len(lines) <= Len(lines)
  BY <1>1 DEF Tells
<1>. QED  BY <1>1

LEMMA TellsMore ==
  ASSUME NEW lines \in Seq(Lines), NEW told \in Seq(Lines), NEW line, Tells(lines, told)
  PROVE  Tells(lines, Append(told, line))
<1>1. Len(Append(told, line)) = Len(told) + 1
      /\ \A k \in 1 .. Len(told) : Append(told, line)[k] = told[k]
  OBVIOUS
<1>. QED  BY <1>1 DEF Tells

LEMMA AppendedKeeps ==
  ASSUME LayoutInv, NEW r, NEW line \in Lines, Appended(r, line),
         DOMAIN runs' \subseteq DOMAIN runs, \A q \in DOMAIN runs' : runs'[q] = runs[q]
  PROVE  LayoutInv'
<1>. USE DEF LayoutInv
<1>0. 1 \in Layouts /\ 2 \in Layouts /\ Layouts = {1, 2} /\ "traces" \in Spaces
  BY DEF Layouts, Spaces
<1>1. r \in DOMAIN runs /\ r \in EntryNames /\ runs[r] \in Layouts
  BY DEF Appended, RunsOK
<1>2. PICK i \in Layouts : i = runs[r]
  BY <1>1
<1>. DEFINE was == IF r \in DOMAIN entries["traces"] THEN entries["traces"][r] ELSE <<>>
            new == Append(was, line)
<1>3. /\ was \in Seq(Lines) /\ new \in Seq(Lines)
  <2>1. was \in Seq(Lines)
    BY EmptySeq DEF LinesOK
  <2>. HIDE DEF was
  <2>. QED  BY <2>1
<1>4. /\ dirs[i]["traces"] # None
      /\ (IF r \in DOMAIN dirs[i]["traces"] THEN dirs[i]["traces"][r] ELSE <<>>) = was
  BY <1>1, <1>2 DEF RunsOK, In
<1>5. /\ dirs' = [dirs EXCEPT ![i]["traces"] = Put(dirs[i]["traces"], r, new)]
      /\ entries' = [entries EXCEPT !["traces"] = Put(entries["traces"], r, new)]
      /\ astray' = IF /\ i # Place("traces")
                      /\ r \in DOMAIN dirs[2]["traces"] \/ ~CopyAhead
                   THEN astray \cup {r} ELSE astray
      /\ UNCHANGED <<files, mig, half, latest>>
  BY <1>2, <1>4 DEF Appended
<1>. HIDE DEF new
<1>6. /\ TreeOK(dirs', Spaces) /\ dirs'[i]["traces"] # None
      /\ DOMAIN In(dirs', i, "traces") = DOMAIN In(dirs, i, "traces") \cup {r}
      /\ In(dirs', i, "traces")[r] = new
      /\ \A m \in DOMAIN In(dirs, i, "traces") :
           m # r => In(dirs', i, "traces")[m] = In(dirs, i, "traces")[m]
      /\ \A j \in Layouts, s \in Spaces : (j # i \/ s # "traces") =>
           dirs'[j][s] = dirs[j][s] /\ In(dirs', j, s) = In(dirs, j, s)
  <2>. DEFINE d == Put(dirs[i]["traces"], r, new)
  <2>1. /\ d # None /\ DOMAIN d = DOMAIN In(dirs, i, "traces") \cup {r} /\ d[r] = new
        /\ \A m \in DOMAIN In(dirs, i, "traces") : m # r => d[m] = In(dirs, i, "traces")[m]
    <3>1. DOMAIN d = DOMAIN In(dirs, i, "traces") \cup {r}
      BY <1>4 DEF In, Put
    <3>2. d # None
      BY <1>0, <1>1, <3>1, NoneIsNothing DEF PathsOK
    <3>. QED  BY <1>4, <3>1, <3>2 DEF In, Put
  <2>2. dirs' = [dirs EXCEPT ![i]["traces"] = d]
    BY <1>5
  <2>. HIDE DEF d
  <2>. QED  BY <1>0, <2>1, <2>2 DEF In, PathsOK, TreeOK
<1>7. /\ DOMAIN entries' = Spaces
      /\ DOMAIN entries'["traces"] = DOMAIN entries["traces"] \cup {r}
      /\ entries'["traces"][r] = new
      /\ \A m \in DOMAIN entries["traces"] : m # r => entries'["traces"][m] = entries["traces"][m]
      /\ \A s \in Spaces : s # "traces" => entries'[s] = entries[s]
  <2>1. entries["traces"] # None
    BY <1>0, NoneIsNothing DEF PathsOK
  <2>. QED  BY <1>0, <1>5, <2>1 DEF PathsOK, Put
<1>8. PathsOK' /\ FilesOK'
  <2>1. ASSUME NEW j \in Layouts, NEW s \in Spaces
        PROVE  DOMAIN In(dirs', j, s) \subseteq DOMAIN entries'[s]
    <3>1. CASE j = i /\ s = "traces"
      BY <1>6, <1>7, <3>1 DEF PathsOK
    <3>2. CASE j # i /\ s = "traces"
      BY <1>6, <1>7, <3>2 DEF PathsOK
    <3>3. CASE s # "traces"
      BY <1>6, <1>7, <3>3 DEF PathsOK
    <3>. QED  BY <3>1, <3>2, <3>3
  <2>2. ASSUME NEW s \in Spaces  PROVE DOMAIN entries'[s] \subseteq EntryNames
    <3>1. CASE s = "traces"
      BY <1>1, <1>7, <3>1 DEF PathsOK
    <3>2. CASE s # "traces"
      BY <1>7, <3>2 DEF PathsOK
    <3>. QED  BY <3>1, <3>2
  <2>. QED  BY <1>5, <1>6, <1>7, <2>1, <2>2 DEF PathsOK, FilesOK, Resolved
<1>9. NamesOK'
  <2>1. \A s \in Spaces \ {"traces"} : /\ In(dirs', 1, s) = In(dirs, 1, s)
                                      /\ In(dirs', 2, s) = In(dirs, 2, s)
                                      /\ entries'[s] = entries[s]
    BY <1>0, <1>6, <1>7
  <2>. QED  BY <2>1 DEF NamesOK
<1>10. TracesOK'
  <2>1. ASSUME NEW q \in DOMAIN entries'["traces"] \ astray'
        PROVE  \/ /\ q \in DOMAIN In(dirs', 2, "traces")
                  /\ In(dirs', 2, "traces")[q] = entries'["traces"][q]
               \/ /\ q \notin DOMAIN In(dirs', 2, "traces")
                  /\ q \in DOMAIN In(dirs', 1, "traces")
                  /\ In(dirs', 1, "traces")[q] = entries'["traces"][q]
    <3>1. CASE q # r
      <4>1. /\ q \in DOMAIN entries["traces"] \ astray
            /\ entries'["traces"][q] = entries["traces"][q]
        BY <1>5, <1>7, <2>1, <3>1
      <4>2. \A j \in Layouts :
              /\ q \in DOMAIN In(dirs', j, "traces") <=> q \in DOMAIN In(dirs, j, "traces")
              /\ q \in DOMAIN In(dirs, j, "traces") =>
                   In(dirs', j, "traces")[q] = In(dirs, j, "traces")[q]
        BY <1>0, <1>6, <3>1
      <4>. QED  BY <1>0, <4>1, <4>2 DEF TracesOK
    <3>2. CASE q = r /\ i = 2
      BY <1>6, <1>7, <3>2
    <3>3. CASE q = r /\ i = 1
      <4>1. In(dirs', 2, "traces") = In(dirs, 2, "traces")
        BY <1>0, <1>6, <3>3
      <4>2. r \notin DOMAIN In(dirs, 2, "traces")
        <5>1. r \notin astray'
          BY <2>1, <3>3
        <5>2. CASE dirs[2]["traces"] = None
          BY <5>2 DEF In, NoNames
        <5>3. CASE dirs[2]["traces"] # None
          <6>1. i # Place("traces")
            BY <3>3, <5>3 DEF Place
          <6>2. r \notin DOMAIN dirs[2]["traces"]
            BY <1>5, <5>1, <6>1
          <6>. QED  BY <5>3, <6>2 DEF In
        <5>. QED  BY <5>2, <5>3
      <4>. QED  BY <1>6, <1>7, <3>3, <4>1, <4>2
    <3>. QED  BY <1>0, <3>1, <3>2, <3>3
  <2>. QED  BY <2>1 DEF TracesOK
<1>11. RunsOK'
  <2>1. ASSUME NEW q \in DOMAIN runs
        PROVE  /\ q \in EntryNames /\ runs[q] \in Layouts
               /\ dirs'[runs[q]]["traces"] # None
               /\ q \in DOMAIN In(dirs', runs[q], "traces") <=> q \in DOMAIN entries'["traces"]
               /\ q \in DOMAIN entries'["traces"] =>
                    In(dirs', runs[q], "traces")[q] = entries'["traces"][q]
               /\ runs[q] = 2 => q \notin DOMAIN In(dirs', 1, "traces")
    <3>1. PICK j \in Layouts : j = runs[q]
      BY DEF RunsOK
    <3>2. /\ q \in EntryNames /\ dirs[j]["traces"] # None
          /\ q \in DOMAIN In(dirs, j, "traces") <=> q \in DOMAIN entries["traces"]
          /\ q \in DOMAIN entries["traces"] => In(dirs, j, "traces")[q] = entries["traces"][q]
          /\ j = 2 => q \notin DOMAIN In(dirs, 1, "traces")
      BY <3>1 DEF RunsOK
    <3>3. dirs'[j]["traces"] # None
      BY <1>0, <1>6, <3>2
    <3>4. CASE q = r
      <4>1. j = i
        BY <1>2, <3>1, <3>4
      <4>2. j = 2 => In(dirs', 1, "traces") = In(dirs, 1, "traces")
        BY <1>0, <1>6, <4>1
      <4>. QED  BY <1>6, <1>7, <3>1, <3>2, <3>3, <3>4, <4>1, <4>2
    <3>5. CASE q # r
      <4>1. \A k \in Layouts :
              /\ q \in DOMAIN In(dirs', k, "traces") <=> q \in DOMAIN In(dirs, k, "traces")
              /\ q \in DOMAIN In(dirs, k, "traces") =>
                   In(dirs', k, "traces")[q] = In(dirs, k, "traces")[q]
        BY <1>0, <1>6, <3>5
      <4>2. /\ q \in DOMAIN entries'["traces"] <=> q \in DOMAIN entries["traces"]
            /\ q \in DOMAIN entries["traces"] => entries'["traces"][q] = entries["traces"][q]
        BY <1>7, <3>5
      <4>. QED  BY <1>0, <3>1, <3>2, <3>3, <4>1, <4>2
    <3>. QED  BY <3>4, <3>5
  <2>. QED  BY <2>1 DEF RunsOK
<1>12. LinesOK'
  <2>1. ASSUME NEW q \in DOMAIN entries'["traces"]  PROVE entries'["traces"][q] \in Seq(Lines)
    BY <1>3, <1>7 DEF LinesOK
  <2>2. ASSUME NEW j \in Layouts, NEW q \in DOMAIN In(dirs', j, "traces")
        PROVE  /\ In(dirs', j, "traces")[q] \in Seq(Lines)
               /\ Tells(In(dirs', j, "traces")[q], entries'["traces"][q])
    <3>1. CASE q = r /\ j = i
      BY <1>3, <1>6, <1>7, <3>1, TellsItself
    <3>2. CASE q # r \/ j # i
      <4>1. /\ q \in DOMAIN In(dirs, j, "traces")
            /\ In(dirs', j, "traces")[q] = In(dirs, j, "traces")[q]
        BY <1>0, <1>6, <2>2, <3>2
      <4>2. /\ In(dirs, j, "traces")[q] \in Seq(Lines) /\ entries["traces"][q] \in Seq(Lines)
            /\ Tells(In(dirs, j, "traces")[q], entries["traces"][q])
            /\ q \in DOMAIN entries["traces"]
        BY <1>0, <4>1 DEF LinesOK, PathsOK
      <4>3. CASE q # r
        BY <1>7, <4>1, <4>2, <4>3
      <4>4. CASE q = r
        <5>1. entries'["traces"][q] = Append(entries["traces"][q], line)
          BY <1>7, <4>2, <4>4 DEF new
        <5>. QED  BY <4>1, <4>2, <5>1, TellsMore
      <4>. QED  BY <4>3, <4>4
    <3>. QED  BY <3>1, <3>2
  <2>. QED  BY <2>1, <2>2 DEF LinesOK
<1>13. MigOK'
  <2>1. \A s \in Spaces : dirs[2][s] # None <=> dirs'[2][s] # None
    BY <1>0, <1>4, <1>6
  <2>2. \A s \in Spaces \ {"traces"} :
          Carried(dirs, astray, s) => Carried(dirs', astray', s)
    BY <1>0, <1>6 DEF Carried
  <2>3. ASSUME Carried(dirs, astray, "traces"),
               i = 1 => r \in astray'
        PROVE  Carried(dirs', astray', "traces")
    <3>1. astray \subseteq astray'
      BY <1>5
    <3>2. CASE i = 1
      <4>1. In(dirs', 2, "traces") = In(dirs, 2, "traces")
        BY <1>0, <1>6, <3>2
      <4>. QED  BY <1>6, <2>3, <3>1, <3>2, <4>1 DEF Carried
    <3>3. CASE i = 2
      <4>1. In(dirs', 1, "traces") = In(dirs, 1, "traces")
        BY <1>0, <1>6, <3>3
      <4>. QED  BY <1>6, <2>3, <3>1, <3>3, <4>1 DEF Carried
    <3>. QED  BY <1>0, <3>2, <3>3
  <2>4. ASSUME dirs[2]["traces"] # None, ~CopyAhead, i = 1  PROVE r \in astray'
    <3>1. Place("traces") = 2
      BY <2>4 DEF Place
    <3>. QED  BY <1>5, <2>4, <3>1
  <2>5. Reached(9) => ~CopyAhead /\ dirs[2]["traces"] # None
    BY DEF Reached, CopyAhead, MigOK, Idle
  <2>6. ~half => ~CopyAhead
    BY DEF CopyAhead
  <2>7. /\ Reached(7) => Carried(dirs', astray', "skills")
        /\ Reached(8) => Carried(dirs', astray', "playbooks")
    BY <2>2 DEF MigOK, Spaces
  <2>8. Reached(9) => Carried(dirs', astray', "traces")
    BY <2>3, <2>4, <2>5 DEF MigOK
  <2>9. ~half => \A s \in Spaces : dirs'[2][s] = None \/ Carried(dirs', astray', s)
    BY <2>1, <2>2, <2>3, <2>4, <2>6 DEF MigOK
  <2>10. /\ Reached(1) => dirs'[2]["skills"] # None
         /\ Reached(2) => dirs'[2]["playbooks"] # None
         /\ Reached(3) => dirs'[2]["traces"] # None
    BY <2>1 DEF MigOK, Spaces
  <2>. QED  BY <1>5, <2>7, <2>8, <2>9, <2>10 DEF MigOK, Reached
<1>. QED  BY <1>8, <1>9, <1>10, <1>11, <1>12, <1>13

LEMMA TraceKeeps ==
  ASSUME LayoutInv, NEW r, NEW e \in Events, Trace(r, e)  PROVE LayoutInv'
BY AppendedKeeps DEF Trace, Lines

LEMMA TearTraceKeeps ==
  ASSUME LayoutInv, NEW r, TearTrace(r)  PROVE LayoutInv'
BY AppendedKeeps DEF TearTrace, Lines

LEMMA LayoutInitOK ==
  ASSUME NEW layout \in Layouts, LayoutInit(layout)  PROVE LayoutInv
<1>0. 1 \in Layouts /\ 2 \in Layouts /\ Layouts = {1, 2} /\ "traces" \in Spaces
  BY DEF Layouts, Spaces
<1>. DEFINE was(s) == IF layout = 1 /\ s = "skills"
                        THEN [n \in {"manifest", "skill"} |-> Version(0)]
                      ELSE IF layout = 1 /\ s = "playbooks"
                        THEN [n \in {"playbook"} |-> Version(0)]
                      ELSE NoNames
<1>1. \A s \in Spaces : /\ DOMAIN was(s) \subseteq EntryNames /\ was(s) # None
                        /\ s = "traces" => DOMAIN was(s) = {}
  <2>1. \A s \in Spaces : /\ DOMAIN was(s) \subseteq EntryNames
                          /\ s = "traces" => DOMAIN was(s) = {}
    BY DEF NoNames, EntryNames
  <2>. QED  BY <2>1, NoneIsNothing
<1>2. \A s \in Spaces : /\ dirs[layout][s] = was(s)
                        /\ \A i \in Layouts : i # layout => dirs[i][s] = None
  BY DEF LayoutInit
<1>. HIDE DEF was
<1>3. \A s \in Spaces : /\ In(dirs, layout, s) = was(s) /\ entries[s] = was(s)
                        /\ \A i \in Layouts : i # layout => DOMAIN In(dirs, i, s) = {}
  BY <1>1, <1>2 DEF In, NoNames, LayoutInit
<1>4. PathsOK
  <2>1. TreeOK(files, Artifacts) /\ TreeOK(dirs, Spaces)
        /\ DOMAIN latest = Artifacts /\ DOMAIN entries = Spaces
    BY DEF LayoutInit, TreeOK
  <2>. QED  BY <1>1, <1>3, <2>1 DEF PathsOK
<1>5. MigOK
  <2>1. Idle.pc # "run"
    BY DEF Idle
  <2>2. \A s \in Spaces : dirs[2][s] = None \/ Carried(dirs, astray, s)
    <3>1. CASE layout = 1
      BY <1>0, <1>2, <3>1
    <3>2. CASE layout = 2
      BY <1>0, <1>3, <3>2 DEF Carried
    <3>. QED  BY <1>0, <3>1, <3>2
  <2>. QED  BY <2>1, <2>2 DEF LayoutInit, MigOK, Reached
<1>6. FilesOK
  <2>1. \A a \in Artifacts :
          /\ files[2][a] = None /\ latest[a] = files[layout][a]
          /\ files[1][a] = IF layout = 1 THEN Version(0) ELSE None
    BY <1>0 DEF LayoutInit
  <2>. QED  BY <1>0, <2>1 DEF FilesOK, Resolved
<1>7. NamesOK
  <2>1. ASSUME NEW s \in Spaces, NEW n \in DOMAIN entries[s]
        PROVE  \/ n \in DOMAIN In(dirs, 2, s) /\ In(dirs, 2, s)[n] = entries[s][n]
               \/ /\ n \notin DOMAIN In(dirs, 2, s)
                  /\ n \in DOMAIN In(dirs, 1, s) /\ In(dirs, 1, s)[n] = entries[s][n]
    <3>1. CASE layout = 1
      BY <1>0, <1>3, <3>1
    <3>2. CASE layout = 2
      BY <1>0, <1>3, <3>2
    <3>. QED  BY <1>0, <3>1, <3>2
  <2>. QED  BY <2>1 DEF NamesOK
<1>8. TracesOK /\ LinesOK
  <2>1. DOMAIN entries["traces"] = {} /\ \A i \in Layouts : DOMAIN In(dirs, i, "traces") = {}
    BY <1>0, <1>1, <1>3
  <2>. QED  BY <2>1 DEF TracesOK, LinesOK
<1>9. RunsOK
  <2>1. DOMAIN runs = {}
    BY DEF LayoutInit
  <2>. QED  BY <2>1 DEF RunsOK
<1>. QED  BY <1>4, <1>5, <1>6, <1>7, <1>8, <1>9 DEF LayoutInv

LEMMA LayoutStays ==
  ASSUME LayoutInv, UNCHANGED layoutVars  PROVE LayoutInv'
<1>1. PathsOK' /\ FilesOK' /\ MigOK'
  BY DEF LayoutInv, layoutVars, PathsOK, FilesOK, Resolved, MigOK, Reached
<1>2. NamesOK' /\ TracesOK' /\ RunsOK' /\ LinesOK'
  BY DEF LayoutInv, layoutVars, NamesOK, TracesOK, RunsOK, LinesOK
<1>. QED  BY <1>1, <1>2 DEF LayoutInv

LEMMA LayoutStepsKeep ==
  ASSUME LayoutInv, LayoutNext  PROVE LayoutInv'
<1>1. CASE MigrationSteps
  BY <1>1, MakeKeeps, CopyFileKeeps, CopyEntryKeeps, EndDirKeeps, EndMigrationKeeps
     DEF MigrationSteps
<1>2. CASE Migrate \/ Kill
  BY <1>2, MigrateKeeps, KillKeeps
<1>3. CASE \E n : Recompile(n) \/ SaveSession(n) \/ Import(n)
  BY <1>3, RecompileKeeps, SaveSessionKeeps, ImportKeeps
<1>4. ASSUME NEW r \in ToSet(RunNames),
             OpenTrace(r) \/ TearTrace(r) \/ \E e \in Events : Trace(r, e)
      PROVE  LayoutInv'
  <2>1. r \in EntryNames
    BY DEF EntryNames
  <2>. QED  BY <1>4, <2>1, OpenTraceKeeps, TearTraceKeeps, TraceKeeps
<1>. QED  BY <1>1, <1>2, <1>3, <1>4 DEF LayoutNext

LEMMA LayoutPromise ==
  LayoutInv => NothingIsLost
<1>. SUFFICES ASSUME LayoutInv, ~half  PROVE NothingIsLost
  BY DEF NothingIsLost
<1>. USE DEF LayoutInv
<1>0. 1 \in Layouts /\ 2 \in Layouts /\ Layouts = {1, 2} /\ "traces" \in Spaces
  BY DEF Layouts, Spaces
<1>1. ASSUME NEW s \in Spaces
      PROVE  /\ Place(s) = 2 => Listing(s) = In(dirs, 2, s)
             /\ Place(s) = 1 => /\ Listing(s) = In(dirs, 1, s) /\ DOMAIN In(dirs, 2, s) = {}
             /\ Place(s) \in Layouts
  BY <1>0 DEF Listing, Place, In, NoNames
<1>2. ASSUME NEW s \in Spaces, NEW n \in DOMAIN In(dirs, 1, s), n \notin DOMAIN In(dirs, 2, s),
             Place(s) = 2
      PROVE  s = "traces" /\ n \in astray
  <2>1. CASE dirs[2][s] = None
    <3>1. dirs[1][s] = None
      BY <1>2, <2>1 DEF Place
    <3>. QED  BY <1>2, <3>1 DEF In, NoNames
  <2>2. CASE dirs[2][s] # None
    BY <1>2, <2>2 DEF MigOK, Carried
  <2>. QED  BY <2>1, <2>2
<1>3. ASSUME NEW s \in Spaces \ {"traces"}, NEW n \in DOMAIN entries[s]
      PROVE  n \in DOMAIN Listing(s) /\ Listing(s)[n] \in {entries[s][n], Torn}
  <2>1. CASE Place(s) = 2
    BY <1>1, <1>2, <1>3, <2>1 DEF NamesOK
  <2>2. CASE Place(s) = 1
    BY <1>1, <1>3, <2>2 DEF NamesOK
  <2>. QED  BY <1>0, <1>1, <2>1, <2>2
<1>4. ASSUME NEW r \in DOMAIN entries["traces"] \ astray
      PROVE  r \in DOMAIN Listing("traces") /\ Listing("traces")[r] = entries["traces"][r]
  <2>1. CASE Place("traces") = 2
    BY <1>0, <1>1, <1>2, <2>1 DEF TracesOK
  <2>2. CASE Place("traces") = 1
    BY <1>0, <1>1, <2>2 DEF TracesOK
  <2>. QED  BY <1>0, <1>1, <2>1, <2>2
<1>. QED  BY <1>3, <1>4 DEF NothingIsLost, FilesOK

-----------------------------------------------------------------------------
(* Drift.                                                                  *)

\* The library's induction principles take an operator; this one takes the
\* set of the numbers of which the fact holds.
LEMMA NumberInduction ==
  ASSUME NEW T, 0 \in T, \A n \in Nat : n \in T => n + 1 \in T
  PROVE  Nat \subseteq T
<1>. SUFFICES ASSUME Nat \ T # {} PROVE FALSE
  OBVIOUS
<1>1. \A x, y \in Nat : <<x, y>> \in OpToRel(<, Nat) <=> x < y
  BY DEF OpToRel
<1>2. PICK n \in Nat \ T : \A y \in Nat \ T : ~(<<y, n>> \in OpToRel(<, Nat))
  BY NatLessThanWellFounded, WFMin
<1>3. n \in Nat /\ n \notin T
  OBVIOUS
<1>4. n # 0
  BY <1>3
<1>5. n - 1 \in Nat /\ n - 1 < n /\ (n - 1) + 1 = n
  BY <1>3, <1>4
<1>6. n - 1 \in T
  BY <1>1, <1>2, <1>3, <1>5
<1>. QED  BY <1>3, <1>5, <1>6

\* The events of the first runs: what the recursion in AllEvents defines.
Joined(up, traces, n) ==
  up = [k \in 0 .. n |->
          IF k = 0 THEN <<>>
          ELSE IF RunNames[k] \in DOMAIN traces THEN up[k - 1] \o traces[RunNames[k]]
          ELSE up[k - 1]]

LEMMA JoinedExists ==
  ASSUME NEW traces  PROVE \A n \in Nat : \E up : Joined(up, traces, n)
<1>. DEFINE T == {n \in Nat : \E up : Joined(up, traces, n)}
<1>1. 0 \in T
  <2>1. Joined([k \in 0 .. 0 |-> <<>>], traces, 0)
    BY DEF Joined
  <2>. QED  BY <2>1
<1>2. ASSUME NEW n \in Nat, n \in T PROVE n + 1 \in T
  <2>1. PICK f : Joined(f, traces, n)
    BY <1>2
  <2>. DEFINE g == [k \in 0 .. n + 1 |->
         IF k = n + 1
           THEN IF RunNames[k] \in DOMAIN traces THEN f[n] \o traces[RunNames[k]] ELSE f[n]
           ELSE f[k]]
  <2>2. ASSUME NEW k \in 0 .. n + 1
        PROVE  g[k] = IF k = 0 THEN <<>>
                      ELSE IF RunNames[k] \in DOMAIN traces
                             THEN g[k - 1] \o traces[RunNames[k]]
                      ELSE g[k - 1]
    <3>1. CASE k = 0
      BY <2>1, <3>1 DEF Joined
    <3>2. CASE k \in 1 .. n
      <4>1. k - 1 \in 0 .. n /\ g[k - 1] = f[k - 1] /\ g[k] = f[k]
        BY <3>2
      <4>2. k \in 0 .. n /\ k # 0
        BY <3>2
      <4>3. f[k] = IF RunNames[k] \in DOMAIN traces THEN f[k - 1] \o traces[RunNames[k]]
                   ELSE f[k - 1]
        BY <2>1, <4>2 DEF Joined
      <4>. QED  BY <3>2, <4>1, <4>3
    <3>3. CASE k = n + 1
      BY <3>3
    <3>. QED  BY <3>1, <3>2, <3>3
  <2>3. Joined(g, traces, n + 1)
    BY <2>2 DEF Joined
  <2>. QED  BY <2>3
<1>. HIDE DEF T
<1>3. Nat \subseteq T
  BY <1>1, <1>2, NumberInduction
<1>. QED  BY <1>3 DEF T

LEMMA RunsCounted == Len(RunNames) \in Nat
BY WorkspaceAssumption, LenProperties

LEMMA AllEventsIsJoined ==
  ASSUME NEW traces
  PROVE  \E up : Joined(up, traces, Len(RunNames)) /\ AllEvents(traces) = up[Len(RunNames)]
<1>1. AllEvents(traces) = (CHOOSE up : Joined(up, traces, Len(RunNames)))[Len(RunNames)]
  BY DEF AllEvents, Joined
<1>. QED  BY <1>1, JoinedExists, RunsCounted

\* Each step of the recursion.
LEMMA JoinedStep ==
  ASSUME NEW up, NEW traces, NEW n \in Nat, Joined(up, traces, n), NEW k \in Nat, k + 1 <= n
  PROVE  /\ RunNames[k + 1] \in DOMAIN traces => up[k + 1] = up[k] \o traces[RunNames[k + 1]]
         /\ RunNames[k + 1] \notin DOMAIN traces => up[k + 1] = up[k]
<1>1. k + 1 \in 0 .. n /\ k + 1 # 0 /\ (k + 1) - 1 = k
  OBVIOUS
<1>. QED  BY <1>1 DEF Joined

\* A trace is a list of lines.
Traces(traces) == \A r \in DOMAIN traces : traces[r] \in Seq(Lines)

LEMMA JoinedLines ==
  ASSUME NEW up, NEW traces, NEW n \in Nat, Joined(up, traces, n), Traces(traces)
  PROVE  \A k \in 0 .. n : up[k] \in Seq(Lines)
<1>. DEFINE T == {k \in Nat : k <= n => up[k] \in Seq(Lines)}
<1>1. 0 \in T
  BY EmptySeq DEF Joined
<1>2. ASSUME NEW k \in Nat, k \in T  PROVE k + 1 \in T
  <2>. SUFFICES ASSUME k + 1 <= n  PROVE up[k + 1] \in Seq(Lines)
    OBVIOUS
  <2>. DEFINE r == RunNames[k + 1]
  <2>1. up[k] \in Seq(Lines)
    BY <1>2
  <2>2. /\ r \in DOMAIN traces => up[k + 1] = up[k] \o traces[r]
        /\ r \notin DOMAIN traces => up[k + 1] = up[k]
    BY JoinedStep
  <2>. HIDE DEF r
  <2>3. CASE r \in DOMAIN traces
    <3>1. traces[r] \in Seq(Lines)
      BY <2>3 DEF Traces
    <3>. QED  BY <2>1, <2>2, <2>3, <3>1, ConcatProperties
  <2>4. CASE r \notin DOMAIN traces
    BY <2>1, <2>2, <2>4
  <2>. QED  BY <2>3, <2>4
<1>. HIDE DEF T
<1>3. Nat \subseteq T
  BY <1>1, <1>2, NumberInduction
<1>. QED  BY <1>3 DEF T

\* Readers who find the same traces find the same events.
LEMMA SameEvents ==
  ASSUME NEW s, NEW t, \A r : r \in DOMAIN s <=> r \in DOMAIN t,
         \A r \in DOMAIN s : s[r] = t[r]
  PROVE  AllEvents(s) = AllEvents(t)
<1>1. PICK f : Joined(f, s, Len(RunNames)) /\ AllEvents(s) = f[Len(RunNames)]
  BY AllEventsIsJoined
<1>2. PICK g : Joined(g, t, Len(RunNames)) /\ AllEvents(t) = g[Len(RunNames)]
  BY AllEventsIsJoined
<1>. DEFINE n == Len(RunNames)
            T == {k \in Nat : k <= n => f[k] = g[k]}
<1>3. 0 \in T
  BY <1>1, <1>2, RunsCounted DEF Joined
<1>4. ASSUME NEW k \in Nat, k \in T  PROVE k + 1 \in T
  <2>. SUFFICES ASSUME k + 1 <= n  PROVE f[k + 1] = g[k + 1]
    OBVIOUS
  <2>1. f[k] = g[k]
    BY <1>4, RunsCounted
  <2>. DEFINE r == RunNames[k + 1]
  <2>2. /\ r \in DOMAIN s => f[k + 1] = f[k] \o s[r]
        /\ r \notin DOMAIN s => f[k + 1] = f[k]
    BY <1>1, RunsCounted, JoinedStep
  <2>3. /\ r \in DOMAIN t => g[k + 1] = g[k] \o t[r]
        /\ r \notin DOMAIN t => g[k + 1] = g[k]
    BY <1>2, RunsCounted, JoinedStep
  <2>. HIDE DEF r
  <2>4. CASE r \in DOMAIN s
    BY <2>1, <2>2, <2>3, <2>4
  <2>5. CASE r \notin DOMAIN s
    BY <2>1, <2>2, <2>3, <2>5
  <2>. QED  BY <2>4, <2>5
<1>. HIDE DEF T
<1>5. Nat \subseteq T
  BY <1>3, <1>4, NumberInduction
<1>. QED  BY <1>1, <1>2, <1>5, RunsCounted DEF T

\* Each event of one list has a place of its own in the other.
Embeds(s, t) ==
  \E h \in [1 .. Len(s) -> 1 .. Len(t)] :
    /\ \A i, k \in 1 .. Len(s) : h[i] = h[k] => i = k
    /\ \A k \in 1 .. Len(s) : s[k] = t[h[k]]

LEMMA EmbedsLonger ==
  ASSUME NEW s \in Seq(Lines), NEW t \in Seq(Lines), NEW v \in Seq(Lines), Embeds(s, t)
  PROVE  Embeds(s, t \o v)
<1>1. /\ Len(t \o v) = Len(t) + Len(v) /\ Len(t) \in Nat /\ Len(v) \in Nat
      /\ \A k \in 1 .. Len(t) : (t \o v)[k] = t[k]
  BY ConcatProperties, LenProperties
<1>2. PICK h \in [1 .. Len(s) -> 1 .. Len(t)] :
        /\ \A i, k \in 1 .. Len(s) : h[i] = h[k] => i = k
        /\ \A k \in 1 .. Len(s) : s[k] = t[h[k]]
  BY DEF Embeds
<1>. DEFINE u == t \o v
<1>3. u = t \o v
  OBVIOUS
<1>. HIDE DEF u
<1>4. ASSUME NEW k \in 1 .. Len(s)  PROVE h[k] \in 1 .. Len(u) /\ s[k] = u[h[k]]
  <2>1. h[k] \in 1 .. Len(t) /\ s[k] = t[h[k]]
    BY <1>2
  <2>2. Len(u) >= Len(t) /\ Len(u) \in Nat /\ u[h[k]] = t[h[k]]
    BY <1>1, <1>3, <2>1
  <2>. QED  BY <1>1, <2>1, <2>2
<1>5. h \in [1 .. Len(s) -> 1 .. Len(u)]
  BY <1>2, <1>4
<1>6. Embeds(s, u)
  BY <1>2, <1>4, <1>5 DEF Embeds
<1>. QED  BY <1>3, <1>6

LEMMA EmbedsConcat ==
  ASSUME NEW s \in Seq(Lines), NEW t \in Seq(Lines), NEW u \in Seq(Lines),
         NEW v \in Seq(Lines), Embeds(s, t),
         Len(u) <= Len(v), \A k \in 1 .. Len(u) : u[k] = v[k]
  PROVE  Embeds(s \o u, t \o v)
<1>1. PICK h \in [1 .. Len(s) -> 1 .. Len(t)] :
        /\ \A i, k \in 1 .. Len(s) : h[i] = h[k] => i = k
        /\ \A k \in 1 .. Len(s) : s[k] = t[h[k]]
  BY DEF Embeds
<1>2. Len(s) \in Nat /\ Len(t) \in Nat /\ Len(u) \in Nat /\ Len(v) \in Nat
  BY LenProperties
<1>. DEFINE a == s \o u
            b == t \o v
            g == [k \in 1 .. Len(s) + Len(u) |->
                    IF k <= Len(s) THEN h[k] ELSE Len(t) + (k - Len(s))]
<1>3. /\ Len(a) = Len(s) + Len(u)
      /\ \A k \in 1 .. Len(s) + Len(u) : a[k] = IF k <= Len(s) THEN s[k] ELSE u[k - Len(s)]
  BY ConcatProperties
<1>4. /\ Len(b) = Len(t) + Len(v)
      /\ \A k \in 1 .. Len(t) + Len(v) : b[k] = IF k <= Len(t) THEN t[k] ELSE v[k - Len(t)]
  BY ConcatProperties
<1>. HIDE DEF a, b
<1>5. g \in [1 .. Len(a) -> 1 .. Len(b)]
  BY <1>2, <1>3, <1>4
<1>6. ASSUME NEW i \in 1 .. Len(a), NEW k \in 1 .. Len(a), g[i] = g[k]  PROVE i = k
  <2>1. CASE i <= Len(s) /\ k <= Len(s)
    BY <1>1, <1>2, <1>3, <1>6, <2>1
  <2>2. CASE i > Len(s) /\ k > Len(s)
    BY <1>2, <1>3, <1>6, <2>2
  <2>3. CASE i <= Len(s) /\ k > Len(s)
    <3>0. i \in 1 .. Len(s)
      BY <1>2, <2>3
    <3>1. h[i] \in 1 .. Len(t)
      BY <1>1, <3>0
    <3>. QED  BY <1>2, <1>3, <1>6, <2>3, <3>1
  <2>4. CASE i > Len(s) /\ k <= Len(s)
    <3>0. k \in 1 .. Len(s)
      BY <1>2, <2>4
    <3>1. h[k] \in 1 .. Len(t)
      BY <1>1, <3>0
    <3>. QED  BY <1>2, <1>3, <1>6, <2>4, <3>1
  <2>. QED  BY <1>2, <1>3, <2>1, <2>2, <2>3, <2>4
<1>7. ASSUME NEW k \in 1 .. Len(a)  PROVE a[k] = b[g[k]]
  <2>1. CASE k <= Len(s)
    <3>0. k \in 1 .. Len(s) /\ k \in 1 .. Len(s) + Len(u)
      BY <1>2, <1>3, <2>1
    <3>1. h[k] \in 1 .. Len(t) /\ s[k] = t[h[k]]
      BY <1>1, <3>0
    <3>2. g[k] = h[k] /\ a[k] = s[k]
      BY <1>3, <2>1, <3>0
    <3>3. PICK x \in 1 .. Len(t) : x = h[k]
      BY <3>1
    <3>4. x \in 1 .. Len(t) + Len(v) /\ x <= Len(t)
      BY <1>2
    <3>5. b[x] = t[x]
      BY <1>4, <3>4
    <3>. QED  BY <3>1, <3>2, <3>3, <3>5
  <2>2. CASE k > Len(s)
    <3>. DEFINE j == k - Len(s)
    <3>1. j \in 1 .. Len(u) /\ g[k] = Len(t) + j /\ a[k] = u[j]
      BY <1>2, <1>3, <2>2
    <3>. HIDE DEF j
    <3>2. PICK x \in 1 .. Len(t) + Len(v) : x = Len(t) + j
      BY <1>2, <3>1
    <3>3. ~(x <= Len(t)) /\ x - Len(t) = j
      BY <1>2, <3>1, <3>2
    <3>4. b[x] = v[j] /\ u[j] = v[j]
      BY <1>4, <3>1, <3>3
    <3>. QED  BY <3>1, <3>2, <3>4
  <2>. QED  BY <1>2, <1>3, <2>1, <2>2
<1>. HIDE DEF g
<1>8. Embeds(a, b)
  BY <1>5, <1>6, <1>7 DEF Embeds
<1>. QED  BY <1>8 DEF a, b

\* Readers who meet no torn line find of each run how it began.
LEMMA FewerEvents ==
  ASSUME NEW s, NEW t, Traces(s), Traces(t),
         \A r \in DOMAIN s : r \in DOMAIN t /\ Tells(s[r], t[r]),
         TornLine \notin ToSet(AllEvents(s))
  PROVE  /\ AllEvents(s) \in Seq(Lines) /\ AllEvents(t) \in Seq(Lines)
         /\ Embeds(AllEvents(s), AllEvents(t))
<1>1. PICK f : Joined(f, s, Len(RunNames)) /\ AllEvents(s) = f[Len(RunNames)]
  BY AllEventsIsJoined
<1>2. PICK g : Joined(g, t, Len(RunNames)) /\ AllEvents(t) = g[Len(RunNames)]
  BY AllEventsIsJoined
<1>. DEFINE n == Len(RunNames)
<1>0. n \in Nat
  BY RunsCounted
<1>. HIDE DEF n
<1>3. \A k \in 0 .. n : f[k] \in Seq(Lines) /\ g[k] \in Seq(Lines)
  BY <1>0, <1>1, <1>2, JoinedLines DEF n
<1>. DEFINE Whole(x) == \A j \in 1 .. Len(x) : x[j] # TornLine
            T == {k \in Nat : k <= n => (Whole(f[k]) => Embeds(f[k], g[k]))}
<1>4. 0 \in T
  <2>1. f[0] = <<>> /\ g[0] = <<>>
    BY <1>0, <1>1, <1>2 DEF Joined, n
  <2>2. Embeds(<<>>, <<>>)
    <3>1. [k \in 1 .. 0 |-> k] \in [1 .. Len(<<>>) -> 1 .. Len(<<>>)]
      BY EmptySeq
    <3>. QED  BY <3>1, EmptySeq DEF Embeds
  <2>. QED  BY <2>1, <2>2
<1>5. ASSUME NEW k \in Nat, k \in T  PROVE k + 1 \in T
  <2>. SUFFICES ASSUME k + 1 <= n, Whole(f[k + 1])  PROVE Embeds(f[k + 1], g[k + 1])
    OBVIOUS
  <2>. DEFINE r == RunNames[k + 1]
  <2>0. k \in 0 .. n /\ f[k] \in Seq(Lines) /\ g[k] \in Seq(Lines)
    BY <1>0, <1>3
  <2>1. /\ r \in DOMAIN s => f[k + 1] = f[k] \o s[r]
        /\ r \notin DOMAIN s => f[k + 1] = f[k]
    BY <1>0, <1>1, JoinedStep DEF n
  <2>2. /\ r \in DOMAIN t => g[k + 1] = g[k] \o t[r]
        /\ r \notin DOMAIN t => g[k + 1] = g[k]
    BY <1>0, <1>2, JoinedStep DEF n
  <2>. HIDE DEF r
  <2>3. CASE r \notin DOMAIN s
    <3>1. Embeds(f[k], g[k])
      BY <1>0, <1>5, <2>1, <2>3
    <3>2. CASE r \notin DOMAIN t
      BY <2>1, <2>2, <2>3, <3>1, <3>2
    <3>3. CASE r \in DOMAIN t
      BY <2>0, <2>1, <2>2, <2>3, <3>1, <3>3, EmbedsLonger DEF Traces
    <3>. QED  BY <3>2, <3>3
  <2>4. CASE r \in DOMAIN s
    <3>1. r \in DOMAIN t /\ s[r] \in Seq(Lines) /\ t[r] \in Seq(Lines) /\ Tells(s[r], t[r])
      BY <2>4 DEF Traces
    <3>. DEFINE a == f[k]
                u == s[r]
    <3>2. /\ Len(a) \in Nat /\ Len(u) \in Nat
          /\ f[k + 1] = a \o u
          /\ Len(a \o u) = Len(a) + Len(u)
          /\ \A j \in 1 .. Len(a) + Len(u) :
               (a \o u)[j] = IF j <= Len(a) THEN a[j] ELSE u[j - Len(a)]
      BY <2>0, <2>1, <2>4, <3>1, ConcatProperties, LenProperties
    <3>. HIDE DEF a, u
    <3>3. Whole(a)
      <4>1. ASSUME NEW j \in 1 .. Len(a)  PROVE a[j] # TornLine
        <5>1. j \in 1 .. Len(a) + Len(u) /\ j <= Len(a)
          BY <3>2
        <5>2. j \in 1 .. Len(f[k + 1]) /\ f[k + 1][j] = a[j]
          BY <3>2, <5>1
        <5>. QED  BY <5>2
      <4>. QED  BY <4>1
    <3>4. Whole(u)
      <4>1. ASSUME NEW j \in 1 .. Len(u)  PROVE u[j] # TornLine
        <5>1. /\ Len(a) + j \in 1 .. Len(a) + Len(u)
              /\ ~(Len(a) + j <= Len(a))
              /\ (Len(a) + j) - Len(a) = j
          BY <3>2
        <5>2. Len(a) + j \in 1 .. Len(f[k + 1]) /\ f[k + 1][Len(a) + j] = u[j]
          BY <3>2, <5>1
        <5>. QED  BY <5>2
      <4>. QED  BY <4>1
    <3>5. Len(u) <= Len(t[r]) /\ \A j \in 1 .. Len(u) : u[j] = t[r][j]
      BY <3>1, <3>4 DEF Tells, u
    <3>6. Embeds(f[k], g[k])
      BY <1>0, <1>5, <3>3 DEF a
    <3>. QED  BY <2>0, <2>1, <2>2, <2>4, <3>1, <3>5, <3>6, EmbedsConcat DEF u
  <2>. QED  BY <2>3, <2>4
<1>. HIDE DEF T
<1>6. Nat \subseteq T
  BY <1>4, <1>5, NumberInduction
<1>7. f[n] \in Seq(Lines) /\ g[n] \in Seq(Lines)
  BY <1>0, <1>3
<1>8. Whole(f[n])
  <2>1. TornLine \notin ToSet(f[n])
    BY <1>1 DEF n
  <2>. QED  BY <1>7, <2>1, LenProperties DEF ToSet
<1>9. Embeds(f[n], g[n])
  BY <1>0, <1>6, <1>8 DEF T
<1>. QED  BY <1>1, <1>2, <1>7, <1>9 DEF n

LEMMA FewerRejections ==
  ASSUME NEW s \in Seq(Lines), NEW t \in Seq(Lines), Embeds(s, t), NEW reason
  PROVE  Rejections(s, reason) <= Rejections(t, reason)
<1>. DEFINE A == {k \in 1 .. Len(s) : s[k].event = "rejected" /\ s[k].reason = reason}
            B == {k \in 1 .. Len(t) : t[k].event = "rejected" /\ t[k].reason = reason}
<1>1. Rejections(s, reason) = Cardinality(A) /\ Rejections(t, reason) = Cardinality(B)
  BY LenProperties DEF Rejections
<1>2. PICK h \in [1 .. Len(s) -> 1 .. Len(t)] :
        /\ \A i, k \in 1 .. Len(s) : h[i] = h[k] => i = k
        /\ \A k \in 1 .. Len(s) : s[k] = t[h[k]]
  BY DEF Embeds
<1>3. [k \in A |-> h[k]] \in Injection(A, B)
  BY <1>2 DEF Injection, IsInjective
<1>4. IsFiniteSet(B)
  <2>1. IsFiniteSet(1 .. Len(t))
    BY FS_Interval, LenProperties
  <2>. QED  BY <2>1, FS_Subset
<1>. QED  BY <1>1, <1>3, <1>4, FS_Injection

-----------------------------------------------------------------------------
(* Consolidation.                                                          *)

MemoriesOK == Len(memories) \in Nat /\ DOMAIN memories = 1 .. Len(memories)

\* The groups of the first memories: what the recursion in Groups defines.
Grouped(up, kept, n) ==
  up = [i \in 0 .. n |->
          IF i = 0 THEN {}
          ELSE LET g == Group(kept, UNION up[i - 1], i) IN
               IF i \in kept /\ Cardinality(g) > 1 THEN up[i - 1] \cup {g}
               ELSE up[i - 1]]

LEMMA GroupedExists ==
  ASSUME NEW kept  PROVE \A n \in Nat : \E up : Grouped(up, kept, n)
<1>. DEFINE T == {n \in Nat : \E up : Grouped(up, kept, n)}
            more(gs, i) == LET g == Group(kept, UNION gs, i) IN
                           IF i \in kept /\ Cardinality(g) > 1 THEN gs \cup {g} ELSE gs
<1>0. \A up, n : Grouped(up, kept, n) <=>
                   up = [i \in 0 .. n |-> IF i = 0 THEN {} ELSE more(up[i - 1], i)]
  BY DEF Grouped
<1>. HIDE DEF more
<1>1. 0 \in T
  <2>. DEFINE z == [i \in 0 .. 0 |-> {}]
  <2>1. \A i \in 0 .. 0 : z[i] = IF i = 0 THEN {} ELSE more(z[i - 1], i)
    OBVIOUS
  <2>2. z = [i \in 0 .. 0 |-> IF i = 0 THEN {} ELSE more(z[i - 1], i)]
    BY <2>1
  <2>. HIDE DEF z
  <2>3. Grouped(z, kept, 0)
    BY <1>0, <2>2
  <2>. QED  BY <2>3
<1>2. ASSUME NEW n \in Nat, n \in T  PROVE n + 1 \in T
  <2>1. PICK f : Grouped(f, kept, n)
    BY <1>2
  <2>. DEFINE g == [i \in 0 .. n + 1 |-> IF i = n + 1 THEN more(f[n], i) ELSE f[i]]
  <2>2. ASSUME NEW i \in 0 .. n + 1
        PROVE  g[i] = IF i = 0 THEN {} ELSE more(g[i - 1], i)
    <3>1. CASE i = 0
      BY <1>0, <2>1, <3>1
    <3>2. CASE i \in 1 .. n
      <4>1. i - 1 \in 0 .. n /\ g[i - 1] = f[i - 1] /\ g[i] = f[i]
        BY <3>2
      <4>2. i \in 0 .. n /\ i # 0
        BY <3>2
      <4>3. f[i] = more(f[i - 1], i)
        BY <1>0, <2>1, <4>2
      <4>. QED  BY <3>2, <4>1, <4>3
    <3>3. CASE i = n + 1
      BY <3>3
    <3>. QED  BY <3>1, <3>2, <3>3
  <2>3. g = [i \in 0 .. n + 1 |-> IF i = 0 THEN {} ELSE more(g[i - 1], i)]
    BY <2>2
  <2>4. Grouped(g, kept, n + 1)
    BY <1>0, <2>3
  <2>. QED  BY <2>4
<1>. HIDE DEF T
<1>3. Nat \subseteq T
  BY <1>1, <1>2, NumberInduction
<1>. QED  BY <1>3 DEF T

\* Groups of memories that are kept, no two with a memory in common.
Apart(gs, kept) ==
  /\ \A g \in gs : g \subseteq kept
  /\ \A g, h \in gs : g # h => g \cap h = {}

LEMMA GroupsApart ==
  ASSUME NEW kept, MemoriesOK  PROVE Apart(Groups(kept), kept)
<1>. DEFINE n == Len(memories)
<1>1. Groups(kept) = (CHOOSE up : Grouped(up, kept, n))[n]
  BY DEF Groups, Grouped
<1>2. n \in Nat
  BY DEF MemoriesOK
<1>. HIDE DEF n
<1>3. PICK up : Grouped(up, kept, n) /\ Groups(kept) = up[n]
  BY <1>1, <1>2, GroupedExists
<1>. DEFINE T == {k \in Nat : k <= n => Apart(up[k], kept)}
<1>4. 0 \in T
  BY <1>2, <1>3 DEF Grouped, Apart
<1>5. ASSUME NEW k \in Nat, k \in T  PROVE k + 1 \in T
  <2>. SUFFICES ASSUME k + 1 <= n  PROVE Apart(up[k + 1], kept)
    OBVIOUS
  <2>1. Apart(up[k], kept)
    BY <1>2, <1>5
  <2>. DEFINE g == Group(kept, UNION up[k], k + 1)
  <2>2. \/ up[k + 1] = up[k]
        \/ k + 1 \in kept /\ up[k + 1] = up[k] \cup {g}
    <3>1. k + 1 \in 0 .. n /\ k + 1 # 0 /\ (k + 1) - 1 = k
      BY <1>2
    <3>. QED  BY <1>3, <3>1 DEF Grouped
  <2>3. ASSUME k + 1 \in kept
        PROVE  g \subseteq kept /\ \A h \in up[k] : g \cap h = {}
    BY <2>3 DEF Group
  <2>. HIDE DEF g
  <2>. QED  BY <2>1, <2>2, <2>3 DEF Apart
<1>. HIDE DEF T
<1>6. Nat \subseteq T
  BY <1>4, <1>5, NumberInduction
<1>. QED  BY <1>2, <1>3, <1>6 DEF T

LEMMA MergedIs ==
  ASSUME NEW g
  PROVE  /\ Merged(g).source = g
         /\ \A i \in g : Tokens(memories[i]) \subseteq Merged(g).words
BY DEF Merged, Tokens

LEMMA ConsolidateAccounts ==
  ASSUME MemoriesOK, Consolidate  PROVE PlanAccountsForAll'
<1>. DEFINE kept == {i \in DOMAIN memories : Keeps(memories[i])}
            groups == Groups(kept)
<1>1. /\ memories' = memories
      /\ plan'.keep = kept \ UNION groups
      /\ plan'.prune = DOMAIN memories \ kept
      /\ plan'.merge = {Merged(g) : g \in groups}
  BY DEF Consolidate
<1>2. Apart(groups, kept)
  BY GroupsApart
<1>3. \A i \in DOMAIN memories : memories[i].recent => i \in kept
  BY DEF Keeps
<1>. HIDE DEF groups, kept
<1>4. ASSUME NEW i \in DOMAIN memories,
             NEW in, in = {m \in plan'.merge : i \in m.source}
      PROVE  /\ Cardinality(in) + Cardinality({i} \cap plan'.keep)
                  + Cardinality({i} \cap plan'.prune) = 1
             /\ \A m \in in : Tokens(memories[i]) \subseteq m.words
  <2>1. \A m \in in : \E g \in groups : m = Merged(g) /\ i \in g
    BY <1>1, <1>4, MergedIs
  <2>2. Cardinality({i}) = 1 /\ Cardinality({}) = 0
    BY FS_Singleton, FS_EmptySet
  <2>3. CASE i \notin kept
    <3>1. in = {} /\ {i} \cap plan'.keep = {} /\ {i} \cap plan'.prune = {i}
      BY <1>1, <1>2, <2>1, <2>3 DEF Apart
    <3>. QED  BY <2>2, <3>1
  <2>4. ASSUME i \in kept, i \notin UNION groups
        PROVE  /\ Cardinality(in) + Cardinality({i} \cap plan'.keep)
                    + Cardinality({i} \cap plan'.prune) = 1
               /\ in = {}
    <3>1. in = {} /\ {i} \cap plan'.keep = {i} /\ {i} \cap plan'.prune = {}
      BY <1>1, <2>1, <2>4
    <3>. QED  BY <2>2, <3>1
  <2>5. ASSUME i \in kept, NEW g \in groups, i \in g
        PROVE  /\ Cardinality(in) + Cardinality({i} \cap plan'.keep)
                    + Cardinality({i} \cap plan'.prune) = 1
               /\ \A m \in in : Tokens(memories[i]) \subseteq m.words
    <3>1. in = {Merged(g)}
      <4>1. Merged(g) \in in
        BY <1>1, <1>4, <2>5, MergedIs
      <4>2. \A m \in in : m = Merged(g)
        BY <1>2, <2>1, <2>5 DEF Apart
      <4>. QED  BY <4>1, <4>2
    <3>2. {i} \cap plan'.keep = {} /\ {i} \cap plan'.prune = {}
      BY <1>1, <2>5
    <3>3. Cardinality(in) = 1
      BY <3>1, FS_Singleton
    <3>4. Cardinality(in) + Cardinality({i} \cap plan'.keep)
            + Cardinality({i} \cap plan'.prune) = 1
      BY <2>2, <3>2, <3>3
    <3>5. Tokens(memories[i]) \subseteq Merged(g).words
      BY <2>5, MergedIs
    <3>. QED  BY <3>1, <3>4, <3>5
  <2>. QED  BY <2>3, <2>4, <2>5
<1>. QED  BY <1>1, <1>3, <1>4 DEF PlanAccountsForAll, Tokens

-----------------------------------------------------------------------------
(* Trust.                                                                  *)

Refs   == {Ref(s) : s \in Servers}
Lists  == UNION {Shown(x) : x \in Listings}
Prints == {Fingerprint(n, l) : n \in Names, l \in Lists}
Taken  == [print : Prints, of : Listings]
Pins   == [ref : Refs, print : Prints, mode : {"strict", "warn"}]

WorldOK ==
  /\ \A s \in Servers : world[s].listing \in Listings
  /\ DOMAIN registry \subseteq Names
  /\ \A n \in DOMAIN registry : registry[n] \in Servers
  /\ DOMAIN inspected \subseteq DOMAIN registry
  /\ \A n \in DOMAIN inspected : inspected[n] \in Taken

\* One pin for each reference, with the fingerprint that was pinned last.
PolicyOK(policy, seen) ==
  /\ policy \in Seq(Pins)
  /\ \A i, k \in 1 .. Len(policy) : policy[i].ref = policy[k].ref => i = k
  /\ \A i \in 1 .. Len(policy) :
       policy[i].ref \in DOMAIN seen /\ seen[policy[i].ref].print = policy[i].print
  /\ \A r \in DOMAIN seen :
       seen[r] \in Taken /\ \E i \in 1 .. Len(policy) : policy[i].ref = r

PinsOK ==
  /\ PolicyOK(pins.servers, vouched)
  /\ pins.made \in BOOLEAN
  /\ ~pins.made => pins.servers = <<>>

\* Its fingerprint was taken of what its server had, or seemed to have.
TakenOK(b) ==
  b.of \in Listings /\ \E l \in Shown(b.of) : b.print = Fingerprint(b.name, l)

\* Each name once.
BoundOK(bound) ==
  /\ \A b \in bound : TakenOK(b)
  /\ \A b, c \in bound : b.name = c.name => b = c

BindOK ==
  /\ bind.pc \in {"off", "list", "print"}
  /\ bind.pc # "off" =>
       /\ BoundOK(bind.done)
       /\ bind.left \subseteq DOMAIN registry
       /\ \A b \in bind.done : b.name \notin bind.left
  /\ bind.pc = "list" =>
       bind = [pc |-> "list", left |-> bind.left, done |-> bind.done]
  /\ bind.pc = "print" =>
       /\ bind.name \in DOMAIN registry /\ bind.name \notin bind.left
       /\ \A b \in bind.done : b.name # bind.name

TrustInv ==
  /\ WorldOK /\ PinsOK /\ BindOK /\ BoundOK(bindings) /\ SilenceMeansPinned

-----------------------------------------------------------------------------
(* The policy.                                                             *)

\* Where the pin for a reference stands, or 0.
PinAt(policy, r) == SelectInSeq(policy, LAMBDA p : p.ref = r)

LEMMA AtFinds ==
  ASSUME NEW policy, NEW seen, PolicyOK(policy, seen), NEW r
  PROVE  \/ /\ PinAt(policy, r) = 0 /\ r \notin DOMAIN seen
            /\ \A i \in 1 .. Len(policy) : policy[i].ref # r
         \/ /\ PinAt(policy, r) \in 1 .. Len(policy) /\ policy[PinAt(policy, r)].ref = r
            /\ r \in DOMAIN seen /\ seen[r].print = policy[PinAt(policy, r)].print
<1>. DEFINE I == {i \in 1 .. Len(policy) : policy[i].ref = r}
<1>1. PinAt(policy, r) = IF I # {} THEN Min(I) ELSE 0
  BY DEF PinAt, SelectInSeq
<1>2. CASE I = {}
  BY <1>1, <1>2 DEF PolicyOK
<1>3. ASSUME I # {}  PROVE PinAt(policy, r) \in I
  <2>1. PICK i \in I : TRUE
    BY <1>3
  <2>2. I = {i}
    BY <2>1 DEF PolicyOK
  <2>3. i \in Nat
    BY <2>1 DEF PolicyOK
  <2>. HIDE DEF I
  <2>4. Min(I) = i
    BY <2>2, <2>3 DEF Min
  <2>. QED  BY <1>1, <2>2, <2>4
<1>4. ASSUME I # {}
      PROVE  /\ PinAt(policy, r) \in 1 .. Len(policy) /\ policy[PinAt(policy, r)].ref = r
             /\ r \in DOMAIN seen /\ seen[r].print = policy[PinAt(policy, r)].print
  BY <1>3, <1>4 DEF PolicyOK
<1>. QED  BY <1>2, <1>4

LEMMA PinKeepsPolicy ==
  ASSUME NEW policy, NEW seen, PolicyOK(policy, seen), NEW r \in Refs,
         NEW taken \in Taken, NEW mode \in {"strict", "warn"}
  PROVE  PolicyOK(PinMCPServer(policy, r, taken.print, mode), Map(seen, r, taken))
<1>. DEFINE at == PinAt(policy, r)
            print == taken.print
            pin == [ref |-> r, print |-> print, mode |-> mode]
            new == PinMCPServer(policy, r, print, mode)
            now == Map(seen, r, taken)
<1>1. new = IF at # 0 THEN [policy EXCEPT ![at] = pin] ELSE Append(policy, pin)
  BY DEF PinMCPServer, PinAt
<1>2. pin \in Pins /\ pin.ref = r /\ pin.print = print
  BY DEF Pins, Taken
<1>3. /\ DOMAIN now = DOMAIN seen \cup {r} /\ now[r] = taken /\ now[r].print = print
      /\ \A x \in DOMAIN seen : x # r => now[x] = seen[x]
  BY DEF Map
<1>4. CASE at # 0
  <2>1. at \in 1 .. Len(policy) /\ policy[at].ref = r /\ r \in DOMAIN seen
    BY <1>4, AtFinds
  <2>. HIDE DEF at, print, pin, new, now
  <2>2. new = [policy EXCEPT ![at] = pin] /\ policy \in Seq(Pins)
    BY <1>1, <1>4 DEF PolicyOK
  <2>3. new \in Seq(Pins) /\ Len(new) = Len(policy)
    BY <1>2, <2>1, <2>2
  <2>4. /\ new[at] = pin
        /\ \A i \in 1 .. Len(policy) : i # at => new[i] = policy[i]
    BY <2>1, <2>2
  <2>5. \A i \in 1 .. Len(policy) : new[i].ref = policy[i].ref
    BY <1>2, <2>1, <2>4
  <2>6. \A i \in 1 .. Len(new) :
          new[i].ref \in DOMAIN now /\ now[new[i].ref].print = new[i].print
    <3>1. ASSUME NEW i \in 1 .. Len(policy), i # at
          PROVE  new[i].ref \in DOMAIN now /\ now[new[i].ref].print = new[i].print
      <4>1. policy[i].ref # r
        BY <2>1, <3>1 DEF PolicyOK
      <4>2. policy[i].ref \in DOMAIN seen /\ seen[policy[i].ref].print = policy[i].print
        BY DEF PolicyOK
      <4>. QED  BY <1>3, <2>4, <3>1, <4>1, <4>2
    <3>2. new[at].ref \in DOMAIN now /\ now[new[at].ref].print = new[at].print
      BY <1>2, <1>3, <2>4
    <3>3. Len(new) = Len(policy)
      BY <2>3
    <3>. QED  BY <3>1, <3>2, <3>3
  <2>7. ASSUME NEW x \in DOMAIN now
        PROVE  now[x] \in Taken /\ \E i \in 1 .. Len(policy) : new[i].ref = x
    <3>1. x = r \/ x \in DOMAIN seen
      BY <1>3
    <3>2. PICK i \in 1 .. Len(policy) : policy[i].ref = x
      BY <2>1, <3>1 DEF PolicyOK
    <3>3. now[x] \in Taken
      BY <1>3, <3>1 DEF PolicyOK
    <3>. QED  BY <2>5, <3>2, <3>3
  <2>8. PolicyOK(new, now)
    BY <2>3, <2>5, <2>6, <2>7 DEF PolicyOK
  <2>. QED  BY <2>8 DEF new, now, print
<1>5. CASE at = 0
  <2>1. r \notin DOMAIN seen /\ \A i \in 1 .. Len(policy) : policy[i].ref # r
    BY <1>5, AtFinds
  <2>. HIDE DEF at, print, pin, new, now
  <2>2. new = Append(policy, pin) /\ policy \in Seq(Pins)
    BY <1>1, <1>5 DEF PolicyOK
  <2>3. new \in Seq(Pins) /\ Len(new) = Len(policy) + 1
    BY <1>2, <2>2
  <2>4. /\ new[Len(policy) + 1] = pin
        /\ \A i \in 1 .. Len(policy) : new[i] = policy[i]
    BY <1>2, <2>2
  <2>5. \A i \in 1 .. Len(new) : i \in 1 .. Len(policy) \/ i = Len(policy) + 1
    BY <2>2, <2>3
  <2>6. \A i, k \in 1 .. Len(new) : new[i].ref = new[k].ref => i = k
    BY <1>2, <2>1, <2>4, <2>5 DEF PolicyOK
  <2>7. \A i \in 1 .. Len(new) :
          new[i].ref \in DOMAIN now /\ now[new[i].ref].print = new[i].print
    <3>1. ASSUME NEW i \in 1 .. Len(policy)
          PROVE  new[i].ref \in DOMAIN now /\ now[new[i].ref].print = new[i].print
      <4>1. policy[i].ref \in DOMAIN seen /\ seen[policy[i].ref].print = policy[i].print
        BY DEF PolicyOK
      <4>. QED  BY <1>3, <2>1, <2>4, <4>1
    <3>2. LET k == Len(policy) + 1
          IN  new[k].ref \in DOMAIN now /\ now[new[k].ref].print = new[k].print
      BY <1>2, <1>3, <2>4
    <3>. QED  BY <2>5, <3>1, <3>2
  <2>8. ASSUME NEW x \in DOMAIN now
        PROVE  now[x] \in Taken /\ \E i \in 1 .. Len(new) : new[i].ref = x
    <3>1. CASE x = r
      <4>1. Len(policy) + 1 \in 1 .. Len(new)
        BY <2>2, <2>3
      <4>. QED  BY <1>2, <1>3, <2>4, <3>1, <4>1
    <3>2. CASE x # r
      <4>1. PICK i \in 1 .. Len(policy) : policy[i].ref = x
        BY <1>3, <3>2 DEF PolicyOK
      <4>2. i \in 1 .. Len(new)
        BY <2>2, <2>3
      <4>3. now[x] \in Taken
        BY <1>3, <3>2 DEF PolicyOK
      <4>. QED  BY <2>4, <4>1, <4>2, <4>3
    <3>. QED  BY <3>1, <3>2
  <2>9. PolicyOK(new, now)
    BY <2>3, <2>6, <2>7, <2>8 DEF PolicyOK
  <2>. QED  BY <2>9 DEF new, now, print
<1>. QED  BY <1>4, <1>5

-----------------------------------------------------------------------------
(* What an audit says.                                                     *)

\* The first conjunct of SilenceMeansPinned needs that the tools in the
\* fingerprint of a binding are those its server had.
LEMMA TakenHas ==
  ASSUME NEW b, TakenOK(b)
  PROVE  b.print.name = b.name /\ b.print.listed.tools = b.of.tools
<1>1. PICK l \in Shown(b.of) : b.print = Fingerprint(b.name, l)
  BY DEF TakenOK
<1>2. PICK o \in Listings : o = b.of
  BY DEF TakenOK
<1>3. l \in Shown(o)
  BY <1>1, <1>2
<1>4. PICK r \in {o.resources, {}}, p \in {o.prompts, {}} :
        l = [o EXCEPT !.resources = r, !.prompts = p]
  BY <1>3 DEF Shown
<1>5. l.tools = o.tools
  BY <1>4, TrustAssumption
<1>. QED  BY <1>1, <1>2, <1>5 DEF Fingerprint, Hashed

LEMMA PrintIs ==
  ASSUME NEW p \in Prints  PROVE p = [name |-> p.name, listed |-> p.listed]
<1>1. PICK n \in Names, l \in Lists : p = Fingerprint(n, l)
  BY DEF Prints
<1>2. p = [name |-> n, listed |-> Hashed(l)]
  BY <1>1 DEF Fingerprint
<1>. QED  BY <1>2

LEMMA AuditTells ==
  ASSUME PinsOK, BoundOK(bindings), Audit  PROVE SilenceMeansPinned'
<1>1. /\ audit'.bound = bindings /\ audit'.pinned = vouched
      /\ audit'.violations = Violations(pins.servers, bindings)
  BY DEF Audit
<1>. DEFINE policy == pins.servers
            of(b) == LET at == PinAt(policy, b.ref) IN
               CASE at = 0 -> {Violation(b, "unpinned_server", "warning")}
                 [] at # 0 /\ policy[at].print # b.print ->
                      {Violation(b, "fingerprint_mismatch",
                                 IF policy[at].mode = "strict" THEN "error" ELSE "warning")}
                 [] OTHER -> {}
            Reported(b) == \E v \in Violations(policy, bindings) : v.name = b.name
<1>2. Violations(policy, bindings) = UNION {of(b) : b \in bindings}
  BY DEF Violations, PinAt
<1>3. \A b \in bindings : \A v \in of(b) : v.name = b.name
  BY DEF Violation
<1>4. ASSUME NEW b \in bindings
      PROVE  ~Reported(b) <=> b.ref \in DOMAIN vouched /\ vouched[b.ref].print = b.print
  <2>. DEFINE at == PinAt(policy, b.ref)
  <2>1. Reported(b) <=> of(b) # {}
    <3>1. ASSUME NEW v \in Violations(policy, bindings), v.name = b.name
          PROVE  of(b) # {}
      <4>. HIDE DEF of
      <4>1. PICK c \in bindings : v \in of(c)
        BY <1>2
      <4>2. c = b
        BY <1>3, <3>1, <4>1 DEF BoundOK
      <4>. QED  BY <4>1, <4>2
    <3>2. ASSUME NEW v \in of(b)
          PROVE  \E w \in Violations(policy, bindings) : w.name = b.name
      <4>. HIDE DEF of
      <4>. QED  BY <1>2, <1>3
    <3>. HIDE DEF of
    <3>. QED  BY <3>1, <3>2
  <2>2. of(b) # {} <=> at = 0 \/ policy[at].print # b.print
    BY DEF Violation
  <2>3. \/ at = 0 /\ b.ref \notin DOMAIN vouched
        \/ /\ at \in 1 .. Len(policy) /\ b.ref \in DOMAIN vouched
           /\ vouched[b.ref].print = policy[at].print
    BY AtFinds DEF PinsOK
  <2>4. 0 \notin 1 .. Len(policy)
    BY DEF PinsOK, PolicyOK
  <2>. HIDE DEF at, of, Reported
  <2>. QED  BY <2>1, <2>2, <2>3, <2>4
<1>. HIDE DEF of, Reported
<1>5. ASSUME NEW b \in bindings, NEW as, as = vouched[b.ref]
      PROVE  /\ ~Reported(b) =>
                  /\ b.ref \in DOMAIN vouched /\ as.print.name = b.name
                  /\ b.listed.tools = b.of.tools
                       => as.print.listed.tools = b.listed.tools
             /\ b.ref \in DOMAIN vouched /\ Complete(as) /\ Complete(b) =>
                  (~Reported(b)
                     <=> as.print.name = b.name /\ Hashed(as.of) = Hashed(b.of))
  <2>1. ~Reported(b) <=> b.ref \in DOMAIN vouched /\ as.print = b.print
    BY <1>4, <1>5
  <2>2. b.print.name = b.name /\ b.print.listed.tools = b.of.tools
    BY TakenHas DEF BoundOK
  <2>3. ASSUME b.ref \in DOMAIN vouched, Complete(as), Complete(b)
        PROVE  as.print = b.print
                 <=> as.print.name = b.name /\ Hashed(as.of) = Hashed(b.of)
    <3>1. b.print = [name |-> b.print.name, listed |-> b.print.listed]
      <4>1. PICK l \in Shown(b.of) : b.print = Fingerprint(b.name, l)
        BY DEF BoundOK, TakenOK
      <4>2. Fingerprint(b.name, l).name = b.name
            /\ Fingerprint(b.name, l).listed = Hashed(l)
        BY DEF Fingerprint
      <4>. QED  BY <4>1, <4>2 DEF Fingerprint
    <3>2. as.print = [name |-> as.print.name, listed |-> as.print.listed]
      <4>1. as.print \in Prints
        BY <1>5, <2>3 DEF PinsOK, PolicyOK, Taken
      <4>. QED  BY <4>1, PrintIs
    <3>3. as.print = b.print
            <=> as.print.name = b.print.name /\ as.print.listed = b.print.listed
      BY <3>1, <3>2
    <3>. QED  BY <2>2, <2>3, <3>3 DEF Complete
  <2>. QED  BY <2>1, <2>2, <2>3
<1>. QED  BY <1>1, <1>5 DEF SilenceMeansPinned, Reported

-----------------------------------------------------------------------------
(* The steps.                                                              *)

LEMMA UpgradeKeeps ==
  ASSUME TrustInv, NEW s \in Servers,
         Toggle(s) \/ \E l \in Listings : Upgrade(s, l)
  PROVE  TrustInv'
<1>. USE DEF TrustInv
<1>1. /\ \A x \in Servers : world'[x].listing \in Listings
      /\ UNCHANGED <<registry, inspected, pins, bindings, bind, audit, vouched>>
  <2>1. CASE Toggle(s)
    BY <2>1 DEF Toggle, WorldOK
  <2>2. ASSUME NEW l \in Listings, Upgrade(s, l)  PROVE <1>1!1
    BY <2>2 DEF Upgrade, WorldOK
  <2>. QED  BY <2>1, <2>2 DEF Toggle, Upgrade
<1>. QED  BY <1>1 DEF WorldOK, PinsOK, BindOK, SilenceMeansPinned

LEMMA RegistryKeeps ==
  ASSUME TrustInv, NEW n \in Names,
         Inspect(n) \/ \E s \in Servers : Add(n, s)
  PROVE  TrustInv'
<1>. USE DEF TrustInv
<1>1. CASE Inspect(n)
  <2>. DEFINE s == world[registry[n]]
  <2>1. PICK l \in Shown(s.listing) :
          /\ n \in DOMAIN registry
          /\ inspected' = Map(inspected, n, [print |-> Fingerprint(n, l), of |-> s.listing])
          /\ UNCHANGED <<world, registry, pins, bindings, bind, audit, vouched>>
    BY <1>1 DEF Inspect
  <2>2. s.listing \in Listings
    BY <2>1 DEF WorldOK
  <2>3. Fingerprint(n, l) \in Prints
    BY <2>1, <2>2 DEF Prints, Lists
  <2>4. [print |-> Fingerprint(n, l), of |-> s.listing] \in Taken
    BY <2>2, <2>3 DEF Taken
  <2>. HIDE DEF s
  <2>5. WorldOK'
    BY <2>1, <2>4 DEF WorldOK, Map
  <2>. QED  BY <2>1, <2>5 DEF PinsOK, BindOK, SilenceMeansPinned
<1>2. ASSUME NEW s \in Servers, Add(n, s)  PROVE TrustInv'
  <2>1. /\ bind.pc = "off" /\ registry' = Map(registry, n, s)
        /\ UNCHANGED <<world, inspected, pins, bindings, bind, audit, vouched>>
    BY <1>2 DEF Add
  <2>2. WorldOK'
    BY <2>1 DEF WorldOK, Map
  <2>3. BindOK'
    BY <2>1 DEF BindOK
  <2>. QED  BY <2>1, <2>2, <2>3 DEF PinsOK, SilenceMeansPinned
<1>. QED  BY <1>1, <1>2

LEMMA PolicyKeeps ==
  ASSUME TrustInv,
         InitPolicy \/ \E n \in Names, mode \in {"strict", "warn"} : Pin(n, mode)
  PROVE  TrustInv'
<1>. USE DEF TrustInv
<1>1. CASE InitPolicy
  <2>1. /\ pins'.made = TRUE /\ pins'.servers = pins.servers
        /\ UNCHANGED <<world, registry, inspected, bindings, bind, audit, vouched>>
    BY <1>1 DEF InitPolicy, PinsOK
  <2>2. PinsOK'
    BY <2>1 DEF PinsOK
  <2>. QED  BY <2>1, <2>2 DEF WorldOK, BindOK, BoundOK, SilenceMeansPinned
<1>2. ASSUME NEW n \in Names, NEW mode \in {"strict", "warn"}, Pin(n, mode)
      PROVE  TrustInv'
  <2>. DEFINE r == Ref(registry[n])
              policy == PinMCPServer(pins.servers, r, inspected[n].print, mode)
  <2>1. /\ n \in DOMAIN inspected
        /\ pins' = [made |-> TRUE, servers |-> policy]
        /\ vouched' = Map(vouched, r, inspected[n])
        /\ UNCHANGED <<world, registry, inspected, bindings, bind, audit>>
    BY <1>2 DEF Pin
  <2>2. r \in Refs /\ inspected[n] \in Taken
    BY <2>1 DEF WorldOK, Refs
  <2>. HIDE DEF r, policy
  <2>3. PolicyOK(policy, vouched')
    BY <2>1, <2>2, PinKeepsPolicy DEF PinsOK, policy
  <2>4. PinsOK'
    BY <2>1, <2>3 DEF PinsOK
  <2>. QED  BY <2>1, <2>4 DEF WorldOK, BindOK, BoundOK, SilenceMeansPinned
<1>. QED  BY <1>1, <1>2

LEMMA BindKeeps ==
  ASSUME TrustInv, NEW names, names \subseteq DOMAIN registry, Bind(names)
  PROVE  TrustInv'
<1>. USE DEF TrustInv
<1>1. /\ bind' = [pc |-> "list", left |-> names, done |-> {}]
      /\ UNCHANGED <<world, registry, inspected, pins, bindings, audit, vouched>>
  BY DEF Bind
<1>2. BindOK'
  BY <1>1 DEF BindOK, BoundOK
<1>. QED  BY <1>1, <1>2 DEF WorldOK, PinsOK, BoundOK, SilenceMeansPinned

LEMMA ListToolsKeeps ==
  ASSUME TrustInv, ListTools  PROVE TrustInv'
<1>. USE DEF TrustInv
<1>1. /\ bind.pc = "list"
      /\ UNCHANGED <<world, registry, inspected, pins, bindings, audit, vouched>>
  BY DEF ListTools
<1>2. PICK name \in bind.left :
        LET s == world[registry[name]] IN
        \E l \in Shown(s.listing) :
          bind' = IF s.up
                    THEN [pc |-> "print", left |-> bind.left \ {name},
                          done |-> bind.done, name |-> name, listed |-> l]
                    ELSE [bind EXCEPT !.left = bind.left \ {name}]
  BY DEF ListTools
<1>3. /\ BoundOK(bind.done) /\ bind.left \subseteq DOMAIN registry
      /\ \A b \in bind.done : b.name \notin bind.left
      /\ bind = [pc |-> "list", left |-> bind.left, done |-> bind.done]
  BY <1>1 DEF BindOK
<1>4. PICK l : \/ bind' = [pc |-> "print", left |-> bind.left \ {name},
                           done |-> bind.done, name |-> name, listed |-> l]
               \/ bind' = [bind EXCEPT !.left = bind.left \ {name}]
  BY <1>2
<1>5. BindOK'
  <2>1. CASE bind' = [pc |-> "print", left |-> bind.left \ {name},
                      done |-> bind.done, name |-> name, listed |-> l]
    <3>1. /\ bind'.pc = "print" /\ bind'.left = bind.left \ {name}
          /\ bind'.done = bind.done /\ bind'.name = name
      BY <2>1
    <3>. QED  BY <1>1, <1>3, <3>1 DEF BindOK
  <2>2. CASE bind' = [bind EXCEPT !.left = bind.left \ {name}]
    <3>1. bind' = [pc |-> "list", left |-> bind.left \ {name}, done |-> bind.done]
      BY <1>3, <2>2
    <3>2. /\ bind'.pc = "list" /\ bind'.left \subseteq bind.left
          /\ bind'.done = bind.done
          /\ bind' = [pc |-> "list", left |-> bind'.left, done |-> bind'.done]
      BY <3>1
    <3>. QED  BY <1>1, <1>3, <3>2 DEF BindOK
  <2>. QED  BY <1>4, <2>1, <2>2
<1>. QED  BY <1>1, <1>5 DEF WorldOK, PinsOK, SilenceMeansPinned

LEMMA GetFingerprintKeeps ==
  ASSUME TrustInv, GetFingerprint  PROVE TrustInv'
<1>. USE DEF TrustInv
<1>. DEFINE s == registry[bind.name]
            bound(l) == [name |-> bind.name, ref |-> Ref(s), listed |-> bind.listed,
                         print |-> Fingerprint(bind.name, l), of |-> world[s].listing]
<1>1. /\ bind.pc = "print"
      /\ UNCHANGED <<world, registry, inspected, pins, bindings, audit, vouched>>
  BY DEF GetFingerprint
<1>2. PICK l \in Shown(world[s].listing) :
        bind' = [pc |-> "list", left |-> bind.left,
                 done |-> bind.done \cup IF world[s].up THEN {bound(l)} ELSE {}]
  BY DEF GetFingerprint
<1>3. /\ BoundOK(bind.done) /\ bind.left \subseteq DOMAIN registry
      /\ \A b \in bind.done : b.name \notin bind.left
      /\ bind.name \in DOMAIN registry /\ bind.name \notin bind.left
      /\ \A b \in bind.done : b.name # bind.name
  BY <1>1 DEF BindOK
<1>4. PICK b : b = bound(l)
  OBVIOUS
<1>5. b.name = bind.name /\ TakenOK(b)
  <2>1. world[s].listing \in Listings
    BY <1>3 DEF WorldOK
  <2>2. /\ b.name = bind.name /\ b.of = world[s].listing
        /\ b.print = Fingerprint(bind.name, l)
    BY <1>4
  <2>. QED  BY <1>2, <2>1, <2>2 DEF TakenOK
<1>6. /\ bind'.pc = "list" /\ bind'.left = bind.left
      /\ bind'.done = bind.done \/ bind'.done = bind.done \cup {b}
      /\ bind' = [pc |-> "list", left |-> bind'.left, done |-> bind'.done]
  BY <1>2, <1>4
<1>. HIDE DEF bound, s
<1>7. BoundOK(bind.done \cup {b})
  BY <1>3, <1>5 DEF BoundOK
<1>8. BoundOK(bind'.done)
  BY <1>3, <1>6, <1>7
<1>9. \A x \in bind'.done : x.name \notin bind'.left
  BY <1>3, <1>5, <1>6
<1>10. BindOK'
  BY <1>1, <1>3, <1>6, <1>8, <1>9 DEF BindOK
<1>. QED  BY <1>1, <1>10 DEF WorldOK, PinsOK, SilenceMeansPinned

LEMMA SaveBindingsKeeps ==
  ASSUME TrustInv, SaveBindings  PROVE TrustInv'
<1>. USE DEF TrustInv
<1>1. /\ bind.pc = "list" /\ bindings' = bind.done /\ bind' = [pc |-> "off"]
      /\ UNCHANGED <<world, registry, inspected, pins, audit, vouched>>
  BY DEF SaveBindings, Off
<1>2. BoundOK(bindings')
  BY <1>1 DEF BindOK
<1>3. BindOK'
  BY <1>1 DEF BindOK
<1>. QED  BY <1>1, <1>2, <1>3 DEF WorldOK, PinsOK, SilenceMeansPinned

LEMMA AuditKeeps ==
  ASSUME TrustInv, Audit  PROVE TrustInv'
<1>. USE DEF TrustInv
<1>1. UNCHANGED <<world, registry, inspected, pins, bindings, bind, vouched>>
  BY DEF Audit
<1>2. SilenceMeansPinned'
  BY AuditTells
<1>. QED  BY <1>1, <1>2 DEF WorldOK, PinsOK, BindOK

LEMMA TrustInitOK ==
  ASSUME TrustInit  PROVE TrustInv
<1>1. PinsOK
  BY DEF TrustInit, PinsOK, PolicyOK
<1>2. WorldOK
  BY TrustAssumption DEF TrustInit, WorldOK
<1>3. BindOK
  BY DEF TrustInit, BindOK, Off
<1>4. BoundOK(bindings)
  BY DEF TrustInit, BoundOK
<1>5. SilenceMeansPinned
  BY DEF TrustInit, NoAudit, SilenceMeansPinned
<1>. QED  BY <1>1, <1>2, <1>3, <1>4, <1>5 DEF TrustInv

LEMMA TrustStepsKeep ==
  ASSUME TrustInv, [TrustSteps]_trustVars  PROVE TrustInv'
<1>1. CASE UNCHANGED trustVars
  BY <1>1 DEF trustVars, TrustInv, WorldOK, PinsOK, BindOK, SilenceMeansPinned
<1>2. CASE \E s \in Servers : Toggle(s) \/ \E l \in Listings : Upgrade(s, l)
  BY <1>2, UpgradeKeeps
<1>3. CASE \E n \in Names : Inspect(n) \/ \E s \in Servers : Add(n, s)
  BY <1>3, RegistryKeeps
<1>4. CASE InitPolicy \/ \E n \in Names, mode \in {"strict", "warn"} : Pin(n, mode)
  BY <1>4, PolicyKeeps
<1>5. CASE Bind(DOMAIN registry) \/ \E n \in DOMAIN registry : Bind({n})
  <2>1. PICK names : names \subseteq DOMAIN registry /\ Bind(names)
    BY <1>5
  <2>. QED  BY <2>1, BindKeeps
<1>6. CASE BindSteps
  BY <1>6, ListToolsKeeps, GetFingerprintKeeps, SaveBindingsKeeps DEF BindSteps
<1>7. CASE Audit
  BY <1>7, AuditKeeps
<1>. QED  BY <1>1, <1>2, <1>3, <1>4, <1>5, <1>6, <1>7 DEF TrustSteps

------------------------------------------------------------------

\* What detect reads: how every trace began, and all of it once a migration
\* has ended and no trace is astray.
LEMMA DetectReads ==
  ASSUME LayoutInv
  PROVE  /\ Traces(Listing("traces")) /\ Traces(entries["traces"])
         /\ \A r \in DOMAIN Listing("traces") :
              /\ r \in DOMAIN entries["traces"]
              /\ Tells(Listing("traces")[r], entries["traces"][r])
         /\ ~half /\ astray = {} =>
              /\ \A r : r \in DOMAIN Listing("traces") <=> r \in DOMAIN entries["traces"]
              /\ \A r \in DOMAIN Listing("traces") :
                   Listing("traces")[r] = entries["traces"][r]
<1>1. PICK i \in Layouts : i = Place("traces")
  BY DEF Place, Layouts
<1>2. Listing("traces") = In(dirs, i, "traces") /\ "traces" \in Spaces
  BY <1>1 DEF Listing, In, Spaces
<1>3. /\ Traces(entries["traces"]) /\ Traces(In(dirs, i, "traces"))
      /\ \A r \in DOMAIN In(dirs, i, "traces") :
           /\ r \in DOMAIN entries["traces"]
           /\ Tells(In(dirs, i, "traces")[r], entries["traces"][r])
  BY <1>2 DEF LayoutInv, PathsOK, LinesOK, Traces
<1>4. ASSUME ~half, astray = {}
      PROVE  \A r \in DOMAIN entries["traces"] :
               /\ r \in DOMAIN Listing("traces")
               /\ Listing("traces")[r] = entries["traces"][r]
  BY <1>4, LayoutPromise DEF NothingIsLost
<1>. QED  BY <1>2, <1>3, <1>4

LEMMA EditsAreRejections ==
  ASSUME NEW events, NEW s \in Signals(events), s.type = "repeated_edit"
  PROVE  s.frequency = Rejections(events, s.about)
<1>1. s \in RepeatedEdits(events)
  <2>1. s \in RepeatedEdits(events) \cup PrincipleViolations(events)
                \cup UserCorrections(events) \cup ToolChanges(events)
                \cup AssertionMismatches(events)
    BY DEF Signals
  <2>2. ASSUME s \in PrincipleViolations(events)  PROVE FALSE
    <3>1. PICK f : s = Signal("principle_violation", "", f)
      BY <2>2 DEF PrincipleViolations
    <3>. QED  BY <3>1 DEF Signal
  <2>3. ASSUME s \in UserCorrections(events)  PROVE FALSE
    <3>1. PICK f : s = Signal("user_correction", "", f)
      BY <2>3 DEF UserCorrections
    <3>. QED  BY <3>1 DEF Signal
  <2>4. ASSUME s \in ToolChanges(events)  PROVE FALSE
    <3>1. PICK skill, f : s = Signal("tool_change", skill, f)
      BY <2>4 DEF ToolChanges
    <3>. QED  BY <3>1 DEF Signal
  <2>5. ASSUME s \in AssertionMismatches(events)  PROVE FALSE
    <3>1. PICK f : s = Signal("assertion_mismatch", "", f)
      BY <2>5 DEF AssertionMismatches
    <3>. QED  BY <3>1 DEF Signal
  <2>. QED  BY <2>1, <2>2, <2>3, <2>4, <2>5
<1>2. PICK reason \in Reasons : s = Signal("repeated_edit", reason, Rejections(events, reason))
  BY <1>1 DEF RepeatedEdits
<1>. QED  BY <1>2 DEF Signal

LEMMA DetectCountsOnce ==
  ASSUME LayoutInv, Detect  PROVE EventsCountOnce'
<1>. DEFINE read == Listing("traces")
            told == entries["traces"]
            found == Signals(AllEvents(read))
<1>1. /\ TornLine \notin ToSet(AllEvents(read))
      /\ report' = [signals |-> found, recorded |-> told, whole |-> ~half /\ astray = {}]
  BY DEF Detect, ReadTraces
<1>2. report'.signals = found /\ report'.recorded = told /\ report'.whole = (~half /\ astray = {})
  BY <1>1
<1>3. ASSUME NEW s \in found, s.type = "repeated_edit"
      PROVE  s.frequency <= Rejections(AllEvents(told), s.about)
  <2>1. /\ AllEvents(read) \in Seq(Lines) /\ AllEvents(told) \in Seq(Lines)
        /\ Embeds(AllEvents(read), AllEvents(told))
    BY <1>1, DetectReads, FewerEvents
  <2>. QED  BY <1>3, <2>1, EditsAreRejections, FewerRejections
<1>4. ASSUME ~half, astray = {}  PROVE found = Signals(AllEvents(told))
  BY <1>4, DetectReads, SameEvents
<1>. HIDE DEF found, told
<1>5. /\ \A s \in report'.signals :
           s.type = "repeated_edit" => s.frequency <= Rejections(AllEvents(report'.recorded), s.about)
      /\ report'.whole => report'.signals = Signals(AllEvents(report'.recorded))
  BY <1>2, <1>3, <1>4
<1>. QED  BY <1>5 DEF EventsCountOnce

-----------------------------------------------------------------------------
(* Recursions over the places of a sequence.                               *)

\* The steps of a recursion over 0 .. n whose values are in U.
Moves(n, U) == [1 .. n -> [U -> U]]
Stays(f, n, U) == f \in [0 .. n -> U]
Computes(f, n, base, move) == f[0] = base /\ \A k \in 1 .. n : f[k] = move[k][f[k - 1]]

\* What such a recursion computes.
LEMMA FoldIs ==
  ASSUME NEW N \in Nat, NEW U, NEW base \in U, NEW move \in Moves(N, U)
  PROVE  \E f : Stays(f, N, U) /\ Computes(f, N, base, move)
<1>. DEFINE is(f, n) == f[0] = base /\ \A k \in 1 .. n : f[k] = move[k][f[k - 1]]
            T == {n \in Nat : n <= N => \E f \in [0 .. n -> U] : is(f, n)}
<1>1. 0 \in T
  <2>. DEFINE z == [k \in 0 .. 0 |-> base]
  <2>1. \A k \in 0 .. 0 : k = 0
    OBVIOUS
  <2>3. z \in [0 .. 0 -> U] /\ is(z, 0)
    BY <2>1
  <2>. QED  BY <2>3
<1>2. ASSUME NEW n \in Nat, n \in T  PROVE n + 1 \in T
  <2>. SUFFICES ASSUME n + 1 <= N  PROVE \E g \in [0 .. n + 1 -> U] : is(g, n + 1)
    OBVIOUS
  <2>0. n <= N
    OBVIOUS
  <2>1. PICK f \in [0 .. n -> U] : is(f, n)
    BY <1>2, <2>0
  <2>. DEFINE g == [k \in 0 .. n + 1 |-> IF k = n + 1 THEN move[k][f[n]] ELSE f[k]]
  <2>2. n + 1 \in 1 .. N /\ f[n] \in U
    BY <2>1
  <2>3. move[n + 1][f[n]] \in U
    BY <2>2 DEF Moves
  <2>4. \A k \in 0 .. n + 1 : k # n + 1 => k \in 0 .. n
    OBVIOUS
  <2>5. g \in [0 .. n + 1 -> U]
    BY <2>1, <2>3, <2>4
  <2>6. ASSUME NEW k \in 1 .. n + 1  PROVE g[k] = move[k][g[k - 1]]
    <3>2. CASE k \in 1 .. n
      <4>1. k - 1 \in 0 .. n /\ g[k - 1] = f[k - 1] /\ g[k] = f[k]
        BY <3>2
      <4>2. f[k] = move[k][f[k - 1]]
        BY <2>1, <3>2
      <4>. QED  BY <4>1, <4>2
    <3>3. CASE k = n + 1
      BY <3>3
    <3>. QED  BY <3>2, <3>3
  <2>7. g[0] = base
    BY <2>1
  <2>. QED  BY <2>5, <2>6, <2>7
<1>. HIDE DEF T
<1>3. Nat \subseteq T
  BY <1>1, <1>2, NumberInduction
<1>4. N \in T
  BY <1>3
<1>. QED  BY <1>4 DEF T, Stays, Computes

\* What holds at the beginning of a recursion and is kept by each step.
LEMMA Stages ==
  ASSUME NEW N \in Nat, NEW f, NEW S, f[0] \in S[0],
         \A k \in 1 .. N : f[k - 1] \in S[k - 1] => f[k] \in S[k]
  PROVE  \A k \in 0 .. N : f[k] \in S[k]
<1>. DEFINE T == {n \in Nat : n <= N => f[n] \in S[n]}
<1>1. 0 \in T
  OBVIOUS
<1>2. ASSUME NEW n \in Nat, n \in T  PROVE n + 1 \in T
  <2>. SUFFICES ASSUME n + 1 <= N  PROVE f[n + 1] \in S[n + 1]
    OBVIOUS
  <2>1. n + 1 \in 1 .. N /\ (n + 1) - 1 = n /\ n <= N
    OBVIOUS
  <2>2. f[n] \in S[n]
    BY <1>2, <2>1
  <2>. QED  BY <2>1, <2>2
<1>. HIDE DEF T
<1>3. Nat \subseteq T
  BY <1>1, <1>2, NumberInduction
<1>. QED  BY <1>3 DEF T

\* A fact that each step keeps holds of all that a recursion computes.
LEMMA Staying ==
  ASSUME NEW N \in Nat, NEW f, NEW U, f[0] \in U,
         \A k \in 1 .. N : f[k - 1] \in U => f[k] \in U
  PROVE  \A k \in 0 .. N : f[k] \in U
<1>. DEFINE S == [k \in 0 .. N |-> U]
<1>1. \A k \in 0 .. N : S[k] = U
  OBVIOUS
<1>2. f[0] \in S[0] /\ \A k \in 1 .. N : f[k - 1] \in S[k - 1] => f[k] \in S[k]
  BY <1>1
<1>. HIDE DEF S
<1>3. \A k \in 0 .. N : f[k] \in S[k]
  BY <1>2, Stages
<1>. QED  BY <1>1, <1>3

\* FirstIn finds an element, where there is one.
LEMMA FirstFound ==
  ASSUME NEW X, NEW s \in Seq(X), NEW S, ToSet(s) \cap S # {}
  PROVE  FirstIn(s, S) \in 1 .. Len(s) /\ s[FirstIn(s, S)] \in S
<1>. DEFINE T == {k \in Nat : k \in 1 .. Len(s) /\ s[k] \in S}
<1>0. DOMAIN s = 1 .. Len(s) /\ Len(s) \in Nat
  BY LenProperties
<1>1. PICK j \in DOMAIN s : s[j] \in S
  BY DEF ToSet
<1>2. j \in T
  BY <1>0, <1>1
<1>3. \A x, y \in Nat : <<x, y>> \in OpToRel(<, Nat) <=> x < y
  BY DEF OpToRel
<1>4. PICK k \in T : \A y \in T : ~(<<y, k>> \in OpToRel(<, Nat))
  <2>1. T \subseteq Nat /\ T # {}
    BY <1>2
  <2>. HIDE DEF T
  <2>. QED  BY <2>1, NatLessThanWellFounded, WFMin
<1>5. \A m \in 1 .. k - 1 : s[m] \notin S
  <2>. SUFFICES ASSUME NEW m \in 1 .. k - 1, s[m] \in S  PROVE FALSE
    OBVIOUS
  <2>1. m \in T /\ m < k /\ m \in Nat /\ k \in Nat
    BY <1>0
  <2>. QED  BY <1>3, <1>4, <2>1
<1>6. \E n \in DOMAIN s : s[n] \in S /\ \A m \in 1 .. n - 1 : s[m] \notin S
  BY <1>0, <1>4, <1>5
<1>. HIDE DEF T
<1>. QED  BY <1>0, <1>6 DEF FirstIn

-----------------------------------------------------------------------------
(* The skills graph.                                                       *)

Declares(skills, e) ==
  \E k \in DOMAIN skills :
    \/ e[1] = skills[k].id /\ e[2] \in ToSet(skills[k].feeds)
    \/ e[2] = skills[k].id /\ e[1] \in ToSet(skills[k].needs)

\* The ids of a manifest, and what is declared of a skill.
LEMMA SkillIs ==
  ASSUME NEW skills \in Seq(Skills)
  PROVE  /\ Len(skills) \in Nat /\ DOMAIN skills = 1 .. Len(skills)
         /\ \A k \in 1 .. Len(skills) :
              /\ skills[k].id \in STRING /\ skills[k].feeds \in Seq(STRING)
              /\ skills[k].needs \in Seq(STRING)
         /\ Order(skills) \in Seq(Ids(skills)) /\ Len(Order(skills)) = Len(skills)
         /\ \A k \in 1 .. Len(skills) : Order(skills)[k] = skills[k].id
         /\ \A k \in 1 .. Len(skills) : skills[k].id \in Ids(skills)
         /\ Ids(skills) \subseteq STRING /\ IsFiniteSet(Ids(skills))
<1>1. Len(skills) \in Nat /\ DOMAIN skills = 1 .. Len(skills)
  BY LenProperties
<1>2. ASSUME NEW k \in 1 .. Len(skills)
      PROVE  /\ skills[k].id \in STRING /\ skills[k].feeds \in Seq(STRING)
             /\ skills[k].needs \in Seq(STRING)
  <2>1. skills[k] \in Skills
    BY ElementOfSeq
  <2>. QED  BY <2>1 DEF Skills
<1>3. /\ Order(skills) = [k \in 1 .. Len(skills) |-> skills[k].id]
      /\ DOMAIN Order(skills) = 1 .. Len(skills)
  BY <1>1 DEF Order
<1>4. \A k \in 1 .. Len(skills) : Order(skills)[k] = skills[k].id
  BY <1>3
<1>5. \A i : i \in Ids(skills) <=> \E k \in 1 .. Len(skills) : Order(skills)[k] = i
  BY <1>3 DEF Ids, ToSet
<1>6. Order(skills) \in [1 .. Len(skills) -> Ids(skills)]
  BY <1>3, <1>5
<1>7. Order(skills) \in Seq(Ids(skills)) /\ Len(Order(skills)) = Len(skills)
  BY <1>1, <1>3, <1>6
<1>8. IsFiniteSet(Ids(skills))
  <2>1. Order(skills) \in Surjection(1 .. Len(skills), Ids(skills))
    BY <1>5, <1>6 DEF Surjection
  <2>2. IsFiniteSet(1 .. Len(skills))
    BY <1>1, FS_Interval
  <2>. QED  BY <2>1, <2>2, FS_Surjection
<1>9. Ids(skills) \subseteq STRING
  BY <1>2, <1>4, <1>5
<1>. QED  BY <1>1, <1>2, <1>4, <1>5, <1>7, <1>8, <1>9

\* What is declared is a sequence of pairs, each declared by one of its ends.
LEMMA DeclaredIs ==
  ASSUME NEW skills \in Seq(Skills)
  PROVE  Declared(skills) \in Seq({e \in STRING \X STRING : Declares(skills, e)})
<1>. DEFINE D == {e \in STRING \X STRING : Declares(skills, e)}
            N == Len(skills)
            feeds(k) == [j \in DOMAIN skills[k].feeds |-> <<skills[k].id, skills[k].feeds[j]>>]
            needs(k) == [j \in DOMAIN skills[k].needs |-> <<skills[k].needs[j], skills[k].id>>]
            is(f) == f = [k \in 0 .. N |->
                            IF k = 0 THEN <<>> ELSE f[k - 1] \o feeds(k) \o needs(k)]
<1>1. Declared(skills) = (CHOOSE f : is(f))[N]
  BY DEF Declared
<1>2. ASSUME NEW k \in 1 .. N  PROVE feeds(k) \in Seq(D) /\ needs(k) \in Seq(D)
  <2>1. /\ skills[k].id \in STRING /\ skills[k].feeds \in Seq(STRING)
        /\ skills[k].needs \in Seq(STRING) /\ k \in DOMAIN skills
    BY SkillIs
  <2>2. ASSUME NEW s \in Seq(STRING)  PROVE DOMAIN s = 1 .. Len(s) /\ Len(s) \in Nat
                                            /\ \A j \in 1 .. Len(s) : s[j] \in STRING /\ s[j] \in ToSet(s)
    <3>1. DOMAIN s = 1 .. Len(s) /\ Len(s) \in Nat
      BY LenProperties
    <3>. QED  BY <3>1, ElementOfSeq DEF ToSet
  <2>3. feeds(k) \in Seq(D)
    <3>. DEFINE s == skills[k].feeds
    <3>1. DOMAIN s = 1 .. Len(s) /\ Len(s) \in Nat
          /\ \A j \in 1 .. Len(s) : s[j] \in STRING /\ s[j] \in ToSet(s)
      BY <2>1, <2>2
    <3>2. ASSUME NEW j \in 1 .. Len(s)  PROVE <<skills[k].id, s[j]>> \in D
      BY <2>1, <3>1 DEF Declares
    <3>3. feeds(k) \in [1 .. Len(s) -> D]
      BY <3>1, <3>2
    <3>. QED  BY <3>1, <3>3
  <2>4. needs(k) \in Seq(D)
    <3>. DEFINE s == skills[k].needs
    <3>1. DOMAIN s = 1 .. Len(s) /\ Len(s) \in Nat
          /\ \A j \in 1 .. Len(s) : s[j] \in STRING /\ s[j] \in ToSet(s)
      BY <2>1, <2>2
    <3>2. ASSUME NEW j \in 1 .. Len(s)  PROVE <<s[j], skills[k].id>> \in D
      BY <2>1, <3>1 DEF Declares
    <3>3. needs(k) \in [1 .. Len(s) -> D]
      BY <3>1, <3>2
    <3>. QED  BY <3>1, <3>3
  <2>. QED  BY <2>3, <2>4
<1>3. N \in Nat
  BY SkillIs
<1>. HIDE DEF D, N, feeds, needs
<1>. DEFINE U == Seq(D)
            step == [k \in 1 .. N |-> [x \in U |-> x \o feeds(k) \o needs(k)]]
<1>4. <<>> \in U
  BY EmptySeq
<1>5. /\ \A k \in 1 .. N : \A x \in U : step[k][x] = x \o feeds(k) \o needs(k)
      /\ step \in Moves(N, U)
  BY <1>2 DEF Moves
<1>. HIDE DEF step, U
<1>6. PICK f : Stays(f, N, U) /\ Computes(f, N, <<>>, step)
  BY <1>3, <1>4, <1>5, FoldIs
<1>7. is(f)
  <2>1. ASSUME NEW k \in 1 .. N  PROVE step[k][f[k - 1]] = f[k - 1] \o feeds(k) \o needs(k)
    <3>1. f[k - 1] \in U
      BY <1>3, <1>6 DEF Stays
    <3>. QED  BY <1>5, <3>1
  <2>2. \A k \in 0 .. N : k = 0 \/ k \in 1 .. N
    BY <1>3
  <2>3. \A k \in 0 .. N : f[k] = IF k = 0 THEN <<>> ELSE f[k - 1] \o feeds(k) \o needs(k)
    BY <1>6, <2>1, <2>2 DEF Computes
  <2>4. f = [k \in 0 .. N |-> f[k]]
    BY <1>6 DEF Stays
  <2>. QED  BY <2>3, <2>4
<1>8. PICK g : is(g) /\ Declared(skills) = g[N]
  BY <1>1, <1>7
<1>9. ASSUME NEW k \in 1 .. N, g[k - 1] \in U  PROVE g[k] \in U
  <2>1. k \in 0 .. N /\ k # 0
    BY <1>3
  <2>2. g[k] = g[k - 1] \o feeds(k) \o needs(k)
    BY <1>8, <2>1
  <2>. QED  BY <1>2, <1>9, <2>2 DEF U
<1>10. 0 \in 0 .. N /\ N \in 0 .. N
  BY <1>3
<1>11. g[0] \in U
  BY <1>4, <1>8, <1>10
<1>. HIDE DEF is
<1>12. \A k \in 0 .. N : g[k] \in U
  BY <1>3, <1>9, <1>11, Staying
<1>. QED  BY <1>8, <1>10, <1>12 DEF D, U

\* The graph of some skills.
IsGraph(I, out) == out \in [I -> Seq(I)] /\ DOMAIN out = I /\ IsFiniteSet(I)

Edges(I, out) == {e \in I \X I : e[2] \in ToSet(out[e[1]])}

\* The pairs that are edges.
LEMMA EdgeIs ==
  ASSUME NEW I, NEW out
  PROVE  /\ \A i, j : <<i, j>> \in Edges(I, out) <=> i \in I /\ j \in I /\ j \in ToSet(out[i])
         /\ \A e \in Edges(I, out) : \E i, j \in I : e = <<i, j>>
BY DEF Edges

\* The elements of a sequence that has one more.
LEMMA AppendedSet ==
  ASSUME NEW X, NEW s \in Seq(X), NEW x \in X
  PROVE  ToSet(Append(s, x)) = ToSet(s) \cup {x}
<1>1. /\ DOMAIN s = 1 .. Len(s) /\ Len(s) \in Nat
      /\ DOMAIN Append(s, x) = 1 .. Len(s) + 1
      /\ \A k \in 1 .. Len(s) : Append(s, x)[k] = s[k]
      /\ Append(s, x)[Len(s) + 1] = x
  BY LenProperties, AppendProperties
<1>2. \A k \in 1 .. Len(s) + 1 : k \in 1 .. Len(s) \/ k = Len(s) + 1
  BY <1>1
<1>3. \A y : y \in ToSet(s) <=> \E k \in 1 .. Len(s) : y = s[k]
  BY <1>1 DEF ToSet
<1>4. \A y : y \in ToSet(Append(s, x)) <=> \E k \in 1 .. Len(s) + 1 : y = Append(s, x)[k]
  BY <1>1 DEF ToSet
<1>5. ASSUME NEW y \in ToSet(Append(s, x))  PROVE y \in ToSet(s) \cup {x}
  BY <1>1, <1>2, <1>3, <1>4
<1>6. ASSUME NEW y \in ToSet(s)  PROVE y \in ToSet(Append(s, x))
  <2>1. PICK k \in 1 .. Len(s) : y = s[k]
    BY <1>3
  <2>2. k \in 1 .. Len(s) + 1 /\ Append(s, x)[k] = y
    BY <1>1, <2>1
  <2>. QED  BY <1>4, <2>2
<1>7. x \in ToSet(Append(s, x))
  <2>1. Len(s) + 1 \in 1 .. Len(s) + 1
    BY <1>1
  <2>. QED  BY <1>1, <1>4, <2>1
<1>. QED  BY <1>5, <1>6, <1>7

\* An element of a sequence has a place.
LEMMA InSet ==
  ASSUME NEW X, NEW s \in Seq(X)
  PROVE  /\ \A y : y \in ToSet(s) <=> \E k \in 1 .. Len(s) : y = s[k]
         /\ ToSet(s) \subseteq X
         /\ Len(s) \in Nat /\ DOMAIN s = 1 .. Len(s)
<1>1. DOMAIN s = 1 .. Len(s) /\ Len(s) \in Nat
  BY LenProperties
<1>2. \A y : y \in ToSet(s) <=> \E k \in 1 .. Len(s) : y = s[k]
  BY <1>1 DEF ToSet
<1>. QED  BY <1>1, <1>2, ElementOfSeq

\* The edges are among the relations that are declared.
LEMMA OutIs ==
  ASSUME NEW skills \in Seq(Skills)
  PROVE  /\ IsGraph(Ids(skills), Out(skills))
         /\ \A e \in Edges(Ids(skills), Out(skills)) : Declares(skills, e)
<1>. DEFINE I == Ids(skills)
            D == {e \in STRING \X STRING : Declares(skills, e)}
            declared == Declared(skills)
            N == Len(declared)
            body(o, k) == IF ~Known(skills, declared[k]) \/ declared[k][2] \in ToSet(o[declared[k][1]])
                            THEN o
                          ELSE [o EXCEPT ![declared[k][1]] = Append(@, declared[k][2])]
            is(f) == f = [k \in 0 .. N |-> IF k = 0 THEN [i \in I |-> <<>>] ELSE body(f[k - 1], k)]
            U == {o \in [I -> Seq(I)] : \A i \in I : \A t \in ToSet(o[i]) : Declares(skills, <<i, t>>)}
            none == [i \in I |-> <<>>]
<1>1. Out(skills) = (CHOOSE f : is(f))[N]
  BY DEF Out
<1>2. declared \in Seq(D)
  BY DeclaredIs
<1>3. N \in Nat
  BY <1>2, LenProperties
<1>4. ASSUME NEW k \in 1 .. N, NEW o \in U  PROVE body(o, k) \in U
  <2>. DEFINE e == declared[k]
  <2>0. e \in D
    BY <1>2, ElementOfSeq
  <2>1. PICK a, b : e = <<a, b>> /\ Declares(skills, <<a, b>>)
    BY <2>0
  <2>11. e[1] = a /\ e[2] = b
    BY <2>1
  <2>. SUFFICES ASSUME a \in I, b \in I  PROVE [o EXCEPT ![a] = Append(@, b)] \in U
    <3>. HIDE DEF U, e
    <3>1. Known(skills, e) => a \in I /\ b \in I
      BY <2>11 DEF Known
    <3>. QED  BY <2>11, <3>1 DEF e
  <2>. HIDE DEF I
  <2>2. o \in [I -> Seq(I)] /\ o[a] \in Seq(I)
    OBVIOUS
  <2>3. PICK s \in Seq(I) : s = o[a]
    BY <2>2
  <2>4. Append(s, b) \in Seq(I) /\ ToSet(Append(s, b)) = ToSet(s) \cup {b}
    BY AppendedSet, AppendProperties
  <2>5. PICK q \in Seq(I) : q = Append(s, b)
    BY <2>4
  <2>6. [o EXCEPT ![a] = Append(@, b)] = [o EXCEPT ![a] = q]
    BY <2>2, <2>3, <2>5
  <2>7. [o EXCEPT ![a] = q] \in [I -> Seq(I)]
    BY <2>2
  <2>8. ASSUME NEW i \in I, NEW t \in ToSet([o EXCEPT ![a] = q][i])
        PROVE  Declares(skills, <<i, t>>)
    <3>1. CASE i = a
      <4>1. [o EXCEPT ![a] = q][i] = q
        BY <2>2, <3>1
      <4>2. t \in ToSet(s) \cup {b}
        BY <2>4, <2>5, <2>8, <4>1
      <4>3. t \in ToSet(s) => Declares(skills, <<i, t>>)
        BY <2>3, <3>1
      <4>. QED  BY <2>1, <3>1, <4>2, <4>3
    <3>2. CASE i # a
      <4>1. [o EXCEPT ![a] = q][i] = o[i]
        BY <2>2, <3>2
      <4>. QED  BY <2>8, <4>1
    <3>. QED  BY <3>1, <3>2
  <2>. QED  BY <2>6, <2>7, <2>8
<1>5. none \in U
  <2>1. <<>> \in Seq(I)
    BY EmptySeq
  <2>2. ToSet(<<>>) = {}
    BY DEF ToSet
  <2>3. none \in [I -> Seq(I)]
    BY <2>1
  <2>4. \A i \in I : ToSet(none[i]) = {}
    BY <2>2
  <2>. HIDE DEF none
  <2>. QED  BY <2>3, <2>4
<1>6. \A f : is(f) <=> f = [k \in 0 .. N |-> IF k = 0 THEN none ELSE body(f[k - 1], k)]
  OBVIOUS
<1>. DEFINE step == [k \in 1 .. N |-> [x \in U |-> body(x, k)]]
<1>. HIDE DEF I, D, declared, N, body, is, U, none
<1>7. /\ \A k \in 1 .. N : \A x \in U : step[k][x] = body(x, k)
      /\ step \in Moves(N, U)
  BY <1>4 DEF Moves
<1>. HIDE DEF step
<1>8. PICK f : Stays(f, N, U) /\ Computes(f, N, none, step)
  BY <1>3, <1>5, <1>7, FoldIs
<1>9. is(f)
  <2>1. ASSUME NEW k \in 1 .. N  PROVE step[k][f[k - 1]] = body(f[k - 1], k)
    <3>1. f[k - 1] \in U
      BY <1>3, <1>8 DEF Stays
    <3>. QED  BY <1>7, <3>1
  <2>2. \A k \in 0 .. N : k = 0 \/ k \in 1 .. N
    BY <1>3
  <2>3. \A k \in 0 .. N : f[k] = IF k = 0 THEN none ELSE body(f[k - 1], k)
    BY <1>8, <2>1, <2>2 DEF Computes
  <2>4. f = [k \in 0 .. N |-> f[k]]
    BY <1>8 DEF Stays
  <2>. QED  BY <1>6, <2>3, <2>4
<1>10. PICK g : is(g) /\ Out(skills) = g[N]
  BY <1>1, <1>9
<1>11. ASSUME NEW k \in 1 .. N, g[k - 1] \in U  PROVE g[k] \in U
  <2>1. k \in 0 .. N /\ k # 0
    BY <1>3
  <2>2. g[k] = body(g[k - 1], k)
    BY <1>6, <1>10, <2>1
  <2>. QED  BY <1>4, <1>11, <2>2
<1>12. 0 \in 0 .. N /\ N \in 0 .. N
  BY <1>3
<1>13. g[0] \in U
  BY <1>5, <1>6, <1>10, <1>12
<1>14. \A k \in 0 .. N : g[k] \in U
  BY <1>3, <1>11, <1>13, Staying
<1>15. Out(skills) \in U
  BY <1>10, <1>12, <1>14
<1>16. PICK o \in U : o = Out(skills)
  BY <1>15
<1>17. o \in [I -> Seq(I)]
  BY DEF U
<1>20. DOMAIN o = I
  BY <1>17
<1>18. IsGraph(I, o)
  BY <1>17, <1>20, SkillIs DEF IsGraph, I
<1>19. ASSUME NEW e \in Edges(I, o)  PROVE Declares(skills, e)
  <2>1. PICK i \in I, t \in I : e = <<i, t>>
    BY EdgeIs
  <2>2. t \in ToSet(o[i])
    BY <2>1, EdgeIs
  <2>. QED  BY <2>1, <2>2 DEF U
<1>. QED  BY <1>16, <1>18, <1>19 DEF I

-----------------------------------------------------------------------------
(* Chains.                                                                 *)

\* A path from a skill, through others of which none is visited.
IsChain(I, out, start, visited, c) ==
  /\ c \in Seq(I) /\ c # <<>> /\ c[1] = start
  /\ Follows(Edges(I, out), c)
  /\ \A k \in 2 .. Len(c) : c[k] \notin visited

\* The next skill of a chain is one that no chain has.
LEMMA ChainGrows ==
  ASSUME NEW I, NEW out, IsGraph(I, out), NEW start, NEW visited, NEW c,
         IsChain(I, out, start, visited, c),
         NEW new, new = ToSet(out[Last(c)]) \ (visited \cup ToSet(c)), new # {}
  PROVE  LET targets == out[Last(c)] IN
         IsChain(I, out, start, visited, Append(c, targets[FirstIn(targets, new)]))
<1>. DEFINE E == Edges(I, out)
<1>1. c \in Seq(I) /\ c # <<>> /\ c[1] = start
      /\ \A k \in 2 .. Len(c) : c[k] \notin visited
  BY DEF IsChain
<1>2. Follows(E, c)
  BY DEF IsChain
<1>3. Len(c) \in Nat /\ Len(c) >= 1 /\ Last(c) = c[Len(c)] /\ Last(c) \in I
  <2>1. Len(c) \in Nat /\ Len(c) >= 1
    BY <1>1, EmptySeq
  <2>2. c[Len(c)] \in I
    BY <1>1, <2>1, ElementOfSeq
  <2>. QED  BY <2>1, <2>2 DEF Last
<1>4. PICK targets \in Seq(I) : targets = out[Last(c)]
  BY <1>3 DEF IsGraph
<1>. DEFINE x == targets[FirstIn(targets, new)]
<1>5. x \in new /\ x \in I /\ x \in ToSet(targets)
  <2>1. ToSet(targets) \cap new # {}
    BY <1>4
  <2>2. FirstIn(targets, new) \in 1 .. Len(targets) /\ x \in new
    BY <2>1, FirstFound
  <2>. QED  BY <1>4, <2>2, ElementOfSeq
<1>. HIDE DEF x, E
<1>6. <<c[Len(c)], x>> \in E
  BY <1>3, <1>4, <1>5, EdgeIs DEF E
<1>7. x \notin visited
  BY <1>5
<1>8. PICK q \in Seq(I) : q = Append(c, x)
  BY <1>1, <1>5, AppendProperties
<1>9. /\ Len(q) = Len(c) + 1 /\ q # <<>> /\ \A k \in 1 .. Len(c) : q[k] = c[k]
      /\ q[Len(c) + 1] = x
  BY <1>1, <1>5, <1>8, AppendProperties
<1>10. Follows(E, q)
  <2>. SUFFICES ASSUME NEW k \in 1 .. Len(c)  PROVE <<q[k], q[k + 1]>> \in E
    BY <1>3, <1>9 DEF Follows
  <2>1. CASE k = Len(c)
    BY <1>3, <1>6, <1>9, <2>1
  <2>2. CASE k # Len(c)
    <3>1. k \in 1 .. Len(c) - 1 /\ k + 1 \in 1 .. Len(c)
      BY <1>3, <2>2
    <3>2. <<c[k], c[k + 1]>> \in E
      BY <1>2, <3>1 DEF Follows
    <3>. QED  BY <1>9, <3>1, <3>2
  <2>. QED  BY <2>1, <2>2
<1>11. ASSUME NEW k \in 2 .. Len(q)  PROVE q[k] \notin visited
  BY <1>1, <1>3, <1>7, <1>9
<1>12. q[1] = start
  BY <1>1, <1>3, <1>9
<1>13. IsChain(I, out, start, visited, q)
  BY <1>9, <1>10, <1>11, <1>12 DEF IsChain, E
<1>. QED  BY <1>4, <1>8, <1>13 DEF x

\* What followChain returns.
LEMMA ChainIs ==
  ASSUME NEW I, NEW out, IsGraph(I, out), NEW start \in I, NEW visited
  PROVE  IsChain(I, out, start, visited, Chain(out, start, visited))
<1>. DEFINE N == Cardinality(DOMAIN out)
            body(c) == LET targets == out[Last(c)]
                           new == ToSet(targets) \ (visited \cup ToSet(c))
                       IN IF new = {} THEN c ELSE Append(c, targets[FirstIn(targets, new)])
            is(f) == f = [k \in 0 .. N |-> IF k = 0 THEN <<start>> ELSE body(f[k - 1])]
            U == {c \in Seq(I) : IsChain(I, out, start, visited, c)}
<1>1. Chain(out, start, visited) = (CHOOSE f : is(f))[N]
  BY DEF Chain
<1>2. N \in Nat
  BY FS_CardinalityType DEF IsGraph
<1>3. ASSUME NEW c \in U  PROVE body(c) \in U
  <2>1. IsChain(I, out, start, visited, c)
    OBVIOUS
  <2>. DEFINE new == ToSet(out[Last(c)]) \ (visited \cup ToSet(c))
  <2>2. CASE new = {}
    BY <1>3, <2>2
  <2>3. CASE new # {}
    <3>1. IsChain(I, out, start, visited, body(c))
      BY <2>1, <2>3, ChainGrows
    <3>2. body(c) \in Seq(I)
      BY <3>1 DEF IsChain
    <3>. HIDE DEF body
    <3>. QED  BY <3>1, <3>2
  <2>. QED  BY <2>2, <2>3
<1>4. <<start>> \in U
  <2>1. <<start>> \in Seq(I) /\ <<start>> # <<>> /\ Len(<<start>>) = 1 /\ <<start>>[1] = start
    OBVIOUS
  <2>2. Follows(Edges(I, out), <<start>>)
    BY <2>1 DEF Follows
  <2>. QED  BY <2>1, <2>2 DEF IsChain
<1>5. \A f : is(f) <=> f = [k \in 0 .. N |-> IF k = 0 THEN <<start>> ELSE body(f[k - 1])]
  OBVIOUS
<1>. DEFINE step == [k \in 1 .. N |-> [x \in U |-> body(x)]]
<1>. HIDE DEF N, body, is, U
<1>6. /\ \A k \in 1 .. N : \A x \in U : step[k][x] = body(x)
      /\ step \in Moves(N, U)
  BY <1>3 DEF Moves
<1>. HIDE DEF step
<1>7. PICK f : Stays(f, N, U) /\ Computes(f, N, <<start>>, step)
  BY <1>2, <1>4, <1>6, FoldIs
<1>8. is(f)
  <2>1. ASSUME NEW k \in 1 .. N  PROVE step[k][f[k - 1]] = body(f[k - 1])
    <3>1. f[k - 1] \in U
      BY <1>2, <1>7 DEF Stays
    <3>. QED  BY <1>6, <3>1
  <2>2. \A k \in 0 .. N : k = 0 \/ k \in 1 .. N
    BY <1>2
  <2>3. \A k \in 0 .. N : f[k] = IF k = 0 THEN <<start>> ELSE body(f[k - 1])
    BY <1>7, <2>1, <2>2 DEF Computes
  <2>4. f = [k \in 0 .. N |-> f[k]]
    BY <1>7 DEF Stays
  <2>. QED  BY <1>5, <2>3, <2>4
<1>9. PICK g : is(g) /\ Chain(out, start, visited) = g[N]
  BY <1>1, <1>8
<1>10. ASSUME NEW k \in 1 .. N, g[k - 1] \in U  PROVE g[k] \in U
  <2>1. k \in 0 .. N /\ k # 0
    BY <1>2
  <2>2. g[k] = body(g[k - 1])
    BY <1>5, <1>9, <2>1
  <2>. QED  BY <1>3, <1>10, <2>2
<1>11. 0 \in 0 .. N /\ N \in 0 .. N
  BY <1>2
<1>12. g[0] \in U
  BY <1>4, <1>5, <1>9, <1>11
<1>13. \A k \in 0 .. N : g[k] \in U
  BY <1>2, <1>10, <1>12, Staying
<1>14. Chain(out, start, visited) \in U
  BY <1>9, <1>11, <1>13
<1>. QED  BY <1>14 DEF U

\* A chain that is reported.
IsPipe(I, out, p) ==
  /\ p \in Seq(I) /\ Len(p) >= 2
  /\ Follows(Edges(I, out), p)
  /\ \A e \in Edges(I, out) : e[2] # p[1]

\* What has been found from the first k skills.
PipesOK(I, out, skills, k, acc) ==
  /\ \A i \in acc.visited :
       (\E m \in 1 .. k : i = skills[m].id) \/ (\E j \in I : <<j, i>> \in Edges(I, out))
  /\ \A n \in 1 .. Len(acc.found) :
       IsPipe(I, out, acc.found[n]) /\ ToSet(acc.found[n]) \subseteq acc.visited
  /\ \A n, m \in 1 .. Len(acc.found) :
       n # m => ToSet(acc.found[n]) \cap ToSet(acc.found[m]) = {}

\* No edge leads to a source.
LEMMA SourceIs ==
  ASSUME NEW skills, NEW out, NEW i \in Sources(skills, out), IsGraph(Ids(skills), out)
  PROVE  \A e \in Edges(Ids(skills), out) : e[2] # i
<1>. DEFINE I == Ids(skills)
<1>1. ASSUME NEW e \in Edges(I, out)  PROVE e[2] # i
  <2>1. PICK a \in I, b \in I : e = <<a, b>>
    BY EdgeIs
  <2>2. b \in ToSet(out[a])
    BY <2>1, EdgeIs
  <2>3. e[2] = b
    BY <2>1
  <2>. QED  BY <2>2, <2>3 DEF Sources
<1>. QED  BY <1>1

\* What one skill adds to the pipelines.
LEMMA PipeAdded ==
  ASSUME NEW skills \in Seq(Skills), IsInjective(Order(skills)),
         NEW I, I = Ids(skills), NEW out, IsGraph(I, out),
         NEW k \in 1 .. Len(skills), skills[k].id \in Sources(skills, out),
         NEW visited \in SUBSET I, NEW found \in Seq(Seq(I)),
         PipesOK(I, out, skills, k - 1, [visited |-> visited, found |-> found])
  PROVE  LET chain == Chain(out, skills[k].id, visited) IN
         PipesOK(I, out, skills, k,
                 [visited |-> visited \cup ToSet(chain),
                  found |-> IF Len(chain) < 2 THEN found ELSE Append(found, chain)])
<1>. DEFINE start == skills[k].id
            E == Edges(I, out)
<1>1. start \in I
  BY SkillIs
<1>2. PICK c : c = Chain(out, start, visited) /\ IsChain(I, out, start, visited, c)
  BY <1>1, ChainIs
<1>3. /\ c \in Seq(I) /\ c # <<>> /\ c[1] = start
      /\ Follows(E, c)
      /\ \A j \in 2 .. Len(c) : c[j] \notin visited
  BY <1>2 DEF IsChain
<1>4. \A e \in E : e[2] # start
  BY SourceIs
<1>5. /\ \A i \in visited :
           (\E m \in 1 .. k - 1 : i = skills[m].id) \/ (\E j \in I : <<j, i>> \in E)
      /\ \A n \in 1 .. Len(found) : IsPipe(I, out, found[n]) /\ ToSet(found[n]) \subseteq visited
      /\ \A n, m \in 1 .. Len(found) : n # m => ToSet(found[n]) \cap ToSet(found[m]) = {}
  BY DEF PipesOK
<1>6. start \notin visited
  <2>1. \A m \in 1 .. k - 1 : start # skills[m].id
    <3>. SUFFICES ASSUME NEW m \in 1 .. k - 1, start = skills[m].id  PROVE FALSE
      OBVIOUS
    <3>1. k \in 1 .. Len(skills) /\ m \in 1 .. Len(skills) /\ m # k /\ Len(skills) \in Nat
      BY SkillIs
    <3>2. Order(skills)[k] = Order(skills)[m] /\ DOMAIN Order(skills) = 1 .. Len(skills)
      BY <3>1, SkillIs DEF Order
    <3>. QED  BY <3>1, <3>2 DEF IsInjective
  <2>2. ~ \E j \in I : <<j, start>> \in E
    <3>. SUFFICES ASSUME NEW j \in I, <<j, start>> \in E  PROVE FALSE
      OBVIOUS
    <3>1. <<j, start>>[2] = start
      OBVIOUS
    <3>. QED  BY <1>4, <3>1
  <2>. QED  BY <1>5, <2>1, <2>2
<1>. HIDE DEF E
<1>7. Len(c) \in Nat /\ Len(c) >= 1 /\ ToSet(c) \subseteq I
      /\ \A i : i \in ToSet(c) <=> \E j \in 1 .. Len(c) : i = c[j]
  <2>1. Len(c) \in Nat /\ Len(c) >= 1
    BY <1>3, EmptySeq
  <2>. QED  BY <1>3, <2>1, InSet
<1>8. ToSet(c) \cap visited = {}
  <2>. SUFFICES ASSUME NEW j \in 1 .. Len(c)  PROVE c[j] \notin visited
    BY <1>7
  <2>1. j = 1 \/ j \in 2 .. Len(c)
    BY <1>7
  <2>. QED  BY <1>3, <1>6, <2>1
<1>9. ASSUME NEW i \in visited \cup ToSet(c)
      PROVE  (\E m \in 1 .. k : i = skills[m].id) \/ (\E j \in I : <<j, i>> \in E)
  <2>0. k \in Nat /\ k >= 1
    BY SkillIs
  <2>1. CASE i \in visited
    <3>1. \A m \in 1 .. k - 1 : m \in 1 .. k
      BY <2>0
    <3>. QED  BY <1>5, <2>1, <3>1 DEF E
  <2>2. CASE i \in ToSet(c)
    <3>1. PICK j \in 1 .. Len(c) : i = c[j]
      BY <1>7, <2>2
    <3>2. CASE j = 1
      <4>1. k \in 1 .. k
        BY <2>0
      <4>. QED  BY <1>3, <3>1, <3>2, <4>1
    <3>3. CASE j # 1
      <4>1. j - 1 \in 1 .. Len(c) - 1 /\ (j - 1) + 1 = j /\ j - 1 \in 1 .. Len(c)
        BY <1>7, <3>3
      <4>2. <<c[j - 1], c[j]>> \in E
        BY <1>3, <4>1 DEF Follows
      <4>3. c[j - 1] \in I
        BY <1>3, <4>1, ElementOfSeq
      <4>. QED  BY <3>1, <4>2, <4>3
    <3>. QED  BY <3>2, <3>3
  <2>. QED  BY <2>1, <2>2
<1>. DEFINE some == visited \cup ToSet(c)
            more == IF Len(c) < 2 THEN found ELSE Append(found, c)
<1>10. /\ \A n \in 1 .. Len(more) : IsPipe(I, out, more[n]) /\ ToSet(more[n]) \subseteq some
       /\ \A n, m \in 1 .. Len(more) : n # m => ToSet(more[n]) \cap ToSet(more[m]) = {}
  <2>1. CASE Len(c) < 2
    BY <1>5, <2>1
  <2>2. CASE ~(Len(c) < 2)
    <3>1. IsPipe(I, out, c)
      BY <1>3, <1>4, <1>7, <2>2 DEF IsPipe, E
    <3>2. PICK q \in Seq(Seq(I)) : q = Append(found, c)
      BY <1>3, AppendProperties
    <3>3. /\ Len(q) = Len(found) + 1 /\ Len(found) \in Nat
          /\ \A n \in 1 .. Len(found) : q[n] = found[n]
          /\ q[Len(found) + 1] = c
      BY <1>3, <3>2, AppendProperties, LenProperties
    <3>4. \A n \in 1 .. Len(q) : n \in 1 .. Len(found) \/ n = Len(found) + 1
      BY <3>3
    <3>5. ASSUME NEW n \in 1 .. Len(q)
          PROVE  IsPipe(I, out, q[n]) /\ ToSet(q[n]) \subseteq some
      <4>1. CASE n \in 1 .. Len(found)
        BY <1>5, <3>3, <4>1
      <4>2. CASE n = Len(found) + 1
        BY <3>1, <3>3, <4>2
      <4>. QED  BY <3>4, <4>1, <4>2
    <3>6. ASSUME NEW n \in 1 .. Len(q), NEW m \in 1 .. Len(q), n # m
          PROVE  ToSet(q[n]) \cap ToSet(q[m]) = {}
      <4>1. CASE n \in 1 .. Len(found) /\ m \in 1 .. Len(found)
        BY <1>5, <3>3, <3>6, <4>1
      <4>2. CASE n \in 1 .. Len(found) /\ m = Len(found) + 1
        <5>1. ToSet(q[n]) \subseteq visited /\ q[m] = c
          BY <1>5, <3>3, <4>2
        <5>. QED  BY <1>8, <5>1
      <4>3. CASE n = Len(found) + 1 /\ m \in 1 .. Len(found)
        <5>1. ToSet(q[m]) \subseteq visited /\ q[n] = c
          BY <1>5, <3>3, <4>3
        <5>. QED  BY <1>8, <5>1
      <4>. QED  BY <3>4, <3>6, <4>1, <4>2, <4>3
    <3>. QED  BY <2>2, <3>2, <3>5, <3>6
  <2>. QED  BY <2>1, <2>2
<1>11. PICK acc : acc = [visited |-> some, found |-> more]
  OBVIOUS
<1>12. acc.visited = some /\ acc.found = more
  BY <1>11
<1>. HIDE DEF some, more
<1>13. PipesOK(I, out, skills, k, acc)
  BY <1>9, <1>10, <1>12 DEF PipesOK, some, E
<1>. QED  BY <1>2, <1>11, <1>13 DEF some, more

\* Pipelines are chains from sources, and share no skill.
LEMMA PipelinesAre ==
  ASSUME NEW skills \in Seq(Skills), IsInjective(Order(skills)),
         NEW out, IsGraph(Ids(skills), out)
  PROVE  /\ Pipelines(skills, out) \in Seq(Seq(Ids(skills)))
         /\ \E visited : PipesOK(Ids(skills), out, skills, Len(skills),
                                 [visited |-> visited, found |-> Pipelines(skills, out)])
<1>. DEFINE I == Ids(skills)
            N == Len(skills)
            none == [visited |-> {}, found |-> <<>>]
            body(acc, k) ==
              LET chain == Chain(out, skills[k].id, acc.visited) IN
              IF skills[k].id \notin Sources(skills, out) THEN acc
              ELSE [visited |-> acc.visited \cup ToSet(chain),
                    found |-> IF Len(chain) < 2 THEN acc.found ELSE Append(acc.found, chain)]
            is(f) == f = [k \in 0 .. N |-> IF k = 0 THEN none ELSE body(f[k - 1], k)]
            U == [visited : SUBSET I, found : Seq(Seq(I))]
            S == [k \in 0 .. N |-> {acc \in U : PipesOK(I, out, skills, k, acc)}]
<1>1. Pipelines(skills, out) = (CHOOSE f : is(f))[N].found
  BY DEF Pipelines
<1>2. N \in Nat
  BY SkillIs
<1>3. ASSUME NEW k \in 1 .. N, NEW acc \in U  PROVE body(acc, k) \in U
  <2>1. acc.visited \in SUBSET I /\ acc.found \in Seq(Seq(I))
    OBVIOUS
  <2>2. PICK chain \in Seq(I) : chain = Chain(out, skills[k].id, acc.visited)
    BY SkillIs, ChainIs DEF IsChain
  <2>3. ToSet(chain) \subseteq I
    BY InSet
  <2>4. Append(acc.found, chain) \in Seq(Seq(I))
    BY <2>1, AppendProperties
  <2>5. PICK more \in Seq(Seq(I)) :
          more = IF Len(chain) < 2 THEN acc.found ELSE Append(acc.found, chain)
    BY <2>1, <2>4
  <2>6. PICK some \in SUBSET I : some = acc.visited \cup ToSet(chain)
    BY <2>1, <2>3
  <2>7. [visited |-> some, found |-> more] \in U
    OBVIOUS
  <2>8. body(acc, k) = acc \/ body(acc, k) = [visited |-> some, found |-> more]
    BY <2>2, <2>5, <2>6
  <2>. QED  BY <2>7, <2>8
<1>4. ASSUME NEW k \in 1 .. N, NEW acc \in U, PipesOK(I, out, skills, k - 1, acc)
      PROVE  PipesOK(I, out, skills, k, body(acc, k))
  <2>1. CASE skills[k].id \notin Sources(skills, out)
    <3>1. body(acc, k) = acc
      BY <2>1
    <3>2. \A m \in 1 .. k - 1 : m \in 1 .. k
      OBVIOUS
    <3>3. PipesOK(I, out, skills, k, acc)
      BY <1>4, <3>2 DEF PipesOK
    <3>. QED  BY <3>1, <3>3
  <2>2. CASE skills[k].id \in Sources(skills, out)
    <3>1. PICK visited \in SUBSET I, found \in Seq(Seq(I)) :
            acc = [visited |-> visited, found |-> found]
      OBVIOUS
    <3>2. acc.visited = visited /\ acc.found = found
      BY <3>1
    <3>3. PipesOK(I, out, skills, k - 1, [visited |-> visited, found |-> found])
      BY <1>4, <3>1
    <3>4. LET chain == Chain(out, skills[k].id, visited) IN
          PipesOK(I, out, skills, k,
                  [visited |-> visited \cup ToSet(chain),
                   found |-> IF Len(chain) < 2 THEN found ELSE Append(found, chain)])
      BY <2>2, <3>3, PipeAdded
    <3>. QED  BY <2>2, <3>2, <3>4
  <2>. QED  BY <2>1, <2>2
<1>5. none \in U /\ PipesOK(I, out, skills, 0, none)
  <2>1. <<>> \in Seq(Seq(I)) /\ Len(<<>>) = 0
    BY EmptySeq
  <2>2. none.visited = {} /\ none.found = <<>>
    OBVIOUS
  <2>3. none \in U
    BY <2>1
  <2>. HIDE DEF none
  <2>4. PipesOK(I, out, skills, 0, none)
    BY <2>1, <2>2 DEF PipesOK
  <2>. QED  BY <2>3, <2>4
<1>6. \A f : is(f) <=> f = [k \in 0 .. N |-> IF k = 0 THEN none ELSE body(f[k - 1], k)]
  OBVIOUS
<1>7. \A k \in 0 .. N : \A x : x \in S[k] <=> x \in U /\ PipesOK(I, out, skills, k, x)
  OBVIOUS
<1>8. \A x \in U : \E v : x.found \in Seq(Seq(I)) /\ x = [visited |-> v, found |-> x.found]
  OBVIOUS
<1>. DEFINE step == [k \in 1 .. N |-> [x \in U |-> body(x, k)]]
<1>. HIDE DEF I, N, body, is, U, S, none
<1>9. /\ \A k \in 1 .. N : \A x \in U : step[k][x] = body(x, k)
      /\ step \in Moves(N, U)
  BY <1>3 DEF Moves
<1>. HIDE DEF step
<1>10. PICK f : Stays(f, N, U) /\ Computes(f, N, none, step)
  BY <1>2, <1>5, <1>9, FoldIs
<1>11. is(f)
  <2>1. ASSUME NEW k \in 1 .. N  PROVE step[k][f[k - 1]] = body(f[k - 1], k)
    <3>1. f[k - 1] \in U
      BY <1>2, <1>10 DEF Stays
    <3>. QED  BY <1>9, <3>1
  <2>2. \A k \in 0 .. N : k = 0 \/ k \in 1 .. N
    BY <1>2
  <2>3. \A k \in 0 .. N : f[k] = IF k = 0 THEN none ELSE body(f[k - 1], k)
    BY <1>10, <2>1, <2>2 DEF Computes
  <2>4. f = [k \in 0 .. N |-> f[k]]
    BY <1>10 DEF Stays
  <2>. QED  BY <1>6, <2>3, <2>4
<1>12. PICK g : is(g) /\ Pipelines(skills, out) = g[N].found
  BY <1>1, <1>11
<1>13. ASSUME NEW k \in 1 .. N, g[k - 1] \in S[k - 1]  PROVE g[k] \in S[k]
  <2>1. k \in 0 .. N /\ k # 0 /\ k - 1 \in 0 .. N
    BY <1>2
  <2>2. g[k] = body(g[k - 1], k)
    BY <1>6, <1>12, <2>1
  <2>3. g[k - 1] \in U /\ PipesOK(I, out, skills, k - 1, g[k - 1])
    BY <1>7, <1>13, <2>1
  <2>. QED  BY <1>3, <1>4, <1>7, <2>1, <2>2, <2>3
<1>14. 0 \in 0 .. N /\ N \in 0 .. N
  BY <1>2
<1>15. g[0] \in S[0]
  BY <1>5, <1>6, <1>7, <1>12, <1>14
<1>16. \A k \in 0 .. N : g[k] \in S[k]
  BY <1>2, <1>13, <1>15, Stages
<1>17. g[N] \in U /\ PipesOK(I, out, skills, N, g[N])
  BY <1>7, <1>14, <1>16
<1>18. PICK v : g[N].found \in Seq(Seq(I)) /\ g[N] = [visited |-> v, found |-> g[N].found]
  BY <1>8, <1>17
<1>. QED  BY <1>12, <1>17, <1>18 DEF I, N

-----------------------------------------------------------------------------
(* What is recommended.                                                    *)

\* It has all that the skill feeds, and of the first k all that need it.
Recommends(skills, completed, j, k, ids) ==
  /\ ids \in Seq(STRING)
  /\ ToSet(skills[j].feeds) \subseteq ToSet(ids)
  /\ \A m \in 1 .. k : completed \in ToSet(skills[m].needs) => skills[m].id \in ToSet(ids)

\* What recommendNextSkill returns.
LEMMA RecommendedIs ==
  ASSUME NEW skills \in Seq(Skills), IsInjective(Order(skills)),
         NEW j \in 1 .. Len(skills)
  PROVE  Recommends(skills, skills[j].id, j, Len(skills), Recommended(skills, skills[j].id))
<1>. DEFINE N == Len(skills)
            completed == skills[j].id
            feeds == skills[j].feeds
            wants(k) == completed \in ToSet(skills[k].needs)
            body(ids, k) == IF wants(k) /\ skills[k].id \notin ToSet(ids)
                              THEN Append(ids, skills[k].id)
                            ELSE ids
            first == FirstIn(Order(skills), {completed})
            is(f) == f = [k \in 0 .. N |-> IF k = 0 THEN skills[first].feeds ELSE body(f[k - 1], k)]
            U == Seq(STRING)
            S == [k \in 0 .. N |-> {ids \in U : Recommends(skills, completed, j, k, ids)}]
<1>1. Recommended(skills, completed) = (CHOOSE f : is(f))[N]
  BY DEF Recommended
<1>2. N \in Nat /\ j \in 1 .. N /\ feeds \in U
      /\ \A k \in 1 .. N : skills[k].id \in STRING
  BY SkillIs
<1>3. first = j
  <2>1. PICK s \in Seq(Ids(skills)) : s = Order(skills)
    BY SkillIs
  <2>2. Len(s) = N /\ DOMAIN s = 1 .. N /\ s[j] = completed
    BY <2>1, SkillIs, LenProperties
  <2>3. completed \in ToSet(s)
    BY <1>2, <2>2 DEF ToSet
  <2>4. FirstIn(s, {completed}) \in 1 .. N /\ s[FirstIn(s, {completed})] = completed
    <3>1. ToSet(s) \cap {completed} # {}
      BY <2>3
    <3>2. FirstIn(s, {completed}) \in 1 .. Len(s) /\ s[FirstIn(s, {completed})] \in {completed}
      BY <3>1, FirstFound
    <3>. QED  BY <2>2, <3>2
  <2>5. IsInjective(s)
    BY <2>1
  <2>. QED  BY <1>2, <2>1, <2>2, <2>4, <2>5 DEF IsInjective
<1>. HIDE DEF first
<1>4. \A f : is(f) <=> f = [k \in 0 .. N |-> IF k = 0 THEN feeds ELSE body(f[k - 1], k)]
  BY <1>3
<1>5. ASSUME NEW k \in 1 .. N, NEW ids \in U
      PROVE  /\ body(ids, k) \in U
             /\ ToSet(ids) \subseteq ToSet(body(ids, k))
             /\ wants(k) => skills[k].id \in ToSet(body(ids, k))
  <2>1. skills[k].id \in STRING
    BY <1>2
  <2>2. Append(ids, skills[k].id) \in U
        /\ ToSet(Append(ids, skills[k].id)) = ToSet(ids) \cup {skills[k].id}
    BY <2>1, AppendProperties, AppendedSet
  <2>. QED  BY <2>2
<1>6. ASSUME NEW k \in 1 .. N, NEW ids \in U, Recommends(skills, completed, j, k - 1, ids)
      PROVE  Recommends(skills, completed, j, k, body(ids, k))
  <2>0. PICK more \in U : more = body(ids, k)
    BY <1>5
  <2>1. ToSet(ids) \subseteq ToSet(more) /\ (wants(k) => skills[k].id \in ToSet(more))
    BY <1>5, <2>0
  <2>2. ToSet(skills[j].feeds) \subseteq ToSet(more)
    BY <1>6, <2>1 DEF Recommends
  <2>3. ASSUME NEW m \in 1 .. k, wants(m)  PROVE skills[m].id \in ToSet(more)
    <3>1. CASE m = k
      BY <2>1, <2>3, <3>1
    <3>2. CASE m # k
      <4>1. m \in 1 .. k - 1
        BY <1>2, <3>2
      <4>2. skills[m].id \in ToSet(ids)
        BY <1>6, <2>3, <4>1 DEF Recommends
      <4>. QED  BY <2>1, <4>2
    <3>. QED  BY <3>1, <3>2
  <2>. HIDE DEF body
  <2>. QED  BY <2>0, <2>2, <2>3 DEF Recommends
<1>7. feeds \in U /\ Recommends(skills, completed, j, 0, feeds)
  BY <1>2 DEF Recommends
<1>8. \A k \in 0 .. N : \A x : x \in S[k] <=> x \in U /\ Recommends(skills, completed, j, k, x)
  OBVIOUS
<1>. DEFINE step == [k \in 1 .. N |-> [x \in U |-> body(x, k)]]
<1>. HIDE DEF N, body, is, U, S, feeds, completed
<1>9. /\ \A k \in 1 .. N : \A x \in U : step[k][x] = body(x, k)
      /\ step \in Moves(N, U)
  BY <1>5 DEF Moves
<1>. HIDE DEF step
<1>10. PICK f : Stays(f, N, U) /\ Computes(f, N, feeds, step)
  BY <1>2, <1>7, <1>9, FoldIs
<1>11. is(f)
  <2>1. ASSUME NEW k \in 1 .. N  PROVE step[k][f[k - 1]] = body(f[k - 1], k)
    <3>1. f[k - 1] \in U
      BY <1>2, <1>10 DEF Stays
    <3>. QED  BY <1>9, <3>1
  <2>2. \A k \in 0 .. N : k = 0 \/ k \in 1 .. N
    BY <1>2
  <2>3. \A k \in 0 .. N : f[k] = IF k = 0 THEN feeds ELSE body(f[k - 1], k)
    BY <1>10, <2>1, <2>2 DEF Computes
  <2>4. f = [k \in 0 .. N |-> f[k]]
    BY <1>10 DEF Stays
  <2>. QED  BY <1>4, <2>3, <2>4
<1>12. PICK g : is(g) /\ Recommended(skills, completed) = g[N]
  BY <1>1, <1>11
<1>13. ASSUME NEW k \in 1 .. N, g[k - 1] \in S[k - 1]  PROVE g[k] \in S[k]
  <2>1. k \in 0 .. N /\ k # 0 /\ k - 1 \in 0 .. N
    BY <1>2
  <2>2. g[k] = body(g[k - 1], k)
    BY <1>4, <1>12, <2>1
  <2>3. g[k - 1] \in U /\ Recommends(skills, completed, j, k - 1, g[k - 1])
    BY <1>8, <1>13, <2>1
  <2>. QED  BY <1>5, <1>6, <1>8, <2>1, <2>2, <2>3
<1>14. 0 \in 0 .. N /\ N \in 0 .. N
  BY <1>2
<1>15. g[0] \in S[0]
  BY <1>4, <1>7, <1>8, <1>12, <1>14
<1>16. \A k \in 0 .. N : g[k] \in S[k]
  BY <1>2, <1>13, <1>15, Stages
<1>17. Recommends(skills, completed, j, N, g[N])
  BY <1>8, <1>14, <1>16
<1>. QED  BY <1>12, <1>17 DEF completed, N

\* Whatever a skill is declared to feed is recommended after it.
LEMMA NextIs ==
  ASSUME NEW skills \in Seq(Skills), IsInjective(Order(skills)),
         NEW i \in Ids(skills), NEW t, Declares(skills, <<i, t>>)
  PROVE  t \in ToSet(Recommended(skills, i))
<1>1. PICK k \in 1 .. Len(skills) :
        \/ i = skills[k].id /\ t \in ToSet(skills[k].feeds)
        \/ t = skills[k].id /\ i \in ToSet(skills[k].needs)
  BY SkillIs DEF Declares
<1>2. PICK j \in 1 .. Len(skills) : i = skills[j].id
  BY DEF Ids, Order, ToSet
<1>3. Recommends(skills, i, j, Len(skills), Recommended(skills, i))
  BY <1>2, RecommendedIs
<1>4. CASE i = skills[k].id /\ t \in ToSet(skills[k].feeds)
  <2>1. k = j
    <3>1. Order(skills)[k] = Order(skills)[j] /\ DOMAIN Order(skills) = 1 .. Len(skills)
      BY <1>2, <1>4, SkillIs DEF Order
    <3>. QED  BY <3>1 DEF IsInjective
  <2>. QED  BY <1>3, <1>4, <2>1 DEF Recommends
<1>5. CASE t = skills[k].id /\ i \in ToSet(skills[k].needs)
  BY <1>3, <1>5 DEF Recommends
<1>. QED  BY <1>1, <1>4, <1>5

-----------------------------------------------------------------------------
(* Cycles.                                                                 *)

\* No walk among the skills of B goes on forever, and none leaves them.
Acyclic(E, B) ==
  /\ \A i, j : <<i, j>> \in E /\ i \in B => j \in B
  /\ \A X \in SUBSET B : X # {} => \E x \in X : \A y \in X : <<x, y>> \notin E

Blacks(I, s) == {i \in I : s.color[i] = "black"}

\* A search whose path is p.
SearchOK(I, out, s, p) ==
  /\ p \in Seq(I) /\ IsInjective(p) /\ Follows(Edges(I, out), p)
  /\ \A i \in I : s.color[i] = "gray" <=> i \in ToSet(p)
  /\ \A c \in ToSet(s.cycles) : IsCycle(Edges(I, out), c)
  /\ s.cycles = <<>> => Acyclic(Edges(I, out), Blacks(I, s))

Later(I, s, t) ==
  /\ \A i \in I : s.color[i] = "black" => t.color[i] = "black"
  /\ s.cycles # <<>> => t.cycles # <<>>

\* A skill all of whose neighbours are in B may be added to B.
LEMMA AcyclicMore ==
  ASSUME NEW E, NEW B, Acyclic(E, B), NEW v, v \notin B, \A j : <<v, j>> \in E => j \in B
  PROVE  Acyclic(E, B \cup {v})
<1>1. ASSUME NEW i, NEW j, <<i, j>> \in E, i \in B \cup {v}  PROVE j \in B \cup {v}
  BY <1>1 DEF Acyclic
<1>2. ASSUME NEW X \in SUBSET (B \cup {v}), X # {}
      PROVE  \E x \in X : \A y \in X : <<x, y>> \notin E
  <2>. DEFINE Y == X \cap B
  <2>1. CASE Y = {}
    <3>1. X = {v}
      BY <1>2, <2>1
    <3>2. <<v, v>> \notin E
      OBVIOUS
    <3>. QED  BY <3>1, <3>2
  <2>2. CASE Y # {}
    <3>1. PICK x \in Y : \A y \in Y : <<x, y>> \notin E
      BY <2>2 DEF Acyclic
    <3>2. ASSUME NEW y \in X, <<x, y>> \in E  PROVE FALSE
      <4>1. y \in B
        BY <3>2 DEF Acyclic
      <4>. QED  BY <3>1, <3>2, <4>1
    <3>. QED  BY <3>1, <3>2
  <2>. QED  BY <2>1, <2>2
<1>. QED  BY <1>1, <1>2 DEF Acyclic

\* What painting a skill changes.
LEMMA PaintIs ==
  ASSUME NEW I, NEW out, DOMAIN out = I, NEW s \in Searches(out), NEW node \in I,
         NEW color \in {"white", "gray", "black"}
  PROVE  /\ Paint(s, node, color) \in Searches(out)
         /\ Paint(s, node, color).cycles = s.cycles
         /\ \A i \in I : Paint(s, node, color).color[i] = IF i = node THEN color ELSE s.color[i]
<1>1. s.color \in [I -> {"white", "gray", "black"}] /\ s.cycles \in Seq(Seq(I))
      /\ s = [color |-> s.color, cycles |-> s.cycles]
  BY DEF Searches
<1>2. PICK c \in [I -> {"white", "gray", "black"}] : c = [s.color EXCEPT ![node] = color]
  BY <1>1
<1>3. \A i \in I : c[i] = IF i = node THEN color ELSE s.color[i]
  BY <1>1, <1>2
<1>4. PICK t : t = [color |-> c, cycles |-> s.cycles]
  OBVIOUS
<1>5. Paint(s, node, color) = t
  <2>1. Paint(s, node, color) = [s EXCEPT !.color = c]
    BY <1>2, Zenon DEF Paint
  <2>2. PICK r : r = s /\ r = [color |-> s.color, cycles |-> s.cycles]
    BY <1>1
  <2>3. [r EXCEPT !.color = c] = [color |-> c, cycles |-> s.cycles]
    BY <2>2
  <2>. QED  BY <1>4, <2>1, <2>2, <2>3
<1>6. t.color = c /\ t.cycles = s.cycles /\ t \in Searches(out)
  BY <1>1, <1>4 DEF Searches
<1>. QED  BY <1>3, <1>5, <1>6

\* What a search does with a neighbour.
Meets(dfs, path, acc, n) ==
  IF acc.color[n] = "gray" /\ n \in ToSet(path)
    THEN Report(acc, SubSeq(path, FirstIn(path, {n}), Len(path)))
  ELSE IF acc.color[n] = "white" THEN dfs[path][n][acc]
  ELSE acc

Searchers(I, out) == [Seq(I) -> [I -> [Searches(out) -> Searches(out)]]]

\* The cycle that a neighbour on the path closes.
LEMMA Closed ==
  ASSUME NEW I, NEW path \in Seq(I), NEW n \in ToSet(path)
  PROVE  LET c == SubSeq(path, FirstIn(path, {n}), Len(path))
             f == FirstIn(path, {n})
         IN /\ c \in Seq(I) /\ f \in 1 .. Len(path) /\ path[f] = n
            /\ Len(c) = Len(path) - f + 1
            /\ \A k \in 1 .. Len(c) : c[k] = path[f + k - 1]
<1>1. ToSet(path) \cap {n} # {}
  OBVIOUS
<1>2. FirstIn(path, {n}) \in 1 .. Len(path) /\ path[FirstIn(path, {n})] \in {n}
  BY <1>1, FirstFound
<1>3. PICK f \in 1 .. Len(path) : f = FirstIn(path, {n}) /\ path[f] = n
  BY <1>2
<1>4. Len(path) \in Nat /\ f \in Int /\ Len(path) \in Int
  BY LenProperties
<1>5. \A i \in f .. Len(path) : path[i] \in I
  BY <1>4, ElementOfSeq
<1>6. /\ SubSeq(path, f, Len(path)) \in Seq(I)
      /\ Len(SubSeq(path, f, Len(path))) = IF f <= Len(path) THEN Len(path) - f + 1 ELSE 0
      /\ \A i \in 1 .. Len(path) - f + 1 : SubSeq(path, f, Len(path))[i] = path[f + i - 1]
  BY <1>4, <1>5, SubSeqProperties
<1>7. PICK c \in Seq(I) : c = SubSeq(path, f, Len(path))
  BY <1>6
<1>8. Len(c) = Len(path) - f + 1 /\ \A k \in 1 .. Len(c) : c[k] = path[f + k - 1]
  BY <1>4, <1>6, <1>7
<1>. QED  BY <1>3, <1>7, <1>8

\* What reporting a cycle changes.
LEMMA ReportIs ==
  ASSUME NEW I, NEW out, DOMAIN out = I, NEW acc \in Searches(out), NEW c \in Seq(I)
  PROVE  /\ Report(acc, c) \in Searches(out)
         /\ Report(acc, c).color = acc.color /\ Report(acc, c).cycles # <<>>
         /\ \A x \in ToSet(Report(acc, c).cycles) : x \in ToSet(acc.cycles) \/ x = c
<1>1. acc.color \in [I -> {"white", "gray", "black"}] /\ acc.cycles \in Seq(Seq(I))
      /\ acc = [color |-> acc.color, cycles |-> acc.cycles]
  BY DEF Searches
<1>2. PICK more \in Seq(Seq(I)) : more = Append(acc.cycles, c)
  BY <1>1, AppendProperties
<1>3. more # <<>> /\ ToSet(more) = ToSet(acc.cycles) \cup {c}
  BY <1>1, <1>2, AppendProperties, AppendedSet
<1>4. PICK t : t = [color |-> acc.color, cycles |-> more]
  OBVIOUS
<1>5. Report(acc, c) = t
  <2>1. Report(acc, c) = [acc EXCEPT !.cycles = more]
    BY <1>2, Zenon DEF Report
  <2>2. PICK r : r = acc /\ r = [color |-> acc.color, cycles |-> acc.cycles]
    BY <1>1
  <2>3. [r EXCEPT !.cycles = more] = [color |-> acc.color, cycles |-> more]
    BY <2>2
  <2>. QED  BY <1>4, <2>1, <2>2, <2>3
<1>6. t.color = acc.color /\ t.cycles = more /\ t \in Searches(out)
  BY <1>1, <1>4 DEF Searches
<1>. QED  BY <1>3, <1>5, <1>6

\* Meeting a neighbour leaves a search.
LEMMA MeetsStays ==
  ASSUME NEW I, NEW out, DOMAIN out = I, NEW dfs \in Searchers(I, out), NEW path \in Seq(I),
         NEW acc \in Searches(out), NEW n \in I
  PROVE  Meets(dfs, path, acc, n) \in Searches(out)
<1>1. CASE acc.color[n] = "gray" /\ n \in ToSet(path)
  <2>1. PICK c \in Seq(I) : c = SubSeq(path, FirstIn(path, {n}), Len(path))
    BY <1>1, Closed
  <2>2. Report(acc, c) \in Searches(out)
    BY ReportIs
  <2>3. Meets(dfs, path, acc, n) = Report(acc, c)
    BY <1>1, <2>1 DEF Meets
  <2>. QED  BY <2>2, <2>3
<1>2. CASE ~(acc.color[n] = "gray" /\ n \in ToSet(path)) /\ acc.color[n] = "white"
  <2>1. dfs[path][n][acc] \in Searches(out)
    BY DEF Searchers
  <2>. QED  BY <1>2, <2>1 DEF Meets
<1>3. CASE ~(acc.color[n] = "gray" /\ n \in ToSet(path)) /\ acc.color[n] # "white"
  BY <1>3 DEF Meets
<1>. QED  BY <1>1, <1>2, <1>3

\* A search of a skill, and its stages.
Enters(I, out, dfs, before, node, search) ==
  /\ IsGraph(I, out) /\ dfs \in Searchers(I, out)
  /\ before \in Seq(I) /\ node \in I /\ search \in Searches(out)

Staged(out, dfs, before, node, search, g) ==
  LET N == Len(out[node])
      path == Append(before, node)
  IN /\ g[0] = Paint(search, node, "gray")
     /\ \A k \in 1 .. N : g[k] = Meets(dfs, path, g[k - 1], out[node][k])
     /\ \A k \in 0 .. N : g[k] \in Searches(out)
     /\ Entered(out, dfs, before, node, search) = Paint(g[N], node, "black")

\* A search of a skill is a recursion over its neighbours.
LEMMA EnteredIs ==
  ASSUME NEW I, NEW out, NEW dfs, NEW before, NEW node, NEW search,
         Enters(I, out, dfs, before, node, search)
  PROVE  \E g : Staged(out, dfs, before, node, search, g)
<1>0. /\ IsGraph(I, out) /\ dfs \in Searchers(I, out)
      /\ before \in Seq(I) /\ node \in I /\ search \in Searches(out)
  BY DEF Enters
<1>4. PICK path \in Seq(I) : path = Append(before, node)
  BY <1>0, AppendProperties
<1>. DEFINE N == Len(out[node])
            gray == Paint(search, node, "gray")
            body(acc, k) == Meets(dfs, path, acc, out[node][k])
            is(f) == f = [k \in 0 .. N |-> IF k = 0 THEN gray ELSE body(f[k - 1], k)]
            U == Searches(out)
<1>1. Entered(out, dfs, before, node, search) = Paint((CHOOSE f : is(f))[N], node, "black")
  BY <1>4 DEF Entered, Meets
<1>2. DOMAIN out = I /\ out[node] \in Seq(I)
  BY <1>0 DEF IsGraph
<1>3. N \in Nat
  BY <1>2, LenProperties
<1>5. ASSUME NEW k \in 1 .. N, NEW acc \in U  PROVE body(acc, k) \in U
  <2>1. out[node][k] \in I
    BY <1>2, ElementOfSeq
  <2>. QED  BY <1>0, <1>2, <2>1, MeetsStays
<1>6. gray \in U
  BY <1>0, <1>2, PaintIs
<1>7. \A f : is(f) <=> f = [k \in 0 .. N |-> IF k = 0 THEN gray ELSE body(f[k - 1], k)]
  OBVIOUS
<1>8. \A acc, k : body(acc, k) = Meets(dfs, path, acc, out[node][k])
  OBVIOUS
<1>. DEFINE step == [k \in 1 .. N |-> [x \in U |-> body(x, k)]]
<1>. HIDE DEF body, is, U, gray, N
<1>9. /\ \A k \in 1 .. N : \A x \in U : step[k][x] = body(x, k)
      /\ step \in Moves(N, U)
  BY <1>5 DEF Moves
<1>. HIDE DEF step
<1>10. PICK f : Stays(f, N, U) /\ Computes(f, N, gray, step)
  BY <1>3, <1>6, <1>9, FoldIs
<1>11. is(f)
  <2>1. ASSUME NEW k \in 1 .. N  PROVE step[k][f[k - 1]] = body(f[k - 1], k)
    <3>1. f[k - 1] \in U
      BY <1>3, <1>10 DEF Stays
    <3>. QED  BY <1>9, <3>1
  <2>2. \A k \in 0 .. N : k = 0 \/ k \in 1 .. N
    BY <1>3
  <2>3. \A k \in 0 .. N : f[k] = IF k = 0 THEN gray ELSE body(f[k - 1], k)
    BY <1>10, <2>1, <2>2 DEF Computes
  <2>4. f = [k \in 0 .. N |-> f[k]]
    BY <1>10 DEF Stays
  <2>. QED  BY <1>7, <2>3, <2>4
<1>12. PICK g : is(g) /\ Entered(out, dfs, before, node, search) = Paint(g[N], node, "black")
  BY <1>1, <1>11
<1>13. ASSUME NEW k \in 1 .. N  PROVE g[k] = body(g[k - 1], k)
  <2>1. k \in 0 .. N /\ k # 0
    BY <1>3
  <2>. QED  BY <1>7, <1>12, <2>1
<1>14. 0 \in 0 .. N
  BY <1>3
<1>15. g[0] = gray
  BY <1>7, <1>12, <1>14
<1>16. \A k \in 1 .. N : g[k - 1] \in U => g[k] \in U
  BY <1>5, <1>13
<1>17. g[0] \in U
  BY <1>6, <1>15
<1>18. \A k \in 0 .. N : g[k] \in U
  BY <1>3, <1>16, <1>17, Staying
<1>19. /\ \A k \in 1 .. N : g[k] = Meets(dfs, path, g[k - 1], out[node][k])
       /\ \A k \in 0 .. N : g[k] \in Searches(out)
       /\ g[0] = Paint(search, node, "gray")
  BY <1>8, <1>13, <1>15, <1>18 DEF U, gray
<1>. QED  BY <1>4, <1>12, <1>19 DEF N, Staged

\* A skill that may be searched when the path is p.
MayEnter(I, out, s, p, n) ==
  /\ SearchOK(I, out, s, p) /\ s.color[n] = "white"
  /\ p # <<>> => <<Last(p), n>> \in Edges(I, out)

\* What a search of n leaves.
Settled(I, out, s, t, p, n) ==
  SearchOK(I, out, t, p) /\ Later(I, s, t) /\ t.color[n] = "black"

SearchesWell(I, out, dfs, path) ==
  \A n \in I : \A s \in Searches(out) :
    MayEnter(I, out, s, path, n) => Settled(I, out, s, dfs[path][n][s], path, n)

\* Later is transitive.
LEMMA LaterIs ==
  ASSUME NEW I, NEW r, NEW s, NEW t, Later(I, r, s), Later(I, s, t)
  PROVE  Later(I, r, t)
BY DEF Later

\* The colors of a search.
LEMMA ColorIs ==
  ASSUME NEW I, NEW out, DOMAIN out = I, NEW s \in Searches(out), NEW i \in I
  PROVE  s.color[i] \in {"white", "gray", "black"}
BY DEF Searches

\* A skill that no search has seen is put on the path.
LEMMA Begins ==
  ASSUME NEW I, NEW out, IsGraph(I, out), NEW before \in Seq(I), NEW n \in I,
         NEW s \in Searches(out), MayEnter(I, out, s, before, n)
  PROVE  /\ SearchOK(I, out, Paint(s, n, "gray"), Append(before, n))
         /\ Later(I, s, Paint(s, n, "gray"))
<1>. DEFINE E == Edges(I, out)
<1>1. DOMAIN out = I
  BY DEF IsGraph
<1>2. PICK t \in Searches(out) : t = Paint(s, n, "gray")
  BY <1>1, PaintIs
<1>3. t.cycles = s.cycles /\ \A i \in I : t.color[i] = IF i = n THEN "gray" ELSE s.color[i]
  <2>1. /\ Paint(s, n, "gray").cycles = s.cycles
        /\ \A i \in I : Paint(s, n, "gray").color[i] = IF i = n THEN "gray" ELSE s.color[i]
    BY <1>1, PaintIs
  <2>. QED  BY <1>2, <2>1
<1>4. PICK p \in Seq(I) : p = Append(before, n)
  BY AppendProperties
<1>5. /\ Len(before) \in Nat /\ Len(p) = Len(before) + 1
      /\ DOMAIN before = 1 .. Len(before) /\ DOMAIN p = 1 .. Len(p)
      /\ \A k \in 1 .. Len(before) : p[k] = before[k]
      /\ p[Len(before) + 1] = n
      /\ ToSet(p) = ToSet(before) \cup {n}
  BY <1>4, AppendProperties, AppendedSet, LenProperties
<1>6. /\ IsInjective(before) /\ Follows(E, before)
      /\ \A i \in I : s.color[i] = "gray" <=> i \in ToSet(before)
      /\ \A c \in ToSet(s.cycles) : IsCycle(E, c)
      /\ s.cycles = <<>> => Acyclic(E, Blacks(I, s))
      /\ s.color[n] = "white"
      /\ before # <<>> => <<Last(before), n>> \in E
  BY DEF MayEnter, SearchOK
<1>7. n \notin ToSet(before)
  BY <1>6
<1>8. IsInjective(p)
  <2>. SUFFICES ASSUME NEW a \in 1 .. Len(p), NEW b \in 1 .. Len(p), p[a] = p[b]  PROVE a = b
    BY <1>5 DEF IsInjective
  <2>1. \A k \in 1 .. Len(before) : before[k] # n
    BY <1>5, <1>7 DEF ToSet
  <2>2. CASE a \in 1 .. Len(before) /\ b \in 1 .. Len(before)
    BY <1>5, <1>6, <2>2 DEF IsInjective
  <2>3. CASE a \notin 1 .. Len(before) \/ b \notin 1 .. Len(before)
    BY <1>5, <2>1, <2>3
  <2>. QED  BY <2>2, <2>3
<1>9. Follows(E, p)
  <2>. SUFFICES ASSUME NEW k \in 1 .. Len(before)  PROVE <<p[k], p[k + 1]>> \in E
    BY <1>5 DEF Follows
  <2>1. CASE k = Len(before)
    <3>1. before # <<>> /\ Last(before) = p[k]
      BY <1>5, <2>1 DEF Last
    <3>. QED  BY <1>5, <1>6, <2>1, <3>1
  <2>2. CASE k # Len(before)
    <3>0. Len(before) \in Nat
      BY <1>5
    <3>1. k \in 1 .. Len(before) - 1 /\ k + 1 \in 1 .. Len(before)
      BY <2>2, <3>0
    <3>2. <<before[k], before[k + 1]>> \in E
      BY <1>6, <3>1 DEF Follows
    <3>. QED  BY <1>5, <3>1, <3>2
  <2>. QED  BY <2>1, <2>2
<1>10. \A i \in I : t.color[i] = "gray" <=> i \in ToSet(p)
  BY <1>3, <1>5, <1>6
<1>11. Blacks(I, t) = Blacks(I, s)
  BY <1>3, <1>6 DEF Blacks
<1>12. SearchOK(I, out, t, p)
  BY <1>3, <1>6, <1>8, <1>9, <1>10, <1>11 DEF SearchOK
<1>13. Later(I, s, t)
  BY <1>3, <1>6 DEF Later
<1>. QED  BY <1>2, <1>4, <1>12, <1>13

\* A cycle that is reported harms nothing.
LEMMA ReportKeeps ==
  ASSUME NEW I, NEW out, DOMAIN out = I, NEW s \in Searches(out), NEW path,
         SearchOK(I, out, s, path), NEW c \in Seq(I), IsCycle(Edges(I, out), c)
  PROVE  /\ SearchOK(I, out, Report(s, c), path) /\ Later(I, s, Report(s, c))
         /\ Report(s, c).cycles # <<>>
<1>1. /\ Report(s, c).color = s.color /\ Report(s, c).cycles # <<>>
      /\ \A x \in ToSet(Report(s, c).cycles) : x \in ToSet(s.cycles) \/ x = c
  BY ReportIs
<1>2. PICK t : t = Report(s, c)
  OBVIOUS
<1>3. t.color = s.color /\ t.cycles # <<>>
      /\ \A x \in ToSet(t.cycles) : x \in ToSet(s.cycles) \/ x = c
  BY <1>1, <1>2
<1>4. SearchOK(I, out, t, path)
  BY <1>3 DEF SearchOK
<1>5. Later(I, s, t)
  BY <1>3 DEF Later
<1>. QED  BY <1>2, <1>3, <1>4, <1>5

\* A neighbour is searched, closes a cycle, or has been searched.
LEMMA MeetsKeeps ==
  ASSUME NEW I, NEW out, IsGraph(I, out), NEW path \in Seq(I), path # <<>>,
         NEW dfs \in Searchers(I, out), SearchesWell(I, out, dfs, path),
         NEW n \in I, <<Last(path), n>> \in Edges(I, out),
         NEW acc \in Searches(out), SearchOK(I, out, acc, path)
  PROVE  /\ SearchOK(I, out, Meets(dfs, path, acc, n), path)
         /\ Later(I, acc, Meets(dfs, path, acc, n))
         /\ Meets(dfs, path, acc, n).cycles = <<>> =>
              Meets(dfs, path, acc, n).color[n] = "black"
<1>. DEFINE E == Edges(I, out)
<1>1. DOMAIN out = I
  BY DEF IsGraph
<1>2. /\ IsInjective(path) /\ Follows(E, path)
      /\ \A i \in I : acc.color[i] = "gray" <=> i \in ToSet(path)
      /\ \A c \in ToSet(acc.cycles) : IsCycle(E, c)
      /\ acc.cycles = <<>> => Acyclic(E, Blacks(I, acc))
  BY DEF SearchOK
<1>3. acc.color[n] \in {"white", "gray", "black"}
  BY <1>1, ColorIs
<1>4. CASE acc.color[n] = "gray"
  <2>0. n \in ToSet(path)
    BY <1>2, <1>4
  <2>. DEFINE f == FirstIn(path, {n})
  <2>1. PICK c \in Seq(I) : c = SubSeq(path, f, Len(path))
    BY <2>0, Closed
  <2>2. /\ f \in 1 .. Len(path) /\ path[f] = n
        /\ Len(c) = Len(path) - f + 1
        /\ \A k \in 1 .. Len(c) : c[k] = path[f + k - 1]
    <3>1. LET q == SubSeq(path, FirstIn(path, {n}), Len(path))
              g == FirstIn(path, {n})
          IN /\ q \in Seq(I) /\ g \in 1 .. Len(path) /\ path[g] = n
             /\ Len(q) = Len(path) - g + 1
             /\ \A k \in 1 .. Len(q) : q[k] = path[g + k - 1]
      BY <2>0, Closed
    <3>. QED  BY <2>1, <3>1
  <2>. HIDE DEF f
  <2>3. Len(path) \in Nat /\ DOMAIN path = 1 .. Len(path) /\ DOMAIN c = 1 .. Len(c)
        /\ Last(path) = path[Len(path)]
    BY LenProperties DEF Last
  <2>4. IsInjective(c)
    <3>. SUFFICES ASSUME NEW a \in 1 .. Len(c), NEW b \in 1 .. Len(c), c[a] = c[b]  PROVE a = b
      BY <2>3 DEF IsInjective
    <3>1. f + a - 1 \in 1 .. Len(path) /\ f + b - 1 \in 1 .. Len(path)
      BY <2>2, <2>3
    <3>2. path[f + a - 1] = path[f + b - 1]
      BY <2>2
    <3>3. f + a - 1 = f + b - 1
      BY <1>2, <2>3, <3>1, <3>2 DEF IsInjective
    <3>. QED  BY <2>2, <3>3
  <2>5. Follows(E, c)
    <3>. SUFFICES ASSUME NEW k \in 1 .. Len(c) - 1  PROVE <<c[k], c[k + 1]>> \in E
      BY DEF Follows
    <3>1. f + k - 1 \in 1 .. Len(path) - 1 /\ (f + k - 1) + 1 = f + (k + 1) - 1
          /\ k \in 1 .. Len(c) /\ k + 1 \in 1 .. Len(c)
      BY <2>2, <2>3
    <3>2. <<path[f + k - 1], path[(f + k - 1) + 1]>> \in E
      BY <1>2, <3>1 DEF Follows
    <3>. QED  BY <2>2, <3>1, <3>2
  <2>6. <<c[Len(c)], c[1]>> \in E
    <3>1. 1 \in 1 .. Len(c) /\ Len(c) \in 1 .. Len(c)
          /\ f + Len(c) - 1 = Len(path) /\ f + 1 - 1 = f
      BY <2>2, <2>3
    <3>2. c[1] = n /\ c[Len(c)] = Last(path)
      BY <2>2, <2>3, <3>1
    <3>. QED  BY <3>2
  <2>7. IsCycle(E, c)
    BY <2>4, <2>5, <2>6 DEF IsCycle
  <2>8. Meets(dfs, path, acc, n) = Report(acc, c)
    BY <1>4, <2>0, <2>1 DEF Meets, f
  <2>9. /\ SearchOK(I, out, Report(acc, c), path) /\ Later(I, acc, Report(acc, c))
        /\ Report(acc, c).cycles # <<>>
    BY <1>1, <2>7, ReportKeeps
  <2>. QED  BY <2>8, <2>9
<1>5. CASE acc.color[n] = "white"
  <2>1. Meets(dfs, path, acc, n) = dfs[path][n][acc]
    BY <1>5 DEF Meets
  <2>2. MayEnter(I, out, acc, path, n)
    BY <1>5 DEF MayEnter
  <2>3. Settled(I, out, acc, dfs[path][n][acc], path, n)
    BY <2>2 DEF SearchesWell
  <2>. QED  BY <2>1, <2>3 DEF Settled
<1>6. CASE acc.color[n] = "black"
  <2>1. Meets(dfs, path, acc, n) = acc
    BY <1>6 DEF Meets
  <2>. QED  BY <1>6, <2>1 DEF Later
<1>. QED  BY <1>3, <1>4, <1>5, <1>6

\* A skill whose neighbours have been searched is taken off the path.
LEMMA Ends ==
  ASSUME NEW I, NEW out, IsGraph(I, out), NEW before \in Seq(I), NEW n \in I,
         n \notin ToSet(before), IsInjective(before), Follows(Edges(I, out), before),
         NEW s \in Searches(out), SearchOK(I, out, s, Append(before, n)),
         s.cycles = <<>> => \A j \in ToSet(out[n]) : s.color[j] = "black"
  PROVE  /\ SearchOK(I, out, Paint(s, n, "black"), before)
         /\ Later(I, s, Paint(s, n, "black"))
         /\ Paint(s, n, "black").color[n] = "black"
<1>. DEFINE E == Edges(I, out)
<1>1. DOMAIN out = I /\ out[n] \in Seq(I)
  BY DEF IsGraph
<1>2. PICK t \in Searches(out) : t = Paint(s, n, "black")
  BY <1>1, PaintIs
<1>3. t.cycles = s.cycles /\ \A i \in I : t.color[i] = IF i = n THEN "black" ELSE s.color[i]
  <2>1. /\ Paint(s, n, "black").cycles = s.cycles
        /\ \A i \in I : Paint(s, n, "black").color[i] = IF i = n THEN "black" ELSE s.color[i]
    BY <1>1, PaintIs
  <2>. QED  BY <1>2, <2>1
<1>4. ToSet(Append(before, n)) = ToSet(before) \cup {n}
  BY AppendedSet
<1>5. PICK p : p = Append(before, n)
  OBVIOUS
<1>6. /\ \A i \in I : s.color[i] = "gray" <=> i \in ToSet(p)
      /\ \A c \in ToSet(s.cycles) : IsCycle(E, c)
      /\ s.cycles = <<>> => Acyclic(E, Blacks(I, s))
  <2>1. SearchOK(I, out, s, p)
    BY <1>5
  <2>. QED  BY <2>1 DEF SearchOK
<1>7. \A i \in I : t.color[i] = "gray" <=> i \in ToSet(before)
  BY <1>3, <1>4, <1>5, <1>6
<1>8. t.cycles = <<>> => Acyclic(E, Blacks(I, t))
  <2>. SUFFICES ASSUME t.cycles = <<>>  PROVE Acyclic(E, Blacks(I, t))
    OBVIOUS
  <2>1. Acyclic(E, Blacks(I, s)) /\ \A j \in ToSet(out[n]) : s.color[j] = "black"
    BY <1>3, <1>6
  <2>2. Blacks(I, t) = Blacks(I, s) \cup {n}
    BY <1>3 DEF Blacks
  <2>3. n \notin Blacks(I, s)
    <3>1. s.color[n] = "gray"
      BY <1>4, <1>5, <1>6
    <3>. QED  BY <3>1 DEF Blacks
  <2>4. ASSUME NEW j, <<n, j>> \in E  PROVE j \in Blacks(I, s)
    <3>1. j \in I /\ j \in ToSet(out[n])
      BY <2>4, EdgeIs
    <3>. QED  BY <2>1, <3>1 DEF Blacks
  <2>. HIDE DEF E
  <2>5. Acyclic(E, Blacks(I, s) \cup {n})
    BY <2>1, <2>3, <2>4, AcyclicMore
  <2>. QED  BY <2>2, <2>5
<1>9. SearchOK(I, out, t, before)
  BY <1>3, <1>6, <1>7, <1>8 DEF SearchOK
<1>10. Later(I, s, t) /\ t.color[n] = "black"
  BY <1>3 DEF Later
<1>. QED  BY <1>2, <1>9, <1>10

\* A search is well if those of its neighbours are.
LEMMA EnteredKeeps ==
  ASSUME NEW I, NEW out, IsGraph(I, out), NEW dfs \in Searchers(I, out),
         NEW before \in Seq(I), NEW node \in I, NEW search \in Searches(out),
         MayEnter(I, out, search, before, node),
         SearchesWell(I, out, dfs, Append(before, node))
  PROVE  Settled(I, out, search, Entered(out, dfs, before, node, search), before, node)
<1>1. PICK path \in Seq(I) : path = Append(before, node)
  BY AppendProperties
<1>2. path # <<>> /\ Last(path) = node
  BY <1>1, AppendProperties DEF Last
<1>3. PICK targets \in Seq(I) : targets = out[node]
  BY DEF IsGraph
<1>4. PICK N \in Nat : N = Len(targets)
  BY LenProperties
<1>5. PICK g :
        /\ g[0] = Paint(search, node, "gray")
        /\ \A k \in 1 .. N : g[k] = Meets(dfs, path, g[k - 1], out[node][k])
        /\ \A k \in 0 .. N : g[k] \in Searches(out)
        /\ Entered(out, dfs, before, node, search) = Paint(g[N], node, "black")
  <2>1. Enters(I, out, dfs, before, node, search)
    BY DEF Enters
  <2>2. PICK g : Staged(out, dfs, before, node, search, g)
    BY <2>1, EnteredIs
  <2>. QED  BY <1>1, <1>3, <1>4, <2>2 DEF Staged
<1>6. SearchesWell(I, out, dfs, path)
  BY <1>1
<1>. DEFINE OK(k, s) ==
       /\ SearchOK(I, out, s, path) /\ Later(I, search, s)
       /\ s.cycles = <<>> => \A m \in 1 .. k : s.color[targets[m]] = "black"
            S == [k \in 0 .. N |-> {s \in Searches(out) : OK(k, s)}]
<1>7. g[0] \in S[0]
  <2>1. SearchOK(I, out, g[0], path) /\ Later(I, search, g[0])
    BY <1>1, <1>5, Begins
  <2>2. g[0] \in Searches(out) /\ 0 \in 0 .. N
    BY <1>5
  <2>. QED  BY <2>1, <2>2
<1>8. ASSUME NEW k \in 1 .. N, g[k - 1] \in S[k - 1]  PROVE g[k] \in S[k]
  <2>1. k - 1 \in 0 .. N /\ k \in 0 .. N
    BY <1>8
  <2>2. PICK s \in Searches(out) : s = g[k - 1] /\ OK(k - 1, s)
    BY <1>8, <2>1
  <2>3. PICK n \in I : n = targets[k]
    BY <1>4, ElementOfSeq
  <2>4. <<Last(path), n>> \in Edges(I, out)
    <3>1. n \in ToSet(out[node])
      BY <1>3, <1>4, <2>3, InSet
    <3>. QED  BY <1>2, <3>1, EdgeIs
  <2>5. PICK t : t = Meets(dfs, path, s, n)
    OBVIOUS
  <2>6. SearchOK(I, out, t, path) /\ Later(I, s, t) /\ (t.cycles = <<>> => t.color[n] = "black")
    BY <1>2, <1>6, <2>2, <2>4, <2>5, MeetsKeeps
  <2>7. Later(I, search, t)
    BY <2>2, <2>6, LaterIs
  <2>8. g[k] = t /\ t \in Searches(out)
    BY <1>3, <1>5, <2>1, <2>2, <2>3, <2>5
  <2>9. ASSUME t.cycles = <<>>, NEW m \in 1 .. k  PROVE t.color[targets[m]] = "black"
    <3>1. CASE m = k
      BY <2>3, <2>6, <2>9, <3>1
    <3>2. CASE m # k
      <4>1. m \in 1 .. k - 1 /\ m \in 1 .. N
        BY <3>2
      <4>2. s.cycles = <<>>
        BY <2>6, <2>9 DEF Later
      <4>3. s.color[targets[m]] = "black"
        BY <2>2, <4>1, <4>2
      <4>4. targets[m] \in I
        BY <1>4, <4>1, ElementOfSeq
      <4>. QED  BY <2>6, <4>3, <4>4 DEF Later
    <3>. QED  BY <3>1, <3>2
  <2>10. OK(k, t)
    BY <2>6, <2>7, <2>9
  <2>. HIDE DEF OK
  <2>. QED  BY <2>1, <2>8, <2>10
<1>9. \A s : s \in S[N] => s \in Searches(out) /\ OK(N, s)
  BY <1>4
<1>. HIDE DEF S
<1>10. \A k \in 0 .. N : g[k] \in S[k]
  BY <1>7, <1>8, Stages
<1>11. PICK s \in Searches(out) : s = g[N] /\ OK(N, s)
  BY <1>9, <1>10
<1>12. ASSUME s.cycles = <<>>, NEW j \in ToSet(out[node])  PROVE s.color[j] = "black"
  <2>1. PICK m \in 1 .. N : j = targets[m]
    BY <1>3, <1>4, <1>12, InSet
  <2>. QED  BY <1>11, <1>12, <2>1
<1>13. /\ IsInjective(before) /\ Follows(Edges(I, out), before) /\ node \notin ToSet(before)
  BY DEF MayEnter, SearchOK
<1>14. SearchOK(I, out, s, Append(before, node))
  BY <1>1, <1>11
<1>15. PICK t : t = Paint(s, node, "black")
  OBVIOUS
<1>16. SearchOK(I, out, t, before) /\ Later(I, s, t) /\ t.color[node] = "black"
  BY <1>12, <1>13, <1>14, <1>15, Ends
<1>17. Later(I, search, t)
  BY <1>11, <1>16, LaterIs
<1>18. Settled(I, out, search, t, before, node)
  BY <1>16, <1>17 DEF Settled
<1>. QED  BY <1>5, <1>11, <1>15, <1>18

\* A path as long as there are skills has them all.
LEMMA FullPath ==
  ASSUME NEW I, IsFiniteSet(I), NEW p \in Seq(I), IsInjective(p), Len(p) >= Cardinality(I)
  PROVE  I \subseteq ToSet(p)
<1>1. Len(p) \in Nat /\ p \in [1 .. Len(p) -> I] /\ DOMAIN p = 1 .. Len(p)
  BY LenProperties
<1>. DEFINE D == 1 .. Len(p)
<1>2. p \in Injection(D, I)
  BY <1>1 DEF Injection, IsInjective
<1>3. Cardinality(D) = Len(p) /\ IsFiniteSet(D)
  <2>1. PICK n \in Nat : n = Len(p)
    BY <1>1
  <2>2. IsFiniteSet(1 .. n) /\ Cardinality(1 .. n) = IF 1 > n THEN 0 ELSE n - 1 + 1
    BY FS_Interval
  <2>3. Cardinality(1 .. n) = n
    BY <2>2
  <2>. QED  BY <2>1, <2>2, <2>3
<1>. HIDE DEF D
<1>4. Cardinality(D) <= Cardinality(I) /\ (Cardinality(D) = Cardinality(I) <=> p \in Surjection(D, I))
  BY <1>2, FS_Injection
<1>5. Cardinality(I) \in Nat
  BY FS_CardinalityType
<1>6. p \in Surjection(D, I)
  BY <1>1, <1>3, <1>4, <1>5
<1>7. \A i \in I : \E k \in D : p[k] = i
  BY <1>6 DEF Surjection
<1>. QED  BY <1>1, <1>7 DEF D, ToSet

\* What a search that may still go k deep does.
SearchesDeep(I, out, dfs, k) ==
  \A before \in Seq(I) :
    Len(before) + k >= Cardinality(I) => SearchesWell(I, out, dfs, before)

Deeper(out, d) ==
  [before \in Seq(DOMAIN out) |-> [node \in DOMAIN out |-> [search \in Searches(out) |->
     Entered(out, d, before, node, search)]]]

\* A deeper search of a skill is a search.
LEMMA DeeperStays ==
  ASSUME NEW I, NEW out, IsGraph(I, out), NEW d \in Searchers(I, out)
  PROVE  Deeper(out, d) \in Searchers(I, out)
<1>1. DOMAIN out = I
  BY DEF IsGraph
<1>2. ASSUME NEW before \in Seq(I), NEW node \in I, NEW search \in Searches(out)
      PROVE  Entered(out, d, before, node, search) \in Searches(out)
  <2>1. Enters(I, out, d, before, node, search)
    BY DEF Enters
  <2>2. PICK g : Staged(out, d, before, node, search, g)
    BY <2>1, EnteredIs
  <2>3. Len(out[node]) \in Nat
    <3>1. out[node] \in Seq(I)
      BY DEF IsGraph
    <3>. QED  BY <3>1, LenProperties
  <2>4. g[Len(out[node])] \in Searches(out)
    BY <2>2, <2>3 DEF Staged
  <2>5. Paint(g[Len(out[node])], node, "black") \in Searches(out)
    BY <1>1, <2>4, PaintIs
  <2>. QED  BY <2>2, <2>5 DEF Staged
<1>. DEFINE B == Seq(I)
            R == Searches(out)
<1>3. Deeper(out, d) = [before \in B |-> [node \in I |-> [search \in R |->
                          Entered(out, d, before, node, search)]]]
  BY <1>1 DEF Deeper
<1>4. Searchers(I, out) = [B -> [I -> [R -> R]]]
  BY DEF Searchers
<1>5. \A before \in B : \A node \in I : \A search \in R : Entered(out, d, before, node, search) \in R
  BY <1>2
<1>. HIDE DEF B, R
<1>. QED  BY <1>3, <1>4, <1>5

\* What a deeper search does.
LEMMA DeeperIs ==
  ASSUME NEW I, NEW out, DOMAIN out = I, NEW d,
         NEW before \in Seq(I), NEW node \in I, NEW search \in Searches(out)
  PROVE  Deeper(out, d)[before][node][search] = Entered(out, d, before, node, search)
BY DEF Deeper

\* A deeper search is well if the one below is.
LEMMA DeeperKeeps ==
  ASSUME NEW I, NEW out, IsGraph(I, out), NEW d \in Searchers(I, out), NEW k \in Nat,
         k >= 1, SearchesDeep(I, out, d, k - 1)
  PROVE  SearchesDeep(I, out, Deeper(out, d), k)
<1>. SUFFICES ASSUME NEW before \in Seq(I), Len(before) + k >= Cardinality(I),
                     NEW n \in I, NEW s \in Searches(out), MayEnter(I, out, s, before, n)
     PROVE  Settled(I, out, s, Deeper(out, d)[before][n][s], before, n)
  BY DEF SearchesDeep, SearchesWell
<1>1. DOMAIN out = I /\ Cardinality(I) \in Nat /\ Len(before) \in Nat
  BY FS_CardinalityType, LenProperties DEF IsGraph
<1>2. PICK path \in Seq(I) : path = Append(before, n)
  BY AppendProperties
<1>3. Len(path) = Len(before) + 1
  BY <1>2, AppendProperties
<1>4. SearchesWell(I, out, d, path)
  <2>1. Len(path) + (k - 1) >= Cardinality(I)
    BY <1>1, <1>3
  <2>. QED  BY <2>1 DEF SearchesDeep
<1>5. SearchesWell(I, out, d, Append(before, n))
  BY <1>2, <1>4
<1>6. Settled(I, out, s, Entered(out, d, before, n, s), before, n)
  BY <1>5, EnteredKeeps
<1>. QED  BY <1>1, <1>6, DeeperIs

\* The search that begins anywhere is well.
LEMMA DfsIs ==
  ASSUME NEW I, NEW out, IsGraph(I, out)
  PROVE  Dfs(out) \in Searchers(I, out) /\ SearchesWell(I, out, Dfs(out), <<>>)
<1>. DEFINE N == Cardinality(DOMAIN out)
            none == [before \in Seq(DOMAIN out) |-> [node \in DOMAIN out |-> [search \in Searches(out) |-> search]]]
            level(k, d) ==
              [before \in Seq(DOMAIN out) |-> [node \in DOMAIN out |-> [search \in Searches(out) |->
                 IF k = 0 THEN search ELSE Entered(out, d, before, node, search)]]]
            is(f) == f = [k \in 0 .. N |-> level(k, f[k - 1])]
            U == Searchers(I, out)
            S == [k \in 0 .. N |-> {d \in U : SearchesDeep(I, out, d, k)}]
<1>1. Dfs(out) = (CHOOSE f : is(f))[N]
  BY DEF Dfs
<1>2. DOMAIN out = I /\ IsFiniteSet(I) /\ N \in Nat /\ N = Cardinality(I)
  BY FS_CardinalityType DEF IsGraph
<1>3. \A d : level(0, d) = none
  OBVIOUS
<1>4. \A d, k : k # 0 => level(k, d) = Deeper(out, d)
  BY DEF Deeper
<1>5. none \in U
  BY <1>2 DEF Searchers
<1>6. SearchesDeep(I, out, none, 0)
  <2>. SUFFICES ASSUME NEW before \in Seq(I), Len(before) + 0 >= Cardinality(I),
                       NEW n \in I, NEW s \in Searches(out), MayEnter(I, out, s, before, n)
       PROVE  FALSE
    BY DEF SearchesDeep, SearchesWell
  <2>1. /\ IsInjective(before) /\ s.color[n] = "white"
        /\ \A i \in I : s.color[i] = "gray" <=> i \in ToSet(before)
    BY DEF MayEnter, SearchOK
  <2>2. Len(before) >= Cardinality(I)
    <3>1. Len(before) \in Nat
      BY LenProperties
    <3>. QED  BY <3>1
  <2>3. n \in ToSet(before)
    BY <1>2, <2>1, <2>2, FullPath
  <2>. QED  BY <2>1, <2>3
<1>7. \A f : is(f) <=> f = [k \in 0 .. N |-> level(k, f[k - 1])]
  OBVIOUS
<1>8. \A k \in 0 .. N : \A x : x \in S[k] <=> x \in U /\ SearchesDeep(I, out, x, k)
  OBVIOUS
<1>. DEFINE step == [k \in 1 .. N |-> [x \in U |-> Deeper(out, x)]]
<1>. HIDE DEF N, none, level, is, U, S
<1>9. /\ \A k \in 1 .. N : \A x \in U : step[k][x] = Deeper(out, x)
      /\ step \in Moves(N, U)
  <2>1. \A x \in U : Deeper(out, x) \in U
    BY DeeperStays DEF U
  <2>. QED  BY <2>1 DEF Moves
<1>. HIDE DEF step
<1>10. PICK f : Stays(f, N, U) /\ Computes(f, N, none, step)
  BY <1>2, <1>5, <1>9, FoldIs
<1>11. is(f)
  <2>1. ASSUME NEW k \in 1 .. N  PROVE step[k][f[k - 1]] = Deeper(out, f[k - 1])
    <3>1. f[k - 1] \in U
      BY <1>2, <1>10 DEF Stays
    <3>. QED  BY <1>9, <3>1
  <2>2. \A k \in 0 .. N : k = 0 \/ (k \in 1 .. N /\ k # 0)
    BY <1>2
  <2>3. ASSUME NEW k \in 0 .. N  PROVE f[k] = level(k, f[k - 1])
    <3>1. CASE k = 0
      BY <1>3, <1>10, <3>1 DEF Computes
    <3>2. CASE k # 0
      BY <1>4, <1>10, <2>1, <2>2, <3>2 DEF Computes
    <3>. QED  BY <3>1, <3>2
  <2>4. f = [k \in 0 .. N |-> f[k]]
    BY <1>10 DEF Stays
  <2>. QED  BY <1>7, <2>3, <2>4
<1>12. PICK g : is(g) /\ Dfs(out) = g[N]
  BY <1>1, <1>11
<1>13. ASSUME NEW k \in 1 .. N, g[k - 1] \in S[k - 1]  PROVE g[k] \in S[k]
  <2>1. k \in 0 .. N /\ k # 0 /\ k - 1 \in 0 .. N /\ k \in Nat /\ k >= 1
    BY <1>2
  <2>2. PICK d \in U : d = g[k - 1] /\ SearchesDeep(I, out, d, k - 1)
    BY <1>8, <1>13, <2>1
  <2>3. g[k] = Deeper(out, d)
    BY <1>4, <1>7, <1>12, <2>1, <2>2
  <2>4. Deeper(out, d) \in U /\ SearchesDeep(I, out, Deeper(out, d), k)
    BY <2>1, <2>2, DeeperStays, DeeperKeeps DEF U
  <2>. QED  BY <1>8, <2>1, <2>3, <2>4
<1>14. 0 \in 0 .. N /\ N \in 0 .. N
  BY <1>2
<1>15. g[0] \in S[0]
  BY <1>3, <1>5, <1>6, <1>7, <1>8, <1>12, <1>14
<1>16. \A k \in 0 .. N : g[k] \in S[k]
  BY <1>2, <1>13, <1>15, Stages
<1>17. g[N] \in U /\ SearchesDeep(I, out, g[N], N)
  BY <1>8, <1>14, <1>16
<1>18. SearchesWell(I, out, g[N], <<>>)
  <2>1. <<>> \in Seq(I) /\ Len(<<>>) = 0
    BY EmptySeq
  <2>2. Len(<<>>) + N >= Cardinality(I)
    BY <1>2, <2>1
  <2>. QED  BY <1>17, <2>1, <2>2 DEF SearchesDeep
<1>. QED  BY <1>12, <1>17, <1>18 DEF U

\* The search of one skill, unless it has been seen.
Visit(out, acc, n) == IF acc.color[n] = "white" THEN Dfs(out)[<<>>][n][acc] ELSE acc

\* The search of one skill, after others.
LEMMA VisitKeeps ==
  ASSUME NEW I, NEW out, IsGraph(I, out), NEW acc \in Searches(out), NEW n \in I
  PROVE  /\ Visit(out, acc, n) \in Searches(out)
         /\ SearchOK(I, out, acc, <<>>) =>
              /\ SearchOK(I, out, Visit(out, acc, n), <<>>)
              /\ Later(I, acc, Visit(out, acc, n))
              /\ Visit(out, acc, n).color[n] = "black"
<1>1. DOMAIN out = I /\ <<>> \in Seq(I)
  BY EmptySeq DEF IsGraph
<1>2. PICK dfs \in Searchers(I, out) : dfs = Dfs(out) /\ SearchesWell(I, out, dfs, <<>>)
  BY DfsIs
<1>3. CASE acc.color[n] = "white"
  <2>1. Visit(out, acc, n) = dfs[<<>>][n][acc]
    BY <1>2, <1>3 DEF Visit
  <2>2. dfs[<<>>][n][acc] \in Searches(out)
    <3>1. PICK p \in Seq(I) : p = <<>>
      BY <1>1
    <3>2. dfs[p][n][acc] \in Searches(out)
      BY DEF Searchers
    <3>. QED  BY <3>1, <3>2
  <2>3. ASSUME SearchOK(I, out, acc, <<>>)
        PROVE  Settled(I, out, acc, dfs[<<>>][n][acc], <<>>, n)
    <3>1. MayEnter(I, out, acc, <<>>, n)
      BY <1>3, <2>3 DEF MayEnter
    <3>. QED  BY <1>2, <3>1 DEF SearchesWell
  <2>. QED  BY <2>1, <2>2, <2>3 DEF Settled
<1>4. CASE acc.color[n] # "white"
  <2>1. Visit(out, acc, n) = acc
    BY <1>4 DEF Visit
  <2>2. ASSUME SearchOK(I, out, acc, <<>>)  PROVE acc.color[n] = "black"
    <3>1. acc.color[n] = "gray" <=> n \in ToSet(<<>>)
      BY <2>2 DEF SearchOK
    <3>2. ToSet(<<>>) = {}
      BY DEF ToSet
    <3>. QED  BY <1>1, <1>4, <3>1, <3>2, ColorIs
  <2>. QED  BY <2>1, <2>2 DEF Later
<1>. QED  BY <1>3, <1>4

\* What the searches of the first k skills leave.
Seen(I, out, from, k, s) ==
  /\ SearchOK(I, out, s, <<>>)
  /\ \A m \in 1 .. k : s.color[from[m]] = "black"

\* What the searches of all skills leave.
LEMMA SearchedIs ==
  ASSUME NEW skills, NEW I, I = Ids(skills), NEW out, IsGraph(I, out), NEW from \in Seq(I)
  PROVE  \E s \in Searches(out) :
           Searched(skills, out, from) = s.cycles /\ Seen(I, out, from, Len(from), s)
<1>. DEFINE N == Len(from)
            white == [color |-> [i \in I |-> "white"], cycles |-> <<>>]
            body(acc, k) == Visit(out, acc, from[k])
            is(f) == f = [k \in 0 .. N |-> IF k = 0 THEN white ELSE body(f[k - 1], k)]
            U == Searches(out)
            S == [k \in 0 .. N |-> {s \in U : Seen(I, out, from, k, s)}]
<1>1. Searched(skills, out, from) = (CHOOSE f : is(f))[N].cycles
  BY DEF Searched, Visit
<1>2. N \in Nat /\ DOMAIN out = I
  BY LenProperties DEF IsGraph
<1>3. ASSUME NEW k \in 1 .. N, NEW acc \in U
      PROVE  /\ body(acc, k) \in U
             /\ Seen(I, out, from, k - 1, acc) => Seen(I, out, from, k, body(acc, k))
  <2>1. PICK n \in I : n = from[k]
    BY ElementOfSeq
  <2>2. PICK t : t = Visit(out, acc, n)
    OBVIOUS
  <2>3. t \in U
    BY <2>2, VisitKeeps
  <2>4. ASSUME Seen(I, out, from, k - 1, acc)  PROVE Seen(I, out, from, k, t)
    <3>1. SearchOK(I, out, acc, <<>>) /\ \A m \in 1 .. k - 1 : acc.color[from[m]] = "black"
      BY <2>4 DEF Seen
    <3>2. SearchOK(I, out, t, <<>>) /\ Later(I, acc, t) /\ t.color[n] = "black"
      BY <2>2, <3>1, VisitKeeps
    <3>3. ASSUME NEW m \in 1 .. k  PROVE t.color[from[m]] = "black"
      <4>1. m \in 1 .. N /\ (m = k \/ m \in 1 .. k - 1)
        BY <1>2
      <4>2. from[m] \in I
        BY <4>1, ElementOfSeq
      <4>. QED  BY <2>1, <3>1, <3>2, <4>1, <4>2 DEF Later
    <3>. QED  BY <3>2, <3>3 DEF Seen
  <2>. QED  BY <2>1, <2>2, <2>3, <2>4
<1>4. white \in U /\ Seen(I, out, from, 0, white)
  <2>1. PICK none \in Seq(Seq(I)) : none = <<>>
    BY EmptySeq
  <2>2. PICK color \in [I -> {"white", "gray", "black"}] : color = [i \in I |-> "white"]
    OBVIOUS
  <2>3. PICK s : s = [color |-> color, cycles |-> none]
    OBVIOUS
  <2>4. s.color = color /\ s.cycles = none /\ s \in Searches(out)
    BY <1>2, <2>3 DEF Searches
  <2>5. ToSet(<<>>) = {}
    BY DEF ToSet
  <2>6. \A i \in I : s.color[i] = "white"
    BY <2>2, <2>4
  <2>7. Acyclic(Edges(I, out), Blacks(I, s))
    <3>1. Blacks(I, s) = {}
      BY <2>6 DEF Blacks
    <3>. QED  BY <3>1 DEF Acyclic
  <2>8. <<>> \in Seq(I) /\ IsInjective(<<>>) /\ Follows(Edges(I, out), <<>>)
    <3>1. <<>> \in Seq(I) /\ Len(<<>>) = 0 /\ DOMAIN <<>> = {}
      BY EmptySeq
    <3>. QED  BY <3>1 DEF IsInjective, Follows
  <2>9. \A c \in ToSet(s.cycles) : IsCycle(Edges(I, out), c)
    BY <2>1, <2>4, <2>5
  <2>10. \A i \in I : s.color[i] = "gray" <=> i \in ToSet(<<>>)
    BY <2>5, <2>6
  <2>11. SearchOK(I, out, s, <<>>)
    BY <2>7, <2>8, <2>9, <2>10 DEF SearchOK
  <2>12. Seen(I, out, from, 0, s)
    BY <2>11 DEF Seen
  <2>. QED  BY <2>1, <2>2, <2>3, <2>4, <2>12
<1>5. \A f : is(f) <=> f = [k \in 0 .. N |-> IF k = 0 THEN white ELSE body(f[k - 1], k)]
  OBVIOUS
<1>6. \A k \in 0 .. N : \A x : x \in S[k] <=> x \in U /\ Seen(I, out, from, k, x)
  OBVIOUS
<1>. DEFINE step == [k \in 1 .. N |-> [x \in U |-> body(x, k)]]
<1>. HIDE DEF N, white, body, is, U, S
<1>7. /\ \A k \in 1 .. N : \A x \in U : step[k][x] = body(x, k)
      /\ step \in Moves(N, U)
  BY <1>3 DEF Moves
<1>. HIDE DEF step
<1>8. PICK f : Stays(f, N, U) /\ Computes(f, N, white, step)
  BY <1>2, <1>4, <1>7, FoldIs
<1>9. is(f)
  <2>1. ASSUME NEW k \in 1 .. N  PROVE step[k][f[k - 1]] = body(f[k - 1], k)
    <3>1. f[k - 1] \in U
      BY <1>2, <1>8 DEF Stays
    <3>. QED  BY <1>7, <3>1
  <2>2. \A k \in 0 .. N : k = 0 \/ k \in 1 .. N
    BY <1>2
  <2>3. \A k \in 0 .. N : f[k] = IF k = 0 THEN white ELSE body(f[k - 1], k)
    BY <1>8, <2>1, <2>2 DEF Computes
  <2>4. f = [k \in 0 .. N |-> f[k]]
    BY <1>8 DEF Stays
  <2>. QED  BY <1>5, <2>3, <2>4
<1>10. PICK g : is(g) /\ Searched(skills, out, from) = g[N].cycles
  BY <1>1, <1>9
<1>11. ASSUME NEW k \in 1 .. N, g[k - 1] \in S[k - 1]  PROVE g[k] \in S[k]
  <2>1. k \in 0 .. N /\ k # 0 /\ k - 1 \in 0 .. N
    BY <1>2
  <2>2. g[k] = body(g[k - 1], k)
    BY <1>5, <1>10, <2>1
  <2>3. g[k - 1] \in U /\ Seen(I, out, from, k - 1, g[k - 1])
    BY <1>6, <1>11, <2>1
  <2>. QED  BY <1>3, <1>6, <2>1, <2>2, <2>3
<1>12. 0 \in 0 .. N /\ N \in 0 .. N
  BY <1>2
<1>13. g[0] \in S[0]
  BY <1>4, <1>5, <1>6, <1>10, <1>12
<1>14. \A k \in 0 .. N : g[k] \in S[k]
  BY <1>2, <1>11, <1>13, Stages
<1>15. g[N] \in U /\ Seen(I, out, from, N, g[N])
  BY <1>6, <1>12, <1>14
<1>. QED  BY <1>10, <1>15 DEF U, N

\* All that is reported are cycles, and one is where there is one.
LEMMA CyclesAre ==
  ASSUME NEW skills \in Seq(Skills), NEW out, IsGraph(Ids(skills), out)
  PROVE  /\ \A c \in ToSet(Cycles(skills, out)) : IsCycle(Edges(Ids(skills), out), c)
         /\ \A n \in Nat \ {0} : \A c \in [1 .. n -> Ids(skills)] :
              IsCycle(Edges(Ids(skills), out), c) => Cycles(skills, out) # <<>>
<1>1. PICK I : I = Ids(skills)
  OBVIOUS
<1>. DEFINE E == Edges(I, out)
<1>2. PICK from \in Seq(I) :
        /\ from = Order(skills) /\ Len(from) = Len(skills) /\ Len(from) \in Nat
        /\ \A i \in I : \E k \in 1 .. Len(from) : from[k] = i
  <2>1. Order(skills) \in Seq(I) /\ Len(Order(skills)) = Len(skills) /\ Len(skills) \in Nat
    BY <1>1, SkillIs
  <2>2. \A i \in I : \E k \in 1 .. Len(Order(skills)) : Order(skills)[k] = i
    BY <1>1, <2>1, LenProperties DEF Ids, ToSet
  <2>. QED  BY <2>1, <2>2
<1>3. PICK s : /\ Searched(skills, out, from) = s.cycles
               /\ Seen(I, out, from, Len(from), s)
  BY <1>1, SearchedIs
<1>4. Cycles(skills, out) = s.cycles
  BY <1>2, <1>3 DEF Cycles
<1>5. /\ \A c \in ToSet(s.cycles) : IsCycle(E, c)
      /\ s.cycles = <<>> => Acyclic(E, Blacks(I, s))
      /\ \A m \in 1 .. Len(from) : s.color[from[m]] = "black"
  BY <1>3 DEF Seen, SearchOK
<1>6. Blacks(I, s) = I
  BY <1>2, <1>5 DEF Blacks
<1>. HIDE DEF E
<1>7. ASSUME NEW n \in Nat \ {0}, NEW c \in [1 .. n -> I], IsCycle(E, c), s.cycles = <<>>
      PROVE  FALSE
  <2>1. Acyclic(E, I)
    BY <1>5, <1>6, <1>7
  <2>. DEFINE X == {c[k] : k \in 1 .. n}
  <2>2. X \in SUBSET I /\ c[1] \in X
    OBVIOUS
  <2>3. PICK x \in X : \A y \in X : <<x, y>> \notin E
    BY <2>1, <2>2 DEF Acyclic
  <2>4. PICK k \in 1 .. n : x = c[k]
    OBVIOUS
  <2>5. Len(c) = n
    OBVIOUS
  <2>6. CASE k = n
    BY <1>7, <2>2, <2>3, <2>4, <2>5, <2>6 DEF IsCycle
  <2>7. CASE k # n
    <3>1. k \in 1 .. n - 1 /\ k + 1 \in 1 .. n
      BY <2>7
    <3>2. <<c[k], c[k + 1]>> \in E
      BY <1>7, <2>5, <3>1 DEF IsCycle, Follows
    <3>3. c[k + 1] \in X
      BY <3>1
    <3>. QED  BY <2>3, <2>4, <3>2, <3>3
  <2>. QED  BY <2>6, <2>7
<1>. QED  BY <1>1, <1>4, <1>5, <1>7 DEF E

\* The analysis of skills that have ids of their own is true.
LEMMA AnalyzeTells ==
  ASSUME manifest \in Seq(Skills), IsInjective(Order(manifest)), Analyze
  PROVE  AnalysisIsTrue'
<1>1. PICK I : I = Ids(manifest)
  OBVIOUS
<1>2. PICK out : out = Out(manifest)
  OBVIOUS
<1>3. IsGraph(I, out) /\ \A e \in Edges(I, out) : Declares(manifest, e)
  BY <1>1, <1>2, OutIs
<1>4. PICK E : E = Edges(I, out)
  OBVIOUS
<1>5. /\ manifest' = manifest
      /\ analysis'.edges = E
      /\ analysis'.pipelines = Pipelines(manifest, out)
      /\ analysis'.cycles = Cycles(manifest, out)
      /\ \A i \in I : analysis'.next[i] = Recommended(manifest, i)
  BY <1>1, <1>2, <1>4 DEF Analyze, Edges
<1>6. ASSUME NEW n \in 1 .. Cardinality(I), NEW c \in [1 .. n -> I], IsCycle(E, c)
      PROVE  analysis'.cycles # <<>>
  <2>1. Cardinality(I) \in Nat
    BY <1>3, FS_CardinalityType DEF IsGraph
  <2>2. n \in Nat \ {0}
    BY <2>1
  <2>. QED  BY <1>1, <1>3, <1>4, <1>5, <1>6, <2>2, CyclesAre
<1>7. \A c \in ToSet(analysis'.cycles) : IsCycle(E, c)
  BY <1>1, <1>3, <1>4, <1>5, CyclesAre
<1>8. PICK found, visited :
        /\ found \in Seq(Seq(I)) /\ found = analysis'.pipelines
        /\ PipesOK(I, out, manifest, Len(manifest), [visited |-> visited, found |-> found])
  BY <1>1, <1>3, <1>5, PipelinesAre
<1>9. ASSUME NEW k \in DOMAIN found, NEW m \in DOMAIN found
      PROVE  /\ Follows(E, found[k]) /\ Len(found[k]) >= 2
             /\ \A e \in E : e[2] # found[k][1]
             /\ k # m => ToSet(found[k]) \cap ToSet(found[m]) = {}
  <2>1. k \in 1 .. Len(found) /\ m \in 1 .. Len(found)
    BY LenProperties
  <2>2. /\ IsPipe(I, out, found[k])
        /\ k # m => ToSet(found[k]) \cap ToSet(found[m]) = {}
    BY <1>8, <2>1 DEF PipesOK
  <2>. QED  BY <1>4, <2>2 DEF IsPipe
<1>10. ASSUME NEW e \in E  PROVE e[2] \in ToSet(analysis'.next[e[1]])
  <2>1. PICK i \in I, t \in I : e = <<i, t>>
    BY <1>4, EdgeIs
  <2>2. Declares(manifest, <<i, t>>)
    BY <1>3, <1>4, <2>1
  <2>3. t \in ToSet(Recommended(manifest, i))
    BY <1>1, <2>2, NextIs
  <2>4. e[1] = i /\ e[2] = t
    BY <2>1
  <2>. QED  BY <1>5, <2>3, <2>4
<1>. QED  BY <1>1, <1>5, <1>6, <1>7, <1>8, <1>9, <1>10 DEF AnalysisIsTrue

-----------------------------------------------------------------------------
(* The workspace.                                                          *)

WorkspaceInv ==
  /\ LayoutInv /\ EventsCountOnce /\ TrustInv /\ MemoriesOK /\ PlanAccountsForAll
  /\ manifest \in Manifests \cup {<<>>} /\ AnalysisIsTrue

\* A workspace has the skills of a manifest, or none.
LEMMA ManifestIs ==
  ASSUME manifest \in Manifests \cup {<<>>}
  PROVE  manifest \in Seq(Skills) /\ IsInjective(Order(manifest))
<1>1. CASE manifest = <<>>
  <2>1. manifest \in Seq(Skills) /\ DOMAIN manifest = {}
    BY <1>1, EmptySeq
  <2>2. DOMAIN Order(manifest) = {}
    BY <2>1 DEF Order
  <2>. QED  BY <2>1, <2>2 DEF IsInjective
<1>2. CASE manifest \in Manifests
  BY <1>2, WorkspaceAssumption
<1>. QED  BY <1>1, <1>2

LEMMA InitOK == Init => WorkspaceInv
<1>. SUFFICES ASSUME Init  PROVE WorkspaceInv
  OBVIOUS
<1>1. PICK c \in Cases : LayoutInit(c.layout)
  BY DEF Init
<1>2. LayoutInv
  <2>1. c.layout \in Layouts
    BY WorkspaceAssumption
  <2>. QED  BY <1>1, <2>1, LayoutInitOK
<1>3. EventsCountOnce
  BY DEF Init, DriftInit, EventsCountOnce
<1>4. TrustInv
  BY TrustInitOK DEF Init
<1>5. MemoriesOK
  <2>1. memories \in Seq([words : SUBSET STRING, recent : BOOLEAN, salience : 0 .. 10])
    BY WorkspaceAssumption, EmptySeq DEF Init
  <2>. QED  BY <2>1, LenProperties DEF MemoriesOK
<1>6. PlanAccountsForAll
  BY DEF Init, PlanAccountsForAll
<1>7. manifest \in Manifests \cup {<<>>}
  BY DEF Init
<1>8. AnalysisIsTrue
  BY DEF Init, NoAnalysis, AnalysisIsTrue
<1>. QED  BY <1>2, <1>3, <1>4, <1>5, <1>6, <1>7, <1>8 DEF WorkspaceInv

LEMMA StepsKeep == WorkspaceInv /\ [Next]_vars => WorkspaceInv'
<1>. SUFFICES ASSUME WorkspaceInv, [Next]_vars  PROVE WorkspaceInv'
  OBVIOUS
<1>. USE DEF WorkspaceInv
<1>1. ASSUME UNCHANGED driftVars  PROVE EventsCountOnce'
  BY <1>1 DEF driftVars, EventsCountOnce
<1>2. ASSUME UNCHANGED trustVars  PROVE TrustInv'
  BY <1>2, TrustStepsKeep
<1>0. ASSUME UNCHANGED memoryVars  PROVE MemoriesOK' /\ PlanAccountsForAll'
  BY <1>0 DEF memoryVars, MemoriesOK, PlanAccountsForAll
<1>8. ASSUME UNCHANGED graphVars  PROVE manifest' \in Manifests \cup {<<>>} /\ AnalysisIsTrue'
  BY <1>8 DEF graphVars, AnalysisIsTrue
<1>3. CASE LayoutNext /\ UNCHANGED <<driftVars, trustVars, graphVars, memoryVars>>
  BY <1>0, <1>1, <1>2, <1>3, <1>8, LayoutStepsKeep
<1>4. CASE DriftNext /\ UNCHANGED <<trustVars, graphVars, memoryVars>>
  <2>1. CASE Detect
    <3>1. UNCHANGED layoutVars
      BY <2>1 DEF Detect
    <3>. QED  BY <1>0, <1>2, <1>4, <1>8, <2>1, <3>1, LayoutStays, DetectCountsOnce
  <2>2. ASSUME NEW k \in DOMAIN proposals, Apply(k)  PROVE WorkspaceInv'
    <3>1. report' = report
      BY <2>2 DEF Apply
    <3>2. EventsCountOnce'
      BY <3>1 DEF EventsCountOnce
    <3>. QED  BY <1>0, <1>2, <1>4, <1>8, <2>2, <3>2, ApplyKeeps
  <2>. QED  BY <1>4, <2>1, <2>2 DEF DriftNext
<1>5. CASE TrustNext /\ UNCHANGED <<layoutVars, driftVars, graphVars, memoryVars>>
  <2>1. TrustSteps
    BY <1>5 DEF TrustNext, TrustSteps
  <2>. QED  BY <1>0, <1>1, <1>5, <1>8, <2>1, LayoutStays, TrustStepsKeep
<1>6. CASE Analyze /\ UNCHANGED <<layoutVars, driftVars, trustVars, memoryVars>>
  <2>1. manifest' = manifest
    BY <1>6 DEF Analyze
  <2>2. AnalysisIsTrue'
    BY <1>6, ManifestIs, AnalyzeTells
  <2>. QED  BY <1>0, <1>1, <1>2, <1>6, <2>1, <2>2, LayoutStays
<1>9. CASE UNCHANGED vars
  BY <1>0, <1>1, <1>2, <1>8, <1>9, LayoutStays DEF vars
<1>7. CASE Consolidate /\ UNCHANGED <<layoutVars, driftVars, trustVars, graphVars>>
  <2>1. memories' = memories
    BY <1>7 DEF Consolidate
  <2>2. MemoriesOK'
    BY <2>1 DEF MemoriesOK
  <2>. QED  BY <1>1, <1>2, <1>7, <1>8, <2>2, LayoutStays, ConsolidateAccounts
<1>. QED  BY <1>3, <1>4, <1>5, <1>6, <1>7, <1>9 DEF Next

\* Once a migration has ended, readers find everything as it was last
\* written where they look, however often migrations were killed; except for
\* a copy that was torn, a trace whose run went on in the old directory, and
\* what was imported where nobody looks (migrateWorkspaceLayout).
THEOREM MigrationsLoseNothing ==
  Spec => []NothingIsLost
<1>1. WorkspaceInv => NothingIsLost
  BY LayoutPromise DEF WorkspaceInv
<1>. QED  BY InitOK, StepsKeep, <1>1, PTL DEF Spec

\* detect counts no event twice, and misses none once a migration has ended
\* and no trace is astray, for any runs, events and reasons
\* (detectFromTraces, resolveTracesPath).
THEOREM DetectCounts ==
  Spec => []EventsCountOnce
<1>1. WorkspaceInv => EventsCountOnce
  BY DEF WorkspaceInv
<1>. QED  BY InitOK, StepsKeep, <1>1, PTL DEF Spec

\* A plan accounts for every memory once, and drops no recent one and no word
\* of a merge, for any memories (generateConsolidationPlan, detectMerges).
THEOREM PlansAccountForAll ==
  Spec => []PlanAccountsForAll
<1>1. WorkspaceInv => PlanAccountsForAll
  BY DEF WorkspaceInv
<1>. QED  BY InitOK, StepsKeep, <1>1, PTL DEF Spec

\* An analysis reports a cycle where there is one, and nothing that is none;
\* its chains are paths from skills that nothing feeds, and share no skill;
\* and what it recommends after a skill has all that the skill feeds, for any
\* manifest of skills that have ids of their own (analyzeSkillGraph,
\* detectCycles, detectPipelines, recommendNextSkill).
THEOREM AnalysesAreTrue ==
  Spec => []AnalysisIsTrue
<1>1. WorkspaceInv => AnalysisIsTrue
  BY DEF WorkspaceInv
<1>. QED  BY InitOK, StepsKeep, <1>1, PTL DEF Spec

\* Whatever servers change, go down, are added, pinned and bound, a silent
\* audit means that the names and schemas of the tools that are bound are
\* those pinned last, unless the server changed them in the middle of the
\* bind; and of a server with a pin it is silent if and only if what a
\* fingerprint covers was the same at pin and bind, unless a listing failed
\* (getFingerprint, pinMCPServer, bindServer, TrustAuditor.audit).
THEOREM SilenceIsConsent ==
  Spec => []SilenceMeansPinned
<1>1. WorkspaceInv => SilenceMeansPinned
  BY DEF WorkspaceInv, TrustInv
<1>. QED  BY InitOK, StepsKeep, <1>1, PTL DEF Spec
=============================================================================
