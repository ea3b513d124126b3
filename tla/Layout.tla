------------------------------- MODULE Layout -------------------------------
(***************************************************************************)
(* TasteKit's workspace on disk.  An artifact may lie where the flat       *)
(* layout (1) has it or where the three-space layout (2) has it; readers   *)
(* look in 2 first.  migrateWorkspaceLayout copies what is in 1 to 2, file *)
(* by file, and leaves the old files; it may be killed anywhere, commands  *)
(* may run before it is started again, and agents write traces meanwhile.  *)
(***************************************************************************)
EXTENDS Integers, Sequences, SequencesExt, Functions

CONSTANTS
  None  \* no such file or directory

VARIABLES
  files,   \* [Layouts -> [Artifacts -> None, Torn, or a content]]
  dirs,    \* [Layouts -> [Spaces -> None, or a function from names to contents]]
  mig,     \* the migration that runs: [pc, at], or Idle
  half,    \* a migration was begun and none has ended since
  runs,    \* tracers: run -> the layout that it writes to
  latest,  \* history: what each artifact was last made to be, for readers
  entries, \* history: the same for what is in each space
  astray   \* history: runs whose trace is not whole where the readers look

layoutVars == <<files, dirs, mig, half, runs, latest, entries, astray>>

Artifacts == {"constitution", "guardrails", "memory", "session"}
Spaces == {"skills", "playbooks", "traces"}
Layouts == {1, 2}

Torn == [torn |-> TRUE]
Idle == [pc |-> "idle"]
Version(n) == [v |-> n, principles |-> <<>>]
TornLine == [event |-> "torn"]
NoNames == [n \in {} |-> None]

-----------------------------------------------------------------------------
(* Where a reader finds an artifact, and a reader or writer a space.       *)

Resolved(a) == IF files[2][a] # None THEN files[2][a] ELSE files[1][a]

Place(s) == IF dirs[2][s] = None /\ dirs[1][s] # None THEN 1 ELSE 2

Listing(s) ==
  IF dirs[Place(s)][s] = None THEN NoNames ELSE dirs[Place(s)][s]

Put(dir, name, content) ==
  [n \in (IF dir = None THEN {} ELSE DOMAIN dir) \cup {name} |->
     IF n = name THEN content ELSE dir[n]]

-----------------------------------------------------------------------------
(* migrateWorkspaceLayout.                                                 *)

(* What it does, in order: it makes the directories, then copies.          *)
Program == << <<"make", "skills">>, <<"make", "playbooks">>,
              <<"make", "traces">>, <<"file", "constitution">>,
              <<"file", "guardrails">>, <<"file", "memory">>,
              <<"dir", "skills">>, <<"dir", "playbooks">>,
              <<"dir", "traces">>, <<"file", "session">> >>

(* The trace of a run that is in 1 will still be copied.                   *)
CopyAhead ==
  half /\ (mig.pc = "run" => mig.at <= 9)

At(kind) == mig.pc = "run" /\ mig.at <= Len(Program) /\ Program[mig.at][1] = kind
What == Program[mig.at][2]
Advanced == [mig EXCEPT !.at = mig.at + 1]

Migrate ==
  /\ mig.pc = "idle"
  /\ mig' = [pc |-> "run", at |-> 1] /\ half' = TRUE
  /\ UNCHANGED <<files, dirs, runs, latest, entries, astray>>

Make ==
  /\ At("make")
  /\ dirs' = IF dirs[2][What] # None THEN dirs
             ELSE [dirs EXCEPT ![2][What] = NoNames]
  /\ mig' = Advanced
  /\ UNCHANGED <<files, half, runs, latest, entries, astray>>

Copied(a) == files[1][a] # None /\ files[2][a] = None

CopyFile ==
  /\ At("file")
  /\ files' = IF Copied(What) THEN [files EXCEPT ![2][What] = files[1][What]]
              ELSE files
  /\ mig' = Advanced
  /\ UNCHANGED <<dirs, half, runs, latest, entries, astray>>

\* Mutant: a file that is there already is copied again.
MissingAll(s) == IF dirs[1][s] = None THEN {} ELSE
  {n \in DOMAIN dirs[1][s] :
     n \in DOMAIN dirs[2][s] => dirs[2][s][n] # dirs[1][s][n]}

(* copyDirContents: what is there already is left alone.                   *)
Missing(s) ==
  IF dirs[1][s] = None THEN {} ELSE DOMAIN dirs[1][s] \ DOMAIN dirs[2][s]

CopyEntry ==
  /\ At("dir")
  /\ \E n \in Missing(What) :
       dirs' = [dirs EXCEPT ![2][What] = Put(dirs[2][What], n, dirs[1][What][n])]
  /\ UNCHANGED <<files, mig, half, runs, latest, entries, astray>>

EndDir ==
  /\ At("dir") /\ Missing(What) = {}
  /\ mig' = Advanced
  /\ UNCHANGED <<files, dirs, half, runs, latest, entries, astray>>

EndMigration ==
  /\ mig.pc = "run" /\ mig.at > Len(Program)
  /\ mig' = Idle /\ half' = FALSE
  /\ UNCHANGED <<files, dirs, runs, latest, entries, astray>>

(* It is killed between two steps, or while it writes a copy.              *)
Kill ==
  /\ mig.pc = "run"
  /\ mig' = Idle
  /\ \/ UNCHANGED <<files, dirs, astray>>
     \/ /\ At("file") /\ Copied(What)
        /\ files' = [files EXCEPT ![2][What] = Torn] /\ UNCHANGED dirs
        /\ UNCHANGED astray
     \/ /\ At("dir")
        /\ \E n \in Missing(What), copy \in {0, 1} :
             /\ dirs' = [dirs EXCEPT ![2][What] = Put(dirs[2][What], n,
                          IF What # "traces" THEN Torn
                          ELSE IF copy = 0 THEN <<>>
                          ELSE Append(Front(dirs[1][What][n]), TornLine))]
             /\ astray' = IF What = "traces" THEN astray \cup {n} ELSE astray
        /\ UNCHANGED files
  /\ UNCHANGED <<half, runs, latest, entries>>

MigrationSteps == Make \/ CopyFile \/ CopyEntry \/ EndDir \/ EndMigration

-----------------------------------------------------------------------------
(* Those who write.                                                        *)

(* A command writes an artifact where the readers look first.              *)
Write(layout, a, content) ==
  /\ files' = [files EXCEPT ![layout][a] = content]
  /\ latest' = IF layout = 1 /\ files[2][a] # None THEN latest
               ELSE [latest EXCEPT ![a] = content]

(* compile, as one step (Compile has its steps): self/ always, skills and  *)
(* playbooks where the readers look.                                       *)
Recompile(n) ==
  /\ mig.pc = "idle"
  /\ LET written == {"constitution", "guardrails", "memory"}
         name(s) == IF s = "skills" THEN "manifest" ELSE "playbook"
     IN /\ files' = [files EXCEPT ![2] = [a \in Artifacts |->
                        IF a \in written THEN Version(n) ELSE files[2][a]]]
        /\ latest' = [a \in Artifacts |->
                        IF a \in written THEN Version(n) ELSE latest[a]]
        /\ dirs' = [i \in Layouts |-> [s \in Spaces |->
                      IF s # "traces" /\ i = Place(s)
                        THEN Put(dirs[i][s], name(s), Version(n)) ELSE dirs[i][s]]]
        /\ entries' = [s \in Spaces |->
                         IF s = "traces" THEN entries[s]
                         ELSE Put(entries[s], name(s), Version(n))]
  /\ UNCHANGED <<mig, half, runs, astray>>

(* onboard saves its session where it is, or in ops/.                      *)
SaveSession(n) ==
  /\ mig.pc = "idle"
  /\ Write(IF files[2]["session"] = None /\ files[1]["session"] # None
             THEN 1 ELSE 2, "session", Version(n))
  /\ UNCHANGED <<dirs, mig, half, runs, entries, astray>>

(* import, from a SOUL.md or an agent file, writes where the flat layout   *)
(* has the constitution.                                                   *)
Import(n) ==
  /\ mig.pc = "idle"
  /\ Write(1, "constitution", Version(n))
  /\ UNCHANGED <<dirs, mig, half, runs, entries, astray>>

(* An agent's tracer finds its directory once, when the run begins.        *)
OpenTrace(r) ==
  /\ r \notin DOMAIN runs
  /\ r \notin DOMAIN entries["traces"]
  /\ runs' = [q \in DOMAIN runs \cup {r} |->
                IF q = r THEN Place("traces") ELSE runs[q]]
  /\ dirs' = IF dirs[Place("traces")]["traces"] # None THEN dirs
             ELSE [dirs EXCEPT ![Place("traces")]["traces"] = NoNames]
  /\ UNCHANGED <<files, mig, half, latest, entries, astray>>

Appended(r, line) ==
  /\ r \in DOMAIN runs
  /\ LET dir == dirs[runs[r]]["traces"]
         lines(d) == IF r \in DOMAIN d THEN d[r] ELSE <<>>
     IN /\ dirs' = [dirs EXCEPT ![runs[r]]["traces"] =
                      Put(dir, r, Append(lines(dir), line))]
        /\ entries' = [entries EXCEPT !["traces"] =
                         Put(entries["traces"], r,
                             Append(lines(entries["traces"]), line))]
  /\ astray' = IF /\ runs[r] # Place("traces")
                  /\ r \in DOMAIN dirs[2]["traces"] \/ ~CopyAhead
                 THEN astray \cup {r} ELSE astray
  /\ UNCHANGED <<files, mig, half, latest>>

Trace(r, event) == Appended(r, event) /\ UNCHANGED runs

(* The agent is killed while it appends a line.                            *)
TearTrace(r) ==
  /\ Appended(r, TornLine)
  /\ runs' = [q \in DOMAIN runs \ {r} |-> runs[q]]

-----------------------------------------------------------------------------
(* A workspace of an older version, which has everything in place 1, or    *)
(* one that init has made.                                                 *)
LayoutInit(layout) ==
  /\ files = [i \in Layouts |-> [a \in Artifacts |->
                IF layout = 1 /\ i = 1 THEN Version(0) ELSE None]]
  /\ dirs = [i \in Layouts |-> [s \in Spaces |->
               IF i # layout THEN None
               ELSE IF layout = 1 /\ s = "skills"
                 THEN [n \in {"manifest", "skill"} |-> Version(0)]
               ELSE IF layout = 1 /\ s = "playbooks"
                 THEN [n \in {"playbook"} |-> Version(0)]
               ELSE NoNames]]
  /\ mig = Idle /\ half = FALSE
  /\ runs = [r \in {} |-> 0] /\ astray = {}
  /\ latest = [a \in Artifacts |-> files[layout][a]]
  /\ entries = [s \in Spaces |-> dirs[layout][s]]

-----------------------------------------------------------------------------
(* Properties.                                                             *)

(* Once a migration has ended, readers find every artifact, skill,         *)
(* playbook and trace as it was last written where they look (import and   *)
(* apply may write the old place in vain), also when an earlier            *)
(* migration was killed and commands ran in between; except for a copy     *)
(* that was torn, which is not made again, and for what a run still adds   *)
(* to the old directory (migrateWorkspaceLayout: "for safety").            *)
NothingIsLost ==
  ~half =>
    /\ \A a \in Artifacts : Resolved(a) \in {latest[a], Torn}
    /\ \A s \in Spaces \ {"traces"} : \A n \in DOMAIN entries[s] :
         /\ n \in DOMAIN Listing(s)
         /\ Listing(s)[n] \in {entries[s][n], Torn}
    /\ \A r \in DOMAIN entries["traces"] \ astray :
         /\ r \in DOMAIN Listing("traces")
         /\ Listing("traces")[r] = entries["traces"][r]
=============================================================================
