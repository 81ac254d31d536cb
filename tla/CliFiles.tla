------------------------------- MODULE CliFiles -------------------------------
(***************************************************************************)
(* The commands of the CLI that write files which others keep: config      *)
(* migrate, which rewrites a configuration after it has made a backup      *)
(* (commands/config_migrate.go), and support-bundle, which fills a         *)
(* directory (commands/supportbundle.go).  Two of one kind may run at      *)
(* once, the service or an operator may save the configuration meanwhile,  *)
(* and each may fail or be killed at any step.                             *)
(*                                                                         *)
(* A configuration is the number of the save it holds and its form: a bare *)
(* array, which is the canonical form; another form that migrates to it;   *)
(* or bad, one that does not parse or does not validate.                   *)
(***************************************************************************)
EXTENDS Integers, FiniteSets, SequencesExt

CONSTANTS Writers,     \* the commands that may run at once
          BundleFiles, \* what is always in a bundle, a sequence
          FirstFiles,  \* the configuration and the file --out names, at first
          MaxSaves,    \* bound on the saves of others
          MaxSeconds   \* bound on the seconds that pass

NoFile == [form |-> "none", save |-> 0]
Torn == [form |-> "torn", save |-> 0]
Content(form, save) == [form |-> form, save |-> save]

\* A file is whole at first, and of no save.
ASSUME FilesAssumption ==
  /\ IsFiniteSet(Writers) /\ MaxSeconds \in Nat
  /\ BundleFiles \in Seq(STRING \ {"manifest", "theirs"}) /\ BundleFiles # <<>>
  /\ FirstFiles \subseteq
       [{"config", "out"} -> {Content(form, 0) : form \in {"none", "array", "other", "bad"}}]

VARIABLES job,       \* what the commands are: "migrate" or "bundle"
          args,      \* of each migrate: whether it writes, and to another file
          files,     \* the configuration and the file --out names
          backups,   \* the backups: functions from their names
          dir,       \* the entries of the bundle's directory: likewise
          writer,    \* where each command is
          replaced,  \* what migrates replaced that they had looked at
          second,    \* the clock
          saves      \* how often others saved

fileVars == <<job, args, files, backups, dir, writer, replaced, second, saves>>

Names == {"config", "out"} \X (0..MaxSeconds) \X (0..Cardinality(Writers))
Entries == ToSet(BundleFiles) \union {"runtime", "export", "manifest", "theirs"}

NewWriter == [at |-> "begin", data |-> NoFile, kept |-> NoFile, now |-> 0,
              name |-> <<>>, left |-> <<>>, items |-> {}, passed |-> FALSE, code |-> -1]

Apart(first) ==
  /\ files \in first
  /\ backups = [n \in Names |-> NoFile]
  /\ writer = [p \in Writers |-> NewWriter]
  /\ replaced = {} /\ second = 0 /\ saves = 0

Directory(theirs) == [e \in Entries |-> IF e = "theirs" THEN theirs ELSE NoFile]
NoFiles == [path \in {"config", "out"} |-> NoFile]

\* A directory that somebody else uses has an entry.
FilesInit ==
  \/ /\ job = "migrate" /\ args \in [Writers -> [write : BOOLEAN, out : BOOLEAN]]
     /\ Apart(FirstFiles) /\ dir = Directory(NoFile)
  \/ /\ job = "bundle" /\ args = [p \in Writers |-> [write |-> TRUE, out |-> TRUE]]
     /\ Apart({NoFiles}) /\ dir \in {Directory(NoFile), Directory(Content("whole", 0))}

Goes(p, changes) == writer' = [writer EXCEPT ![p] = changes]
At(p, at) == Goes(p, [writer[p] EXCEPT !.at = at])
Ends(p, code) == Goes(p, [writer[p] EXCEPT !.at = "done", !.code = code])

-----------------------------------------------------------------------------
(* config migrate.                                                         *)

Target(p) == IF args[p].out THEN "out" ELSE "config"

\* The file is read, classified and validated; a dry run ends here.
Read(p) ==
  /\ writer[p].at = "begin"
  /\ LET found == files["config"]
     IN IF found.form \in {"none", "bad"} THEN Ends(p, 1)
        ELSE IF ~args[p].write THEN Ends(p, 0)
        ELSE Goes(p, [writer[p] EXCEPT !.at = "look", !.data = Content("array", found.save)])
  /\ UNCHANGED <<files, backups, replaced>>

\* Only a target that is there is backed up.
Look(p) ==
  /\ writer[p].at = "look"
  /\ At(p, IF files[Target(p)] = NoFile THEN "write" ELSE "copy")
  /\ UNCHANGED <<files, backups, replaced>>

\* Mutant: the first name of the second is taken, whatever has it.
FirstName(path, now) == <<path, now, 0>>

\* The first name of this second that no backup has.
FreeName(path, now) ==
  LET free == {n \in 0..Cardinality(Writers) : backups[<<path, now, n>>] = NoFile}
  IN <<path, now, CHOOSE n \in free : \A m \in free : n <= m>>

\* backUpFile: the target is read, a free name is looked for, and the backup is
\* written to it in two steps, truncated first.
Copy(p) ==
  /\ writer[p].at = "copy"
  /\ \/ Goes(p, [writer[p] EXCEPT !.at = "name", !.kept = files[Target(p)],
                   !.now = second])
     \/ Ends(p, 1)
  /\ UNCHANGED <<files, backups, replaced>>

Name(p) ==
  /\ writer[p].at = "name"
  /\ Goes(p, [writer[p] EXCEPT !.at = "open", !.name = FreeName(Target(p), writer[p].now)])
  /\ UNCHANGED <<files, backups, replaced>>

Backup(p, next, content) ==
  \/ At(p, next) /\ backups' = [backups EXCEPT ![writer[p].name] = content]
  \/ Ends(p, 1) /\ UNCHANGED backups

Open(p) == writer[p].at = "open" /\ Backup(p, "fill", Torn) /\ UNCHANGED <<files, replaced>>
Fill(p) == writer[p].at = "fill" /\ Backup(p, "write", writer[p].kept)
           /\ UNCHANGED <<files, replaced>>

\* A temporary file takes the place of the target at once, or is removed.
Write(p) ==
  /\ writer[p].at = "write"
  /\ \/ /\ files' = [files EXCEPT ![Target(p)] = writer[p].data]
        /\ replaced' = replaced \union (({files[Target(p)]} \intersect {writer[p].kept}) \ {NoFile})
        /\ Ends(p, 0)
     \/ Ends(p, 1) /\ UNCHANGED <<files, replaced>>
  /\ UNCHANGED backups

Migrate(p) ==
  /\ Read(p) \/ Look(p) \/ Copy(p) \/ Name(p) \/ Open(p) \/ Fill(p) \/ Write(p)
  /\ UNCHANGED <<job, args, dir, second, saves>>

-----------------------------------------------------------------------------
(* support-bundle.                                                         *)

\* prepareBundleDir refuses a directory that has entries.  Then the runtime is
\* asked, for the doctor's report and once more for its own artifacts, and each
\* answer may be missing; the manifest comes last.
Prepare(p) ==
  /\ writer[p].at = "begin"
  /\ IF \E e \in Entries : dir[e] # NoFile THEN Ends(p, 1)
     ELSE \/ Ends(p, 1)
          \/ \E runtime, export, passed \in BOOLEAN :
               LET items == BundleFiles \o (IF runtime THEN <<"runtime">> ELSE <<>>)
                                        \o (IF export THEN <<"export">> ELSE <<>>)
               IN Goes(p, [writer[p] EXCEPT !.at = "create", !.left = items \o <<"manifest">>,
                             !.items = ToSet(items), !.passed = passed])
  /\ UNCHANGED dir

OpenArtifact(p) ==
  /\ writer[p].at = "create"
  /\ \/ At(p, "put") /\ dir' = [dir EXCEPT ![Head(writer[p].left)] = Torn]
     \/ Ends(p, 1) /\ UNCHANGED dir

\* The exit code of a bundle that is written is the doctor's.
Put(p) ==
  /\ writer[p].at = "put"
  /\ \/ /\ dir' = [dir EXCEPT ![Head(writer[p].left)] =
                     [form |-> "whole", items |-> writer[p].items, by |-> p]]
        /\ IF Len(writer[p].left) = 1 THEN Ends(p, IF writer[p].passed THEN 0 ELSE 1)
           ELSE Goes(p, [writer[p] EXCEPT !.at = "create", !.left = Tail(@)])
     \/ Ends(p, 1) /\ UNCHANGED dir

FillBundle(p) ==
  /\ Prepare(p) \/ OpenArtifact(p) \/ Put(p)
  /\ UNCHANGED <<job, args, files, backups, replaced, second, saves>>

-----------------------------------------------------------------------------
(* What else may happen.                                                   *)

Killed(p) ==
  /\ writer[p].at \notin {"begin", "done"}
  /\ Ends(p, -1)
  /\ UNCHANGED <<job, args, files, backups, dir, replaced, second, saves>>

\* The service saves the canonical form, an operator a bad one.
Save ==
  /\ job = "migrate" /\ saves < MaxSaves /\ saves' = saves + 1
  /\ \E path \in {"config", "out"}, form \in {"array", "bad"} :
       files' = [files EXCEPT ![path] = Content(form, saves + 1)]
  /\ UNCHANGED <<job, args, backups, dir, writer, replaced, second>>

Tick ==
  /\ job = "migrate" /\ second < MaxSeconds /\ second' = second + 1
  /\ UNCHANGED <<job, args, files, backups, dir, writer, replaced, saves>>

FilesNext ==
  \/ \E p \in Writers : \/ job = "migrate" /\ Migrate(p)
                        \/ job = "bundle" /\ FillBundle(p)
                        \/ Killed(p)
  \/ Save \/ Tick

-----------------------------------------------------------------------------
\* Two migrates of one target took one name for their backups, which takes
\* that they began within a second.
OneName ==
  \E p, q \in Writers : p # q /\ writer[p].name # <<>> /\ writer[p].name = writer[q].name

\* What a migrate replaces is in a whole backup, and stays there, also when it is
\* killed, when others migrate the same file and when backups of the same
\* second exist.  Only a migrate that took the same name can take it away: for
\* as long as it writes, or is killed then, or because its copy is older; and
\* without a save by others, nothing but what is in the file again.
ReplacedIsKept ==
  \A c \in replaced :
    \/ \E n \in Names : backups[n] = c
    \/ OneName /\ \/ saves > 0 \/ \E n \in Names : backups[n] = Torn
                  \/ \E path \in {"config", "out"} : files[path] = c

\* The file is never half written, only canonical forms are written by a
\* migrate, and one that reports success has written what it read.
MigratesAreWhole ==
  /\ \A path \in {"config", "out"} : files[path] # Torn
  /\ \A p \in Writers : (job = "migrate" /\ writer[p].code = 0 /\ args[p].write) =>
       writer[p].data.form = "array" /\ (saves = 0 => files[Target(p)].form = "array")

\* A manifest marks a bundle whose artifacts are whole: always, unless two
\* commands found the directory empty at the same time, and then once both
\* have written all they had.  A directory with anything in it is left alone.
BundlesAreWhole ==
  LET manifest == dir["manifest"]
      entered == {p \in Writers : writer[p].items # {}}
      wrote == {p \in entered : writer[p].left = <<"manifest">> /\ writer[p].at = "done"
                                /\ dir["manifest"].form = "whole"}
  IN /\ (manifest.form = "whole" /\ (Cardinality(entered) = 1 \/ wrote = entered)) =>
          \A a \in manifest.items : dir[a].form = "whole"
     /\ \A p \in Writers : (job = "bundle" /\ writer[p].code = 0 /\ entered = {p}) =>
          /\ manifest.form = "whole" /\ manifest.by = p
          /\ \A e \in Entries : dir[e] = NoFile \/ dir[e].form = "whole"
     /\ dir["theirs"] # NoFile => \A e \in Entries \ {"theirs"} : dir[e] = NoFile

FilesAreWhole == ReplacedIsKept /\ MigratesAreWhole /\ BundlesAreWhole
=============================================================================
