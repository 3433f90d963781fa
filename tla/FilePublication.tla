-------------------------- MODULE FilePublication --------------------------
(***************************************************************************)
(* How the command-line tool puts finished files in place                  *)
(* (crates/openjoc-cli): one audio file (StagedOutput in joc_output.rs),   *)
(* or an ADM file with its report as a pair (commit_adm_pair in main.rs).  *)
(* A run writes hidden siblings first and publishes them at the end, with  *)
(* or without permission to replace what is there.                         *)
(*                                                                         *)
(* Every file operation is an action: it may fail, the process may stop    *)
(* between any two of them, and another program may create a destination   *)
(* that is absent.  After a stop the tool may be run again.                *)
(*                                                                         *)
(* A file is who wrote it and whether it is whole.  The single file is     *)
(* "output".  Names of a pair's siblings and backups hold the process and  *)
(* the time; the single file's backup holds the process only.  They are    *)
(* fresh for each run: that the system gives a run the process number of   *)
(* one that was stopped is not modelled.  Such a run would find the backup *)
(* there and refuse to replace, which is the refusal SetAside has anyway.  *)
(***************************************************************************)
EXTENDS Naturals

CONSTANTS
  Absent,        \* no file, or no result yet
  Other,       \* another program, as the writer of a file
  MaxRuns,     \* bound: runs of the tool
  MaxFailures  \* bound: file operations that fail of themselves in a run

Contents == [by : 0 .. MaxRuns \cup {Other}, whole : BOOLEAN]

ASSUME PublicationAssumption ==
  /\ MaxRuns \in Nat /\ MaxFailures \in Nat
  /\ Other \notin Nat
  /\ Absent \notin Contents \cup {"ok", "error", "stopped"}

VARIABLES
  kind,      \* "single" or "pair"
  overwrite, \* the run may replace its destinations
  files,     \* the directory
  run,       \* number of the run
  pc,        \* the next operation and the file it is for
  saved,     \* the destinations commit_adm_pair has found in place
  result,    \* how the run ended: "ok", "error" or "stopped"
  before,    \* history: the destinations when the run began
  others,    \* history: destinations created by another program during the run
  failures,  \* history: operations of the run that failed
  copied,    \* history: a file was published by copying
  owed       \* history: the content that must not be lost

history == <<before, others, copied, owed>>
publicationVars == <<kind, overwrite, files, run, pc, saved, result, failures, history>>

Names == {"output", "report"}
Mine == IF kind = "pair" THEN Names ELSE {"output"}

Option(S) == S \cup {Absent}

Dest(n) == <<"dest", n, 0>>
Stage(n) == <<"stage", n, IF kind = "pair" THEN run ELSE 0>>
Backup(n) == <<"backup", n, run>>
Paths == {"dest", "stage", "backup"} \X Names \X (0 .. MaxRuns)

Exists(p) == files[p] # Absent
New == [by |-> run, whole |-> TRUE]
Part == [by |-> run, whole |-> FALSE]

PublicationInit ==
  /\ kind \in {"single", "pair"} /\ overwrite \in BOOLEAN
  /\ \E there \in SUBSET Mine :
       files = [p \in Paths |-> IF p \in {Dest(n) : n \in there}
                                  THEN [by |-> 0, whole |-> TRUE] ELSE Absent]
  /\ run = 0 /\ pc = <<"idle", "output">> /\ saved = {} /\ result = Absent
  /\ before = [n \in Names |-> Absent] /\ others = {}
  /\ failures = 0 /\ copied = FALSE
  /\ owed = [n \in Names |-> files[Dest(n)]]

-----------------------------------------------------------------------------
(* One operation on the directory, and what comes after it *)

At(doing, n) == pc = <<doing, n>>
Go(doing, n) == pc' = <<doing, n>>

Put(p, c) == files' = [files EXCEPT ![p] = c]
Rename(p, q) == Exists(p) /\ files' = [files EXCEPT ![q] = files[p], ![p] = Absent]
Delete(p) == files' = [files EXCEPT ![p] = Absent]

\* An operation fails of itself, or because what it needs is not so.
Fail(possible) ==
  /\ possible => failures < MaxFailures
  /\ failures' = failures + 1
  /\ UNCHANGED files

Does(op) == op /\ UNCHANGED failures

\* An operation whose result the code ignores.
Tries(op) == Does(op) \/ Fail(TRUE)

Ends(r) == Go("idle", "output") /\ result' = r

Keep == UNCHANGED <<kind, overwrite, run, saved, history>>
FileStep == Keep /\ UNCHANGED result

-----------------------------------------------------------------------------
(* The preflight: a destination in place needs permission, and a single file's *)
(* sibling must not exist.                                                     *)

MayStart(permit) ==
  /\ permit \/ \A n \in Mine : ~Exists(Dest(n))
  /\ kind = "single" => ~Exists(Stage("output"))

Start ==
  /\ pc[1] = "idle" /\ run < MaxRuns
  /\ overwrite' \in BOOLEAN
  /\ MayStart(overwrite')
  /\ run' = run + 1 /\ result' = Absent
  /\ Go("create", "output")
  /\ saved' = {} /\ others' = {} /\ failures' = 0
  /\ before' = [n \in Names |-> files[Dest(n)]]
  /\ owed' = [n \in Names |-> IF Exists(Dest(n)) THEN files[Dest(n)] ELSE owed[n]]
  /\ UNCHANGED <<kind, files, copied>>

\* The staged files are created and written, the report of a pair last.
Create(n) ==
  /\ At("create", n)
  /\ \/ Does(Put(Stage(n), Part)) /\ Go("write", n)
     \/ Fail(TRUE) /\ Go("clean", "output")
  /\ FileStep

WriteFails == Go("clean", "output")

Written(n) ==
  IF n = "output" /\ kind = "pair" THEN Go("create", "report")
  ELSE IF kind = "single" THEN Go("check", "output")
  ELSE Go("commit", "output")

Write(n) ==
  /\ At("write", n)
  /\ \/ Does(Put(Stage(n), New)) /\ Written(n) /\ UNCHANGED result
     \/ Fail(TRUE) /\ WriteFails /\ UNCHANGED result
     \* render_joc_with_peak_normalization returns without abort
     \/ kind = "single" /\ Fail(TRUE) /\ Ends("error")
  /\ Keep

\* abort, or export_adm's removal of what it has staged
Clean(n) ==
  /\ At("clean", n)
  /\ Tries(Delete(Stage(n)))
  /\ IF n = "output" /\ kind = "pair"
       THEN Go("clean", "report") /\ UNCHANGED result ELSE Ends("error")
  /\ Keep

-----------------------------------------------------------------------------
(* StagedOutput::finish and replace_existing_file *)

Check ==
  /\ At("check", "output")
  /\ Go(IF overwrite THEN "replace" ELSE IF Exists(Dest("output")) THEN "clean" ELSE "move",
        "output")
  /\ FileStep /\ UNCHANGED <<files, failures>>

Move ==
  /\ At("move", "output")
  /\ \/ Does(Rename(Stage("output"), Dest("output"))) /\ Ends("ok")
     \/ Fail(TRUE) /\ Go("clean", "output") /\ UNCHANGED result
  /\ Keep

Replace ==
  /\ At("replace", "output")
  /\ \/ Does(Rename(Stage("output"), Dest("output"))) /\ Ends("ok")
     \/ /\ Fail(TRUE) /\ UNCHANGED result
        /\ Go(IF Exists(Dest("output")) THEN "aside" ELSE "clean", "output")
  /\ Keep

\* A backup that is there already refuses as a failed rename does.
SetAside ==
  /\ At("aside", "output")
  /\ \/ Does(Rename(Dest("output"), Backup("output"))) /\ Go("again", "output")
     \/ Fail(TRUE) /\ Go("clean", "output")
  /\ FileStep

ReplaceAgain ==
  /\ At("again", "output")
  /\ \/ Does(Rename(Stage("output"), Dest("output"))) /\ Go("forget", "output")
     \/ Fail(TRUE) /\ Go("return", "output")
  /\ FileStep

Forget ==
  /\ At("forget", "output")
  /\ Tries(Delete(Backup("output")))
  /\ Ends("ok") /\ Keep

PutBack ==
  /\ At("return", "output")
  /\ Tries(Rename(Backup("output"), Dest("output")))
  /\ Go("clean", "output") /\ FileStep

-----------------------------------------------------------------------------
(* commit_adm_pair without permission to replace *)

Commit ==
  /\ At("commit", "output")
  /\ IF overwrite
       THEN Go("backup", "output") /\ saved' = {n \in Names : Exists(Dest(n))}
       ELSE Go("link", "output") /\ UNCHANGED saved
  /\ UNCHANGED <<kind, overwrite, run, history, result, files, failures>>

PublishFails(n) == IF n = "output" THEN Go("clean", "output") ELSE Go("unpublish", "output")
Publishes(n) == IF n = "output" THEN Go("link", "report") ELSE Go("tidy", "output")

\* A hard link; where it is not supported, or fails, the file is copied.
Link(n) ==
  /\ At("link", n)
  /\ \/ ~Exists(Dest(n)) /\ Does(Put(Dest(n), files[Stage(n)])) /\ Publishes(n)
     \/ Exists(Dest(n)) /\ Fail(FALSE) /\ PublishFails(n)
     \/ Go("open", n) /\ UNCHANGED <<files, failures>>
  /\ FileStep

Opens(n) == TRUE  \* mutant: a file that is there is opened and truncated

OpensNew(n) == ~Exists(Dest(n))

OpenNew(n) ==
  /\ At("open", n)
  /\ \/ /\ OpensNew(n) /\ Does(Put(Dest(n), Part)) /\ Go("copy", n)
        /\ copied' = TRUE
     \/ Fail(OpensNew(n)) /\ PublishFails(n) /\ UNCHANGED copied
  /\ UNCHANGED <<kind, overwrite, run, saved, before, others, owed, result>>

Copy(n) ==
  /\ At("copy", n)
  /\ \/ Does(Put(Dest(n), files[Stage(n)])) /\ Publishes(n)
     \/ Fail(TRUE) /\ Go("uncopy", n)
  /\ FileStep

Uncopy(n) ==
  /\ At("uncopy", n)
  /\ Tries(Delete(Dest(n)))
  /\ PublishFails(n) /\ FileStep

\* The report could not be published: the output is taken away again.
Unpublish ==
  /\ At("unpublish", "output")
  /\ Tries(Delete(Dest("output")))
  /\ Go("clean", "output") /\ FileStep

Tidy(n) ==
  /\ At("tidy", n)
  /\ Tries(Delete(Stage(n)))
  /\ IF n = "output" THEN Go("tidy", "report") /\ UNCHANGED result ELSE Ends("ok")
  /\ Keep

-----------------------------------------------------------------------------
(* commit_adm_pair with permission to replace *)

BackUp(n) ==
  /\ At("backup", n)
  /\ IF n \in saved THEN Does(Rename(Dest(n), Backup(n))) ELSE UNCHANGED <<files, failures>>
  /\ IF n = "output" THEN Go("backup", "report") ELSE Go("put", "output")
  /\ FileStep

BackUpFails(n) ==
  /\ At("backup", n) /\ n \in saved
  /\ Fail(TRUE)
  /\ IF n = "report" /\ "output" \in saved THEN Go("unbackup", "output") ELSE Go("clean", "output")
  /\ FileStep

\* Only the output was moved when the report's backup failed.
UnBackUp ==
  /\ At("unbackup", "output")
  /\ Tries(Rename(Backup("output"), Dest("output")))
  /\ Go("clean", "output") /\ FileStep

DropsEarly(n) == Go("drop", n)  \* mutant: a backup goes when its own file is in place

AfterPut(n) == IF n = "output" THEN Go("put", "report") ELSE Go("drop", "output")

LeavesOutput(n) == Go("restore", "output")  \* mutant: the new output is not taken back

AfterPutFails(n) == IF n = "output" THEN Go("restore", "output") ELSE Go("takeback", "output")

PutNew(n) ==
  /\ At("put", n)
  /\ \/ Does(Rename(Stage(n), Dest(n))) /\ AfterPut(n)
     \/ Fail(TRUE) /\ AfterPutFails(n)
  /\ FileStep

TakeBack ==
  /\ At("takeback", "output")
  /\ Tries(Rename(Dest("output"), Stage("output")))
  /\ Go("restore", "output") /\ FileStep

\* restore_adm_backups
Restore(n) ==
  /\ At("restore", n)
  /\ IF n \in saved THEN Tries(Rename(Backup(n), Dest(n))) ELSE UNCHANGED <<files, failures>>
  /\ IF n = "output" THEN Go("restore", "report") ELSE Go("clean", "output")
  /\ FileStep

Drop(n) ==
  /\ At("drop", n)
  /\ IF n \in saved THEN Tries(Delete(Backup(n))) ELSE UNCHANGED <<files, failures>>
  /\ IF n = "output" THEN Go("drop", "report") /\ UNCHANGED result ELSE Ends("ok")
  /\ Keep

-----------------------------------------------------------------------------
(* The world around the run *)

Running == pc[1] # "idle"

Stop ==
  /\ Running
  /\ Ends("stopped")
  /\ Keep /\ UNCHANGED <<files, failures>>

\* Another program creates a destination that is absent.
Appear(n) ==
  /\ Running /\ n \in Mine /\ ~Exists(Dest(n))
  /\ Put(Dest(n), [by |-> Other, whole |-> TRUE])
  /\ others' = others \cup {n}
  /\ UNCHANGED <<kind, overwrite, run, pc, saved, result, before, failures, copied, owed>>

PublicationNext ==
  \/ Start
  \/ \E n \in Names : Create(n) \/ Write(n) \/ Clean(n)
  \/ Check \/ Move \/ Replace \/ SetAside \/ ReplaceAgain \/ Forget \/ PutBack
  \/ Commit
  \/ \E n \in Names : Link(n) \/ OpenNew(n) \/ Copy(n) \/ Uncopy(n) \/ Tidy(n)
  \/ Unpublish
  \/ \E n \in Names : BackUp(n) \/ BackUpFails(n) \/ PutNew(n) \/ Restore(n) \/ Drop(n)
  \/ UnBackUp \/ TakeBack
  \/ Stop
  \/ \E n \in Names : Appear(n)

PublicationSpec == PublicationInit /\ [][PublicationNext]_publicationVars

-----------------------------------------------------------------------------
(* Properties *)

SingleSteps == {"check", "move", "replace", "aside", "again", "forget", "return"}
NewSteps == {"link", "open", "copy", "uncopy", "unpublish", "tidy"}
ReplaceSteps == {"backup", "unbackup", "put", "takeback", "restore", "drop"}

\* Every variable keeps its type, and a run takes the steps of its kind: those that
\* may replace a destination only with permission (commit_adm_pair, finish).
PublicationTypeOK ==
  /\ kind \in {"single", "pair"} /\ overwrite \in BOOLEAN
  /\ files \in [Paths -> Option(Contents)]
  /\ run \in 0 .. MaxRuns /\ saved \subseteq Names
  /\ result \in Option({"ok", "error", "stopped"})
  /\ pc[1] \in {"idle", "create", "write", "clean", "commit"} \cup
               (IF kind = "single" THEN SingleSteps
                ELSE IF overwrite THEN ReplaceSteps ELSE NewSteps)
  /\ pc[2] \in Mine

Committed == \A n \in Mine : files[Dest(n)] = New

LateFilesKept ==
  ~overwrite => \A n \in others : files[Dest(n)] = [by |-> Other, whole |-> TRUE]

\* No file of the user's is lost, wherever the run stops and whatever fails, the
\* restoring included: until everything new is in place, what a destination held is
\* still in some file; a pair exported without permission to replace leaves a file
\* that appeared after the preflight alone (the comment in commit_adm_pair); a
\* destination never holds part of a file, but for one that is published by copying;
\* and a run that reports success has put all its files in place, whole.
NothingLost ==
  /\ \A n \in Mine :
       owed[n] # Absent => Committed \/ \E p \in Paths : files[p] = owed[n]
  /\ kind = "pair" => LateFilesKept
  /\ copied \/ \A n \in Mine : Exists(Dest(n)) => files[Dest(n)].whole
  /\ result = "ok" => Committed

\* A run that reports an error after one failed operation has left every destination
\* as it was, or as another program made it meanwhile, and has no backup left: a pair
\* is never half replaced.
FailureRestores ==
  result = "error" /\ failures <= 1 =>
    \A n \in Mine :
      /\ files[Dest(n)] = before[n] \/ (n \in others /\ files[Dest(n)].by = Other)
      /\ ~Exists(Backup(n))

\* An existing destination requires --overwrite, a file that appeared late too: what a
\* pair keeps, a single output should.
KeepsLateFiles == LateFilesKept
=============================================================================
