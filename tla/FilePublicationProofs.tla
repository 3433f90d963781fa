------------------------ MODULE FilePublicationProofs ------------------------
(***************************************************************************)
(* Proofs about FilePublication, for every number of runs and of failures. *)
(***************************************************************************)
EXTENDS FilePublication, TLAPS

(***************************************************************************)
(* The inductive invariant: where the user's files are at every operation. *)
(***************************************************************************)

D(n) == files[Dest(n)]
S(n) == files[Stage(n)]
B(n) == files[Backup(n)]

Late == [by |-> Other, whole |-> TRUE]

\* What the destination held when the run began, or what another program has put
\* where nothing was.
Same(n, c) == c = before[n] \/ (before[n] = Absent /\ n \in others /\ c = Late)

Free(n) == D(n) = Absent \/ (n \in others /\ D(n) = Late)

\* The destination is as it was, or as another program made it.
Untouched(n) == Same(n, D(n)) /\ B(n) = Absent

\* What the destination held is in the backup alone.
InBackup(n) == B(n) # Absent /\ Same(n, B(n))
Aside(n) == InBackup(n) /\ Free(n)

\* The same for a pair, whose output or report may have had nothing to put aside.
Shelved(n) == IF n \in saved THEN Aside(n) ELSE before[n] = Absent /\ Untouched(n)
OnShelf(n) == IF n \in saved THEN InBackup(n) ELSE before[n] = Absent /\ B(n) = Absent

Held(n) == before[n] # Absent => before[n] \in {D(n), B(n)}

Placed(n) == D(n) = New
Staged(n) == S(n) = New

AtMost1 == failures <= 1
AtLeast1 == failures >= 1

\* Between the operations of a single file.
SinglePhase ==
  /\ pc[1] \in {"check", "move", "replace"} => Untouched("output") /\ Staged("output")
  /\ pc[1] = "aside" => Untouched("output") /\ D("output") # Absent /\ Staged("output") /\ AtLeast1
  /\ pc[1] = "again" => Aside("output") /\ Staged("output") /\ AtLeast1
  /\ pc[1] = "return" => Aside("output") /\ failures >= 2
  /\ pc[1] = "forget" => Placed("output")

\* Between the operations of a pair that replaces nothing.
NewPhase ==
  /\ pc[1] \in {"link", "open"} =>
       /\ Staged("output") /\ Staged("report") /\ Untouched("report")
       /\ IF pc[2] = "output" THEN Untouched("output") ELSE Placed("output")
  /\ pc[1] \in {"copy", "uncopy"} =>
       /\ Staged("output") /\ Staged("report") /\ D(pc[2]) = Part /\ B(pc[2]) = Absent
       /\ IF pc[2] = "output" THEN Untouched("report") ELSE Placed("output")
       /\ pc[1] = "uncopy" => AtLeast1
  /\ pc[1] = "unpublish" =>
       Placed("output") /\ AtLeast1 /\ (AtMost1 => Untouched("report"))
  /\ pc[1] = "tidy" => Committed
  /\ \A n \in Mine : before[n] = Absent /\ B(n) = Absent

\* Between the operations of a pair that may replace.
ReplacePhase ==
  /\ pc[1] = "backup" =>
       /\ Staged("output") /\ Staged("report") /\ Untouched("report")
       /\ "report" \in saved => D("report") # Absent
       /\ "report" \notin saved => before["report"] = Absent
       /\ IF pc[2] = "output"
            THEN /\ Untouched("output") /\ ("output" \in saved => D("output") # Absent)
                 /\ "output" \notin saved => before["output"] = Absent
            ELSE Shelved("output")
  /\ pc[1] = "unbackup" => Aside("output") /\ Untouched("report") /\ AtLeast1
  /\ pc[1] = "put" =>
       /\ Staged("report") /\ Shelved("report") /\ OnShelf("output")
       /\ IF pc[2] = "output" THEN Staged("output") /\ Shelved("output") ELSE Placed("output")
  /\ pc[1] = "takeback" =>
       Placed("output") /\ OnShelf("output") /\ Shelved("report") /\ AtLeast1
  /\ pc[1] = "restore" =>
       /\ OnShelf("report") /\ AtLeast1 /\ (AtMost1 => Shelved("report"))
       /\ IF pc[2] = "output"
            THEN OnShelf("output") /\ (AtMost1 => Shelved("output"))
            ELSE Held("output") /\ (AtMost1 => Untouched("output"))
  /\ pc[1] = "drop" => Committed

Phase ==
  /\ pc[1] \in {"create", "write", "commit"} =>
       /\ \A n \in Mine : Untouched(n)
       /\ pc[2] = "report" \/ pc[1] = "commit" => Staged("output")
       /\ pc[1] = "commit" => Staged("report") /\ kind = "pair"
  /\ pc[1] = "clean" => \A n \in Mine : Held(n) /\ (AtMost1 => Untouched(n))
  /\ kind = "single" => SinglePhase
  /\ kind = "pair" /\ overwrite => ReplacePhase
  /\ kind = "pair" /\ ~overwrite => NewPhase

\* Content owed to the user is where the run began, or in the backup of an earlier run.
InOldBackup(n, r) == \E m \in 0 .. MaxRuns : m <= r /\ files[<<"backup", n, m>>] = owed[n]

OwedInv ==
  IF Running
    THEN \A n \in Mine : IF before[n] # Absent THEN owed[n] = before[n]
                         ELSE owed[n] = Absent \/ InOldBackup(n, run - 1)
    ELSE Committed \/ \A n \in Mine : owed[n] \in {Absent, D(n)} \/ InOldBackup(n, run)

ResultInv ==
  /\ Running => result = Absent
  /\ result = "ok" => Committed
  /\ result = "error" /\ AtMost1 => \A n \in Mine : Untouched(n)

\* Only a sibling holds part of a file, unless a file was copied.
WholeInv ==
  copied \/ \A n \in Mine : \A c \in {D(n), B(n)} : c = Absent \/ c.whole

FreshInv == \A n \in Names, m \in 0 .. MaxRuns : m > run => files[<<"backup", n, m>>] = Absent

TypeInv ==
  /\ PublicationTypeOK
  /\ before \in [Names -> Option(Contents)] /\ owed \in [Names -> Option(Contents)]
  /\ others \subseteq Mine /\ failures \in Nat /\ copied \in BOOLEAN
  /\ Running => run > 0

LateInv == kind = "pair" => LateFilesKept

IInv ==
  /\ TypeInv /\ (Running => Phase) /\ OwedInv /\ ResultInv /\ WholeInv /\ FreshInv /\ LateInv

-----------------------------------------------------------------------------
(***************************************************************************)
(* What an operation on the directory does to the files of this run.       *)
(***************************************************************************)

\* The files the run knows are where its names say, all different.
LEMMA PathFacts ==
  ASSUME TypeInv, NEW n \in Names
  PROVE  /\ Dest(n) \in Paths /\ Stage(n) \in Paths /\ Backup(n) \in Paths
         /\ \A m \in Names : /\ Dest(n) # Stage(m) /\ Dest(n) # Backup(m) /\ Stage(n) # Backup(m)
                             /\ m # n => /\ Dest(m) # Dest(n) /\ Stage(m) # Stage(n)
                                         /\ Backup(m) # Backup(n)
         /\ \A m \in Names, i \in 0 .. MaxRuns :
              /\ <<"backup", m, i>> \in Paths
              /\ Dest(n) # <<"backup", m, i>> /\ Stage(n) # <<"backup", m, i>>
              /\ i # run => Backup(n) # <<"backup", m, i>>
<1>1. run \in 0 .. MaxRuns /\ 0 \in 0 .. MaxRuns
  BY PublicationAssumption DEF TypeInv, PublicationTypeOK
<1>2. QED
  BY <1>1 DEF Dest, Stage, Backup, Paths

Frame(n) == D(n)' = D(n) /\ S(n)' = S(n) /\ B(n)' = B(n)

\* The backups of earlier and later runs are let alone.
OldKept ==
  \A n \in Names, i \in 0 .. MaxRuns :
    i # run => files'[<<"backup", n, i>>] = files[<<"backup", n, i>>]

Typed == files' \in [Paths -> Option(Contents)]

LEMMA PutEffect ==
  ASSUME TypeInv, UNCHANGED <<kind, run>>, NEW n \in Names,
         NEW c \in Option(Contents)
  PROVE  /\ Put(Stage(n), c) => /\ S(n)' = c /\ D(n)' = D(n) /\ B(n)' = B(n)
                                /\ \A m \in Names : m # n => Frame(m)
                                /\ OldKept /\ Typed
         /\ Put(Dest(n), c) => /\ D(n)' = c /\ S(n)' = S(n) /\ B(n)' = B(n)
                               /\ \A m \in Names : m # n => Frame(m)
                               /\ OldKept /\ Typed
         /\ Put(Backup(n), c) => /\ B(n)' = c /\ S(n)' = S(n) /\ D(n)' = D(n)
                                 /\ \A m \in Names : m # n => Frame(m)
                                 /\ OldKept /\ Typed
<1>1. files \in [Paths -> Option(Contents)]
  BY DEF TypeInv, PublicationTypeOK
<1>2. \A m \in Names : Dest(m)' = Dest(m) /\ Stage(m)' = Stage(m) /\ Backup(m)' = Backup(m)
  BY DEF Dest, Stage, Backup
<1>3. ASSUME NEW p \in Paths, Put(p, c)
      PROVE  /\ files'[p] = c /\ Typed
             /\ \A q \in Paths : q # p => files'[q] = files[q]
  BY <1>1, <1>3 DEF Put, Typed
<1>4. ASSUME Put(Stage(n), c)
      PROVE  /\ S(n)' = c /\ D(n)' = D(n) /\ B(n)' = B(n)
             /\ \A m \in Names : m # n => Frame(m)
             /\ OldKept /\ Typed
  BY <1>2, <1>3, <1>4, PathFacts DEF D, S, B, Frame, OldKept
<1>5. ASSUME Put(Dest(n), c)
      PROVE  /\ D(n)' = c /\ S(n)' = S(n) /\ B(n)' = B(n)
             /\ \A m \in Names : m # n => Frame(m)
             /\ OldKept /\ Typed
  BY <1>2, <1>3, <1>5, PathFacts DEF D, S, B, Frame, OldKept
<1>6. ASSUME Put(Backup(n), c)
      PROVE  /\ B(n)' = c /\ S(n)' = S(n) /\ D(n)' = D(n)
             /\ \A m \in Names : m # n => Frame(m)
             /\ OldKept /\ Typed
  BY <1>2, <1>3, <1>6, PathFacts DEF D, S, B, Frame, OldKept
<1>7. QED
  BY <1>4, <1>5, <1>6

LEMMA RenameEffect ==
  ASSUME TypeInv, UNCHANGED <<kind, run>>, NEW n \in Names
  PROVE  /\ Rename(Stage(n), Dest(n)) =>
              /\ S(n) # Absent /\ D(n)' = S(n) /\ S(n)' = Absent /\ B(n)' = B(n)
              /\ \A m \in Names : m # n => Frame(m)
              /\ OldKept /\ Typed
         /\ Rename(Dest(n), Stage(n)) =>
              /\ D(n) # Absent /\ S(n)' = D(n) /\ D(n)' = Absent /\ B(n)' = B(n)
              /\ \A m \in Names : m # n => Frame(m)
              /\ OldKept /\ Typed
         /\ Rename(Dest(n), Backup(n)) =>
              /\ D(n) # Absent /\ B(n)' = D(n) /\ D(n)' = Absent /\ S(n)' = S(n)
              /\ \A m \in Names : m # n => Frame(m)
              /\ OldKept /\ Typed
         /\ Rename(Backup(n), Dest(n)) =>
              /\ B(n) # Absent /\ D(n)' = B(n) /\ B(n)' = Absent /\ S(n)' = S(n)
              /\ \A m \in Names : m # n => Frame(m)
              /\ OldKept /\ Typed
<1>1. files \in [Paths -> Option(Contents)] /\ Absent \in Option(Contents)
  BY DEF TypeInv, PublicationTypeOK, Option
<1>2. \A m \in Names : Dest(m)' = Dest(m) /\ Stage(m)' = Stage(m) /\ Backup(m)' = Backup(m)
  BY DEF Dest, Stage, Backup
<1>3. ASSUME NEW p \in Paths, NEW q \in Paths, p # q, Rename(p, q)
      PROVE  /\ files[p] # Absent /\ files'[q] = files[p] /\ files'[p] = Absent /\ Typed
             /\ \A x \in Paths : x # p /\ x # q => files'[x] = files[x]
  BY <1>1, <1>3 DEF Rename, Exists, Typed
<1>4. ASSUME Rename(Stage(n), Dest(n))
      PROVE  /\ S(n) # Absent /\ D(n)' = S(n) /\ S(n)' = Absent /\ B(n)' = B(n)
             /\ \A m \in Names : m # n => Frame(m)
             /\ OldKept /\ Typed
  BY <1>2, <1>3, <1>4, PathFacts DEF D, S, B, Frame, OldKept
<1>5. ASSUME Rename(Dest(n), Stage(n))
      PROVE  /\ D(n) # Absent /\ S(n)' = D(n) /\ D(n)' = Absent /\ B(n)' = B(n)
             /\ \A m \in Names : m # n => Frame(m)
             /\ OldKept /\ Typed
  BY <1>2, <1>3, <1>5, PathFacts DEF D, S, B, Frame, OldKept
<1>6. ASSUME Rename(Dest(n), Backup(n))
      PROVE  /\ D(n) # Absent /\ B(n)' = D(n) /\ D(n)' = Absent /\ S(n)' = S(n)
             /\ \A m \in Names : m # n => Frame(m)
             /\ OldKept /\ Typed
  BY <1>2, <1>3, <1>6, PathFacts DEF D, S, B, Frame, OldKept
<1>7. ASSUME Rename(Backup(n), Dest(n))
      PROVE  /\ B(n) # Absent /\ D(n)' = B(n) /\ B(n)' = Absent /\ S(n)' = S(n)
             /\ \A m \in Names : m # n => Frame(m)
             /\ OldKept /\ Typed
  BY <1>2, <1>3, <1>7, PathFacts DEF D, S, B, Frame, OldKept
<1>8. QED
  BY <1>4, <1>5, <1>6, <1>7

\* Deleting is putting nothing; a failed operation leaves the directory as it was.
LEMMA SameEffect ==
  ASSUME TypeInv, UNCHANGED <<kind, run, files>>
  PROVE  (\A m \in Names : Frame(m)) /\ OldKept /\ Typed
<1>1. \A m \in Names : Dest(m)' = Dest(m) /\ Stage(m)' = Stage(m) /\ Backup(m)' = Backup(m)
  BY DEF Dest, Stage, Backup
<1>2. QED
  BY <1>1 DEF Frame, D, S, B, OldKept, Typed, TypeInv, PublicationTypeOK

\* What nothing but an operation on a file's destination or backup disturbs.
LEMMA FrameKeeps ==
  ASSUME UNCHANGED <<run, before, others, saved>>, NEW n, D(n)' = D(n), B(n)' = B(n)
  PROVE  /\ Untouched(n)' <=> Untouched(n)
         /\ Aside(n)' <=> Aside(n)
         /\ InBackup(n)' <=> InBackup(n)
         /\ Shelved(n)' <=> Shelved(n)
         /\ OnShelf(n)' <=> OnShelf(n)
         /\ Held(n)' <=> Held(n)
         /\ Placed(n)' <=> Placed(n)
BY DEF Untouched, Same, Aside, InBackup, Free, Shelved, OnShelf, Held, Placed, New

\* Part of no file is published but by copying.
LEMMA WholeStep ==
  ASSUME IInv, UNCHANGED kind, copied => copied',
         \A n \in Mine : {D(n)', B(n)'} \subseteq {Absent, New, Late, D(n), B(n)}
  PROVE  WholeInv'
<1>1. Mine' = Mine
  BY DEF Mine
<1>2. New.whole /\ Late.whole
  BY DEF New, Late
<1>3. QED
  BY <1>1, <1>2 DEF IInv, WholeInv

-----------------------------------------------------------------------------
(***************************************************************************)
(* A step within a run, and a step that ends it.                           *)
(***************************************************************************)

Allowed(a) ==
  \/ a \in {"create", "write", "clean", "commit"}
  \/ kind = "single" /\ a \in SingleSteps
  \/ kind = "pair" /\ overwrite /\ a \in ReplaceSteps
  \/ kind = "pair" /\ ~overwrite /\ a \in NewSteps

\* The files of other programs are let alone where nothing may be replaced.
LateKept == kind = "pair" /\ ~overwrite => \A m \in others : D(m)' = D(m)

LEMMA Remains ==
  ASSUME IInv, UNCHANGED <<kind, overwrite, run, before, others, owed>>, OldKept,
         Typed, saved' \subseteq Names, failures' \in Nat, copied' \in BOOLEAN, LateKept
  PROVE  /\ FreshInv' /\ LateInv' /\ Mine' = Mine
         /\ \A n \in Mine : InOldBackup(n, run - 1)' <=> InOldBackup(n, run - 1)
         /\ files' \in [Paths -> Option(Contents)] /\ run' \in 0 .. MaxRuns
         /\ kind' \in {"single", "pair"} /\ overwrite' \in BOOLEAN
         /\ before' \in [Names -> Option(Contents)] /\ owed' \in [Names -> Option(Contents)]
         /\ others' \subseteq Mine
         /\ run \in 0 .. MaxRuns
<1>1. /\ run \in 0 .. MaxRuns /\ kind \in {"single", "pair"} /\ overwrite \in BOOLEAN
      /\ before \in [Names -> Option(Contents)] /\ owed \in [Names -> Option(Contents)]
      /\ others \subseteq Mine
  BY DEF IInv, TypeInv, PublicationTypeOK
<1>2. FreshInv'
  <2> SUFFICES ASSUME NEW n \in Names, NEW m \in 0 .. MaxRuns, m > run
               PROVE  files'[<<"backup", n, m>>] = Absent
    BY DEF FreshInv
  <2>1. m # run /\ files[<<"backup", n, m>>] = Absent
    BY <1>1 DEF IInv, FreshInv
  <2>2. QED
    BY <2>1 DEF OldKept
<1>3. Mine' = Mine /\ Mine \subseteq Names
  BY DEF Mine, Names
<1>4. LateInv'
  BY DEF IInv, LateInv, LateKept, LateFilesKept, D, Dest
<1>5. ASSUME NEW n \in Mine
      PROVE  InOldBackup(n, run - 1)' <=> InOldBackup(n, run - 1)
  <2>1. \A m \in 0 .. MaxRuns : m <= run - 1 =>
          files'[<<"backup", n, m>>] = files[<<"backup", n, m>>]
    BY <1>1, <1>3 DEF OldKept
  <2>2. QED
    BY <2>1 DEF InOldBackup
<1>6. QED
  BY <1>1, <1>2, <1>3, <1>4, <1>5 DEF Typed

LEMMA Goes ==
  ASSUME IInv, Running, NEW a, NEW n \in Mine, Go(a, n), Allowed(a),
         UNCHANGED <<kind, overwrite, run, before, others, owed, result>>, OldKept,
         Typed, saved' \subseteq Names, failures' \in Nat, copied' \in BOOLEAN, LateKept,
         WholeInv', Phase'
  PROVE  IInv'
<1>1. pc'[1] = a /\ pc'[2] = n /\ Running'
  BY DEF Go, Allowed, SingleSteps, ReplaceSteps, NewSteps, Running
<1>2. result' = Absent
  BY DEF IInv, ResultInv
<1>3. ResultInv'
  BY <1>1, <1>2, PublicationAssumption DEF ResultInv
<1>4. OwedInv'
  <2>1. \A m \in Mine : IF before[m] # Absent THEN owed[m] = before[m]
                        ELSE owed[m] = Absent \/ InOldBackup(m, run - 1)
    BY DEF IInv, OwedInv
  <2>2. \A m \in Mine : InOldBackup(m, run - 1)' <=> InOldBackup(m, run - 1)
    BY Remains
  <2>3. Mine' = Mine
    BY DEF Mine
  <2>4. QED
    BY <1>1, <2>1, <2>2, <2>3 DEF OwedInv
<1>5. PublicationTypeOK'
  BY <1>1, <1>2, Remains DEF PublicationTypeOK, Allowed, Option
<1>6. TypeInv'
  BY <1>1, <1>5, Remains DEF TypeInv, IInv
<1>7. QED
  BY <1>3, <1>4, <1>6, Remains DEF IInv

LEMMA Ending ==
  ASSUME IInv, Running, NEW r \in {"ok", "error", "stopped"}, Ends(r),
         UNCHANGED <<kind, overwrite, run, before, others, owed>>, OldKept,
         Typed, saved' \subseteq Names, failures' \in Nat, copied' \in BOOLEAN, LateKept,
         WholeInv',
         Committed' \/ \A n \in Mine : Held(n)',
         r = "ok" => Committed',
         r = "error" /\ AtMost1' => \A n \in Mine : Untouched(n)'
  PROVE  IInv'
<1>1. pc'[1] = "idle" /\ pc'[2] = "output" /\ ~Running' /\ result' = r
  BY DEF Ends, Go, Running
<1>2. Mine' = Mine /\ "output" \in Mine
  BY DEF Mine, Names
<1>3. ResultInv'
  BY <1>1, <1>2 DEF ResultInv
<1>4. OwedInv'
  <2>1. CASE Committed'
    BY <1>1, <2>1 DEF OwedInv
  <2>2. ASSUME NEW n \in Mine, Held(n)'
        PROVE  (owed[n] \in {Absent, D(n)} \/ InOldBackup(n, run))'
    <3>1. IF before[n] # Absent THEN owed[n] = before[n]
          ELSE owed[n] = Absent \/ InOldBackup(n, run - 1)
      BY DEF IInv, OwedInv
    <3>2. run \in 0 .. MaxRuns /\ (InOldBackup(n, run - 1)' <=> InOldBackup(n, run - 1))
      BY Remains
    <3>3. CASE before[n] # Absent /\ before[n] = D(n)'
      BY <3>1, <3>3
    <3>4. CASE before[n] # Absent /\ before[n] = B(n)'
      <4>1. files'[<<"backup", n, run>>] = owed[n]
        BY <3>1, <3>4 DEF B, Backup
      <4>2. QED
        BY <3>2, <4>1 DEF InOldBackup
    <3>5. CASE before[n] = Absent
      <4>1. InOldBackup(n, run - 1) => InOldBackup(n, run)'
        <5>1. ASSUME NEW m \in 0 .. MaxRuns, m <= run - 1,
                     files[<<"backup", n, m>>] = owed[n]
              PROVE  m <= run /\ files'[<<"backup", n, m>>] = owed[n]
          BY <1>2, <3>2, <5>1 DEF OldKept, Mine, Names
        <5>2. QED
          BY <5>1 DEF InOldBackup
      <4>2. QED
        BY <3>1, <3>5, <4>1
    <3>6. QED
      BY <2>2, <3>3, <3>4, <3>5 DEF Held
  <2>3. QED
    BY <1>1, <1>2, <2>1, <2>2 DEF OwedInv
<1>5. PublicationTypeOK'
  BY <1>1, <1>2, Remains DEF PublicationTypeOK, Option
<1>6. TypeInv'
  BY <1>1, <1>5, Remains DEF TypeInv, IInv
<1>7. QED
  BY <1>1, <1>3, <1>4, <1>6, Remains DEF IInv

\* A file that is where it was when the run began, or in its backup, is held.
LEMMA HeldFacts ==
  ASSUME TypeInv, NEW n \in Mine
  PROVE  /\ Untouched(n) => Held(n)
         /\ InBackup(n) => Held(n)
         /\ Shelved(n) => OnShelf(n)
         /\ OnShelf(n) => Held(n)
         /\ before[n] = Absent => Held(n)
         /\ Untouched(n) /\ D(n) = Absent => before[n] = Absent
         /\ "output" \in Mine /\ Mine \subseteq Names
         /\ kind = "single" => Mine = {"output"}
         /\ kind = "pair" => Mine = {"output", "report"}
<1>1. /\ "output" \in Mine /\ Mine \subseteq Names
      /\ kind = "single" => Mine = {"output"}
      /\ kind = "pair" => Mine = {"output", "report"}
  BY DEF Mine, Names
<1>2. Absent # Late
  <2>1. Late \in Contents
    BY DEF Late, Contents
  <2>2. QED
    BY <2>1, PublicationAssumption
<1>3. Untouched(n) \/ InBackup(n) \/ before[n] = Absent => Held(n)
  BY DEF Untouched, InBackup, Same, Held
<1>4. (Shelved(n) => OnShelf(n)) /\ (OnShelf(n) => Held(n))
  BY <1>3 DEF Shelved, OnShelf, Aside, Untouched
<1>5. Untouched(n) /\ D(n) = Absent => before[n] = Absent
  BY <1>2 DEF Untouched, Same
<1>6. QED
  BY <1>1, <1>3, <1>4, <1>5

LEMMA HeldPhase ==
  ASSUME IInv, Running
  PROVE  Committed \/ \A n \in Mine : Held(n)
<1> SUFFICES ASSUME ~Committed, NEW n \in Mine PROVE Held(n)
  OBVIOUS
<1>1. TypeInv /\ Phase /\ PublicationTypeOK
  BY DEF IInv, TypeInv
<1>2. n = "output" \/ n = "report"
  BY <1>1, HeldFacts DEF Names
<1>3. CASE kind = "single"
  <2>1. n = "output" /\ Mine = {"output"}
    BY <1>1, <1>3, HeldFacts
  <2>2. pc[1] # "forget"
    BY <1>1, <1>3, <2>1 DEF Phase, SinglePhase, Placed, Committed, D
  <2>3. pc[1] \in {"create", "write", "commit", "clean"} \cup SingleSteps
    BY <1>1, <1>3 DEF PublicationTypeOK, Running
  <2>4. QED
    BY <1>1, <1>3, <2>1, <2>2, <2>3, HeldFacts DEF Phase, SinglePhase, SingleSteps, Aside
<1>4. CASE kind = "pair" /\ overwrite
  <2>1. pc[1] \in {"create", "write", "commit", "clean"} \cup ReplaceSteps
    BY <1>1, <1>4 DEF PublicationTypeOK, Running
  <2>2. "output" \in Mine /\ "report" \in Mine /\ pc[2] \in {"output", "report"}
    BY <1>1, <1>4, HeldFacts DEF PublicationTypeOK
  <2>3. QED
    BY <1>1, <1>2, <1>4, <2>1, <2>2, HeldFacts DEF Phase, ReplacePhase, ReplaceSteps, Aside
<1>5. CASE kind = "pair" /\ ~overwrite
  BY <1>1, <1>5, HeldFacts DEF Phase, NewPhase
<1>6. QED
  BY <1>1, <1>3, <1>4, <1>5 DEF PublicationTypeOK

\* An operation that fails disturbs nothing.
LEMMA FailEffect ==
  ASSUME IInv, UNCHANGED <<kind, overwrite, run, before, others, copied>>, NEW b, Fail(b)
  PROVE  /\ failures' = failures + 1 /\ failures' \in Nat /\ OldKept /\ Typed /\ LateKept
         /\ WholeInv'
         /\ \A m \in Mine : D(m)' = D(m) /\ B(m)' = B(m) /\ S(m)' = S(m)
<1>1. failures' = failures + 1 /\ failures' \in Nat /\ UNCHANGED files
  BY DEF Fail, IInv, TypeInv
<1>2. Mine \subseteq Names /\ others \subseteq Mine
  BY DEF Mine, Names, IInv, TypeInv
<1>3. OldKept /\ Typed /\ \A m \in Mine : D(m)' = D(m) /\ B(m)' = B(m) /\ S(m)' = S(m)
  BY <1>1, <1>2, SameEffect DEF Frame, IInv
<1>4. WholeInv'
  BY <1>3, WholeStep
<1>5. QED
  BY <1>1, <1>2, <1>3, <1>4 DEF LateKept

\* Nor does deleting a sibling, whether it succeeds or not.
LEMMA DeleteStageEffect ==
  ASSUME IInv, UNCHANGED <<kind, overwrite, run, before, others, copied>>, NEW n \in Names,
         Tries(Delete(Stage(n)))
  PROVE  /\ failures' \in {failures, failures + 1} /\ failures' \in Nat
         /\ OldKept /\ Typed /\ LateKept /\ WholeInv'
         /\ \A m \in Mine : D(m)' = D(m) /\ B(m)' = B(m)
<1>1. CASE Fail(TRUE)
  BY <1>1, FailEffect
<1>2. CASE Does(Delete(Stage(n)))
  <2>1. Put(Stage(n), Absent) /\ failures' = failures
    BY <1>2 DEF Does, Delete, Put
  <2>2. TypeInv /\ failures \in Nat /\ Mine \subseteq Names /\ others \subseteq Mine
    BY DEF IInv, TypeInv, Mine, Names
  <2>3. /\ D(n)' = D(n) /\ B(n)' = B(n) /\ OldKept /\ Typed
        /\ \A m \in Names : m # n => D(m)' = D(m) /\ B(m)' = B(m)
    BY <2>1, <2>2, PutEffect DEF Frame, Option
  <2>4. \A m \in Mine : D(m)' = D(m) /\ B(m)' = B(m)
    BY <2>2, <2>3
  <2>5. WholeInv' /\ LateKept
    BY <2>2, <2>4, WholeStep DEF LateKept
  <2>6. QED
    BY <2>1, <2>2, <2>3, <2>4, <2>5
<1>3. QED
  BY <1>1, <1>2 DEF Tries

LEMMA ContentFacts ==
  ASSUME TypeInv
  PROVE  /\ New \in Contents /\ Part \in Contents /\ Late \in Contents
         /\ Absent \notin {New, Part, Late} /\ Late \notin {New, Part} /\ New # Part
<1>1. /\ New \in Contents /\ Part \in Contents /\ Late \in Contents
  BY DEF TypeInv, PublicationTypeOK, New, Part, Late, Contents
<1>2. run \in Nat /\ Other \notin Nat
  BY PublicationAssumption DEF TypeInv, PublicationTypeOK
<1>3. Late \notin {New, Part} /\ New # Part
  BY <1>2 DEF New, Part, Late
<1>4. QED
  BY <1>1, <1>3, PublicationAssumption

-----------------------------------------------------------------------------
(***************************************************************************)
(* One lemma for each operation of a run.                                  *)
(***************************************************************************)

LEMMA CreateStep ==
  ASSUME IInv, NEW n \in Names, Create(n)
  PROVE  IInv'
<1>1. /\ TypeInv /\ Running /\ Phase /\ pc = <<"create", n>> /\ n \in Mine
      /\ UNCHANGED <<kind, overwrite, run, saved, before, others, copied, owed, result>>
      /\ \A m \in Mine : Untouched(m)
      /\ n = "report" => Staged("output")
      /\ saved \subseteq Names /\ copied \in BOOLEAN /\ failures \in Nat
  BY DEF Create, At, FileStep, Keep, history, Running, IInv, Phase, TypeInv, PublicationTypeOK
<1>2. Part \in Option(Contents)
  BY <1>1 DEF TypeInv, PublicationTypeOK, Part, Option, Contents
<1>3. CASE Does(Put(Stage(n), Part)) /\ Go("write", n)
  <2>1. /\ failures' = failures /\ D(n)' = D(n) /\ B(n)' = B(n)
        /\ \A m \in Names : m # n => Frame(m)
        /\ OldKept /\ Typed
    BY <1>1, <1>2, <1>3, PutEffect DEF Does
  <2>2. \A m \in Mine : D(m)' = D(m) /\ B(m)' = B(m)
    BY <1>1, <2>1, HeldFacts DEF Frame
  <2>3. \A m \in Mine : Untouched(m)'
    BY <1>1, <2>2, FrameKeeps
  <2>4. n = "report" => Staged("output")'
    BY <1>1, <2>1 DEF Frame, Staged, Names, New
  <2>5. LateKept
    BY <1>1, <2>2 DEF LateKept, TypeInv
  <2>6. WholeInv'
    BY <1>1, <2>2, WholeStep
  <2>7. Phase'
    BY <1>1, <1>3, <2>2, <2>3, <2>4, HeldFacts
       DEF Phase, Go, SinglePhase, ReplacePhase, NewPhase, Mine
  <2>8. QED
    BY <1>1, <1>3, <2>1, <2>5, <2>6, <2>7, Goes DEF Allowed
<1>4. CASE Fail(TRUE) /\ Go("clean", "output")
  <2>1. /\ failures' = failures + 1 /\ failures' \in Nat /\ OldKept /\ Typed /\ LateKept /\ WholeInv'
        /\ \A m \in Mine : D(m)' = D(m) /\ B(m)' = B(m) /\ S(m)' = S(m)
    BY <1>1, <1>4, FailEffect
  <2>2. \A m \in Mine : Untouched(m)' /\ Held(m)'
    BY <1>1, <2>1, FrameKeeps, HeldFacts
  <2>3. Phase'
    BY <1>1, <1>4, <2>1, <2>2, HeldFacts DEF Phase, Go, SinglePhase, ReplacePhase, NewPhase, Mine
  <2>4. QED
    BY <1>1, <1>4, <2>1, <2>3, HeldFacts, Goes DEF Allowed
<1>5. QED
  BY <1>1, <1>3, <1>4 DEF Create

LEMMA WriteStep ==
  ASSUME IInv, NEW n \in Names, Write(n)
  PROVE  IInv'
<1>1. /\ TypeInv /\ Running /\ Phase /\ pc = <<"write", n>> /\ n \in Mine
      /\ UNCHANGED <<kind, overwrite, run, saved, before, others, copied, owed>>
      /\ \A m \in Mine : Untouched(m)
      /\ n = "report" => Staged("output")
      /\ saved \subseteq Names /\ copied \in BOOLEAN /\ failures \in Nat
  BY DEF Write, At, Keep, history, Running, IInv, Phase, TypeInv, PublicationTypeOK
<1>2. CASE Does(Put(Stage(n), New)) /\ Written(n) /\ UNCHANGED result
  <2>1. /\ failures' = failures /\ D(n)' = D(n) /\ B(n)' = B(n) /\ S(n)' = New
        /\ \A m \in Names : m # n => Frame(m)
        /\ OldKept /\ Typed
    BY <1>1, <1>2, ContentFacts, PutEffect DEF Does, Option
  <2>2. \A m \in Mine : D(m)' = D(m) /\ B(m)' = B(m)
    BY <1>1, <2>1, HeldFacts DEF Frame
  <2>3. \A m \in Mine : Untouched(m)'
    BY <1>1, <2>2, FrameKeeps
  <2>4. Staged(n)' /\ Staged("output")'
    BY <1>1, <2>1 DEF Frame, Staged, Names, New
  <2>5. LateKept /\ WholeInv'
    BY <1>1, <2>2, WholeStep DEF LateKept, TypeInv
  <2>6. CASE n = "output" /\ kind = "pair"
    <3>1. Go("create", "report") /\ "report" \in Mine
      BY <1>1, <1>2, <2>6, HeldFacts DEF Written
    <3>2. Phase'
      BY <1>1, <2>2, <2>3, <2>4, <2>6, <3>1, HeldFacts DEF Phase, Go, ReplacePhase, NewPhase, Mine
    <3>3. QED
      BY <1>1, <1>2, <2>1, <2>5, <3>1, <3>2, Goes DEF Allowed
  <2>7. CASE kind = "single"
    <3>1. Go("check", "output") /\ "output" \in Mine
      BY <1>1, <1>2, <2>7, HeldFacts DEF Written
    <3>2. Phase'
      BY <1>1, <2>2, <2>3, <2>4, <2>7, <3>1, HeldFacts DEF Phase, Go, SinglePhase, Mine
    <3>3. QED
      BY <1>1, <1>2, <2>1, <2>5, <2>7, <3>1, <3>2, Goes DEF Allowed, SingleSteps
  <2>8. CASE n = "report" /\ kind = "pair"
    <3>1. Go("commit", "output") /\ "output" \in Mine
      BY <1>1, <1>2, <2>8, HeldFacts DEF Written
    <3>2. Phase'
      BY <1>1, <2>2, <2>3, <2>4, <2>8, <3>1, HeldFacts DEF Phase, Go, ReplacePhase, NewPhase, Mine
    <3>3. QED
      BY <1>1, <1>2, <2>1, <2>5, <3>1, <3>2, Goes DEF Allowed
  <2>9. QED
    BY <1>1, <2>6, <2>7, <2>8 DEF TypeInv, PublicationTypeOK, Names
<1>3. CASE Fail(TRUE)
  <2>1. /\ failures' = failures + 1 /\ failures' \in Nat /\ OldKept /\ Typed /\ LateKept /\ WholeInv'
        /\ \A m \in Mine : D(m)' = D(m) /\ B(m)' = B(m)
    BY <1>1, <1>3, FailEffect
  <2>2. (\A m \in Mine : Untouched(m)' /\ Held(m)') /\ "output" \in Mine
    BY <1>1, <2>1, FrameKeeps, HeldFacts
  <2>3. CASE Go("clean", "output") /\ UNCHANGED result
    <3>1. Phase'
      BY <1>1, <2>1, <2>2, <2>3, HeldFacts DEF Phase, Go, SinglePhase, ReplacePhase, NewPhase, Mine
    <3>2. QED
      BY <1>1, <2>1, <2>2, <2>3, <3>1, Goes DEF Allowed
  <2>4. CASE Ends("error")
    <3>1. \A m \in Mine : Held(m)'
      BY <2>2
    <3>2. QED
      BY <1>1, <2>1, <2>2, <2>4, <3>1, Ending
  <2>5. CASE Does(Put(Stage(n), New)) /\ Written(n) /\ UNCHANGED result
    BY <1>2, <2>5
  <2>6. QED
    BY <2>3, <2>4, <2>5 DEF Write, WriteFails
<1>4. QED
  BY <1>2, <1>3 DEF Write

LEMMA CleanStep ==
  ASSUME IInv, NEW n \in Names, Clean(n)
  PROVE  IInv'
<1>1. /\ TypeInv /\ Running /\ Phase /\ pc = <<"clean", n>> /\ n \in Mine
      /\ UNCHANGED <<kind, overwrite, run, saved, before, others, copied, owed>>
      /\ \A m \in Mine : Held(m) /\ (AtMost1 => Untouched(m))
      /\ saved \subseteq Names /\ copied \in BOOLEAN /\ failures \in Nat
  BY DEF Clean, At, Keep, history, Running, IInv, Phase, TypeInv, PublicationTypeOK
<1>2. /\ failures' \in {failures, failures + 1} /\ failures' \in Nat
      /\ OldKept /\ Typed /\ LateKept /\ WholeInv'
      /\ \A m \in Mine : D(m)' = D(m) /\ B(m)' = B(m)
  BY <1>1, DeleteStageEffect DEF Clean
<1>3. AtMost1' => AtMost1
  BY <1>1, <1>2 DEF AtMost1
<1>4. \A m \in Mine : Held(m)' /\ (AtMost1' => Untouched(m)')
  BY <1>1, <1>2, <1>3, FrameKeeps
<1>5. CASE n = "output" /\ kind = "pair"
  <2>1. Go("clean", "report") /\ UNCHANGED result /\ "report" \in Mine
    BY <1>1, <1>5, HeldFacts DEF Clean
  <2>2. Phase'
    BY <1>1, <1>2, <1>4, <1>5, <2>1, HeldFacts DEF Phase, Go, ReplacePhase, NewPhase, Mine
  <2>3. QED
    BY <1>1, <1>2, <2>1, <2>2, Goes DEF Allowed
<1>6. CASE ~(n = "output" /\ kind = "pair")
  <2>1. Ends("error")
    BY <1>6 DEF Clean
  <2>2. \A m \in Mine : Held(m)'
    BY <1>4
  <2>3. AtMost1' => \A m \in Mine : Untouched(m)'
    BY <1>4
  <2>4. QED
    BY <1>1, <1>2, <2>1, <2>2, <2>3, Ending
<1>7. QED
  BY <1>5, <1>6

\* Where a step goes that has not touched the directory.
LEMMA CheckStep ==
  ASSUME IInv, Check
  PROVE  IInv'
<1>1. /\ TypeInv /\ Running /\ Phase /\ pc = <<"check", "output">>
      /\ UNCHANGED <<kind, overwrite, run, saved, before, others, copied, owed, result>>
      /\ UNCHANGED <<files, failures>>
      /\ saved \subseteq Names /\ copied \in BOOLEAN /\ failures \in Nat
  BY DEF Check, At, FileStep, Keep, history, Running, IInv, TypeInv, PublicationTypeOK
<1>2. kind = "single" /\ Mine = {"output"} /\ Mine' = {"output"}
  BY <1>1 DEF TypeInv, PublicationTypeOK, ReplaceSteps, NewSteps, Mine
<1>3. Untouched("output") /\ Staged("output") /\ Held("output")
  BY <1>1, <1>2, HeldFacts DEF Phase, SinglePhase
<1>4. /\ OldKept /\ Typed /\ D("output")' = D("output") /\ B("output")' = B("output")
      /\ S("output")' = S("output")
  BY <1>1, SameEffect DEF Frame, Names
<1>5. Untouched("output")' /\ Staged("output")' /\ Held("output")'
  BY <1>1, <1>3, <1>4, FrameKeeps DEF Staged, New
<1>6. LateKept /\ WholeInv'
  BY <1>1, <1>2, <1>4, WholeStep DEF LateKept
<1>7. Phase'
  BY <1>1, <1>2, <1>5 DEF Check, Go, Phase, SinglePhase
<1>8. PICK a \in {"replace", "clean", "move"} : Go(a, "output")
  BY DEF Check
<1>9. QED
  BY <1>1, <1>2, <1>4, <1>6, <1>7, <1>8, Goes DEF Allowed, SingleSteps

\* The sibling of a single file takes its name.
LEMMA MoveStep ==
  ASSUME IInv, Move \/ Replace
  PROVE  IInv'
<1>1. /\ TypeInv /\ Running /\ Phase /\ pc[1] \in {"move", "replace"}
      /\ UNCHANGED <<kind, overwrite, run, saved, before, others, copied, owed>>
      /\ saved \subseteq Names /\ copied \in BOOLEAN /\ failures \in Nat
  <2>1. Keep
    BY DEF Move, Replace
  <2>2. pc = <<"move", "output">> \/ pc = <<"replace", "output">>
    BY DEF Move, Replace, At
  <2>3. pc[1] \in {"move", "replace"}
    BY <2>2
  <2>4. QED
    BY <2>1, <2>3 DEF Keep, history, Running, IInv, TypeInv, PublicationTypeOK
<1>2. kind = "single" /\ Mine = {"output"} /\ Mine' = {"output"} /\ "output" \in Names
  BY <1>1 DEF TypeInv, PublicationTypeOK, ReplaceSteps, NewSteps, Mine, Names
<1>3. Untouched("output") /\ Staged("output") /\ Held("output")
  BY <1>1, <1>2, HeldFacts DEF Phase, SinglePhase
<1>4. CASE Does(Rename(Stage("output"), Dest("output"))) /\ Ends("ok")
  <2>1. /\ failures' = failures /\ D("output")' = New /\ B("output")' = B("output")
        /\ OldKept /\ Typed
    BY <1>1, <1>2, <1>3, <1>4, RenameEffect DEF Does, Staged
  <2>2. Committed'
    BY <1>1, <1>2, <2>1 DEF Committed, D, New
  <2>3. LateKept /\ WholeInv'
    BY <1>1, <1>2, <2>1, WholeStep DEF LateKept
  <2>4. QED
    BY <1>1, <1>4, <2>1, <2>2, <2>3, Ending
<1>5. CASE Fail(TRUE) /\ UNCHANGED result
  <2>1. /\ failures' = failures + 1 /\ failures' \in Nat /\ OldKept /\ Typed /\ LateKept /\ WholeInv'
        /\ D("output")' = D("output") /\ B("output")' = B("output")
        /\ S("output")' = S("output")
    BY <1>1, <1>2, <1>5, FailEffect
  <2>2. Untouched("output")' /\ Staged("output")' /\ Held("output")' /\ AtLeast1'
    BY <1>1, <1>3, <2>1, FrameKeeps DEF Staged, New, AtLeast1
  <2>3. Exists(Dest("output")) => D("output")' # Absent
    BY <2>1 DEF Exists, D
  <2>4. CASE Go("clean", "output")
    <3>1. Phase'
      BY <1>1, <1>2, <2>2, <2>4 DEF Go, Phase, SinglePhase
    <3>2. QED
      BY <1>1, <1>2, <1>5, <2>1, <2>4, <3>1, Goes DEF Allowed
  <2>5. CASE Go("aside", "output") /\ Exists(Dest("output"))
    <3>1. Phase'
      BY <1>1, <1>2, <2>2, <2>3, <2>5 DEF Go, Phase, SinglePhase
    <3>2. QED
      BY <1>1, <1>2, <1>5, <2>1, <2>5, <3>1, Goes DEF Allowed, SingleSteps
  <2>6. CASE Ends("ok")
    BY <1>4, <2>6 DEF Move, Replace, Ends, Go
  <2>7. QED
    BY <1>4, <2>4, <2>5 DEF Move, Replace
<1>6. QED
  BY <1>4, <1>5 DEF Move, Replace

LEMMA SetAsideStep ==
  ASSUME IInv, SetAside
  PROVE  IInv'
<1>1. /\ TypeInv /\ Running /\ Phase /\ pc = <<"aside", "output">>
      /\ UNCHANGED <<kind, overwrite, run, saved, before, others, copied, owed, result>>
      /\ saved \subseteq Names /\ copied \in BOOLEAN /\ failures \in Nat
  BY DEF SetAside, At, FileStep, Keep, history, Running, IInv, TypeInv, PublicationTypeOK
<1>2. kind = "single" /\ Mine = {"output"} /\ Mine' = {"output"} /\ "output" \in Names
  BY <1>1 DEF TypeInv, PublicationTypeOK, ReplaceSteps, NewSteps, Mine, Names
<1>3. /\ Untouched("output") /\ Staged("output") /\ Held("output") /\ AtLeast1
      /\ D("output") # Absent
  BY <1>1, <1>2, HeldFacts DEF Phase, SinglePhase
<1>4. CASE Does(Rename(Dest("output"), Backup("output"))) /\ Go("again", "output")
  <2>1. /\ failures' = failures /\ D("output")' = Absent /\ B("output")' = D("output")
        /\ S("output")' = S("output") /\ OldKept /\ Typed
    BY <1>1, <1>2, <1>4, RenameEffect DEF Does
  <2>2. Aside("output")' /\ Staged("output")' /\ AtLeast1'
    BY <1>1, <1>3, <2>1 DEF Aside, InBackup, Free, Untouched, Same, Staged, New, AtLeast1, Late
  <2>3. LateKept /\ WholeInv'
    BY <1>1, <1>2, <2>1, WholeStep DEF LateKept
  <2>4. Phase'
    BY <1>1, <1>2, <1>4, <2>2 DEF Go, Phase, SinglePhase
  <2>5. QED
    BY <1>1, <1>2, <1>4, <2>1, <2>3, <2>4, Goes DEF Allowed, SingleSteps
<1>5. CASE Fail(TRUE) /\ Go("clean", "output")
  <2>1. /\ failures' = failures + 1 /\ failures' \in Nat /\ OldKept /\ Typed /\ LateKept /\ WholeInv'
        /\ D("output")' = D("output") /\ B("output")' = B("output")
    BY <1>1, <1>2, <1>5, FailEffect
  <2>2. Untouched("output")' /\ Held("output")'
    BY <1>1, <1>3, <2>1, FrameKeeps
  <2>3. Phase'
    BY <1>1, <1>2, <1>5, <2>2 DEF Go, Phase, SinglePhase
  <2>4. QED
    BY <1>1, <1>2, <1>5, <2>1, <2>3, Goes DEF Allowed
<1>6. QED
  BY <1>4, <1>5 DEF SetAside

LEMMA ReplaceAgainStep ==
  ASSUME IInv, ReplaceAgain
  PROVE  IInv'
<1>1. /\ TypeInv /\ Running /\ Phase /\ pc = <<"again", "output">>
      /\ UNCHANGED <<kind, overwrite, run, saved, before, others, copied, owed, result>>
      /\ saved \subseteq Names /\ copied \in BOOLEAN /\ failures \in Nat
  BY DEF ReplaceAgain, At, FileStep, Keep, history, Running, IInv, TypeInv, PublicationTypeOK
<1>2. kind = "single" /\ Mine = {"output"} /\ Mine' = {"output"} /\ "output" \in Names
  BY <1>1 DEF TypeInv, PublicationTypeOK, ReplaceSteps, NewSteps, Mine, Names
<1>3. Aside("output") /\ Staged("output") /\ AtLeast1
  BY <1>1, <1>2 DEF Phase, SinglePhase
<1>4. CASE Does(Rename(Stage("output"), Dest("output"))) /\ Go("forget", "output")
  <2>1. /\ failures' = failures /\ D("output")' = New /\ B("output")' = B("output")
        /\ OldKept /\ Typed
    BY <1>1, <1>2, <1>3, <1>4, RenameEffect DEF Does, Staged
  <2>2. Placed("output")'
    BY <1>1, <2>1 DEF Placed, New
  <2>3. LateKept /\ WholeInv'
    BY <1>1, <1>2, <2>1, WholeStep DEF LateKept
  <2>4. Phase'
    BY <1>1, <1>2, <1>4, <2>2 DEF Go, Phase, SinglePhase
  <2>5. QED
    BY <1>1, <1>2, <1>4, <2>1, <2>3, <2>4, Goes DEF Allowed, SingleSteps
<1>5. CASE Fail(TRUE) /\ Go("return", "output")
  <2>1. /\ failures' = failures + 1 /\ failures' \in Nat /\ OldKept /\ Typed /\ LateKept /\ WholeInv'
        /\ D("output")' = D("output") /\ B("output")' = B("output")
    BY <1>1, <1>2, <1>5, FailEffect
  <2>2. Aside("output")' /\ failures' >= 2
    BY <1>1, <1>3, <2>1, FrameKeeps DEF AtLeast1
  <2>3. Phase'
    BY <1>1, <1>2, <1>5, <2>2 DEF Go, Phase, SinglePhase
  <2>4. QED
    BY <1>1, <1>2, <1>5, <2>1, <2>3, Goes DEF Allowed, SingleSteps
<1>6. QED
  BY <1>4, <1>5 DEF ReplaceAgain

LEMMA ForgetStep ==
  ASSUME IInv, Forget
  PROVE  IInv'
<1>1. /\ TypeInv /\ Running /\ Phase /\ pc = <<"forget", "output">>
      /\ UNCHANGED <<kind, overwrite, run, saved, before, others, copied, owed>>
      /\ saved \subseteq Names /\ copied \in BOOLEAN /\ failures \in Nat
  BY DEF Forget, At, Keep, history, Running, IInv, TypeInv, PublicationTypeOK
<1>2. kind = "single" /\ Mine = {"output"} /\ Mine' = {"output"} /\ "output" \in Names
  BY <1>1 DEF TypeInv, PublicationTypeOK, ReplaceSteps, NewSteps, Mine, Names
<1>3. Placed("output")
  BY <1>1, <1>2 DEF Phase, SinglePhase
<1>4. /\ failures' \in Nat /\ OldKept /\ Typed /\ LateKept /\ WholeInv'
      /\ D("output")' = D("output")
  <2>1. CASE Does(Delete(Backup("output")))
    <3>1. Put(Backup("output"), Absent) /\ failures' = failures
      BY <2>1 DEF Does, Delete, Put
    <3>2. /\ B("output")' = Absent /\ D("output")' = D("output") /\ OldKept /\ Typed
      BY <1>1, <1>2, <3>1, PutEffect DEF Option
    <3>3. QED
      BY <1>1, <1>2, <3>1, <3>2, WholeStep DEF LateKept
  <2>2. CASE Fail(TRUE)
    BY <1>1, <1>2, <2>2, FailEffect
  <2>3. QED
    BY <2>1, <2>2 DEF Forget, Tries
<1>5. Ends("ok")
  BY DEF Forget
<1>6. Committed'
  BY <1>1, <1>2, <1>3, <1>4 DEF Committed, Placed, D, New
<1>7. QED
  BY <1>1, <1>4, <1>5, <1>6, Ending

LEMMA PutBackStep ==
  ASSUME IInv, PutBack
  PROVE  IInv'
<1>1. /\ TypeInv /\ Running /\ Phase /\ pc = <<"return", "output">>
      /\ UNCHANGED <<kind, overwrite, run, saved, before, others, copied, owed, result>>
      /\ saved \subseteq Names /\ copied \in BOOLEAN /\ failures \in Nat
  BY DEF PutBack, At, FileStep, Keep, history, Running, IInv, TypeInv, PublicationTypeOK
<1>2. kind = "single" /\ Mine = {"output"} /\ Mine' = {"output"} /\ "output" \in Names
  BY <1>1 DEF TypeInv, PublicationTypeOK, ReplaceSteps, NewSteps, Mine, Names
<1>3. Aside("output") /\ failures >= 2
  BY <1>1, <1>2 DEF Phase, SinglePhase
<1>4. /\ failures' \in Nat /\ failures' >= 2 /\ OldKept /\ Typed /\ LateKept /\ WholeInv'
      /\ Held("output")'
  <2>1. CASE Does(Rename(Backup("output"), Dest("output")))
    <3>1. /\ failures' = failures /\ D("output")' = B("output") /\ B("output")' = Absent
          /\ OldKept /\ Typed
      BY <1>1, <1>2, <2>1, RenameEffect DEF Does
    <3>2. Held("output")'
      BY <1>1, <1>3, <3>1 DEF Aside, InBackup, Same, Held
    <3>3. QED
      BY <1>1, <1>2, <1>3, <3>1, <3>2, WholeStep DEF LateKept
  <2>2. CASE Fail(TRUE)
    <3>1. /\ failures' = failures + 1 /\ failures' \in Nat /\ OldKept /\ Typed
          /\ LateKept /\ WholeInv'
          /\ D("output")' = D("output") /\ B("output")' = B("output")
      BY <1>1, <1>2, <2>2, FailEffect
    <3>2. Held("output")'
      BY <1>1, <1>2, <1>3, <3>1, HeldFacts, FrameKeeps DEF Aside
    <3>3. QED
      BY <1>1, <1>3, <3>1, <3>2
  <2>3. QED
    BY <2>1, <2>2 DEF PutBack, Tries
<1>5. Go("clean", "output")
  BY DEF PutBack
<1>6. ~AtMost1'
  BY <1>4 DEF AtMost1
<1>7. Phase'
  BY <1>1, <1>2, <1>4, <1>5, <1>6 DEF Go, Phase, SinglePhase
<1>8. QED
  BY <1>1, <1>2, <1>4, <1>5, <1>7, Goes DEF Allowed

-----------------------------------------------------------------------------

LEMMA CommitStep ==
  ASSUME IInv, Commit
  PROVE  IInv'
<1>1. /\ TypeInv /\ Running /\ Phase /\ pc = <<"commit", "output">>
      /\ UNCHANGED <<kind, overwrite, run, before, others, copied, owed, result>>
      /\ UNCHANGED <<files, failures>>
      /\ copied \in BOOLEAN /\ failures \in Nat
      /\ \A m \in Mine : Untouched(m)
      /\ Staged("output") /\ Staged("report") /\ kind = "pair"
  BY DEF Commit, At, history, Running, IInv, Phase, TypeInv, PublicationTypeOK

<1>2. Mine = Names /\ Mine' = Names /\ Names = {"output", "report"}
  BY <1>1 DEF Mine, Names
<1>3. /\ OldKept /\ Typed
      /\ \A m \in Names : D(m)' = D(m) /\ B(m)' = B(m) /\ S(m)' = S(m)
  BY <1>1, SameEffect DEF Frame
<1>4. /\ \A m \in Names : Untouched(m)'
      /\ Staged("output")' /\ Staged("report")'
  BY <1>1, <1>2, <1>3 DEF Untouched, Same, Staged, New
<1>5. LateKept /\ WholeInv'
  BY <1>1, <1>2, <1>3, WholeStep DEF LateKept, TypeInv
<1>6. CASE overwrite
  <2>1. /\ Go("backup", "output") /\ saved' \subseteq Names
        /\ \A m \in Names : m \in saved' <=> D(m) # Absent
    BY <1>1, <1>6 DEF Commit, Exists, D
  <2>2. \A m \in Names : m \notin saved' => before'[m] = Absent
    BY <1>1, <1>2, <2>1, HeldFacts
  <2>3. Phase'
    BY <1>1, <1>2, <1>3, <1>4, <1>6, <2>1, <2>2 DEF Go, Phase, ReplacePhase
  <2>4. QED
    BY <1>1, <1>2, <1>3, <1>5, <1>6, <2>1, <2>3, Goes DEF Allowed, ReplaceSteps
<1>7. CASE ~overwrite
  <2>1. Go("link", "output") /\ saved' \subseteq Names
    BY <1>1, <1>7 DEF Commit, TypeInv, PublicationTypeOK
  <2>2. Phase'
    BY <1>1, <1>2, <1>3, <1>4, <1>7, <2>1 DEF Go, Phase, NewPhase
  <2>3. QED
    BY <1>1, <1>2, <1>3, <1>5, <1>7, <2>1, <2>2, Goes DEF Allowed, NewSteps
<1>8. QED
  BY <1>6, <1>7

\* What holds between the operations of a pair that replaces nothing.
LEMMA NewPair ==
  ASSUME IInv, Running, pc[1] \in NewSteps
  PROVE  /\ kind = "pair" /\ ~overwrite /\ Mine = Names /\ Names = {"output", "report"}
         /\ TypeInv /\ NewPhase /\ pc[1] # "clean" /\ ~(pc[1] \in {"create", "write", "commit"})
         /\ copied \in BOOLEAN /\ failures \in Nat /\ saved \subseteq Names
         /\ \A m \in others : D(m) = Late
<1>1. PublicationTypeOK /\ Phase /\ LateInv /\ TypeInv
  BY DEF IInv, TypeInv
<1>2. kind = "pair" /\ ~overwrite
  BY <1>1 DEF PublicationTypeOK, NewSteps, SingleSteps, ReplaceSteps
<1>3. \A m \in others : D(m) = Late
  BY <1>1, <1>2 DEF LateInv, LateFilesKept, D, Late
<1>4. QED
  BY <1>1, <1>2, <1>3 DEF Mine, Names, Phase, NewSteps, TypeInv, PublicationTypeOK

\* The failure of a publication takes the run where nothing of it is left.
LEMMA PublishFailsStep ==
  ASSUME IInv, Running, pc[1] \in NewSteps, NEW n \in Names, PublishFails(n),
         UNCHANGED <<kind, overwrite, run, saved, before, others, owed, result>>,
         OldKept, Typed, failures' \in Nat, copied' \in BOOLEAN, LateKept, WholeInv',
         \A m \in Names : B(m)' = B(m),
         failures' >= 1,
         AtMost1' => Untouched(n)',
         n = "output" /\ AtMost1' => Untouched("report")',
         n = "report" => Placed("output")'
  PROVE  IInv'
<1>1. /\ kind = "pair" /\ ~overwrite /\ Mine = Names /\ Names = {"output", "report"}
      /\ Mine' = Names /\ saved \subseteq Names /\ TypeInv
      /\ \A m \in Names : before[m] = Absent /\ B(m) = Absent
  BY NewPair DEF NewPhase, Mine
<1>2. \A m \in Names : before'[m] = Absent /\ B(m)' = Absent /\ Held(m)'
  BY <1>1 DEF Held
<1>3. CASE n = "output"
  <2>1. Go("clean", "output")
    BY <1>3 DEF PublishFails
  <2>2. Phase'
    BY <1>1, <1>2, <1>3, <2>1 DEF Go, Phase, NewPhase
  <2>3. QED
    BY <1>1, <2>1, <2>2, Goes DEF Allowed
<1>4. CASE n = "report"
  <2>1. Go("unpublish", "output")
    BY <1>4 DEF PublishFails
  <2>2. Phase'
    BY <1>1, <1>2, <1>4, <2>1 DEF Go, Phase, NewPhase, AtLeast1
  <2>3. QED
    BY <1>1, <2>1, <2>2, Goes DEF Allowed, NewSteps
<1>5. QED
  BY <1>1, <1>3, <1>4

\* One file more is in place.
LEMMA PublishesStep ==
  ASSUME IInv, Running, pc[1] \in NewSteps, NEW n \in Names, Publishes(n),
         UNCHANGED <<kind, overwrite, run, saved, before, others, owed, result>>,
         OldKept, Typed, failures' \in Nat, copied' \in BOOLEAN, LateKept, WholeInv',
         \A m \in Names : B(m)' = B(m),
         Staged("output")', Staged("report")', Placed(n)',
         n = "output" => Untouched("report")',
         n = "report" => Placed("output")'
  PROVE  IInv'
<1>1. /\ kind = "pair" /\ ~overwrite /\ Mine = Names /\ Names = {"output", "report"}
      /\ Mine' = Names /\ saved \subseteq Names /\ TypeInv
      /\ \A m \in Names : before[m] = Absent /\ B(m) = Absent
  BY NewPair DEF NewPhase, Mine
<1>2. \A m \in Names : before'[m] = Absent /\ B(m)' = Absent
  BY <1>1
<1>3. CASE n = "output"
  <2>1. Go("link", "report")
    BY <1>3 DEF Publishes
  <2>2. Phase'
    BY <1>1, <1>2, <1>3, <2>1 DEF Go, Phase, NewPhase
  <2>3. QED
    BY <1>1, <2>1, <2>2, Goes DEF Allowed, NewSteps
<1>4. CASE n = "report"
  <2>1. Go("tidy", "output")
    BY <1>4 DEF Publishes
  <2>2. Committed'
    BY <1>1, <1>4 DEF Committed, Placed, D
  <2>3. Phase'
    BY <1>1, <1>2, <2>1, <2>2 DEF Go, Phase, NewPhase
  <2>4. QED
    BY <1>1, <2>1, <2>3, Goes DEF Allowed, NewSteps
<1>5. QED
  BY <1>1, <1>3, <1>4

LEMMA LinkStep ==
  ASSUME IInv, NEW n \in Names, Link(n)
  PROVE  IInv'
<1>1. /\ Running /\ pc = <<"link", n>> /\ pc[1] \in NewSteps
      /\ UNCHANGED <<kind, overwrite, run, saved, before, others, copied, owed, result>>
  BY DEF Link, At, FileStep, Keep, history, Running, NewSteps
<1>2. /\ kind = "pair" /\ ~overwrite /\ Mine = Names /\ Mine' = Names
      /\ Names = {"output", "report"} /\ TypeInv /\ NewPhase
      /\ copied \in BOOLEAN /\ failures \in Nat /\ saved \subseteq Names
      /\ \A m \in others : D(m) = Late
  BY <1>1, NewPair DEF Mine
<1>3. /\ Staged("output") /\ Staged("report") /\ Untouched("report") /\ Untouched(n)
      /\ n = "report" => Placed("output")
      /\ \A m \in Names : before[m] = Absent /\ B(m) = Absent
  BY <1>1, <1>2 DEF NewPhase
<1>4. CASE ~Exists(Dest(n)) /\ Does(Put(Dest(n), files[Stage(n)])) /\ Publishes(n)
  <2>1. D(n) = Absent /\ files[Stage(n)] = New /\ New \in Option(Contents)
    <3>1. S(n) = New
      BY <1>2, <1>3 DEF Staged
    <3>2. QED
      BY <1>2, <1>4, <3>1, ContentFacts DEF Exists, D, S, Option
  <2>2. /\ failures' = failures /\ D(n)' = New /\ S(n)' = S(n) /\ B(n)' = B(n)
        /\ \A m \in Names : m # n => Frame(m)
        /\ OldKept /\ Typed
    BY <1>1, <1>2, <1>4, <2>1, PutEffect DEF Does
  <2>3. \A m \in Names : m # n => D(m)' = D(m) /\ S(m)' = S(m) /\ B(m)' = B(m)
    BY <2>2 DEF Frame
  <2>4. \A m \in Names : S(m)' = S(m) /\ B(m)' = B(m)
    BY <2>2, <2>3
  <2>5. Staged("output")' /\ Staged("report")' /\ Placed(n)'
    BY <1>1, <1>2, <1>3, <2>2, <2>4 DEF Staged, Placed, New
  <2>6. n = "output" => Untouched("report")'
    BY <1>1, <1>2, <1>3, <2>3, FrameKeeps
  <2>7. n = "report" => Placed("output")'
    BY <1>1, <1>2, <1>3, <2>3, FrameKeeps
  <2>8. LateKept
    BY <1>2, <2>1, <2>3, ContentFacts DEF LateKept, TypeInv
  <2>9. WholeInv'
    BY <1>1, <1>2, <2>2, <2>3, WholeStep
  <2>10. QED
    BY <1>1, <1>2, <1>4, <2>2, <2>4, <2>5, <2>6, <2>7, <2>8, <2>9, PublishesStep
<1>5. CASE Exists(Dest(n)) /\ Fail(FALSE) /\ PublishFails(n)
  <2>1. /\ failures' = failures + 1 /\ failures' \in Nat /\ OldKept /\ Typed
        /\ LateKept /\ WholeInv'
        /\ \A m \in Names : D(m)' = D(m) /\ B(m)' = B(m)
    BY <1>1, <1>2, <1>5, FailEffect
  <2>2. Untouched(n)' /\ Untouched("report")' /\ (n = "report" => Placed("output")')
    BY <1>1, <1>2, <1>3, <2>1, FrameKeeps
  <2>3. failures' >= 1
    BY <1>2, <2>1
  <2>4. QED
    BY <1>1, <1>2, <1>5, <2>1, <2>2, <2>3, PublishFailsStep
<1>6. CASE Go("open", n) /\ UNCHANGED <<files, failures>>
  <2>1. OldKept /\ Typed /\ \A m \in Names : D(m)' = D(m) /\ B(m)' = B(m) /\ S(m)' = S(m)
    BY <1>1, <1>2, <1>6, SameEffect DEF Frame
  <2>2. LateKept /\ WholeInv'
    BY <1>1, <1>2, <2>1, WholeStep DEF LateKept, TypeInv
  <2>3. /\ Staged("output")' /\ Staged("report")' /\ Untouched("report")' /\ Untouched(n)'
        /\ n = "report" => Placed("output")'
    BY <1>1, <1>2, <1>3, <2>1, FrameKeeps DEF Staged, New
  <2>4. Phase'
    BY <1>1, <1>2, <1>3, <1>6, <2>1, <2>3 DEF Go, Phase, NewPhase
  <2>5. QED
    BY <1>1, <1>2, <1>6, <2>1, <2>2, <2>4, Goes DEF Allowed, NewSteps
<1>7. QED
  BY <1>4, <1>5, <1>6 DEF Link

LEMMA OpenNewStep ==
  ASSUME IInv, NEW n \in Names, OpenNew(n)
  PROVE  IInv'
<1>1. /\ Running /\ pc = <<"open", n>> /\ pc[1] \in NewSteps
      /\ UNCHANGED <<kind, overwrite, run, saved, before, others, owed, result>>
  BY DEF OpenNew, At, Running, NewSteps
<1>2. /\ kind = "pair" /\ ~overwrite /\ Mine = Names /\ Mine' = Names
      /\ Names = {"output", "report"} /\ TypeInv /\ NewPhase
      /\ copied \in BOOLEAN /\ failures \in Nat /\ saved \subseteq Names
      /\ \A m \in others : D(m) = Late
  BY <1>1, NewPair DEF Mine
<1>3. /\ Staged("output") /\ Staged("report") /\ Untouched("report") /\ Untouched(n)
      /\ n = "report" => Placed("output")
      /\ \A m \in Names : before[m] = Absent /\ B(m) = Absent
  BY <1>1, <1>2 DEF NewPhase
<1>4. CASE OpensNew(n) /\ Does(Put(Dest(n), Part)) /\ Go("copy", n) /\ copied' = TRUE
  <2>1. D(n) = Absent /\ Part \in Option(Contents)
    BY <1>2, <1>4, ContentFacts DEF OpensNew, Exists, D, Option
  <2>2. /\ failures' = failures /\ D(n)' = Part /\ S(n)' = S(n) /\ B(n)' = B(n)
        /\ \A m \in Names : m # n => Frame(m)
        /\ OldKept /\ Typed
    BY <1>1, <1>2, <1>4, <2>1, PutEffect DEF Does
  <2>3. \A m \in Names : m # n => D(m)' = D(m) /\ S(m)' = S(m) /\ B(m)' = B(m)
    BY <2>2 DEF Frame
  <2>4. \A m \in Names : S(m)' = S(m) /\ B(m)' = B(m)
    BY <2>2, <2>3
  <2>5. Staged("output")' /\ Staged("report")' /\ D(n)' = Part' /\ B(n)' = Absent
    BY <1>1, <1>2, <1>3, <2>2, <2>4 DEF Staged, New, Part
  <2>6. IF n = "output" THEN Untouched("report")' ELSE Placed("output")'
    BY <1>1, <1>2, <1>3, <2>3, FrameKeeps
  <2>7. LateKept
    BY <1>2, <2>1, <2>3, ContentFacts DEF LateKept, TypeInv
  <2>8. WholeInv'
    BY <1>4 DEF WholeInv
  <2>9. Phase'
    BY <1>1, <1>2, <1>3, <1>4, <2>4, <2>5, <2>6 DEF Go, Phase, NewPhase
  <2>10. QED
    BY <1>1, <1>2, <1>4, <2>2, <2>7, <2>8, <2>9, Goes DEF Allowed, NewSteps
<1>5. CASE Fail(OpensNew(n)) /\ PublishFails(n) /\ UNCHANGED copied
  <2>1. /\ failures' = failures + 1 /\ failures' \in Nat /\ OldKept /\ Typed
        /\ LateKept /\ WholeInv'
        /\ \A m \in Names : D(m)' = D(m) /\ B(m)' = B(m)
    BY <1>1, <1>2, <1>5, FailEffect
  <2>2. Untouched(n)' /\ Untouched("report")' /\ (n = "report" => Placed("output")')
    BY <1>1, <1>2, <1>3, <2>1, FrameKeeps
  <2>3. failures' >= 1
    BY <1>2, <2>1
  <2>4. QED
    BY <1>1, <1>2, <1>5, <2>1, <2>2, <2>3, PublishFailsStep
<1>6. QED
  BY <1>4, <1>5 DEF OpenNew

\* A run that is copying, or taking the copy back, knows of no late file of that name.
LEMMA CopyStep ==
  ASSUME IInv, NEW n \in Names, Copy(n)
  PROVE  IInv'
<1>1. /\ Running /\ pc = <<"copy", n>> /\ pc[1] \in NewSteps
      /\ UNCHANGED <<kind, overwrite, run, saved, before, others, copied, owed, result>>
  BY DEF Copy, At, FileStep, Keep, history, Running, NewSteps
<1>2. /\ kind = "pair" /\ ~overwrite /\ Mine = Names /\ Mine' = Names
      /\ Names = {"output", "report"} /\ TypeInv /\ NewPhase
      /\ copied \in BOOLEAN /\ failures \in Nat /\ saved \subseteq Names
      /\ \A m \in others : D(m) = Late
  BY <1>1, NewPair DEF Mine
<1>3. /\ Staged("output") /\ Staged("report") /\ D(n) = Part
      /\ IF n = "output" THEN Untouched("report") ELSE Placed("output")
      /\ \A m \in Names : before[m] = Absent /\ B(m) = Absent
  BY <1>1, <1>2 DEF NewPhase
<1>4. CASE Does(Put(Dest(n), files[Stage(n)])) /\ Publishes(n)
  <2>1. files[Stage(n)] = New /\ New \in Option(Contents)
    <3>1. S(n) = New
      BY <1>2, <1>3 DEF Staged
    <3>2. QED
      BY <1>2, <3>1, ContentFacts DEF S, Option
  <2>2. /\ failures' = failures /\ D(n)' = New /\ S(n)' = S(n) /\ B(n)' = B(n)
        /\ \A m \in Names : m # n => Frame(m)
        /\ OldKept /\ Typed
    BY <1>1, <1>2, <1>4, <2>1, PutEffect DEF Does
  <2>3. \A m \in Names : m # n => D(m)' = D(m) /\ S(m)' = S(m) /\ B(m)' = B(m)
    BY <2>2 DEF Frame
  <2>4. \A m \in Names : S(m)' = S(m) /\ B(m)' = B(m)
    BY <2>2, <2>3
  <2>5. Staged("output")' /\ Staged("report")' /\ Placed(n)'
    BY <1>1, <1>2, <1>3, <2>2, <2>4 DEF Staged, Placed, New
  <2>6. n = "output" => Untouched("report")'
    BY <1>1, <1>2, <1>3, <2>3, FrameKeeps
  <2>7. n = "report" => Placed("output")'
    BY <1>1, <1>2, <1>3, <2>3, FrameKeeps
  <2>8. LateKept
    BY <1>2, <1>3, <2>3, ContentFacts DEF LateKept, TypeInv
  <2>9. WholeInv'
    BY <1>1, <1>2, <2>2, <2>3, WholeStep
  <2>10. QED
    BY <1>1, <1>2, <1>4, <2>2, <2>4, <2>5, <2>6, <2>7, <2>8, <2>9, PublishesStep
<1>5. CASE Fail(TRUE) /\ Go("uncopy", n)
  <2>1. /\ failures' = failures + 1 /\ failures' \in Nat /\ OldKept /\ Typed
        /\ LateKept /\ WholeInv'
        /\ \A m \in Names : D(m)' = D(m) /\ B(m)' = B(m) /\ S(m)' = S(m)
    BY <1>1, <1>2, <1>5, FailEffect
  <2>2. /\ Staged("output")' /\ Staged("report")' /\ D(n)' = Part'
        /\ IF n = "output" THEN Untouched("report")' ELSE Placed("output")'
        /\ AtLeast1'
    BY <1>1, <1>2, <1>3, <2>1, FrameKeeps DEF Staged, New, Part, AtLeast1
  <2>3. Phase'
    BY <1>1, <1>2, <1>3, <1>5, <2>1, <2>2 DEF Go, Phase, NewPhase
  <2>4. QED
    BY <1>1, <1>2, <1>5, <2>1, <2>3, Goes DEF Allowed, NewSteps
<1>6. QED
  BY <1>4, <1>5 DEF Copy

LEMMA UncopyStep ==
  ASSUME IInv, NEW n \in Names, Uncopy(n)
  PROVE  IInv'
<1>1. /\ Running /\ pc = <<"uncopy", n>> /\ pc[1] \in NewSteps
      /\ UNCHANGED <<kind, overwrite, run, saved, before, others, copied, owed, result>>
      /\ PublishFails(n)
  BY DEF Uncopy, At, FileStep, Keep, history, Running, NewSteps
<1>2. /\ kind = "pair" /\ ~overwrite /\ Mine = Names /\ Mine' = Names
      /\ Names = {"output", "report"} /\ TypeInv /\ NewPhase
      /\ copied \in BOOLEAN /\ failures \in Nat /\ saved \subseteq Names
      /\ \A m \in others : D(m) = Late
  BY <1>1, NewPair DEF Mine
<1>3. /\ D(n) = Part /\ AtLeast1
      /\ IF n = "output" THEN Untouched("report") ELSE Placed("output")
      /\ \A m \in Names : before[m] = Absent /\ B(m) = Absent
  BY <1>1, <1>2 DEF NewPhase
<1>4. CASE Does(Delete(Dest(n)))
  <2>1. Put(Dest(n), Absent) /\ failures' = failures
    BY <1>4 DEF Does, Delete, Put
  <2>2. /\ D(n)' = Absent /\ B(n)' = B(n)
        /\ \A m \in Names : m # n => Frame(m)
        /\ OldKept /\ Typed
    BY <1>1, <1>2, <2>1, PutEffect DEF Option
  <2>3. \A m \in Names : m # n => D(m)' = D(m) /\ B(m)' = B(m)
    BY <2>2 DEF Frame
  <2>4. \A m \in Names : B(m)' = B(m)
    BY <2>2, <2>3
  <2>5. Untouched(n)'
    BY <1>1, <1>3, <2>2 DEF Untouched, Same
  <2>6. IF n = "output" THEN Untouched("report")' ELSE Placed("output")'
    BY <1>1, <1>2, <1>3, <2>3, FrameKeeps
  <2>7. LateKept
    BY <1>2, <1>3, <2>3, ContentFacts DEF LateKept, TypeInv
  <2>8. WholeInv'
    BY <1>1, <1>2, <2>2, <2>3, WholeStep
  <2>9. failures' >= 1 /\ failures' \in Nat
    BY <1>2, <1>3, <2>1 DEF AtLeast1
  <2>10. QED
    BY <1>1, <1>2, <2>2, <2>4, <2>5, <2>6, <2>7, <2>8, <2>9, PublishFailsStep
<1>5. CASE Fail(TRUE)
  <2>1. /\ failures' = failures + 1 /\ failures' \in Nat /\ OldKept /\ Typed
        /\ LateKept /\ WholeInv'
        /\ \A m \in Names : D(m)' = D(m) /\ B(m)' = B(m)
    BY <1>1, <1>2, <1>5, FailEffect
  <2>2. n = "report" => Placed("output")'
    BY <1>1, <1>2, <1>3, <2>1, FrameKeeps
  <2>3. failures' >= 1 /\ ~AtMost1'
    BY <1>2, <1>3, <2>1 DEF AtLeast1, AtMost1
  <2>4. QED
    BY <1>1, <1>2, <2>1, <2>2, <2>3, PublishFailsStep
<1>6. QED
  BY <1>4, <1>5 DEF Uncopy, Tries

LEMMA UnpublishStep ==
  ASSUME IInv, Unpublish
  PROVE  IInv'
<1>1. /\ Running /\ pc = <<"unpublish", "output">> /\ pc[1] \in NewSteps
      /\ UNCHANGED <<kind, overwrite, run, saved, before, others, copied, owed, result>>
      /\ Go("clean", "output")
  BY DEF Unpublish, At, FileStep, Keep, history, Running, NewSteps
<1>2. /\ kind = "pair" /\ ~overwrite /\ Mine = Names /\ Mine' = Names
      /\ Names = {"output", "report"} /\ TypeInv /\ NewPhase
      /\ copied \in BOOLEAN /\ failures \in Nat /\ saved \subseteq Names
      /\ \A m \in others : D(m) = Late
  BY <1>1, NewPair DEF Mine
<1>3. /\ Placed("output") /\ AtLeast1 /\ (AtMost1 => Untouched("report"))
      /\ \A m \in Names : before[m] = Absent /\ B(m) = Absent
  BY <1>1, <1>2 DEF NewPhase
<1>4. /\ failures' \in Nat /\ OldKept /\ Typed /\ LateKept /\ WholeInv'
      /\ AtMost1' => Untouched("output")' /\ Untouched("report")'
      /\ \A m \in Names : B(m)' = Absent
  <2>1. CASE Does(Delete(Dest("output")))
    <3>1. Put(Dest("output"), Absent) /\ failures' = failures
      BY <2>1 DEF Does, Delete, Put
    <3>2. /\ D("output")' = Absent /\ B("output")' = B("output") /\ OldKept /\ Typed
          /\ \A m \in Names : m # "output" => Frame(m)
      BY <1>1, <1>2, <3>1, PutEffect DEF Option
    <3>3. D("report")' = D("report") /\ B("report")' = B("report")
      BY <1>2, <3>2 DEF Frame
    <3>4. Untouched("output")'
      BY <1>1, <1>2, <1>3, <3>2 DEF Untouched, Same
    <3>5. AtMost1' => Untouched("report")'
      BY <1>1, <1>3, <3>1, <3>3, FrameKeeps DEF AtMost1
    <3>6. LateKept
      BY <1>2, <1>3, <3>3, ContentFacts DEF LateKept, TypeInv, Placed
    <3>7. WholeInv'
      BY <1>1, <1>2, <3>2, <3>3, WholeStep
    <3>8. QED
      BY <1>2, <1>3, <3>1, <3>2, <3>3, <3>4, <3>5, <3>6, <3>7
  <2>2. CASE Fail(TRUE)
    <3>1. /\ failures' = failures + 1 /\ failures' \in Nat /\ OldKept /\ Typed
          /\ LateKept /\ WholeInv'
          /\ \A m \in Names : B(m)' = B(m)
      BY <1>1, <1>2, <2>2, FailEffect
    <3>2. ~AtMost1'
      BY <1>2, <1>3, <3>1 DEF AtLeast1, AtMost1
    <3>3. QED
      BY <1>3, <3>1, <3>2
  <2>3. QED
    BY <2>1, <2>2 DEF Unpublish, Tries
<1>5. Phase'
  <2>1. \A m \in Names : Held(m)' /\ before'[m] = Absent
    BY <1>1, <1>3 DEF Held
  <2>2. QED
    BY <1>1, <1>2, <1>4, <2>1 DEF Go, Phase, NewPhase
<1>6. QED
  BY <1>1, <1>2, <1>4, <1>5, Goes DEF Allowed

\* The siblings go once everything is in place.
LEMMA TidyStep ==
  ASSUME IInv, NEW n \in Names, Tidy(n)
  PROVE  IInv'
<1>1. /\ Running /\ pc = <<"tidy", n>> /\ pc[1] \in NewSteps
      /\ UNCHANGED <<kind, overwrite, run, saved, before, others, copied, owed>>
  BY DEF Tidy, At, Keep, history, Running, NewSteps
<1>2. /\ kind = "pair" /\ ~overwrite /\ Mine = Names /\ Mine' = Names
      /\ Names = {"output", "report"} /\ TypeInv /\ NewPhase
      /\ copied \in BOOLEAN /\ failures \in Nat /\ saved \subseteq Names
  BY <1>1, NewPair DEF Mine
<1>3. Committed /\ \A m \in Names : before[m] = Absent /\ B(m) = Absent
  BY <1>1, <1>2 DEF NewPhase
<1>4. /\ failures' \in Nat /\ OldKept /\ Typed /\ LateKept /\ WholeInv'
      /\ \A m \in Names : D(m)' = D(m) /\ B(m)' = B(m)
  BY <1>1, <1>2, DeleteStageEffect DEF Tidy
<1>5. Committed'
  BY <1>1, <1>2, <1>3, <1>4 DEF Committed, D, New
<1>6. CASE n = "output"
  <2>1. Go("tidy", "report") /\ UNCHANGED result
    BY <1>6 DEF Tidy
  <2>2. Phase'
    BY <1>1, <1>2, <1>3, <1>4, <1>5, <2>1 DEF Go, Phase, NewPhase
  <2>3. QED
    BY <1>1, <1>2, <1>4, <2>1, <2>2, Goes DEF Allowed, NewSteps
<1>7. CASE n # "output"
  BY <1>1, <1>2, <1>4, <1>5, <1>7, Ending DEF Tidy
<1>8. QED
  BY <1>6, <1>7

-----------------------------------------------------------------------------

\* What holds between the operations of a pair that may replace.
LEMMA ReplacePair ==
  ASSUME IInv, Running, pc[1] \in ReplaceSteps
  PROVE  /\ kind = "pair" /\ overwrite /\ Mine = Names /\ Names = {"output", "report"}
         /\ TypeInv /\ ReplacePhase
         /\ copied \in BOOLEAN /\ failures \in Nat /\ saved \subseteq Names
<1>1. PublicationTypeOK /\ Phase /\ TypeInv
  BY DEF IInv, TypeInv
<1>2. kind = "pair" /\ overwrite
  BY <1>1 DEF PublicationTypeOK, NewSteps, SingleSteps, ReplaceSteps
<1>3. QED
  BY <1>1, <1>2 DEF Mine, Names, Phase, TypeInv, PublicationTypeOK

LEMMA BackUpStep ==
  ASSUME IInv, NEW n \in Names, BackUp(n)
  PROVE  IInv'
<1>1. /\ Running /\ pc = <<"backup", n>> /\ pc[1] \in ReplaceSteps
      /\ UNCHANGED <<kind, overwrite, run, saved, before, others, copied, owed, result>>
  BY DEF BackUp, At, FileStep, Keep, history, Running, ReplaceSteps
<1>2. /\ kind = "pair" /\ overwrite /\ Mine = Names /\ Mine' = Names
      /\ Names = {"output", "report"} /\ TypeInv /\ ReplacePhase
      /\ copied \in BOOLEAN /\ failures \in Nat /\ saved \subseteq Names
  BY <1>1, ReplacePair DEF Mine
<1>3. /\ Staged("output") /\ Staged("report") /\ Untouched("report") /\ Untouched(n)
      /\ "report" \in saved => D("report") # Absent
      /\ "report" \notin saved => before["report"] = Absent
      /\ n \in saved => D(n) # Absent
      /\ n \notin saved => before[n] = Absent
      /\ n = "report" => Shelved("output")
  BY <1>1, <1>2 DEF ReplacePhase
<1>4. /\ failures' = failures /\ OldKept /\ Typed /\ Shelved(n)' /\ S(n)' = S(n)
      /\ {D(n)', B(n)'} \subseteq {Absent, D(n), B(n)}
      /\ \A m \in Names : m # n => D(m)' = D(m) /\ B(m)' = B(m) /\ S(m)' = S(m)
  <2>1. CASE n \in saved
    <3>1. Does(Rename(Dest(n), Backup(n)))
      BY <2>1 DEF BackUp
    <3>2. /\ failures' = failures /\ B(n)' = D(n) /\ D(n)' = Absent /\ S(n)' = S(n)
          /\ \A m \in Names : m # n => Frame(m)
          /\ OldKept /\ Typed
      BY <1>1, <1>2, <3>1, RenameEffect DEF Does
    <3>3. Shelved(n)'
      BY <1>1, <1>3, <2>1, <3>2 DEF Shelved, Aside, InBackup, Free, Untouched, Same, Late
    <3>4. QED
      BY <3>2, <3>3 DEF Frame
  <2>2. CASE n \notin saved
    <3>1. UNCHANGED <<files, failures>>
      BY <2>2 DEF BackUp
    <3>2. OldKept /\ Typed /\ \A m \in Names : D(m)' = D(m) /\ B(m)' = B(m) /\ S(m)' = S(m)
      BY <1>1, <1>2, <3>1, SameEffect DEF Frame
    <3>3. Shelved(n)'
      BY <1>1, <1>3, <2>2, <3>2, FrameKeeps DEF Shelved
    <3>4. QED
      BY <3>1, <3>2, <3>3
  <2>3. QED
    BY <2>1, <2>2
<1>5. Staged("output")' /\ Staged("report")'
  BY <1>1, <1>2, <1>3, <1>4 DEF Staged, New
<1>6. LateKept /\ WholeInv'
  BY <1>1, <1>2, <1>4, WholeStep DEF LateKept
<1>7. CASE n = "output"
  <2>1. Go("backup", "report")
    BY <1>7 DEF BackUp
  <2>2. Untouched("report")' /\ D("report")' = D("report")
    BY <1>1, <1>2, <1>3, <1>4, <1>7, FrameKeeps
  <2>3. Phase'
    BY <1>1, <1>2, <1>3, <1>4, <1>5, <1>7, <2>1, <2>2 DEF Go, Phase, ReplacePhase
  <2>4. QED
    BY <1>1, <1>2, <1>4, <1>6, <2>1, <2>3, Goes DEF Allowed, ReplaceSteps
<1>8. CASE n = "report"
  <2>1. Go("put", "output")
    BY <1>8 DEF BackUp
  <2>2. Shelved("output")'
    BY <1>1, <1>2, <1>3, <1>4, <1>8, FrameKeeps
  <2>3. OnShelf("output")'
    BY <2>2 DEF Shelved, OnShelf, Aside, Untouched
  <2>4. Phase'
    BY <1>1, <1>2, <1>4, <1>5, <1>8, <2>1, <2>2, <2>3 DEF Go, Phase, ReplacePhase
  <2>5. QED
    BY <1>1, <1>2, <1>4, <1>6, <2>1, <2>4, Goes DEF Allowed, ReplaceSteps
<1>9. QED
  BY <1>2, <1>7, <1>8

LEMMA BackUpFailsStep ==
  ASSUME IInv, NEW n \in Names, BackUpFails(n)
  PROVE  IInv'
<1>1. /\ Running /\ pc = <<"backup", n>> /\ pc[1] \in ReplaceSteps
      /\ UNCHANGED <<kind, overwrite, run, saved, before, others, copied, owed, result>>
      /\ n \in saved /\ Fail(TRUE)
  BY DEF BackUpFails, At, FileStep, Keep, history, Running, ReplaceSteps
<1>2. /\ kind = "pair" /\ overwrite /\ Mine = Names /\ Mine' = Names
      /\ Names = {"output", "report"} /\ TypeInv /\ ReplacePhase
      /\ copied \in BOOLEAN /\ failures \in Nat /\ saved \subseteq Names
  BY <1>1, ReplacePair DEF Mine
<1>3. /\ Untouched("report") /\ (n = "output" => Untouched("output"))
      /\ n = "report" => Shelved("output")
  BY <1>1, <1>2 DEF ReplacePhase
<1>4. /\ failures' = failures + 1 /\ failures' \in Nat /\ OldKept /\ Typed
      /\ LateKept /\ WholeInv'
      /\ \A m \in Names : D(m)' = D(m) /\ B(m)' = B(m)
  BY <1>1, <1>2, FailEffect
<1>5. Untouched("report")' /\ AtLeast1'
  BY <1>1, <1>2, <1>3, <1>4, FrameKeeps DEF AtLeast1
<1>6. CASE n = "report" /\ "output" \in saved
  <2>1. Go("unbackup", "output")
    BY <1>6 DEF BackUpFails
  <2>2. Aside("output")
    BY <1>3, <1>6 DEF Shelved
  <2>3. Aside("output")'
    BY <1>1, <1>2, <1>4, <2>2, FrameKeeps
  <2>4. Phase'
    BY <1>1, <1>2, <1>5, <2>1, <2>3 DEF Go, Phase, ReplacePhase
  <2>5. QED
    BY <1>1, <1>2, <1>4, <2>1, <2>4, Goes DEF Allowed, ReplaceSteps
<1>7. CASE ~(n = "report" /\ "output" \in saved)
  <2>1. Go("clean", "output")
    BY <1>7 DEF BackUpFails
  <2>2. Untouched("output")
    BY <1>2, <1>3, <1>7 DEF Shelved
  <2>3. \A m \in Names : Untouched(m)' /\ Held(m)'
    BY <1>1, <1>2, <1>3, <1>4, <2>2, FrameKeeps, HeldFacts
  <2>4. Phase'
    BY <1>1, <1>2, <2>1, <2>3 DEF Go, Phase, ReplacePhase
  <2>5. QED
    BY <1>1, <1>2, <1>4, <2>1, <2>4, Goes DEF Allowed
<1>8. QED
  BY <1>6, <1>7

\* Putting the one file back that a failed exchange has put aside.
LEMMA RestoreEffect ==
  ASSUME IInv, UNCHANGED <<kind, overwrite, run, saved, before, others, copied>>,
         kind = "pair", overwrite,
         NEW n \in Names, InBackup(n), AtLeast1, Tries(Rename(Backup(n), Dest(n)))
  PROVE  /\ failures' >= failures /\ failures' \in Nat
         /\ OldKept /\ Typed /\ LateKept /\ WholeInv'
         /\ Held(n)' /\ (AtMost1' => Untouched(n)')
         /\ \A m \in Names : m # n => D(m)' = D(m) /\ B(m)' = B(m)
<1>1. TypeInv /\ failures \in Nat /\ Mine = Names
  BY DEF IInv, TypeInv, Mine
<1>2. CASE Does(Rename(Backup(n), Dest(n)))
  <2>1. /\ failures' = failures /\ D(n)' = B(n) /\ B(n)' = Absent
        /\ \A m \in Names : m # n => Frame(m)
        /\ OldKept /\ Typed
    BY <1>1, <1>2, RenameEffect DEF Does
  <2>2. Untouched(n)' /\ Held(n)'
    BY <2>1 DEF Untouched, Same, InBackup, Held, Late
  <2>3. \A m \in Names : m # n => D(m)' = D(m) /\ B(m)' = B(m)
    BY <2>1 DEF Frame
  <2>4. WholeInv' /\ LateKept
    BY <1>1, <2>1, <2>3, WholeStep DEF LateKept
  <2>5. QED
    BY <1>1, <2>1, <2>2, <2>3, <2>4
<1>3. CASE Fail(TRUE)
  <2>1. /\ failures' = failures + 1 /\ failures' \in Nat /\ OldKept /\ Typed
        /\ LateKept /\ WholeInv'
        /\ \A m \in Names : D(m)' = D(m) /\ B(m)' = B(m)
    BY <1>1, <1>3, FailEffect
  <2>2. ~AtMost1'
    BY <1>1, <2>1 DEF AtLeast1, AtMost1
  <2>3. Held(n)'
    BY <1>1, <2>1, HeldFacts, FrameKeeps
  <2>4. QED
    BY <1>1, <2>1, <2>2, <2>3
<1>4. QED
  BY <1>2, <1>3 DEF Tries

LEMMA UnBackUpStep ==
  ASSUME IInv, UnBackUp
  PROVE  IInv'
<1>1. /\ Running /\ pc = <<"unbackup", "output">> /\ pc[1] \in ReplaceSteps
      /\ UNCHANGED <<kind, overwrite, run, saved, before, others, copied, owed, result>>
      /\ Go("clean", "output") /\ Tries(Rename(Backup("output"), Dest("output")))
  BY DEF UnBackUp, At, FileStep, Keep, history, Running, ReplaceSteps
<1>2. /\ kind = "pair" /\ overwrite /\ Mine = Names /\ Mine' = Names
      /\ Names = {"output", "report"} /\ TypeInv /\ ReplacePhase
      /\ copied \in BOOLEAN /\ failures \in Nat /\ saved \subseteq Names
  BY <1>1, ReplacePair DEF Mine
<1>3. InBackup("output") /\ Untouched("report") /\ AtLeast1
  BY <1>1, <1>2 DEF ReplacePhase, Aside
<1>4. /\ failures' \in Nat /\ OldKept /\ Typed /\ LateKept /\ WholeInv'
      /\ Held("output")' /\ (AtMost1' => Untouched("output")')
      /\ D("report")' = D("report") /\ B("report")' = B("report")
  BY <1>1, <1>2, <1>3, RestoreEffect
<1>5. Untouched("report")' /\ Held("report")'
  BY <1>1, <1>2, <1>3, <1>4, FrameKeeps, HeldFacts
<1>6. Phase'
  BY <1>1, <1>2, <1>4, <1>5 DEF Go, Phase, ReplacePhase
<1>7. QED
  BY <1>1, <1>2, <1>4, <1>6, Goes DEF Allowed

LEMMA PutNewStep ==
  ASSUME IInv, NEW n \in Names, PutNew(n)
  PROVE  IInv'
<1>1. /\ Running /\ pc = <<"put", n>> /\ pc[1] \in ReplaceSteps
      /\ UNCHANGED <<kind, overwrite, run, saved, before, others, copied, owed, result>>
  BY DEF PutNew, At, FileStep, Keep, history, Running, ReplaceSteps
<1>2. /\ kind = "pair" /\ overwrite /\ Mine = Names /\ Mine' = Names
      /\ Names = {"output", "report"} /\ TypeInv /\ ReplacePhase
      /\ copied \in BOOLEAN /\ failures \in Nat /\ saved \subseteq Names
  BY <1>1, ReplacePair DEF Mine
<1>3. /\ Staged(n) /\ Staged("report") /\ Shelved("report") /\ OnShelf("output") /\ OnShelf("report")
      /\ IF n = "output" THEN Shelved("output") ELSE Placed("output")
  BY <1>1, <1>2, HeldFacts DEF ReplacePhase
<1>4. CASE Does(Rename(Stage(n), Dest(n))) /\ AfterPut(n)
  <2>1. /\ failures' = failures /\ D(n)' = New /\ B(n)' = B(n)
        /\ \A m \in Names : m # n => Frame(m)
        /\ OldKept /\ Typed
    BY <1>1, <1>2, <1>3, <1>4, RenameEffect DEF Does, Staged
  <2>2. \A m \in Names : m # n => D(m)' = D(m) /\ B(m)' = B(m) /\ S(m)' = S(m)
    BY <2>1 DEF Frame
  <2>3. Placed(n)'
    BY <1>1, <2>1 DEF Placed, New
  <2>4. LateKept /\ WholeInv'
    BY <1>1, <1>2, <2>1, <2>2, WholeStep DEF LateKept
  <2>5. CASE n = "output"
    <3>1. Go("put", "report")
      BY <1>4, <2>5 DEF AfterPut
    <3>2. Shelved("report")' /\ Staged("report")'
      BY <1>1, <1>2, <1>3, <2>2, <2>5, FrameKeeps DEF Staged, New
    <3>3. OnShelf("output")'
      BY <1>1, <1>3, <2>1, <2>5 DEF OnShelf, InBackup, Same, Late
    <3>4. Phase'
      BY <1>1, <1>2, <2>3, <2>5, <3>1, <3>2, <3>3 DEF Go, Phase, ReplacePhase
    <3>5. QED
      BY <1>1, <1>2, <2>1, <2>4, <3>1, <3>4, Goes DEF Allowed, ReplaceSteps
  <2>6. CASE n = "report"
    <3>1. Go("drop", "output")
      BY <1>4, <2>6 DEF AfterPut
    <3>2. Placed("output")'
      BY <1>1, <1>2, <1>3, <2>2, <2>6, FrameKeeps
    <3>3. Committed'
      BY <1>2, <2>3, <2>6, <3>2 DEF Committed, Placed, D
    <3>4. Phase'
      BY <1>1, <1>2, <3>1, <3>3 DEF Go, Phase, ReplacePhase
    <3>5. QED
      BY <1>1, <1>2, <2>1, <2>4, <3>1, <3>4, Goes DEF Allowed, ReplaceSteps
  <2>7. QED
    BY <1>2, <2>5, <2>6
<1>5. CASE Fail(TRUE) /\ AfterPutFails(n)
  <2>1. /\ failures' = failures + 1 /\ failures' \in Nat /\ OldKept /\ Typed
        /\ LateKept /\ WholeInv'
        /\ \A m \in Names : D(m)' = D(m) /\ B(m)' = B(m)
    BY <1>1, <1>2, <1>5, FailEffect
  <2>2. Shelved("report")' /\ OnShelf("output")' /\ OnShelf("report")' /\ AtLeast1'
    BY <1>1, <1>2, <1>3, <2>1, FrameKeeps DEF AtLeast1
  <2>3. CASE n = "output"
    <3>1. Go("restore", "output")
      BY <1>5, <2>3 DEF AfterPutFails
    <3>2. Shelved("output")'
      BY <1>1, <1>2, <1>3, <2>1, <2>3, FrameKeeps
    <3>3. Phase'
      BY <1>1, <1>2, <2>2, <3>1, <3>2 DEF Go, Phase, ReplacePhase
    <3>4. QED
      BY <1>1, <1>2, <2>1, <3>1, <3>3, Goes DEF Allowed, ReplaceSteps
  <2>4. CASE n = "report"
    <3>1. Go("takeback", "output")
      BY <1>5, <2>4 DEF AfterPutFails
    <3>2. Placed("output")'
      BY <1>1, <1>2, <1>3, <2>1, <2>4, FrameKeeps
    <3>3. Phase'
      BY <1>1, <1>2, <2>2, <3>1, <3>2 DEF Go, Phase, ReplacePhase
    <3>4. QED
      BY <1>1, <1>2, <2>1, <3>1, <3>3, Goes DEF Allowed, ReplaceSteps
  <2>5. QED
    BY <1>2, <2>3, <2>4
<1>6. QED
  BY <1>4, <1>5 DEF PutNew

LEMMA TakeBackStep ==
  ASSUME IInv, TakeBack
  PROVE  IInv'
<1>1. /\ Running /\ pc = <<"takeback", "output">> /\ pc[1] \in ReplaceSteps
      /\ UNCHANGED <<kind, overwrite, run, saved, before, others, copied, owed, result>>
      /\ Go("restore", "output")
  BY DEF TakeBack, At, FileStep, Keep, history, Running, ReplaceSteps
<1>2. /\ kind = "pair" /\ overwrite /\ Mine = Names /\ Mine' = Names
      /\ Names = {"output", "report"} /\ TypeInv /\ ReplacePhase
      /\ copied \in BOOLEAN /\ failures \in Nat /\ saved \subseteq Names
  BY <1>1, ReplacePair DEF Mine
<1>3. OnShelf("output") /\ Shelved("report") /\ OnShelf("report") /\ AtLeast1
  BY <1>1, <1>2, HeldFacts DEF ReplacePhase
<1>4. /\ failures' \in Nat /\ OldKept /\ Typed /\ LateKept /\ WholeInv' /\ AtLeast1'
      /\ OnShelf("output")' /\ (AtMost1' => Shelved("output")')
      /\ D("report")' = D("report") /\ B("report")' = B("report")
  <2>1. CASE Does(Rename(Dest("output"), Stage("output")))
    <3>1. /\ failures' = failures /\ D("output")' = Absent /\ B("output")' = B("output")
          /\ \A m \in Names : m # "output" => Frame(m)
          /\ OldKept /\ Typed
      BY <1>1, <1>2, <2>1, RenameEffect DEF Does
    <3>2. D("report")' = D("report") /\ B("report")' = B("report")
      BY <1>2, <3>1 DEF Frame
    <3>3. OnShelf("output")'
      BY <1>1, <1>3, <3>1 DEF OnShelf, InBackup, Same, Late
    <3>4. Shelved("output")'
      BY <1>1, <3>1, <3>3 DEF Shelved, OnShelf, Aside, Free, Untouched, Same
    <3>5. LateKept /\ WholeInv'
      BY <1>1, <1>2, <3>1, <3>2, WholeStep DEF LateKept
    <3>6. QED
      BY <1>2, <1>3, <3>1, <3>2, <3>3, <3>4, <3>5 DEF AtLeast1
  <2>2. CASE Fail(TRUE)
    <3>1. /\ failures' = failures + 1 /\ failures' \in Nat /\ OldKept /\ Typed
          /\ LateKept /\ WholeInv'
          /\ \A m \in Names : D(m)' = D(m) /\ B(m)' = B(m)
      BY <1>1, <1>2, <2>2, FailEffect
    <3>2. OnShelf("output")'
      BY <1>1, <1>2, <1>3, <3>1, FrameKeeps
    <3>3. ~AtMost1' /\ AtLeast1'
      BY <1>2, <1>3, <3>1 DEF AtLeast1, AtMost1
    <3>4. QED
      BY <1>2, <3>1, <3>2, <3>3
  <2>3. QED
    BY <2>1, <2>2 DEF TakeBack, Tries
<1>5. OnShelf("report")' /\ Shelved("report")'
  BY <1>1, <1>2, <1>3, <1>4, FrameKeeps
<1>6. Phase'
  BY <1>1, <1>2, <1>4, <1>5 DEF Go, Phase, ReplacePhase
<1>7. QED
  BY <1>1, <1>2, <1>4, <1>6, Goes DEF Allowed, ReplaceSteps

LEMMA RestoreStep ==
  ASSUME IInv, NEW n \in Names, Restore(n)
  PROVE  IInv'
<1>1. /\ Running /\ pc = <<"restore", n>> /\ pc[1] \in ReplaceSteps
      /\ UNCHANGED <<kind, overwrite, run, saved, before, others, copied, owed, result>>
  BY DEF Restore, At, FileStep, Keep, history, Running, ReplaceSteps
<1>2. /\ kind = "pair" /\ overwrite /\ Mine = Names /\ Mine' = Names
      /\ Names = {"output", "report"} /\ TypeInv /\ ReplacePhase
      /\ copied \in BOOLEAN /\ failures \in Nat /\ saved \subseteq Names
  BY <1>1, ReplacePair DEF Mine
<1>3. /\ OnShelf("report") /\ AtLeast1 /\ (AtMost1 => Shelved("report"))
      /\ OnShelf(n) /\ (AtMost1 => Shelved(n))
      /\ n = "report" => Held("output") /\ (AtMost1 => Untouched("output"))
  BY <1>1, <1>2 DEF ReplacePhase
<1>4. /\ failures' >= failures /\ failures' \in Nat
      /\ OldKept /\ Typed /\ LateKept /\ WholeInv'
      /\ Held(n)' /\ (AtMost1' => Untouched(n)')
      /\ \A m \in Names : m # n => D(m)' = D(m) /\ B(m)' = B(m)
  <2>1. CASE n \in saved
    <3>1. InBackup(n)
      BY <1>3, <2>1 DEF OnShelf
    <3>2. QED
      BY <1>1, <1>2, <1>3, <2>1, <3>1, RestoreEffect DEF Restore
  <2>2. CASE n \notin saved
    <3>1. UNCHANGED <<files, failures>>
      BY <2>2 DEF Restore
    <3>2. OldKept /\ Typed /\ \A m \in Names : D(m)' = D(m) /\ B(m)' = B(m)
      BY <1>1, <1>2, <3>1, SameEffect DEF Frame
    <3>3. LateKept /\ WholeInv'
      BY <1>1, <1>2, <3>2, WholeStep DEF LateKept
    <3>4. Held(n)'
      BY <1>1, <1>2, <1>3, <3>2, HeldFacts, FrameKeeps
    <3>5. AtMost1' => Untouched(n)'
      BY <1>1, <1>2, <1>3, <2>2, <3>1, <3>2, FrameKeeps DEF Shelved, AtMost1
    <3>6. QED
      BY <1>2, <3>1, <3>2, <3>3, <3>4, <3>5
  <2>3. QED
    BY <2>1, <2>2
<1>5. AtLeast1' /\ (AtMost1' => AtMost1)
  BY <1>2, <1>3, <1>4 DEF AtLeast1, AtMost1
<1>6. CASE n = "output"
  <2>1. Go("restore", "report")
    BY <1>6 DEF Restore
  <2>2. OnShelf("report")' /\ (AtMost1' => Shelved("report")')
    BY <1>1, <1>2, <1>3, <1>4, <1>5, <1>6, FrameKeeps
  <2>3. Phase'
    BY <1>1, <1>2, <1>4, <1>5, <1>6, <2>1, <2>2 DEF Go, Phase, ReplacePhase
  <2>4. QED
    BY <1>1, <1>2, <1>4, <2>1, <2>3, Goes DEF Allowed, ReplaceSteps
<1>7. CASE n = "report"
  <2>1. Go("clean", "output")
    BY <1>7 DEF Restore
  <2>2. Held("output")' /\ (AtMost1' => Untouched("output")')
    BY <1>1, <1>2, <1>3, <1>4, <1>5, <1>7, FrameKeeps
  <2>3. Phase'
    BY <1>1, <1>2, <1>4, <1>7, <2>1, <2>2 DEF Go, Phase, ReplacePhase
  <2>4. QED
    BY <1>1, <1>2, <1>4, <2>1, <2>3, Goes DEF Allowed
<1>8. QED
  BY <1>2, <1>6, <1>7

\* The backups go once everything is in place.
LEMMA DropStep ==
  ASSUME IInv, NEW n \in Names, Drop(n)
  PROVE  IInv'
<1>1. /\ Running /\ pc = <<"drop", n>> /\ pc[1] \in ReplaceSteps
      /\ UNCHANGED <<kind, overwrite, run, saved, before, others, copied, owed>>
  BY DEF Drop, At, Keep, history, Running, ReplaceSteps
<1>2. /\ kind = "pair" /\ overwrite /\ Mine = Names /\ Mine' = Names
      /\ Names = {"output", "report"} /\ TypeInv /\ ReplacePhase
      /\ copied \in BOOLEAN /\ failures \in Nat /\ saved \subseteq Names
  BY <1>1, ReplacePair DEF Mine
<1>3. Committed
  BY <1>1, <1>2 DEF ReplacePhase
<1>4. /\ failures' \in Nat /\ OldKept /\ Typed /\ LateKept /\ WholeInv'
      /\ \A m \in Names : D(m)' = D(m)
  <2>1. CASE Does(Delete(Backup(n)))
    <3>1. Put(Backup(n), Absent) /\ failures' = failures
      BY <2>1 DEF Does, Delete, Put
    <3>2. /\ B(n)' = Absent /\ D(n)' = D(n) /\ OldKept /\ Typed
          /\ \A m \in Names : m # n => Frame(m)
      BY <1>1, <1>2, <3>1, PutEffect DEF Option
    <3>3. \A m \in Names : m # n => D(m)' = D(m) /\ B(m)' = B(m)
      BY <3>2 DEF Frame
    <3>4. QED
      BY <1>1, <1>2, <3>1, <3>2, <3>3, WholeStep DEF LateKept
  <2>2. CASE Fail(TRUE)
    BY <1>1, <1>2, <2>2, FailEffect
  <2>3. CASE UNCHANGED <<files, failures>>
    <3>1. OldKept /\ Typed /\ \A m \in Names : D(m)' = D(m) /\ B(m)' = B(m)
      BY <1>1, <1>2, <2>3, SameEffect DEF Frame
    <3>2. QED
      BY <1>1, <1>2, <2>3, <3>1, WholeStep DEF LateKept
  <2>4. QED
    BY <2>1, <2>2, <2>3 DEF Drop, Tries
<1>5. Committed'
  BY <1>1, <1>2, <1>3, <1>4 DEF Committed, D, New
<1>6. CASE n = "output"
  <2>1. Go("drop", "report") /\ UNCHANGED result
    BY <1>6 DEF Drop
  <2>2. Phase'
    BY <1>1, <1>2, <1>5, <2>1 DEF Go, Phase, ReplacePhase
  <2>3. QED
    BY <1>1, <1>2, <1>4, <2>1, <2>2, Goes DEF Allowed, ReplaceSteps
<1>7. CASE n # "output"
  BY <1>1, <1>2, <1>4, <1>5, <1>7, Ending DEF Drop
<1>8. QED
  BY <1>6, <1>7

-----------------------------------------------------------------------------
(***************************************************************************)
(* A run begins, is stopped, and is not alone.                             *)
(***************************************************************************)

LEMMA InitInv == PublicationInit => IInv
<1> SUFFICES ASSUME PublicationInit PROVE IInv
  OBVIOUS
<1> DEFINE was == [by |-> 0, whole |-> TRUE]
<1>1. PICK there \in SUBSET Mine :
        files = [p \in Paths |-> IF p \in {Dest(n) : n \in there} THEN was ELSE Absent]
  BY DEF PublicationInit
<1>2. /\ kind \in {"single", "pair"} /\ overwrite \in BOOLEAN
      /\ run = 0 /\ pc = <<"idle", "output">> /\ saved = {} /\ result = Absent
      /\ before = [n \in Names |-> Absent] /\ others = {}
      /\ failures = 0 /\ copied = FALSE
      /\ owed = [n \in Names |-> files[Dest(n)]]
  BY DEF PublicationInit
<1>3. 0 \in 0 .. MaxRuns /\ Absent \in Option(Contents) /\ was \in Option(Contents)
  BY PublicationAssumption DEF Option, Contents
<1>4. files \in [Paths -> Option(Contents)] /\ \A p \in Paths : files[p] \in {Absent, was}
  BY <1>1, <1>3
<1>5. \A n \in Names, m \in 0 .. MaxRuns : files[<<"backup", n, m>>] = Absent
  BY <1>1 DEF Paths, Dest
<1>6. \A n \in Names : Dest(n) \in Paths /\ files[Dest(n)] \in {Absent, was}
  BY <1>3, <1>4 DEF Dest, Paths
<1>7. ~Running /\ Mine \subseteq Names /\ "output" \in Mine
  BY <1>2 DEF Running, Mine, Names
<1>8. TypeInv
  <2>1. PublicationTypeOK
    BY <1>2, <1>3, <1>4, <1>7 DEF PublicationTypeOK, Option
  <2>2. /\ before \in [Names -> Option(Contents)] /\ owed \in [Names -> Option(Contents)]
    BY <1>2, <1>3, <1>6
  <2>3. QED
    BY <1>2, <1>7, <2>1, <2>2 DEF TypeInv
<1>9. OwedInv
  BY <1>2, <1>7 DEF OwedInv, D
<1>10. ResultInv
  BY <1>2, <1>7, PublicationAssumption DEF ResultInv
<1>11. WholeInv
  <2>1. \A n \in Names : D(n) \in {Absent, was} /\ B(n) = Absent
    BY <1>2, <1>3, <1>5, <1>6 DEF D, B, Backup
  <2>2. QED
    BY <1>7, <2>1 DEF WholeInv
<1>12. FreshInv /\ LateInv
  BY <1>2, <1>5 DEF FreshInv, LateInv, LateFilesKept
<1>13. QED
  BY <1>7, <1>8, <1>9, <1>10, <1>11, <1>12 DEF IInv

LEMMA StartStep ==
  ASSUME IInv, Start
  PROVE  IInv'
<1>1. /\ ~Running /\ run < MaxRuns /\ overwrite' \in BOOLEAN /\ MayStart(overwrite')
      /\ run' = run + 1 /\ result' = Absent /\ pc' = <<"create", "output">>
      /\ saved' = {} /\ others' = {} /\ failures' = 0
      /\ before' = [n \in Names |-> files[Dest(n)]]
      /\ owed' = [n \in Names |-> IF Exists(Dest(n)) THEN files[Dest(n)] ELSE owed[n]]
      /\ UNCHANGED <<kind, files, copied>>
  BY DEF Start, Running, Go
<1>2. /\ TypeInv /\ PublicationTypeOK /\ OwedInv /\ WholeInv /\ FreshInv
      /\ Mine \subseteq Names /\ Mine' = Mine /\ "output" \in Mine
  BY <1>1 DEF IInv, TypeInv, Mine, Names
<1>3. run \in Nat /\ MaxRuns \in Nat /\ run' \in 0 .. MaxRuns
  BY <1>1, <1>2, PublicationAssumption DEF PublicationTypeOK
<1>4. Running'
  BY <1>1 DEF Running
<1>5. \A n \in Names : Dest(n) \in Paths /\ Dest(n)' = Dest(n)
  BY <1>2, PathFacts DEF Dest
<1>6. \A n \in Names : D(n)' = D(n) /\ before'[n] = D(n) /\ D(n) \in Option(Contents)
  BY <1>1, <1>2, <1>5 DEF D, PublicationTypeOK
<1>7. \A n \in Names : B(n)' = Absent
  BY <1>1, <1>2, <1>3 DEF B, Backup, FreshInv
<1>8. \A n \in Names : owed'[n] = IF D(n) # Absent THEN D(n) ELSE owed[n]
  BY <1>1 DEF Exists, D
<1>9. TypeInv'
  <2>1. PublicationTypeOK'
    BY <1>1, <1>2, <1>3 DEF PublicationTypeOK, Option
  <2>2. before' \in [Names -> Option(Contents)]
    BY <1>1, <1>6 DEF D
  <2>3. owed' \in [Names -> Option(Contents)]
    BY <1>1, <1>2, <1>6, <1>8 DEF TypeInv
  <2>4. QED
    BY <1>1, <1>2, <1>3, <2>1, <2>2, <2>3 DEF TypeInv
<1>10. Phase'
  <2>1. \A n \in Mine : Untouched(n)'
    BY <1>2, <1>6, <1>7 DEF Untouched, Same
  <2>2. ~overwrite' => \A n \in Mine : before'[n] = Absent
    BY <1>1, <1>2, <1>6 DEF MayStart, Exists, D
  <2>3. QED
    BY <1>1, <1>2, <1>7, <2>1, <2>2 DEF Phase, SinglePhase, ReplacePhase, NewPhase
<1>11. OwedInv'
  <2> SUFFICES ASSUME NEW n \in Mine, D(n) = Absent
               PROVE  owed[n] = Absent \/ InOldBackup(n, run - 1)'
    BY <1>2, <1>4, <1>6, <1>8 DEF OwedInv
  <2>1. ~Committed
    BY <1>2, ContentFacts DEF Committed, D
  <2>2. owed[n] \in {Absent, D(n)} \/ InOldBackup(n, run)
    BY <1>1, <1>2, <2>1 DEF OwedInv
  <2>3. InOldBackup(n, run) => InOldBackup(n, run - 1)'
    <3>1. owed'[n] = owed[n]
      BY <1>2, <1>8
    <3>2. QED
      BY <1>1, <1>3, <3>1 DEF InOldBackup
  <2>4. QED
    BY <2>2, <2>3
<1>12. ResultInv'
  BY <1>1, <1>4, PublicationAssumption DEF ResultInv
<1>13. WholeInv'
  BY <1>1, <1>2, <1>6, <1>7 DEF WholeInv
<1>14. FreshInv' /\ LateInv'
  BY <1>1, <1>2, <1>3 DEF FreshInv, LateInv, LateFilesKept
<1>15. QED
  BY <1>9, <1>10, <1>11, <1>12, <1>13, <1>14 DEF IInv

LEMMA StopStep ==
  ASSUME IInv, Stop
  PROVE  IInv'
<1>1. /\ Running /\ Ends("stopped") /\ TypeInv
      /\ UNCHANGED <<kind, overwrite, run, saved, before, others, copied, owed>>
      /\ UNCHANGED <<files, failures>>
      /\ saved \subseteq Names /\ copied \in BOOLEAN /\ failures \in Nat
  BY DEF Stop, Keep, history, IInv, TypeInv, PublicationTypeOK
<1>2. Mine \subseteq Names /\ Mine' = Mine /\ others \subseteq Mine
  BY <1>1 DEF Mine, Names, TypeInv
<1>3. OldKept /\ Typed /\ \A m \in Names : D(m)' = D(m) /\ B(m)' = B(m)
  BY <1>1, SameEffect DEF Frame
<1>4. LateKept /\ WholeInv'
  BY <1>1, <1>2, <1>3, WholeStep DEF LateKept
<1>5. Committed' \/ \A n \in Mine : Held(n)'
  <2>1. CASE Committed
    BY <1>1, <1>2, <1>3, <2>1 DEF Committed, D, New
  <2>2. CASE \A n \in Mine : Held(n)
    BY <1>1, <1>2, <1>3, <2>2, FrameKeeps
  <2>3. QED
    BY <1>1, <2>1, <2>2, HeldPhase
<1>6. QED
  BY <1>1, <1>2, <1>3, <1>4, <1>5, Ending

\* A file that appears where none is leaves all the rest as the run knows it.
LEMMA AppearKeeps ==
  ASSUME TypeInv, NEW n \in Names, D(n) = Absent, D(n)' = Late, others' = others \cup {n},
         UNCHANGED <<run, before, saved>>, NEW m \in Names,
         B(m)' = B(m), S(m)' = S(m), m # n => D(m)' = D(m)
  PROVE  /\ Untouched(m) => Untouched(m)'
         /\ Aside(m) => Aside(m)'
         /\ InBackup(m) => InBackup(m)'
         /\ Shelved(m) => Shelved(m)'
         /\ OnShelf(m) => OnShelf(m)'
         /\ Held(m) => Held(m)'
         /\ Placed(m) => Placed(m)'
         /\ Staged(m) => Staged(m)'
         /\ D(m) # Absent => D(m)' = D(m)
<1>1. Late # Absent /\ New # Absent
  BY ContentFacts
<1>2. Untouched(m) => Untouched(m)'
  BY <1>1 DEF Untouched, Same, Late
<1>3. InBackup(m) => InBackup(m)'
  BY DEF InBackup, Same, Late
<1>4. Aside(m) => Aside(m)'
  BY <1>3 DEF Aside, Free, Late
<1>5. (Shelved(m) => Shelved(m)') /\ (OnShelf(m) => OnShelf(m)')
  BY <1>2, <1>3, <1>4 DEF Shelved, OnShelf
<1>6. /\ Held(m) => Held(m)'
      /\ D(m) # Absent => D(m)' = D(m)
  BY DEF Held
<1>7. (Placed(m) => Placed(m)') /\ (Staged(m) => Staged(m)')
  BY <1>1 DEF Placed, Staged, New
<1>8. QED
  BY <1>2, <1>3, <1>4, <1>5, <1>6, <1>7

LEMMA AppearStep ==
  ASSUME IInv, NEW n \in Names, Appear(n)
  PROVE  IInv'
<1>1. /\ Running /\ n \in Mine /\ D(n) = Absent /\ Put(Dest(n), Late)
      /\ others' = others \cup {n}
      /\ UNCHANGED <<kind, overwrite, run, pc, saved, result, before, failures, copied, owed>>
  BY DEF Appear, Exists, D, Late
<1>2. /\ TypeInv /\ PublicationTypeOK /\ Phase /\ Mine \subseteq Names /\ Mine' = Mine
      /\ Running' /\ others \subseteq Mine
  BY <1>1 DEF IInv, TypeInv, Mine, Names, Running
<1>3. /\ D(n)' = Late /\ S(n)' = S(n) /\ B(n)' = B(n)
      /\ \A m \in Names : m # n => Frame(m)
      /\ OldKept /\ Typed
  BY <1>1, <1>2, ContentFacts, PutEffect DEF Option
<1>4. \A m \in Names : /\ B(m)' = B(m) /\ S(m)' = S(m) /\ (m # n => D(m)' = D(m))
  BY <1>3 DEF Frame
<1>5. \A m \in Names :
         /\ Untouched(m) => Untouched(m)'
         /\ Aside(m) => Aside(m)'
         /\ InBackup(m) => InBackup(m)'
         /\ Shelved(m) => Shelved(m)'
         /\ OnShelf(m) => OnShelf(m)'
         /\ Held(m) => Held(m)'
         /\ Placed(m) => Placed(m)'
         /\ Staged(m) => Staged(m)'
         /\ D(m) # Absent => D(m)' = D(m)
  BY <1>1, <1>2, <1>3, <1>4, AppearKeeps
<1>6. Committed => Committed'
  BY <1>1, <1>2, ContentFacts DEF Committed, D
<1>7. Phase'
  <2>1. New' = New /\ Part' = Part /\ Part # Absent
    BY <1>1, <1>2, ContentFacts DEF New, Part

  <2>2. "output" \in Names /\ "report" \in Names /\ pc[2] \in Names
    BY <1>2 DEF Names, PublicationTypeOK
  <2>3. PICK k \in Names : pc[2] = k
    BY <2>2
  <2>4. pc' = pc /\ (AtMost1' <=> AtMost1) /\ (AtLeast1' <=> AtLeast1)
        /\ failures' = failures /\ saved' = saved /\ before' = before
    BY <1>1 DEF AtMost1, AtLeast1
  <2>5. SinglePhase => SinglePhase'
    BY <1>5, <2>2, <2>4 DEF SinglePhase
  <2>6. NewPhase => NewPhase'
    <3> SUFFICES ASSUME NewPhase PROVE NewPhase'
      OBVIOUS
    <3>1. pc[1] \in {"link", "open"} =>
            /\ Staged("output")' /\ Staged("report")' /\ Untouched("report")'
            /\ IF pc[2] = "output" THEN Untouched("output")' ELSE Placed("output")'
      BY <1>5, <2>2 DEF NewPhase
    <3>2. pc[1] \in {"copy", "uncopy"} =>
            /\ Staged("output")' /\ Staged("report")' /\ D(k)' = Part /\ B(k)' = Absent
            /\ IF pc[2] = "output" THEN Untouched("report")' ELSE Placed("output")'
            /\ pc[1] = "uncopy" => AtLeast1
      BY <1>4, <1>5, <2>1, <2>2, <2>3 DEF NewPhase
    <3>3. /\ pc[1] = "unpublish" =>
               Placed("output")' /\ AtLeast1 /\ (AtMost1 => Untouched("report")')
          /\ pc[1] = "tidy" => Committed'
      BY <1>5, <1>6, <2>2 DEF NewPhase
    <3>4. \A m \in Mine : before[m] = Absent /\ B(m)' = Absent
      BY <1>2, <1>4 DEF NewPhase
    <3>5. QED
      BY <1>2, <2>1, <2>3, <2>4, <3>1, <3>2, <3>3, <3>4 DEF NewPhase
  <2>7. ReplacePhase => ReplacePhase'
    <3> SUFFICES ASSUME ReplacePhase PROVE ReplacePhase'
      OBVIOUS
    <3>1. pc[1] = "backup" =>
            /\ Staged("output")' /\ Staged("report")' /\ Untouched("report")'
            /\ "report" \in saved => D("report")' # Absent
            /\ "report" \notin saved => before["report"] = Absent
            /\ IF pc[2] = "output"
                 THEN /\ Untouched("output")' /\ ("output" \in saved => D("output")' # Absent)
                      /\ "output" \notin saved => before["output"] = Absent
                 ELSE Shelved("output")'
      BY <1>5, <2>2 DEF ReplacePhase
    <3>2. pc[1] = "unbackup" => Aside("output")' /\ Untouched("report")' /\ AtLeast1
      BY <1>5, <2>2 DEF ReplacePhase
    <3>3. pc[1] = "put" =>
            /\ Staged("report")' /\ Shelved("report")' /\ OnShelf("output")'
            /\ IF pc[2] = "output" THEN Staged("output")' /\ Shelved("output")'
               ELSE Placed("output")'
      BY <1>5, <2>2 DEF ReplacePhase
    <3>4. pc[1] = "takeback" =>
            Placed("output")' /\ OnShelf("output")' /\ Shelved("report")' /\ AtLeast1
      BY <1>5, <2>2 DEF ReplacePhase
    <3>5. pc[1] = "restore" =>
            /\ OnShelf("report")' /\ AtLeast1 /\ (AtMost1 => Shelved("report")')
            /\ IF pc[2] = "output"
                 THEN OnShelf("output")' /\ (AtMost1 => Shelved("output")')
                 ELSE Held("output")' /\ (AtMost1 => Untouched("output")')
      BY <1>5, <2>2 DEF ReplacePhase
    <3>6. pc[1] = "drop" => Committed'
      BY <1>6 DEF ReplacePhase
    <3>7. QED
      BY <2>4, <3>1, <3>2, <3>3, <3>4, <3>5, <3>6 DEF ReplacePhase
  <2>8. pc[1] \in {"create", "write", "commit"} =>
          /\ \A m \in Mine : Untouched(m)'
          /\ pc[2] = "report" \/ pc[1] = "commit" => Staged("output")'
          /\ pc[1] = "commit" => Staged("report")' /\ kind = "pair"
    BY <1>2, <1>5, <2>2 DEF Phase
  <2>9. pc[1] = "clean" => \A m \in Mine : Held(m)' /\ (AtMost1 => Untouched(m)')
    BY <1>2, <1>5 DEF Phase
  <2>10. QED
    BY <1>1, <1>2, <2>4, <2>5, <2>6, <2>7, <2>8, <2>9 DEF Phase
<1>8. OwedInv'
  <2>1. \A m \in Mine : IF before[m] # Absent THEN owed[m] = before[m]
                        ELSE owed[m] = Absent \/ InOldBackup(m, run - 1)
    BY <1>1 DEF IInv, OwedInv
  <2>2. ASSUME NEW m \in Mine PROVE InOldBackup(m, run - 1) => InOldBackup(m, run - 1)'
    <3>1. run \in Nat
      BY <1>2 DEF PublicationTypeOK
    <3>2. QED
      BY <1>1, <1>2, <1>3, <3>1 DEF InOldBackup, OldKept
  <2>3. QED
    BY <1>1, <1>2, <2>1, <2>2 DEF OwedInv
<1>9. ResultInv'
  BY <1>1, <1>2, PublicationAssumption DEF ResultInv, IInv
<1>10. WholeInv'
  BY <1>1, <1>2, <1>3, <1>4, WholeStep DEF IInv
<1>11. FreshInv'
  <2> SUFFICES ASSUME NEW x \in Names, NEW m \in 0 .. MaxRuns, m > run
               PROVE  files'[<<"backup", x, m>>] = Absent
    BY <1>1 DEF FreshInv
  <2>1. m # run /\ files[<<"backup", x, m>>] = Absent
    BY <1>2 DEF IInv, FreshInv, PublicationTypeOK
  <2>2. QED
    BY <1>3, <2>1 DEF OldKept
<1>12. LateInv'
  <2> SUFFICES ASSUME kind = "pair", ~overwrite, NEW m \in others' PROVE D(m)' = Late
    BY <1>1 DEF LateInv, LateFilesKept, D, Late
  <2>1. m # n => D(m) = Late
    BY <1>1 DEF IInv, LateInv, LateFilesKept, D, Late
  <2>2. QED
    BY <1>1, <1>2, <1>3, <1>4, <2>1
<1>13. TypeInv'
  <2>1. PublicationTypeOK'
    BY <1>1, <1>2, <1>3 DEF PublicationTypeOK, Typed
  <2>2. QED
    BY <1>1, <1>2, <2>1 DEF TypeInv
<1>14. QED
  BY <1>7, <1>8, <1>9, <1>10, <1>11, <1>12, <1>13 DEF IInv

LEMMA NextInv == IInv /\ [PublicationNext]_publicationVars => IInv'
<1> SUFFICES ASSUME IInv, [PublicationNext]_publicationVars PROVE IInv'
  OBVIOUS
<1>1. ASSUME NEW n \in Names, Create(n) \/ Write(n) \/ Clean(n)
      PROVE  IInv'
  BY <1>1, CreateStep, WriteStep, CleanStep
<1>2. CASE Check \/ Move \/ Replace \/ SetAside \/ ReplaceAgain \/ Forget \/ PutBack
  BY <1>2, CheckStep, MoveStep, SetAsideStep, ReplaceAgainStep, ForgetStep, PutBackStep
<1>3. ASSUME NEW n \in Names, Link(n) \/ OpenNew(n) \/ Copy(n) \/ Uncopy(n) \/ Tidy(n)
      PROVE  IInv'
  BY <1>3, LinkStep, OpenNewStep, CopyStep, UncopyStep, TidyStep
<1>4. ASSUME NEW n \in Names,
             BackUp(n) \/ BackUpFails(n) \/ PutNew(n) \/ Restore(n) \/ Drop(n)
      PROVE  IInv'
  BY <1>4, BackUpStep, BackUpFailsStep, PutNewStep, RestoreStep, DropStep
<1>5. CASE Start \/ Commit \/ Unpublish \/ UnBackUp \/ TakeBack \/ Stop
  BY <1>5, StartStep, CommitStep, UnpublishStep, UnBackUpStep, TakeBackStep, StopStep
<1>6. ASSUME NEW n \in Names, Appear(n) PROVE IInv'
  BY <1>6, AppearStep
<1>7. CASE UNCHANGED publicationVars
  <2>1. UNCHANGED <<kind, overwrite, files, run, pc, saved, result, before, others, failures,
                    copied, owed>>
    BY <1>7 DEF publicationVars, history
  <2>2. TypeInv' /\ WholeInv' /\ FreshInv' /\ LateInv'
    BY <2>1 DEF IInv, TypeInv, PublicationTypeOK, WholeInv, FreshInv, LateInv, LateFilesKept,
         D, B, Dest, Backup, Mine, Running
  <2>3. OwedInv' /\ ResultInv'
    BY <2>1 DEF IInv, OwedInv, ResultInv, InOldBackup, Running, Committed, AtMost1, Untouched,
         Same, D, B, Dest, Backup, Mine, New
  <2>4. ASSUME NEW n
        PROVE  /\ Untouched(n)' <=> Untouched(n)
               /\ Aside(n)' <=> Aside(n)
               /\ Shelved(n)' <=> Shelved(n)
               /\ OnShelf(n)' <=> OnShelf(n)
               /\ Held(n)' <=> Held(n)
               /\ Placed(n)' <=> Placed(n)
               /\ Staged(n)' <=> Staged(n)
               /\ D(n)' = D(n) /\ B(n)' = B(n)
    <3>1. D(n)' = D(n) /\ B(n)' = B(n) /\ S(n)' = S(n)
      BY <2>1 DEF D, B, S, Dest, Backup, Stage
    <3>2. QED
      BY <2>1, <3>1, FrameKeeps DEF Staged, New
  <2>5. /\ Committed' <=> Committed
        /\ (AtMost1' <=> AtMost1) /\ (AtLeast1' <=> AtLeast1)
        /\ Mine' = Mine /\ New' = New /\ Part' = Part
    BY <2>1 DEF Committed, AtMost1, AtLeast1, New, Part, Mine, Dest
  <2>6. (Running => Phase) => (Running => Phase)'
    <3>1. SinglePhase => SinglePhase'
      BY <2>1, <2>4, <2>5 DEF SinglePhase
    <3>2. NewPhase => NewPhase'
      <4>1. PICK k : pc[2] = k
        OBVIOUS
      <4>2. QED
        BY <2>1, <2>4, <2>5, <4>1 DEF NewPhase
    <3>3. ReplacePhase => ReplacePhase'
      BY <2>1, <2>4, <2>5 DEF ReplacePhase
    <3>4. QED
      BY <2>1, <2>4, <2>5, <3>1, <3>2, <3>3 DEF Phase, Running
  <2>7. QED
    BY <2>2, <2>3, <2>6 DEF IInv
<1>8. QED
  BY <1>1, <1>2, <1>3, <1>4, <1>5, <1>6, <1>7 DEF PublicationNext

\* The invariant holds in every reachable state.
THEOREM Invariant == PublicationSpec => []IInv
  BY InitInv, NextInv, PTL DEF PublicationSpec

\* A run takes the steps of its kind only, whatever fails and whoever else is there.
THEOREM TypeCorrect == PublicationSpec => []PublicationTypeOK
<1>1. IInv => PublicationTypeOK
  BY DEF IInv, TypeInv
<1>2. QED
  BY <1>1, Invariant, PTL

\* No file of the user's is lost, for any number of runs, failures and stops
\* (replace_existing_file, commit_adm_pair, restore_adm_backups).
THEOREM NothingLostHolds == PublicationSpec => []NothingLost
<1>1. IInv => NothingLost
  <2> SUFFICES ASSUME IInv PROVE NothingLost
    OBVIOUS
  <2>1. TypeInv /\ OwedInv /\ ResultInv /\ WholeInv /\ LateInv /\ Mine \subseteq Names
    BY DEF IInv, Mine, Names
  <2>2. \A n \in Mine : Dest(n) \in Paths /\ Backup(n) \in Paths
    BY <2>1, PathFacts
  <2>3. ASSUME NEW n \in Mine, owed[n] # Absent, ~Committed
        PROVE  \E p \in Paths : files[p] = owed[n]
    <3>1. ASSUME NEW r, InOldBackup(n, r) PROVE \E p \in Paths : files[p] = owed[n]
      BY <2>1, <3>1 DEF InOldBackup, Paths
    <3>2. ASSUME owed[n] \in {D(n), B(n)} PROVE \E p \in Paths : files[p] = owed[n]
      BY <2>2, <3>2 DEF D, B
    <3>3. CASE Running
      <4>1. Held(n)
        BY <2>3, <3>3, HeldPhase
      <4>2. IF before[n] # Absent THEN owed[n] = before[n]
            ELSE owed[n] = Absent \/ InOldBackup(n, run - 1)
        BY <2>1, <3>3 DEF OwedInv
      <4>3. QED
        BY <2>3, <3>1, <3>2, <4>1, <4>2 DEF Held
    <3>4. CASE ~Running
      <4>1. owed[n] \in {Absent, D(n)} \/ InOldBackup(n, run)
        BY <2>1, <2>3, <3>4 DEF OwedInv
      <4>2. QED
        BY <2>3, <3>1, <3>2, <4>1
    <3>5. QED
      BY <3>3, <3>4
  <2>4. copied \/ \A n \in Mine : Exists(Dest(n)) => files[Dest(n)].whole
    BY <2>1 DEF WholeInv, Exists, D
  <2>5. QED
    BY <2>1, <2>3, <2>4 DEF NothingLost, LateInv, ResultInv
<1>2. QED
  BY <1>1, Invariant, PTL

\* A run that one failed operation ended in an error has left every destination as it
\* was: a pair is never half replaced.
THEOREM FailureRestoresHolds == PublicationSpec => []FailureRestores
<1>1. IInv => FailureRestores
  BY DEF IInv, ResultInv, FailureRestores, AtMost1, Untouched, Same, Exists, D, B, Late
<1>2. QED
  BY <1>1, Invariant, PTL
=============================================================================
