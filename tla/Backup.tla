------------------------------- MODULE Backup -------------------------------
(***************************************************************************)
(* Backups of the database file, their retention, and the restore that     *)
(* replaces the database with one of them (operations/backup.py), next to  *)
(* the jobs, commands and requests that go on meanwhile.                   *)
(*                                                                         *)
(* The table of backups is part of the database: a copy holds the table    *)
(* as it was when the copy was made, without its own row, and a restore    *)
(* brings that table back, with the leases it had.  A process keeps its    *)
(* connection: after a restore it goes on with the file that was replaced. *)
(*                                                                         *)
(* Files are numbered in the order of their time stamps.  What is written  *)
(* is the numbers of the writes.  The preview of a restore and of a prune  *)
(* changes nothing, and what it looked at is looked at again after the     *)
(* operator has confirmed: only the second look is modelled.               *)
(***************************************************************************)
EXTENDS Integers, FiniteSets

CONSTANTS
  Worker,    \* processes: commands, scheduled jobs, the server
  Scheduled, \* the jobs that the scheduler runs
  Keep,      \* settings.backup_retention_count
  MaxFiles, MaxWrites, MaxFaults, \* bounds
  Nil

Job == {"pipeline", "backup"}

ASSUME BackupNumbers ==
  Scheduled \subseteq Job /\ Keep \in Nat \ {0} /\ MaxFiles \in Nat /\ MaxWrites \in Nat /\ MaxFaults \in Nat

File == 1..MaxFiles
BackupStatus == {"none", "verified", "failed", "pruned"}

VARIABLES
  live,    \* the database: writes, backup_records, leases, its condition
  files,   \* the copies in the backup directory, or Nil
  made,    \* how many there have been
  proc,    \* what each process is doing
  excused, \* files whose process was cut off, or whose record a restore or a late verify changed
  emptied, \* files that lost their content while a restore was to copy them
  written, \* how many writes there have been
  faults

bounds == <<written, faults>>
vars == <<live, files, made, proc, excused, emptied, bounds>>

\* sound: PRAGMA integrity_check is ok.  complete: the core tables are there.
Database ==
  [data : SUBSET (1..MaxWrites), records : [File -> BackupStatus], leases : SUBSET Job,
   sound : BOOLEAN, complete : BOOLEAN]
ASSUME NilAssumption == Nil \notin Database
NoRecords == [f \in File |-> "none"]

\* A file of no bytes, what sqlite3.connect leaves: it passes the integrity
\* check and has no tables.
Partial == [data |-> {}, records |-> NoRecords, leases |-> {}, sound |-> TRUE, complete |-> FALSE]

\* A process at the first step of what it does.
Doing(op, at, from, held) ==
  [op |-> op, at |-> at, file |-> 0, from |-> from, temp |-> Nil, stale |-> FALSE, held |-> held]
Idle == Doing("idle", "idle", 0, {})

Init ==
  /\ live = [data |-> {}, records |-> NoRecords, leases |-> {}, sound |-> TRUE, complete |-> TRUE]
  /\ files = [f \in File |-> Nil] /\ made = 0
  /\ proc = [w \in Worker |-> Idle]
  /\ excused = {} /\ emptied = {} /\ written = 0 /\ faults = 0

Fault == faults < MaxFaults /\ faults' = faults + 1 /\ UNCHANGED written

Becomes(w, step) == proc' = [proc EXCEPT ![w].at = step]

\* A statement of a process; it is lost on the file that was replaced.
Stored(w, database) == live' = IF proc[w].stale THEN live ELSE database

-----------------------------------------------------------------------------
(* Jobs and other writers *)

\* require_schema_head and the first reads: without its tables nothing starts.
Startable(w) == proc[w].op = "idle" /\ live.complete

\* A lease that no process works under has expired, or will.
TakeLease(w, job) ==
  /\ Startable(w)
  /\ job \in live.leases => \A u \in Worker : proc[u].op # job
  /\ live' = [live EXCEPT !.leases = @ \cup {job}]
  /\ proc' = [proc EXCEPT ![w] = Doing(job, IF job = "backup" THEN "begin" ELSE "work", 0, {})]
  /\ UNCHANGED <<files, made, excused, emptied, bounds>>

\* The dashboard starts, with its connections; first it brings the schema up,
\* that of an empty database too.
Serve(w) ==
  /\ proc[w].op = "idle"
  /\ live' = [live EXCEPT !.complete = TRUE]
  /\ proc' = [proc EXCEPT ![w] = Doing("serve", "work", 0, {})]
  /\ UNCHANGED <<files, made, excused, emptied, bounds>>

Write(w) ==
  /\ proc[w].at = "work" /\ written < MaxWrites
  /\ written' = written + 1
  /\ Stored(w, [live EXCEPT !.data = @ \cup {written + 1}])
  /\ UNCHANGED <<files, made, proc, excused, emptied, faults>>

\* run_job ends, in whatever way: its lease is released.
Released(w) == [live EXCEPT !.leases = @ \ {proc[w].op}]

Finish(w) ==
  /\ proc[w].at \in {"work", "done"}
  /\ Stored(w, Released(w)) /\ proc' = [proc EXCEPT ![w] = Idle]
  /\ UNCHANGED <<files, made, excused, emptied, bounds>>

-----------------------------------------------------------------------------
(* create *)

Create(w) ==
  /\ Startable(w)
  /\ proc' = [proc EXCEPT ![w] = Doing("create", "begin", 0, {})]
  /\ UNCHANGED <<live, files, made, excused, emptied, bounds>>

\* Asked for on the command line, and by its older name there.
BackupsCreate(w) == Create(w)
BackupAlias(w) == Create(w)

\* Connecting to the destination makes the file.
Begin(w) ==
  /\ proc[w].at = "begin" /\ made < MaxFiles
  /\ made' = made + 1 /\ files' = [files EXCEPT ![made + 1] = Partial]
  /\ proc' = [proc EXCEPT ![w].at = "copy", ![w].file = made + 1]
  /\ UNCHANGED <<live, excused, emptied, bounds>>

\* source.backup(target), of the file that has the name now.
Copy(w) ==
  /\ proc[w].at = "copy"
  /\ files' = [files EXCEPT ![proc[w].file] = live]
  /\ Becomes(w, "verify")
  /\ UNCHANGED <<live, made, excused, emptied, bounds>>

\* verify_file
Sound(f) == files[f] # Nil /\ files[f].sound /\ files[f].complete

\* The file is set aside, and the exception ends the command or the job.
Failed(w) == [live EXCEPT !.records[proc[w].file] = "failed"]
Verify(w) ==
  /\ proc[w].at = "verify"
  /\ IF Sound(proc[w].file) THEN Becomes(w, "record") /\ UNCHANGED <<live, excused>>
     ELSE /\ Stored(w, Failed(w))
          /\ proc' = [proc EXCEPT ![w] = IF @.op = "backup" THEN [@ EXCEPT !.at = "done"] ELSE Idle]
          /\ excused' = IF proc[w].stale THEN excused \cup {proc[w].file} ELSE excused
  /\ UNCHANGED <<files, made, emptied, bounds>>

\* The manifest, and the row.
Record(w) ==
  /\ proc[w].at = "record"
  /\ Stored(w, [live EXCEPT !.records[proc[w].file] = "verified"])
  /\ excused' = IF proc[w].stale THEN excused \cup {proc[w].file} ELSE excused
  /\ Becomes(w, IF proc[w].op = "restore" THEN "copied" ELSE "done")
  /\ UNCHANGED <<files, made, emptied, bounds>>

\* verify, of a backup that is there: it is looked at and hashed, and what
\* fails leaves its row as it is.
VerifyAgain(w) ==
  /\ Startable(w)
  /\ \E f \in File : Sound(f) /\ proc' = [proc EXCEPT ![w] = Doing("verify", "mark", f, {})]
  /\ UNCHANGED <<live, files, made, excused, emptied, bounds>>
BackupsVerify(w) == VerifyAgain(w)

\* Only then is the row selected and written: also one that a prune has done
\* with in the meantime.
Mark(w) ==
  /\ proc[w].at = "mark"
  /\ LET f == proc[w].from IN
       /\ Stored(w, IF live.records[f] = "none" THEN live ELSE [live EXCEPT !.records[f] = "verified"])
       /\ excused' = IF live.records[f] = "pruned" /\ ~proc[w].stale THEN excused \cup {f} ELSE excused
  /\ proc' = [proc EXCEPT ![w] = Idle]
  /\ UNCHANGED <<files, made, emptied, bounds>>

-----------------------------------------------------------------------------
(* prune *)

\* The rows before the one of f, newest first, of any status but PRUNED.
Newer(f) == {g \in File : g > f /\ live.records[g] \notin {"none", "pruned"}}

\* Files up to the horizon are older than the retention days, which are one at
\* least: no restore takes so long.
Horizons == {h \in 0..made : \A w \in Worker : proc[w].op = "restore" /\ proc[w].file > 0 => h < proc[w].file}
Targets(h) ==
  {f \in File : live.records[f] \notin {"none", "pruned"} /\ (Cardinality(Newer(f)) >= Keep \/ f <= h)}

\* The files are deleted one by one, and then the rows are written.
Unlink(w) ==
  /\ Startable(w)
  /\ \E targets \in {Targets(h) : h \in Horizons} \ {{}} :
       /\ files' = [f \in File |-> IF f \in targets THEN Nil ELSE files[f]]
       /\ proc' = [proc EXCEPT ![w] = Doing("prune", "pruned", 0, targets)]
  /\ UNCHANGED <<live, made, excused, emptied, bounds>>

\* The command has listed the targets before; they are looked for anew.
BackupsPrune(w) == Unlink(w)

\* Mutant of Pruned: only the rows of files that were still there.
PrunedIfThere(w) == [live EXCEPT !.records = [f \in File |-> IF f \in proc[w].held /\ files[f] # Nil THEN "pruned" ELSE @[f]]]

Pruned(w) == [live EXCEPT !.records = [f \in File |-> IF f \in proc[w].held THEN "pruned" ELSE @[f]]]

CommitPrune(w) ==
  /\ proc[w].at = "pruned"
  /\ Stored(w, Pruned(w)) /\ proc' = [proc EXCEPT ![w] = Idle]
  /\ excused' = IF proc[w].stale THEN excused \cup proc[w].held ELSE excused
  /\ UNCHANGED <<files, made, emptied, bounds>>

-----------------------------------------------------------------------------
(* restore *)

\* Mutant of AfterChecks: no safety backup.
AfterChecksUnsafe == "copied"

\* self.create()
AfterChecks == "begin"

\* The backup is verified and no lease is active, then a safety backup.
Restore(w, f) ==
  /\ Startable(w) /\ Sound(f) /\ live.leases = {}
  /\ proc' = [proc EXCEPT ![w] = Doing("restore", AfterChecks, f, live.data)]
  /\ UNCHANGED <<live, files, made, excused, emptied, bounds>>

\* The command has done the same before it asked the operator.
BackupsRestore(w) == \E f \in File : Restore(w, f)

\* Mutant of Validated: the temporary copy is not looked at again.
ValidatedNot(copy) == copy # Nil

\* The integrity check of the temporary copy, not the tables that verify_file
\* asks for.
Validated(copy) == copy # Nil /\ copy.sound

\* What is in a copy: nothing, if the file has been emptied.
Content(copy) == IF copy.complete THEN copy ELSE Partial

\* shutil.copy2 and the check; either may raise, and the command ends.
CopyBack(w) ==
  /\ proc[w].at = "copied"
  /\ LET copy == files[proc[w].from] IN
       proc' = [proc EXCEPT ![w] = IF Validated(copy) THEN [@ EXCEPT !.at = "replace", !.temp = Content(copy)]
                                  ELSE Idle]
  /\ UNCHANGED <<live, files, made, excused, emptied, bounds>>

\* Files and rows that do not fit each other with these records.
Misfits(records) == {f \in File : (files[f] # Nil) # (records[f] \in {"verified", "failed"})}

Replace(w) ==
  /\ proc[w].at = "replace"
  /\ live' = proc[w].temp /\ excused' = excused \cup Misfits(proc[w].temp.records)
  /\ proc' = [u \in Worker |-> IF u = w \/ proc[u].op = "idle" THEN Idle ELSE [proc[u] EXCEPT !.stale = TRUE]]
  /\ UNCHANGED <<files, made, emptied, bounds>>

\* Windows replaces no file that another process has open.
ReplaceRefused(w) ==
  /\ proc[w].at = "replace" /\ \E u \in Worker \ {w} : proc[u].op # "idle"
  /\ proc' = [proc EXCEPT ![w] = Idle]
  /\ UNCHANGED <<live, files, made, excused, emptied, bounds>>

-----------------------------------------------------------------------------
(* What happens to it *)

\* A process is killed, or the disk is full.
Die(w) ==
  /\ proc[w].op # "idle" /\ Fault
  /\ proc' = [proc EXCEPT ![w] = Idle]
  /\ excused' = excused \cup (IF proc[w].at = "pruned" THEN proc[w].held ELSE {proc[w].file} \ {0})
  /\ UNCHANGED <<live, files, made, emptied>>

Rot(f) ==
  /\ Sound(f) /\ Fault
  /\ files' = [files EXCEPT ![f].sound = FALSE]
  /\ UNCHANGED <<live, made, proc, excused, emptied>>

\* Emptied, or cut off to nothing by a tool that copies backups elsewhere.
Awaited(f) == \E w \in Worker : proc[w].op = "restore" /\ proc[w].at # "replace" /\ proc[w].from = f
Truncate(f) ==
  /\ Sound(f) /\ Fault
  /\ files' = [files EXCEPT ![f].complete = FALSE]
  /\ emptied' = IF Awaited(f) THEN emptied \cup {f} ELSE emptied
  /\ UNCHANGED <<live, made, proc, excused>>

Step(w) ==
  \/ Write(w) \/ Finish(w) \/ Begin(w) \/ Copy(w) \/ Verify(w) \/ Record(w) \/ Mark(w)
  \/ CommitPrune(w) \/ CopyBack(w) \/ Replace(w) \/ ReplaceRefused(w)

Next ==
  \/ \E w \in Worker :
       \/ Step(w) \/ Serve(w) \/ Die(w)
       \/ Create(w) \/ BackupsCreate(w) \/ BackupAlias(w)
       \/ VerifyAgain(w) \/ BackupsVerify(w)
       \/ Unlink(w) \/ BackupsPrune(w) \/ BackupsRestore(w)
       \/ \E job \in Scheduled : TakeLease(w, job)
  \/ \E f \in File : Rot(f) \/ Truncate(f)

Spec == Init /\ [][Next]_vars

-----------------------------------------------------------------------------
(* Properties *)

TypeOK ==
  /\ live \in Database
  /\ files \in [File -> Database \cup {Nil}]
  /\ made \in 0..MaxFiles
  /\ excused \subseteq File /\ emptied \subseteq File

\* "validates the input": the database is never a damaged copy, although a
\* file may be damaged after the command has verified it; and it lacks the
\* tables only if a file was emptied after a restore had verified it and before
\* it copied it, which the second look lets pass.
LiveIsSound == live.sound /\ (live.complete \/ emptied # {})

\* Does not hold: PRAGMA integrity_check says ok of a file of no bytes, and the
\* dashboard builds the tables when it starts next, without what was in them.
LiveIsWhole == live.complete

\* "creates a safety backup first": what the database held when a restore was
\* begun is in one file of the backup directory when the database is replaced,
\* the safety backup or one made after it, unless another restore has come first.
RestoreKeepsReplaced ==
  [][\A w \in Worker : Replace(w) /\ ~proc[w].stale =>
       \E f \in File : f >= proc[w].file /\ files[f] # Nil /\ proc[w].held \subseteq files[f].data]_vars

\* The directory and the table of backups agree, but for the files some
\* process is working on, or whose process was cut off or left behind by a
\* restore, and those whose row a restore has changed, or a verify that had
\* looked at the file before a prune deleted it and wrote after it.
Busy == {proc[w].file : w \in Worker} \cup UNION {proc[w].held : w \in {u \in Worker : proc[u].op = "prune"}}
DirectoryIsLedger == Misfits(live.records) \subseteq excused \cup Busy

\* A backup that is PRUNED stays so, but for a restore.  Does not hold: verify
\* writes VERIFIED over it, and the file is gone.
PrunedIsFinal ==
  [][\A f \in File : live.records[f] = "pruned" =>
       live'.records[f] = "pruned" \/ \E w \in Worker : Replace(w)]_vars

\* "Restore ... refuses active jobs".  Does not hold: leases are looked at
\* before the safety backup is made, and a job may begin until the database is
\* replaced.
RestoreRefusesJobs ==
  [][\A w \in Worker : Replace(w) => \A u \in Worker : proc[u].op \notin Job]_vars
=============================================================================
