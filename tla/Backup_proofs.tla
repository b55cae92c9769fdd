---------------------------- MODULE Backup_proofs ----------------------------
(***************************************************************************)
(* The safety of backups for every number of processes, files and writes   *)
(* and every retention.  The invariant that carries it follows the number  *)
(* of a file from the copy to its row: no database, live or copied, has a  *)
(* row for a file that is still being made, a file that a prune holds is   *)
(* gone, of the rows from the safety backup of a restore on the newest has *)
(* its file, and a restore that has verified its file still finds the      *)
(* tables in it, or the file was emptied since.                            *)
(***************************************************************************)
EXTENDS Backup, FiniteSetTheorems, TLAPS

\* What each process is doing: the steps that each operation has.
Process ==
  [op : {"idle", "serve", "create", "verify", "prune", "restore"} \cup Job,
   at : {"idle", "work", "begin", "copy", "verify", "record", "done", "mark", "pruned", "copied", "replace"},
   file : 0..MaxFiles, from : 0..MaxFiles, temp : Database \cup {Nil}, stale : BOOLEAN, held : SUBSET Nat]

Making == {"copy", "verify", "record"}

Shaped(p, files_made) ==
  /\ p.op = "idle" <=> p.at = "idle"
  /\ p.op = "prune" <=> p.at = "pruned"
  /\ p.op = "prune" => p.held \subseteq File
  /\ p.op = "verify" <=> p.at = "mark"
  /\ p.op = "verify" => p.from \in File
  /\ p.op = "restore" => p.from \in 1..files_made /\ p.from \in File /\ p.at # "work"
  /\ p.at \in {"copied", "replace"} => p.op = "restore"
  /\ p.at = "begin" => p.file = 0
  /\ p.at \in Making \cup {"copied", "replace"} => p.file \in 1..files_made

\* The types, and which step belongs to which operation.
Types == TypeOK /\ written \in Nat /\ proc \in [Worker -> Process] /\ \A w \in Worker : Shaped(proc[w], made)

\* What the second look lets pass: a sound copy, of a file with its tables unless
\* one was emptied while it was awaited.
Passable(copy) == copy \in Database /\ copy.sound /\ (copy.complete \/ emptied # {})

\* A restore is about to put such a copy in place.
TempIsSound == \A w \in Worker : proc[w].at = "replace" => Passable(proc[w].temp)

\* The file of a restore has its tables until the copy is made.
FromIsWhole ==
  \A w \in Worker : proc[w].op = "restore" /\ proc[w].at # "replace" =>
    files[proc[w].from] = Nil \/ files[proc[w].from].complete \/ proc[w].from \in emptied

\* A file that nothing was copied to yet has none.
Unwritten == \A w \in Worker : proc[w].at = "copy" => files[proc[w].file] = Nil \/ ~files[proc[w].file].complete

\* A process makes f; a prune has deleted it, and not written so yet.
InMaking(f) == \E w \in Worker : proc[w].at \in Making /\ proc[w].file = f
InPruning(f) == \E w \in Worker : proc[w].op = "prune" /\ f \in proc[w].held

\* A file is made by one process and stays until it has its row.
MadeAlone ==
  /\ \A u, w \in Worker : u # w /\ {proc[u].at, proc[w].at} \subseteq Making => proc[u].file # proc[w].file
  /\ \A f \in File : InMaking(f) => files[f] # Nil
  /\ \A f \in File : files[f] # Nil => f <= made

\* No database, the live one, a copy or a temporary copy, has a row of f.
Rowless(f) ==
  /\ live.records[f] = "none"
  /\ \A g \in File : files[g] # Nil => files[g].records[f] = "none"
  /\ \A w \in Worker : proc[w].temp # Nil => proc[w].temp.records[f] = "none"
NoRowYet == \A f \in File : f > made \/ InMaking(f) => Rowless(f)

\* What a prune holds was recorded, is gone, and does not come back.
HeldIsGone ==
  /\ \A f \in File : InPruning(f) => f <= made /\ ~InMaking(f) /\ files[f] = Nil
  /\ \A w \in Worker : proc[w].op = "prune" /\ ~proc[w].stale => \A f \in proc[w].held : live.records[f] # "none"

\* DirectoryIsLedger, with fewer files excepted: a process that is through
\* with its file is not an excuse any more.
Ledger == \A f \in Misfits(live.records) : f \in excused \/ InMaking(f) \/ InPruning(f)

Listed(f) == live.records[f] \notin {"none", "pruned"}

\* The newest row from f on has its file.  What was pruned is older, so that no
\* verify that writes over it takes its place.
NewestKept(f) ==
  \E g \in File : g >= f /\ Listed(g) /\ files[g] # Nil /\ \A k \in File : k > g => live.records[k] = "none"

\* A copy of what there was when a restore whose first file is f began: it has
\* a row, or will have one.  What a killed process has left has none.
Copied(f) == live.records[f] # "none" \/ \E u \in Worker : proc[u].at \in {"verify", "record"} /\ proc[u].file = f

\* What a restore has to find when it is through: held is in the copies made
\* since its own, the first, and the newest row since is one with a file.
KeptInCopies(first, held) ==
  \A g \in File : g >= first /\ files[g] # Nil /\ Copied(g) => held \subseteq files[g].data
NoneOrNewestKept(first) == (\A g \in File : g >= first => live.records[g] = "none") \/ NewestKept(first)

\* A restore that no other restore has overtaken: the database still holds what
\* it held, and so does every copy made since.
Safe(p) ==
  p.op = "restore" /\ ~p.stale =>
    /\ p.held \subseteq live.data
    /\ p.file > 0 => KeptInCopies(p.file, p.held) /\ NoneOrNewestKept(p.file)
    /\ p.at \in {"copied", "replace"} => NewestKept(p.file)
SafetyKept == \A w \in Worker : Safe(proc[w])

IInv ==
  /\ Types
  /\ LiveIsSound /\ TempIsSound /\ FromIsWhole /\ Unwritten
  /\ MadeAlone /\ NoRowYet /\ HeldIsGone /\ Ledger
  /\ SafetyKept

-----------------------------------------------------------------------------

LEMMA InitIInv == Init => IInv
<1> SUFFICES ASSUME Init PROVE IInv
  OBVIOUS
<1>1. Types
  BY BackupNumbers DEF Init, Types, Shaped, TypeOK, Database, NoRecords, BackupStatus, Process, Idle, Doing, Job, File, Making
<1>2. LiveIsSound /\ TempIsSound /\ SafetyKept /\ FromIsWhole /\ Unwritten
  BY DEF Init, LiveIsSound, TempIsSound, SafetyKept, Safe, Idle, Doing, FromIsWhole, Unwritten
<1>3. \A f : ~InMaking(f) /\ ~InPruning(f)
  BY DEF Init, InMaking, InPruning, Idle, Doing, Making
<1>4. MadeAlone /\ HeldIsGone
  BY <1>3 DEF Init, MadeAlone, HeldIsGone, Idle, Doing, Making
<1>5. NoRowYet
  BY DEF Init, NoRowYet, Rowless, NoRecords, Idle, Doing
<1>6. Ledger
  BY DEF Init, Ledger, Misfits, NoRecords
<1>7. QED
  BY <1>1, <1>2, <1>4, <1>5, <1>6 DEF IInv

-----------------------------------------------------------------------------
(* What a step does to one process *)

LEMMA IdleIsProcess ==
  /\ Idle \in Process /\ \A m : Shaped(Idle, m)
  /\ Idle.op = "idle" /\ Idle.at = "idle" /\ Idle.temp = Nil
BY BackupNumbers DEF Idle, Doing, Process, Shaped, Making, Job

\* A process goes on, and the others do what they did.
LEMMA ProcessGoesOn ==
  ASSUME Types, NEW w \in Worker, NEW p \in Process, made' \in Nat, made <= made', Shaped(p, made'),
         proc' = [proc EXCEPT ![w] = p]
  PROVE  /\ proc' \in [Worker -> Process] /\ \A v \in Worker : Shaped(proc'[v], made')
         /\ proc'[w] = p /\ \A v \in Worker \ {w} : proc'[v] = proc[v]
<1>1. proc' \in [Worker -> Process] /\ proc'[w] = p /\ \A v \in Worker \ {w} : proc'[v] = proc[v]
  BY DEF Types
<1>2. \A v \in Worker : Shaped(proc[v], made')
  <2> TAKE v \in Worker
  <2>1. made \in Nat
    BY BackupNumbers DEF Types, TypeOK
  <2>2. PICK q \in Process : q = proc[v]
    BY DEF Types
  <2>3. QED
    BY <2>1, <2>2 DEF Types, Shaped, Process
<1>3. QED
  BY <1>1, <1>2

\* What the others have to find, they find, and so does the process that went on.
LEMMA SafetyGoesOn ==
  ASSUME Types, NEW w \in Worker, NEW p \in Process, proc'[w] = p, \A v \in Worker \ {w} : proc'[v] = proc[v],
         SafetyKept, Safe(p)', \A q \in Process : (\E v \in Worker : proc[v] = q) /\ Safe(q) => Safe(q)'
  PROVE  SafetyKept'
<1> SUFFICES ASSUME NEW v \in Worker PROVE Safe(proc[v])'
  BY DEF SafetyKept
<1>1. CASE v = w
  BY <1>1 DEF Safe
<1>2. CASE v # w
  <2>1. PICK q \in Process : q = proc[v] /\ q = proc'[v]
    BY <1>2 DEF Types
  <2>2. Safe(q)'
    BY <2>1 DEF SafetyKept
  <2>3. QED
    BY <2>1, <2>2 DEF Safe
<1>3. QED
  BY <1>1, <1>2

\* The work of a process that makes no file and prunes none.
Quiet(p) == p.at \notin Making /\ p.op # "prune"

LEMMA QuietStep ==
  ASSUME IInv, NEW w \in Worker, NEW p \in Process, Shaped(p, made), Quiet(p), Quiet(proc[w]),
         proc' = [proc EXCEPT ![w] = p],
         p.temp # Nil => \A f \in File : Rowless(f) => p.temp.records[f] = "none",
         p.at = "replace" => Passable(p.temp),
         p.op = "restore" /\ p.at # "replace" =>
           files[p.from] = Nil \/ files[p.from].complete \/ p.from \in emptied,
         p.op = "restore" /\ ~p.stale =>
           /\ p.held \subseteq live'.data
           /\ \/ p.file = 0 /\ p.at = "begin"
              \/ /\ proc[w].op = "restore" /\ ~proc[w].stale /\ proc[w].held = p.held /\ proc[w].file = p.file
                 /\ proc[w].at = "copied",
         live' \in Database, live'.records = live.records, live'.sound, live.complete => live'.complete,
         live.data \subseteq live'.data, written' \in Nat, UNCHANGED <<files, made, excused, emptied>>
  PROVE  IInv'
<1>0. /\ proc' \in [Worker -> Process] /\ \A v \in Worker : Shaped(proc'[v], made')
      /\ proc'[w] = p /\ \A v \in Worker \ {w} : proc'[v] = proc[v]
  BY ProcessGoesOn DEF IInv, Types, TypeOK
<1>1. Types'
  BY <1>0 DEF IInv, Types, TypeOK, File, BackupNumbers
<1>2. \A f : InMaking(f)' <=> InMaking(f)
  BY <1>0 DEF InMaking, IInv, Quiet
<1>3. \A f : InPruning(f)' <=> InPruning(f)
  BY <1>0 DEF InPruning, IInv, Quiet
<1>4. LiveIsSound' /\ TempIsSound' /\ FromIsWhole' /\ Unwritten'
  <2>1. LiveIsSound' /\ TempIsSound'
    BY <1>0 DEF LiveIsSound, TempIsSound, Passable, IInv
  <2>2. FromIsWhole'
    BY <1>0 DEF FromIsWhole, IInv
  <2>3. Unwritten'
    BY <1>0 DEF Unwritten, Quiet, Making, IInv
  <2>4. QED
    BY <2>1, <2>2, <2>3
<1>5. MadeAlone'
  BY <1>2, <1>0 DEF MadeAlone, IInv, Quiet
<1>6. NoRowYet'
  <2>1. ASSUME NEW f \in File, Rowless(f) PROVE Rowless(f)'
    BY <2>1, <1>0 DEF Rowless, IInv
  <2>2. QED
    BY <2>1, <1>2 DEF NoRowYet, IInv
<1>7. HeldIsGone' /\ Ledger'
  BY <1>0, <1>2, <1>3 DEF HeldIsGone, Ledger, Misfits, IInv, Quiet
<1>8. SafetyKept'
  <2>1. \A f : Listed(f)' <=> Listed(f)
    BY DEF Listed
  <2>2. \A f : NewestKept(f)' <=> NewestKept(f)
    BY <2>1 DEF NewestKept
  <2>3. \A f : Copied(f)' <=> Copied(f)
    BY <1>0 DEF Copied, IInv, Quiet, Making
  <2>4. \A f, held : KeptInCopies(f, held)' <=> KeptInCopies(f, held)
    BY <2>3 DEF KeptInCopies
  <2>5. \A f : NoneOrNewestKept(f)' <=> NoneOrNewestKept(f)
    BY <2>1, <2>2 DEF NoneOrNewestKept
  <2>6. ASSUME NEW q, Safe(q) PROVE Safe(q)'
    BY <2>2, <2>4, <2>5, <2>6 DEF Safe
  <2>7. Safe(p)'
    <3>1. CASE p.file = 0 /\ p.at = "begin"
      BY <3>1 DEF Safe
    <3>2. CASE p.op = "restore" /\ ~p.stale /\ ~(p.file = 0 /\ p.at = "begin")
      <4>1. PICK q \in Process : q = proc[w]
        BY DEF IInv, Types
      <4>2. Safe(q)
        BY <4>1 DEF IInv, SafetyKept
      <4>3. q.op = "restore" /\ ~q.stale /\ q.held = p.held /\ q.file = p.file /\ q.at = "copied"
        BY <4>1, <3>2
      <4>4. QED
        BY <2>2, <2>4, <2>5, <4>2, <4>3, <3>2 DEF Safe
    <3>3. CASE ~(p.op = "restore" /\ ~p.stale)
      BY <3>3 DEF Safe
    <3>4. QED
      BY <3>1, <3>2, <3>3
  <2>8. QED
    BY <2>6, <2>7, <1>0, SafetyGoesOn DEF IInv
<1>9. QED
  BY <1>1, <1>4, <1>5, <1>6, <1>7, <1>8 DEF IInv

(* The steps of that kind *)

LEMMA DoingIsProcess ==
  ASSUME NEW op \in {"serve", "create", "verify", "prune", "restore"} \cup Job,
         NEW at \in {"work", "begin", "mark", "pruned"},
         NEW from \in 0..MaxFiles, NEW held \in SUBSET Nat
  PROVE  \E p \in Process : /\ p = Doing(op, at, from, held) /\ p.op = op /\ p.at = at /\ p.file = 0
                           /\ p.from = from /\ p.temp = Nil /\ p.held = held
<1>1. Doing(op, at, from, held) \in Process
  BY BackupNumbers DEF Doing, Process
<1>2. PICK p \in Process : p = Doing(op, at, from, held)
  BY <1>1
<1>3. p.op = op /\ p.at = at /\ p.file = 0 /\ p.from = from /\ p.temp = Nil /\ p.held = held
  BY <1>2 DEF Doing
<1>4. QED
  BY <1>2, <1>3

\* What begins without a backup to come back to.
LEMMA StartsQuietly ==
  ASSUME IInv, NEW w \in Worker, proc[w].op = "idle",
         NEW op \in {"serve", "create"} \cup Job, NEW at \in {"work", "begin"},
         proc' = [proc EXCEPT ![w] = Doing(op, at, 0, {})],
         live' \in Database, live'.records = live.records, live'.sound, live.complete => live'.complete,
         live.data \subseteq live'.data, written' \in Nat, UNCHANGED <<files, made, excused, emptied>>
  PROVE  IInv'
<1>1. Quiet(proc[w])
  BY DEF Quiet, IInv, Types, Shaped, Making
<1>2. PICK p \in Process : /\ p = Doing(op, at, 0, {}) /\ p.op = op /\ p.at = at /\ p.file = 0
                           /\ p.temp = Nil
  BY BackupNumbers, DoingIsProcess
<1>3. Shaped(p, made) /\ Quiet(p) /\ p.op # "restore" /\ p.at # "replace"
  BY <1>2 DEF Shaped, Quiet, Making, Job
<1>4. proc' = [proc EXCEPT ![w] = p]
  BY <1>2
<1>5. QED
  BY <1>1, <1>2, <1>3, <1>4, QuietStep

LEMMA ServeStep == ASSUME IInv, NEW w \in Worker, Serve(w) PROVE IInv'
<1>1. PICK d \in Database : d = live /\ d.sound /\ written \in Nat
  BY DEF IInv, Types, TypeOK, LiveIsSound
<1>2. live' = [d EXCEPT !.complete = TRUE]
  BY <1>1 DEF Serve
<1>3. /\ live' \in Database /\ live'.records = live.records /\ live'.sound /\ live'.complete
      /\ live.data \subseteq live'.data
  BY <1>1, <1>2 DEF Database
<1>4. QED
  BY <1>1, <1>3, StartsQuietly DEF bounds, Serve

LEMMA CreateStep == ASSUME IInv, NEW w \in Worker, Create(w) PROVE IInv'
<1>1. live \in Database /\ live.sound /\ written \in Nat
  BY DEF IInv, Types, TypeOK, LiveIsSound
<1>2. QED
  BY <1>1, StartsQuietly DEF bounds, Create, Startable

LEMMA TakeLeaseStep == ASSUME IInv, NEW w \in Worker, NEW job \in Job, TakeLease(w, job) PROVE IInv'
<1> DEFINE step == IF job = "backup" THEN "begin" ELSE "work"
<1>1. PICK d \in Database : d = live /\ d.sound /\ written \in Nat
  BY DEF IInv, Types, TypeOK, LiveIsSound
<1>2. live' = [d EXCEPT !.leases = @ \cup {job}]
  BY <1>1 DEF TakeLease
<1>3. /\ live' \in Database /\ live'.records = live.records /\ live'.sound /\ live'.complete = live.complete
      /\ live.data \subseteq live'.data
  BY <1>1, <1>2 DEF Database
<1>4. proc' = [proc EXCEPT ![w] = Doing(job, step, 0, {})]
  BY DEF TakeLease
<1>5. step \in {"work", "begin"}
  OBVIOUS
<1>6. QED
  BY <1>1, <1>3, <1>4, <1>5, StartsQuietly DEF bounds, TakeLease, Startable

LEMMA RestoreStep == ASSUME IInv, NEW w \in Worker, NEW f \in File, Restore(w, f) PROVE IInv'
<1>1. live \in Database /\ live.sound /\ written \in Nat
  BY DEF IInv, Types, TypeOK, LiveIsSound
<1>2. PICK p \in Process : /\ p = Doing("restore", "begin", f, live.data) /\ p.op = "restore" /\ p.at = "begin"
                           /\ p.file = 0 /\ p.from = f /\ p.temp = Nil /\ p.held = live.data
  <2>1. f \in 0..MaxFiles /\ live.data \in SUBSET Nat
    BY <1>1, BackupNumbers DEF Database, File
  <2>2. QED
    BY <2>1, DoingIsProcess
<1>0. files[f] # Nil /\ files[f].complete /\ f <= made /\ made \in Nat
  BY BackupNumbers DEF Restore, Sound, MadeAlone, IInv, Types, TypeOK
<1>3. Shaped(p, made) /\ Quiet(p)
  BY <1>0, <1>2 DEF Shaped, Quiet, Making, File
<1>4. Quiet(proc[w])
  BY DEF Quiet, IInv, Types, Shaped, Making, Restore, Startable
<1>5. proc' = [proc EXCEPT ![w] = p] /\ live' = live /\ UNCHANGED <<files, made, excused, emptied, written>>
  BY <1>2 DEF bounds, Restore, AfterChecks
<1>6. QED
  BY <1>0, <1>1, <1>2, <1>3, <1>4, <1>5, QuietStep

LEMMA VerifyAgainStep == ASSUME IInv, NEW w \in Worker, VerifyAgain(w) PROVE IInv'
<1>1. live \in Database /\ live.sound /\ written \in Nat
  BY DEF IInv, Types, TypeOK, LiveIsSound
<1>2. PICK f \in File : proc' = [proc EXCEPT ![w] = Doing("verify", "mark", f, {})]
  BY DEF VerifyAgain
<1>3. PICK p \in Process : /\ p = Doing("verify", "mark", f, {}) /\ p.op = "verify" /\ p.at = "mark"
                           /\ p.file = 0 /\ p.from = f /\ p.temp = Nil
  <2>1. f \in 0..MaxFiles /\ {} \in SUBSET Nat
    BY BackupNumbers DEF File
  <2>2. \E p \in Process : /\ p = Doing("verify", "mark", f, {}) /\ p.op = "verify" /\ p.at = "mark" /\ p.file = 0
                          /\ p.from = f /\ p.temp = Nil /\ p.held = {}
    BY <2>1, DoingIsProcess
  <2>3. QED
    BY <2>2
<1>4. Shaped(p, made) /\ Quiet(p)
  BY <1>3 DEF Shaped, Quiet, Making
<1>5. Quiet(proc[w])
  BY DEF Quiet, IInv, Types, Shaped, Making, VerifyAgain, Startable
<1>6. proc' = [proc EXCEPT ![w] = p] /\ live' = live /\ UNCHANGED <<files, made, excused, emptied, written>>
  BY <1>2, <1>3 DEF bounds, VerifyAgain
<1>7. QED
  BY <1>1, <1>3, <1>4, <1>5, <1>6, QuietStep

\* What ends without having made a file or pruned one.
LEMMA EndsQuietly ==
  ASSUME IInv, NEW w \in Worker, Quiet(proc[w]), proc' = [proc EXCEPT ![w] = Idle],
         live' \in Database, live'.records = live.records, live'.sound, live.complete => live'.complete,
         live.data \subseteq live'.data, written' \in Nat, UNCHANGED <<files, made, excused, emptied>>
  PROVE  IInv'
<1>1. PICK p \in Process : p = Idle
  BY IdleIsProcess
<1>2. Shaped(p, made) /\ Quiet(p) /\ p.op # "restore" /\ p.temp = Nil /\ p.at # "replace"
  BY <1>1, IdleIsProcess DEF Quiet, Making
<1>3. QED
  BY <1>1, <1>2, QuietStep

LEMMA FinishStep == ASSUME IInv, NEW w \in Worker, Finish(w) PROVE IInv'
<1>1. PICK d \in Database : d = live /\ d.sound /\ written \in Nat
  BY DEF IInv, Types, TypeOK, LiveIsSound
<1>2. live' = d \/ live' = [d EXCEPT !.leases = @ \ {proc[w].op}]
  BY <1>1 DEF Finish, Stored, Released
<1>3. /\ live' \in Database /\ live'.records = live.records /\ live'.sound /\ live'.complete = live.complete
      /\ live.data \subseteq live'.data
  BY <1>1, <1>2 DEF Database
<1>4. Quiet(proc[w])
  BY DEF Quiet, IInv, Types, Shaped, Making, Finish
<1>5. QED
  BY <1>1, <1>3, <1>4, EndsQuietly DEF bounds, Finish

LEMMA ReplaceRefusedStep == ASSUME IInv, NEW w \in Worker, ReplaceRefused(w) PROVE IInv'
<1>1. live \in Database /\ live.sound /\ written \in Nat
  BY DEF IInv, Types, TypeOK, LiveIsSound
<1>2. Quiet(proc[w])
  BY DEF Quiet, IInv, Types, Shaped, Making, ReplaceRefused
<1>3. QED
  BY <1>1, <1>2, EndsQuietly DEF bounds, ReplaceRefused

LEMMA CopyBackStep == ASSUME IInv, NEW w \in Worker, CopyBack(w) PROVE IInv'
<1>1. live \in Database /\ live.sound /\ written \in Nat
  BY DEF IInv, Types, TypeOK, LiveIsSound
<1>2. PICK q \in Process : q = proc[w] /\ q.at = "copied" /\ q.op = "restore" /\ Shaped(q, made)
  BY DEF IInv, Types, Shaped, CopyBack
<1>3. Quiet(proc[w])
  BY <1>2 DEF Quiet, Making
<1>4. CASE ~Validated(files[proc[w].from])
  BY <1>1, <1>3, <1>4, EndsQuietly DEF bounds, CopyBack
<1>5. CASE Validated(files[proc[w].from])
  <2>0. q.from \in File
    BY <1>2 DEF Shaped
  <2>1. PICK copy \in Database : copy = files[q.from] /\ copy # Nil /\ copy.sound
    BY <1>2, <1>5, <2>0, NilAssumption DEF Validated, IInv, Types, TypeOK
  <2>2. copy.complete \/ q.from \in emptied
    BY <1>2, <2>1 DEF IInv, FromIsWhole
  <2>3. PICK content \in Database :
          /\ content = Content(copy) /\ Passable(content)
          /\ \A f \in File : Rowless(f) => content.records[f] = "none"
    <3>1. CASE copy.complete
      BY <3>1, <2>0, <2>1 DEF Content, Passable, Rowless
    <3>2. CASE ~copy.complete
      <4>1. Partial \in Database /\ Partial.sound /\ Partial.records = [f \in File |-> "none"]
        BY DEF Partial, NoRecords, Database, BackupStatus
      <4>2. emptied # {}
        BY <2>2, <3>2
      <4>3. QED
        BY <3>2, <4>1, <4>2 DEF Content, Passable
    <3>3. QED
      BY <3>1, <3>2
  <2>4. [q EXCEPT !.at = "replace", !.temp = content] \in Process
    BY DEF Process
  <2>5. PICK p \in Process : p = [q EXCEPT !.at = "replace", !.temp = content]
    BY <2>4
  <2>6. /\ p.op = "restore" /\ p.at = "replace" /\ p.temp = content /\ p.from = q.from
        /\ p.file = q.file /\ p.held = q.held /\ p.stale = q.stale
    BY <1>2, <2>3, <2>5 DEF Process
  <2>7. Shaped(p, made) /\ Quiet(p)
    BY <1>2, <2>6 DEF Shaped, Quiet, Making
  <2>8. proc' = [proc EXCEPT ![w] = p]
    BY <1>2, <1>5, <2>1, <2>3, <2>5 DEF CopyBack, IInv, Types
  <2>9. q.op = "restore" /\ ~q.stale => q.held \subseteq live.data
    BY <1>2 DEF IInv, SafetyKept, Safe
  <2>10. QED
    BY <1>1, <1>2, <1>3, <2>3, <2>6, <2>7, <2>8, <2>9, QuietStep DEF bounds, CopyBack
<1>6. QED
  BY <1>4, <1>5

LEMMA WriteStep == ASSUME IInv, NEW w \in Worker, Write(w) PROVE IInv'
<1>1. PICK d \in Database : d = live /\ d.sound /\ written \in Nat
  BY DEF IInv, Types, TypeOK, LiveIsSound
<1>2. live' = d \/ live' = [d EXCEPT !.data = @ \cup {written + 1}]
  BY <1>1 DEF Write, Stored
<1>3. written + 1 \in 1..MaxWrites /\ written' \in Nat
  BY <1>1, BackupNumbers DEF Write
<1>4. /\ live' \in Database /\ live'.records = live.records /\ live'.sound /\ live'.complete = live.complete
      /\ live.data \subseteq live'.data
  BY <1>1, <1>2, <1>3 DEF Database
<1>5. PICK q \in Process : q = proc[w] /\ Shaped(q, made)
  BY DEF IInv, Types
<1>6. Quiet(q) /\ q.op # "restore" /\ q.at # "replace"
  BY <1>5 DEF Write, Shaped, Quiet, Making
<1>7. proc' = [proc EXCEPT ![w] = q]
  BY <1>5 DEF Write, IInv, Types
<1>8. Quiet(proc[w]) /\ (q.temp # Nil => \A f \in File : Rowless(f) => q.temp.records[f] = "none")
  BY <1>5, <1>6 DEF Rowless
<1>9. QED
  BY <1>1, <1>3, <1>4, <1>5, <1>6, <1>7, <1>8, QuietStep DEF bounds, Write

-----------------------------------------------------------------------------
(* A file is made *)

LEMMA BeginStep == ASSUME IInv, NEW w \in Worker, Begin(w) PROVE IInv'
<1>0. PICK new \in File : new = made + 1 /\ made \in 0..MaxFiles
  BY BackupNumbers DEF Begin, IInv, Types, TypeOK, File
<1>1. /\ made \in 0..MaxFiles /\ new \in 0..MaxFiles /\ new > made /\ written \in Nat
      /\ Partial \in Database /\ Partial.records = [f \in File |-> "none"] /\ ~Partial.complete
  BY <1>0, BackupNumbers DEF Begin, IInv, Types, TypeOK, File, Partial, NoRecords, Database, BackupStatus
<1>2. PICK q \in Process : q = proc[w] /\ q.at = "begin" /\ Shaped(q, made)
  BY DEF IInv, Types, Begin
<1>3. PICK p \in Process : p = [q EXCEPT !.at = "copy", !.file = new]
  BY <1>1 DEF Process
<1>4. /\ p.at = "copy" /\ p.file = new /\ p.op = q.op /\ p.held = q.held /\ p.from = q.from
      /\ p.stale = q.stale /\ p.temp = q.temp
  BY <1>3, <1>1, <1>2 DEF Process
<1>5. proc' = [proc EXCEPT ![w] = p]
  BY <1>0, <1>2, <1>3 DEF Begin, IInv, Types
<1>6. Shaped(p, made')
  BY <1>0, <1>1, <1>2, <1>4 DEF Shaped, Begin, Making
<1>7. /\ made' = new /\ files' = [files EXCEPT ![new] = Partial]
      /\ live' = live /\ excused' = excused /\ emptied' = emptied /\ written' = written
  BY <1>0 DEF Begin, bounds
<1>8. made' \in Nat /\ made <= made'
  BY <1>0, <1>7, BackupNumbers DEF File
<1>9. /\ proc' \in [Worker -> Process] /\ \A v \in Worker : Shaped(proc'[v], made')
      /\ proc'[w] = p /\ \A v \in Worker \ {w} : proc'[v] = proc[v]
  BY <1>5, <1>6, <1>8, ProcessGoesOn DEF IInv
<1>10. files \in [File -> Database \cup {Nil}] /\ Rowless(new)
  BY <1>1 DEF IInv, Types, TypeOK, NoRowYet
<1>11. Types'
  BY <1>1, <1>7, <1>9, <1>10, BackupNumbers DEF IInv, Types, TypeOK, File
<1>12. \A f : InMaking(f)' <=> InMaking(f) \/ f = new
  BY <1>2, <1>4, <1>9 DEF InMaking, Making
<1>13. \A f : InPruning(f)' <=> InPruning(f)
  BY <1>2, <1>4, <1>9 DEF InPruning, Shaped
<1>15. \A v \in Worker \ {w} : proc[v].at \in Making => proc[v].file # new
  BY <1>1 DEF IInv, Types, Shaped
<1>14. LiveIsSound' /\ TempIsSound' /\ FromIsWhole' /\ Unwritten'
  <2>1. LiveIsSound' /\ TempIsSound'
    BY <1>4, <1>7, <1>9 DEF LiveIsSound, TempIsSound, Passable, IInv
  <2>2. FromIsWhole'
    <3>1. \A v \in Worker : proc[v].op = "restore" => proc[v].from \in File /\ proc[v].from # new
      BY <1>1 DEF IInv, Types, Shaped
    <3>2. QED
      BY <3>1, <1>2, <1>4, <1>7, <1>9, <1>10 DEF FromIsWhole, IInv
  <2>3. Unwritten'
    <3>1. \A v \in Worker : proc[v].at = "copy" => proc[v].file \in File
      BY <1>1, BackupNumbers DEF IInv, Types, Shaped, Making, File
    <3>2. QED
      BY <3>1, <1>1, <1>4, <1>7, <1>9, <1>10, <1>15 DEF Unwritten, Making, IInv
  <2>4. QED
    BY <2>1, <2>2, <2>3
<1>16. MadeAlone'
  <2>1. \A u, v \in Worker : u # v /\ {proc'[u].at, proc'[v].at} \subseteq Making => proc'[u].file # proc'[v].file
    BY <1>4, <1>9, <1>15 DEF MadeAlone, IInv
  <2>2. \A f \in File : InMaking(f)' => files'[f] # Nil
    BY <1>1, <1>7, <1>10, <1>12, NilAssumption DEF MadeAlone, IInv
  <2>3. \A f \in File : files'[f] # Nil => f <= made'
    BY <1>0, <1>7, <1>10 DEF MadeAlone, IInv, File
  <2>4. QED
    BY <2>1, <2>2, <2>3 DEF MadeAlone
<1>17. NoRowYet'
  <2>1. ASSUME NEW f \in File, Rowless(f) PROVE Rowless(f)'
    <3>1. \A g \in File : files'[g] # Nil => files'[g].records[f] = "none"
      <4>1. Partial.records[f] = "none"
        BY <1>1
      <4>2. \A g \in File : files'[g] = IF g = new THEN Partial ELSE files[g]
        BY <1>7, <1>10
      <4>3. QED
        BY <2>1, <4>1, <4>2 DEF Rowless
    <3>2. \A v \in Worker : proc'[v].temp = proc[v].temp
      BY <1>2, <1>4, <1>9
    <3>3. QED
      BY <2>1, <3>1, <3>2, <1>7 DEF Rowless
  <2>2. QED
    BY <2>1, <1>1, <1>7, <1>10, <1>12 DEF NoRowYet, IInv, File
<1>18. HeldIsGone' /\ Ledger'
  BY <1>1, <1>2, <1>4, <1>7, <1>9, <1>10, <1>12, <1>13 DEF HeldIsGone, Ledger, Misfits, IInv, File
<1>19. SafetyKept'
  <2>1. \A f : Listed(f)' <=> Listed(f)
    BY <1>7 DEF Listed
  <2>2. ASSUME NEW f, NewestKept(f) PROVE NewestKept(f)'
    BY <2>1, <2>2, <1>1, <1>7, <1>10 DEF NewestKept, Rowless, Listed
  <2>3. \A f : Copied(f)' <=> Copied(f)
    BY <1>2, <1>4, <1>7, <1>9 DEF Copied
  <2>4. ~Copied(new)
    BY <1>10, <1>15, <1>2 DEF Copied, Rowless, Making
  <2>5. \A f, held : KeptInCopies(f, held) => KeptInCopies(f, held)'
    BY <2>3, <2>4, <1>7, <1>10, <1>1 DEF KeptInCopies
  <2>6. \A f : NoneOrNewestKept(f) => NoneOrNewestKept(f)'
    BY <2>2, <1>7 DEF NoneOrNewestKept
  <2>7. ASSUME NEW r \in Process, Safe(r) PROVE Safe(r)'
    BY <2>2, <2>5, <2>6, <2>7, <1>7 DEF Safe
  <2>8. \A g \in File : g >= new => ~Copied(g) /\ live.records[g] = "none"
    <3>1. ASSUME NEW g \in File, g >= new PROVE ~Copied(g) /\ live.records[g] = "none"
      <4>1. g > made /\ g \in Nat
        BY <3>1, <1>1 DEF File
      <4>2. Rowless(g)
        BY <4>1 DEF NoRowYet, IInv
      <4>3. \A u \in Worker : proc[u].at \in {"verify", "record"} => proc[u].file # g
        BY <4>1, <1>1 DEF IInv, Types, Shaped, Making
      <4>4. QED
        BY <4>2, <4>3 DEF Rowless, Copied, Listed
    <3>2. QED
      BY <3>1
  <2>9. Safe(p)'
    <3>1. KeptInCopies(p.file, p.held)' /\ NoneOrNewestKept(p.file)'
      BY <2>1, <2>3, <2>8, <1>4, <1>7 DEF KeptInCopies, NoneOrNewestKept
    <3>2. Safe(q)
      BY <1>2 DEF IInv, SafetyKept
    <3>3. QED
      BY <3>1, <3>2, <1>4, <1>7 DEF Safe
  <2>10. QED
    BY <2>7, <2>9, <1>9, SafetyGoesOn DEF IInv
<1>20. QED
  BY <1>11, <1>14, <1>16, <1>17, <1>18, <1>19 DEF IInv

LEMMA CopyStep == ASSUME IInv, NEW w \in Worker, Copy(w) PROVE IInv'
<1>1. PICK q \in Process : q = proc[w] /\ q.at = "copy" /\ Shaped(q, made)
  BY DEF IInv, Types, Copy
<1>2. PICK new \in File : new = q.file /\ InMaking(new) /\ new <= made
  BY <1>1, BackupNumbers DEF Shaped, Making, InMaking, File, IInv, Types, TypeOK
<1>3. [q EXCEPT !.at = "verify"] \in Process
  BY DEF Process
<1>4. PICK p \in Process : p = [q EXCEPT !.at = "verify"]
  BY <1>3
<1>5. /\ p.at = "verify" /\ p.file = new /\ p.op = q.op /\ p.held = q.held /\ p.from = q.from
      /\ p.stale = q.stale /\ p.temp = q.temp
  BY <1>1, <1>2, <1>4 DEF Process
<1>6. proc' = [proc EXCEPT ![w] = p]
  BY <1>1, <1>4 DEF Copy, Becomes, IInv, Types
<1>7. /\ made' = made /\ files' = [files EXCEPT ![new] = live]
      /\ live' = live /\ excused' = excused /\ emptied' = emptied /\ written' = written
  BY <1>1, <1>2 DEF Copy, bounds
<1>8. made' \in Nat /\ made <= made' /\ Shaped(p, made')
  BY <1>1, <1>2, <1>5, <1>7, BackupNumbers DEF Shaped, Making, File, IInv, Types, TypeOK
<1>9. /\ proc' \in [Worker -> Process] /\ \A v \in Worker : Shaped(proc'[v], made')
      /\ proc'[w] = p /\ \A v \in Worker \ {w} : proc'[v] = proc[v]
  BY <1>6, <1>8, ProcessGoesOn DEF IInv
<1>10. /\ files \in [File -> Database \cup {Nil}] /\ Rowless(new) /\ files[new] # Nil
       /\ live \in Database /\ live # Nil
  BY <1>2, NilAssumption DEF IInv, Types, TypeOK, NoRowYet, MadeAlone
<1>11. Types'
  BY <1>7, <1>9, <1>10 DEF IInv, Types, TypeOK
<1>12. \A f : InMaking(f)' <=> InMaking(f)
  BY <1>1, <1>2, <1>5, <1>9 DEF InMaking, Making
<1>13. \A f : InPruning(f)' <=> InPruning(f)
  BY <1>1, <1>5, <1>9 DEF InPruning, Shaped
<1>14. LiveIsSound' /\ TempIsSound' /\ FromIsWhole' /\ Unwritten'
  <2>1. LiveIsSound' /\ TempIsSound'
    BY <1>5, <1>7, <1>9 DEF LiveIsSound, TempIsSound, Passable, IInv
  <2>2. FromIsWhole'
    <3>1. ~files[new].complete
      BY <1>1, <1>2, <1>10 DEF IInv, Unwritten
    <3>2. \A v \in Worker : proc[v].op = "restore" => proc[v].from \in File
      BY DEF IInv, Types, Shaped
    <3>3. \A v \in Worker : proc[v].op = "restore" /\ proc[v].at # "replace" /\ proc[v].from = new => new \in emptied
      BY <3>1, <1>10 DEF IInv, FromIsWhole
    <3>4. QED
      BY <3>2, <3>3, <1>1, <1>5, <1>7, <1>9, <1>10 DEF FromIsWhole, IInv
  <2>3. Unwritten'
    <3>1. \A v \in Worker \ {w} : proc[v].at = "copy" => proc[v].file \in File /\ proc[v].file # new
      BY <1>1, <1>2, BackupNumbers DEF IInv, Types, TypeOK, Shaped, Making, File, MadeAlone
    <3>2. QED
      BY <3>1, <1>5, <1>7, <1>9, <1>10 DEF Unwritten, IInv
  <2>4. QED
    BY <2>1, <2>2, <2>3
<1>15. MadeAlone'
  BY <1>1, <1>2, <1>5, <1>7, <1>9, <1>10, <1>12 DEF MadeAlone, IInv, Making
<1>16. NoRowYet'
  <2>1. ASSUME NEW f \in File, Rowless(f) PROVE Rowless(f)'
    BY <2>1, <1>1, <1>5, <1>7, <1>9, <1>10 DEF Rowless
  <2>2. QED
    BY <2>1, <1>7, <1>12 DEF NoRowYet, IInv
<1>17. HeldIsGone' /\ Ledger'
  BY <1>1, <1>2, <1>5, <1>7, <1>9, <1>10, <1>12, <1>13 DEF HeldIsGone, Ledger, Misfits, IInv, Shaped
<1>18. SafetyKept'
  <2>1. \A f : Listed(f)' <=> Listed(f)
    BY <1>7 DEF Listed
  <2>2. ASSUME NEW f, NewestKept(f) PROVE NewestKept(f)'
    BY <2>1, <2>2, <1>7, <1>10 DEF NewestKept
  <2>3. \A f : f # new => (Copied(f)' <=> Copied(f))
    BY <1>1, <1>5, <1>7, <1>9 DEF Copied
  <2>4. ASSUME NEW f, NEW held, held \subseteq live.data, KeptInCopies(f, held) PROVE KeptInCopies(f, held)'
    BY <2>3, <2>4, <1>7, <1>10 DEF KeptInCopies
  <2>5. \A f : NoneOrNewestKept(f) => NoneOrNewestKept(f)'
    BY <2>2, <1>7 DEF NoneOrNewestKept
  <2>6. ASSUME NEW r, Safe(r) PROVE Safe(r)'
    BY <2>2, <2>4, <2>5, <2>6, <1>7 DEF Safe
  <2>7. Safe(p)'
    <3>1. Safe(q)'
      BY <2>6, <1>1 DEF IInv, SafetyKept
    <3>2. QED
      BY <3>1, <1>1, <1>2, <1>5 DEF Safe
  <2>8. QED
    BY <2>6, <2>7, <1>9, SafetyGoesOn DEF IInv
<1>19. QED
  BY <1>11, <1>14, <1>15, <1>16, <1>17, <1>18 DEF IInv

-----------------------------------------------------------------------------
(* A row is written *)

\* A row of a file that is there keeps the newest row one with a file.
LEMMA RowOfPresentFile ==
  ASSUME NEW f \in File, files' = files, files[f] # Nil, live.records \in [File -> BackupStatus],
         NEW status \in {"verified", "failed"}, live'.records = [live.records EXCEPT ![f] = status]
  PROVE  /\ \A k \in File : NewestKept(k) => NewestKept(k)'
         /\ \A k \in File : NoneOrNewestKept(k) => NoneOrNewestKept(k)'
         /\ NoneOrNewestKept(f) => NewestKept(f)'
<1>1. Listed(f)' /\ \A k \in File \ {f} : Listed(k)' <=> Listed(k)
  BY DEF Listed
<1>2. ASSUME NEW k \in File, NewestKept(k) PROVE NewestKept(k)'
  <2>1. PICK g \in File : g >= k /\ Listed(g) /\ files[g] # Nil /\ \A j \in File : j > g => live.records[j] = "none"
    BY <1>2 DEF NewestKept
  <2>2. CASE g >= f
    BY <1>1, <2>1, <2>2 DEF NewestKept, File
  <2>3. CASE g < f
    BY <1>1, <2>1, <2>3 DEF NewestKept, File
  <2>4. QED
    BY <2>2, <2>3 DEF File
<1>3. ASSUME NEW k \in File, \A g \in File : g >= k => live.records[g] = "none" PROVE NoneOrNewestKept(k)'
  <2>1. CASE f >= k
    BY <1>1, <1>3, <2>1 DEF NoneOrNewestKept, NewestKept, File
  <2>2. CASE f < k
    BY <1>1, <1>3, <2>2 DEF NoneOrNewestKept, File
  <2>3. QED
    BY <2>1, <2>2 DEF File
<1>4. NoneOrNewestKept(f) => NewestKept(f)'
  BY <1>1, <1>2 DEF NoneOrNewestKept, NewestKept, File
<1>5. QED
  BY <1>2, <1>3, <1>4 DEF NoneOrNewestKept

\* The process that has made a file is through with it.
LEMMA RowStep ==
  ASSUME IInv, NEW w \in Worker, NEW q \in Process, q = proc[w], q.at \in {"verify", "record"},
         NEW p \in Process, Shaped(p, made), Quiet(p), p.temp \in {Nil, q.temp}, p.at # "replace",
         p.op = "restore" =>
           q.op = "restore" /\ p.stale = q.stale /\ p.file = q.file /\ p.from = q.from /\ p.held = q.held,
         proc' = [proc EXCEPT ![w] = p],
         NEW status \in {"verified", "failed"}, Stored(w, [live EXCEPT !.records[q.file] = status]),
         excused' = (IF q.stale THEN excused \cup {q.file} ELSE excused), UNCHANGED <<files, made, emptied, written>>
  PROVE  IInv'
<1>1. PICK new \in File : new = q.file /\ InMaking(new) /\ files[new] # Nil /\ Rowless(new) /\ ~InPruning(new)
  BY BackupNumbers DEF InMaking, Making, File, IInv, Types, TypeOK, Shaped, MadeAlone, NoRowYet, HeldIsGone
<1>2. made' \in Nat /\ made <= made' /\ Shaped(p, made')
  BY BackupNumbers DEF IInv, Types, TypeOK
<1>3. /\ proc' \in [Worker -> Process] /\ \A v \in Worker : Shaped(proc'[v], made')
      /\ proc'[w] = p /\ \A v \in Worker \ {w} : proc'[v] = proc[v]
  BY <1>2, ProcessGoesOn DEF IInv
<1>4. PICK d \in Database : d = live /\ d.sound
  BY DEF IInv, Types, TypeOK, LiveIsSound
<1>5. /\ live' \in Database /\ live'.sound /\ live'.complete = live.complete /\ live'.data = live.data
      /\ IF q.stale THEN live'.records = live.records ELSE live'.records = [live.records EXCEPT ![new] = status]
  <2>1. live' = d \/ live' = [d EXCEPT !.records = [d.records EXCEPT ![new] = status]]
    BY <1>1, <1>4 DEF Stored, Database
  <2>2. [d.records EXCEPT ![new] = status] \in [File -> BackupStatus]
    BY <1>1 DEF Database, BackupStatus
  <2>3. QED
    BY <1>1, <1>4, <2>1, <2>2 DEF Stored, Database
<1>6. Types'
  BY <1>1, <1>3, <1>5 DEF IInv, Types, TypeOK
<1>7. \A f : InMaking(f)' <=> InMaking(f) /\ f # new
  BY <1>1, <1>3 DEF InMaking, IInv, MadeAlone, Quiet, Making
<1>8. \A f : InPruning(f)' <=> InPruning(f)
  BY <1>3 DEF InPruning, Quiet, IInv, Types, Shaped
<1>9. LiveIsSound' /\ TempIsSound' /\ FromIsWhole' /\ Unwritten'
  <2>1. LiveIsSound' /\ TempIsSound'
    BY <1>3, <1>5 DEF LiveIsSound, TempIsSound, Passable, IInv
  <2>2. FromIsWhole' /\ Unwritten'
    BY <1>3 DEF FromIsWhole, Unwritten, Quiet, Making, IInv
  <2>3. QED
    BY <2>1, <2>2
<1>10. MadeAlone'
  BY <1>3, <1>7 DEF MadeAlone, IInv, Quiet
<1>11. NoRowYet'
  <2>1. ASSUME NEW f \in File, Rowless(f), f # new PROVE Rowless(f)'
    BY <2>1, <1>3, <1>4, <1>5 DEF Rowless, Database
  <2>2. \A f \in File : f > made => f # new
    BY <1>1, BackupNumbers DEF File, IInv, Types, Shaped, TypeOK, Making
  <2>3. QED
    BY <2>1, <2>2, <1>7 DEF NoRowYet, IInv
<1>12. HeldIsGone'
  <2>1. live.records \in [File -> BackupStatus]
    BY <1>4 DEF Database
  <2>2. \A f \in File : live.records[f] # "none" => live'.records[f] # "none"
    BY <2>1, <1>1, <1>5
  <2>3. \A v \in Worker : proc[v].op = "prune" => proc[v].held \subseteq File
    BY DEF IInv, Types, Shaped
  <2>4. QED
    BY <1>3, <1>7, <1>8, <2>2, <2>3 DEF HeldIsGone, IInv, Quiet
<1>13. Ledger'
  <2>1. live.records \in [File -> BackupStatus]
    BY <1>4 DEF Database
  <2>2. CASE q.stale
    BY <2>2, <1>1, <1>5, <1>7, <1>8 DEF Ledger, Misfits, IInv
  <2>3. CASE ~q.stale
    BY <2>1, <2>3, <1>1, <1>5, <1>7, <1>8 DEF Ledger, Misfits, IInv
  <2>4. QED
    BY <2>2, <2>3
<1>14. SafetyKept'
  <2>1. live.records \in [File -> BackupStatus]
    BY <1>4 DEF Database
  <2>2. /\ \A k \in File : NewestKept(k) => NewestKept(k)'
        /\ \A k \in File : NoneOrNewestKept(k) => NoneOrNewestKept(k)'
        /\ ~q.stale /\ NoneOrNewestKept(new) => NewestKept(new)'
    <3>1. CASE q.stale
      BY <3>1, <1>5 DEF NewestKept, NoneOrNewestKept, Listed
    <3>2. CASE ~q.stale
      BY <3>2, <2>1, <1>1, <1>5, RowOfPresentFile
    <3>3. QED
      BY <3>1, <3>2
  <2>3. \A f \in File : Copied(f)' => Copied(f)
    BY <2>1, <1>1, <1>3, <1>5 DEF Copied, Quiet, Making
  <2>4. \A f \in File : \A held : KeptInCopies(f, held) => KeptInCopies(f, held)'
    BY <2>3 DEF KeptInCopies
  <2>5. ASSUME NEW r \in Process, Safe(r), r.at \in {"copied", "replace"} => r.file > 0 PROVE Safe(r)'
    <3>1. r.file > 0 => r.file \in File
      BY DEF Process, File
    <3>2. QED
      BY <2>2, <2>4, <2>5, <3>1, <1>5 DEF Safe
  <2>6. \A r \in Process : (\E v \in Worker : proc[v] = r) => (r.at \in {"copied", "replace"} => r.file > 0)
    BY BackupNumbers DEF IInv, Types, TypeOK, Shaped
  <2>7. Safe(p)'
    <3>1. Safe(q)
      BY DEF IInv, SafetyKept
    <3>2. QED
      BY <2>2, <2>4, <3>1, <1>1, <1>5 DEF Safe, File
  <2>8. QED
    BY <2>5, <2>6, <2>7, <1>3, SafetyGoesOn DEF IInv
<1>15. QED
  BY <1>6, <1>9, <1>10, <1>11, <1>12, <1>13, <1>14 DEF IInv

LEMMA VerifyStep == ASSUME IInv, NEW w \in Worker, Verify(w) PROVE IInv'
<1>1. PICK q \in Process : q = proc[w] /\ q.at = "verify" /\ Shaped(q, made)
  BY DEF IInv, Types, Verify
<1>2. UNCHANGED <<files, made, emptied, written>>
  BY DEF Verify, bounds
<1>3. CASE ~Sound(q.file)
  <2>1. PICK p \in Process : p = IF q.op = "backup" THEN [q EXCEPT !.at = "done"] ELSE Idle
    <3>1. [q EXCEPT !.at = "done"] \in Process
      BY DEF Process
    <3>2. QED
      BY <3>1, IdleIsProcess
  <2>2. /\ q.op = "backup" => p.at = "done" /\ p.op = "backup" /\ p.temp = q.temp
        /\ q.op # "backup" => p = Idle
    BY <2>1 DEF Process
  <2>3. Shaped(p, made) /\ Quiet(p) /\ p.temp \in {Nil, q.temp} /\ p.at # "replace" /\ p.op # "restore"
    BY <2>2, IdleIsProcess DEF Shaped, Quiet, Making
  <2>4. proc' = [proc EXCEPT ![w] = p]
    BY <1>1, <1>3, <2>1 DEF Verify, IInv, Types
  <2>5. /\ Stored(w, [live EXCEPT !.records[q.file] = "failed"])
        /\ excused' = IF q.stale THEN excused \cup {q.file} ELSE excused
    BY <1>1, <1>3 DEF Verify, Failed
  <2>6. QED
    BY <1>1, <1>2, <2>3, <2>4, <2>5, RowStep
<1>4. CASE Sound(q.file)
  <2>1. [q EXCEPT !.at = "record"] \in Process
    BY DEF Process
  <2>2. PICK p \in Process : p = [q EXCEPT !.at = "record"]
    BY <2>1
  <2>3. /\ p.at = "record" /\ p.op = q.op /\ p.file = q.file /\ p.from = q.from
        /\ p.temp = q.temp /\ p.stale = q.stale /\ p.held = q.held
    BY <2>2 DEF Process
  <2>4. proc' = [proc EXCEPT ![w] = p] /\ live' = live /\ excused' = excused
    BY <1>1, <1>4, <2>2 DEF Verify, Becomes, IInv, Types
  <2>5. made' \in Nat /\ made <= made' /\ Shaped(p, made')
    BY <1>1, <1>2, <2>3, BackupNumbers DEF IInv, Types, TypeOK, Shaped, Making
  <2>6. /\ proc' \in [Worker -> Process] /\ \A v \in Worker : Shaped(proc'[v], made')
        /\ proc'[w] = p /\ \A v \in Worker \ {w} : proc'[v] = proc[v]
    BY <2>4, <2>5, ProcessGoesOn DEF IInv
  <2>7. Types' /\ LiveIsSound' /\ TempIsSound' /\ FromIsWhole' /\ Unwritten'
    <3>1. Types' /\ LiveIsSound' /\ TempIsSound'
      BY <1>1, <1>2, <2>3, <2>4, <2>6 DEF IInv, Types, TypeOK, LiveIsSound, TempIsSound, Passable
    <3>2. FromIsWhole' /\ Unwritten'
      BY <1>1, <1>2, <2>3, <2>6 DEF IInv, FromIsWhole, Unwritten
    <3>3. QED
      BY <3>1, <3>2
  <2>8. \A f : (InMaking(f)' <=> InMaking(f)) /\ (InPruning(f)' <=> InPruning(f))
    BY <1>1, <2>3, <2>6 DEF InMaking, InPruning, Making, Shaped
  <2>9. MadeAlone'
    BY <1>1, <1>2, <2>3, <2>6, <2>8 DEF MadeAlone, IInv, Making
  <2>10. NoRowYet'
    <3>1. ASSUME NEW f \in File, Rowless(f) PROVE Rowless(f)'
      BY <3>1, <1>1, <1>2, <2>3, <2>4, <2>6 DEF Rowless
    <3>2. QED
      BY <3>1, <1>2, <2>8 DEF NoRowYet, IInv
  <2>11. HeldIsGone' /\ Ledger'
    BY <1>1, <1>2, <2>3, <2>4, <2>6, <2>8 DEF HeldIsGone, Ledger, Misfits, IInv, Shaped
  <2>12. SafetyKept'
    <3>1. \A f : Copied(f)' <=> Copied(f)
      BY <1>1, <2>3, <2>4, <2>6 DEF Copied
    <3>2. ASSUME NEW r, Safe(r) PROVE Safe(r)'
      BY <3>1, <3>2, <1>2, <2>4 DEF Safe, KeptInCopies, NoneOrNewestKept, NewestKept, Listed
    <3>3. Safe(p)'
      <4>1. Safe(q)'
        BY <3>2, <1>1 DEF IInv, SafetyKept
      <4>2. QED
        BY <4>1, <1>1, <2>3 DEF Safe
    <3>4. QED
      BY <3>2, <3>3, <2>6, SafetyGoesOn DEF IInv
  <2>13. QED
    BY <2>7, <2>9, <2>10, <2>11, <2>12 DEF IInv
<1>5. QED
  BY <1>3, <1>4

LEMMA RecordStep == ASSUME IInv, NEW w \in Worker, Record(w) PROVE IInv'
<1>1. PICK q \in Process : q = proc[w] /\ q.at = "record" /\ Shaped(q, made)
  BY DEF IInv, Types, Record
<1>2. [q EXCEPT !.at = "copied"] \in Process /\ [q EXCEPT !.at = "done"] \in Process
  BY DEF Process
<1>3. PICK p \in Process : p = IF q.op = "restore" THEN [q EXCEPT !.at = "copied"] ELSE [q EXCEPT !.at = "done"]
  BY <1>2
<1>4. /\ p.op = q.op /\ p.file = q.file /\ p.from = q.from /\ p.temp = q.temp /\ p.stale = q.stale /\ p.held = q.held
      /\ q.op = "restore" => p.at = "copied"
      /\ q.op # "restore" => p.at = "done"
  BY <1>3 DEF Process
<1>5. Shaped(p, made) /\ Quiet(p) /\ p.at # "replace"
  BY <1>1, <1>4 DEF Shaped, Quiet, Making
<1>6. proc' = [proc EXCEPT ![w] = p]
  BY <1>1, <1>3 DEF Record, Becomes, IInv, Types
<1>7. /\ Stored(w, [live EXCEPT !.records[q.file] = "verified"])
      /\ excused' = (IF q.stale THEN excused \cup {q.file} ELSE excused)
      /\ UNCHANGED <<files, made, emptied, written>>
  BY <1>1 DEF Record, bounds
<1>8. QED
  BY <1>1, <1>4, <1>5, <1>6, <1>7, RowStep

LEMMA MarkStep == ASSUME IInv, NEW w \in Worker, Mark(w) PROVE IInv'
<1>1. PICK q \in Process : q = proc[w] /\ q.at = "mark" /\ q.op = "verify" /\ q.from \in File
  BY DEF IInv, Types, Shaped, Mark
<1>2. PICK f \in File : f = q.from
  BY <1>1
<1>3. PICK d \in Database : d = live /\ d.sound /\ d.records \in [File -> BackupStatus]
  BY DEF IInv, Types, TypeOK, LiveIsSound, Database
<1>4. PICK p \in Process : p = Idle /\ p.op = "idle" /\ p.at = "idle" /\ p.temp = Nil
  BY IdleIsProcess
<1>5. /\ proc' = [proc EXCEPT ![w] = p]
      /\ files' = files /\ made' = made /\ written' = written /\ emptied' = emptied
      /\ excused' = IF live.records[f] = "pruned" /\ ~q.stale THEN excused \cup {f} ELSE excused
  BY <1>1, <1>2, <1>4 DEF Mark, bounds
<1>6. live' = d \/ (~q.stale /\ d.records[f] # "none" /\ live' = [d EXCEPT !.records[f] = "verified"])
  BY <1>1, <1>2, <1>3 DEF Mark, Stored
\* The rows stay the same ones.
<1>7. /\ live' \in Database /\ live'.sound /\ live'.complete = live.complete /\ live'.data = live.data
      /\ \A g \in File : live'.records[g] = "none" <=> live.records[g] = "none"
      /\ \A g \in File : live'.records[g] = live.records[g] \/ (g = f /\ live'.records[g] = "verified" /\ ~q.stale)
  <2>1. CASE live' = d
    BY <1>3, <2>1
  <2>2. CASE ~q.stale /\ d.records[f] # "none" /\ live' = [d EXCEPT !.records[f] = "verified"]
    <3>1. PICK records \in [File -> BackupStatus] : records = [d.records EXCEPT ![f] = "verified"]
      BY <1>3 DEF BackupStatus
    <3>2. live' = [d EXCEPT !.records = records]
      BY <2>2, <3>1 DEF Database
    <3>3. /\ live' \in Database /\ live'.sound /\ live'.complete = live.complete /\ live'.data = live.data
          /\ live'.records = records
      BY <1>3, <3>2 DEF Database
    <3>4. QED
      BY <1>3, <2>2, <3>1, <3>3
  <2>3. QED
    BY <1>6, <2>1, <2>2
<1>8. made' \in Nat /\ made <= made' /\ Shaped(p, made')
  BY <1>4, <1>5, IdleIsProcess, BackupNumbers DEF IInv, Types, TypeOK
<1>9. /\ proc' \in [Worker -> Process] /\ \A v \in Worker : Shaped(proc'[v], made')
      /\ proc'[w] = p /\ \A v \in Worker \ {w} : proc'[v] = proc[v]
  BY <1>5, <1>8, ProcessGoesOn DEF IInv
<1>10. Types' /\ LiveIsSound' /\ TempIsSound' /\ FromIsWhole' /\ Unwritten'
  <2>1. Types' /\ LiveIsSound' /\ TempIsSound'
    BY <1>4, <1>5, <1>7, <1>9 DEF IInv, Types, TypeOK, LiveIsSound, TempIsSound, Passable
  <2>2. FromIsWhole' /\ Unwritten'
    BY <1>4, <1>5, <1>9 DEF IInv, FromIsWhole, Unwritten
  <2>3. QED
    BY <2>1, <2>2
<1>11. \A g : (InMaking(g)' <=> InMaking(g)) /\ (InPruning(g)' <=> InPruning(g))
  BY <1>1, <1>4, <1>9 DEF InMaking, InPruning, Making
<1>12. MadeAlone'
  BY <1>4, <1>5, <1>9, <1>11 DEF MadeAlone, IInv, Making
<1>13. HeldIsGone'
  <2>1. \A v \in Worker : proc[v].op = "prune" => proc[v].held \subseteq File
    BY DEF IInv, Types, Shaped
  <2>2. QED
    BY <2>1, <1>4, <1>5, <1>7, <1>9, <1>11 DEF HeldIsGone, IInv
<1>14. NoRowYet'
  <2>1. ASSUME NEW g \in File, Rowless(g) PROVE Rowless(g)'
    BY <2>1, <1>4, <1>5, <1>7, <1>9 DEF Rowless
  <2>2. QED
    BY <2>1, <1>5, <1>11 DEF NoRowYet, IInv
\* A row that has no file now had none before, or was PRUNED and is excused.
<1>15. Ledger'
  <2>1. ASSUME NEW g \in File, (files[g] # Nil) # (live'.records[g] \in {"verified", "failed"})
        PROVE  g \in excused' \/ InMaking(g) \/ InPruning(g)
    <3>1. CASE live'.records[g] = live.records[g]
      BY <2>1, <3>1, <1>5 DEF Ledger, Misfits, IInv
    <3>2. CASE live'.records[g] # live.records[g]
      <4>1. g = f /\ live'.records[g] = "verified" /\ live.records[g] # "none" /\ ~q.stale
        BY <3>2, <1>7
      <4>2. CASE live.records[g] = "pruned"
        BY <4>1, <4>2, <1>5
      <4>3. CASE live.records[g] = "failed"
        BY <2>1, <4>1, <4>3, <1>5 DEF Ledger, Misfits, IInv
      <4>4. QED
        BY <3>2, <4>1, <4>2, <4>3, <1>3 DEF BackupStatus
    <3>3. QED
      BY <3>1, <3>2
  <2>2. QED
    BY <2>1, <1>5, <1>11 DEF Ledger, Misfits
<1>16. SafetyKept'
  <2>1. \A g \in File : Listed(g) => Listed(g)'
    BY <1>7 DEF Listed
  <2>2. ASSUME NEW k, NewestKept(k) PROVE NewestKept(k)'
    BY <2>1, <2>2, <1>5, <1>7 DEF NewestKept
  <2>3. \A k : NoneOrNewestKept(k) => NoneOrNewestKept(k)'
    BY <2>2, <1>7 DEF NoneOrNewestKept
  <2>4. \A g \in File : Copied(g)' <=> Copied(g)
    BY <1>1, <1>4, <1>7, <1>9 DEF Copied
  <2>5. \A k, held : KeptInCopies(k, held) => KeptInCopies(k, held)'
    BY <2>4, <1>5 DEF KeptInCopies
  <2>6. ASSUME NEW r, Safe(r) PROVE Safe(r)'
    BY <2>2, <2>3, <2>5, <2>6, <1>7 DEF Safe
  <2>7. Safe(p)'
    BY <1>4 DEF Safe
  <2>8. QED
    BY <2>6, <2>7, <1>9, SafetyGoesOn DEF IInv
<1>17. QED
  BY <1>10, <1>12, <1>13, <1>14, <1>15, <1>16 DEF IInv

-----------------------------------------------------------------------------
(* Files are deleted *)

\* A restore that waits for its safety backup keeps a prune from deleting the
\* newest file there is since: it is newer than the horizon, and the first to be
\* counted.
LEMMA NewestIsNoTarget ==
  ASSUME Types, NEW w \in Worker, proc[w].op = "restore", proc[w].file > 0, NEW h \in Horizons,
         NEW g \in File, g >= proc[w].file, \A k \in File : k > g => ~Listed(k)
  PROVE  g \notin Targets(h)
<1>1. Newer(g) = {}
  BY DEF Newer, Listed
<1>2. Cardinality(Newer(g)) = 0
  BY <1>1, FS_EmptySet
<1>3. Keep > 0 /\ Keep \in Nat
  BY BackupNumbers
<1>4. h < proc[w].file /\ h \in Nat
  BY BackupNumbers DEF Horizons, Types, TypeOK
<1>5. proc[w].file \in Nat /\ g \in Nat
  BY DEF Types, Process, File
<1>6. QED
  BY <1>2, <1>3, <1>4, <1>5 DEF Targets

LEMMA UnlinkStep == ASSUME IInv, NEW w \in Worker, Unlink(w) PROVE IInv'
<1>1. PICK h \in Horizons : LET targets == Targets(h) IN
        /\ files' = [f \in File |-> IF f \in targets THEN Nil ELSE files[f]]
        /\ proc' = [proc EXCEPT ![w] = Doing("prune", "pruned", 0, targets)]
  BY DEF Unlink
<1>2. PICK targets \in SUBSET File : targets = Targets(h)
  BY DEF Targets
<1>3. \A f \in targets : live.records[f] # "none"
  BY <1>2 DEF Targets
<1>4. targets \in SUBSET Nat /\ 0 \in 0..MaxFiles
  BY BackupNumbers DEF File
<1>5. PICK p \in Process : /\ p = Doing("prune", "pruned", 0, targets) /\ p.op = "prune" /\ p.at = "pruned"
                           /\ p.file = 0 /\ p.temp = Nil /\ p.held = targets
  BY <1>4, DoingIsProcess
<1>6. proc' = [proc EXCEPT ![w] = p] /\ files' = [f \in File |-> IF f \in targets THEN Nil ELSE files[f]]
  BY <1>1, <1>2, <1>5
<1>7. /\ live' = live /\ excused' = excused /\ emptied' = emptied /\ made' = made /\ written' = written
      /\ proc[w].op = "idle"
  BY DEF Unlink, bounds, Startable
<1>8. made' \in Nat /\ made <= made' /\ Shaped(p, made')
  BY <1>5, <1>7, BackupNumbers DEF IInv, Types, TypeOK, Shaped, Making
<1>9. /\ proc' \in [Worker -> Process] /\ \A v \in Worker : Shaped(proc'[v], made')
      /\ proc'[w] = p /\ \A v \in Worker \ {w} : proc'[v] = proc[v]
  BY <1>6, <1>8, ProcessGoesOn DEF IInv
<1>10. Types' /\ LiveIsSound' /\ TempIsSound' /\ FromIsWhole' /\ Unwritten'
  <2>1. Types' /\ LiveIsSound' /\ TempIsSound'
    BY <1>5, <1>6, <1>7, <1>9 DEF IInv, Types, TypeOK, LiveIsSound, TempIsSound, Passable
  <2>2. FromIsWhole'
    <3>1. \A v \in Worker : proc[v].op = "restore" => proc[v].from \in File
      BY DEF IInv, Types, Shaped
    <3>2. QED
      BY <3>1, <1>5, <1>6, <1>7, <1>9 DEF IInv, FromIsWhole
  <2>3. Unwritten'
    <3>1. \A v \in Worker : proc[v].at = "copy" => proc[v].file \in File
      BY BackupNumbers DEF IInv, Types, TypeOK, Shaped, Making, File
    <3>2. QED
      BY <3>1, <1>5, <1>6, <1>9 DEF IInv, Unwritten
  <2>4. QED
    BY <2>1, <2>2, <2>3
<1>11. \A f : InMaking(f)' <=> InMaking(f)
  BY <1>5, <1>7, <1>9 DEF InMaking, Making, IInv, Types, Shaped
<1>12. \A f : InPruning(f)' <=> InPruning(f) \/ f \in targets
  BY <1>5, <1>7, <1>9 DEF InPruning
<1>13. \A f \in targets : f <= made /\ ~InMaking(f)
  BY <1>3, BackupNumbers DEF NoRowYet, Rowless, IInv, Types, TypeOK, File
<1>14. MadeAlone'
  <2>1. \A f \in File : files'[f] # Nil => files[f] # Nil
    BY <1>6
  <2>2. \A f \in File : InMaking(f)' => files'[f] # Nil
    BY <1>6, <1>11, <1>13 DEF MadeAlone, IInv
  <2>3. \A u, v \in Worker : u # v /\ {proc'[u].at, proc'[v].at} \subseteq Making => proc'[u].file # proc'[v].file
    BY <1>5, <1>9 DEF MadeAlone, IInv, Making
  <2>4. QED
    BY <1>7, <2>1, <2>2, <2>3 DEF MadeAlone, IInv
<1>15. NoRowYet'
  <2>1. ASSUME NEW f \in File, Rowless(f) PROVE Rowless(f)'
    BY <2>1, <1>5, <1>6, <1>7, <1>9 DEF Rowless
  <2>2. QED
    BY <2>1, <1>7, <1>11 DEF NoRowYet, IInv
<1>16. HeldIsGone'
  BY <1>3, <1>5, <1>6, <1>7, <1>9, <1>11, <1>12, <1>13 DEF HeldIsGone, IInv
<1>17. Ledger'
  BY <1>6, <1>7, <1>11, <1>12 DEF Ledger, Misfits, IInv
<1>18. SafetyKept'
  <2>1. \A f \in File : \A held : KeptInCopies(f, held) => KeptInCopies(f, held)'
    <3>1. \A f : Copied(f)' <=> Copied(f)
      BY <1>5, <1>7, <1>9 DEF Copied, IInv, Types, Shaped
    <3>2. QED
      BY <3>1, <1>6 DEF KeptInCopies
  <2>2. ASSUME NEW v \in Worker, proc[v].op = "restore", proc[v].file > 0, NewestKept(proc[v].file)
        PROVE  NewestKept(proc[v].file)'
    <3>1. PICK r \in Process : r = proc[v] /\ r = proc'[v]
      BY <1>7, <1>9, <2>2 DEF IInv, Types
    <3>2. PICK g \in File : /\ g >= r.file /\ Listed(g) /\ files[g] # Nil
                            /\ \A k \in File : k > g => live.records[k] = "none"
      BY <2>2, <3>1 DEF NewestKept
    <3>3. g \notin targets
      BY <2>2, <3>1, <3>2, <1>2, NewestIsNoTarget DEF IInv, Listed
    <3>4. files'[g] # Nil
      BY <3>2, <3>3, <1>6
    <3>5. \A k : Listed(k)' <=> Listed(k)
      BY <1>7 DEF Listed
    <3>6. NewestKept(r.file)'
      BY <3>2, <3>4, <3>5, <1>7 DEF NewestKept
    <3>7. QED
      BY <3>1, <3>6 DEF NewestKept
  <2>3. ASSUME NEW v \in Worker \ {w} PROVE Safe(proc[v])'
    <3>1. PICK r \in Process : r = proc[v] /\ r = proc'[v] /\ Shaped(r, made)
      BY <1>9 DEF IInv, Types
    <3>2. Safe(r)
      BY <3>1 DEF IInv, SafetyKept
    <3>3. (r.file > 0 => r.file \in File) /\ (r.at \in {"copied", "replace"} => r.file > 0)
      BY <3>1, BackupNumbers DEF Process, File, Shaped, IInv, Types, TypeOK
    <3>4. \A f : Listed(f)' <=> Listed(f)
      BY <1>7 DEF Listed
    <3>5. r.op = "restore" /\ r.file > 0 /\ NewestKept(r.file) => NewestKept(r.file)'
      BY <2>2, <3>1 DEF NewestKept
    <3>6. r.op = "restore" /\ r.file > 0 /\ NoneOrNewestKept(r.file) => NoneOrNewestKept(r.file)'
      BY <3>5, <1>7 DEF NoneOrNewestKept
    <3>7. Safe(r)'
      BY <2>1, <3>2, <3>3, <3>5, <3>6, <1>7 DEF Safe
    <3>8. QED
      BY <3>1, <3>7 DEF Safe
  <2>4. Safe(proc[w])'
    BY <1>5, <1>9 DEF Safe
  <2>5. QED
    BY <2>3, <2>4 DEF SafetyKept
<1>19. QED
  BY <1>10, <1>14, <1>15, <1>16, <1>17, <1>18 DEF IInv

LEMMA CommitPruneStep == ASSUME IInv, NEW w \in Worker, CommitPrune(w) PROVE IInv'
<1>1. PICK q \in Process : q = proc[w] /\ q.at = "pruned" /\ q.op = "prune" /\ q.held \subseteq File
  BY DEF IInv, Types, Shaped, CommitPrune
<1>2. \A f \in q.held : InPruning(f) /\ files[f] = Nil /\ f <= made /\ ~InMaking(f)
  BY <1>1 DEF InPruning, IInv, HeldIsGone
<1>3. PICK d \in Database : d = live /\ d.sound
  BY DEF IInv, Types, TypeOK, LiveIsSound
<1>0. ~q.stale => \A f \in q.held : live.records[f] # "none"
  BY <1>1 DEF IInv, HeldIsGone
<1>4. /\ live' \in Database /\ live'.sound /\ live'.complete = live.complete /\ live'.data = live.data
      /\ IF q.stale THEN live'.records = live.records
         ELSE live'.records = [f \in File |-> IF f \in q.held THEN "pruned" ELSE live.records[f]]
  <2> DEFINE records == [f \in File |-> IF f \in q.held THEN "pruned" ELSE d.records[f]]
  <2>1. live' = IF q.stale THEN d ELSE [d EXCEPT !.records = records]
    BY <1>1, <1>3 DEF CommitPrune, Stored, Pruned
  <2>2. records \in [File -> BackupStatus]
    BY DEF Database, BackupStatus
  <2> HIDE DEF records
  <2>3. /\ live' \in Database /\ live'.sound /\ live'.complete = live.complete /\ live'.data = live.data
        /\ live'.records = IF q.stale THEN d.records ELSE records
    BY <1>3, <2>1, <2>2 DEF Database
  <2>4. QED
    BY <1>3, <2>3 DEF records
<1>5. PICK p \in Process : p = Idle /\ p.op = "idle" /\ p.at = "idle" /\ p.temp = Nil
  BY IdleIsProcess
<1>6. /\ proc' = [proc EXCEPT ![w] = p] /\ files' = files /\ made' = made /\ written' = written /\ emptied' = emptied
      /\ excused' = IF q.stale THEN excused \cup q.held ELSE excused
  BY <1>1, <1>5 DEF CommitPrune, bounds
<1>7. made' \in Nat /\ made <= made' /\ Shaped(p, made')
  BY <1>5, <1>6, IdleIsProcess, BackupNumbers DEF IInv, Types, TypeOK
<1>8. /\ proc' \in [Worker -> Process] /\ \A v \in Worker : Shaped(proc'[v], made')
      /\ proc'[w] = p /\ \A v \in Worker \ {w} : proc'[v] = proc[v]
  BY <1>6, <1>7, ProcessGoesOn DEF IInv
<1>9. Types' /\ LiveIsSound' /\ TempIsSound' /\ FromIsWhole' /\ Unwritten'
  <2>1. Types' /\ LiveIsSound' /\ TempIsSound'
    BY <1>1, <1>4, <1>5, <1>6, <1>8 DEF IInv, Types, TypeOK, LiveIsSound, TempIsSound, Passable
  <2>2. FromIsWhole' /\ Unwritten'
    BY <1>5, <1>6, <1>8 DEF IInv, FromIsWhole, Unwritten
  <2>3. QED
    BY <2>1, <2>2
<1>10. \A f : InMaking(f)' <=> InMaking(f)
  BY <1>1, <1>5, <1>8 DEF InMaking, Making
<1>11. \A f : (InPruning(f)' => InPruning(f)) /\ (InPruning(f) => InPruning(f)' \/ f \in q.held)
  BY <1>1, <1>5, <1>8 DEF InPruning
<1>12. MadeAlone' /\ HeldIsGone'
  <2>1. \A f \in File : live.records[f] # "none" => live'.records[f] # "none"
    BY <1>4
  <2>2. \A v \in Worker : proc[v].op = "prune" => proc[v].held \subseteq File
    BY DEF IInv, Types, Shaped
  <2>3. HeldIsGone'
    BY <2>1, <2>2, <1>5, <1>6, <1>8, <1>10, <1>11 DEF HeldIsGone, IInv
  <2>4. MadeAlone'
    BY <1>5, <1>6, <1>8, <1>10 DEF MadeAlone, IInv, Making
  <2>5. QED
    BY <2>3, <2>4
<1>13. NoRowYet'
  <2>1. ASSUME NEW f \in File, Rowless(f), f \notin q.held PROVE Rowless(f)'
    BY <2>1, <1>4, <1>5, <1>6, <1>8 DEF Rowless
  <2>2. \A f \in File : f > made => f \notin q.held
    BY <1>2, BackupNumbers DEF File, IInv, Types, TypeOK
  <2>3. QED
    BY <2>1, <2>2, <1>2, <1>6, <1>10 DEF NoRowYet, IInv
<1>14. Ledger'
  <2>1. ASSUME NEW f \in File, (files[f] # Nil) # (live'.records[f] \in {"verified", "failed"})
        PROVE  f \in excused' \/ InMaking(f) \/ InPruning(f)'
    <3>1. CASE f \in q.held
      BY <3>1, <2>1, <1>2, <1>4, <1>6 DEF Ledger, Misfits, IInv
    <3>2. CASE f \notin q.held
      <4>1. f \in Misfits(live.records)
        BY <3>2, <2>1, <1>4 DEF Misfits
      <4>2. QED
        BY <3>2, <4>1, <1>6, <1>11 DEF Ledger, IInv
    <3>3. QED
      BY <3>1, <3>2
  <2>2. QED
    BY <2>1, <1>6, <1>10 DEF Ledger, Misfits
<1>15. SafetyKept'
  <2>1. \A f \in File : (Listed(f)' => Listed(f)) /\ (f \notin q.held => (Listed(f)' <=> Listed(f)))
    BY <1>4 DEF Listed
  <2>0. \A f \in File : live.records[f] = "none" => live'.records[f] = "none"
    BY <1>0, <1>4
  <2>2. ASSUME NEW k, NewestKept(k) PROVE NewestKept(k)'
    BY <2>0, <2>1, <2>2, <1>2, <1>6 DEF NewestKept
  <2>3. \A k : NoneOrNewestKept(k) => NoneOrNewestKept(k)'
    BY <2>0, <2>2 DEF NoneOrNewestKept
  <2>4. \A f \in File : f \notin q.held => (Copied(f)' <=> Copied(f))
    BY <1>1, <1>4, <1>5, <1>8 DEF Copied
  <2>5. \A k, held : KeptInCopies(k, held) => KeptInCopies(k, held)'
    BY <2>4, <1>2, <1>6 DEF KeptInCopies
  <2>6. ASSUME NEW r, Safe(r) PROVE Safe(r)'
    BY <2>2, <2>3, <2>5, <2>6, <1>4 DEF Safe
  <2>7. Safe(p)'
    BY <1>5 DEF Safe
  <2>8. QED
    BY <2>6, <2>7, <1>8, SafetyGoesOn DEF IInv
<1>16. QED
  BY <1>9, <1>12, <1>13, <1>14, <1>15 DEF IInv

-----------------------------------------------------------------------------
(* The database is replaced, a process is killed, a file rots *)

LEMMA ReplaceStep == ASSUME IInv, NEW w \in Worker, Replace(w) PROVE IInv'
<1>1. PICK q \in Process : q = proc[w] /\ q.at = "replace" /\ q.op = "restore" /\ Passable(q.temp)
  BY DEF IInv, Types, Shaped, TempIsSound, Replace
<1>2. PICK d \in Database : d = q.temp /\ live' = d /\ Passable(d) /\ excused' = excused \cup Misfits(d.records)
  BY <1>1 DEF Replace, Passable
<1>3. files' = files /\ made' = made /\ written' = written /\ emptied' = emptied
  BY DEF Replace, bounds
\* The others keep to their steps on the file that was replaced.
<1>4. \A v \in Worker :
        /\ proc'[v] \in Process /\ Shaped(proc'[v], made)
        /\ proc'[v].op # "idle" => proc'[v].stale
        /\ proc[v].op = "idle" \/ v = w => proc'[v] = Idle
        /\ proc[v].op # "idle" /\ v # w =>
             /\ proc'[v].op = proc[v].op /\ proc'[v].at = proc[v].at /\ proc'[v].file = proc[v].file
             /\ proc'[v].from = proc[v].from
             /\ proc'[v].temp = proc[v].temp /\ proc'[v].held = proc[v].held
  <2> TAKE v \in Worker
  <2>1. CASE v = w \/ proc[v].op = "idle"
    BY <2>1, IdleIsProcess DEF Replace
  <2>2. CASE v # w /\ proc[v].op # "idle"
    <3>1. PICK r \in Process : r = proc[v] /\ Shaped(r, made)
      BY DEF IInv, Types
    <3>2. [r EXCEPT !.stale = TRUE] \in Process
      BY DEF Process
    <3>3. PICK s \in Process : s = [r EXCEPT !.stale = TRUE]
      BY <3>2
    <3>4. /\ s.stale /\ s.op = r.op /\ s.at = r.at /\ s.file = r.file /\ s.from = r.from /\ s.temp = r.temp
          /\ s.held = r.held
      BY <3>3 DEF Process
    <3>5. proc'[v] = s
      BY <3>1, <3>3, <2>2 DEF Replace
    <3>6. Shaped(s, made)
      BY <3>1, <3>4 DEF Shaped
    <3>7. QED
      BY <2>2, <3>1, <3>4, <3>5, <3>6
  <2>3. QED
    BY <2>1, <2>2
<1>5. proc' \in [Worker -> Process]
  BY <1>4 DEF Replace
<1>6. Types' /\ LiveIsSound' /\ TempIsSound' /\ FromIsWhole' /\ Unwritten'
  <2>1. Types' /\ LiveIsSound'
    BY <1>2, <1>3, <1>4, <1>5 DEF IInv, Types, TypeOK, LiveIsSound, Misfits, Passable
  <2>2. TempIsSound' /\ FromIsWhole' /\ Unwritten'
    BY <1>3, <1>4, IdleIsProcess DEF IInv, TempIsSound, Passable, FromIsWhole, Unwritten
  <2>3. QED
    BY <2>1, <2>2
<1>7. \A f : InMaking(f)' <=> InMaking(f)
  BY <1>1, <1>4, IdleIsProcess DEF InMaking, Making, IInv, Types, Shaped
<1>8. \A f : InPruning(f)' <=> InPruning(f)
  BY <1>1, <1>4, IdleIsProcess DEF InPruning
<1>9. MadeAlone' /\ HeldIsGone'
  BY <1>3, <1>4, <1>7, <1>8, IdleIsProcess DEF MadeAlone, HeldIsGone, IInv, Making
<1>10. NoRowYet'
  <2>1. ASSUME NEW f \in File, Rowless(f) PROVE Rowless(f)'
    BY <2>1, <1>1, <1>2, <1>3, <1>4, IdleIsProcess, NilAssumption DEF Rowless
  <2>2. QED
    BY <2>1, <1>3, <1>7 DEF NoRowYet, IInv
<1>11. Ledger'
  BY <1>2, <1>3 DEF Ledger, Misfits
<1>12. SafetyKept'
  BY <1>4, IdleIsProcess DEF SafetyKept, Safe
<1>13. QED
  BY <1>6, <1>9, <1>10, <1>11, <1>12 DEF IInv

LEMMA DieStep == ASSUME IInv, NEW w \in Worker, Die(w) PROVE IInv'
<1>1. PICK q \in Process : q = proc[w] /\ Shaped(q, made)
  BY DEF IInv, Types
<1>2. PICK p \in Process : p = Idle /\ p.op = "idle" /\ p.at = "idle" /\ p.temp = Nil
  BY IdleIsProcess
<1>3. /\ proc' = [proc EXCEPT ![w] = p] /\ files' = files /\ live' = live /\ made' = made /\ written' = written
      /\ emptied' = emptied
      /\ excused' = excused \cup (IF q.at = "pruned" THEN q.held ELSE {q.file} \ {0})
  BY <1>1, <1>2 DEF Die, Fault
<1>4. made' \in Nat /\ made <= made' /\ Shaped(p, made')
  BY <1>2, <1>3, IdleIsProcess, BackupNumbers DEF IInv, Types, TypeOK
<1>5. /\ proc' \in [Worker -> Process] /\ \A v \in Worker : Shaped(proc'[v], made')
      /\ proc'[w] = p /\ \A v \in Worker \ {w} : proc'[v] = proc[v]
  BY <1>3, <1>4, ProcessGoesOn DEF IInv
<1>6. Types' /\ LiveIsSound' /\ TempIsSound' /\ FromIsWhole' /\ Unwritten'
  <2>1. (IF q.at = "pruned" THEN q.held ELSE {q.file} \ {0}) \subseteq File
    BY <1>1, BackupNumbers DEF Shaped, Process, File
  <2>2. Types' /\ LiveIsSound' /\ TempIsSound'
    BY <2>1, <1>2, <1>3, <1>5 DEF IInv, Types, TypeOK, LiveIsSound, TempIsSound, Passable
  <2>3. FromIsWhole' /\ Unwritten'
    BY <1>2, <1>3, <1>5 DEF IInv, FromIsWhole, Unwritten
  <2>4. QED
    BY <2>2, <2>3
<1>7. \A f : (InMaking(f)' => InMaking(f)) /\ (InMaking(f) => InMaking(f)' \/ (q.at \in Making /\ f = q.file))
  BY <1>1, <1>2, <1>5 DEF InMaking, Making
<1>8. \A f : (InPruning(f)' => InPruning(f)) /\ (InPruning(f) => InPruning(f)' \/ (q.op = "prune" /\ f \in q.held))
  BY <1>1, <1>2, <1>5 DEF InPruning
<1>9. MadeAlone' /\ HeldIsGone'
  BY <1>2, <1>3, <1>5, <1>7, <1>8 DEF MadeAlone, HeldIsGone, IInv, Making
<1>10. NoRowYet'
  <2>1. ASSUME NEW f \in File, Rowless(f) PROVE Rowless(f)'
    BY <2>1, <1>2, <1>3, <1>5 DEF Rowless
  <2>2. QED
    BY <2>1, <1>3, <1>7 DEF NoRowYet, IInv
<1>11. Ledger'
  <2>1. ASSUME NEW f \in Misfits(live.records) PROVE f \in excused' \/ InMaking(f)' \/ InPruning(f)'
    <3>1. f \in excused \/ InMaking(f) \/ InPruning(f)
      BY DEF Ledger, IInv
    <3>2. CASE q.at \in Making /\ f = q.file
      BY <3>2, <1>3, BackupNumbers DEF Making, Misfits, File
    <3>3. CASE q.op = "prune" /\ f \in q.held
      BY <3>3, <1>1, <1>3 DEF Shaped
    <3>4. QED
      BY <3>1, <3>2, <3>3, <1>3, <1>7, <1>8
  <2>2. QED
    BY <2>1, <1>3 DEF Ledger, Misfits
<1>12. SafetyKept'
  <2>1. \A f : Copied(f)' => Copied(f)
    BY <1>2, <1>3, <1>5 DEF Copied
  <2>2. ASSUME NEW r, Safe(r) PROVE Safe(r)'
    BY <2>1, <2>2, <1>3 DEF Safe, KeptInCopies, NoneOrNewestKept, NewestKept, Listed
  <2>3. Safe(p)'
    BY <1>2 DEF Safe
  <2>4. QED
    BY <2>2, <2>3, <1>5, SafetyGoesOn DEF IInv
<1>13. QED
  BY <1>6, <1>9, <1>10, <1>11, <1>12 DEF IInv

\* A file changes, and the number of it and what was copied to it do not.
LEMMA FileSpoils ==
  ASSUME IInv, NEW f \in File, NEW d \in Database, d = files[f], NEW e \in Database,
         e.records = d.records, e.data = d.data, e.complete => d.complete,
         files' = [files EXCEPT ![f] = e], emptied \subseteq emptied', emptied' \subseteq File, FromIsWhole',
         UNCHANGED <<live, made, proc, excused, written>>
  PROVE  IInv'
<1>1. /\ files' \in [File -> Database \cup {Nil}]
      /\ \A g \in File : /\ files'[g] # Nil <=> files[g] # Nil
                         /\ files[g] # Nil => files'[g].records = files[g].records /\ files'[g].data = files[g].data
                         /\ files[g] # Nil /\ files'[g].complete => files[g].complete
  BY NilAssumption DEF IInv, Types, TypeOK
<1>2. Types' /\ LiveIsSound' /\ TempIsSound'
  BY <1>1 DEF IInv, Types, TypeOK, LiveIsSound, TempIsSound, Passable
<1>3. Unwritten'
  <2>1. \A w \in Worker : proc[w].at = "copy" => proc[w].file \in File
    BY BackupNumbers DEF IInv, Types, TypeOK, Shaped, Making, File
  <2>2. QED
    BY <2>1, <1>1 DEF IInv, Unwritten
<1>4. \A g : (InMaking(g)' <=> InMaking(g)) /\ (InPruning(g)' <=> InPruning(g))
  BY DEF InMaking, InPruning
<1>5. MadeAlone' /\ HeldIsGone' /\ Ledger'
  BY <1>1, <1>4 DEF MadeAlone, HeldIsGone, Ledger, Misfits, IInv
<1>6. NoRowYet'
  <2>1. ASSUME NEW g \in File, Rowless(g) PROVE Rowless(g)'
    BY <2>1, <1>1 DEF Rowless
  <2>2. QED
    BY <2>1, <1>4 DEF NoRowYet, IInv
<1>7. SafetyKept'
  <2>1. \A g : (Copied(g)' <=> Copied(g)) /\ (Listed(g)' <=> Listed(g))
    BY DEF Copied, Listed
  <2>2. \A k, held : KeptInCopies(k, held)' <=> KeptInCopies(k, held)
    BY <2>1, <1>1 DEF KeptInCopies
  <2>3. \A k : NewestKept(k)' <=> NewestKept(k)
    BY <2>1, <1>1 DEF NewestKept
  <2>4. \A k : NoneOrNewestKept(k)' <=> NoneOrNewestKept(k)
    BY <2>3 DEF NoneOrNewestKept
  <2>5. ASSUME NEW r, Safe(r) PROVE Safe(r)'
    BY <2>2, <2>3, <2>4, <2>5 DEF Safe
  <2> SUFFICES ASSUME NEW v \in Worker PROVE Safe(proc[v])'
    BY DEF SafetyKept
  <2>6. PICK r \in Process : r = proc[v] /\ r = proc'[v]
    BY DEF IInv, Types
  <2>7. Safe(r)'
    BY <2>5, <2>6 DEF IInv, SafetyKept
  <2>8. QED
    BY <2>6, <2>7 DEF Safe
<1>8. QED
  BY <1>2, <1>3, <1>5, <1>6, <1>7 DEF IInv

LEMMA RotStep == ASSUME IInv, NEW f \in File, Rot(f) PROVE IInv'
<1>1. PICK d \in Database : d = files[f]
  BY DEF Rot, Sound, IInv, Types, TypeOK
<1>2. [d EXCEPT !.sound = FALSE] \in Database
  BY DEF Database
<1>3. PICK e \in Database : e = [d EXCEPT !.sound = FALSE]
  BY <1>2
<1>4. e.records = d.records /\ e.data = d.data /\ e.complete = d.complete
  BY <1>3 DEF Database
<1>5. /\ files' = [files EXCEPT ![f] = e] /\ files[f] # Nil /\ emptied' = emptied
      /\ UNCHANGED <<live, made, proc, excused, written>>
  BY <1>1, <1>3 DEF Rot, Fault, Sound, IInv, Types, TypeOK
<1>6. FromIsWhole'
  <2>1. \A w \in Worker : proc[w].op = "restore" => proc[w].from \in File
    BY DEF IInv, Types, Shaped
  <2>2. \A g \in File : files[g] = Nil \/ files[g].complete => files'[g] = Nil \/ files'[g].complete
    BY <1>1, <1>4, <1>5 DEF IInv, Types, TypeOK
  <2>3. QED
    BY <2>1, <2>2, <1>5 DEF IInv, FromIsWhole
<1>7. emptied' \subseteq File
  BY <1>5 DEF IInv, Types, TypeOK
<1>8. QED
  BY <1>1, <1>4, <1>5, <1>6, <1>7, FileSpoils

LEMMA TruncateStep == ASSUME IInv, NEW f \in File, Truncate(f) PROVE IInv'
<1>1. PICK d \in Database : d = files[f] /\ d.complete
  BY DEF Truncate, Sound, IInv, Types, TypeOK
<1>2. [d EXCEPT !.complete = FALSE] \in Database
  BY DEF Database
<1>3. PICK e \in Database : e = [d EXCEPT !.complete = FALSE]
  BY <1>2
<1>4. e.records = d.records /\ e.data = d.data
  BY <1>3 DEF Database
<1>5. /\ files' = [files EXCEPT ![f] = e] /\ emptied \subseteq emptied' /\ emptied' \subseteq emptied \cup {f}
      /\ Awaited(f) => f \in emptied'
      /\ UNCHANGED <<live, made, proc, excused, written>>
  BY <1>1, <1>3 DEF Truncate, Fault, Sound, IInv, Types, TypeOK
<1>6. FromIsWhole'
  <2> SUFFICES ASSUME NEW w \in Worker, proc[w].op = "restore", proc[w].at # "replace"
               PROVE  files'[proc[w].from] = Nil \/ files'[proc[w].from].complete \/ proc[w].from \in emptied'
    BY <1>5 DEF FromIsWhole
  <2>1. proc[w].from \in File
    BY DEF IInv, Types, Shaped
  <2>2. CASE proc[w].from = f
    BY <2>2, <1>5 DEF Awaited
  <2>3. CASE proc[w].from # f
    BY <2>1, <2>3, <1>5 DEF IInv, FromIsWhole, Types, TypeOK
  <2>4. QED
    BY <2>2, <2>3
<1>7. emptied' \subseteq File
  BY <1>5 DEF IInv, Types, TypeOK
<1>8. QED
  BY <1>1, <1>4, <1>5, <1>6, <1>7, FileSpoils

-----------------------------------------------------------------------------

LEMMA NextIInv == IInv /\ [Next]_vars => IInv'
<1> SUFFICES ASSUME IInv, [Next]_vars PROVE IInv'
  OBVIOUS
<1>1. ASSUME NEW w \in Worker, Step(w) PROVE IInv'
  <2>1. CASE Write(w)
    BY <2>1, WriteStep
  <2>2. CASE Finish(w)
    BY <2>2, FinishStep
  <2>3. CASE Begin(w)
    BY <2>3, BeginStep
  <2>4. CASE Copy(w)
    BY <2>4, CopyStep
  <2>5. CASE Verify(w)
    BY <2>5, VerifyStep
  <2>6. CASE Record(w)
    BY <2>6, RecordStep
  <2>7. CASE CommitPrune(w)
    BY <2>7, CommitPruneStep
  <2>8. CASE CopyBack(w)
    BY <2>8, CopyBackStep
  <2>9. CASE Replace(w)
    BY <2>9, ReplaceStep
  <2>10. CASE ReplaceRefused(w)
    BY <2>10, ReplaceRefusedStep
  <2>11. CASE Mark(w)
    BY <2>11, MarkStep
  <2>12. QED
    BY <1>1, <2>1, <2>2, <2>3, <2>4, <2>5, <2>6, <2>7, <2>8, <2>9, <2>10, <2>11 DEF Step
<1>2. ASSUME NEW w \in Worker, Serve(w) \/ Die(w) \/ Create(w) \/ BackupsCreate(w) \/ BackupAlias(w) PROVE IInv'
  BY <1>2, ServeStep, DieStep, CreateStep DEF BackupsCreate, BackupAlias
<1>3. ASSUME NEW w \in Worker, Unlink(w) \/ BackupsPrune(w) PROVE IInv'
  BY <1>3, UnlinkStep DEF BackupsPrune
<1>4. ASSUME NEW w \in Worker, BackupsRestore(w) PROVE IInv'
  BY <1>4, RestoreStep DEF BackupsRestore
<1>5. ASSUME NEW w \in Worker, NEW job \in Scheduled, TakeLease(w, job) PROVE IInv'
  BY <1>5, TakeLeaseStep, BackupNumbers
<1>6. ASSUME NEW w \in Worker, VerifyAgain(w) \/ BackupsVerify(w) PROVE IInv'
  BY <1>6, VerifyAgainStep DEF BackupsVerify
<1>7. ASSUME NEW f \in File, Rot(f) \/ Truncate(f) PROVE IInv'
  BY <1>7, RotStep, TruncateStep
<1>8. CASE UNCHANGED vars
  BY <1>8 DEF vars, bounds, IInv, Types, TypeOK, LiveIsSound, TempIsSound, FromIsWhole, Unwritten, Passable,
     MadeAlone, NoRowYet, HeldIsGone, Ledger, SafetyKept, Rowless, InMaking, InPruning, Misfits, Safe, KeptInCopies, NoneOrNewestKept, NewestKept, Listed, Copied
<1>9. QED
  BY <1>1, <1>2, <1>3, <1>4, <1>5, <1>6, <1>7, <1>8 DEF Next

LEMMA SpecIInv == Spec => []IInv
BY InitIInv, NextIInv, PTL DEF Spec

\* The state of the database, the copies and the table of backups is always one
\* the program has a name for.
THEOREM TypeCorrect == Spec => []TypeOK
<1>1. IInv => TypeOK
  BY DEF IInv, Types
<1>2. QED
  BY <1>1, SpecIInv, PTL

\* "validates the input": whatever rots, whoever is killed and however restores
\* overtake each other, a restore puts no damaged copy in place; and one without
\* tables only if a file was emptied while a restore that had verified it was to
\* copy it.
THEOREM RestoresAreSound == Spec => []LiveIsSound
<1>1. IInv => LiveIsSound
  BY DEF IInv
<1>2. QED
  BY <1>1, SpecIInv, PTL

\* A file without its row, or a row without its file, is one that a process is
\* working on, was cut off with, or that a restore has changed the row of, or a
\* row that a verify wrote over after a prune.
THEOREM DirectoryAgreesWithTable == Spec => []DirectoryIsLedger
<1>1. IInv => DirectoryIsLedger
  <2> SUFFICES ASSUME IInv, NEW f \in Misfits(live.records) PROVE f \in excused \cup Busy
    BY DEF DirectoryIsLedger
  <2>1. CASE f \in excused
    BY <2>1
  <2>2. CASE InMaking(f)
    BY <2>2 DEF InMaking, Busy
  <2>3. CASE InPruning(f)
    <3>1. PICK w \in Worker : proc[w].op = "prune" /\ f \in proc[w].held
      BY <2>3 DEF InPruning
    <3>2. proc[w].held \in {proc[v].held : v \in {u \in Worker : proc[u].op = "prune"}}
      BY <3>1
    <3>3. QED
      BY <3>1, <3>2 DEF Busy
  <2>4. QED
    BY <2>1, <2>2, <2>3 DEF IInv, Ledger
<1>2. QED
  BY <1>1, SpecIInv, PTL

\* "creates a safety backup first": whatever was in the database when a restore
\* began is in a copy when the restore replaces the database, and the prunes that
\* came in between have not taken it.
THEOREM RestoreLosesNothing == Spec => RestoreKeepsReplaced
<1> DEFINE Kept == \A w \in Worker : Replace(w) /\ ~proc[w].stale =>
       \E f \in File : f >= proc[w].file /\ files[f] # Nil /\ proc[w].held \subseteq files[f].data
<1>1. IInv => Kept
  <2> SUFFICES ASSUME IInv, NEW w \in Worker, Replace(w), ~proc[w].stale
               PROVE  \E f \in File : f >= proc[w].file /\ files[f] # Nil /\ proc[w].held \subseteq files[f].data
    OBVIOUS
  <2>1. PICK q \in Process : q = proc[w] /\ q.at = "replace" /\ Shaped(q, made) /\ Safe(q) /\ ~q.stale
    BY DEF IInv, Types, SafetyKept, Replace
  <2>2. q.op = "restore" /\ q.file > 0
    BY <2>1, BackupNumbers DEF Shaped, IInv, Types, TypeOK
  <2>3. PICK g \in File : g >= q.file /\ Listed(g) /\ files[g] # Nil
    BY <2>1, <2>2 DEF Safe, NewestKept
  <2>4. Copied(g)
    BY <2>3 DEF Copied, Listed
  <2>5. q.held \subseteq files[g].data
    BY <2>1, <2>2, <2>3, <2>4 DEF Safe, KeptInCopies
  <2>6. QED
    BY <2>1, <2>3, <2>5
<1>2. IInv /\ [Next]_vars => [Kept]_vars
  BY <1>1
<1>3. QED
  BY <1>2, SpecIInv, PTL DEF Spec, RestoreKeepsReplaced
=============================================================================
