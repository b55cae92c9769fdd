------------------------------ MODULE RunLock ------------------------------
(***************************************************************************)
(* The single-instance lock of `oem-radar run`: core/run_lock.py, taken    *)
(* and released by cmd_run in cli.py.                                      *)
(*                                                                         *)
(* A lock is a file created with O_CREAT | O_EXCL whose payload (the pid   *)
(* of its creator) is written by a second system call.  A process that     *)
(* finds the file reads the pid, asks the operating system whether that    *)
(* pid is alive and, when it is not, unlinks the file and creates its own. *)
(* Each system call is one step here, so every interleaving of competing   *)
(* processes is a behaviour; a process may also die between any two calls. *)
(*                                                                         *)
(* A process is identified with its pid: a pid that runs again after a     *)
(* crash is a reused pid.  The file at the lock path is identified with    *)
(* its creator, who creates another one only after the path became free.   *)
(***************************************************************************)

CONSTANTS
  Proc,     \* the pids of the processes that may run a crawl
  Mortal,   \* the ones that may be killed
  NoFile    \* the lock path does not exist

ASSUME NoFileAssumption == NoFile \notin Proc
ASSUME MortalAssumption == Mortal \subseteq Proc

VARIABLES
  lockFile, \* the creator of the file at the lock path, or NoFile
  payload,  \* the processes that wrote their pid into the file they created
  at,       \* where each process is; "off" when it is not running
  oldPid,   \* the pid a process read from a lock file it did not create
  evicted   \* history: the holders whose lock file another process unlinked

lockVars == <<lockFile, payload, at, oldPid, evicted>>

Label == {"off", "create", "write", "crawl", "inspect", "probe", "unlink",
          "recreate", "check", "remove"}

LockTypeOK ==
  /\ lockFile \in Proc \cup {NoFile}
  /\ payload \in SUBSET Proc
  /\ at \in [Proc -> Label]
  /\ oldPid \in [Proc -> Proc \cup {NoFile}]
  /\ evicted \in SUBSET Proc

\* From its exclusive create to its release a process believes it has the lock.
Holding == {p \in Proc : at[p] \in {"write", "crawl", "check", "remove"}}

\* The processes that are inside run_all, writing the database.
Crawling == {p \in Proc : at[p] = "crawl"}

Alive(p) == at[p] # "off"

Goto(p, label) == at' = [at EXCEPT ![p] = label]

\* The process ends, for whatever reason; the lock path is not touched.
Leave(p) ==
  /\ Goto(p, "off")
  /\ evicted' = evicted \ {p}
  /\ oldPid' = [oldPid EXCEPT ![p] = NoFile]
  /\ UNCHANGED <<lockFile, payload>>

\* p unlinks whatever is at the lock path (missing_ok): if a process that
\* believes it holds the lock created that file, it has been evicted.
Unlink(p) ==
  /\ lockFile' = NoFile
  /\ evicted' = (evicted \cup ({lockFile} \cap Holding)) \ {p}
  /\ oldPid' = [oldPid EXCEPT ![p] = NoFile]
  /\ UNCHANGED payload

-----------------------------------------------------------------------------
(* RunLock.acquire *)

LockInit ==
  /\ lockFile = NoFile
  /\ payload = {}
  /\ at = [p \in Proc |-> "off"]
  /\ oldPid = [p \in Proc |-> NoFile]
  /\ evicted = {}

Start(p) ==
  /\ at[p] = "off"
  /\ Goto(p, "create")
  /\ UNCHANGED <<lockFile, payload, oldPid, evicted>>

\* Mutant of CreateFile: opened without O_EXCL.
CreateFileNonExclusive(p) ==
  /\ lockFile' = p
  /\ payload' = payload \ {p}
  /\ Goto(p, "write")
  /\ UNCHANGED <<oldPid, evicted>>

\* The exclusive create succeeds; the new file is still empty.
CreateFile(p) ==
  /\ lockFile = NoFile
  /\ lockFile' = p
  /\ payload' = payload \ {p}
  /\ Goto(p, "write")
  /\ UNCHANGED <<oldPid, evicted>>

Create(p) ==
  /\ at[p] = "create"
  /\ CreateFile(p)

FindExisting(p) ==
  /\ at[p] = "create"
  /\ lockFile # NoFile
  /\ Goto(p, "inspect")
  /\ UNCHANGED <<lockFile, payload, oldPid, evicted>>

\* The payload goes to the file p created, wherever its name points by now.
WritePayload(p) ==
  /\ at[p] = "write"
  /\ payload' = payload \cup {p}
  /\ Goto(p, "crawl")
  /\ UNCHANGED <<lockFile, oldPid, evicted>>

(* RunLock._handle_existing *)

InspectReadable(p) ==
  /\ at[p] = "inspect"
  /\ lockFile \in payload
  /\ oldPid' = [oldPid EXCEPT ![p] = lockFile]
  /\ Goto(p, "probe")
  /\ UNCHANGED <<lockFile, payload, evicted>>

\* The file vanished, or is empty because its creator has not written yet.
InspectUnreadable(p) ==
  /\ at[p] = "inspect"
  /\ lockFile \notin payload
  /\ Leave(p)

\* Mutant of ProbeDead: the answer of _pid_alive is taken the wrong way round.
ProbeInverted(p) ==
  /\ at[p] = "probe"
  /\ Alive(oldPid[p])
  /\ Goto(p, "unlink")
  /\ UNCHANGED <<lockFile, payload, oldPid, evicted>>

ProbeDead(p) ==
  /\ at[p] = "probe"
  /\ ~Alive(oldPid[p])
  /\ Goto(p, "unlink")
  /\ UNCHANGED <<lockFile, payload, oldPid, evicted>>

\* Alive, or _pid_alive returned None: the liveness could not be determined.
ProbeRefuses(p) ==
  /\ at[p] = "probe"
  /\ Leave(p)

UnlinkStale(p) ==
  /\ at[p] = "unlink"
  /\ Goto(p, "recreate")
  /\ Unlink(p)

\* The unlink raised OSError.
UnlinkFails(p) ==
  /\ at[p] = "unlink"
  /\ Leave(p)

Recreate(p) ==
  /\ at[p] = "recreate"
  /\ CreateFile(p)

RecreateRace(p) ==
  /\ at[p] = "recreate"
  /\ lockFile # NoFile
  /\ Leave(p)

-----------------------------------------------------------------------------
(* RunLock.release, in the finally clause of cmd_run *)

\* run_all returned or raised.
FinishCrawl(p) ==
  /\ at[p] = "crawl"
  /\ Goto(p, "check")
  /\ UNCHANGED <<lockFile, payload, oldPid, evicted>>

CheckOwn(p) ==
  /\ at[p] = "check"
  /\ lockFile = p /\ p \in payload
  /\ Goto(p, "remove")
  /\ UNCHANGED <<lockFile, payload, oldPid, evicted>>

\* No file, an unreadable one, or another pid: warn and leave it.
CheckOther(p) ==
  /\ at[p] = "check"
  /\ ~(lockFile = p /\ p \in payload)
  /\ Leave(p)

Remove(p) ==
  /\ at[p] = "remove"
  /\ Goto(p, "off")
  /\ Unlink(p)

\* The process is killed; the lock file stays as it is.
Killed(p) ==
  /\ p \in Mortal /\ at[p] # "off"
  /\ Leave(p)

-----------------------------------------------------------------------------

Acquire(p) ==
  \/ Create(p) \/ FindExisting(p) \/ WritePayload(p)
  \/ InspectReadable(p) \/ InspectUnreadable(p)
  \/ ProbeDead(p) \/ ProbeRefuses(p)
  \/ UnlinkStale(p) \/ UnlinkFails(p)
  \/ Recreate(p) \/ RecreateRace(p)

Release(p) ==
  FinishCrawl(p) \/ CheckOwn(p) \/ CheckOther(p) \/ Remove(p)

LockNext == \E p \in Proc : Start(p) \/ Acquire(p) \/ Release(p) \/ Killed(p)

LockSpec == LockInit /\ [][LockNext]_lockVars

\* The scheduler of the operating system keeps invoking `oem-radar run`, and a
\* running process takes its next system call.  A run that nobody kills is not
\* forever left with an undetermined liveness or a refused unlink.  A pid whose
\* process was killed need not ever be used again.
Fairness ==
  /\ \A p \in Proc : WF_lockVars(Acquire(p) \/ Release(p))
  /\ \A p \in Proc \ Mortal :
        WF_lockVars(Start(p)) /\ SF_lockVars(ProbeDead(p)) /\ SF_lockVars(UnlinkStale(p))

LockFairSpec == LockSpec /\ Fairness

-----------------------------------------------------------------------------
(* Properties *)

\* "Prevents two concurrent `oem-radar run` processes": no two processes are
\* in run_all at once.  A reclaim that races another one breaks this.
MutualExclusion == \A p, q \in Crawling : p = q

\* What the lock does guarantee: among the holders whose file nobody removed
\* there is at most one, and the file at the lock path is its own, so a
\* second crawl needs the removal of a live holder's file.
SoleUnevictedHolder ==
  \A p \in Holding \ evicted : lockFile = p

\* "Never delete a lock that still belongs to a live process", for release:
\* the removal of a live holder's file always starts with a reclaim, on the
\* strength of a pid read before; a release that removes another process's
\* file is one whose own file had been taken before.
EvictionStartsWithReclaim ==
  [][(evicted = {} /\ evicted' # {})
       => \E p \in Proc : at[p] = "unlink" /\ at'[p] = "recreate"]_lockVars

\* The pid comparison in release: a holder that was evicted while it crawled
\* leaves the file of the process that replaced it alone.
EvictedNeverRemoves ==
  [][\A p \in evicted : at[p] = "check" => at'[p] # "remove"]_lockVars

\* A complete lock left behind by a killed run does not block the schedule:
\* some later run reclaims it, unless its pid lives again.
StaleLock == lockFile \in payload /\ ~Alive(lockFile)

StaleLockReclaimed == StaleLock ~> ~StaleLock

=============================================================================
