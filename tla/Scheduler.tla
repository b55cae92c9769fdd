----------------------------- MODULE Scheduler ------------------------------
(***************************************************************************)
(* The operational scheduler of Semi Intel (operations/scheduler.py): the  *)
(* leases that keep a job from running twice, the job runs, the operator's *)
(* reconciliation, and the qualification evidence each run leaves          *)
(* (operations/qualification.py).                                          *)
(*                                                                         *)
(* A worker is a process or a web request.  It looks the lease of a job    *)
(* up, takes it in a second transaction, binds the run to a qualification  *)
(* epoch in a third, executes the job, and finishes in a fourth.  It may   *)
(* die, or an exception may end it, between any two of them.               *)
(*                                                                         *)
(* Time is what its passing does: a lease expires, a job becomes due.  A   *)
(* cycle takes the time once, when it starts, and gives it to every job,   *)
(* so that a lease that expired since still counts as active for it.       *)
(*                                                                         *)
(* A run is the row of a job run as long as a lease or a worker refers to  *)
(* it, and stands for its lock token too.  Of the statuses only RUNNING is *)
(* kept; the others are history to this code, as are the audit row of a    *)
(* recovered lease and the RUNNING row that outlived worker and lease.     *)
(***************************************************************************)
EXTENDS Naturals

CONSTANTS
  Type,       \* the types of job
  Cycler,     \* the processes the task scheduler starts, `automation cycle`
  Operator,   \* the processes and requests an operator starts, retries too
  Run,        \* the rows that may be referred to at one time
  Material,   \* the qualification material of the installations
  Trusted,    \* the materials with no unknown component
  FirstMaterial, \* the first one installed
  Nil,        \* no lease, no run, no job, no epoch
  MaxUpgrades, \* bound: changes of the installation
  MaxFaults   \* bound: dying workers and failing jobs

Worker == Cycler \cup Operator

ASSUME NilAssumption == Nil \notin Type \cup Run \cup Material
ASSUME MaterialAssumption == FirstMaterial \in Material /\ Trusted \subseteq Material
ASSUME BoundAssumption == MaxUpgrades \in Nat /\ MaxFaults \in Nat

VARIABLES
  holder,    \* the run that holds the lease of each type
  expired,   \* the types whose lease has expired
  running,   \* the type of each run whose row is RUNNING
  fresh,     \* the types that ran recently enough not to be due
  installed, \* the material of the installed program
  epoch,     \* the material of the current epoch of each type
  era,       \* the upgrades before the time that epoch is dated
  opened,    \* the materials each type has an epoch for
  healthy,   \* the types whose latest evidence is a scheduled success
  worker,    \* what each worker is doing
  lapsed,    \* history: the types of which a lease expired at some time
  earned,    \* history: the scheduled successes, by type and material
  upgrades,  \* number of upgrades so far
  faults     \* number of faults so far

leases == <<holder, expired, running>>
qualification == <<epoch, era, opened, healthy>>
vars == <<leases, fresh, installed, qualification, worker, lapsed, earned, upgrades, faults>>

Off == [pc |-> "off", manual |-> FALSE, material |-> Nil, era |-> 0, todo |-> {}, job |-> Nil,
        read |-> Nil, run |-> Nil, expiredSince |-> {}, finishedSince |-> {}]

WorkerState ==
  [pc : {"off", "next", "lookup", "acquire", "skip", "prepare", "execute"},
   manual : BOOLEAN,             \* not started by the task scheduler
   material : Material \cup {Nil}, \* of the program that runs
   era : Nat,                    \* the upgrades before it took the time
   todo : SUBSET Type,           \* the due jobs the cycle has not come to
   job : Type \cup {Nil},        \* the one it is running
   read : Run \cup {Nil},        \* the expired lease it found
   run : Run \cup {Nil},         \* its own row
   expiredSince : SUBSET Type,   \* leases that expired since it took the time
   finishedSince : SUBSET Type]  \* evidence recorded since it took the time;
                                 \* both for the jobs it has no lease of yet

TypeOK ==
  /\ holder \in [Type -> Run \cup {Nil}]
  /\ expired \in SUBSET {t \in Type : holder[t] # Nil}
  /\ running \in [Run -> Type \cup {Nil}]
  /\ fresh \in SUBSET Type
  /\ installed \in Material
  /\ epoch \in [Type -> Material \cup {Nil}]
  /\ era \in [Type -> Nat]
  /\ opened \in [Type -> SUBSET Material]
  /\ healthy \in SUBSET Type
  /\ worker \in [Worker -> WorkerState]
  /\ \A w \in Worker :
       /\ worker[w].material # Nil <=> worker[w].pc # "off"
       /\ worker[w].job # Nil <=> worker[w].pc \notin {"off", "next"}
       /\ worker[w].run # Nil <=> worker[w].pc \in {"prepare", "execute"}
  /\ lapsed \in SUBSET Type
  /\ earned \in SUBSET (Type \X Material)
  /\ upgrades \in Nat
  /\ faults \in Nat

Init ==
  /\ holder = [t \in Type |-> Nil]
  /\ expired = {}
  /\ running = [r \in Run |-> Nil]
  /\ fresh = {}
  /\ installed = FirstMaterial
  /\ epoch = [t \in Type |-> Nil]
  /\ era = [t \in Type |-> 0]
  /\ opened = [t \in Type |-> {}]
  /\ healthy = {}
  /\ worker = [w \in Worker |-> Off]
  /\ lapsed = {}
  /\ earned = {}
  /\ upgrades = 0
  /\ faults = 0

Job(w) == worker[w].job

\* w is at label, with a job in hand unless it is between two.
At(w, label) == worker[w].pc = label

Goto(w, label) == worker' = [worker EXCEPT ![w].pc = label]

\* The jobs for which the time w took at its start will matter.
Ahead(w) ==
  worker[w].todo \cup (IF At(w, "lookup") \/ At(w, "acquire") \/ At(w, "skip")
                       THEN {Job(w)} ELSE {})

Fault ==
  /\ faults < MaxFaults
  /\ faults' = faults + 1

-----------------------------------------------------------------------------
(* Time and installation *)

\* Nothing refreshes a lease, so a job that takes long enough loses it.
Expire(t) ==
  /\ holder[t] # Nil
  /\ t \notin expired
  /\ expired' = expired \cup {t}
  /\ lapsed' = lapsed \cup {t}
  /\ worker' = [w \in Worker |->
       IF t \notin Ahead(w) THEN worker[w]
       ELSE [worker[w] EXCEPT !.expiredSince = @ \cup {t}]]
  /\ UNCHANGED <<holder, running, fresh, installed, qualification, earned,
                 upgrades, faults>>

BecomeDue(t) ==
  /\ t \in fresh
  /\ fresh' = fresh \ {t}
  /\ UNCHANGED <<leases, installed, qualification, worker, lapsed, earned,
                 upgrades, faults>>

\* Another version or configuration; a worker goes on with the one it began with.
Upgrade(m) ==
  /\ m # installed
  /\ upgrades < MaxUpgrades
  /\ upgrades' = upgrades + 1
  /\ installed' = m
  /\ UNCHANGED <<leases, fresh, qualification, worker, lapsed, earned, faults>>

-----------------------------------------------------------------------------
(* cycle, and the jobs an operator runs or retries *)

StartCycle(w) ==
  /\ w \in Cycler
  /\ At(w, "off")
  /\ worker' = [worker EXCEPT ![w] =
       [Off EXCEPT !.pc = "next", !.material = installed, !.era = upgrades,
                   !.todo = Type \ fresh]]
  /\ UNCHANGED <<leases, fresh, installed, qualification, lapsed, earned,
                 upgrades, faults>>

StartManual(w, t) ==
  /\ w \in Operator
  /\ At(w, "off")
  /\ worker' = [worker EXCEPT ![w] =
       [Off EXCEPT !.pc = "lookup", !.material = installed, !.era = upgrades,
                   !.job = t, !.manual = TRUE]]
  /\ UNCHANGED <<leases, fresh, installed, qualification, lapsed, earned,
                 upgrades, faults>>

\* A job that was due when the cycle started, and that nobody has run since; the
\* order of the types is left open.
NextJob(w, t) ==
  /\ At(w, "next")
  /\ t \in worker[w].todo
  /\ worker' = [worker EXCEPT ![w].pc = "lookup", ![w].job = t, ![w].todo = @ \ {t}]
  /\ UNCHANGED <<leases, fresh, installed, qualification, lapsed, earned,
                 upgrades, faults>>

EndWork(w) ==
  /\ At(w, "next")
  /\ worker[w].todo = {}
  /\ worker' = [worker EXCEPT ![w] = Off]
  /\ UNCHANGED <<leases, fresh, installed, qualification, lapsed, earned,
                 upgrades, faults>>

-----------------------------------------------------------------------------
(* LeaseManager.acquire *)

\* Mutant of Active: a lease is active until somebody removes it.
ActiveEver(w, t) == holder[t] # Nil

\* As w sees it, with the time it took when it started.
Active(w, t) ==
  holder[t] # Nil /\ (t \notin expired \/ t \in worker[w].expiredSince)

Lookup(w) ==
  /\ At(w, "lookup")
  /\ IF Active(w, Job(w))
     THEN Goto(w, "skip")
     ELSE worker' = [worker EXCEPT ![w].pc = "acquire", ![w].read = holder[Job(w)]]
  /\ UNCHANGED <<leases, fresh, installed, qualification, lapsed, earned,
                 upgrades, faults>>

\* The rows somebody still refers to.
Kept(rows) ==
  [r \in Run |-> IF \/ \E t \in Type : holder'[t] = r
                     \/ \E w \in Worker : worker'[w].run = r
                  THEN rows[r] ELSE Nil]

Free(r) ==
  /\ \A t \in Type : holder[t] # r
  /\ \A w \in Worker : worker[w].read # r /\ worker[w].run # r

\* Mutant of Takable: the unique job_type of the lease table is given up.
TakableAlways(w) == TRUE

\* The transaction deletes the expired lease by its row id and inserts its own,
\* of which there may be one per type.  When the lease that was read is gone
\* and another has its place, either the other has the same row id and is
\* deleted in its stead, or the insert fails.
Takable(w) ==
  \/ holder[Job(w)] \in {Nil, worker[w].read}
  \/ worker[w].read # Nil

\* w at label with run r and no more use for the time it took.
Forget(w, label, r) ==
  [worker[w] EXCEPT !.pc = label, !.read = Nil, !.run = r,
                    !.expiredSince = @ \ {Job(w)}, !.finishedSince = @ \ {Job(w)}]

\* Lease and RUNNING row are committed together.
Acquire(w) ==
  /\ At(w, "acquire")
  /\ Takable(w)
  /\ \E r \in Run : Free(r)
  /\ LET r == CHOOSE r \in Run : Free(r)
     IN  /\ holder' = [holder EXCEPT ![Job(w)] = r]
         /\ worker' = [worker EXCEPT ![w] = Forget(w, "prepare", r)]
         /\ running' = Kept([running EXCEPT ![r] = Job(w)])
  /\ expired' = expired \ {Job(w)}
  /\ UNCHANGED <<fresh, installed, qualification, lapsed, earned, upgrades,
                 faults>>

\* IntegrityError: another worker's lease came first.
AcquireRefused(w) ==
  /\ At(w, "acquire")
  /\ holder[Job(w)] \notin {Nil, worker[w].read}
  /\ worker' = [worker EXCEPT ![w].pc = "skip", ![w].read = Nil]
  /\ UNCHANGED <<leases, fresh, installed, qualification, lapsed, earned,
                 upgrades, faults>>

-----------------------------------------------------------------------------
(* QualificationService *)

\* The epoch of w's material, dated by the time w took, is the current one
\* unless w was overtaken by a worker that started after an upgrade.
Latest(w) == worker[w].era >= era[Job(w)]

\* Mutant of OpensEpoch: the evidence of the epoch before is carried over.
OpensEpochCarrying(w) ==
  LET t == Job(w)
      m == worker[w].material
  IN  /\ m \notin opened[t]
      /\ opened' = [opened EXCEPT ![t] = @ \cup {m}]
      /\ IF Latest(w)
         THEN /\ epoch' = [epoch EXCEPT ![t] = m]
              /\ era' = [era EXCEPT ![t] = worker[w].era]
         ELSE UNCHANGED <<epoch, era>>
      /\ UNCHANGED healthy

\* An epoch is unique for its type and material, and starts with no evidence.
OpensEpoch(w) ==
  LET t == Job(w)
      m == worker[w].material
  IN  /\ m \notin opened[t]
      /\ opened' = [opened EXCEPT ![t] = @ \cup {m}]
      /\ IF Latest(w)
         THEN /\ epoch' = [epoch EXCEPT ![t] = m]
              /\ era' = [era EXCEPT ![t] = worker[w].era]
              /\ healthy' = healthy \ {t}
         ELSE UNCHANGED <<epoch, era, healthy>>

\* The current epoch of w's job is the one of its material.
Current(w) == epoch[Job(w)] = worker[w].material

\* prepare: the run joins the current epoch of its material, or opens one.
Bind(w) ==
  \/ Current(w) /\ UNCHANGED qualification
  \/ ~Current(w) /\ OpensEpoch(w)

\* An epoch that was left has no successor of the same material: the insert
\* fails, and nothing in run_job or cycle catches it.
Rejected(t, m) == epoch[t] # m /\ m \in opened[t]

\* record_terminal: the evidence of w's job, were it the latest.
Terminal(w, result) ==
  IF result = "successful" /\ ~worker[w].manual
  THEN healthy \cup {Job(w)} ELSE healthy \ {Job(w)}

\* gate, asked by the installed program.
Qualified(t) ==
  /\ epoch[t] = installed
  /\ installed \in Trusted
  /\ t \in healthy

-----------------------------------------------------------------------------
(* run_job after the lease *)

\* The job in hand is over; a cycle goes on with the next.
JobDone(w) ==
  [Forget(w, "next", Nil) EXCEPT !.job = Nil]

\* The SKIPPED row is evidence as of the time the worker took: evidence
\* recorded since then stays the latest.
Skip(w) ==
  /\ At(w, "skip")
  /\ ~Rejected(Job(w), worker[w].material)
  /\ IF Current(w)
     THEN /\ UNCHANGED <<epoch, era, opened>>
          /\ healthy' = IF Job(w) \in worker[w].finishedSince THEN healthy
                                                              ELSE Terminal(w, "skipped")
     ELSE OpensEpoch(w)
  /\ worker' = [worker EXCEPT ![w] = JobDone(w)]
  /\ UNCHANGED <<leases, fresh, installed, lapsed, earned, upgrades, faults>>

Prepare(w) ==
  /\ At(w, "prepare")
  /\ Bind(w)
  /\ Goto(w, "execute")
  /\ UNCHANGED <<leases, fresh, installed, lapsed, earned, upgrades, faults>>

\* The exception of prepare ends the worker: row and lease stay.
Escape(w) ==
  /\ At(w, "skip") \/ At(w, "prepare")
  /\ Rejected(Job(w), worker[w].material)
  /\ worker' = [worker EXCEPT ![w] = Off]
  /\ UNCHANGED <<holder, expired, fresh, installed, qualification, lapsed, earned,
                 upgrades, faults>>
  /\ running' = Kept(running)

\* The lease is looked up by the lock token of the run.
Release(w) ==
  IF holder[Job(w)] = worker[w].run
  THEN /\ holder' = [holder EXCEPT ![Job(w)] = Nil]
       /\ expired' = expired \ {Job(w)}
  ELSE UNCHANGED <<holder, expired>>

\* The job returned, or raised; one transaction closes the row, records the
\* evidence and releases the lease.
Finish(w, result) ==
  /\ At(w, "execute")
  /\ IF result = "failed" THEN Fault ELSE UNCHANGED faults
  /\ running' = [running EXCEPT ![worker[w].run] = Nil]
  /\ Release(w)
  /\ fresh' = IF result = "failed" THEN fresh ELSE fresh \cup {Job(w)}
  /\ healthy' = IF Current(w) THEN Terminal(w, result) ELSE healthy
  /\ worker' = [v \in Worker |-> IF v = w THEN JobDone(w) ELSE
       [worker[v] EXCEPT
          !.todo = IF result = "failed" THEN @ ELSE @ \ {Job(w)},
          !.finishedSince = IF Job(w) \in Ahead(v) /\ Current(w)
                            THEN @ \cup {Job(w)} ELSE @]]
  /\ earned' = IF result = "successful" /\ ~worker[w].manual
               THEN earned \cup {<<Job(w), worker[w].material>>} ELSE earned
  /\ UNCHANGED <<installed, epoch, era, opened, lapsed, upgrades>>

\* The worker dies, or a transaction of its own raises: row and lease stay.
Die(w) ==
  /\ ~At(w, "off")
  /\ Fault
  /\ worker' = [worker EXCEPT ![w] = Off]
  /\ UNCHANGED <<holder, expired, fresh, installed, qualification, lapsed, earned,
                 upgrades>>
  /\ running' = Kept(running)

-----------------------------------------------------------------------------
(* reconcile_stale_runs *)

\* The expired leases E are deleted.
Sweep(E) ==
  /\ holder' = [t \in Type |-> IF t \in E THEN Nil ELSE holder[t]]
  /\ expired' = expired \ E

\* The RUNNING rows without an active lease, as many as are old enough, are
\* abandoned, and the expired leases deleted: all that had expired when it took
\* the time, which may be some of them by now.
Reconcile(S, E) ==
  /\ S \cup E # {}
  /\ \A r \in S : running[r] # Nil
  /\ \A t \in Type : holder[t] \in S => t \in E
  /\ Sweep(E)
  /\ UNCHANGED worker
  /\ running' = Kept([r \in Run |-> IF r \in S THEN Nil ELSE running[r]])
  /\ UNCHANGED <<fresh, installed, qualification, lapsed, earned, upgrades, faults>>

-----------------------------------------------------------------------------

\* What a worker does of itself.
Step(w) ==
  \/ \E t \in Type : NextJob(w, t)
  \/ EndWork(w)
  \/ Lookup(w)
  \/ Acquire(w) \/ AcquireRefused(w)
  \/ Skip(w)
  \/ Prepare(w)
  \/ Escape(w)
  \/ \E result \in {"successful", "partial"} : Finish(w, result)

Passing == \E t \in Type : Expire(t) \/ BecomeDue(t)

Next ==
  \/ Passing
  \/ \E m \in Material : Upgrade(m)
  \/ \E w \in Worker :
       \/ StartCycle(w)
       \/ \E t \in Type : StartManual(w, t)
       \/ Step(w)
       \/ Finish(w, "failed")
       \/ Die(w)
  \/ \E S \in SUBSET Run, E \in SUBSET expired : Reconcile(S, E)

Spec == Init /\ [][Next]_vars

\* Time passes, the task scheduler starts its cycles, and jobs come to an end:
\* the fetches and deliveries they are made of have timeouts.  Nothing is
\* assumed of the operator.
FairSpec ==
  /\ Spec
  /\ \A t \in Type : WF_vars(Expire(t)) /\ WF_vars(BecomeDue(t))
  /\ \A w \in Cycler : WF_vars(StartCycle(w))
  /\ \A w \in Worker : WF_vars(Step(w))

-----------------------------------------------------------------------------
(* Safety *)

Busy(w, t) == Job(w) = t /\ (At(w, "prepare") \/ At(w, "execute"))

\* README.md:601, leases "prevent two processes from running the same job at
\* once": until the first lease of a type expires, one worker at most is busy
\* with it (acquire, the unique job_type of the lease table, release).
ExclusiveUntilExpiry ==
  \A t \in Type \ lapsed : \A v, w \in Worker : Busy(v, t) /\ Busy(w, t) => v = w

\* A lease belongs to a RUNNING row of its type: no lease outlives the end or
\* the abandonment of its run (finish, acquire, reconcile_stale_runs).
LeaseProtectsRun ==
  \A t \in Type : holder[t] # Nil => running[holder[t]] = t

\* The gate opens only for a material under which the job has succeeded on the
\* schedule: not by an operator's run, a partial one, or one of another material
\* (prepare, record_terminal, gate).
QualifiedIsEarned ==
  \A t \in Type : Qualified(t) => <<t, installed>> \in earned

\* A run that ends leaves the lease alone when it is not its own any more: a
\* worker that was overtaken does not open the door to a third.
LateFinishKeepsLease ==
  [][\A w \in Worker :
       /\ worker[w].pc = "execute" /\ worker'[w].pc # "execute"
       /\ holder[Job(w)] # worker[w].run
       => holder'[Job(w)] = holder[Job(w)]]_vars

\* OPERATOR_GUIDE.md:373, "an abandoned record means an expired lease was
\* recovered": a lease that has not expired ends with its own run.  Broken by
\* two workers that found the same expired lease: the row id of the lease the
\* first one inserts is the one the second one deletes.
OnlyExpiredIsTaken ==
  [][\A t \in Type :
       holder[t] # Nil /\ t \notin expired /\ holder'[t] # holder[t]
         => \E w \in Worker : worker[w].run = holder[t] /\ worker'[w].run = Nil]_vars

(* Liveness *)

\* A due job is run in the end, whatever died or failed before: an orphaned
\* lease expires and is taken over, unless the epoch of the installed program
\* was left before.
DueJobRuns ==
  \A t \in Type : t \notin fresh ~> (t \in fresh \/ Rejected(t, installed))

\* docs/QUALIFICATION_PROVENANCE.md:18, "A material change creates a new epoch":
\* the program that stays installed gets an epoch for each type.  Broken by the
\* return to an earlier material, whose epoch cannot be inserted again.
MaterialOpensEpoch ==
  \A t \in Type, m \in Material : installed = m ~> (installed # m \/ epoch[t] = m)
=============================================================================
