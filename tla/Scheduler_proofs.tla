-------------------------- MODULE Scheduler_proofs --------------------------
(***************************************************************************)
(* The safety of the scheduler for every set of job types, workers, rows   *)
(* and materials, and every number of upgrades and faults.  The invariant  *)
(* that carries it ties the three tables to what the workers hold: a row   *)
(* to the worker that runs it, a lease to the row, an expired lease that   *)
(* was found to the history of expiries, the evidence to the epoch.        *)
(***************************************************************************)
EXTENDS Scheduler, TLAPS

\* No two workers have the same row, and a row is RUNNING for its worker's job
\* unless it was abandoned.
RowsApart ==
  /\ \A v, w \in Worker : worker[v].run # Nil /\ worker[v].run = worker[w].run => v = w
  /\ \A w \in Worker : worker[w].run # Nil => running[worker[w].run] \in {Nil, Job(w)}

\* Only of a type that has lapsed may an expired lease be found.
FoundLapsed ==
  /\ expired \subseteq lapsed
  /\ \A w \in Worker :
       worker[w].read # Nil => worker[w].pc = "acquire" /\ Job(w) \in lapsed

\* Until the first expiry, who is busy with a type has its lease.
BusyHoldsLease ==
  \A w \in Worker : \A t \in Type \ lapsed : Busy(w, t) => holder[t] = worker[w].run

\* The evidence that counts is of the current epoch.
HealthyIsEarned == \A t \in healthy : <<t, epoch[t]>> \in earned

IInv ==
  /\ TypeOK
  /\ LeaseProtectsRun
  /\ RowsApart
  /\ FoundLapsed
  /\ BusyHoldsLease
  /\ HealthyIsEarned
-----------------------------------------------------------------------------
(* The steps of one worker *)

Paired(s) ==
  /\ s.material # Nil <=> s.pc # "off"
  /\ s.job # Nil <=> s.pc \notin {"off", "next"}
  /\ s.run # Nil <=> s.pc \in {"prepare", "execute"}

LEMMA WorkersTyped ==
  ASSUME NEW ws, ws \in [Worker -> WorkerState], NEW w \in Worker,
         NEW s \in WorkerState, Paired(s), \A v \in Worker : Paired(ws[v])
  PROVE  LET new == [ws EXCEPT ![w] = s]
         IN  new \in [Worker -> WorkerState] /\ \A v \in Worker : Paired(new[v])
OBVIOUS

LEMMA OffTyped == Off \in WorkerState /\ Paired(Off)
BY DEF Off, WorkerState, Paired

\* A worker's record after Forget has the fields it should.
LEMMA ForgetTyped ==
  ASSUME TypeOK, NEW w \in Worker, NEW label \in {"next", "prepare"},
         NEW r \in Run \cup {Nil}
  PROVE  /\ Forget(w, label, r) \in WorkerState
         /\ Forget(w, label, r).pc = label
         /\ Forget(w, label, r).run = r
         /\ Forget(w, label, r).job = Job(w)
         /\ Forget(w, label, r).read = Nil
         /\ Forget(w, label, r).material = worker[w].material
<1>1. PICK s \in WorkerState : s = worker[w]
  BY DEF TypeOK
<1>2. /\ s.expiredSince \ {Job(w)} \in SUBSET Type
      /\ s.finishedSince \ {Job(w)} \in SUBSET Type
  BY DEF WorkerState
<1>3. Forget(w, label, r) =
        [s EXCEPT !.pc = label, !.read = Nil, !.run = r,
                  !.expiredSince = s.expiredSince \ {Job(w)},
                  !.finishedSince = s.finishedSince \ {Job(w)}]
  BY <1>1 DEF Forget
<1>4. Job(w) = s.job /\ worker[w].material = s.material
  BY <1>1 DEF Job
<1>5. Forget(w, label, r) \in WorkerState
  BY <1>2, <1>3 DEF WorkerState
<1>6. QED
  BY <1>3, <1>4, <1>5 DEF WorkerState

LEMMA StepsTyped ==
  ASSUME TypeOK, NEW w \in Worker, ~At(w, "off")
  PROVE  /\ JobDone(w) \in WorkerState /\ Paired(JobDone(w))
         /\ JobDone(w).run = Nil /\ JobDone(w).read = Nil
         /\ Job(w) # Nil =>
              \A r \in Run :
                Forget(w, "prepare", r) \in WorkerState /\ Paired(Forget(w, "prepare", r))
<1>1. /\ Forget(w, "next", Nil) \in WorkerState
      /\ Forget(w, "next", Nil).pc = "next"
      /\ Forget(w, "next", Nil).run = Nil
      /\ Forget(w, "next", Nil).read = Nil
      /\ Forget(w, "next", Nil).material = worker[w].material
  BY ForgetTyped
<1>2. worker[w].material # Nil
  BY DEF TypeOK, At
<1>3. JobDone(w) \in WorkerState /\ Paired(JobDone(w))
      /\ JobDone(w).run = Nil /\ JobDone(w).read = Nil
  BY <1>1, <1>2 DEF JobDone, WorkerState, Paired
<1>4. QED
  BY <1>2, <1>3, ForgetTyped, NilAssumption DEF Paired

\* A worker that goes on with its row and job, or lets go of its row; the rows
\* nobody refers to may be forgotten on the way.
LEMMA MovesOn ==
  ASSUME IInv, NEW w \in Worker, NEW s \in WorkerState, Paired(s),
         worker' = [worker EXCEPT ![w] = s],
         s.run = Nil \/ (s.run = worker[w].run /\ s.job = Job(w)),
         s.read # Nil => s.pc = "acquire" /\ s.job \in lapsed,
         UNCHANGED <<holder, expired, lapsed>>,
         running' = running \/ running' = Kept(running)
  PROVE  /\ worker' \in [Worker -> WorkerState]
         /\ \A v \in Worker : Paired(worker'[v])
         /\ running' \in [Run -> Type \cup {Nil}]
         /\ LeaseProtectsRun' /\ RowsApart' /\ FoundLapsed' /\ BusyHoldsLease'
<1> USE DEF IInv
<1>1. worker' \in [Worker -> WorkerState] /\ \A v \in Worker : Paired(worker'[v])
  BY DEF TypeOK, Paired
<1>2. running' \in [Run -> Type \cup {Nil}]
  BY DEF TypeOK, Kept
<1>3. \A v \in Worker : v # w => worker'[v] = worker[v]
  BY DEF TypeOK
<1>4. worker'[w] = s
  BY DEF TypeOK
<1>5. \A r \in Run : running'[r] \in {Nil, running[r]}
  BY DEF Kept
<1>6. \A t \in Type : holder[t] # Nil => running'[holder[t]] = running[holder[t]]
  BY DEF Kept, TypeOK
<1>7. LeaseProtectsRun'
  BY <1>6 DEF LeaseProtectsRun
<1>8. RowsApart'
  <2>1. \A v \in Worker : worker'[v].run # Nil =>
          /\ worker'[v].run = worker[v].run
          /\ worker'[v].job = worker[v].job
          /\ worker[v].run \in Run
    BY <1>3, <1>4 DEF TypeOK, WorkerState, Job
  <2>2. QED
    BY <2>1, <1>5 DEF RowsApart, Job
<1>9. FoundLapsed'
  BY <1>3, <1>4 DEF FoundLapsed, Job
<1>10. BusyHoldsLease'
  <2>1. \A v \in Worker : \A t \in Type : Busy(v, t)' => Busy(v, t) /\ worker'[v].run = worker[v].run
    BY <1>3, <1>4 DEF Busy, Job, At, Paired, TypeOK
  <2>2. QED
    BY <2>1 DEF BusyHoldsLease
<1>11. QED
  BY <1>1, <1>2, <1>7, <1>8, <1>9, <1>10

\* An epoch that becomes the current one starts with no evidence.
LEMMA EpochKeepsEvidence ==
  ASSUME IInv, NEW w \in Worker, Job(w) # Nil, Bind(w), UNCHANGED earned
  PROVE  /\ epoch' \in [Type -> Material \cup {Nil}]
         /\ era' \in [Type -> Nat]
         /\ opened' \in [Type -> SUBSET Material]
         /\ healthy' \in SUBSET Type
         /\ HealthyIsEarned'
<1>1. PICK s \in WorkerState : s = worker[w] /\ s.material # Nil /\ s.job # Nil
  BY DEF IInv, TypeOK, Job
<1>2. s.material \in Material /\ s.job \in Type /\ s.era \in Nat
  BY <1>1 DEF WorkerState
<1>3. QED
  BY <1>1, <1>2 DEF IInv, TypeOK, Job, Bind, OpensEpoch, qualification, HealthyIsEarned

LEMMA InitIInv == Init => IInv
<1> SUFFICES ASSUME Init PROVE IInv
  OBVIOUS
<1> USE DEF Init
<1>1. TypeOK
  BY OffTyped, MaterialAssumption DEF TypeOK, Paired
<1>2. \A w \in Worker : worker[w].run = Nil /\ worker[w].read = Nil /\ worker[w].pc = "off"
  BY DEF Off
<1>3. LeaseProtectsRun /\ RowsApart /\ FoundLapsed /\ BusyHoldsLease /\ HealthyIsEarned
  BY <1>2 DEF LeaseProtectsRun, RowsApart, FoundLapsed, BusyHoldsLease, Busy, At,
     HealthyIsEarned
<1>4. QED
  BY <1>1, <1>3 DEF IInv

\* What a step leaves to show once the worker's own part is done.
LEMMA Rest ==
  ASSUME IInv,
         worker' \in [Worker -> WorkerState], \A v \in Worker : Paired(worker'[v]),
         running' \in [Run -> Type \cup {Nil}],
         LeaseProtectsRun', RowsApart', FoundLapsed', BusyHoldsLease',
         UNCHANGED <<holder, expired, lapsed, installed, earned, upgrades>>,
         fresh' \in SUBSET Type, faults' \in Nat,
         \/ UNCHANGED <<epoch, era, opened>> /\ healthy' \subseteq healthy
         \/ \E w \in Worker : Job(w) # Nil /\ Bind(w)
  PROVE  IInv'
<1>1. UNCHANGED <<epoch, era, opened>> /\ healthy' \subseteq healthy =>
        /\ epoch' \in [Type -> Material \cup {Nil}]
        /\ era' \in [Type -> Nat]
        /\ opened' \in [Type -> SUBSET Material]
        /\ healthy' \in SUBSET Type
        /\ HealthyIsEarned'
  BY DEF IInv, TypeOK, HealthyIsEarned
<1>2. /\ epoch' \in [Type -> Material \cup {Nil}]
      /\ era' \in [Type -> Nat]
      /\ opened' \in [Type -> SUBSET Material]
      /\ healthy' \in SUBSET Type
      /\ HealthyIsEarned'
  BY <1>1, EpochKeepsEvidence
<1>3. QED
  BY <1>2 DEF IInv, TypeOK, Paired

\* Both together: what most steps of a worker amount to.
LEMMA MovesOnKeepsIInv ==
  ASSUME IInv, NEW w \in Worker, NEW s \in WorkerState, Paired(s),
         worker' = [worker EXCEPT ![w] = s],
         s.run = Nil \/ (s.run = worker[w].run /\ s.job = Job(w)),
         s.read # Nil => s.pc = "acquire" /\ s.job \in lapsed,
         running' = running \/ running' = Kept(running),
         UNCHANGED <<holder, expired, lapsed, installed, fresh, earned, upgrades>>,
         faults' \in Nat,
         \/ UNCHANGED <<epoch, era, opened>> /\ healthy' \subseteq healthy
         \/ Job(w) # Nil /\ Bind(w)
  PROVE  IInv'
<1>1. /\ worker' \in [Worker -> WorkerState]
      /\ \A v \in Worker : Paired(worker'[v])
      /\ running' \in [Run -> Type \cup {Nil}]
      /\ LeaseProtectsRun' /\ RowsApart' /\ FoundLapsed' /\ BusyHoldsLease'
  BY MovesOn
<1>2. fresh' \in SUBSET Type
  BY DEF IInv, TypeOK
<1>3. QED
  BY <1>1, <1>2, Rest

LEMMA FaultIsNat == TypeOK /\ (Fault \/ UNCHANGED faults) => faults' \in Nat
BY DEF TypeOK, Fault

LEMMA StartKeepsIInv ==
  ASSUME IInv, NEW w \in Worker,
         StartCycle(w) \/ \E t \in Type : StartManual(w, t)
  PROVE  IInv'
<1> USE OffTyped DEF IInv, TypeOK
<1>1. ASSUME StartCycle(w) PROVE IInv'
  <2> DEFINE s == [Off EXCEPT !.pc = "next", !.material = installed, !.era = upgrades,
                              !.todo = Type \ fresh]
  <2>1. s \in WorkerState /\ Paired(s) /\ s.run = Nil /\ s.read = Nil
    BY NilAssumption DEF WorkerState, Paired, Off
  <2>2. worker' = [worker EXCEPT ![w] = s]
    BY <1>1 DEF StartCycle
  <2> HIDE DEF s
  <2>3. QED
    BY <1>1, <2>1, <2>2, MovesOnKeepsIInv DEF StartCycle, leases, qualification
<1>2. ASSUME NEW t \in Type, StartManual(w, t) PROVE IInv'
  <2> DEFINE s == [Off EXCEPT !.pc = "lookup", !.material = installed, !.era = upgrades,
                              !.job = t, !.manual = TRUE]
  <2>1. s \in WorkerState /\ Paired(s) /\ s.run = Nil /\ s.read = Nil
    BY NilAssumption DEF WorkerState, Paired, Off
  <2>2. worker' = [worker EXCEPT ![w] = s]
    BY <1>2 DEF StartManual
  <2> HIDE DEF s
  <2>3. QED
    BY <1>2, <2>1, <2>2, MovesOnKeepsIInv DEF StartManual, leases, qualification
<1>3. QED
  BY <1>1, <1>2

LEMMA NextJobKeepsIInv ==
  ASSUME IInv, NEW w \in Worker, NEW t \in Type, NextJob(w, t)
  PROVE  IInv'
<1>1. PICK r \in WorkerState : r = worker[w]
  BY DEF IInv, TypeOK
<1>2. r.pc = "next" /\ r.run = Nil /\ r.read = Nil /\ r.material # Nil
  BY <1>1 DEF NextJob, At, IInv, TypeOK, FoundLapsed
<1> DEFINE s == [r EXCEPT !.pc = "lookup", !.job = t, !.todo = r.todo \ {t}]
<1>3. s \in WorkerState /\ Paired(s) /\ s.run = Nil /\ s.read = Nil
  BY <1>2, NilAssumption DEF WorkerState, Paired
<1>4. worker' = [worker EXCEPT ![w] = s]
  BY <1>1 DEF NextJob, IInv, TypeOK
<1> HIDE DEF s
<1>5. QED
  BY <1>3, <1>4, MovesOnKeepsIInv DEF NextJob, leases, qualification, IInv, TypeOK

LEMMA EndWorkKeepsIInv ==
  ASSUME IInv, NEW w \in Worker, EndWork(w)
  PROVE  IInv'
<1>1. Off.run = Nil /\ Off.read = Nil
  BY DEF Off
<1>2. QED
  BY <1>1, OffTyped, MovesOnKeepsIInv DEF EndWork, leases, qualification, IInv, TypeOK

LEMMA LookupKeepsIInv ==
  ASSUME IInv, NEW w \in Worker, Lookup(w)
  PROVE  IInv'
<1>1. PICK r \in WorkerState : r = worker[w]
  BY DEF IInv, TypeOK
<1>2. /\ r.pc = "lookup" /\ r.run = Nil /\ r.read = Nil
      /\ r.material # Nil /\ r.job # Nil /\ r.job \in Type
  BY <1>1 DEF Lookup, At, IInv, TypeOK, FoundLapsed, WorkerState
<1>3. PICK found \in Run \cup {Nil} : found = holder[r.job]
  BY <1>2 DEF IInv, TypeOK
<1>4. CASE Active(w, Job(w))
  <2> DEFINE s == [r EXCEPT !.pc = "skip"]
  <2>1. s \in WorkerState /\ Paired(s) /\ s.run = Nil /\ s.read = Nil
    BY <1>2 DEF WorkerState, Paired
  <2>2. worker' = [worker EXCEPT ![w] = s]
    BY <1>1, <1>4 DEF Lookup, Goto, IInv, TypeOK
  <2> HIDE DEF s
  <2>3. QED
    BY <2>1, <2>2, MovesOnKeepsIInv DEF Lookup, leases, qualification, IInv, TypeOK
<1>5. CASE ~Active(w, Job(w))
  <2> DEFINE s == [r EXCEPT !.pc = "acquire", !.read = found]
  <2>1. s \in WorkerState /\ Paired(s) /\ s.run = Nil /\ s.pc = "acquire"
        /\ s.job = r.job /\ s.read = found
    BY <1>2 DEF WorkerState, Paired
  <2>2. worker' = [worker EXCEPT ![w] = s]
    BY <1>1, <1>3, <1>5 DEF Lookup, Job, IInv, TypeOK
  <2>3. found # Nil => r.job \in lapsed
    BY <1>1, <1>3, <1>5 DEF Active, Job, IInv, FoundLapsed
  <2> HIDE DEF s
  <2>4. QED
    BY <2>1, <2>2, <2>3, MovesOnKeepsIInv DEF Lookup, leases, qualification, IInv, TypeOK
<1>6. QED
  BY <1>4, <1>5

LEMMA AcquireRefusedKeepsIInv ==
  ASSUME IInv, NEW w \in Worker, AcquireRefused(w)
  PROVE  IInv'
<1>1. PICK r \in WorkerState : r = worker[w]
  BY DEF IInv, TypeOK
<1>2. r.pc = "acquire" /\ r.run = Nil /\ r.material # Nil /\ r.job # Nil
  BY <1>1 DEF AcquireRefused, At, IInv, TypeOK
<1> DEFINE s == [r EXCEPT !.pc = "skip", !.read = Nil]
<1>3. s \in WorkerState /\ Paired(s) /\ s.run = Nil /\ s.read = Nil
  BY <1>2 DEF WorkerState, Paired
<1>4. worker' = [worker EXCEPT ![w] = s]
  BY <1>1 DEF AcquireRefused, IInv, TypeOK
<1> HIDE DEF s
<1>5. QED
  BY <1>3, <1>4, MovesOnKeepsIInv DEF AcquireRefused, leases, qualification, IInv, TypeOK

LEMMA PrepareKeepsIInv ==
  ASSUME IInv, NEW w \in Worker, Prepare(w)
  PROVE  IInv'
<1>1. PICK r \in WorkerState : r = worker[w]
  BY DEF IInv, TypeOK
<1>2. r.pc = "prepare" /\ r.run # Nil /\ r.read = Nil /\ r.material # Nil /\ r.job # Nil
  BY <1>1 DEF Prepare, At, IInv, TypeOK, FoundLapsed
<1> DEFINE s == [r EXCEPT !.pc = "execute"]
<1>3. s \in WorkerState /\ Paired(s) /\ s.run = r.run /\ s.job = r.job /\ s.read = Nil
  BY <1>2 DEF WorkerState, Paired
<1>4. worker' = [worker EXCEPT ![w] = s]
  BY <1>1 DEF Prepare, Goto, IInv, TypeOK
<1> HIDE DEF s
<1>5. QED
  BY <1>1, <1>2, <1>3, <1>4, MovesOnKeepsIInv DEF Prepare, leases, Job, IInv, TypeOK

LEMMA SkipKeepsIInv ==
  ASSUME IInv, NEW w \in Worker, Skip(w)
  PROVE  IInv'
<1>1. ~At(w, "off") /\ Job(w) # Nil
  BY DEF Skip, At, Job, IInv, TypeOK
<1>2. \/ UNCHANGED <<epoch, era, opened>> /\ healthy' \subseteq healthy
      \/ Bind(w)
  BY DEF Skip, Terminal, Bind
<1>3. /\ JobDone(w) \in WorkerState /\ Paired(JobDone(w))
      /\ JobDone(w).run = Nil /\ JobDone(w).read = Nil
  BY <1>1, StepsTyped DEF IInv
<1>4. PICK s \in WorkerState : s = JobDone(w)
  BY <1>3
<1>5. worker' = [worker EXCEPT ![w] = s]
  BY <1>4 DEF Skip
<1>6. faults' \in Nat /\ running' = running
      /\ UNCHANGED <<holder, expired, lapsed, installed, fresh, earned, upgrades>>
  BY DEF Skip, leases, IInv, TypeOK
<1>7. QED
  BY <1>1, <1>2, <1>3, <1>4, <1>5, <1>6, MovesOnKeepsIInv

\* A worker that ends, by an exception or a kill, leaves lease and row.
LEMMA EndKeepsIInv ==
  ASSUME IInv, NEW w \in Worker, Escape(w) \/ Die(w)
  PROVE  IInv'
<1>1. Off.run = Nil /\ Off.read = Nil
  BY DEF Off
<1>2. faults' \in Nat
  BY FaultIsNat DEF Escape, Die, IInv
<1>3. /\ worker' = [worker EXCEPT ![w] = Off]
      /\ running' = Kept(running)
      /\ UNCHANGED <<holder, expired, lapsed, installed, fresh, earned, upgrades>>
      /\ UNCHANGED <<epoch, era, opened>> /\ healthy' \subseteq healthy
  BY DEF Escape, Die, qualification
<1>4. QED
  BY <1>1, <1>2, <1>3, OffTyped, MovesOnKeepsIInv

-----------------------------------------------------------------------------
(* The steps that change leases *)

\* Until a type lapses nobody holds its lease when another takes it, so that
\* the new lease has its type to itself.
LEMMA AcquireKeepsIInv ==
  ASSUME IInv, NEW w \in Worker, Acquire(w)
  PROVE  IInv'
<1>1. PICK r \in Run : r = CHOOSE q \in Run : Free(q)
  BY DEF Acquire
<1>2. Free(r)
  BY <1>1 DEF Acquire
<1>3. PICK t \in Type : t = Job(w)
  BY DEF Acquire, At, Job, IInv, TypeOK, WorkerState
<1>4. /\ Forget(w, "prepare", r) \in WorkerState /\ Paired(Forget(w, "prepare", r))
      /\ Forget(w, "prepare", r).pc = "prepare"
      /\ Forget(w, "prepare", r).run = r
      /\ Forget(w, "prepare", r).job = t
      /\ Forget(w, "prepare", r).read = Nil
  BY <1>3, NilAssumption, StepsTyped, ForgetTyped DEF Acquire, At, IInv
<1>5. PICK s \in WorkerState : s = Forget(w, "prepare", r)
  BY <1>4
<1>6. /\ holder' = [holder EXCEPT ![t] = r]
      /\ worker' = [worker EXCEPT ![w] = s]
      /\ running' = Kept([running EXCEPT ![r] = t])
      /\ expired' = expired \ {t}
  BY <1>1, <1>3, <1>5 DEF Acquire
<1>7. /\ UNCHANGED <<epoch, era, opened, healthy>>
      /\ UNCHANGED <<fresh, installed, lapsed, earned, upgrades, faults>>
  BY DEF Acquire, qualification
<1>8. \A u \in Type : u # t => holder'[u] = holder[u] /\ holder[u] # r
  BY <1>2, <1>6 DEF Free, IInv, TypeOK
<1>9. \A v \in Worker : v # w => worker'[v] = worker[v] /\ worker[v].run # r
  BY <1>2, <1>6 DEF Free, IInv, TypeOK
<1>10. holder'[t] = r /\ worker'[w] = s /\ r # Nil
  BY <1>6, NilAssumption DEF IInv, TypeOK
<1>11. worker' \in [Worker -> WorkerState] /\ \A v \in Worker : Paired(worker'[v])
  BY <1>4, <1>5, <1>6 DEF IInv, TypeOK, Paired
<1>12. \A q \in Run :
         /\ running'[q] \in {Nil, IF q = r THEN t ELSE running[q]}
         /\ ((\E u \in Type : holder'[u] = q) \/ (\E v \in Worker : worker'[v].run = q))
              => running'[q] = IF q = r THEN t ELSE running[q]
  BY <1>6 DEF Kept, IInv, TypeOK
<1>13. TypeOK'
  <2>1. running' \in [Run -> Type \cup {Nil}]
    BY <1>6 DEF Kept, IInv, TypeOK
  <2>2. holder' \in [Type -> Run \cup {Nil}]
    BY <1>6 DEF IInv, TypeOK
  <2>3. expired' \in SUBSET {u \in Type : holder'[u] # Nil}
    BY <1>6, <1>8, <1>10 DEF IInv, TypeOK
  <2>4. QED
    BY <2>1, <2>2, <2>3, <1>7, <1>11 DEF IInv, TypeOK, Paired
<1>14. LeaseProtectsRun'
  BY <1>8, <1>10, <1>12, <1>13 DEF LeaseProtectsRun, IInv, TypeOK
<1>15. RowsApart'
  <2>1. \A v, x \in Worker :
          worker'[v].run # Nil /\ worker'[v].run = worker'[x].run => v = x
    BY <1>4, <1>5, <1>9, <1>10 DEF RowsApart, IInv
  <2>2. \A v \in Worker : worker'[v].run # Nil => worker'[v].run \in Run
    BY <1>11 DEF WorkerState
  <2>3. \A v \in Worker :
          worker'[v].run # Nil => running'[worker'[v].run] \in {Nil, worker'[v].job}
    BY <1>4, <1>5, <1>9, <1>10, <1>12, <2>2 DEF RowsApart, Job, IInv
  <2>4. QED
    BY <2>1, <2>3 DEF RowsApart, Job
<1>16. FoundLapsed'
  BY <1>4, <1>5, <1>6, <1>7, <1>9, <1>10 DEF FoundLapsed, Job, IInv
<1>17. BusyHoldsLease'
  <2>1. \A v \in Worker, u \in Type :
          v # w /\ u \notin lapsed /\ Busy(v, u)' => holder[u] = worker[v].run
    BY <1>9, <1>7 DEF BusyHoldsLease, Busy, Job, At, IInv
  <2>2. \A v \in Worker, u \in Type :
          v # w /\ u \notin lapsed /\ Busy(v, u)' => worker[v].run # Nil
    BY <1>9 DEF Busy, Job, At, IInv, TypeOK
  <2>3. t \notin lapsed => holder[t] = Nil
    BY <1>3 DEF Acquire, Takable, IInv, FoundLapsed
  <2>4. \A u \in Type : Busy(w, u)' => u = t
    BY <1>4, <1>5, <1>10 DEF Busy, Job
  <2>5. QED
    BY <2>1, <2>2, <2>3, <2>4, <1>4, <1>5, <1>7, <1>8, <1>9, <1>10
       DEF BusyHoldsLease
<1>18. HealthyIsEarned'
  BY <1>7 DEF HealthyIsEarned, IInv
<1>19. QED
  BY <1>13, <1>14, <1>15, <1>16, <1>17, <1>18 DEF IInv

\* A worker that finishes closes its row and no other, and deletes the lease of
\* that row and no other.
LEMMA FinishKeepsIInv ==
  ASSUME IInv, NEW w \in Worker, NEW result, Finish(w, result)
  PROVE  IInv'
<1>1. PICK r \in Run, t \in Type, m \in Material :
        r = worker[w].run /\ t = Job(w) /\ m = worker[w].material
  BY DEF Finish, At, Job, IInv, TypeOK, WorkerState
<1>2. /\ JobDone(w) \in WorkerState /\ Paired(JobDone(w))
      /\ JobDone(w).run = Nil /\ JobDone(w).read = Nil
  BY StepsTyped DEF Finish, At, IInv
<1>3. /\ running' = [running EXCEPT ![r] = Nil]
      /\ holder' = [u \in Type |-> IF u = t /\ holder[t] = r THEN Nil ELSE holder[u]]
      /\ expired' = IF holder[t] = r THEN expired \ {t} ELSE expired
      /\ UNCHANGED <<installed, epoch, era, opened, lapsed, upgrades>>
      /\ fresh' \in SUBSET Type
  BY <1>1 DEF Finish, Release, IInv, TypeOK
<1>4. faults' \in Nat
  BY FaultIsNat DEF Finish, IInv
<1>5. worker' \in [Worker -> WorkerState]
      /\ \A v \in Worker :
           /\ Paired(worker'[v])
           /\ v # w => /\ worker'[v].pc = worker[v].pc
                       /\ worker'[v].job = worker[v].job
                       /\ worker'[v].run = worker[v].run
                       /\ worker'[v].read = worker[v].read
           /\ v = w => worker'[v].run = Nil /\ worker'[v].read = Nil
  <2>1. ASSUME NEW v \in Worker, v # w
        PROVE  \E X, Y \in SUBSET Type :
                 worker'[v] = [worker[v] EXCEPT !.todo = X, !.finishedSince = Y]
    <3>1. PICK s \in WorkerState : s = worker[v]
      BY DEF IInv, TypeOK
    <3> DEFINE X == IF result = "failed" THEN s.todo ELSE s.todo \ {t}
               Y == IF t \in Ahead(v) /\ Current(w) THEN s.finishedSince \cup {t}
                                                    ELSE s.finishedSince
    <3>2. X \in SUBSET Type /\ Y \in SUBSET Type
      BY DEF WorkerState
    <3>3. worker'[v] = [worker[v] EXCEPT !.todo = X, !.finishedSince = Y]
      BY <2>1, <3>1, <1>1 DEF Finish
    <3>4. QED
      BY <3>2, <3>3
  <2>2. worker'[w] = JobDone(w)
    BY DEF Finish
  <2>3. \A v \in Worker : worker[v] \in WorkerState /\ Paired(worker[v])
    BY DEF IInv, TypeOK, Paired
  <2>4. \A v \in Worker : v # w =>
          /\ worker'[v] \in WorkerState
          /\ worker'[v].pc = worker[v].pc
          /\ worker'[v].job = worker[v].job
          /\ worker'[v].run = worker[v].run
          /\ worker'[v].read = worker[v].read
          /\ worker'[v].material = worker[v].material
    <3>1. SUFFICES ASSUME NEW v \in Worker, v # w
                   PROVE  /\ worker'[v] \in WorkerState
                          /\ worker'[v].pc = worker[v].pc
                          /\ worker'[v].job = worker[v].job
                          /\ worker'[v].run = worker[v].run
                          /\ worker'[v].read = worker[v].read
                          /\ worker'[v].material = worker[v].material
      OBVIOUS
    <3>2. PICK X \in SUBSET Type, Y \in SUBSET Type :
            worker'[v] = [worker[v] EXCEPT !.todo = X, !.finishedSince = Y]
      BY <2>1, <3>1
    <3>3. PICK s \in WorkerState : s = worker[v]
      BY <2>3
    <3>4. /\ worker'[v] \in WorkerState
          /\ worker'[v].pc = s.pc /\ worker'[v].job = s.job
          /\ worker'[v].run = s.run /\ worker'[v].read = s.read
          /\ worker'[v].material = s.material
      BY <3>2, <3>3 DEF WorkerState
    <3>5. QED
      BY <3>3, <3>4
  <2>5. \A v \in Worker : worker'[v] \in WorkerState /\ Paired(worker'[v])
    <3>1. worker'[w] \in WorkerState /\ Paired(worker'[w])
      BY <1>2, <2>2
    <3>2. ASSUME NEW v \in Worker, v # w PROVE Paired(worker'[v])
      BY <2>3, <2>4, <3>2 DEF Paired
    <3>3. QED
      BY <2>4, <3>1, <3>2
  <2>6. worker' = [v \in Worker |-> worker'[v]]
    BY DEF Finish
  <2>7. worker' \in [Worker -> WorkerState]
    BY <2>5, <2>6
  <2>8. QED
    BY <1>2, <2>2, <2>4, <2>5, <2>7
<1>6. healthy' \in SUBSET Type /\ earned' \in SUBSET (Type \X Material) /\ HealthyIsEarned'
  <2>1. earned' = IF result = "successful" /\ ~worker[w].manual
                  THEN earned \cup {<<t, m>>} ELSE earned
    BY <1>1 DEF Finish
  <2>2. \/ healthy' \subseteq healthy
        \/ /\ epoch[t] = m /\ result = "successful" /\ ~worker[w].manual
           /\ healthy' = healthy \cup {t}
    BY <1>1 DEF Finish, Current, Terminal
  <2>3. QED
    BY <2>1, <2>2, <1>3 DEF HealthyIsEarned, IInv, TypeOK
<1>7. TypeOK'
  <2>1. running' \in [Run -> Type \cup {Nil}] /\ holder' \in [Type -> Run \cup {Nil}]
    BY <1>3 DEF IInv, TypeOK
  <2>2. expired' \in SUBSET {u \in Type : holder'[u] # Nil}
    BY <1>3 DEF IInv, TypeOK
  <2>3. QED
    BY <2>1, <2>2, <1>3, <1>4, <1>5, <1>6 DEF IInv, TypeOK, Paired
<1>8. r # Nil /\ running[r] \in {Nil, t}
  BY <1>1, NilAssumption DEF IInv, RowsApart
<1>9. LeaseProtectsRun'
  BY <1>3, <1>8 DEF LeaseProtectsRun, IInv, TypeOK
<1>10. RowsApart'
  <2>1. \A v \in Worker : worker'[v].run # Nil =>
          v # w /\ worker[v].run \in Run /\ worker[v].run # r
    BY <1>1, <1>5, <1>8 DEF RowsApart, IInv, TypeOK, WorkerState
  <2>2. QED
    BY <1>3, <1>5, <2>1 DEF RowsApart, Job, IInv, TypeOK
<1>11. FoundLapsed'
  BY <1>3, <1>5 DEF FoundLapsed, Job, IInv
<1>12. BusyHoldsLease'
  <2>1. \A v \in Worker, u \in Type : Busy(v, u)' =>
          v # w /\ Busy(v, u) /\ worker'[v].run = worker[v].run /\ worker[v].run # r
    BY <1>1, <1>5, <1>8 DEF Busy, Job, At, Paired, RowsApart, IInv
  <2>2. QED
    BY <1>3, <2>1 DEF BusyHoldsLease, IInv
<1>13. QED
  BY <1>6, <1>7, <1>9, <1>10, <1>11, <1>12 DEF IInv

LEMMA ExpireKeepsIInv ==
  ASSUME IInv, NEW t \in Type, Expire(t)
  PROVE  IInv'
<1>1. /\ holder[t] # Nil /\ expired' = expired \cup {t} /\ lapsed' = lapsed \cup {t}
      /\ UNCHANGED <<holder, running, fresh, installed, epoch, era, opened, healthy,
                     earned, upgrades, faults>>
  BY DEF Expire, qualification
<1>2. \A v \in Worker :
        /\ worker'[v] \in WorkerState
        /\ worker'[v].pc = worker[v].pc /\ worker'[v].job = worker[v].job
        /\ worker'[v].run = worker[v].run /\ worker'[v].read = worker[v].read
        /\ worker'[v].material = worker[v].material
  <2>1. SUFFICES ASSUME NEW v \in Worker
                 PROVE  /\ worker'[v] \in WorkerState
                        /\ worker'[v].pc = worker[v].pc /\ worker'[v].job = worker[v].job
                        /\ worker'[v].run = worker[v].run /\ worker'[v].read = worker[v].read
                        /\ worker'[v].material = worker[v].material
    OBVIOUS
  <2>2. PICK s \in WorkerState : s = worker[v]
    BY DEF IInv, TypeOK
  <2>3. \/ worker'[v] = s
        \/ worker'[v] = [s EXCEPT !.expiredSince = s.expiredSince \cup {t}]
    BY <2>2 DEF Expire
  <2>4. /\ worker'[v] \in WorkerState
        /\ worker'[v].pc = s.pc /\ worker'[v].job = s.job
        /\ worker'[v].run = s.run /\ worker'[v].read = s.read
        /\ worker'[v].material = s.material
    BY <2>3 DEF WorkerState
  <2>5. QED
    BY <2>2, <2>4
<1>3. worker' = [v \in Worker |-> worker'[v]]
  BY DEF Expire
<1>4. worker' \in [Worker -> WorkerState]
  BY <1>2, <1>3
<1>5. \A v \in Worker : Paired(worker'[v])
  BY <1>2 DEF IInv, TypeOK, Paired
<1>6. TypeOK'
  BY <1>1, <1>4, <1>5 DEF IInv, TypeOK, Paired
<1>7. LeaseProtectsRun' /\ RowsApart' /\ HealthyIsEarned'
  BY <1>1, <1>2 DEF LeaseProtectsRun, RowsApart, HealthyIsEarned, Job, IInv
<1>8. FoundLapsed' /\ BusyHoldsLease'
  BY <1>1, <1>2 DEF FoundLapsed, BusyHoldsLease, Busy, At, Job, IInv
<1>9. QED
  BY <1>6, <1>7, <1>8 DEF IInv

\* A reconciliation abandons no row whose lease it leaves.
LEMMA ReconcileKeepsIInv ==
  ASSUME IInv, NEW S \in SUBSET Run, NEW E \in SUBSET expired, Reconcile(S, E)
  PROVE  IInv'
<1>1. /\ \A t \in Type : holder[t] \in S => t \in E
      /\ holder' = [t \in Type |-> IF t \in E THEN Nil ELSE holder[t]]
      /\ expired' = expired \ E
      /\ running' = Kept([r \in Run |-> IF r \in S THEN Nil ELSE running[r]])
      /\ UNCHANGED <<worker, fresh, installed, epoch, era, opened, healthy, lapsed,
                     earned, upgrades, faults>>
  BY DEF Reconcile, Sweep, qualification
<1>2. E \subseteq lapsed
  BY DEF IInv, FoundLapsed
<1>3. \A r \in Run :
        /\ running'[r] \in {Nil, running[r]}
        /\ r \notin S /\ (\E t \in Type : holder'[t] = r) => running'[r] = running[r]
  BY <1>1 DEF Kept
<1>4. TypeOK'
  <2>1. running' \in [Run -> Type \cup {Nil}]
    BY <1>1 DEF Kept, IInv, TypeOK
  <2>2. holder' \in [Type -> Run \cup {Nil}]
    BY <1>1 DEF IInv, TypeOK
  <2>3. expired' \in SUBSET {t \in Type : holder'[t] # Nil}
    BY <1>1 DEF IInv, TypeOK
  <2>4. QED
    BY <2>1, <2>2, <2>3, <1>1 DEF IInv, TypeOK
<1>5. LeaseProtectsRun'
  BY <1>1, <1>3 DEF LeaseProtectsRun, IInv, TypeOK
<1>6. RowsApart'
  <2>1. \A w \in Worker : worker[w].run # Nil => worker[w].run \in Run
    BY DEF IInv, TypeOK, WorkerState
  <2>2. QED
    BY <1>1, <1>3, <2>1 DEF RowsApart, Job, IInv
<1>7. FoundLapsed' /\ BusyHoldsLease' /\ HealthyIsEarned'
  BY <1>1, <1>2 DEF FoundLapsed, BusyHoldsLease, HealthyIsEarned, Busy, At, Job, IInv
<1>8. QED
  BY <1>4, <1>5, <1>6, <1>7 DEF IInv

-----------------------------------------------------------------------------

LEMMA NextIInv == IInv /\ [Next]_vars => IInv'
<1> SUFFICES ASSUME IInv, [Next]_vars PROVE IInv'
  OBVIOUS
<1>1. ASSUME NEW t \in Type, BecomeDue(t) PROVE IInv'
  BY <1>1 DEF BecomeDue, leases, qualification, IInv, TypeOK, LeaseProtectsRun,
     RowsApart, FoundLapsed, BusyHoldsLease, HealthyIsEarned, Busy, At, Job
<1>2. ASSUME NEW m \in Material, Upgrade(m) PROVE IInv'
  BY <1>2 DEF Upgrade, leases, qualification, IInv, TypeOK, LeaseProtectsRun,
     RowsApart, FoundLapsed, BusyHoldsLease, HealthyIsEarned, Busy, At, Job
<1>3. ASSUME NEW w \in Worker, Step(w) PROVE IInv'
  BY <1>3, NextJobKeepsIInv, EndWorkKeepsIInv, LookupKeepsIInv, AcquireKeepsIInv,
     AcquireRefusedKeepsIInv, SkipKeepsIInv, PrepareKeepsIInv, EndKeepsIInv,
     FinishKeepsIInv DEF Step
<1>4. ASSUME NEW w \in Worker, Finish(w, "failed") PROVE IInv'
  BY <1>4, FinishKeepsIInv
<1>5. ASSUME NEW w \in Worker, Die(w) PROVE IInv'
  BY <1>5, EndKeepsIInv
<1>6. CASE UNCHANGED vars
  BY <1>6 DEF vars, leases, qualification, IInv, TypeOK, LeaseProtectsRun,
     RowsApart, FoundLapsed, BusyHoldsLease, HealthyIsEarned, Busy, At, Job
<1>7. QED
  BY <1>1, <1>2, <1>3, <1>4, <1>5, <1>6, StartKeepsIInv, ExpireKeepsIInv,
     ReconcileKeepsIInv DEF Next, Passing

LEMMA SpecIInv == Spec => []IInv
BY InitIInv, NextIInv, PTL DEF Spec

-----------------------------------------------------------------------------

\* Leases, rows, evidence and workers keep their types, and a worker has a job,
\* a row and a material exactly where run_job has them.
THEOREM TypeCorrect == Spec => []TypeOK
<1>1. IInv => TypeOK
  BY DEF IInv
<1>2. QED
  BY <1>1, SpecIInv, PTL

\* The unique job type of the lease table keeps a second worker out until a
\* lease of that type expires.
THEOREM OneRunnerUntilExpiry == Spec => []ExclusiveUntilExpiry
<1>1. IInv => ExclusiveUntilExpiry
  BY DEF IInv, TypeOK, RowsApart, BusyHoldsLease, ExclusiveUntilExpiry, Busy, At
<1>2. QED
  BY <1>1, SpecIInv, PTL

\* No lease outlives the end or the abandonment of its run.
THEOREM LeasesHaveRuns == Spec => []LeaseProtectsRun
<1>1. IInv => LeaseProtectsRun
  BY DEF IInv
<1>2. QED
  BY <1>1, SpecIInv, PTL

\* The gate opens only on a scheduled success under the installed material.
THEOREM QualificationIsEarned == Spec => []QualifiedIsEarned
<1>1. IInv => QualifiedIsEarned
  BY DEF IInv, HealthyIsEarned, QualifiedIsEarned, Qualified
<1>2. QED
  BY <1>1, SpecIInv, PTL

\* A worker whose lease was taken over ends without touching the lease.
THEOREM OvertakenFinishIsHarmless == Spec => LateFinishKeepsLease
<1> DEFINE Harmless ==
      \A w \in Worker :
        /\ worker[w].pc = "execute" /\ worker'[w].pc # "execute"
        /\ holder[Job(w)] # worker[w].run
        => holder'[Job(w)] = holder[Job(w)]
<1>1. IInv /\ [Next]_vars => [Harmless]_vars
  <2> SUFFICES ASSUME IInv, Next, NEW w \in Worker,
                      worker[w].pc = "execute", worker'[w].pc # "execute",
                      holder[Job(w)] # worker[w].run
               PROVE  holder'[Job(w)] = holder[Job(w)]
    OBVIOUS
  <2>1. CASE UNCHANGED holder
    BY <2>1
  <2>2. ASSUME NEW v \in Worker, Acquire(v) PROVE FALSE
    BY <2>2 DEF Acquire, At, IInv, TypeOK
  <2>3. ASSUME NEW v \in Worker, NEW result, Finish(v, result)
        PROVE  holder'[Job(w)] = holder[Job(w)]
    <3>1. CASE v = w
      BY <2>3, <3>1 DEF Finish, Release
    <3>2. CASE v # w
      <4>1. PICK s \in WorkerState : s = worker[w]
        BY DEF IInv, TypeOK
      <4>2. \E X, Y : worker'[w] = [s EXCEPT !.todo = X, !.finishedSince = Y]
        BY <2>3, <3>2, <4>1 DEF Finish
      <4>3. worker'[w].pc = s.pc
        BY <4>2 DEF WorkerState
      <4>4. QED
        BY <4>1, <4>3
    <3>3. QED
      BY <3>1, <3>2
  <2>4. ASSUME NEW S \in SUBSET Run, NEW E \in SUBSET expired, Reconcile(S, E)
        PROVE  FALSE
    BY <2>4 DEF Reconcile
  <2>5. QED
    BY <2>1, <2>2, <2>3, <2>4
       DEF Next, Passing, Expire, BecomeDue, Upgrade, StartCycle, StartManual, Step,
           NextJob, EndWork, Lookup, AcquireRefused, Skip, Prepare, Escape, Die, leases
<1>2. QED
  BY <1>1, SpecIInv, PTL DEF Spec, LateFinishKeepsLease

=============================================================================
