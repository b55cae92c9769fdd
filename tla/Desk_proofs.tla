----------------------------- MODULE Desk_proofs ----------------------------
(***************************************************************************)
(* The budgets of targeted discovery and the sites an editor blocked, for  *)
(* every set of articles, topics and jobs and every budget.                *)
(***************************************************************************)
EXTENDS Desk, FiniteSetTheorems, SequenceTheorems, TLAPS

\* A search that counts: in the last hour, or (of) for the cycles of story n.
Counts(run, t, hour, n) ==
  IF hour THEN run.started >= t - Hour ELSE run.story = n /\ run.status \in {"completed", "partial"}
Tally(rs, t, hour, n) == {r \in DOMAIN rs : Counts(rs[r], t, hour, n)}
Limit(hour) == IF hour THEN CyclesPerHour ELSE MaxCycles

\* The searches made are a sequence, each with a status that counts.
Ledger(rs) ==
  /\ rs \in Seq({rs[r] : r \in DOMAIN rs})
  /\ \A r \in DOMAIN rs : rs[r].status \in Counted /\ rs[r].started \in Int
Extends(long, short) == Len(short) <= Len(long) /\ \A r \in DOMAIN short : long[r] = short[r]

\* A job is a record of these fields.
Task(q) ==
  /\ q = [stage |-> q.stage, queue |-> q.queue, automatic |-> q.automatic, since |-> q.since,
          story |-> q.story, plans |-> q.plans, view |-> q.view]
  /\ q.stage \in {"idle", "judge", "search"} /\ q.since \in Nat /\ q.since <= now

Typed ==
  /\ now \in Nat /\ operated \in Nat /\ Ledger(runs)
  /\ DOMAIN job = Job /\ \A j \in Job : Task(job[j])
  /\ lock \in Job \cup {Nil}

\* The jobs that judged a story and have not searched for it.
Waiting(hour, n) == {j \in Job : job[j].stage = "search" /\ (hour \/ job[j].story = n)}

\* The job with the lock searches, on what was committed.
Held ==
  lock # Nil => /\ job[lock].stage # "idle"
                /\ Ledger(job[lock].view.runs) /\ Extends(job[lock].view.runs, runs)

\* The searches made, those of the job with the lock included.
Made == IF lock = Nil THEN runs ELSE job[lock].view.runs

\* The searches made and those to come stay within the budget and one for
\* every other job.
Within ==
  \A hour \in BOOLEAN : \A n :
    Cardinality(Tally(Made, now, hour, n)) + Cardinality(Waiting(hour, n)) <= Limit(hour) + Cardinality(Job) - 1

\* What the job with the lock has written is within the budget, or one search.
Ahead ==
  lock # Nil =>
    \A hour \in BOOLEAN : \A n :
      LET mine == Tally(job[lock].view.runs, now, hour, n) IN
      Cardinality(mine) <= Limit(hour) \/ mine \subseteq Tally(runs, now, hour, n) \cup {Len(runs) + 1}

\* It judged its next search on all it has written.
Fits ==
  lock # Nil =>
    \A hour \in BOOLEAN : \A n :
      lock \in Waiting(hour, n) => Cardinality(Tally(job[lock].view.runs, now, hour, n)) < Limit(hour)

\* It accepted nothing of a site that is blocked, which stays blocked.
Respects ==
  lock # Nil =>
    \A d \in Domain : Status(Committed, d) = "blocked" =>
      /\ Status(job[lock].view, d) = "blocked"
      /\ \A x \in job[lock].view.results \ results : Site[x.text] = d => ~x.accepted

IInv == Typed /\ Held /\ Within /\ Ahead /\ Fits /\ Respects

-----------------------------------------------------------------------------
(* Counting searches. *)

\* One more search.
LEMMA LedgerGrows ==
  ASSUME NEW rs, Ledger(rs), NEW x, x.status \in Counted, x.started \in Int
  PROVE  /\ Ledger(Append(rs, x)) /\ Extends(Append(rs, x), rs)
         /\ DOMAIN rs = 1..Len(rs) /\ Len(rs) \in Nat
         /\ DOMAIN Append(rs, x) = 1..(Len(rs) + 1)
         /\ \A r \in DOMAIN rs : Append(rs, x)[r] = rs[r]
         /\ Append(rs, x)[Len(rs) + 1] = x
  <1>. DEFINE S == {rs[r] : r \in DOMAIN rs} \cup {x}
              new == Append(rs, x)
  <1>1. rs \in Seq({rs[r] : r \in DOMAIN rs})
    BY DEF Ledger
  <1>2. rs \in Seq(S) /\ x \in S
    BY <1>1
  <1>3. Len(rs) \in Nat /\ DOMAIN rs = 1..Len(rs)
    BY <1>2
  <1>. HIDE DEF S
  <1>4. /\ new \in Seq(S) /\ Len(new) = Len(rs) + 1
        /\ \A i \in 1..Len(rs) : new[i] = rs[i]
        /\ new[Len(rs) + 1] = x
    BY <1>2, AppendProperties
  <1>. HIDE DEF new
  <1>5. DOMAIN new = 1..(Len(rs) + 1) /\ new \in [1..(Len(rs) + 1) -> S]
    BY <1>3, <1>4
  <1>6. new \in [1..Len(new) -> {new[r] : r \in DOMAIN new}] /\ Len(new) \in Nat
    BY <1>3, <1>4, <1>5
  <1>7. new \in Seq({new[r] : r \in DOMAIN new})
    BY <1>6
  <1>8. \A r \in DOMAIN new : new[r].status \in Counted /\ new[r].started \in Int
    BY <1>3, <1>4, <1>5 DEF Ledger
  <1>9. Ledger(new)
    BY <1>7, <1>8 DEF Ledger
  <1>10. Extends(new, rs)
    BY <1>3, <1>4 DEF Extends
  <1>. QED
    BY <1>3, <1>4, <1>5, <1>9, <1>10 DEF new

\* What a ledger counts is finite.
LEMMA TallyIsFinite ==
  ASSUME NEW rs, Ledger(rs), NEW t, NEW hour, NEW n
  PROVE  IsFiniteSet(Tally(rs, t, hour, n)) /\ Cardinality(Tally(rs, t, hour, n)) \in Nat
  <1>1. DOMAIN rs = 1..Len(rs) /\ Len(rs) \in Nat
    BY DEF Ledger
  <1>2. IsFiniteSet(DOMAIN rs)
    BY <1>1, FS_Interval
  <1>3. Tally(rs, t, hour, n) \subseteq DOMAIN rs
    BY DEF Tally
  <1>. QED
    BY <1>2, <1>3, FS_Subset, FS_CardinalityType

\* A set counts no more than one that contains it, and one more than a set
\* that misses one element of it.
LEMMA Fewer ==
  ASSUME NEW S, IsFiniteSet(S), NEW T, T \subseteq S
  PROVE  IsFiniteSet(T) /\ Cardinality(T) \in Nat /\ Cardinality(S) \in Nat /\ Cardinality(T) <= Cardinality(S)
  BY FS_Subset, FS_CardinalityType

LEMMA OneMore ==
  ASSUME NEW S, IsFiniteSet(S), NEW r, NEW T, T \subseteq S \cup {r}
  PROVE  Cardinality(T) \in Nat /\ Cardinality(S) \in Nat /\ Cardinality(T) <= Cardinality(S) + 1
  <1>1. Cardinality(S) \in Nat
    BY FS_CardinalityType
  <1>2. IsFiniteSet(S \cup {r})
    BY FS_AddElement
  <1>3. Cardinality(S \cup {r}) = IF r \in S THEN Cardinality(S) ELSE Cardinality(S) + 1
    BY FS_AddElement
  <1>4. Cardinality(T) \in Nat /\ Cardinality(T) <= Cardinality(S \cup {r}) /\ Cardinality(S \cup {r}) \in Nat
    BY <1>2, Fewer
  <1>. QED
    BY <1>1, <1>3, <1>4

LEMMA LimitIsANumber == \A hour \in BOOLEAN : Limit(hour) \in Nat
  BY DeskNumbers DEF Limit

\* The searches of a longer ledger, of one with one search more, and later.
LEMMA TallyOfLonger ==
  ASSUME NEW long, NEW short, Ledger(long), Ledger(short), Extends(long, short), NEW t, NEW hour, NEW n
  PROVE  Tally(short, t, hour, n) \subseteq Tally(long, t, hour, n)
  <1>1. /\ DOMAIN long = 1..Len(long) /\ Len(long) \in Nat
        /\ DOMAIN short = 1..Len(short) /\ Len(short) \in Nat
    BY DEF Ledger
  <1>2. DOMAIN short \subseteq DOMAIN long /\ \A r \in DOMAIN short : long[r] = short[r]
    BY <1>1 DEF Extends
  <1>. QED
    BY <1>2 DEF Tally

LEMMA TallyOfOneMore ==
  ASSUME NEW rs, Ledger(rs), NEW x, x.status \in Counted, x.started \in Int, NEW t, NEW hour, NEW n
  PROVE  /\ Tally(Append(rs, x), t, hour, n) \subseteq Tally(rs, t, hour, n) \cup {Len(rs) + 1}
         /\ ~Counts(x, t, hour, n) => Tally(Append(rs, x), t, hour, n) = Tally(rs, t, hour, n)
  <1>. DEFINE new == Append(rs, x)
  <1>1. /\ DOMAIN rs = 1..Len(rs) /\ Len(rs) \in Nat /\ DOMAIN new = 1..(Len(rs) + 1)
        /\ \A r \in DOMAIN rs : new[r] = rs[r]
        /\ new[Len(rs) + 1] = x
    BY LedgerGrows
  <1>. HIDE DEF new
  <1>2. DOMAIN new = DOMAIN rs \cup {Len(rs) + 1}
    BY <1>1
  <1>3. /\ Tally(new, t, hour, n) \subseteq Tally(rs, t, hour, n) \cup {Len(rs) + 1}
        /\ ~Counts(x, t, hour, n) => Tally(new, t, hour, n) = Tally(rs, t, hour, n)
    BY <1>1, <1>2 DEF Tally
  <1>. QED
    BY <1>3 DEF new

LEMMA TallyOfLater ==
  ASSUME NEW rs, Ledger(rs), NEW t \in Nat, NEW u \in Nat, t <= u, NEW hour, NEW n
  PROVE  Tally(rs, u, hour, n) \subseteq Tally(rs, t, hour, n)
  <1>1. \A r \in DOMAIN rs : rs[r].started \in Int
    BY DEF Ledger
  <1>2. Hour \in Nat
    BY DeskNumbers
  <1>3. \A r \in DOMAIN rs : rs[r].started >= u - Hour => rs[r].started >= t - Hour
    BY <1>1, <1>2
  <1>. QED
    BY <1>3 DEF Tally, Counts

-----------------------------------------------------------------------------
(* Jobs. *)

LEMMA JobsAreFinite == IsFiniteSet(Job) /\ Cardinality(Job) \in Nat /\ Cardinality(Job) >= 1 /\ Nil \notin Job
  <1>1. IsFiniteSet(Job) /\ Nil \notin Job /\ Job # {}
    BY DeskJobs, DeskNumbers
  <1>2. Cardinality(Job) \in Nat /\ Cardinality(Job) # 0
    BY <1>1, FS_CardinalityType, FS_EmptySet
  <1>. QED
    BY <1>1, <1>2

LEMMA WaitingIsFinite ==
  \A hour, n : /\ IsFiniteSet(Waiting(hour, n)) /\ Waiting(hour, n) \subseteq Job
               /\ Cardinality(Waiting(hour, n)) \in Nat /\ Cardinality(Waiting(hour, n)) <= Cardinality(Job)
  <1>. SUFFICES ASSUME NEW hour, NEW n
       PROVE  /\ IsFiniteSet(Waiting(hour, n)) /\ Waiting(hour, n) \subseteq Job
              /\ Cardinality(Waiting(hour, n)) \in Nat /\ Cardinality(Waiting(hour, n)) <= Cardinality(Job)
    OBVIOUS
  <1>1. Waiting(hour, n) \subseteq Job
    BY DEF Waiting
  <1>. QED
    BY <1>1, JobsAreFinite, Fewer

\* The step of a job that gives it this record.
LEMMA JobBecomes ==
  ASSUME Typed, NEW j \in Job, NEW q, job' = [job EXCEPT ![j] = q]
  PROVE  DOMAIN job' = Job /\ job'[j] = q /\ \A k \in Job \ {j} : job'[k] = job[k]
  BY DEF Typed

LEMMA JudgedIs ==
  ASSUME NEW q, Task(q), NEW story, NEW plans
  PROVE  LET new == Judged(q, story, plans) IN
         Task(new) /\ new.story = story /\ new.view = q.view /\ new.stage = IF plans = {} THEN "judge" ELSE "search"
  <1>. DEFINE queue == q.queue \ {story}
              stage == IF plans = {} THEN "judge" ELSE "search"
  <1>0. stage \in {"idle", "judge", "search"} /\ Judged(q, story, plans) = [q EXCEPT !.queue = queue, !.story = story, !.plans = plans, !.stage = stage]
    BY DEF Judged
  <1>. HIDE DEF queue, stage
  <1>1. q = [stage |-> q.stage, queue |-> q.queue, automatic |-> q.automatic, since |-> q.since,
             story |-> q.story, plans |-> q.plans, view |-> q.view]
    BY DEF Task
  <1>2. PICK q1 : q1 = [q EXCEPT !.queue = queue]
    OBVIOUS
  <1>3. q1 = [stage |-> q.stage, queue |-> queue, automatic |-> q.automatic, since |-> q.since,
              story |-> q.story, plans |-> q.plans, view |-> q.view]
    BY <1>1, <1>2
  <1>4. PICK q2 : q2 = [q1 EXCEPT !.story = story]
    OBVIOUS
  <1>5. q2 = [stage |-> q.stage, queue |-> queue, automatic |-> q.automatic, since |-> q.since,
              story |-> story, plans |-> q.plans, view |-> q.view]
    BY <1>3, <1>4
  <1>6. PICK q3 : q3 = [q2 EXCEPT !.plans = plans]
    OBVIOUS
  <1>7. q3 = [stage |-> q.stage, queue |-> queue, automatic |-> q.automatic, since |-> q.since,
              story |-> story, plans |-> plans, view |-> q.view]
    BY <1>5, <1>6
  <1>8. PICK q4 : q4 = [q3 EXCEPT !.stage = stage]
    OBVIOUS
  <1>9. q4 = [stage |-> stage, queue |-> queue, automatic |-> q.automatic, since |-> q.since,
              story |-> story, plans |-> plans, view |-> q.view]
    BY <1>7, <1>8
  <1>10. [q EXCEPT !.queue = queue, !.story = story, !.plans = plans, !.stage = stage] = q4
    BY <1>2, <1>4, <1>6, <1>8
  <1>11. Task(q4)
    BY <1>0, <1>9 DEF Task
  <1>. QED
    BY <1>0, <1>9, <1>10, <1>11 DEF stage

LEMMA AnsweredIs ==
  ASSUME NEW q, Task(q), NEW view
  PROVE  LET new == Answered(q, view) IN
         Task(new) /\ new.stage = "judge" /\ new.view = view
  <1>1. q = [stage |-> q.stage, queue |-> q.queue, automatic |-> q.automatic, since |-> q.since,
             story |-> q.story, plans |-> q.plans, view |-> q.view]
    BY DEF Task
  <1>2. PICK q1 : q1 = [q EXCEPT !.stage = "judge"]
    OBVIOUS
  <1>3. q1 = [stage |-> "judge", queue |-> q.queue, automatic |-> q.automatic, since |-> q.since,
              story |-> q.story, plans |-> q.plans, view |-> q.view]
    BY <1>1, <1>2
  <1>4. PICK q2 : q2 = [q1 EXCEPT !.view = view]
    OBVIOUS
  <1>5. q2 = [stage |-> "judge", queue |-> q.queue, automatic |-> q.automatic, since |-> q.since,
              story |-> q.story, plans |-> q.plans, view |-> view]
    BY <1>3, <1>4
  <1>6. [q EXCEPT !.stage = "judge", !.view = view] = q2
    BY <1>2, <1>4
  <1>7. Task(q2)
    BY <1>5 DEF Task
  <1>. QED
    BY <1>5, <1>6, <1>7 DEF Answered

LEMMA BegunIs ==
  ASSUME Typed, NEW queue, NEW automatic
  PROVE  LET new == [Idle EXCEPT !.stage = "judge", !.queue = queue, !.automatic = automatic, !.since = now] IN
         Task(new) /\ new.stage = "judge"
  <1>1. PICK q \in {Idle} : q = [stage |-> "idle", queue |-> {}, automatic |-> FALSE, since |-> 0,
                                 story |-> 0, plans |-> {}, view |-> Nil]
    BY DEF Idle
  <1>2. PICK q1 : q1 = [q EXCEPT !.stage = "judge"]
    OBVIOUS
  <1>3. q1 = [stage |-> "judge", queue |-> {}, automatic |-> FALSE, since |-> 0,
              story |-> 0, plans |-> {}, view |-> Nil]
    BY <1>1, <1>2
  <1>4. PICK q2 : q2 = [q1 EXCEPT !.queue = queue]
    OBVIOUS
  <1>5. q2 = [stage |-> "judge", queue |-> queue, automatic |-> FALSE, since |-> 0,
              story |-> 0, plans |-> {}, view |-> Nil]
    BY <1>3, <1>4
  <1>6. PICK q3 : q3 = [q2 EXCEPT !.automatic = automatic]
    OBVIOUS
  <1>7. q3 = [stage |-> "judge", queue |-> queue, automatic |-> automatic, since |-> 0,
              story |-> 0, plans |-> {}, view |-> Nil]
    BY <1>5, <1>6
  <1>8. PICK q4 : q4 = [q3 EXCEPT !.since = now]
    OBVIOUS
  <1>9. q4 = [stage |-> "judge", queue |-> queue, automatic |-> automatic, since |-> now,
              story |-> 0, plans |-> {}, view |-> Nil]
    BY <1>7, <1>8
  <1>10. [Idle EXCEPT !.stage = "judge", !.queue = queue, !.automatic = automatic, !.since = now] = q4
    BY <1>1, <1>2, <1>4, <1>6, <1>8
  <1>11. Task(q4)
    BY <1>9 DEF Task, Typed
  <1>. QED
    BY <1>9, <1>10, <1>11

LEMMA IdleIsATask == Typed => Task(Idle) /\ Idle.stage = "idle"
  BY DEF Typed, Task, Idle

\* A story that is eligible has room in both budgets, now as when the job
\* began.
LEMMA EligibleIs ==
  ASSUME NEW v, Ledger(v.runs), NEW since \in Nat, NEW t \in Nat, since <= t, NEW story, NEW automatic,
         Eligible(v, story, since, automatic), NEW hour \in BOOLEAN, NEW n, hour \/ n = story
  PROVE  Cardinality(Tally(v.runs, t, hour, n)) < Limit(hour)
  <1>1. CASE hour
    <2>1. \A r \in DOMAIN v.runs : v.runs[r].status \in Counted /\ v.runs[r].started \in Int
      BY DEF Ledger
    <2>2. {r \in Started(v, since) : v.runs[r].status \in Counted} = Tally(v.runs, since, TRUE, n)
      BY <2>1 DEF Started, Tally, Counts
    <2>3. Cardinality(Tally(v.runs, since, TRUE, n)) < CyclesPerHour
      BY <2>2 DEF Eligible, CyclesUsed
    <2>4. Tally(v.runs, t, TRUE, n) \subseteq Tally(v.runs, since, TRUE, n) /\ IsFiniteSet(Tally(v.runs, since, TRUE, n))
      BY TallyOfLater, TallyIsFinite
    <2>5. /\ Cardinality(Tally(v.runs, t, TRUE, n)) <= Cardinality(Tally(v.runs, since, TRUE, n))
          /\ Cardinality(Tally(v.runs, t, TRUE, n)) \in Nat /\ Cardinality(Tally(v.runs, since, TRUE, n)) \in Nat
      BY <2>4, Fewer
    <2>6. CyclesPerHour \in Nat
      BY DeskNumbers
    <2>7. Cardinality(Tally(v.runs, t, TRUE, n)) < CyclesPerHour
      <3>. DEFINE a == Cardinality(Tally(v.runs, t, TRUE, n))
                  b == Cardinality(Tally(v.runs, since, TRUE, n))
      <3>1. a \in Nat /\ b \in Nat /\ a <= b /\ b < CyclesPerHour
        BY <2>3, <2>5
      <3>. HIDE DEF a, b
      <3>2. a < CyclesPerHour
        BY <3>1, <2>6
      <3>. QED
        BY <3>2 DEF a
    <2>. QED
      BY <1>1, <2>7 DEF Limit
  <1>2. CASE ~hour
    <2>1. Completed(v, n) = Tally(v.runs, t, FALSE, n)
      BY DEF Completed, Tally, Counts
    <2>2. Cardinality(Completed(v, n)) < MaxCycles
      BY <1>2 DEF Eligible
    <2>. QED
      BY <1>2, <2>1, <2>2 DEF Limit
  <1>. QED
    BY <1>1, <1>2

-----------------------------------------------------------------------------
(* Steps. *)

\* Steps that search for nothing; sites are edited while no job has the lock.
LEMMA QuietKeeps ==
  ASSUME IInv, UNCHANGED <<now, runs, job, lock>>, operated' \in Nat, lock = Nil \/ UNCHANGED <<results, suggestions>>
  PROVE  IInv'
  <1>1. Typed' /\ Held'
    BY DEF IInv, Typed, Held, Task
  <1>2. Made' = Made /\ \A hour, n : Waiting(hour, n)' = Waiting(hour, n)
    BY DEF Made, Waiting
  <1>3. Within' /\ Ahead' /\ Fits'
    BY <1>2 DEF IInv, Within, Ahead, Fits
  <1>4. Respects'
    BY DEF IInv, Respects, Status, Committed
  <1>. QED
    BY <1>1, <1>3, <1>4 DEF IInv

LEMMA WaitingAfter ==
  ASSUME Typed, NEW j \in Job, NEW q, job' = [job EXCEPT ![j] = q]
  PROVE  \A hour, n : Waiting(hour, n)' = (Waiting(hour, n) \ {j}) \cup
                        (IF q.stage = "search" /\ (hour \/ q.story = n) THEN {j} ELSE {})
  BY JobBecomes DEF Waiting

LEMMA TasksAfter ==
  ASSUME Typed, NEW j \in Job, NEW q, Task(q), job' = [job EXCEPT ![j] = q],
         UNCHANGED <<now, runs>>, operated' \in Nat, lock' \in Job \cup {Nil}
  PROVE  Typed'
  BY JobBecomes DEF Typed, Task

\* A job that has not the lock and waits for no search.
LEMMA IdlingKeeps ==
  ASSUME IInv, NEW j \in Job, NEW q, Task(q), q.stage # "search", job' = [job EXCEPT ![j] = q], lock # j,
         UNCHANGED <<now, runs, results, suggestions, lock>>, operated' \in Nat
  PROVE  IInv'
  <1>1. Typed
    BY DEF IInv
  <1>2. Typed'
    BY <1>1, TasksAfter DEF Typed
  <1>3. lock # Nil => lock \in Job /\ job'[lock] = job[lock]
    BY <1>1, JobBecomes DEF Typed
  <1>4. \A hour, n : Waiting(hour, n)' = Waiting(hour, n) \ {j}
    <2>1. \A hour, n : Waiting(hour, n)' = (Waiting(hour, n) \ {j}) \cup
                         (IF q.stage = "search" /\ (hour \/ q.story = n) THEN {j} ELSE {})
      BY <1>1, WaitingAfter
    <2>2. \A hour, n : (Waiting(hour, n) \ {j}) \cup {} = Waiting(hour, n) \ {j}
      OBVIOUS
    <2>. QED
      BY <2>1, <2>2
  <1>5. \A hour, n : Cardinality(Waiting(hour, n)') <= Cardinality(Waiting(hour, n)) /\ Cardinality(Waiting(hour, n)') \in Nat
                     /\ Cardinality(Waiting(hour, n)) \in Nat
    BY <1>4, WaitingIsFinite, Fewer
  <1>6. Held' /\ Respects'
    BY <1>3 DEF IInv, Held, Respects, Status, Committed
  <1>7. Made' = Made
    BY <1>3 DEF Made
  <1>8. Within'
    <2>. SUFFICES ASSUME NEW hour \in BOOLEAN, NEW n
                  PROVE  Cardinality(Tally(Made, now, hour, n)) + Cardinality(Waiting(hour, n)')
                           <= Limit(hour) + Cardinality(Job) - 1
      BY <1>7 DEF Within
    <2>1. Cardinality(Tally(Made, now, hour, n)) + Cardinality(Waiting(hour, n)) <= Limit(hour) + Cardinality(Job) - 1
      BY DEF IInv, Within
    <2>2. Ledger(Made)
      BY DEF IInv, Made, Typed, Held
    <2>3. Cardinality(Tally(Made, now, hour, n)) \in Nat /\ Limit(hour) \in Nat
      BY <2>2, TallyIsFinite, LimitIsANumber
    <2>. QED
      BY <2>1, <2>3, <1>5, JobsAreFinite
  <1>9. Ahead'
    BY <1>3 DEF IInv, Ahead
  <1>10. Fits'
    BY <1>3, <1>4 DEF IInv, Fits
  <1>. QED
    BY <1>2, <1>6, <1>8, <1>9, <1>10 DEF IInv

\* Time goes on.
LEMMA TickKeeps ==
  ASSUME IInv, Tick
  PROVE  IInv'
  <1>1. now \in Nat /\ now' = now + 1 /\ now' \in Nat /\ now <= now'
    BY DEF Tick, IInv, Typed
  <1>2. UNCHANGED <<runs, results, suggestions, job, lock, operated>>
    BY DEF Tick, limits, searched
  <1>3. Typed'
    BY <1>1, <1>2 DEF IInv, Typed, Task
  <1>4. Held' /\ Respects'
    BY <1>2 DEF IInv, Held, Respects, Status, Committed
  <1>5. Made' = Made /\ Ledger(Made) /\ Ledger(runs) /\ (lock # Nil => Ledger(job[lock].view.runs) /\ Extends(job[lock].view.runs, runs))
    BY <1>2 DEF IInv, Made, Typed, Held
  <1>6. \A hour, n : Waiting(hour, n)' = Waiting(hour, n)
    BY <1>2 DEF Waiting
  <1>7. \A rs, hour, n : Ledger(rs) =>
          /\ Tally(rs, now', hour, n) \subseteq Tally(rs, now, hour, n)
          /\ Cardinality(Tally(rs, now', hour, n)) \in Nat /\ Cardinality(Tally(rs, now, hour, n)) \in Nat
          /\ Cardinality(Tally(rs, now', hour, n)) <= Cardinality(Tally(rs, now, hour, n))
    <2>. SUFFICES ASSUME NEW rs, NEW hour, NEW n, Ledger(rs)
         PROVE  /\ Tally(rs, now', hour, n) \subseteq Tally(rs, now, hour, n)
                /\ Cardinality(Tally(rs, now', hour, n)) \in Nat /\ Cardinality(Tally(rs, now, hour, n)) \in Nat
                /\ Cardinality(Tally(rs, now', hour, n)) <= Cardinality(Tally(rs, now, hour, n))
      OBVIOUS
    <2>1. Tally(rs, now', hour, n) \subseteq Tally(rs, now, hour, n)
      BY <1>1, TallyOfLater
    <2>. QED
      BY <2>1, TallyIsFinite, Fewer
  <1>8. Within'
    <2>. SUFFICES ASSUME NEW hour \in BOOLEAN, NEW n
                  PROVE  Cardinality(Tally(Made, now', hour, n)) + Cardinality(Waiting(hour, n))
                           <= Limit(hour) + Cardinality(Job) - 1
      BY <1>5, <1>6 DEF Within
    <2>1. Cardinality(Tally(Made, now, hour, n)) + Cardinality(Waiting(hour, n)) <= Limit(hour) + Cardinality(Job) - 1
      BY DEF IInv, Within
    <2>. QED
      BY <2>1, <1>5, <1>7, WaitingIsFinite, JobsAreFinite, LimitIsANumber
  <1>9. Ahead'
    <2>. SUFFICES ASSUME lock # Nil, NEW hour \in BOOLEAN, NEW n
         PROVE  LET mine == Tally(job[lock].view.runs, now', hour, n) IN
                Cardinality(mine) <= Limit(hour) \/ mine \subseteq Tally(runs, now', hour, n) \cup {Len(runs) + 1}
      BY <1>2 DEF Ahead
    <2>1. PICK rs : rs = job[lock].view.runs
      OBVIOUS
    <2>2. Ledger(rs) /\ Extends(rs, runs)
      BY <2>1, <1>5
    <2>3. Cardinality(Tally(rs, now, hour, n)) <= Limit(hour) \/ Tally(rs, now, hour, n) \subseteq Tally(runs, now, hour, n) \cup {Len(runs) + 1}
      BY <2>1 DEF IInv, Ahead
    <2>4. CASE Cardinality(Tally(rs, now, hour, n)) <= Limit(hour)
      BY <2>1, <2>2, <2>4, <1>7, LimitIsANumber
    <2>5. CASE Tally(rs, now, hour, n) \subseteq Tally(runs, now, hour, n) \cup {Len(runs) + 1}
      <3>1. Tally(rs, now', hour, n) \subseteq Tally(runs, now, hour, n) \cup {Len(runs) + 1}
        BY <2>2, <2>5, <1>7
      <3>2. ASSUME NEW r \in Tally(rs, now', hour, n), r # Len(runs) + 1
            PROVE  r \in Tally(runs, now', hour, n)
        <4>1. r \in DOMAIN runs
          BY <3>1, <3>2 DEF Tally
        <4>2. rs[r] = runs[r]
          BY <4>1, <2>2 DEF Extends
        <4>. QED
          BY <3>2, <4>1, <4>2 DEF Tally
      <3>. QED
        BY <3>2, <2>1
    <2>. QED
      BY <2>3, <2>4, <2>5
  <1>10. Fits'
    <2>. SUFFICES ASSUME lock # Nil, NEW hour \in BOOLEAN, NEW n, lock \in Waiting(hour, n)
         PROVE  Cardinality(Tally(job[lock].view.runs, now', hour, n)) < Limit(hour)
      BY <1>2, <1>6 DEF Fits
    <2>1. Cardinality(Tally(job[lock].view.runs, now, hour, n)) < Limit(hour)
      BY DEF IInv, Fits
    <2>. QED
      BY <2>1, <1>5, <1>7, LimitIsANumber
  <1>. QED
    BY <1>3, <1>4, <1>8, <1>9, <1>10 DEF IInv

LEMMA BeginKeeps ==
  ASSUME IInv, NEW j \in Job, NEW queue, NEW automatic, Begin(j, queue, automatic), operated' \in Nat
  PROVE  IInv'
  <1>1. PICK q : q = [Idle EXCEPT !.stage = "judge", !.queue = queue, !.automatic = automatic, !.since = now]
    OBVIOUS
  <1>2. Task(q) /\ q.stage = "judge"
    BY <1>1, BegunIs DEF IInv
  <1>3. job' = [job EXCEPT ![j] = q] /\ job[j].stage = "idle"
    BY <1>1 DEF Begin
  <1>4. lock # j
    BY <1>3, JobsAreFinite DEF IInv, Held
  <1>5. UNCHANGED <<now, runs, results, suggestions, lock>>
    BY DEF Begin, searched
  <1>. QED
    BY <1>2, <1>3, <1>4, <1>5, IdlingKeeps

\* A job judges a story on what it sees.
LEMMA JudgeKeeps ==
  ASSUME IInv, NEW j \in Job, Judge(j)
  PROVE  IInv'
  <1>1. /\ Typed /\ Held /\ Within /\ Ahead /\ Fits /\ Respects
        /\ UNCHANGED <<now, runs, results, suggestions, lock, operated>>
    BY DEF IInv, Judge, searched, limits
  <1>. DEFINE n0 == Best(job[j].queue)
              plans == IF Eligible(View(j), n0, job[j].since, job[j].automatic) THEN Plans(n0) ELSE {}
              stage == IF plans = {} THEN "judge" ELSE "search"
  <1>2. job' = [job EXCEPT ![j] = Judged(job[j], n0, plans)]
    BY DEF Judge
  <1>3. stage \in {"idle", "judge", "search"} /\ (stage = "search" => Eligible(View(j), n0, job[j].since, job[j].automatic))
    OBVIOUS
  <1>4. Task(job[j]) /\ job[j].since \in Nat /\ job[j].since <= now /\ now \in Nat
    BY <1>1 DEF Typed, Task
  <1>. HIDE DEF plans, n0
  <1>5. PICK q : q = Judged(job[j], n0, plans) /\ Task(q) /\ q.story = n0 /\ q.stage = stage /\ q.view = job[j].view
    BY <1>4, JudgedIs
  <1>. HIDE DEF stage
  <1>6. job' = [job EXCEPT ![j] = q]
    BY <1>2, <1>5
  <1>7. Typed'
    BY <1>1, <1>5, <1>6, TasksAfter DEF Typed
  <1>8. lock # Nil => lock \in Job /\ job'[lock].view = job[lock].view
    BY <1>1, <1>5, <1>6, JobBecomes DEF Typed
  <1>9. lock = j => q.stage # "idle"
    BY <1>5 DEF stage
  <1>10. Held'
    BY <1>1, <1>5, <1>6, <1>8, <1>9, JobBecomes DEF Held, Typed
  <1>11. Respects'
    BY <1>1, <1>8 DEF Respects, Status, Committed
  <1>12. Made' = Made /\ Ledger(Made) /\ Ledger(runs) /\ (lock # Nil => Ledger(job[lock].view.runs))
    BY <1>1, <1>8 DEF Made, Held, Typed
  <1>13. Ahead'
    BY <1>1, <1>8 DEF Ahead
  <1>14. PICK v : v = View(j)
    OBVIOUS
  <1>15. v.runs = IF lock = j THEN job[j].view.runs ELSE runs
    BY <1>14 DEF View, Committed
  <1>16. Ledger(v.runs)
    BY <1>12, <1>15, JobsAreFinite
  <1>17. \A hour \in BOOLEAN : \A n : stage = "search" /\ (hour \/ n = n0) => Cardinality(Tally(v.runs, now, hour, n)) < Limit(hour)
    BY <1>3, <1>4, <1>14, <1>16, EligibleIs
  <1>18. \A hour, n : Waiting(hour, n)' = (Waiting(hour, n) \ {j}) \cup
                         (IF q.stage = "search" /\ (hour \/ q.story = n) THEN {j} ELSE {})
    BY <1>1, <1>6, WaitingAfter
  <1>19. Fits'
    <2>. SUFFICES ASSUME lock # Nil, NEW hour \in BOOLEAN, NEW n, lock \in Waiting(hour, n)'
         PROVE  Cardinality(Tally(job[lock].view.runs, now, hour, n)) < Limit(hour)
      BY <1>1, <1>8 DEF Fits
    <2>1. CASE lock = j
      BY <2>1, <1>5, <1>15, <1>17, <1>18
    <2>2. CASE lock # j
      BY <2>2, <1>1, <1>18 DEF Fits
    <2>. QED
      BY <2>1, <2>2
  <1>20. Within'
    <2>. SUFFICES ASSUME NEW hour \in BOOLEAN, NEW n
                  PROVE  Cardinality(Tally(Made, now, hour, n)) + Cardinality(Waiting(hour, n)') <= Limit(hour) + Cardinality(Job) - 1
      BY <1>1, <1>12 DEF Within
    <2>1. Cardinality(Tally(Made, now, hour, n)) + Cardinality(Waiting(hour, n)) <= Limit(hour) + Cardinality(Job) - 1
      BY <1>1 DEF Within
    <2>2. /\ Cardinality(Tally(Made, now, hour, n)) \in Nat /\ Limit(hour) \in Nat
          /\ Cardinality(Waiting(hour, n)) \in Nat /\ IsFiniteSet(Waiting(hour, n)) /\ Cardinality(Job) \in Nat
      BY <1>12, TallyIsFinite, LimitIsANumber, WaitingIsFinite, JobsAreFinite
    <2>3. CASE ~(stage = "search" /\ (hour \/ n = n0))
      <3>1. Waiting(hour, n)' \subseteq Waiting(hour, n)
        BY <2>3, <1>5, <1>18
      <3>2. Cardinality(Waiting(hour, n)') \in Nat /\ Cardinality(Waiting(hour, n)') <= Cardinality(Waiting(hour, n))
        BY <3>1, <2>2, Fewer
      <3>. QED
        BY <3>2, <2>1, <2>2
    <2>4. CASE stage = "search" /\ (hour \/ n = n0)
      <3>1. Cardinality(Tally(v.runs, now, hour, n)) < Limit(hour)
        BY <2>4, <1>17
      <3>2. Waiting(hour, n)' \subseteq Job
        BY <1>18, WaitingIsFinite
      <3>3. Cardinality(Waiting(hour, n)') \in Nat /\ Cardinality(Waiting(hour, n)') <= Cardinality(Job)
        BY <3>2, JobsAreFinite, Fewer
      <3>4. CASE lock \in {Nil, j}
        <4>1. Made = v.runs
          BY <3>4, <1>15, JobsAreFinite DEF Made
        <4>. QED
          BY <4>1, <3>1, <3>3, <2>2
      <3>5. CASE lock \notin {Nil, j}
        <4>1. v.runs = runs /\ Made = job[lock].view.runs /\ lock \in Job
          BY <3>5, <1>8, <1>15 DEF Made
        <4>2. CASE lock \in Waiting(hour, n)
          <5>1. Cardinality(Tally(Made, now, hour, n)) < Limit(hour)
            BY <4>1, <4>2, <3>5, <1>1 DEF Fits
          <5>. QED
            BY <5>1, <3>3, <2>2
        <4>3. CASE lock \notin Waiting(hour, n)
          <5>1. Waiting(hour, n)' \subseteq Job \ {lock}
            BY <3>2, <3>5, <4>3, <1>18
          <5>2. IsFiniteSet(Job \ {lock}) /\ Cardinality(Job \ {lock}) = Cardinality(Job) - 1
            BY <4>1, JobsAreFinite, FS_RemoveElement
          <5>3. Cardinality(Waiting(hour, n)') <= Cardinality(Job) - 1
            BY <5>1, <5>2, Fewer
          <5>4. Cardinality(Tally(Made, now, hour, n)) <= Limit(hour)
            <6>1. CASE Tally(Made, now, hour, n) \subseteq Tally(runs, now, hour, n) \cup {Len(runs) + 1}
              <7>1. /\ Cardinality(Tally(Made, now, hour, n)) <= Cardinality(Tally(runs, now, hour, n)) + 1
                    /\ Cardinality(Tally(runs, now, hour, n)) \in Nat
                BY <6>1, <1>12, TallyIsFinite, OneMore
              <7>2. Cardinality(Tally(runs, now, hour, n)) < Limit(hour)
                BY <3>1, <4>1
              <7>. QED
                BY <7>1, <7>2, <2>2
            <6>. QED
              BY <6>1, <4>1, <3>5, <1>1 DEF Ahead
          <5>. QED
            BY <5>3, <5>4, <3>3, <2>2
        <4>. QED
          BY <4>2, <4>3
      <3>. QED
        BY <3>4, <3>5
    <2>. QED
      BY <2>3, <2>4
  <1>. QED
    BY <1>7, <1>10, <1>11, <1>13, <1>19, <1>20 DEF IInv

\* What a search writes: one run, nothing accepted of a site it knows to be
\* blocked, and no decision about such a site.
LEMMA SuggestedIs ==
  ASSUME NEW v, NEW rows, NEW d \in Domain, Status(v, d) = "blocked"
  PROVE  Suggested(v, rows)[d] = v.suggestions[d]
  BY DEF Suggested

LEMMA SearchedIs ==
  ASSUME NEW v, NEW n, NEW plans, NEW fails, NEW since
  PROVE  LET new == Searched(v, n, plans, fails, since) IN
         /\ \E x : x.status \in Counted /\ x.story = n /\ x.started = since /\ new.runs = Append(v.runs, x)
         /\ \A d \in Domain : Status(v, d) = "blocked" => Status(new, d) = "blocked"
         /\ \A x \in new.results \ v.results : x.accepted => Status(v, Site[x.text]) # "blocked"
  <1>. DEFINE r == Len(v.runs) + 1
              asked == {q \in plans : Cached(v, q, since) = {}}
              answer == [q \in plans |-> IF q \in fails THEN {} ELSE IF q \in asked THEN Found(q) ELSE Cached(v, q, since)]
              first == [t \in UNION {answer[q] : q \in plans} |->
                          IF \E q \in plans : q[1] = "phrase" /\ t \in answer[q]
                          THEN CHOOSE q \in plans : q[1] = "phrase" ELSE CHOOSE q \in plans : q[1] = "topic"]
              rows == {NewResult(r, n, first[t], t, Accepts(v, n, t), since) : t \in DOMAIN first}
              status == IF fails = {} THEN "completed" ELSE IF \E x \in rows : x.accepted THEN "partial" ELSE "failed"
              requests == Cardinality(asked \ fails)
  <1>1. Searched(v, n, plans, fails, since) =
          [runs |-> Append(v.runs, NewRun(n, status, requests, since)),
           results |-> v.results \cup rows, suggestions |-> Suggested(v, v.results \cup rows)]
    BY DEF Searched
  <1>2. status \in Counted
    BY DEF Counted
  <1>3. \A x \in rows : x.accepted => Status(v, Site[x.text]) # "blocked"
    <2>1. SUFFICES ASSUME NEW t \in DOMAIN first, NEW x, x = NewResult(r, n, first[t], t, Accepts(v, n, t), since), x.accepted
                   PROVE  Status(v, Site[x.text]) # "blocked"
      OBVIOUS
    <2>2. x.text = t /\ x.accepted = Accepts(v, n, t)
      BY <2>1 DEF NewResult
    <2>. QED
      BY <2>1, <2>2 DEF Accepts
  <1>. HIDE DEF rows, status, requests
  <1>4. PICK new : new = Searched(v, n, plans, fails, since)
    OBVIOUS
  <1>5. PICK x : x = NewRun(n, status, requests, since)
    OBVIOUS
  <1>6. x.status \in Counted /\ x.story = n /\ x.started = since
    BY <1>2, <1>5 DEF NewRun
  <1>7. /\ new.runs = Append(v.runs, x) /\ new.results = v.results \cup rows
        /\ new.suggestions = Suggested(v, v.results \cup rows)
    BY <1>1, <1>4, <1>5
  <1>8. \A d \in Domain : Status(v, d) = "blocked" => Status(new, d) = "blocked"
    BY <1>7, SuggestedIs DEF Status
  <1>. QED
    BY <1>3, <1>4, <1>6, <1>7, <1>8

\* A job searches for the story it judged.
LEMMA SearchKeeps ==
  ASSUME IInv, NEW j \in Job, Search(j)
  PROVE  IInv'
  <1>1. /\ Typed /\ Held /\ Within /\ Ahead /\ Fits /\ Respects
        /\ UNCHANGED <<now, runs, results, suggestions>> /\ lock' = j /\ lock \in {Nil, j}
        /\ job[j].stage = "search" /\ j # Nil
    BY JobsAreFinite DEF IInv, Search, searched
  <1>2. operated' \in Nat
    BY <1>1 DEF Search, limits, Fault, Typed
  <1>3. PICK v : v = View(j)
    OBVIOUS
  <1>4. /\ v.runs = IF lock = j THEN job[j].view.runs ELSE runs
        /\ v.results = IF lock = j THEN job[j].view.results ELSE results
        /\ \A d \in Domain : Status(v, d) = IF lock = j THEN Status(job[j].view, d) ELSE Status(Committed, d)
    BY <1>3 DEF View, Committed
  <1>5. PICK fails, view : /\ view = Searched(v, job[j].story, job[j].plans, fails, job[j].since)
                           /\ job' = [job EXCEPT ![j] = Answered(job[j], view)]
    BY <1>3 DEF Search
  <1>6. Task(job[j]) /\ job[j].since \in Nat /\ now \in Nat
    BY <1>1 DEF Typed, Task
  <1>7. PICK q : q = Answered(job[j], view) /\ Task(q) /\ q.stage = "judge" /\ q.view = view
    BY <1>6, AnsweredIs
  <1>8. job' = [job EXCEPT ![j] = q]
    BY <1>5, <1>7
  <1>9. PICK x : x.status \in Counted /\ x.story = job[j].story /\ x.started = job[j].since /\ view.runs = Append(v.runs, x)
    BY <1>5, SearchedIs
  <1>10. /\ \A d \in Domain : Status(v, d) = "blocked" => Status(view, d) = "blocked"
         /\ \A y \in view.results \ v.results : y.accepted => Status(v, Site[y.text]) # "blocked"
    BY <1>5, SearchedIs
  <1>11. Typed'
    BY <1>1, <1>2, <1>7, <1>8, TasksAfter DEF Typed
  <1>12. job'[lock'] = q
    BY <1>1, <1>8, JobBecomes
  <1>13. Ledger(v.runs) /\ Ledger(runs) /\ Extends(v.runs, runs) /\ Made = v.runs
    BY <1>1, <1>4 DEF Held, Typed, Made, Extends, Ledger
  <1>14. x.started \in Int
    BY <1>6, <1>9
  <1>15. /\ Ledger(view.runs) /\ Extends(view.runs, v.runs) /\ Len(v.runs) \in Nat
         /\ DOMAIN v.runs = 1..Len(v.runs) /\ DOMAIN view.runs = 1..(Len(v.runs) + 1)
    BY <1>9, <1>13, <1>14, LedgerGrows
  <1>16. Len(view.runs) \in Nat /\ Len(runs) \in Nat /\ DOMAIN runs = 1..Len(runs)
    BY <1>13, <1>15 DEF Ledger
  <1>17. Extends(view.runs, runs)
    BY <1>13, <1>15, <1>16 DEF Extends
  <1>18. Held'
    BY <1>1, <1>7, <1>12, <1>15, <1>17 DEF Held
  <1>19. Made' = view.runs
    BY <1>1, <1>7, <1>12 DEF Made
  <1>20. \A hour, n : Waiting(hour, n)' = Waiting(hour, n) \ {j}
    <2>1. \A hour, n : Waiting(hour, n)' = (Waiting(hour, n) \ {j}) \cup
                         (IF q.stage = "search" /\ (hour \/ q.story = n) THEN {j} ELSE {})
      BY <1>1, <1>8, WaitingAfter
    <2>2. \A hour, n : (Waiting(hour, n) \ {j}) \cup {} = Waiting(hour, n) \ {j}
      OBVIOUS
    <2>. QED
      BY <1>7, <2>1, <2>2
  <1>21. \A hour \in BOOLEAN : \A n : j \in Waiting(hour, n) <=> hour \/ job[j].story = n
    BY <1>1 DEF Waiting
  <1>22. \A hour, n : /\ Tally(view.runs, now, hour, n) \subseteq Tally(v.runs, now, hour, n) \cup {Len(v.runs) + 1}
                      /\ ~Counts(x, now, hour, n) => Tally(view.runs, now, hour, n) = Tally(v.runs, now, hour, n)
    BY <1>9, <1>13, <1>14, TallyOfOneMore
  <1>23. \A hour \in BOOLEAN : \A n : j \notin Waiting(hour, n) => Tally(view.runs, now, hour, n) = Tally(v.runs, now, hour, n)
    BY <1>9, <1>21, <1>22 DEF Counts
  <1>24. \A hour \in BOOLEAN : \A n :
           /\ Cardinality(Tally(v.runs, now, hour, n)) \in Nat /\ Cardinality(Tally(view.runs, now, hour, n)) \in Nat
           /\ Cardinality(Tally(view.runs, now, hour, n)) <= Cardinality(Tally(v.runs, now, hour, n)) + 1
    BY <1>13, <1>22, TallyIsFinite, OneMore
  <1>25. Within'
    <2>. SUFFICES ASSUME NEW hour \in BOOLEAN, NEW n
                  PROVE  Cardinality(Tally(view.runs, now, hour, n)) + Cardinality(Waiting(hour, n)')
                           <= Limit(hour) + Cardinality(Job) - 1
      BY <1>1, <1>19 DEF Within
    <2>1. Cardinality(Tally(v.runs, now, hour, n)) + Cardinality(Waiting(hour, n)) <= Limit(hour) + Cardinality(Job) - 1
      BY <1>1, <1>13 DEF Within
    <2>2. /\ Limit(hour) \in Nat /\ Cardinality(Waiting(hour, n)) \in Nat
          /\ IsFiniteSet(Waiting(hour, n)) /\ Cardinality(Job) \in Nat
      BY LimitIsANumber, WaitingIsFinite, JobsAreFinite
    <2>3. Cardinality(Waiting(hour, n)') = IF j \in Waiting(hour, n) THEN Cardinality(Waiting(hour, n)) - 1
                                           ELSE Cardinality(Waiting(hour, n))
      BY <1>20, <2>2, FS_RemoveElement
    <2>4. CASE j \in Waiting(hour, n)
      BY <2>1, <2>2, <2>3, <2>4, <1>24
    <2>5. CASE j \notin Waiting(hour, n)
      BY <2>1, <2>2, <2>3, <2>5, <1>23, <1>24
    <2>. QED
      BY <2>4, <2>5
  <1>26. Ahead'
    <2>. SUFFICES ASSUME NEW hour \in BOOLEAN, NEW n
         PROVE  \/ Cardinality(Tally(view.runs, now, hour, n)) <= Limit(hour)
                \/ Tally(view.runs, now, hour, n) \subseteq Tally(runs, now, hour, n) \cup {Len(runs) + 1}
      BY <1>1, <1>7, <1>12 DEF Ahead
    <2>1. CASE lock = Nil
      BY <2>1, <1>1, <1>4, <1>22
    <2>2. CASE lock = j /\ j \in Waiting(hour, n)
      <3>1. Cardinality(Tally(v.runs, now, hour, n)) < Limit(hour)
        BY <2>2, <1>1, <1>4 DEF Fits
      <3>. QED
        BY <3>1, <1>24, LimitIsANumber
    <2>3. CASE lock = j /\ j \notin Waiting(hour, n)
      BY <2>3, <1>1, <1>4, <1>23 DEF Ahead
    <2>. QED
      BY <2>1, <2>2, <2>3, <1>1
  <1>27. Fits'
    BY <1>1, <1>20 DEF Fits
  <1>28. Respects'
    <2>1. \A d \in Domain : Status(Committed, d) = "blocked" =>
            Status(v, d) = "blocked" /\ \A y \in v.results \ results : Site[y.text] = d => ~y.accepted
      BY <1>1, <1>4 DEF Respects
    <2>2. \A d \in Domain : Status(v, d) = "blocked" =>
            Status(view, d) = "blocked" /\ \A y \in view.results \ v.results : Site[y.text] = d => ~y.accepted
      BY <1>10
    <2>3. \A d \in Domain : Status(Committed, d) = "blocked" =>
            Status(view, d) = "blocked" /\ \A y \in view.results \ results : Site[y.text] = d => ~y.accepted
      BY <2>1, <2>2
    <2>5. \A d : Status(Committed, d)' = Status(Committed, d)
      BY <1>1 DEF Committed, Status
    <2>. QED
      BY <2>3, <2>5, <1>1, <1>7, <1>12 DEF Respects
  <1>. QED
    BY <1>11, <1>18, <1>25, <1>26, <1>27, <1>28 DEF IInv

\* A job that ends, with what it wrote or without.
LEMMA FreedKeeps ==
  ASSUME IInv, NEW j \in Job, lock = j, job' = [job EXCEPT ![j] = Idle], lock' = Nil, now' = now, operated' \in Nat,
         \/ UNCHANGED <<runs, results, suggestions>>
         \/ runs' = job[j].view.runs /\ job[j].stage # "search"
  PROVE  IInv'
  <1>1. Typed /\ Held /\ Within /\ j # Nil
    BY JobsAreFinite DEF IInv
  <1>2. Ledger(runs) /\ Ledger(job[j].view.runs) /\ Extends(job[j].view.runs, runs) /\ Made = job[j].view.runs
    BY <1>1 DEF Typed, Held, Made
  <1>3. Task(Idle) /\ Idle.stage = "idle"
    BY <1>1, IdleIsATask
  <1>4. Typed'
    BY <1>1, <1>2, <1>3, JobBecomes DEF Typed, Task
  <1>5. Held' /\ Ahead' /\ Fits' /\ Respects'
    BY DEF Held, Ahead, Fits, Respects
  <1>6. \A hour, n : Waiting(hour, n)' \subseteq Waiting(hour, n)
    <2>1. \A hour, n : Waiting(hour, n)' = (Waiting(hour, n) \ {j}) \cup
                         (IF Idle.stage = "search" /\ (hour \/ Idle.story = n) THEN {j} ELSE {})
      BY <1>1, WaitingAfter
    <2>. QED
      BY <2>1, <1>3
  <1>7. Made' = runs' /\ runs' \in {runs, job[j].view.runs}
    BY DEF Made
  <1>8. Within'
    <2>. SUFFICES ASSUME NEW hour \in BOOLEAN, NEW n
                  PROVE  Cardinality(Tally(runs', now, hour, n)) + Cardinality(Waiting(hour, n)')
                           <= Limit(hour) + Cardinality(Job) - 1
      BY <1>7 DEF Within
    <2>1. Cardinality(Tally(job[j].view.runs, now, hour, n)) + Cardinality(Waiting(hour, n)) <= Limit(hour) + Cardinality(Job) - 1
      BY <1>1, <1>2 DEF Within
    <2>2. Tally(runs', now, hour, n) \subseteq Tally(job[j].view.runs, now, hour, n)
      BY <1>2, <1>7, TallyOfLonger
    <2>3. /\ Cardinality(Tally(runs', now, hour, n)) <= Cardinality(Tally(job[j].view.runs, now, hour, n))
          /\ Cardinality(Tally(runs', now, hour, n)) \in Nat /\ Cardinality(Tally(job[j].view.runs, now, hour, n)) \in Nat
      BY <2>2, <1>2, TallyIsFinite, Fewer
    <2>4. /\ Cardinality(Waiting(hour, n)') <= Cardinality(Waiting(hour, n))
          /\ Cardinality(Waiting(hour, n)') \in Nat /\ Cardinality(Waiting(hour, n)) \in Nat
      BY <1>6, WaitingIsFinite, Fewer
    <2>. QED
      BY <2>1, <2>3, <2>4, LimitIsANumber, JobsAreFinite
  <1>. QED
    BY <1>4, <1>5, <1>8 DEF IInv

LEMMA CommitKeeps ==
  ASSUME IInv, NEW j \in Job, Commit(j)
  PROVE  IInv'
  <1>1. job' = [job EXCEPT ![j] = Idle] /\ UNCHANGED <<now, operated>> /\ job[j].stage = "judge"
    BY DEF Commit, limits
  <1>2. operated' \in Nat
    BY <1>1 DEF IInv, Typed
  <1>3. CASE lock = j
    BY <1>1, <1>2, <1>3, FreedKeeps DEF Commit
  <1>4. CASE lock # j
    <2>1. UNCHANGED <<now, runs, results, suggestions, lock>>
      BY <1>4 DEF Commit, searched
    <2>2. Task(Idle) /\ Idle.stage = "idle"
      BY IdleIsATask DEF IInv
    <2>. QED
      BY <1>1, <1>2, <1>4, <2>1, <2>2, IdlingKeeps
  <1>. QED
    BY <1>3, <1>4

LEMMA AbortKeeps ==
  ASSUME IInv, NEW j \in Job, Abort(j)
  PROVE  IInv'
  <1>1. job' = [job EXCEPT ![j] = Idle] /\ UNCHANGED <<now, operated, runs, results, suggestions>>
    BY DEF Abort, Fault, searched
  <1>2. operated' \in Nat
    BY <1>1 DEF IInv, Typed
  <1>3. CASE lock = j
    BY <1>1, <1>2, <1>3, FreedKeeps DEF Abort
  <1>4. CASE lock # j
    <2>1. UNCHANGED lock
      BY <1>4 DEF Abort
    <2>2. Task(Idle) /\ Idle.stage = "idle"
      BY IdleIsATask DEF IInv
    <2>. QED
      BY <1>1, <1>2, <1>4, <2>1, <2>2, IdlingKeeps
  <1>. QED
    BY <1>3, <1>4

LEMMA InitIInv == Init => IInv
  <1>. SUFFICES ASSUME Init PROVE IInv
    OBVIOUS
  <1>1. runs = <<>> /\ now = 0 /\ operated = 0 /\ lock = Nil /\ job = [j \in Job |-> Idle]
    BY DEF Init
  <1>2. Ledger(runs) /\ DOMAIN runs = {}
    BY <1>1 DEF Ledger
  <1>3. Typed
    <2>1. now \in Nat /\ operated \in Nat /\ lock \in Job \cup {Nil} /\ DOMAIN job = Job
      BY <1>1
    <2>2. Task(Idle)
      BY <1>1 DEF Task, Idle
    <2>3. \A j \in Job : job[j] = Idle
      BY <1>1
    <2>. QED
      BY <1>2, <2>1, <2>2, <2>3 DEF Typed
  <1>4. Held /\ Ahead /\ Fits /\ Respects
    BY <1>1 DEF Held, Ahead, Fits, Respects
  <1>5. \A hour, n : Tally(runs, now, hour, n) = {} /\ Waiting(hour, n) = {}
    BY <1>1, <1>2 DEF Tally, Waiting, Idle
  <1>6. Within
    <2>. SUFFICES ASSUME NEW hour \in BOOLEAN, NEW n
                  PROVE  Cardinality(Tally(runs, now, hour, n)) + Cardinality(Waiting(hour, n)) <= Limit(hour) + Cardinality(Job) - 1
      BY <1>1 DEF Within, Made
    <2>1. Cardinality({}) = 0
      BY FS_EmptySet
    <2>2. Cardinality(Tally(runs, now, hour, n)) = 0 /\ Cardinality(Waiting(hour, n)) = 0
      BY <1>5, <2>1
    <2>. QED
      BY <2>2, LimitIsANumber, JobsAreFinite
  <1>. QED
    BY <1>3, <1>4, <1>6 DEF IInv

\* What edits leave as it is for the searches.
LEMMA EditsAreQuiet ==
  ASSUME IInv,
         \/ SeedAtStart \/ CreateEvidence \/ Backfill \/ TopicCreate \/ TopicUpdate \/ TopicDelete \/ EvidenceCommand
         \/ BackfillRequest \/ BackfillCommand \/ SetSeen \/ SettingsUpdate \/ BlockDomain \/ PromoteResult \/ AddSuggestedSource
  PROVE  lock = Nil /\ UNCHANGED <<now, runs, results, job, lock>> /\ operated' \in {operated, operated + 1}
  BY DEF SeedAtStart, CreateEvidence, Backfill, TopicCreate, TopicUpdate, TopicDelete, EvidenceCommand,
         BackfillRequest, BackfillCommand, SetSeen, SettingsUpdate, BlockDomain, PromoteResult, AddSuggestedSource,
         TakeIn, Operator, searched, limits

LEMMA NextIInv == IInv /\ [Next]_vars => IInv'
  <1>. SUFFICES ASSUME IInv, [Next]_vars PROVE IInv'
    OBVIOUS
  <1>0. operated \in Nat
    BY DEF IInv, Typed
  <1>1. CASE Tick
    BY <1>1, TickKeeps
  <1>2. CASE \/ SeedAtStart \/ CreateEvidence \/ Backfill \/ TopicCreate \/ TopicUpdate \/ TopicDelete \/ EvidenceCommand
             \/ BackfillRequest \/ BackfillCommand \/ SetSeen \/ SettingsUpdate \/ BlockDomain \/ PromoteResult \/ AddSuggestedSource
    BY <1>0, <1>2, EditsAreQuiet, QuietKeeps
  <1>3. CASE RunEligible
    BY <1>0, <1>3, BeginKeeps, DeskNumbers DEF RunEligible, limits
  <1>4. ASSUME NEW j \in Job, DiscoverCommand(j) \/ DiscoverRequest(j)
        PROVE  IInv'
    <2>1. Operator /\ \E queue, automatic : Begin(j, queue, automatic)
      BY <1>4 DEF DiscoverCommand, DiscoverRequest
    <2>2. operated' \in Nat
      BY <1>0, <2>1 DEF Operator
    <2>. QED
      BY <2>1, <2>2, BeginKeeps
  <1>5. ASSUME NEW j \in Job, Work(j) \/ Abort(j)
        PROVE  IInv'
    BY <1>5, JudgeKeeps, SearchKeeps, CommitKeeps, AbortKeeps DEF Work
  <1>6. CASE UNCHANGED vars
    BY <1>0, <1>6, QuietKeeps DEF vars, searched, limits
  <1>. QED
    BY <1>1, <1>2, <1>3, <1>4, <1>5, <1>6 DEF Next, Request

LEMMA SpecIInv == Spec => []IInv
  BY InitIInv, NextIInv, PTL DEF Spec

-----------------------------------------------------------------------------
(* Theorems *)

\* The searches of an hour, and those that completed for a story, exceed their
\* number by at most one for every other job, whatever the jobs judged on.
THEOREM SearchesStayInBudget == Spec => []BudgetHolds
  <1>1. IInv => BudgetHolds
    <2>. SUFFICES ASSUME IInv PROVE BudgetHolds
      OBVIOUS
    <2>1. Typed /\ Held /\ Within
      BY DEF IInv
    <2>2. Ledger(runs) /\ Ledger(Made) /\ Extends(Made, runs)
      BY <2>1 DEF Typed, Held, Made, Extends, Ledger
    <2>3. \A hour \in BOOLEAN : \A n : Cardinality(Tally(runs, now, hour, n)) <= Limit(hour) + Cardinality(Job) - 1
      <3>. SUFFICES ASSUME NEW hour \in BOOLEAN, NEW n
                    PROVE  Cardinality(Tally(runs, now, hour, n)) <= Limit(hour) + Cardinality(Job) - 1
        OBVIOUS
      <3>1. Cardinality(Tally(Made, now, hour, n)) + Cardinality(Waiting(hour, n)) <= Limit(hour) + Cardinality(Job) - 1
        BY <2>1 DEF Within
      <3>2. Tally(runs, now, hour, n) \subseteq Tally(Made, now, hour, n) /\ IsFiniteSet(Tally(Made, now, hour, n))
        BY <2>2, TallyOfLonger, TallyIsFinite
      <3>3. /\ Cardinality(Tally(runs, now, hour, n)) <= Cardinality(Tally(Made, now, hour, n))
            /\ Cardinality(Tally(runs, now, hour, n)) \in Nat /\ Cardinality(Tally(Made, now, hour, n)) \in Nat
        BY <3>2, Fewer
      <3>. QED
        BY <3>1, <3>3, WaitingIsFinite, LimitIsANumber, JobsAreFinite
    <2>4. \A n : Started(Committed, now) = Tally(runs, now, TRUE, n) /\ Completed(Committed, n) = Tally(runs, now, FALSE, n)
      BY DEF Started, Completed, Committed, Tally, Counts
    <2>5. Cardinality(Started(Committed, now)) <= CyclesPerHour + Cardinality(Job) - 1
      BY <2>3, <2>4 DEF Limit
    <2>6. \A n : Cardinality(Completed(Committed, n)) <= MaxCycles + Cardinality(Job) - 1
      BY <2>3, <2>4 DEF Limit
    <2>. QED
      BY <2>5, <2>6 DEF BudgetHolds
  <1>. QED
    BY <1>1, SpecIInv, PTL

\* No search, and no processing of evidence, takes the decision about a site
\* back, and none commits a result of a blocked site as accepted.
THEOREM BlockedSitesStayOut == Spec => BlockedStaysOut
  <1>. DEFINE A == \A d \in Domain :
                     /\ Status(Committed, d) = "blocked" /\ operated' = operated => Status(Committed, d)' = "blocked"
                     /\ Status(Committed, d) = "blocked" => \A x \in results' \ results : Site[x.text] = d => ~x.accepted
  <1>1. IInv /\ [Next]_vars => A
    <2>. SUFFICES ASSUME IInv, [Next]_vars, NEW d \in Domain, Status(Committed, d) = "blocked"
                  PROVE  /\ operated' = operated => Status(Committed, d)' = "blocked"
                         /\ \A x \in results' \ results : Site[x.text] = d => ~x.accepted
      OBVIOUS
    <2>1. suggestions[d] # Nil /\ suggestions[d].status = "blocked" /\ Nil # "blocked" /\ operated \in Nat
      BY DeskJobs DEF Status, Committed, IInv, Typed
    <2>2. Status(Committed, d)' = IF suggestions'[d] = Nil THEN Nil ELSE suggestions'[d].status
      BY DEF Status, Committed
    <2>3. ASSUME suggestions'[d] = suggestions[d]
          PROVE  Status(Committed, d)' = "blocked"
      BY <2>1, <2>2, <2>3
    <2>4. ASSUME NEW pieces, TakeIn(pieces)
          PROVE  suggestions'[d] = suggestions[d]
      <3>1. WithLeads(pieces)[d] = suggestions[d]
        BY <2>1 DEF WithLeads
      <3>. QED
        BY <2>4, <3>1 DEF TakeIn
    <2>5. CASE \/ SeedAtStart \/ CreateEvidence \/ Backfill \/ TopicCreate \/ TopicUpdate \/ TopicDelete \/ EvidenceCommand
               \/ BackfillRequest \/ BackfillCommand \/ SetSeen \/ SettingsUpdate \/ BlockDomain \/ PromoteResult \/ AddSuggestedSource
      <3>1. UNCHANGED results
        BY <2>5, EditsAreQuiet
      <3>2. CASE SeedAtStart \/ TopicCreate \/ TopicUpdate \/ TopicDelete \/ EvidenceCommand \/ SetSeen \/ SettingsUpdate
        BY <2>3, <3>1, <3>2 DEF SeedAtStart, TopicCreate, TopicUpdate, TopicDelete, EvidenceCommand, SetSeen, SettingsUpdate, searched
      <3>3. CASE CreateEvidence \/ Backfill \/ BackfillRequest \/ BackfillCommand
        BY <2>3, <2>4, <3>1, <3>3 DEF CreateEvidence, Backfill, BackfillRequest, BackfillCommand
      <3>4. CASE BlockDomain \/ PromoteResult \/ AddSuggestedSource
        <4>1. operated' # operated
          BY <2>1, <3>4 DEF BlockDomain, PromoteResult, AddSuggestedSource, Operator
        <4>. QED
          BY <3>1, <4>1
      <3>. QED
        BY <2>5, <3>2, <3>3, <3>4
    <2>6. CASE Tick \/ RunEligible \/ UNCHANGED vars \/ \E j \in Job : DiscoverCommand(j) \/ DiscoverRequest(j) \/ Judge(j) \/ Search(j) \/ Abort(j)
      <3>1. UNCHANGED <<suggestions, results>>
        BY <2>6 DEF Tick, RunEligible, vars, DiscoverCommand, DiscoverRequest, Judge, Search, Abort, Begin, searched
      <3>. QED
        BY <2>3, <3>1
    <2>7. ASSUME NEW j \in Job, Commit(j)
          PROVE  Status(Committed, d)' = "blocked" /\ \A x \in results' \ results : Site[x.text] = d => ~x.accepted
      <3>1. CASE lock = j
        <4>1. suggestions' = job[j].view.suggestions /\ results' = job[j].view.results
          BY <2>7, <3>1 DEF Commit
        <4>2. Status(job[j].view, d) = "blocked" /\ \A x \in job[j].view.results \ results : Site[x.text] = d => ~x.accepted
          BY <3>1, JobsAreFinite DEF IInv, Respects
        <4>3. Status(Committed, d)' = Status(job[j].view, d)
          BY <2>2, <4>1 DEF Status
        <4>. QED
          BY <4>1, <4>2, <4>3
      <3>2. CASE lock # j
        BY <2>3, <2>7, <3>2 DEF Commit, searched
      <3>. QED
        BY <3>1, <3>2
    <2>. QED
      BY <2>5, <2>6, <2>7 DEF Next, Request, Work
  <1>. QED
    BY <1>1, SpecIInv, PTL DEF Spec, BlockedStaysOut
=============================================================================
